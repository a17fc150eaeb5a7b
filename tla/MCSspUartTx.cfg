\* One FIFO slot per half, both RS-232 modes, no software formats but 8N1 and
\* 7E2: the idle bus produces all the sixteen.
SPECIFICATION FairSpec
CONSTANTS
    Half = 1
    Mode = {0, 1}
    Format = {0, 15}
    Ids = 5
INVARIANTS
    TypeOK
    FrameAsConfigured
    NothingLost
PROPERTIES
    FramesInOrder
    AcceptedIsSent
