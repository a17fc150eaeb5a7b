\* CTS withdrawn while a frame is on the line and more words wait.
SPECIFICATION FairSpec
CONSTANTS
    Half = 1
    Mode = {0, 1}
    Format = {0, 15}
    Ids = 5
PROPERTY
    NoFrameWithoutCTS
