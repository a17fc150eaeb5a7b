\* The smallest FIFO that shows each receive status; two readings.
SPECIFICATION FairSpec
CONSTANTS
    Depth = 3
    Half = 2
    Target = 2
INVARIANTS
    TypeOK
    BreakGivesOneWord
PROPERTIES
    FramesDelivered
    ReadTakesHead
    TimeoutFlagStays
    PollingIsServed
