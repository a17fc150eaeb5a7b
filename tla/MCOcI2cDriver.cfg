SPECIFICATION FairSpec
CONSTANTS
    MaxByte = 1
    Faults = 2
INVARIANTS
    TypeOK
    CommandsOnlyToAnIdleCore
    BusReleasedBetweenCalls
PROPERTIES
    DeviceBehaviour
    CallsReturn
