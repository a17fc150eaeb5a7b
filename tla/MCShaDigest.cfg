\* Two messages of three blocks; two words a block instead of 16 and eight
\* rounds instead of 64, the proportion of the bus clocks a block takes to the
\* core clocks it lasts being about the same.
SPECIFICATION FairSpec
CONSTANTS
    Rounds = 8
    Blocks = 3
    Words = 2
    DigestWords = 2
    FifoDepth = 7
    MaxPending = 2
    MaxRatio = 2
    Runs = 2
INVARIANTS
    TypeOK
    DigestRightUnlessLate
PROPERTIES
    BlocksHandedOver
    CheckDoneReturns
