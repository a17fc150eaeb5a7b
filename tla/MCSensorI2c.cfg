\* FIFOs of 64 entries, a quarter of the real ones, and six bytes per reading: the
\* program can be several rounds ahead of a slow bus, ten readings fill a FIFO.
SPECIFICATION FairSpec
CONSTANTS
    Half = 32
    Bytes = 6
INVARIANTS
    TypeOK
    NoCommandDropped
    CommandsInPlace
    EveryMissLeavesAByte
    NoByteDropped
PROPERTIES
    ReadingShifted
    RefusalIsForever
    RoundsComplete
