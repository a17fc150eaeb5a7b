\* The shortest instance in which a byte is read before it has arrived.
SPECIFICATION Spec
CONSTANTS
    Half = 4
    Bytes = 6
INVARIANT
    ReadDoneMeansReceived
