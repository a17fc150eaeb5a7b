\* Words written with the hold bit until the FIFO is full, then without.
SPECIFICATION ReleasingSpec
CONSTANTS
    Half = 1
    Mode = {0, 1}
    Format = {0, 15}
    Ids = 5
PROPERTY
    HoldEndsWhenFilled
