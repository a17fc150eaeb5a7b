\* A FIFO of four words: long enough that "half full", "one word left" and
\* "full" are different states, and that the pointers wrap.
SPECIFICATION Spec
CONSTANTS
    Half = 2
    Word = {w0, w1}
INVARIANTS
    TypeOK
    FlagsExact
    PointersAgree
PROPERTY
    ImplementsQueue
