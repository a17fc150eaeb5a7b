\* Every length of a text that fits the program's char[1024].
SPECIFICATION Spec
CONSTANT MaxLength = 1023
\* Padding returns.
CHECK_DEADLOCK FALSE
INVARIANTS
    TypeOK
    PaddingRight
