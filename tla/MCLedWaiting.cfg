\* A thread that sampled RRDY clear, and a character that arrives afterwards.
SPECIFICATION FairSpec
CONSTANTS
    Char = {49, 50}
    NoChar = NoChar
    Workers = {w1, w2}
PROPERTY
    WaitingThreadWakes
