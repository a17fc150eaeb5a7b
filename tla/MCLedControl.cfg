\* Two threads under a fair scheduler; a character for each command ('0' to
\* '3') and one that is none of them, a line feed.
SPECIFICATION FairSpec
CONSTANTS
    Char = {48, 49, 50, 51, 10}
    NoChar = NoChar
    Workers = {w1, w2}
INVARIANTS
    TypeOK
    NoCommandBeforeChar
    ReadyIsUntaken
PROPERTIES
    OwnLampObeys
    UndisturbedIsAtomic
    CommandCompletes
