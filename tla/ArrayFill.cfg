\* Arrays nested three deep, every level 0, 1 or 2 long.
SPECIFICATION Spec
CONSTANTS
    Depth = 3
    MaxLen = 2
INVARIANTS
    TypeOK
    NoDoubleDrop
    NoUninitDrop
    NothingLeaks
    FullWhenDone
