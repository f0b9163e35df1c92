\* Foreign hints that are too short, pre-ICCCM, of the old length, and too
\* long; values of up to five elements.
SPECIFICATION WindowSpec
CONSTANTS
    Value = {v1}
    ForeignLength <- MCForeignLength
    ForeignFormat = {32}
    Zero = Zero
    Foreign = Foreign
    Torn = Torn
    Unset = Unset
    Unreadable = Unreadable
    Null = Null
    MaxSets = 2
    MaxChanges = 2
    MaxAsks = 2
    Element = {x, y}
    Nul = Nul
    Beyond = Beyond
    Nothing = Nothing
    MaxLength = 5
    MaxValues = 1
INVARIANTS
    FlagsAreBacked
    RepliesAreRead
PROPERTIES
    HintsArrive
    Watched
CHECK_DEADLOCK FALSE
