\* Three changes of the keyboard mapping, one of another, two allocations.
SPECIFICATION Spec
CONSTANTS
    MaxChanges = 3
    MaxOthers = 1
    MaxAllocs = 2
    Null = Null
INVARIANTS
    AnswersAreOwned
    CrashNeedsFault
    CaughtUp
CHECK_DEADLOCK FALSE
