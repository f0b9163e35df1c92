\* Progress: two registrations, two runs of the thread, started only with a
\* handler registered and woken only by a broadcast.
SPECIFICATION FairSpec
CONSTANTS
    a = a
    b = b
    c = c
    Node = {a, b}
    RequestNumber <- DistinctPair
    Thread = Thread
    Null = Null
    MaxReplies = 2
    MaxStarts = 2
    StartsEmpty = FALSE
    SpuriousWakeups = FALSE
INVARIANTS
    RunsUntilStopped
PROPERTIES
    EveryHandlerRetired
    CallsReturn
