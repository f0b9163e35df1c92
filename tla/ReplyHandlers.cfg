\* Three registrations; the client may start the thread at any time, and
\* pthread_cond_wait may return without a broadcast.
SPECIFICATION Spec
CONSTANTS
    a = a
    b = b
    c = c
    Node = {a, b, c}
    RequestNumber <- DistinctRequests
    Thread = Thread
    Null = Null
    MaxReplies = 1
    MaxStarts = 1
    StartsEmpty = TRUE
    SpuriousWakeups = TRUE
INVARIANTS
    NoUseAfterFree
    NoLostRegistration
    NoMissedWakeup
    NoReplyDropped
