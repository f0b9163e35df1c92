\* The first event type, sent by a client, and two codes that differ in the top
\* bit; three events, so that one is queued while loops are nested.
SPECIFICATION FairSpec
CONSTANTS
    ResponseType = {0, 130}
    ErrorCode = {127, 255}
    Place = {p1, p2}
    None = None
    Garbage = Garbage
    MaxEvents = 3
    MaxDepth = 2
INVARIANTS
    EventsAreOwned
PROPERTIES
    GivesAsPromised
    LoopsProceed
CHECK_DEADLOCK FALSE
