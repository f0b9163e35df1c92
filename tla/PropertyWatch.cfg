\* Two properties, one of them with a shadowed handler; forged notifications;
\* the client may declare its structures without zeroing them.
SPECIFICATION FairSpec
CONSTANTS
    Atom = {a1, a2}
    Handler = {h1, h2}
    MaxChanges = 2
    MaxNodes = 2
    MaxInits = 2
    Forged = {"newvalue"}
    Zeroed = FALSE
    Null = Null
    Garbage = Garbage
    Deleted = Deleted
    Unknown = Unknown
INVARIANTS
    CaughtUp
    OneReply
    ListIsLive
PROPERTIES
    Settles
CHECK_DEADLOCK FALSE
