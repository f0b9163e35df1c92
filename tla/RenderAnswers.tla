--------------------------- MODULE RenderAnswers ---------------------------
(***************************************************************************)
(* What the Render cache promises, without list, lock or heap: the answer  *)
(* of a connection's server is learnt at most once until the connection is *)
(* dropped, and every lookup returns it (or nothing, when memory is out).  *)
(***************************************************************************)
CONSTANTS
    Proc,       \* the threads
    Conn,       \* the connections
    Possible,   \* the answers the server of each connection may give
    Nothing     \* the answer "Render is absent"

VARIABLES
    known,      \* per connection, the set of answers kept: none or one
    op,         \* per thread, the connections it is looking up: none or one
    returned    \* per thread, what its last lookup returned

vars == <<known, op, returned>>

Init ==
    /\ known = [c \in Conn |-> {}]
    /\ op = [p \in Proc |-> {}]
    /\ returned = [p \in Proc |-> Nothing]

Begin(p, c) ==
    /\ op[p] = {}
    /\ op' = [op EXCEPT ![p] = {c}]
    /\ UNCHANGED <<known, returned>>

Learn(c) ==
    /\ known[c] = {}
    /\ \E p \in Proc : c \in op[p]
    /\ \E a \in Possible[c] : known' = [known EXCEPT ![c] = {a}]
    /\ UNCHANGED <<op, returned>>

Return(p, c) ==
    /\ c \in op[p]
    /\ \E a \in known[c] \cup {Nothing} : returned' = [returned EXCEPT ![p] = a]
    /\ op' = [op EXCEPT ![p] = {}]
    /\ UNCHANGED known

\* A connection is dropped while nobody looks it up.
Forget(c) ==
    /\ \A p \in Proc : c \notin op[p]
    /\ known' = [known EXCEPT ![c] = {}]
    /\ UNCHANGED <<op, returned>>

Next ==
    \/ \E c \in Conn : Learn(c) \/ Forget(c)
    \/ \E p \in Proc, c \in Conn : Begin(p, c) \/ Return(p, c)

Spec == Init /\ [][Next]_vars
=============================================================================
