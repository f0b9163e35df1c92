----------------------------- MODULE HintBoard -----------------------------
(***************************************************************************)
(* What the hints of icccm/icccm.c promise.  A client collects hints, each *)
(* of which it gives a value or takes back, and posts them on its window   *)
(* as a whole; others may post there too.  A window manager learns what    *)
(* stood there at some moment after it asked, all of it or nothing.        *)
(***************************************************************************)
CONSTANTS
    Hint,           \* the names of the hints
    Value,          \* what hints are set to
    Unset,          \* a hint that is not given
    Unreadable,     \* nothing is posted, or nothing a reader understands
    Rivals          \* for every hint, those that giving it takes back

VARIABLES
    wish,       \* the hints of the client
    posted,     \* what stands on the window
    seen,       \* what the server answered the window manager, <<>> without an answer
    learned     \* the hints the window manager knows

vars == <<wish, posted, seen, learned>>

Hints == [Hint -> Value \cup {Unset}]

Init ==
    /\ wish = [h \in Hint |-> Unset]
    /\ posted = Unreadable
    /\ seen = <<>>
    /\ learned = [h \in Hint |-> Unset]

Give(h, v) ==
    /\ UNCHANGED <<posted, seen, learned>>
    /\ wish' = [g \in Hint |-> IF g = h THEN v ELSE IF g \in Rivals[h] THEN Unset ELSE wish[g]]

TakeBack(h) ==
    /\ UNCHANGED <<posted, seen, learned>>
    /\ wish' = [wish EXCEPT ![h] = Unset]

Post ==
    /\ posted' = wish
    /\ UNCHANGED <<wish, seen, learned>>

Disturb ==
    /\ posted' = Unreadable \/ posted' \in Hints
    /\ UNCHANGED <<wish, seen, learned>>

Answer ==
    /\ seen = <<>>
    /\ seen' = <<posted>> \/ seen' = <<Unreadable>>
    /\ UNCHANGED <<wish, posted, learned>>

Learn ==
    /\ seen # <<>>
    /\ learned' = IF seen[1] = Unreadable THEN learned ELSE seen[1]
    /\ seen' = <<>>
    /\ UNCHANGED <<wish, posted>>

Next ==
    \/ Post \/ Disturb \/ Answer \/ Learn
    \/ \E h \in Hint : TakeBack(h) \/ \E v \in Value : Give(h, v)

Spec == Init /\ [][Next]_vars
=============================================================================
