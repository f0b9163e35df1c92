--------------------------- MODULE EventDispatch ---------------------------
(***************************************************************************)
(* What the event loop of event/event.c promises a client: every event and *)
(* every error is given once, in the order in which they came, to the      *)
(* handler that is wanted for its kind at that moment, if there is one.    *)
(***************************************************************************)
EXTENDS Sequences

CONSTANTS
    Kind,       \* what events are told apart by
    Place,      \* the handlers, each with its data
    None        \* no handler

VARIABLES
    wanted,     \* the handler for each kind
    pending,    \* the kinds of the events nobody has handled
    given       \* the events handlers were given so far, and which handler it was

vars == <<wanted, pending, given>>

Init ==
    /\ wanted = [k \in Kind |-> None]
    /\ pending = <<>>
    /\ given = <<>>

Arrive(k) ==
    /\ pending' = Append(pending, k)
    /\ UNCHANGED <<wanted, given>>

Want(k, place) ==
    /\ wanted' = [wanted EXCEPT ![k] = place]
    /\ UNCHANGED <<pending, given>>

Give ==
    /\ pending # <<>>
    /\ pending' = Tail(pending)
    /\ LET kind  == Head(pending)
           place == wanted[kind]
       IN  given' = IF place = None THEN given
                    ELSE Append(given, [kind |-> kind, place |-> place])
    /\ UNCHANGED wanted

Next ==
    \/ \E k \in Kind : Arrive(k) \/ \E place \in Place \cup {None} : Want(k, place)
    \/ Give

Spec == Init /\ [][Next]_vars
=============================================================================
