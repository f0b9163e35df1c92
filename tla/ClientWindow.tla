---------------------------- MODULE ClientWindow ----------------------------
(***************************************************************************)
(* The properties of a window that icccm/icccm.c sets and reads: the hints *)
(* on one hand, names, class, protocols and the window it is transient for *)
(* on the other.  No state is shared, so an instance has one or the other. *)
(***************************************************************************)
EXTENDS WindowHints, Sequences

CONSTANTS
    Element, Nul, Beyond, Nothing,
    MaxLength,  \* bound: the elements of a value
    MaxValues   \* bound: changes of such a property

\* Memory behind a value is not part of it, and NULL is no reply.
ASSUME ValueAssumption ==
    /\ MaxLength \in Nat \ {0} /\ MaxValues \in Nat
    /\ Beyond \notin Element \cup {Nul}
    /\ Nothing \notin [type : {"STRING", "ATOM", "WINDOW", "other", "none"},
                      format : Nat, data : Seq(Element \cup {Nul})]

VARIABLES
    hinting,    \* is this about hints?
    p_kind, p_property, p_window, p_asked, p_reply, heap, held, value, told, p_count

p_vars == <<p_kind, p_property, p_window, p_asked, p_reply, heap, held, value, told, p_count>>

Props == INSTANCE WindowProperties WITH
    Kind <- {"text", "class", "protocols", "transient"}, ClassWords <- 1, MaxChanges <- MaxValues,
    kind <- p_kind, property <- p_property, window <- p_window, asked <- p_asked,
    reply <- p_reply, count <- p_count

\* What the other part of the module starts with does not matter.
WindowInit ==
    /\ hinting \in BOOLEAN /\ Init /\ Props!Init
    /\ IF hinting THEN p_kind = "text" ELSE kind = "size" /\ ~watched

WindowNext ==
    /\ UNCHANGED hinting
    /\ \/ hinting /\ Next /\ UNCHANGED p_vars
       \/ ~hinting /\ Props!Next /\ UNCHANGED vars

\* The server answers, and a window manager that watches stays in its loop.
WindowSpec ==
    /\ WindowInit /\ [][WindowNext]_<<hinting, vars, p_vars>>
    /\ WF_vars(hinting /\ Notice)
    /\ WF_vars(hinting /\ Serve)
    /\ WF_vars(hinting /\ Receive)

-----------------------------------------------------------------------------
(* Properties; FlagsAreBacked and HintsArrive are those of WindowHints.     *)

\* A window manager that watches knows the last readable hints in the end
\* (icccm.c:120-125, property.c:52-66).
Watched == hinting => CatchesUp

\* Every reply is with xcb or held by one structure, until that is wiped, and
\* what a held one is read as is what the client wrote: names in full, both
\* strings of the class, all protocols (icccm.c:65-68, 244-273, 303-312,
\* 698-717).
RepliesAreRead ==
    /\ Props!RepliesAreOwned
    /\ Props!NamesAreWhole /\ Props!ClassIsRead /\ Props!ListIsWhole
=============================================================================
