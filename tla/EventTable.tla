----------------------------- MODULE EventTable -----------------------------
(***************************************************************************)
(* The event loops of event/event.c over the tables of handlers of         *)
(* xcb_event_handlers_t: one entry for each of the 126 event types, one    *)
(* for each of the 256 error codes.                                        *)
(*                                                                         *)
(* xcb queues events; a loop takes one after the other, calls the handler  *)
(* in its place of the table and frees it.  Handlers may set handlers, and *)
(* may run a loop of their own that polls before they return, so loops are *)
(* a stack.  A handler and its data are one value here, a place.           *)
(***************************************************************************)
EXTENDS Integers, FiniteSets, SequencesExt

CONSTANTS
    ResponseType,   \* the response types xcb delivers: 0 for an error, else an event
    ErrorCode,      \* the codes of the errors xcb delivers
    Place,          \* the handlers with their data
    None,           \* an entry of a table that was zeroed
    Garbage,        \* an entry of a table that was not
    MaxEvents,      \* bound: the events and errors that arrive
    MaxDepth        \* bound: loops inside each other

\* The server's responses are errors (0), replies (1) and events, 128 added
\* when a client sent them; xcb keeps the replies for those who ask.
ASSUME ResponseAssumption ==
    /\ ResponseType \subseteq 0 .. 255 \ {1, 128, 129}
    /\ ErrorCode \subseteq 0 .. 255

ASSUME BoundAssumption == MaxEvents \in Nat /\ MaxDepth \in Nat

ASSUME PlaceAssumption == None \notin Place /\ Garbage \notin Place \cup {None}

VARIABLES
    event,      \* evenths->event: the entries for the types xcb delivers
    error,      \* evenths->error: the entries for the codes xcb delivers
    arrived,    \* how many events arrived; they are numbered
    queue,      \* xcb: the events nobody has taken
    connected,  \* is the connection up?
    stack,      \* the loops that run, the innermost last
    heap,       \* the events that are allocated
    given,      \* the events handlers were given, and which handler it was
    crashed     \* a handler was called that is no function

tables == <<event, error>>
vars   == <<event, error, arrived, queue, connected, stack, heap, given, crashed>>

Event == [id : 1 .. MaxEvents, response_type : ResponseType, error_code : ErrorCode]

\* A loop, the number of the event whose handler it runs (0 between events),
\* and whether that handler has run a loop of its own.
Frame == [kind : {"wait", "poll"}, event : 0 .. MaxEvents, nested : BOOLEAN]

-----------------------------------------------------------------------------
(* The tables.                                                              *)

\* Where get_event_handler finds the entry of an event type.
EventSlot(t) == (t % 128) - 2

Slots == {EventSlot(t) : t \in ResponseType \ {0}}

\* Mutant: the code of an error is masked like the type of an event.
EntryMasked(e) == IF e.response_type = 0 THEN error[e.error_code % 128]
                  ELSE event[EventSlot(e.response_type)]

Entry(e) == IF e.response_type = 0 THEN error[e.error_code]
            ELSE event[EventSlot(e.response_type)]

\* xcb_event_handlers_init leaves the tables as they are.
Init ==
    /\ \E entry \in {None, Garbage} :
          event = [i \in Slots |-> entry] /\ error = [c \in ErrorCode |-> entry]
    /\ arrived = 0 /\ queue = <<>> /\ connected = TRUE
    /\ stack = <<>> /\ heap = {} /\ given = <<>> /\ crashed = FALSE

-----------------------------------------------------------------------------
(* xcb.                                                                     *)

Arrive(t, c) ==
    /\ connected /\ ~crashed /\ arrived < MaxEvents
    /\ arrived' = arrived + 1
    /\ queue' = Append(queue, [id |-> arrived + 1, response_type |-> t, error_code |-> c])
    /\ heap' = heap \cup {arrived + 1}
    /\ UNCHANGED <<tables, connected, stack, given, crashed>>

Break ==
    /\ connected /\ ~crashed
    /\ connected' = FALSE
    /\ UNCHANGED <<tables, arrived, queue, stack, heap, given, crashed>>

-----------------------------------------------------------------------------
(* Setting handlers.                                                        *)

\* Where the client's own code runs: outside of all loops or in a handler.
ClientRuns == ~crashed /\ (stack # <<>> => Last(stack).event # 0)

xcb_event_set_handler(t, place) ==
    /\ ClientRuns
    /\ event' = [event EXCEPT ![EventSlot(t)] = place]
    /\ UNCHANGED <<error, arrived, queue, connected, stack, heap, given, crashed>>

xcb_event_set_error_handler(c, place) ==
    /\ ClientRuns
    /\ error' = [error EXCEPT ![c] = place]
    /\ UNCHANGED <<event, arrived, queue, connected, stack, heap, given, crashed>>

-----------------------------------------------------------------------------
(* The loops.                                                               *)

Innermost(frame) == Append(Front(stack), frame)

\* xcb_event_wait_for_event_loop or xcb_event_poll_for_event_loop is called.
Enter(kind) ==
    /\ ClientRuns /\ Len(stack) < MaxDepth
    /\ \/ stack = <<>>
       \/ stack # <<>> /\ kind = "poll" /\ ~Last(stack).nested
    /\ LET below == IF stack = <<>> THEN <<>> ELSE Innermost([Last(stack) EXCEPT !.nested = TRUE])
       IN  stack' = Append(below, [kind |-> kind, event |-> 0, nested |-> FALSE])
    /\ UNCHANGED <<tables, arrived, queue, connected, heap, given, crashed>>

InLoop == ~crashed /\ stack # <<>> /\ Last(stack).event = 0

\* The loop takes the next event, for which there is no handler, and frees it.
Discard ==
    /\ InLoop /\ connected /\ queue # <<>>
    /\ Entry(Head(queue)) = None
    /\ queue' = Tail(queue)
    /\ heap' = heap \ {Head(queue).id}
    /\ UNCHANGED <<tables, arrived, connected, stack, given, crashed>>

\* Mutant: the event is freed before it is handled.
CallAfterFree ==
    /\ InLoop /\ connected /\ queue # <<>>
    /\ Entry(Head(queue)) \in Place
    /\ queue' = Tail(queue)
    /\ stack' = Innermost([Last(stack) EXCEPT !.event = Head(queue).id])
    /\ given' = Append(given, [event |-> Head(queue), place |-> Entry(Head(queue))])
    /\ heap' = heap \ {Head(queue).id}
    /\ UNCHANGED <<tables, arrived, connected, crashed>>

\* The loop takes the next event and calls its handler.
Call ==
    /\ InLoop /\ connected /\ queue # <<>>
    /\ Entry(Head(queue)) \in Place
    /\ queue' = Tail(queue)
    /\ stack' = Innermost([Last(stack) EXCEPT !.event = Head(queue).id])
    /\ given' = Append(given, [event |-> Head(queue), place |-> Entry(Head(queue))])
    /\ UNCHANGED <<tables, arrived, connected, heap, crashed>>

\* There is no telling what is called.
Crash ==
    /\ InLoop /\ connected /\ queue # <<>>
    /\ Entry(Head(queue)) = Garbage
    /\ crashed' = TRUE
    /\ UNCHANGED <<tables, arrived, queue, connected, stack, heap, given>>

\* The handler returns and the loop frees the event.
Return ==
    /\ ~crashed /\ stack # <<>> /\ Last(stack).event # 0
    /\ heap' = heap \ {Last(stack).event}
    /\ stack' = Innermost([Last(stack) EXCEPT !.event = 0, !.nested = FALSE])
    /\ UNCHANGED <<tables, arrived, queue, connected, given, crashed>>

\* Mutant: a loop that waits goes on waiting when the connection is broken.
LeaveWhenPolled ==
    /\ InLoop
    /\ Last(stack).kind = "poll" /\ (~connected \/ queue = <<>>)
    /\ stack' = Front(stack)
    /\ UNCHANGED <<tables, arrived, queue, connected, heap, given, crashed>>

\* xcb has no event to give: no more to come, or none at the moment.
Leave ==
    /\ InLoop
    /\ ~connected \/ (Last(stack).kind = "poll" /\ queue = <<>>)
    /\ stack' = Front(stack)
    /\ UNCHANGED <<tables, arrived, queue, connected, heap, given, crashed>>

Loop == Discard \/ Call \/ Crash \/ Return \/ Leave

Next ==
    \/ \E t \in ResponseType : \E c \in (IF t = 0 THEN ErrorCode ELSE {0}) : Arrive(t, c)
    \/ Break
    \/ \E t \in ResponseType \ {0}, place \in Place : xcb_event_set_handler(t, place)
    \/ \E c \in ErrorCode, place \in Place : xcb_event_set_error_handler(c, place)
    \/ \E kind \in {"wait", "poll"} : Enter(kind)
    \/ Loop

Spec == Init /\ [][Next]_vars

\* A loop that can go on does, and handlers return.
FairSpec == Spec /\ WF_vars(Loop)

-----------------------------------------------------------------------------
(* Properties.                                                              *)

\* The types of all variables; the entries lie in event[126] and error[256].
TypeOK ==
    /\ Slots \subseteq 0 .. 125 /\ ErrorCode \subseteq 0 .. 255
    /\ event \in [Slots -> Place \cup {None, Garbage}]
    /\ error \in [ErrorCode -> Place \cup {None, Garbage}]
    /\ arrived \in 0 .. MaxEvents /\ connected \in BOOLEAN /\ crashed \in BOOLEAN
    /\ queue \in Seq([id : 1 .. MaxEvents, response_type : ResponseType, error_code : 0 .. 255])
    /\ stack \in Seq(Frame) /\ Len(stack) <= MaxDepth
    /\ heap \subseteq 1 .. MaxEvents

Handled == {frame.event : frame \in Range(stack)} \ {0}

Queued == {e.id : e \in Range(queue)}

\* However loops run inside each other, the events that handlers are looking
\* at and those xcb still has are the ones that are allocated: none is freed
\* under a handler, freed twice or lost (event.c:83-87, 94-98).
EventsAreOwned ==
    /\ TypeOK
    /\ heap = Handled \cup Queued
    /\ \A i, j \in DOMAIN stack :
          stack[i].event = stack[j].event /\ stack[i].event # 0 => i = j

\* What is in the tables, and the events by their kinds.
KindOf(e) == IF e.response_type = 0 THEN <<"error", e.error_code>>
             ELSE <<"event", e.response_type % 128>>

Kinds == {<<"error", c>> : c \in ErrorCode}
         \cup {<<"event", t % 128>> : t \in ResponseType \ {0}}

\* No handler is wanted where garbage is.
Wanted(entry) == IF entry = Garbage THEN None ELSE entry

Dispatch == INSTANCE EventDispatch WITH
    Kind    <- Kinds,
    wanted  <- [k \in Kinds |-> Wanted(IF k[1] = "error" THEN error[k[2]] ELSE event[k[2] - 2])],
    pending <- [i \in DOMAIN queue |-> KindOf(queue[i])],
    given   <- [i \in DOMAIN given |-> [kind  |-> KindOf(given[i].event),
                                        place |-> given[i].place]]

\* Every event and error is given once, in order, to the handler set for its
\* kind at that time, whoever sent it and however loops are nested
\* (event.c:47-77).  Nothing more is given once a handler was called that was
\* never set.
GivesAsPromised == Dispatch!Spec

\* As long as some loop waits, no event stays in the queue, and a broken
\* connection ends all loops (event.c:83, 94).
LoopsProceed ==
    /\ [](stack # <<>> /\ queue # <<>> => <>(queue = <<>> \/ stack = <<>> \/ ~connected \/ crashed))
    /\ ~connected ~> (stack = <<>> \/ crashed)
=============================================================================
