--------------------------- MODULE PropertyWatch ---------------------------
(***************************************************************************)
(* A client that watches the properties of a window with property/         *)
(* property.c on top of the event loop of event/event.c.                   *)
(*                                                                         *)
(* The event loop takes one event after the other from xcb and calls the   *)
(* handler in the table evenths for its type.  The one that                *)
(* xcb_property_handlers_init installs looks up a handler for the atom and *)
(* calls it with the value, which it asks the server for at that time; a   *)
(* deletion needs no asking.  Meanwhile other clients change the           *)
(* properties.                                                             *)
(*                                                                         *)
(* The values of a property are numbered; xcb delivers events and replies  *)
(* in the order in which the server sent them.                             *)
(***************************************************************************)
EXTENDS Integers, SequencesExt

CONSTANTS
    Atom,           \* the properties' names
    Handler,        \* the client's property handlers
    MaxChanges,     \* bound: how often properties change
    MaxNodes,       \* bound: handlers registered at a time
    MaxInits,       \* bound: how often the handlers are initialised
    Forged,         \* the PropertyNotify states other clients send events with
    Zeroed,         \* does the client pass zeroed structures to the init functions?
    Null,           \* no handler, no reply
    Garbage,        \* what an uninitialised handler field holds
    Deleted,        \* the value of a property that does not exist
    Unknown         \* the client has not been told a value

ASSUME BoundAssumption == MaxChanges \in Nat /\ MaxNodes \in Nat /\ MaxInits \in Nat \ {0}

ASSUME ForgedAssumption == Forged \subseteq {"newvalue", "delete"} /\ Zeroed \in BOOLEAN

ASSUME NullAssumption == Null \notin Handler \cup Atom /\ Garbage \notin Handler \cup {Null}

VARIABLES
    value,      \* the server's value of every property
    exists,     \* does the window exist?
    changes,    \* how often a property changed
    wire,       \* the property the client asks for, or Null
    stream,     \* the events and replies xcb has not read
    events,     \* xcb: the events nobody has handled
    answer,     \* xcb: the reply nobody has collected, <<>> without one
    connected,  \* is the connection up?
    head,       \* prophs->head: the registered handlers, newest first
    def,        \* prophs->def.handler
    freed,      \* does prophs->head point to nodes that were freed?
    inits,      \* how often the handlers were initialised
    pc,         \* "idle" in the event loop, "fetch" in call_handler, "wiped", "ended", "crashed"
    job,        \* while in call_handler: the atom and the handler
    called,     \* the last property handler that was called
    told        \* what the handlers were last told of every property

server   == <<value, exists, changes>>
xcb      == <<wire, stream, events, answer, connected>>
handlers == <<head, def, freed, inits>>
vars     == <<server, xcb, handlers, pc, job, called, told>>

\* xcb_property_handlers_init, on a structure the client declared.
Init ==
    /\ value = [a \in Atom |-> 0] /\ exists = TRUE /\ changes = 0
    /\ wire = Null /\ stream = <<>> /\ events = <<>> /\ answer = <<>> /\ connected = TRUE
    /\ head = <<>> /\ freed = FALSE /\ inits = 1
    /\ def \in IF Zeroed THEN {Null} ELSE {Null, Garbage}
    /\ pc = "idle" /\ job = [atom |-> Null, handler |-> Null] /\ called = Null
    /\ told = [a \in Atom |-> 0]

-----------------------------------------------------------------------------
(* The server, other clients and xcb.                                       *)

client == <<handlers, pc, job, called, told>>

Sends(packet) ==
    /\ stream' = IF connected THEN Append(stream, packet) ELSE stream
    /\ UNCHANGED <<events, answer, connected>>

Notify(a, state) == [type |-> "event", atom |-> a, state |-> state]

Change(a) ==
    /\ exists /\ changes < MaxChanges
    /\ changes' = changes + 1
    /\ value' = [value EXCEPT ![a] = changes + 1]
    /\ Sends(Notify(a, "newvalue"))
    /\ UNCHANGED <<exists, wire, client>>

Delete(a) ==
    /\ exists /\ changes < MaxChanges /\ value[a] # Deleted
    /\ changes' = changes + 1
    /\ value' = [value EXCEPT ![a] = Deleted]
    /\ Sends(Notify(a, "delete"))
    /\ UNCHANGED <<exists, wire, client>>

\* SendEvent: nothing has changed.  The event loop masks the bit that tells.
Forge(a) ==
    /\ exists /\ changes < MaxChanges
    /\ changes' = changes + 1
    /\ \E state \in Forged : Sends(Notify(a, state))
    /\ UNCHANGED <<value, exists, wire, client>>

\* No event tells of the properties of a window that is destroyed.
Destroy ==
    /\ exists
    /\ exists' = FALSE
    /\ UNCHANGED <<value, changes, xcb, client>>

Serve ==
    /\ wire # Null
    /\ wire' = Null
    /\ Sends([type |-> "reply", body |-> IF exists THEN value[wire] ELSE Null])
    /\ UNCHANGED <<server, client>>

Receive ==
    /\ stream # <<>>
    /\ stream' = Tail(stream)
    /\ LET packet == Head(stream)
       IN  \/ /\ packet.type = "event"
              /\ events' = Append(events, [atom |-> packet.atom, state |-> packet.state])
              /\ UNCHANGED answer
           \/ /\ packet.type = "reply"
              /\ answer' = <<packet.body>>
              /\ UNCHANGED events
    /\ UNCHANGED <<server, wire, connected, client>>

Break ==
    /\ connected
    /\ connected' = FALSE
    /\ wire' = Null
    /\ stream' = <<>>
    /\ UNCHANGED <<server, events, answer, client>>

-----------------------------------------------------------------------------
(* Registering handlers.                                                    *)

xcb_property_set_handler(a, h) ==
    /\ pc = "idle" /\ Len(head) < MaxNodes
    /\ head' = <<[name |-> a, handler |-> h]>> \o head
    /\ UNCHANGED <<server, xcb, def, freed, inits, pc, job, called, told>>

\* With Null there is no default handler any more.
xcb_property_set_default_handler(h) ==
    /\ pc = "idle"
    /\ def' = h
    /\ UNCHANGED <<server, xcb, head, freed, inits, pc, job, called, told>>

\* The nodes are freed, prophs->head and the entry in evenths stay.
xcb_property_handlers_wipe ==
    /\ pc = "idle" /\ inits < MaxInits
    /\ freed' = (head # <<>>)
    /\ pc' = "wiped"
    /\ UNCHANGED <<server, xcb, head, def, inits, job, called, told>>

\* Mutant: prophs->head is not cleared.
ReuseUncleared ==
    /\ pc = "wiped"
    /\ inits' = inits + 1
    /\ pc' = "idle"
    /\ UNCHANGED <<server, xcb, head, def, freed, job, called, told>>

\* Only the first field, prophs->head, is cleared: memset gets the size of a
\* pointer.  The client does not go on to handle events without this.
xcb_property_handlers_init ==
    /\ pc = "wiped"
    /\ head' = <<>>
    /\ freed' = FALSE
    /\ inits' = inits + 1
    /\ pc' = "idle"
    /\ UNCHANGED <<server, xcb, def, job, called, told>>

-----------------------------------------------------------------------------
(* The event loop, xcb_property_changed and call_handler.                   *)

\* The first node of the atom, else the default handler.
HandlerOf(a) ==
    IF \E i \in DOMAIN head : head[i].name = a
    THEN head[SelectInSeq(head, LAMBDA node : node.name = a)].handler
    ELSE def

\* Mutant: an event that no handler wants stays in the queue.
IgnoreAndKeep ==
    /\ ~freed /\ HandlerOf(Head(events).atom) = Null
    /\ told' = [told EXCEPT ![Head(events).atom] = Unknown]
    /\ UNCHANGED <<events, wire, pc, job, called>>

Ignore ==
    /\ ~freed /\ HandlerOf(Head(events).atom) = Null
    /\ told' = [told EXCEPT ![Head(events).atom] = Unknown]
    /\ events' = Tail(events)
    /\ UNCHANGED <<wire, pc, job, called>>

\* The list of handlers is not there any more, or the handler is no function.
Crash ==
    /\ freed \/ HandlerOf(Head(events).atom) = Garbage
    /\ pc' = "crashed"
    /\ called' = IF freed THEN called ELSE Garbage
    /\ events' = Tail(events)
    /\ UNCHANGED <<wire, job, told>>

\* Mutant: the handler is not called for a deletion.
CallDeletedNever ==
    /\ ~freed /\ HandlerOf(Head(events).atom) \in Handler /\ Head(events).state = "delete"
    /\ events' = Tail(events)
    /\ UNCHANGED <<wire, pc, job, called, told>>

CallDeleted ==
    /\ ~freed /\ HandlerOf(Head(events).atom) \in Handler /\ Head(events).state = "delete"
    /\ told' = [told EXCEPT ![Head(events).atom] = Deleted]
    /\ called' = HandlerOf(Head(events).atom)
    /\ events' = Tail(events)
    /\ UNCHANGED <<wire, pc, job>>

\* GetProperty, to which call_handler waits for the reply.
Fetch ==
    /\ ~freed /\ HandlerOf(Head(events).atom) \in Handler /\ Head(events).state # "delete"
    /\ wire' = IF connected THEN Head(events).atom ELSE Null
    /\ job' = [atom |-> Head(events).atom, handler |-> HandlerOf(Head(events).atom)]
    /\ pc' = "fetch"
    /\ events' = Tail(events)
    /\ UNCHANGED <<called, told>>

\* One turn of the event loop; on a broken connection xcb has no more events.
HandleEvent ==
    /\ pc = "idle" /\ connected /\ events # <<>>
    /\ Ignore \/ Crash \/ CallDeleted \/ Fetch
    /\ UNCHANGED <<server, stream, answer, connected, handlers>>

\* Without a reply the handler learns nothing; the reply for a property that
\* is gone says so.
ToldOf(a, body) == IF body = Null THEN Unknown ELSE body

\* Mutant: the reply is not freed.
CallHandlerKeeping ==
    /\ pc = "fetch"
    /\ answer # <<>> \/ ~connected
    /\ told' = [told EXCEPT ![job.atom] =
                   ToldOf(job.atom, IF answer = <<>> THEN Null ELSE answer[1])]
    /\ called' = job.handler
    /\ pc' = "idle"
    /\ UNCHANGED <<server, wire, stream, events, answer, connected, handlers, job>>

CallHandler ==
    /\ pc = "fetch"
    /\ answer # <<>> \/ ~connected
    /\ told' = [told EXCEPT ![job.atom] =
                   ToldOf(job.atom, IF answer = <<>> THEN Null ELSE answer[1])]
    /\ called' = job.handler
    /\ answer' = <<>>
    /\ pc' = "idle"
    /\ UNCHANGED <<server, wire, stream, events, connected, handlers, job>>

LoopEnds ==
    /\ pc = "idle" /\ ~connected
    /\ pc' = "ended"
    /\ UNCHANGED <<server, xcb, handlers, job, called, told>>

-----------------------------------------------------------------------------

Next ==
    \/ \E a \in Atom : Change(a) \/ Delete(a) \/ Forge(a)
    \/ Destroy \/ Serve \/ Receive \/ Break
    \/ \E a \in Atom, h \in Handler : xcb_property_set_handler(a, h)
    \/ \E h \in Handler \cup {Null} : xcb_property_set_default_handler(h)
    \/ xcb_property_handlers_wipe \/ xcb_property_handlers_init
    \/ HandleEvent \/ CallHandler \/ LoopEnds

Spec == Init /\ [][Next]_vars

\* The server answers, xcb reads, and the client stays in its event loop.
FairSpec ==
    /\ Spec
    /\ WF_vars(Serve) /\ WF_vars(Receive)
    /\ WF_vars(HandleEvent) /\ WF_vars(CallHandler) /\ WF_vars(LoopEnds)

-----------------------------------------------------------------------------
(* Properties.                                                              *)

Values == 0 .. MaxChanges \cup {Deleted}

\* The types of all variables.
TypeOK ==
    /\ value \in [Atom -> Values] /\ exists \in BOOLEAN /\ changes \in 0 .. MaxChanges
    /\ wire \in Atom \cup {Null} /\ connected \in BOOLEAN
    /\ events \in Seq([atom : Atom, state : {"newvalue", "delete"}])
    /\ answer \in {<<>>} \cup {<<v>> : v \in Values \cup {Null}}
    /\ head \in Seq([name : Atom, handler : Handler])
    /\ def \in Handler \cup {Null, Garbage} /\ freed \in BOOLEAN
    /\ inits \in 1 .. MaxInits
    /\ pc \in {"idle", "fetch", "wiped", "ended", "crashed"}
    /\ called \in Handler \cup {Null, Garbage}
    /\ told \in [Atom -> Values \cup {Unknown}]

\* When all is handled, what the handlers were told last of every property is
\* its value, however changes, deletions and the handlers' own requests
\* overlapped (property.c:57-63) - unless it changed while nobody handled it.
CaughtUp ==
    /\ pc = "idle" /\ connected /\ exists /\ stream = <<>> /\ events = <<>>
    => \A a \in Atom : told[a] \in {value[a], Unknown}

\* No reply is left over for the next request to be taken for its own.
OneReply ==
    pc # "fetch" =>
        /\ wire = Null /\ answer = <<>>
        /\ \A i \in DOMAIN stream : stream[i].type = "event"

\* Handlers can be wiped and initialised again while the event loop keeps
\* running: no event ever finds a freed list (property.c:103-113, 95-101).
\* What ends the process is a field that nobody initialised, the default
\* handler: xcb_property_handlers_init ("Initialize a property handlers
\* structure.", xcb_property.h:92) clears only head (property.c:98).
ListIsLive == pc = "crashed" => called = Garbage

\* Every event is handled at last, whether or not a handler wants it, unless
\* the loop ended, or the client wiped the handlers or never zeroed them.
Settles == <>[](pc \in {"ended", "wiped", "crashed"} \/ (stream = <<>> /\ events = <<>> /\ pc = "idle"))
=============================================================================
