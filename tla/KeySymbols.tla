---------------------------- MODULE KeySymbols ----------------------------
(***************************************************************************)
(* How a client of keysyms/keysyms.c keeps up with the keyboard mapping.   *)
(*                                                                         *)
(* xcb_key_symbols_alloc asks the server for the mapping and keeps the     *)
(* cookie; the first lookup waits for the reply and keeps that instead.    *)
(* When the mapping changes, the server sends a MappingNotify, in order    *)
(* with its replies; xcb_refresh_keyboard_mapping throws the reply away    *)
(* and asks again.  syms->u is a union: syms->tag says which of cookie and *)
(* reply it holds.                                                         *)
(*                                                                         *)
(* Mappings are numbered in the order in which the server had them.  The   *)
(* client is one thread; what a lookup does with the mapping is            *)
(* KeysymTable's.                                                          *)
(***************************************************************************)
EXTENDS Integers, Sequences, FiniteSets

CONSTANTS
    MaxChanges,     \* bound: how often the keyboard mapping changes
    MaxOthers,      \* bound: how often another mapping changes
    MaxAllocs,      \* bound: how often the client allocates key symbols
    Null            \* the NULL pointer; also the mapping an error answers with

ASSUME BoundAssumption == MaxChanges \in Nat /\ MaxOthers \in Nat /\ MaxAllocs \in Nat

ASSUME NullAssumption == Null \notin Nat

VARIABLES
    mapping,    \* the server's keyboard mapping
    others,     \* how often another mapping changed
    wire,       \* the requests the server has not read
    stream,     \* the replies, errors and events xcb has not read
    answers,    \* xcb: the replies and errors nobody has collected
    events,     \* xcb: the events nobody has handled
    faults,     \* what went wrong outside the client: "server", "connection"
    allocs,     \* how often the client allocated key symbols
    sent,       \* the number of requests sent; the last one's cookie
    live,       \* are key symbols allocated?
    tag,        \* syms->tag
    cookie,     \* the last cookie in syms->u
    reply,      \* syms->u.reply while syms->tag is "value"
    heap,       \* the replies that are allocated
    abandoned,  \* the cookies in key symbols that were freed
    skipped,    \* was a notify handled while the last request was pending?
    pc          \* "ready", "waiting" in get_reply, or "crashed"

server == <<mapping, others>>
xcb    == <<wire, stream, answers, events, faults>>
syms   == <<live, tag, cookie, reply>>
vars   == <<server, xcb, syms, allocs, sent, heap, abandoned, skipped, pc>>

Answer == [cookie : Nat, mapping : Nat \cup {Null}]

Init ==
    /\ mapping = 0 /\ others = 0
    /\ wire = <<>> /\ stream = <<>> /\ answers = {} /\ events = <<>> /\ faults = {}
    /\ allocs = 0 /\ sent = 0
    /\ live = FALSE /\ tag = "cookie" /\ cookie = 0 /\ reply = Null
    /\ heap = {} /\ abandoned = {} /\ skipped = FALSE
    /\ pc = "ready"

-----------------------------------------------------------------------------
(* The server, the connection and xcb.                                      *)

Connected == "connection" \notin faults
client == <<syms, allocs, sent, heap, abandoned, skipped, pc>>

\* Another client changes the keyboard mapping.
ChangeKeyboard ==
    /\ Connected /\ mapping < MaxChanges
    /\ mapping' = mapping + 1
    /\ stream' = Append(stream, [type |-> "event", body |-> "keyboard"])
    /\ UNCHANGED <<others, wire, answers, events, faults, client>>

\* Another client changes the modifier or the pointer mapping.
ChangeOther ==
    /\ Connected /\ others < MaxOthers
    /\ others' = others + 1
    /\ stream' = Append(stream, [type |-> "event", body |-> "modifier"])
    /\ UNCHANGED <<mapping, wire, answers, events, faults, client>>

\* The server answers GetKeyboardMapping, or fails to.
Serve ==
    /\ wire # <<>>
    /\ wire' = Tail(wire)
    /\ \/ /\ stream' = Append(stream, [type |-> "answer",
                           body |-> [cookie |-> Head(wire), mapping |-> mapping]])
          /\ UNCHANGED faults
       \/ /\ stream' = Append(stream, [type |-> "answer",
                           body |-> [cookie |-> Head(wire), mapping |-> Null]])
          /\ faults' = faults \cup {"server"}
    /\ UNCHANGED <<server, answers, events, client>>

\* xcb reads from the connection; an event waits until the client asks for it.
Receive ==
    /\ stream # <<>>
    /\ stream' = Tail(stream)
    /\ LET packet == Head(stream)
       IN  \/ /\ packet.type = "answer"
              /\ answers' = answers \cup {packet.body}
              /\ UNCHANGED events
           \/ /\ packet.type = "event"
              /\ events' = Append(events, packet.body)
              /\ UNCHANGED answers
    /\ UNCHANGED <<server, wire, faults, client>>

\* The connection breaks; what xcb has not read is lost.
Break ==
    /\ Connected
    /\ faults' = faults \cup {"connection"}
    /\ wire' = <<>>
    /\ stream' = <<>>
    /\ UNCHANGED <<server, answers, events, client>>

\* xcb_get_keyboard_mapping: on a broken connection the request goes nowhere.
Ask ==
    /\ sent' = sent + 1
    /\ cookie' = sent + 1
    /\ wire' = IF Connected THEN Append(wire, sent + 1) ELSE wire
    /\ UNCHANGED <<server, stream, answers, faults>>

-----------------------------------------------------------------------------
(* The client.                                                              *)

\* xcb_key_symbols_alloc
Alloc ==
    /\ pc = "ready" /\ ~live /\ allocs < MaxAllocs
    /\ allocs' = allocs + 1
    /\ live' = TRUE
    /\ tag' = "cookie"
    /\ Ask
    /\ skipped' = FALSE
    /\ UNCHANGED <<events, reply, heap, abandoned, pc>>

\* Mutant: the tag keeps saying that there is a cookie.
LookupUntagged ==
    /\ pc = "ready" /\ live /\ tag = "cookie"
    /\ pc' = "waiting"
    /\ UNCHANGED <<server, xcb, syms, allocs, sent, heap, abandoned, skipped>>

\* xcb_key_symbols_free; a pending reply stays with xcb.
Free ==
    /\ pc = "ready" /\ live
    /\ live' = FALSE
    /\ IF tag = "value"
       THEN heap' = heap \ {reply} /\ UNCHANGED abandoned
       ELSE abandoned' = abandoned \cup {cookie} /\ UNCHANGED heap
    /\ UNCHANGED <<server, xcb, tag, cookie, reply, allocs, sent, skipped, pc>>

\* A lookup calls xcb_key_symbols_get_reply, which waits for a pending reply.
\* Without one the lookup reads the mapping at hand and changes nothing.
Lookup ==
    /\ pc = "ready" /\ live /\ tag = "cookie"
    /\ tag' = "value"
    /\ pc' = "waiting"
    /\ UNCHANGED <<server, xcb, live, cookie, reply, allocs, sent, heap, abandoned, skipped>>

\* The requests whose answer is on its way to the client.
Pending ==
    {wire[i] : i \in DOMAIN wire}
    \cup {stream[i].body.cookie : i \in {j \in DOMAIN stream : stream[j].type = "answer"}}
    \cup {a.cookie : a \in answers}

\* The reply, for the lookup to go on with.
Collect ==
    /\ pc = "waiting"
    /\ \E a \in answers :
          /\ a.cookie = cookie /\ a.mapping # Null
          /\ answers' = answers \ {a}
          /\ reply' = a
          /\ heap' = heap \cup {a}
    /\ pc' = "ready"
    /\ UNCHANGED <<server, wire, stream, events, faults, live, tag, cookie, allocs, sent,
                   abandoned, skipped>>

\* There is none, because of an error, a broken connection, or because it was
\* collected before: the lookup goes on and reads through a null pointer.
CollectNothing ==
    /\ pc = "waiting"
    /\ \/ [cookie |-> cookie, mapping |-> Null] \in answers
       \/ cookie \notin Pending
    /\ answers' = {a \in answers : a.cookie # cookie}
    /\ reply' = Null
    /\ pc' = "crashed"
    /\ UNCHANGED <<server, wire, stream, events, faults, live, tag, cookie, allocs, sent,
                   heap, abandoned, skipped>>

\* Mutant: the old mapping is not given back.
RefreshLeaking ==
    /\ live /\ tag = "value"
    /\ tag' = "cookie"
    /\ reply' = Null
    /\ Ask
    /\ skipped' = FALSE
    /\ UNCHANGED heap

\* The mapping at hand is replaced by a new request for one.
Refresh ==
    /\ live /\ tag = "value"
    /\ heap' = heap \ {reply}
    /\ reply' = Null
    /\ tag' = "cookie"
    /\ Ask
    /\ skipped' = FALSE

\* A request is pending already: nothing is done.
RefreshPending ==
    /\ live /\ tag = "cookie"
    /\ skipped' = TRUE
    /\ UNCHANGED <<server, wire, stream, answers, faults, tag, cookie, reply, sent, heap>>

\* Mutant: the wrong one of the mappings is looked at.
Concerns(event) == event = "modifier"

\* Is it the keyboard mapping that changed?
IsKeyboard(event) == event = "keyboard"

\* The client hands a MappingNotify to xcb_refresh_keyboard_mapping.
HandleNotify ==
    /\ pc = "ready" /\ events # <<>>
    /\ events' = Tail(events)
    /\ IF IsKeyboard(Head(events)) /\ live
       THEN Refresh \/ RefreshPending
       ELSE UNCHANGED <<server, wire, stream, answers, faults, tag, cookie, reply, sent,
                        heap, skipped>>
    /\ UNCHANGED <<live, allocs, abandoned, pc>>

Next ==
    \/ ChangeKeyboard \/ ChangeOther \/ Serve \/ Receive \/ Break
    \/ Alloc \/ Free \/ Lookup \/ Collect \/ CollectNothing \/ HandleNotify

Spec == Init /\ [][Next]_vars

-----------------------------------------------------------------------------
(* Properties.                                                              *)

\* The types of all variables.
TypeOK ==
    /\ mapping \in 0 .. MaxChanges /\ others \in 0 .. MaxOthers
    /\ wire \in Seq(Nat)
    /\ answers \subseteq Answer
    /\ events \in Seq({"keyboard", "modifier"})
    /\ faults \subseteq {"server", "connection"}
    /\ allocs \in 0 .. MaxAllocs /\ sent \in Nat /\ cookie \in 0 .. sent
    /\ live \in BOOLEAN /\ skipped \in BOOLEAN
    /\ tag \in {"cookie", "value"}
    /\ reply \in Answer \cup {Null} /\ heap \subseteq Answer
    /\ abandoned \subseteq 1 .. sent
    /\ pc \in {"ready", "waiting", "crashed"}

\* The client owns exactly the one mapping that its key symbols hold, through
\* any order of lookups, refreshes, frees and failures (keysyms.c:103-104,
\* 295-298): none is leaked, and none freed while it is in use.
OwnsItsMapping ==
    pc # "crashed" =>
        heap = IF live /\ tag = "value" /\ pc = "ready" THEN {reply} ELSE {}

\* No answer stays with xcb that nobody will collect, except those that
\* xcb_key_symbols_free left behind (keysyms.c:98-108, 293-305).
NoAnswerLost ==
    Pending \subseteq abandoned \cup
        IF live /\ (tag = "cookie" \/ pc = "waiting") THEN {cookie} ELSE {}

\* An answer has one owner at any time: xcb, or the key symbols.
AnswersAreOwned == OwnsItsMapping /\ NoAnswerLost

\* A lookup reads through a null pointer only when the server or the
\* connection failed, never because tag and union disagree.
CrashNeedsFault == pc = "crashed" => faults # {}

\* Once everything the server said is handled, lookups use its mapping, unless
\* a MappingNotify was handled while the last request was pending: then the
\* reply may be older than the change, and nothing asks for another.
CaughtUp ==
    /\ wire = <<>> /\ stream = <<>> /\ events = <<>> /\ Connected
    /\ live /\ tag = "value" /\ pc = "ready"
    => reply.mapping = mapping \/ skipped
=============================================================================
