------------------------ MODULE PropertyWatchProofs ------------------------
(***************************************************************************)
(* Proofs about PropertyWatch, for any number of properties, handlers,     *)
(* changes and initialisations.                                            *)
(***************************************************************************)
EXTENDS PropertyWatch, SequenceTheorems, TLAPS

State  == {"newvalue", "delete"}
Event  == [atom : Atom, state : State]
Packet == [type : {"event"}, atom : Atom, state : State]
          \cup [type : {"reply"}, body : Values \cup {Null}]

\* The types that TypeOK leaves out.
QueuesOK ==
    /\ stream \in Seq(Packet)
    /\ job \in [atom : Atom \cup {Null}, handler : Handler \cup {Null}]
    /\ pc = "fetch" => job \in [atom : Atom, handler : Handler]
    /\ pc = "wiped" => inits < MaxInits

Typed == TypeOK /\ QueuesOK

IsReply(packet) == packet.type = "reply"

-----------------------------------------------------------------------------
(* Queues, element by element.                                              *)

LEMMA AppendAt ==
    ASSUME NEW S, NEW s \in Seq(S), NEW e \in S
    PROVE  /\ Append(s, e) \in Seq(S)
           /\ DOMAIN s = 1 .. Len(s) /\ Len(s) \in Nat
           /\ DOMAIN Append(s, e) = 1 .. Len(s) + 1
           /\ \A i \in 1 .. Len(s) : Append(s, e)[i] = s[i]
           /\ Append(s, e)[Len(s) + 1] = e
<1>1. /\ Append(s, e) \in Seq(S) /\ Len(Append(s, e)) = Len(s) + 1
      /\ \A i \in 1 .. Len(s) : Append(s, e)[i] = s[i]
      /\ Append(s, e)[Len(s) + 1] = e
  BY AppendProperties
<1> QED
  BY <1>1, LenProperties

LEMMA TailAt ==
    ASSUME NEW S, NEW s \in Seq(S), s # <<>>
    PROVE  /\ Head(s) = s[1] /\ Head(s) \in S
           /\ Tail(s) \in Seq(S)
           /\ DOMAIN s = 1 .. Len(s) /\ Len(s) \in Nat /\ Len(s) >= 1
           /\ DOMAIN Tail(s) = 1 .. Len(s) - 1
           /\ \A i \in 1 .. Len(s) - 1 : Tail(s)[i] = s[i + 1]
<1>1. /\ Head(s) \in S /\ Tail(s) \in Seq(S) /\ Len(Tail(s)) = Len(s) - 1
      /\ \A i \in 1 .. Len(Tail(s)) : Tail(s)[i] = s[i + 1]
  BY HeadTailProperties
<1>2. Head(s) = s[1]
  OBVIOUS
<1>3. Len(s) \in Nat /\ DOMAIN s = 1 .. Len(s) /\ DOMAIN Tail(s) = 1 .. Len(Tail(s))
  BY <1>1, LenProperties
<1>4. Len(s) >= 1
  BY <1>3
<1> QED
  BY <1>1, <1>2, <1>3, <1>4

-----------------------------------------------------------------------------
(* Types.                                                                   *)

LEMMA TypeInit == Init => Typed
<1> SUFFICES ASSUME Init PROVE Typed
  OBVIOUS
<1>1. TypeOK
  <2>1. /\ value \in [Atom -> Values] /\ told \in [Atom -> Values \cup {Unknown}]
        /\ changes \in 0 .. MaxChanges /\ inits \in 1 .. MaxInits
    BY BoundAssumption DEF Init, Values
  <2>2. def \in Handler \cup {Null, Garbage} /\ called \in Handler \cup {Null, Garbage}
    BY DEF Init
  <2>3. /\ events \in Seq([atom : Atom, state : {"newvalue", "delete"}])
        /\ head \in Seq([name : Atom, handler : Handler])
    BY DEF Init
  <2> QED
    BY <2>1, <2>2, <2>3 DEF Init, TypeOK
<1>2. QueuesOK
  BY DEF Init, QueuesOK
<1> QED
  BY <1>1, <1>2 DEF Typed

LEMMA TypeStep == Typed /\ [Next]_vars => Typed'
<1> SUFFICES ASSUME Typed, [Next]_vars PROVE Typed'
  OBVIOUS
<1> USE BoundAssumption, ForgedAssumption
<1>0. Typed
  OBVIOUS
<1>a. TypeOK /\ QueuesOK
  BY DEF Typed
<1>b. ASSUME NEW packet \in Packet, Sends(packet)
      PROVE  stream' \in Seq(Packet) /\ UNCHANGED <<events, answer, connected>>
  BY <1>a, <1>b, AppendAt DEF Sends, QueuesOK
<1>c. ASSUME NEW a \in Atom, NEW state \in State
      PROVE  Notify(a, state) \in Packet
  BY DEF Notify, Packet
<1>1. ASSUME NEW a \in Atom, Change(a) PROVE Typed'
  <2>1. stream' \in Seq(Packet) /\ UNCHANGED <<events, answer, connected>>
    BY <1>1, <1>b, <1>c DEF Change, State
  <2>2. changes' \in 0 .. MaxChanges /\ value' \in [Atom -> Values]
    BY <1>1, <1>a DEF Change, TypeOK, Values
  <2> QED
    BY <1>1, <2>1, <2>2, <1>a DEF Change, Typed, TypeOK, QueuesOK, client, handlers, Values
<1>2. ASSUME NEW a \in Atom, Delete(a) PROVE Typed'
  <2>1. stream' \in Seq(Packet) /\ UNCHANGED <<events, answer, connected>>
    BY <1>2, <1>b, <1>c DEF Delete, State
  <2>2. changes' \in 0 .. MaxChanges /\ value' \in [Atom -> Values]
    BY <1>2, <1>a DEF Delete, TypeOK, Values
  <2> QED
    BY <1>2, <2>1, <2>2, <1>a DEF Delete, Typed, TypeOK, QueuesOK, client, handlers, Values
<1>3. ASSUME NEW a \in Atom, Forge(a) PROVE Typed'
  <2>1. PICK state \in Forged : Sends(Notify(a, state))
    BY <1>3 DEF Forge
  <2>2. stream' \in Seq(Packet) /\ UNCHANGED <<events, answer, connected>>
    BY <2>1, <1>b, <1>c DEF State
  <2>3. changes' \in 0 .. MaxChanges
    BY <1>3, <1>a DEF Forge, TypeOK
  <2> QED
    BY <1>3, <2>2, <2>3, <1>a DEF Forge, Typed, TypeOK, QueuesOK, client, handlers, Values
<1>4. CASE Destroy
  <2>1. /\ exists' = FALSE /\ UNCHANGED <<value, changes, wire, stream, events, answer, connected>>
        /\ UNCHANGED <<head, def, freed, inits, pc, job, called, told>>
    BY <1>4 DEF Destroy, client, handlers, xcb
  <2>2. TypeOK'
    BY <2>1, <1>a DEF TypeOK, Values
  <2>3. QueuesOK'
    BY <2>1, <1>a DEF QueuesOK
  <2> QED
    BY <2>2, <2>3 DEF Typed
<1>5. CASE Serve
  <2>1. PICK body \in Values \cup {Null} : Sends([type |-> "reply", body |-> body])
    BY <1>5, <1>a DEF Serve, TypeOK
  <2>2. [type |-> "reply", body |-> body] \in Packet
    BY DEF Packet
  <2>3. stream' \in Seq(Packet) /\ UNCHANGED <<events, answer, connected>>
    BY <2>1, <2>2, <1>b
  <2> QED
    BY <1>5, <2>3, <1>a DEF Serve, Typed, TypeOK, QueuesOK, client, handlers, server, Values
<1>6. CASE Receive
  <2>1. Head(stream) \in Packet /\ stream' \in Seq(Packet)
    BY <1>6, <1>a, TailAt DEF Receive, QueuesOK
  <2>2. events' \in Seq(Event) /\ answer' \in {<<>>} \cup {<<v>> : v \in Values \cup {Null}}
    <3>1. CASE Head(stream).type = "event"
      <4>1. [atom |-> Head(stream).atom, state |-> Head(stream).state] \in Event
        BY <3>1, <2>1 DEF Packet, Event
      <4> QED
        <5>1. /\ events' = Append(events, [atom |-> Head(stream).atom, state |-> Head(stream).state])
              /\ answer' = answer
          BY <1>6, <3>1 DEF Receive
        <5>2. events \in Seq(Event)
          BY <1>a DEF TypeOK, Event, State
        <5> QED
          BY <5>1, <5>2, <4>1, <1>a, AppendAt DEF TypeOK
    <3>2. CASE Head(stream).type = "reply"
      <4>1. Head(stream).body \in Values \cup {Null}
        BY <3>2, <2>1 DEF Packet
      <4> QED
        BY <1>6, <3>2, <4>1, <1>a DEF Receive, TypeOK, Event, State
    <3> QED
      BY <1>6, <3>1, <3>2 DEF Receive
  <2> QED
    BY <1>6, <2>1, <2>2, <1>a
    DEF Receive, Typed, TypeOK, QueuesOK, client, handlers, server, Values, Event, State
<1>7. CASE Break
  <2>1. stream' \in Seq(Packet)
    BY <1>7 DEF Break
  <2>2. /\ connected' = FALSE /\ UNCHANGED <<value, exists, changes, events, answer>>
        /\ UNCHANGED <<head, def, freed, inits, pc, job, called, told>>
    BY <1>7 DEF Break, client, handlers, server
  <2>3. wire' \in Atom \cup {Null}
    BY <1>7, <1>a DEF Break, TypeOK
  <2>4. TypeOK'
    BY <2>2, <2>3, <1>a DEF TypeOK, Values
  <2>5. QueuesOK'
    BY <2>1, <2>2, <1>a DEF QueuesOK
  <2> QED
    BY <2>4, <2>5 DEF Typed
<1>8. ASSUME NEW a \in Atom, NEW h \in Handler, xcb_property_set_handler(a, h) PROVE Typed'
  <2>1. [name |-> a, handler |-> h] \in [name : Atom, handler : Handler]
    OBVIOUS
  <2>2. <<[name |-> a, handler |-> h]>> \in Seq([name : Atom, handler : Handler])
    BY <2>1
  <2>3. head' \in Seq([name : Atom, handler : Handler])
    BY <1>8, <1>a, <2>2, ConcatProperties DEF xcb_property_set_handler, TypeOK
  <2> QED
    BY <1>8, <2>3, <1>a
    DEF xcb_property_set_handler, Typed, TypeOK, QueuesOK, xcb, server, Values
<1>9. ASSUME NEW h \in Handler \cup {Null}, xcb_property_set_default_handler(h) PROVE Typed'
  BY <1>9, <1>a DEF xcb_property_set_default_handler, Typed, TypeOK, QueuesOK, xcb, server, Values
<1>10. CASE xcb_property_handlers_wipe
  BY <1>10, <1>a DEF xcb_property_handlers_wipe, Typed, TypeOK, QueuesOK, xcb, server, Values
<1>11. CASE xcb_property_handlers_init
  <2>1. inits' \in 1 .. MaxInits
    BY <1>11, <1>a DEF xcb_property_handlers_init, TypeOK, QueuesOK
  <2>2. head' \in Seq([name : Atom, handler : Handler])
    BY <1>11 DEF xcb_property_handlers_init
  <2> QED
    BY <1>11, <2>1, <2>2, <1>a
    DEF xcb_property_handlers_init, Typed, TypeOK, QueuesOK, xcb, server, Values
<1>12. CASE HandleEvent
  <2>a. events \in Seq(Event) /\ events # <<>>
    BY <1>12, <1>a DEF HandleEvent, TypeOK, Event, State
  <2>b. events' = Tail(events)
    BY <1>12 DEF HandleEvent, Ignore, Crash, CallDeleted, Fetch
  <2>1. Head(events) \in Event /\ events' \in Seq(Event)
    BY <2>a, <2>b, TailAt
  <2>2. CASE Ignore
    BY <1>12, <2>1, <2>2, <1>a
    DEF HandleEvent, Ignore, Typed, TypeOK, QueuesOK, server, handlers, Values, Event, State
  <2>3. CASE Crash
    BY <1>12, <2>1, <2>3, <1>a
    DEF HandleEvent, Crash, Typed, TypeOK, QueuesOK, server, handlers, Values, Event, State
  <2>4. CASE CallDeleted
    BY <1>12, <2>1, <2>4, <1>a
    DEF HandleEvent, CallDeleted, Typed, TypeOK, QueuesOK, server, handlers, Values, Event, State
  <2>5. CASE Fetch
    <3>1. Head(events).atom \in Atom /\ HandlerOf(Head(events).atom) \in Handler
      BY <2>1, <2>5 DEF Fetch, Event
    <3> QED
      BY <1>12, <2>1, <2>5, <3>1, <1>a
      DEF HandleEvent, Fetch, Typed, TypeOK, QueuesOK, server, handlers, Values, Event, State
  <2> QED
    BY <1>12, <2>2, <2>3, <2>4, <2>5 DEF HandleEvent
<1>13. CASE CallHandler
  <2>1. job.atom \in Atom /\ job.handler \in Handler
    BY <1>13, <1>a DEF CallHandler, QueuesOK
  <2>2. ToldOf(job.atom, IF answer = <<>> THEN Null ELSE answer[1]) \in Values \cup {Unknown}
    BY <1>a DEF ToldOf, TypeOK
  <2>3. told' \in [Atom -> Values \cup {Unknown}]
    BY <1>13, <1>a, <2>1, <2>2 DEF CallHandler, TypeOK
  <2> QED
    BY <1>13, <2>1, <2>3, <1>a DEF CallHandler, Typed, TypeOK, QueuesOK, server, handlers, Values
<1>14. CASE LoopEnds
  BY <1>14, <1>a DEF LoopEnds, Typed, TypeOK, QueuesOK, server, xcb, handlers, Values
<1>15. CASE UNCHANGED vars
  BY <1>15, <1>a DEF vars, Typed, TypeOK, QueuesOK, server, xcb, handlers, Values
<1> QED
  BY <1>1, <1>2, <1>3, <1>4, <1>5, <1>6, <1>7, <1>8, <1>9, <1>10, <1>11, <1>12, <1>13, <1>14, <1>15
  DEF Next

\* Every variable keeps its type: what the handlers are told and what is
\* queued are notifications and values, whoever changes the properties
\* (property.c:52-93).
THEOREM TypeCorrect == Spec => []TypeOK
<1>1. Spec => []Typed
  BY TypeInit, TypeStep, PTL DEF Spec
<1>2. Typed => TypeOK
  BY DEF Typed
<1> QED
  BY <1>1, <1>2, PTL

-----------------------------------------------------------------------------
(* The list of handlers.                                                    *)

\* Freed nodes are reachable only between wiping and initialising.
ListInv == (freed => pc = "wiped") /\ ListIsLive

LEMMA ListStep == ListInv /\ [Next]_vars => ListInv'
<1> SUFFICES ASSUME ListInv, [Next]_vars PROVE ListInv'
  OBVIOUS
<1> USE DEF ListInv, ListIsLive
<1>1. ASSUME NEW a \in Atom, Change(a) \/ Delete(a) \/ Forge(a) PROVE ListInv'
  BY <1>1 DEF Change, Delete, Forge, client, handlers
<1>2. CASE Destroy \/ Serve \/ Receive \/ Break
  BY <1>2 DEF Destroy, Serve, Receive, Break, client, handlers
<1>3. ASSUME NEW a \in Atom, NEW h \in Handler, xcb_property_set_handler(a, h) PROVE ListInv'
  BY <1>3 DEF xcb_property_set_handler
<1>4. ASSUME NEW h \in Handler \cup {Null}, xcb_property_set_default_handler(h) PROVE ListInv'
  BY <1>4 DEF xcb_property_set_default_handler
<1>5. CASE xcb_property_handlers_wipe \/ xcb_property_handlers_init
  BY <1>5 DEF xcb_property_handlers_wipe, xcb_property_handlers_init
<1>6. CASE HandleEvent
  BY <1>6 DEF HandleEvent, Ignore, Crash, CallDeleted, Fetch, handlers
<1>7. CASE CallHandler \/ LoopEnds
  BY <1>7 DEF CallHandler, LoopEnds, handlers
<1>8. CASE UNCHANGED vars
  BY <1>8 DEF vars, handlers
<1> QED
  BY <1>1, <1>2, <1>3, <1>4, <1>5, <1>6, <1>7, <1>8 DEF Next

\* No event ever finds a list that was freed, however often handlers are wiped
\* and initialised again (property.c:95-113).
THEOREM ListStaysLive == Spec => []ListIsLive
<1>1. Init => ListInv
  BY DEF Init, ListInv, ListIsLive
<1>2. ListInv => ListIsLive
  BY DEF ListInv
<1> QED
  BY <1>1, <1>2, ListStep, PTL DEF Spec

-----------------------------------------------------------------------------
(* Requests and replies.                                                    *)

\* What call_handler waits for is in one place, and nowhere else is a reply.
Track ==
    /\ OneReply
    /\ wire # Null \/ answer # <<>> => \A i \in DOMAIN stream : ~IsReply(stream[i])
    /\ wire # Null => answer = <<>>
    /\ \A i, j \in DOMAIN stream : IsReply(stream[i]) /\ IsReply(stream[j]) => i = j
    /\ ~connected => wire = Null /\ stream = <<>>

LEMMA TrackStep == Typed /\ Track /\ [Next]_vars => Track'
<1> SUFFICES ASSUME Typed, Track, [Next]_vars PROVE Track'
  OBVIOUS
<1>a. TypeOK /\ QueuesOK
  BY DEF Typed
<1>b. \A i \in DOMAIN stream : stream[i].type = "event" <=> ~IsReply(stream[i])
  BY <1>a DEF QueuesOK, Packet, IsReply
<1>n. ASSUME NEW a \in Atom, NEW state \in State, Sends(Notify(a, state)),
             UNCHANGED <<wire, pc>>
      PROVE  Track'
  <2>1. Notify(a, state) \in Packet /\ Notify(a, state).type = "event"
    BY DEF Notify, Packet
  <2>2. CASE ~connected
    BY <1>n, <2>2 DEF Sends, Track, OneReply
  <2>3. CASE connected
    <3>1. /\ DOMAIN stream = 1 .. Len(stream) /\ Len(stream) \in Nat
          /\ DOMAIN stream' = 1 .. Len(stream) + 1
          /\ \A i \in 1 .. Len(stream) : stream'[i] = stream[i]
          /\ stream'[Len(stream) + 1] = Notify(a, state)
      BY <1>n, <2>1, <2>3, <1>a, AppendAt DEF Sends, QueuesOK
    <3>2. \A i \in DOMAIN stream' : i \in DOMAIN stream \/ i = Len(stream) + 1
      BY <3>1
    <3>3. \A i \in DOMAIN stream' : IsReply(stream'[i]) => i \in DOMAIN stream /\ IsReply(stream[i])
      BY <3>1, <3>2, <2>1 DEF IsReply
    <3>4. \A i \in DOMAIN stream' :
             i \in DOMAIN stream /\ stream[i].type = "event" => stream'[i].type = "event"
      BY <3>1
    <3>5. stream'[Len(stream) + 1].type = "event"
      BY <3>1, <2>1
    <3> QED
      BY <1>n, <2>3, <3>2, <3>3, <3>4, <3>5 DEF Sends, Track, OneReply
  <2> QED
    BY <2>2, <2>3
<1>1. ASSUME NEW a \in Atom, Change(a) PROVE Track'
  BY <1>1, <1>n DEF Change, client, State
<1>2. ASSUME NEW a \in Atom, Delete(a) PROVE Track'
  BY <1>2, <1>n DEF Delete, client, State
<1>3. ASSUME NEW a \in Atom, Forge(a) PROVE Track'
  BY <1>3, <1>n, ForgedAssumption DEF Forge, client, State
<1>4. CASE Serve
  <2>1. connected /\ wire # Null /\ wire' = Null /\ UNCHANGED <<answer, connected, pc>>
    BY <1>4 DEF Serve, Sends, Track, client
  <2>2. PICK body \in Values \cup {Null} : stream' = Append(stream, [type |-> "reply", body |-> body])
    BY <1>4, <2>1, <1>a DEF Serve, Sends, TypeOK
  <2>3. [type |-> "reply", body |-> body] \in Packet
    BY DEF Packet
  <2>4. /\ DOMAIN stream = 1 .. Len(stream) /\ Len(stream) \in Nat
        /\ DOMAIN stream' = 1 .. Len(stream) + 1
        /\ \A i \in 1 .. Len(stream) : stream'[i] = stream[i]
    BY <2>2, <2>3, <1>a, AppendAt DEF QueuesOK
  <2>5. \A i \in DOMAIN stream' : IsReply(stream'[i]) => i = Len(stream) + 1
    BY <2>1, <2>4 DEF Track
  <2> QED
    BY <2>1, <2>5 DEF Track, OneReply
<1>5. CASE Receive
  <2>1. /\ Head(stream) = stream[1] /\ Head(stream) \in Packet
        /\ DOMAIN stream = 1 .. Len(stream) /\ Len(stream) \in Nat /\ Len(stream) >= 1
        /\ DOMAIN stream' = 1 .. Len(stream) - 1
        /\ \A i \in 1 .. Len(stream) - 1 : stream'[i] = stream[i + 1]
    BY <1>5, <1>a, TailAt DEF Receive, QueuesOK
  <2>2. UNCHANGED <<wire, connected, pc>> /\ stream # <<>>
    BY <1>5 DEF Receive, client
  <2>3. \A i \in DOMAIN stream' : i + 1 \in DOMAIN stream /\ stream'[i] = stream[i + 1] /\ i + 1 # 1
    BY <2>1
  <2>4. 1 \in DOMAIN stream
    BY <2>1
  <2>5. \A i, j \in DOMAIN stream' : IsReply(stream'[i]) /\ IsReply(stream'[j]) => i = j
    <3>1. \A i, j \in DOMAIN stream' : i + 1 = j + 1 => i = j
      BY <2>1
    <3> QED
      BY <3>1, <2>3 DEF Track
  <2>6. CASE Head(stream).type = "event"
    <3>1. answer' = answer
      BY <1>5, <2>6 DEF Receive
    <3> QED
      BY <2>2, <2>3, <2>5, <3>1 DEF Track, OneReply
  <2>7. CASE Head(stream).type = "reply"
    <3>1. \A i \in DOMAIN stream' : ~IsReply(stream'[i])
      BY <2>1, <2>3, <2>4, <2>7 DEF Track, IsReply
    <3>2. wire = Null /\ pc = "fetch"
      BY <2>1, <2>4, <2>7, <1>b DEF Track, OneReply, IsReply
    <3> QED
      BY <2>2, <3>1, <3>2 DEF Track, OneReply
  <2> QED
    BY <1>5, <2>6, <2>7 DEF Receive
<1>6. CASE Break
  BY <1>6 DEF Break, Track, OneReply, client
<1>7. CASE Destroy
  BY <1>7 DEF Destroy, Track, OneReply, client, xcb
<1>8. ASSUME NEW h \in Handler \cup {Null},
             \/ xcb_property_set_default_handler(h)
             \/ \E a \in Atom : xcb_property_set_handler(a, h)
      PROVE  Track'
  BY <1>8 DEF xcb_property_set_handler, xcb_property_set_default_handler, Track, OneReply, xcb
<1>9. CASE xcb_property_handlers_wipe \/ xcb_property_handlers_init
  BY <1>9 DEF xcb_property_handlers_wipe, xcb_property_handlers_init, Track, OneReply, xcb
<1>10. CASE HandleEvent
  <2>1. /\ pc = "idle" /\ UNCHANGED <<stream, answer, connected>>
        /\ wire = Null /\ answer = <<>> /\ \A i \in DOMAIN stream : ~IsReply(stream[i])
    BY <1>10, <1>b DEF HandleEvent, Track, OneReply
  <2>2. CASE pc' = "fetch"
    <3>1. connected
      BY <1>10 DEF HandleEvent
    <3> QED
      BY <2>1, <2>2, <3>1 DEF Track, OneReply
  <2>3. CASE wire' = wire
    BY <2>1, <2>3 DEF Track, OneReply
  <2> QED
    BY <1>10, <2>2, <2>3 DEF HandleEvent, Ignore, Crash, CallDeleted, Fetch
<1>11. CASE CallHandler
  <2>1. /\ answer # <<>> \/ ~connected
        /\ answer' = <<>> /\ UNCHANGED <<wire, stream, connected>>
    BY <1>11 DEF CallHandler
  <2>2. wire = Null /\ \A i \in DOMAIN stream : ~IsReply(stream[i])
    BY <2>1 DEF Track
  <2> QED
    BY <2>1, <2>2, <1>b DEF Track, OneReply
<1>12. CASE LoopEnds
  BY <1>12 DEF LoopEnds, Track, OneReply, xcb
<1>13. CASE UNCHANGED vars
  BY <1>13 DEF vars, Track, OneReply, xcb
<1> QED
  BY <1>1, <1>2, <1>3, <1>4, <1>5, <1>6, <1>7, <1>8, <1>9, <1>10, <1>11, <1>12, <1>13 DEF Next

LEMMA Tracked == Spec => [](Typed /\ Track)
<1>1. Init => Track
  BY DEF Init, Track, OneReply
<1>2. Init => Typed /\ Track
  BY <1>1, TypeInit
<1>3. (Typed /\ Track) /\ [Next]_vars => (Typed /\ Track)'
  BY TypeStep, TrackStep
<1> QED
  BY <1>2, <1>3, PTL DEF Spec

\* A handler that is called has collected the reply to its own request, also
\* when the connection broke: none is left for the next (property.c:57-66).
THEOREM RepliesAreTaken == Spec => []OneReply
<1>1. Typed /\ Track => OneReply
  BY DEF Track
<1> QED
  BY <1>1, Tracked, PTL

-----------------------------------------------------------------------------
(* What the handlers know.                                                  *)

\* Notifications of a property behind place p of a queue.
About(queue, a, p) == \E i \in DOMAIN queue : i > p /\ ~IsReply(queue[i]) /\ queue[i].atom = a
Noticed(queue, a, p) == \E i \in DOMAIN queue : i > p /\ queue[i].atom = a

\* A notification of a is still to be handled.
Coming(a) == Noticed(events, a, 0) \/ About(stream, a, 0)

\* Who is told of a deletion last is told the truth.
LastDeletion ==
    /\ \A i \in DOMAIN events : events[i].state = "delete" =>
          \/ value[events[i].atom] = Deleted
          \/ Noticed(events, events[i].atom, i) \/ About(stream, events[i].atom, 0)
    /\ \A i \in DOMAIN stream : ~IsReply(stream[i]) /\ stream[i].state = "delete" =>
          value[stream[i].atom] = Deleted \/ About(stream, stream[i].atom, i)

\* The handler that waits for a reply will get the value of a.
Fetching(a) ==
    /\ pc = "fetch" /\ job.atom = a
    /\ \/ wire = a
       \/ answer = <<value[a]>>
       \/ \E i \in DOMAIN stream : IsReply(stream[i]) /\ stream[i].body = value[a]

Knows(a) == ~(pc = "fetch" /\ job.atom = a) /\ told[a] \in {value[a], Unknown}

InSync ==
    connected /\ exists /\ pc # "crashed" =>
        /\ LastDeletion
        /\ \A a \in Atom : Coming(a) \/ Fetching(a) \/ Knows(a)

LEMMA InSyncInit == Init => InSync
  BY DEF Init, InSync, LastDeletion, Knows

\* A notification that the server sends, of a change or not.
LEMMA NoticeStep ==
    ASSUME Typed, InSync, NEW b \in Atom, NEW state \in State, Sends(Notify(b, state)),
           UNCHANGED <<exists, wire, client>>,
           value' \in [Atom -> Values], \A a \in Atom : a # b => value'[a] = value[a],
           state = "delete" => value'[b] = Deleted
    PROVE  InSync'
<1> SUFFICES ASSUME connected, exists, pc # "crashed" PROVE
                 /\ LastDeletion'
                 /\ \A a \in Atom : Coming(a)' \/ Fetching(a)' \/ Knows(a)'
  BY DEF InSync, Sends, client
<1>1. TypeOK /\ QueuesOK /\ UNCHANGED <<events, answer, connected, pc, job, told>>
  BY DEF Typed, Sends, client
<1>2. Notify(b, state) \in Packet /\ ~IsReply(Notify(b, state))
      /\ Notify(b, state).atom = b /\ Notify(b, state).state = state
  BY DEF Notify, Packet, IsReply
<1> DEFINE n == Len(stream)
<1>3. /\ DOMAIN stream = 1 .. n /\ n \in Nat /\ DOMAIN stream' = 1 .. n + 1
      /\ \A i \in 1 .. n : stream'[i] = stream[i]
      /\ stream'[n + 1] = Notify(b, state)
  BY <1>1, <1>2, AppendAt DEF Sends, QueuesOK
<1> HIDE DEF n
<1>4. \A a \in Atom, p \in 0 .. n : About(stream, a, p) => About(stream', a, p)
  BY <1>3 DEF About
<1>5. \A p \in 0 .. n : About(stream', b, p)
  BY <1>2, <1>3 DEF About
<1>6. \A i \in DOMAIN events : events[i].atom \in Atom
  <2>1. events \in Seq(Event)
    BY <1>1 DEF TypeOK, Event, State
  <2>2. \A i \in DOMAIN events : events[i] \in Event
    BY <2>1
  <2> QED
    BY <2>2 DEF Event
<1>7. \A i \in DOMAIN stream : ~IsReply(stream[i]) => stream[i].atom \in Atom
  BY <1>1 DEF QueuesOK, Packet, IsReply
<1>8. LastDeletion /\ \A a \in Atom : Coming(a) \/ Fetching(a) \/ Knows(a)
  BY DEF InSync
<1>9. LastDeletion'
  <2>1. ASSUME NEW i \in DOMAIN events, events[i].state = "delete"
        PROVE  \/ value'[events[i].atom] = Deleted
               \/ Noticed(events, events[i].atom, i) \/ About(stream', events[i].atom, 0)
    <3>1. CASE events[i].atom = b
      BY <3>1, <1>3, <1>5
    <3>2. CASE events[i].atom # b
      <4>1. value'[events[i].atom] = value[events[i].atom]
        BY <3>2, <1>6
      <4> QED
        BY <2>1, <4>1, <1>3, <1>4, <1>6, <1>8 DEF LastDeletion
    <3> QED
      BY <3>1, <3>2
  <2>2. ASSUME NEW i \in DOMAIN stream', ~IsReply(stream'[i]), stream'[i].state = "delete"
        PROVE  value'[stream'[i].atom] = Deleted \/ About(stream', stream'[i].atom, i)
    <3>1. CASE i = n + 1
      BY <2>2, <3>1, <1>2, <1>3
    <3>2. CASE i \in 1 .. n /\ stream[i].atom = b
      BY <3>2, <1>3, <1>5
    <3>3. CASE i \in 1 .. n /\ stream[i].atom # b
      <4>1. stream'[i] = stream[i] /\ i \in DOMAIN stream /\ i \in 0 .. n
        BY <3>3, <1>3
      <4>2. stream[i].atom \in Atom /\ value'[stream[i].atom] = value[stream[i].atom]
        BY <2>2, <3>3, <4>1, <1>7
      <4> QED
        BY <2>2, <4>1, <4>2, <1>4, <1>8 DEF LastDeletion
    <3> QED
      BY <3>1, <3>2, <3>3, <1>3
  <2> QED
    BY <2>1, <2>2, <1>1 DEF LastDeletion
<1>10. ASSUME NEW a \in Atom PROVE Coming(a)' \/ Fetching(a)' \/ Knows(a)'
  <2>1. CASE a = b
    BY <2>1, <1>3, <1>5 DEF Coming
  <2>2. CASE a # b
    <3>1. value'[a] = value[a]
      BY <2>2
    <3>2. CASE Coming(a)
      BY <3>2, <1>1, <1>3, <1>4 DEF Coming
    <3>3. CASE Fetching(a)
      BY <3>1, <3>3, <1>1, <1>3 DEF Fetching
    <3>4. CASE Knows(a)
      BY <3>1, <3>4, <1>1 DEF Knows
    <3> QED
      BY <3>2, <3>3, <3>4, <1>8
  <2> QED
    BY <2>1, <2>2
<1> QED
  BY <1>9, <1>10

LEMMA InSyncStep ==
    ASSUME "delete" \notin Forged, Typed, Track, InSync, [Next]_vars
    PROVE  InSync'
<1>a. TypeOK /\ QueuesOK
  BY DEF Typed
<1>e. events \in Seq(Event) /\ \A i \in DOMAIN events : events[i].atom \in Atom
  <2>1. events \in Seq(Event)
    BY <1>a DEF TypeOK, Event, State
  <2>2. \A i \in DOMAIN events : events[i] \in Event
    BY <2>1
  <2>3. \A i \in DOMAIN events : events[i].atom \in Atom
    BY <2>2 DEF Event
  <2> QED
    BY <2>1, <2>3
<1>s. \A i \in DOMAIN stream : ~IsReply(stream[i]) => stream[i].atom \in Atom
  BY <1>a DEF QueuesOK, Packet, IsReply
\* Steps that touch nothing of this.
<1>u. ASSUME UNCHANGED <<value, exists, wire, stream, events, answer, connected, job, told>>,
             pc' = pc \/ (pc # "fetch" /\ pc # "crashed" /\ pc' # "fetch")
      PROVE  InSync'
  <2>1. LastDeletion => LastDeletion'
    BY <1>u DEF LastDeletion
  <2>2. \A a \in Atom : (Coming(a) => Coming(a)') /\ (Fetching(a) => Fetching(a)')
                        /\ (Knows(a) => Knows(a)')
    BY <1>u DEF Coming, Fetching, Knows
  <2> QED
    BY <2>1, <2>2, <1>u DEF InSync
<1>1. ASSUME NEW a \in Atom, Change(a) PROVE InSync'
  <2>1. changes' \in Values
    BY <1>1, <1>a, BoundAssumption DEF Change, TypeOK, Values
  <2>2. value' = [value EXCEPT ![a] = changes'] /\ value \in [Atom -> Values]
    BY <1>1, <1>a DEF Change, TypeOK
  <2>3. value' \in [Atom -> Values] /\ \A c \in Atom : c # a => value'[c] = value[c]
    BY <2>1, <2>2
  <2> QED
    BY <1>1, <2>3, NoticeStep DEF Change, State
<1>2. ASSUME NEW a \in Atom, Delete(a) PROVE InSync'
  <2>1. value' = [value EXCEPT ![a] = Deleted] /\ value \in [Atom -> Values]
    BY <1>2, <1>a DEF Delete, TypeOK
  <2>2. /\ value' \in [Atom -> Values] /\ \A c \in Atom : c # a => value'[c] = value[c]
        /\ value'[a] = Deleted
    BY <2>1 DEF Values
  <2> QED
    BY <1>2, <2>2, NoticeStep DEF Delete, State
<1>3. ASSUME NEW a \in Atom, Forge(a) PROVE InSync'
  <2>1. PICK state \in Forged : Sends(Notify(a, state))
    BY <1>3 DEF Forge
  <2>2. state \in State /\ state # "delete"
    BY <2>1, ForgedAssumption DEF State
  <2>3. value' \in [Atom -> Values] /\ value' = value
    BY <1>3, <1>a DEF Forge, TypeOK
  <2> QED
    BY <1>3, <2>1, <2>2, <2>3, NoticeStep DEF Forge
<1>4. CASE Destroy
  BY <1>4 DEF Destroy, InSync
<1>5. CASE Serve
  <2> SUFFICES ASSUME connected, exists, pc # "crashed" PROVE
                   /\ LastDeletion'
                   /\ \A a \in Atom : Coming(a)' \/ Fetching(a)' \/ Knows(a)'
    BY <1>5 DEF Serve, Sends, InSync, server, client
  <2>1. /\ wire # Null /\ UNCHANGED <<value, exists, events, answer, connected, pc, job, told>>
        /\ stream' = Append(stream, [type |-> "reply", body |-> value[wire]])
    BY <1>5 DEF Serve, Sends, server, client
  <2>2. wire \in Atom /\ [type |-> "reply", body |-> value[wire]] \in Packet
    BY <2>1, <1>a DEF TypeOK, Packet
  <2>3. /\ DOMAIN stream = 1 .. Len(stream) /\ Len(stream) \in Nat
        /\ DOMAIN stream' = 1 .. Len(stream) + 1
        /\ \A i \in 1 .. Len(stream) : stream'[i] = stream[i]
        /\ stream'[Len(stream) + 1] = [type |-> "reply", body |-> value[wire]]
    BY <2>1, <2>2, <1>a, AppendAt DEF QueuesOK
  <2>4. IsReply(stream'[Len(stream) + 1]) /\ stream'[Len(stream) + 1].body = value[wire]
    BY <2>3 DEF IsReply
  <2>5. \A a, p : About(stream, a, p) => About(stream', a, p)
    BY <2>3 DEF About
  <2>6. LastDeletion /\ \A a \in Atom : Coming(a) \/ Fetching(a) \/ Knows(a)
    BY DEF InSync
  <2>7. LastDeletion'
    <3>1. ASSUME NEW i \in DOMAIN stream', ~IsReply(stream'[i]), stream'[i].state = "delete"
          PROVE  value[stream'[i].atom] = Deleted \/ About(stream', stream'[i].atom, i)
      <4>1. i \in DOMAIN stream /\ stream'[i] = stream[i]
        BY <3>1, <2>3, <2>4
      <4> QED
        BY <3>1, <4>1, <2>5, <2>6 DEF LastDeletion
    <3> QED
      BY <3>1, <2>1, <2>5, <2>6 DEF LastDeletion
  <2>8. ASSUME NEW a \in Atom PROVE Coming(a)' \/ Fetching(a)' \/ Knows(a)'
    <3>1. CASE Coming(a)
      BY <3>1, <2>1, <2>5 DEF Coming
    <3>2. CASE Fetching(a)
      <4>1. CASE wire = a
        BY <3>2, <4>1, <2>1, <2>3, <2>4 DEF Fetching
      <4>2. CASE answer = <<value[a]>>
        BY <3>2, <4>2, <2>1 DEF Fetching
      <4>3. CASE \E i \in DOMAIN stream : IsReply(stream[i]) /\ stream[i].body = value[a]
        BY <3>2, <4>3, <2>1, <2>3 DEF Fetching
      <4> QED
        BY <3>2, <4>1, <4>2, <4>3 DEF Fetching
    <3>3. CASE Knows(a)
      BY <3>3, <2>1 DEF Knows
    <3> QED
      BY <3>1, <3>2, <3>3, <2>6
  <2> QED
    BY <2>7, <2>8
<1>6. CASE Receive
  <2> SUFFICES ASSUME connected, exists, pc # "crashed" PROVE
                   /\ LastDeletion'
                   /\ \A a \in Atom : Coming(a)' \/ Fetching(a)' \/ Knows(a)'
    BY <1>6 DEF Receive, InSync, server, client
  <2>1. UNCHANGED <<value, exists, wire, connected, pc, job, told>> /\ stream # <<>>
    BY <1>6 DEF Receive, server, client
  <2>2. /\ Head(stream) = stream[1] /\ Head(stream) \in Packet
        /\ DOMAIN stream = 1 .. Len(stream) /\ Len(stream) \in Nat /\ Len(stream) >= 1
        /\ DOMAIN stream' = 1 .. Len(stream) - 1
        /\ \A i \in 1 .. Len(stream) - 1 : stream'[i] = stream[i + 1]
    BY <1>6, <1>a, TailAt DEF Receive, QueuesOK
  <2>3. LastDeletion /\ \A a \in Atom : Coming(a) \/ Fetching(a) \/ Knows(a)
    BY DEF InSync
  <2>4. ASSUME NEW a, NEW p \in Nat, About(stream, a, p + 1) PROVE About(stream', a, p)
    <3>1. PICK i \in DOMAIN stream : i > p + 1 /\ ~IsReply(stream[i]) /\ stream[i].atom = a
      BY <2>4 DEF About
    <3>2. i - 1 \in DOMAIN stream' /\ i - 1 > p /\ stream'[i - 1] = stream[i]
      BY <3>1, <2>2
    <3> QED
      BY <3>1, <3>2 DEF About
  <2>5. ASSUME NEW i \in DOMAIN stream', ~IsReply(stream'[i]), stream'[i].state = "delete"
        PROVE  value[stream'[i].atom] = Deleted \/ About(stream', stream'[i].atom, i)
    <3>1. i + 1 \in DOMAIN stream /\ stream'[i] = stream[i + 1] /\ i \in Nat
      BY <2>2
    <3> QED
      BY <2>5, <3>1, <2>3, <2>4 DEF LastDeletion
  <2>6. CASE Head(stream).type = "event"
    <3> DEFINE e == [atom |-> Head(stream).atom, state |-> Head(stream).state]
               n == Len(events)
    <3>1. events' = Append(events, e) /\ answer' = answer
      BY <1>6, <2>6 DEF Receive
    <3>2. /\ e \in Event /\ ~IsReply(stream[1]) /\ 1 \in DOMAIN stream
          /\ e.atom = stream[1].atom /\ e.state = stream[1].state
      BY <2>2, <2>6 DEF Packet, Event, IsReply
    <3> HIDE DEF e
    <3>3. /\ DOMAIN events = 1 .. n /\ n \in Nat /\ DOMAIN events' = 1 .. n + 1
          /\ \A i \in 1 .. n : events'[i] = events[i]
          /\ events'[n + 1] = e
      BY <3>1, <3>2, <1>e, AppendAt
    <3> HIDE DEF n
    <3>4. \A a, p : Noticed(events, a, p) => Noticed(events', a, p)
      BY <3>3 DEF Noticed
    <3>5. ASSUME NEW a, About(stream, a, 0), NEW p \in 0 .. n
          PROVE  Noticed(events', a, p) \/ About(stream', a, 0)
      <4>1. PICK i \in DOMAIN stream : ~IsReply(stream[i]) /\ stream[i].atom = a
        BY <3>5 DEF About
      <4>2. CASE i = 1
        BY <4>1, <4>2, <3>2, <3>3 DEF Noticed
      <4>3. CASE i # 1
        <5>1. i > 0 + 1 /\ 0 \in Nat
          BY <4>3, <2>2
        <5>2. About(stream, a, 0 + 1)
          BY <4>1, <5>1 DEF About
        <5> QED
          BY <5>1, <5>2, <2>4
      <4> QED
        BY <4>2, <4>3
    <3>6. ASSUME NEW i \in DOMAIN events', events'[i].state = "delete"
          PROVE  \/ value[events'[i].atom] = Deleted
                 \/ Noticed(events', events'[i].atom, i) \/ About(stream', events'[i].atom, 0)
      <4>1. CASE i \in 1 .. n
        <5>1. i \in DOMAIN events /\ events'[i] = events[i] /\ i \in 0 .. n
          BY <4>1, <3>3
        <5> QED
          BY <3>6, <5>1, <3>4, <3>5, <2>3 DEF LastDeletion
      <4>2. CASE i = n + 1
        <5>1. value[e.atom] = Deleted \/ About(stream, e.atom, 1)
          BY <3>2, <3>3, <3>6, <4>2, <2>3 DEF LastDeletion
        <5>2. About(stream, e.atom, 0 + 1) => About(stream', e.atom, 0)
          BY <2>4
        <5> QED
          BY <4>2, <5>1, <5>2, <3>3
      <4> QED
        BY <4>1, <4>2, <3>3
    <3>7. LastDeletion'
      BY <2>1, <2>5, <3>6 DEF LastDeletion
    <3>8. ASSUME NEW a \in Atom PROVE Coming(a)' \/ Fetching(a)' \/ Knows(a)'
      <4>1. CASE Coming(a)
        BY <4>1, <3>3, <3>4, <3>5 DEF Coming
      <4>2. CASE Fetching(a)
        <5>1. ASSUME NEW i \in DOMAIN stream, IsReply(stream[i]), stream[i].body = value[a]
              PROVE  \E j \in DOMAIN stream' : IsReply(stream'[j]) /\ stream'[j].body = value[a]
          <6>1. i # 1
            BY <5>1, <3>2
          <6>2. i - 1 \in DOMAIN stream' /\ stream'[i - 1] = stream[i]
            BY <6>1, <2>2
          <6> QED
            BY <5>1, <6>2
        <5> QED
          BY <4>2, <5>1, <3>1, <2>1 DEF Fetching
      <4>3. CASE Knows(a)
        BY <4>3, <2>1 DEF Knows
      <4> QED
        BY <4>1, <4>2, <4>3, <2>3
    <3> QED
      BY <3>7, <3>8
  <2>7. CASE Head(stream).type = "reply"
    <3>1. events' = events /\ answer' = <<stream[1].body>> /\ IsReply(stream[1]) /\ 1 \in DOMAIN stream
      BY <1>6, <2>2, <2>7 DEF Receive, IsReply
    <3>2. wire = Null /\ answer = <<>>
      BY <3>1 DEF Track
    <3>3. ASSUME NEW a, About(stream, a, 0) PROVE About(stream', a, 0)
      <4>1. PICK i \in DOMAIN stream : ~IsReply(stream[i]) /\ stream[i].atom = a
        BY <3>3 DEF About
      <4>2. i > 0 + 1 /\ 0 \in Nat
        BY <4>1, <3>1, <2>2
      <4>3. About(stream, a, 0 + 1)
        BY <4>1, <4>2 DEF About
      <4> QED
        BY <4>2, <4>3, <2>4
    <3>4. LastDeletion'
      BY <2>1, <2>3, <2>5, <3>1, <3>3 DEF LastDeletion
    <3>5. ASSUME NEW a \in Atom PROVE Coming(a)' \/ Fetching(a)' \/ Knows(a)'
      <4>1. CASE Coming(a)
        BY <4>1, <3>1, <3>3 DEF Coming
      <4>2. CASE Fetching(a)
        <5>1. wire # a /\ answer # <<value[a]>>
          BY <3>2, NullAssumption
        <5>2. PICK i \in DOMAIN stream : IsReply(stream[i]) /\ stream[i].body = value[a]
          BY <4>2, <5>1 DEF Fetching
        <5>3. i = 1
          BY <5>2, <3>1 DEF Track
        <5> QED
          BY <4>2, <5>2, <5>3, <3>1, <2>1 DEF Fetching
      <4>3. CASE Knows(a)
        BY <4>3, <2>1 DEF Knows
      <4> QED
        BY <4>1, <4>2, <4>3, <2>3
    <3> QED
      BY <3>4, <3>5
  <2> QED
    BY <1>6, <2>6, <2>7 DEF Receive
<1>7. CASE Break
  BY <1>7 DEF Break, InSync
<1>8. ASSUME NEW h \in Handler \cup {Null},
             \/ xcb_property_set_default_handler(h)
             \/ \E a \in Atom : xcb_property_set_handler(a, h)
      PROVE  InSync'
  BY <1>8, <1>u DEF xcb_property_set_handler, xcb_property_set_default_handler, server, xcb
<1>9. CASE xcb_property_handlers_wipe \/ xcb_property_handlers_init
  BY <1>9, <1>u DEF xcb_property_handlers_wipe, xcb_property_handlers_init, server, xcb
<1>10. CASE HandleEvent
  <2> SUFFICES ASSUME exists, pc' # "crashed" PROVE
                   /\ LastDeletion'
                   /\ \A a \in Atom : Coming(a)' \/ Fetching(a)' \/ Knows(a)'
    BY <1>10 DEF HandleEvent, InSync, server
  <2>1. /\ pc = "idle" /\ connected /\ events # <<>>
        /\ UNCHANGED <<value, exists, stream, answer, connected>>
    BY <1>10 DEF HandleEvent, server
  <2>2. LastDeletion /\ \A a \in Atom : Coming(a) \/ Fetching(a) \/ Knows(a)
    BY <2>1 DEF InSync
  <2>3. events' = Tail(events)
    BY <1>10 DEF HandleEvent, Ignore, Crash, CallDeleted, Fetch
  <2>4. /\ Head(events) = events[1] /\ events[1].atom \in Atom /\ 1 \in DOMAIN events
        /\ DOMAIN events = 1 .. Len(events) /\ Len(events) \in Nat /\ Len(events) >= 1
        /\ DOMAIN events' = 1 .. Len(events) - 1
        /\ \A i \in 1 .. Len(events) - 1 : events'[i] = events[i + 1]
    <3>1. /\ Head(events) = events[1]
          /\ DOMAIN events = 1 .. Len(events) /\ Len(events) \in Nat /\ Len(events) >= 1
          /\ DOMAIN events' = 1 .. Len(events) - 1
          /\ \A i \in 1 .. Len(events) - 1 : events'[i] = events[i + 1]
      BY <2>1, <2>3, <1>e, TailAt
    <3>2. 1 \in DOMAIN events
      BY <3>1
    <3> QED
      BY <3>1, <3>2, <1>e
  <2>b. PICK b \in Atom : b = events[1].atom
    BY <2>4
  <2>5. ASSUME NEW a, NEW p \in Nat, Noticed(events, a, p + 1) PROVE Noticed(events', a, p)
    <3>1. PICK i \in DOMAIN events : i > p + 1 /\ events[i].atom = a
      BY <2>5 DEF Noticed
    <3>2. i - 1 \in DOMAIN events' /\ i - 1 > p /\ events'[i - 1] = events[i]
      BY <3>1, <2>4
    <3> QED
      BY <3>1, <3>2 DEF Noticed
  <2>6. LastDeletion'
    <3>1. ASSUME NEW i \in DOMAIN events', events'[i].state = "delete"
          PROVE  \/ value[events'[i].atom] = Deleted
                 \/ Noticed(events', events'[i].atom, i) \/ About(stream, events'[i].atom, 0)
      <4>1. i + 1 \in DOMAIN events /\ events'[i] = events[i + 1] /\ i \in Nat
        BY <2>4
      <4> QED
        BY <3>1, <4>1, <2>2, <2>5 DEF LastDeletion
    <3> QED
      BY <3>1, <2>1, <2>2 DEF LastDeletion
  <2>7. ASSUME NEW a \in Atom, a # b, told'[a] = told[a], job' = job \/ job'.atom = b,
               pc' \in {"idle", "fetch"}, pc' = "idle" \/ job'.atom = b
        PROVE  Coming(a)' \/ Fetching(a)' \/ Knows(a)'
    <3>1. CASE Noticed(events, a, 0)
      <4>1. PICK i \in DOMAIN events : events[i].atom = a
        BY <3>1 DEF Noticed
      <4>2. i > 0 + 1 /\ 0 \in Nat
        BY <4>1, <2>4, <2>7, <2>b
      <4>3. Noticed(events, a, 0 + 1)
        BY <4>1, <4>2 DEF Noticed
      <4> QED
        BY <4>2, <4>3, <2>5 DEF Coming
    <3>2. CASE About(stream, a, 0)
      BY <3>2, <2>1 DEF Coming
    <3>3. CASE Knows(a)
      BY <3>3, <2>1, <2>7 DEF Knows
    <3> QED
      BY <3>1, <3>2, <3>3, <2>1, <2>2 DEF Coming, Fetching
  <2>8. CASE Ignore
    <3>1. told' = [told EXCEPT ![b] = Unknown] /\ UNCHANGED <<pc, job>>
      BY <2>4, <2>8, <2>b DEF Ignore
    <3>2. Knows(b)'
      BY <3>1, <2>1, <2>4, <1>a DEF Knows, TypeOK
    <3>3. \A a \in Atom : a # b => told'[a] = told[a]
      BY <3>1, <1>a DEF TypeOK
    <3> QED
      BY <3>1, <3>2, <3>3, <2>1, <2>6, <2>7
  <2>9. CASE CallDeleted
    <3>1. /\ told' = [told EXCEPT ![b] = Deleted] /\ UNCHANGED <<pc, job>>
          /\ events[1].state = "delete"
      BY <2>4, <2>9, <2>b DEF CallDeleted
    <3>2. value[b] = Deleted \/ Noticed(events, b, 0 + 1) \/ About(stream, b, 0)
      BY <3>1, <2>2, <2>4, <2>b DEF LastDeletion
    <3>3. value[b] = Deleted => Knows(b)'
      BY <3>1, <2>1, <2>4, <1>a DEF Knows, TypeOK
    <3>4. Noticed(events, b, 0 + 1) => Coming(b)'
      BY <2>5 DEF Coming
    <3>5. About(stream, b, 0) => Coming(b)'
      BY <2>1 DEF Coming
    <3>6. \A a \in Atom : a # b => told'[a] = told[a]
      BY <3>1, <1>a DEF TypeOK
    <3> QED
      BY <3>1, <3>2, <3>3, <3>4, <3>5, <3>6, <2>1, <2>6, <2>7
  <2>10. CASE Fetch
    <3>1. pc' = "fetch" /\ job'.atom = b /\ wire' = b /\ told' = told
      BY <2>1, <2>4, <2>10, <2>b DEF Fetch
    <3>2. Fetching(b)'
      BY <3>1 DEF Fetching
    <3> QED
      BY <3>1, <3>2, <2>6, <2>7
  <2> QED
    BY <1>10, <2>8, <2>9, <2>10 DEF HandleEvent, Crash
<1>11. CASE CallHandler
  <2> SUFFICES ASSUME connected, exists PROVE
                   /\ LastDeletion'
                   /\ \A a \in Atom : Coming(a)' \/ Fetching(a)' \/ Knows(a)'
    BY <1>11 DEF CallHandler, InSync, server
  <2>1. /\ pc = "fetch" /\ answer # <<>> /\ pc' = "idle"
        /\ UNCHANGED <<value, exists, wire, stream, events, connected, job>>
        /\ told' = [told EXCEPT ![job.atom] = ToldOf(job.atom, answer[1])]
    BY <1>11 DEF CallHandler, server
  <2>2. LastDeletion /\ \A a \in Atom : Coming(a) \/ Fetching(a) \/ Knows(a)
    BY <2>1 DEF InSync
  <2>3. wire = Null /\ \A i \in DOMAIN stream : ~IsReply(stream[i])
    BY <2>1 DEF Track
  <2>4. LastDeletion'
    BY <2>1, <2>2 DEF LastDeletion
  <2>5. ASSUME NEW a \in Atom PROVE Coming(a)' \/ Fetching(a)' \/ Knows(a)'
    <3>1. CASE Coming(a)
      BY <3>1, <2>1 DEF Coming
    <3>2. CASE Fetching(a)
      <4>1. answer = <<value[a]>> /\ job.atom = a
        BY <3>2, <2>3, NullAssumption DEF Fetching
      <4>2. told'[a] \in {value[a], Unknown}
        BY <4>1, <2>1, <1>a DEF ToldOf, TypeOK
      <4> QED
        BY <4>2, <2>1 DEF Knows
    <3>3. CASE Knows(a)
      <4>1. told'[a] = told[a]
        BY <3>3, <2>1, <1>a DEF Knows, TypeOK
      <4> QED
        BY <3>3, <4>1, <2>1 DEF Knows
    <3> QED
      BY <3>1, <3>2, <3>3, <2>2
  <2> QED
    BY <2>4, <2>5
<1>12. CASE LoopEnds
  BY <1>12 DEF LoopEnds, InSync, xcb
<1>13. CASE UNCHANGED vars
  BY <1>13, <1>u DEF vars, server, xcb
<1> QED
  BY <1>1, <1>2, <1>3, <1>4, <1>5, <1>6, <1>7, <1>8, <1>9, <1>10, <1>11, <1>12, <1>13 DEF Next

\* When nothing is left to handle, every handler was told its property's value
\* last, or nothing, however changes, deletions and requests overlapped
\* (property.c:57-63) - if no client forges deletions.
THEOREM HandlersCatchUp ==
    ASSUME "delete" \notin Forged
    PROVE  Spec => []CaughtUp
<1>1. Typed /\ Track /\ InSync => CaughtUp
  BY DEF InSync, CaughtUp, Coming, Noticed, About, Fetching, Knows
<1>2. Init => InSync
  BY InSyncInit
<1>3. (Typed /\ Track) /\ (Typed /\ Track)' /\ InSync /\ [Next]_vars => InSync'
  BY InSyncStep
<1> QED
  BY <1>1, <1>2, <1>3, Tracked, PTL DEF Spec
=============================================================================
