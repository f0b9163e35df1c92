-------------------------- MODULE EventTableProofs --------------------------
(***************************************************************************)
(* Proofs about EventTable, for any number of events, handlers and loops   *)
(* inside each other.                                                      *)
(***************************************************************************)
EXTENDS EventTable, SequenceTheorems, TLAPS

Queueable == [id : 1 .. MaxEvents, response_type : ResponseType, error_code : 0 .. 255]

\* The events that the handlers of a stack of loops look at, and those of a queue.
Events(s) == {s[i].event : i \in DOMAIN s} \ {0}
Ids(q)    == {q[i].id : i \in DOMAIN q}

EachOnce(s) == \A i, j \in DOMAIN s : s[i].event = s[j].event /\ s[i].event # 0 => i = j
NoneTwice(q) == \A i, j \in DOMAIN q : q[i].id = q[j].id => i = j

\* Every allocated event is in one place, and numbers are used once.
Owned ==
    /\ heap = Events(stack) \cup Ids(queue) /\ heap \subseteq 1 .. arrived
    /\ Events(stack) \cap Ids(queue) = {}
    /\ EachOnce(stack) /\ NoneTwice(queue)

Safe == TypeOK /\ Owned

-----------------------------------------------------------------------------
(* Queues.                                                                  *)

LEMMA QueueAppend ==
    ASSUME NEW q \in Seq(Queueable), NEW e \in Queueable
    PROVE  LET t == Append(q, e) IN
           /\ t \in Seq(Queueable)
           /\ Ids(t) = Ids(q) \cup {e.id}
           /\ NoneTwice(q) /\ e.id \notin Ids(q) => NoneTwice(t)
<1> DEFINE t == Append(q, e)
           n == Len(q)
<1>1. /\ t \in Seq(Queueable) /\ n \in Nat /\ Len(t) = n + 1
      /\ \A i \in 1 .. n : t[i] = q[i]
      /\ t[n + 1] = e
  BY AppendProperties, LenProperties
<1>2. DOMAIN t = 1 .. n + 1 /\ DOMAIN q = 1 .. n
  BY <1>1, LenProperties
<1> HIDE DEF t, n
<1>3. \A i \in DOMAIN t : (i \in DOMAIN q /\ t[i] = q[i]) \/ (i = n + 1 /\ t[i] = e)
  BY <1>1, <1>2
<1>4. \A i \in DOMAIN q : i \in DOMAIN t /\ t[i] = q[i]
  BY <1>1, <1>2
<1>5. n + 1 \in DOMAIN t /\ t[n + 1] = e
  BY <1>1, <1>2
<1>6. Ids(t) = Ids(q) \cup {e.id}
  BY <1>3, <1>4, <1>5 DEF Ids
<1>7. ASSUME NoneTwice(q), e.id \notin Ids(q) PROVE NoneTwice(t)
  <2>1. \A i \in DOMAIN q : q[i].id # e.id
    BY <1>7 DEF Ids
  <2> QED
    BY <1>3, <1>7, <2>1 DEF NoneTwice
<1> QED
  BY <1>1, <1>6, <1>7 DEF t

LEMMA QueueTail ==
    ASSUME NEW q \in Seq(Queueable), q # <<>>, NoneTwice(q)
    PROVE  /\ Head(q) \in Queueable /\ Head(q).id \in Ids(q)
           /\ Tail(q) \in Seq(Queueable)
           /\ Ids(Tail(q)) = Ids(q) \ {Head(q).id}
           /\ NoneTwice(Tail(q))
<1> DEFINE t == Tail(q)
           n == Len(q)
<1>1. /\ Head(q) \in Queueable /\ t \in Seq(Queueable) /\ Len(t) = n - 1
      /\ \A i \in 1 .. Len(t) : t[i] = q[i + 1]
  BY HeadTailProperties
<1>2. Head(q) = q[1] /\ n \in Nat /\ DOMAIN q = 1 .. n /\ DOMAIN t = 1 .. Len(t)
  BY <1>1, LenProperties
<1>3. n >= 1
  BY <1>2
<1> HIDE DEF t, n
<1>4. \A i \in DOMAIN t : i + 1 \in DOMAIN q /\ t[i] = q[i + 1] /\ i + 1 # 1
  BY <1>1, <1>2, <1>3
<1>5. \A i \in DOMAIN q : i # 1 => i - 1 \in DOMAIN t /\ t[i - 1] = q[i]
  BY <1>1, <1>2, <1>3
<1>6. 1 \in DOMAIN q
  BY <1>2, <1>3
<1>7. Ids(t) = Ids(q) \ {Head(q).id}
  <2>1. ASSUME NEW i \in DOMAIN t PROVE t[i].id \in Ids(q) \ {Head(q).id}
    BY <1>2, <1>4, <1>6 DEF Ids, NoneTwice
  <2>2. ASSUME NEW i \in DOMAIN q, q[i].id # Head(q).id PROVE q[i].id \in Ids(t)
    <3>1. i - 1 \in DOMAIN t /\ t[i - 1] = q[i]
      BY <2>2, <1>2, <1>5
    <3> QED
      BY <3>1 DEF Ids
  <2> QED
    BY <2>1, <2>2 DEF Ids
<1>8. NoneTwice(t)
  <2>1. \A i, j \in DOMAIN t : i + 1 = j + 1 => i = j
    BY <1>1, <1>2, <1>3
  <2> QED
    BY <2>1, <1>4 DEF NoneTwice
<1>9. Head(q).id \in Ids(q)
  BY <1>2, <1>6 DEF Ids
<1> QED
  BY <1>1, <1>7, <1>8, <1>9 DEF t

-----------------------------------------------------------------------------
(* Stacks of loops.                                                         *)

LEMMA StackFront ==
    ASSUME NEW s \in Seq(Frame), s # <<>>
    PROVE  /\ Last(s) \in Frame /\ Last(s) = s[Len(s)] /\ Len(s) \in Nat /\ Len(s) >= 1
           /\ DOMAIN s = 1 .. Len(s)
           /\ Front(s) \in Seq(Frame) /\ Len(Front(s)) = Len(s) - 1
           /\ DOMAIN Front(s) = 1 .. Len(s) - 1
           /\ \A i \in 1 .. Len(s) - 1 : Front(s)[i] = s[i]
<1>1. Len(s) \in Nat /\ DOMAIN s = 1 .. Len(s)
  BY LenProperties
<1>2. Len(s) >= 1
  BY <1>1
<1>3. /\ SubSeq(s, 1, Len(s) - 1) \in Seq(Frame)
      /\ Len(SubSeq(s, 1, Len(s) - 1)) = Len(s) - 1
      /\ \A i \in 1 .. Len(s) - 1 : SubSeq(s, 1, Len(s) - 1)[i] = s[i]
  BY <1>1, <1>2, SubSeqProperties
<1>4. DOMAIN SubSeq(s, 1, Len(s) - 1) = 1 .. Len(s) - 1
  BY <1>3, LenProperties
<1>5. s[Len(s)] \in Frame
  BY <1>1, <1>2
<1> QED
  BY <1>1, <1>2, <1>3, <1>4, <1>5 DEF Front, Last

LEMMA StackPush ==
    ASSUME NEW s \in Seq(Frame), NEW f \in Frame, EachOnce(s), f.event = 0 \/ f.event \notin Events(s)
    PROVE  LET t == Append(s, f) IN
           /\ t \in Seq(Frame) /\ Len(t) = Len(s) + 1
           /\ Events(t) = Events(s) \cup ({f.event} \ {0})
           /\ EachOnce(t)
<1> DEFINE t == Append(s, f)
           n == Len(s)
<1>1. /\ t \in Seq(Frame) /\ n \in Nat /\ Len(t) = n + 1
      /\ \A i \in 1 .. n : t[i] = s[i]
      /\ t[n + 1] = f
  BY AppendProperties, LenProperties
<1>2. DOMAIN t = 1 .. n + 1 /\ DOMAIN s = 1 .. n
  BY <1>1, LenProperties
<1> HIDE DEF t, n
<1>3. \A i \in DOMAIN t : (i \in DOMAIN s /\ t[i] = s[i]) \/ (i = n + 1 /\ t[i] = f)
  BY <1>1, <1>2
<1>4. \A i \in DOMAIN s : i \in DOMAIN t /\ t[i] = s[i]
  BY <1>1, <1>2
<1>5. n + 1 \in DOMAIN t /\ t[n + 1] = f
  BY <1>1, <1>2
<1>6. Events(t) = Events(s) \cup ({f.event} \ {0})
  BY <1>3, <1>4, <1>5 DEF Events
<1>7. EachOnce(t)
  <2>1. \A i \in DOMAIN s : s[i].event = f.event => f.event = 0
    BY DEF Events
  <2> QED
    BY <1>3, <2>1 DEF EachOnce
<1> QED
  BY <1>1, <1>6, <1>7 DEF t, n

LEMMA StackPop ==
    ASSUME NEW s \in Seq(Frame), s # <<>>, EachOnce(s)
    PROVE  /\ Events(Front(s)) = Events(s) \ {Last(s).event}
           /\ EachOnce(Front(s))
<1> DEFINE t == Front(s)
           n == Len(s)
<1>1. /\ Last(s) = s[n] /\ n \in Nat /\ n >= 1 /\ DOMAIN s = 1 .. n /\ DOMAIN t = 1 .. n - 1
      /\ \A i \in 1 .. n - 1 : t[i] = s[i]
  BY StackFront
<1> HIDE DEF t, n
<1>2. \A i \in DOMAIN t : i \in DOMAIN s /\ i # n /\ t[i] = s[i]
  BY <1>1
<1>3. \A i \in DOMAIN s : i = n \/ (i \in DOMAIN t /\ t[i] = s[i])
  BY <1>1
<1>4. n \in DOMAIN s
  BY <1>1
<1>5. EachOnce(t)
  BY <1>2 DEF EachOnce
<1>6. Events(t) = Events(s) \ {Last(s).event}
  <2>1. ASSUME NEW i \in DOMAIN t, t[i].event # 0
        PROVE  t[i].event \in Events(s) /\ t[i].event # Last(s).event
    BY <2>1, <1>1, <1>2, <1>4 DEF Events, EachOnce
  <2>2. ASSUME NEW i \in DOMAIN s, s[i].event # 0, s[i].event # Last(s).event
        PROVE  s[i].event \in Events(t)
    BY <2>2, <1>1, <1>3 DEF Events
  <2> QED
    BY <2>1, <2>2 DEF Events
<1> QED
  BY <1>5, <1>6 DEF t

\* The innermost loop goes on with another frame.
LEMMA StackReplace ==
    ASSUME NEW s \in Seq(Frame), s # <<>>, NEW f \in Frame, EachOnce(s),
           f.event = 0 \/ f.event = Last(s).event \/ f.event \notin Events(s)
    PROVE  LET t == Append(Front(s), f) IN
           /\ t \in Seq(Frame) /\ Len(t) = Len(s)
           /\ Events(t) = (Events(s) \ {Last(s).event}) \cup ({f.event} \ {0})
           /\ EachOnce(t)
<1>1. /\ Front(s) \in Seq(Frame) /\ Len(Front(s)) = Len(s) - 1 /\ Len(s) \in Nat
  BY StackFront
<1>2. /\ Events(Front(s)) = Events(s) \ {Last(s).event}
      /\ EachOnce(Front(s))
  BY StackPop
<1>3. f.event = 0 \/ f.event \notin Events(Front(s))
  BY <1>2
<1> QED
  BY <1>1, <1>2, <1>3, StackPush

-----------------------------------------------------------------------------
(* The invariant.                                                           *)

LEMMA SlotRange == Slots \subseteq 0 .. 125
<1>1. ASSUME NEW t \in ResponseType, t # 0 PROVE EventSlot(t) \in 0 .. 125
  <2>1. t \in 2 .. 127 \/ t \in 130 .. 255
    BY <1>1, ResponseAssumption
  <2>2. CASE t \in 2 .. 127
    BY <2>2 DEF EventSlot
  <2>3. CASE t \in 130 .. 255
    BY <2>3 DEF EventSlot
  <2> QED
    BY <2>1, <2>2, <2>3
<1> QED
  BY <1>1 DEF Slots

LEMMA SafeInit == Init => Safe
<1> SUFFICES ASSUME Init PROVE Safe
  OBVIOUS
<1>1. TypeOK
  <2>1. /\ event \in [Slots -> Place \cup {None, Garbage}]
        /\ error \in [ErrorCode -> Place \cup {None, Garbage}]
    BY DEF Init
  <2>2. stack \in Seq(Frame) /\ Len(stack) = 0
    BY DEF Init
  <2>3. queue \in Seq([id : 1 .. MaxEvents, response_type : ResponseType, error_code : 0 .. 255])
    BY DEF Init
  <2>4. arrived \in 0 .. MaxEvents /\ Len(stack) <= MaxDepth /\ heap \subseteq 1 .. MaxEvents
    BY <2>2, BoundAssumption DEF Init
  <2>5. connected \in BOOLEAN /\ crashed \in BOOLEAN
    BY DEF Init
  <2> QED
    BY <2>1, <2>2, <2>3, <2>4, <2>5, SlotRange, ResponseAssumption DEF TypeOK
<1>2. Owned
  BY DEF Init, Owned, Events, Ids, EachOnce, NoneTwice
<1> QED
  BY <1>1, <1>2 DEF Safe

LEMMA SafeStep == Safe /\ [Next]_vars => Safe'
<1> SUFFICES ASSUME Safe, [Next]_vars PROVE Safe'
  OBVIOUS
<1>a. TypeOK /\ Owned
  BY DEF Safe
<1>b. queue \in Seq(Queueable) /\ stack \in Seq(Frame) /\ arrived \in Nat
  BY <1>a, BoundAssumption DEF TypeOK, Queueable
<1>c. \A e \in Queueable : e.id \in 1 .. MaxEvents
  BY DEF Queueable
\* Steps that leave the events and the loops alone.
<1>u. ASSUME UNCHANGED <<arrived, queue, stack, heap>>,
             event' \in [Slots -> Place \cup {None, Garbage}],
             error' \in [ErrorCode -> Place \cup {None, Garbage}],
             connected' \in BOOLEAN, crashed' \in BOOLEAN
      PROVE  Safe'
  BY <1>u, <1>a DEF Safe, TypeOK, Owned
\* The loop takes an event off the queue.
<1>h. ASSUME queue # <<>>
      PROVE  /\ Head(queue).id \in Ids(queue) /\ Head(queue).id \in 1 .. MaxEvents
             /\ Tail(queue) \in Seq(Queueable)
             /\ Ids(Tail(queue)) = Ids(queue) \ {Head(queue).id}
             /\ NoneTwice(Tail(queue))
  BY <1>h, <1>a, <1>b, <1>c, QueueTail DEF Owned
<1>1. ASSUME NEW t \in ResponseType, NEW c \in (IF t = 0 THEN ErrorCode ELSE {0}), Arrive(t, c)
      PROVE  Safe'
  <2> DEFINE e == [id |-> arrived + 1, response_type |-> t, error_code |-> c]
  <2>1. /\ arrived' = arrived + 1 /\ arrived' \in 1 .. MaxEvents
        /\ UNCHANGED <<event, error, connected, stack, crashed>>
        /\ heap' = heap \cup {arrived + 1} /\ queue' = Append(queue, e)
    BY <1>1, <1>b, BoundAssumption DEF Arrive, tables
  <2>2. c \in 0 .. 255
    BY ResponseAssumption
  <2>3. e \in Queueable /\ e.id = arrived + 1
    BY <2>1, <2>2 DEF Queueable
  <2> HIDE DEF e
  <2>4. arrived + 1 \notin heap
    BY <1>a, <1>b DEF Owned
  <2>5. e.id \notin Ids(queue) /\ e.id \notin Events(stack)
    BY <2>3, <2>4, <1>a DEF Owned
  <2>6. /\ queue' \in Seq(Queueable) /\ NoneTwice(queue')
        /\ Ids(queue') = Ids(queue) \cup {arrived + 1}
    BY <2>1, <2>3, <2>5, <1>a, <1>b, QueueAppend DEF Owned
  <2>7. heap' \subseteq 1 .. arrived' /\ heap' \subseteq 1 .. MaxEvents
    BY <2>1, <1>a, <1>b DEF Owned, TypeOK
  <2>8. TypeOK'
    BY <2>1, <2>6, <2>7, <1>a, BoundAssumption DEF TypeOK, Queueable
  <2>9. Owned'
    BY <2>1, <2>3, <2>5, <2>6, <2>7, <1>a DEF Owned
  <2> QED
    BY <2>8, <2>9 DEF Safe
<1>2. CASE Break
  BY <1>2, <1>u, <1>a DEF Break, tables, TypeOK
<1>3. ASSUME NEW t \in ResponseType \ {0}, NEW place \in Place, xcb_event_set_handler(t, place)
      PROVE  Safe'
  <2>1. event' \in [Slots -> Place \cup {None, Garbage}]
    BY <1>3, <1>a DEF xcb_event_set_handler, TypeOK
  <2> QED
    BY <1>3, <2>1, <1>u, <1>a DEF xcb_event_set_handler, TypeOK
<1>4. ASSUME NEW c \in ErrorCode, NEW place \in Place, xcb_event_set_error_handler(c, place)
      PROVE  Safe'
  <2>1. error' \in [ErrorCode -> Place \cup {None, Garbage}]
    BY <1>4, <1>a DEF xcb_event_set_error_handler, TypeOK
  <2> QED
    BY <1>4, <2>1, <1>u, <1>a DEF xcb_event_set_error_handler, TypeOK
<1>5. ASSUME NEW kind \in {"wait", "poll"}, Enter(kind) PROVE Safe'
  <2> DEFINE below == IF stack = <<>> THEN <<>> ELSE Innermost([Last(stack) EXCEPT !.nested = TRUE])
             f == [kind |-> kind, event |-> 0, nested |-> FALSE]
  <2>1. /\ stack' = Append(below, f) /\ Len(stack) < MaxDepth
        /\ UNCHANGED <<event, error, arrived, queue, connected, heap, crashed>>
    BY <1>5 DEF Enter, tables
  <2>2. /\ below \in Seq(Frame) /\ Len(below) = Len(stack)
        /\ Events(below) = Events(stack) /\ EachOnce(below)
    <3>1. CASE stack = <<>>
      <4>1. below = stack
        BY <3>1
      <4> QED
        BY <4>1, <1>a, <1>b DEF Owned
    <3>2. CASE stack # <<>>
      <4> DEFINE g == [Last(stack) EXCEPT !.nested = TRUE]
      <4>1. g \in Frame /\ g.event = Last(stack).event
        <5>1. Last(stack) \in Frame
          BY <3>2, <1>b, StackFront
        <5> QED
          BY <5>1 DEF Frame
      <4>2. Last(stack).event \in Events(stack) \/ Last(stack).event = 0
        <5>1. Len(stack) \in DOMAIN stack /\ Last(stack) = stack[Len(stack)]
          BY <3>2, <1>b, StackFront
        <5> QED
          BY <5>1 DEF Events
      <4>3. below = Append(Front(stack), g)
        BY <3>2 DEF Innermost
      <4> HIDE DEF g, below
      <4>4. /\ below \in Seq(Frame) /\ Len(below) = Len(stack) /\ EachOnce(below)
            /\ Events(below) = (Events(stack) \ {Last(stack).event}) \cup ({g.event} \ {0})
        BY <3>2, <4>1, <4>3, <1>a, <1>b, StackReplace DEF Owned
      <4>5. 0 \notin Events(stack)
        BY DEF Events
      <4> QED
        BY <4>1, <4>2, <4>4, <4>5
    <3> QED
      BY <3>1, <3>2
  <2>3. f \in Frame /\ f.event = 0
    BY BoundAssumption DEF Frame
  <2> HIDE DEF f, below
  <2>4. /\ stack' \in Seq(Frame) /\ Len(stack') = Len(stack) + 1
        /\ Events(stack') = Events(stack) /\ EachOnce(stack')
    <3>1. /\ stack' \in Seq(Frame) /\ Len(stack') = Len(below) + 1
          /\ Events(stack') = Events(below) \cup ({f.event} \ {0}) /\ EachOnce(stack')
      BY <2>1, <2>2, <2>3, StackPush
    <3>2. {f.event} \ {0} = {}
      BY <2>3
    <3> QED
      BY <3>1, <3>2, <2>2
  <2>5. Len(stack') <= MaxDepth
    BY <2>1, <2>4, <1>b, BoundAssumption
  <2> QED
    BY <2>1, <2>4, <2>5, <1>a DEF Safe, TypeOK, Owned
<1>6. CASE Discard
  <2>1. /\ queue # <<>> /\ queue' = Tail(queue) /\ heap' = heap \ {Head(queue).id}
        /\ UNCHANGED <<event, error, arrived, connected, stack, crashed>>
    BY <1>6 DEF Discard, tables
  <2>2. Owned'
    BY <2>1, <1>a, <1>h DEF Owned
  <2>3. TypeOK'
    BY <2>1, <1>a, <1>h DEF TypeOK, Queueable
  <2> QED
    BY <2>2, <2>3 DEF Safe
<1>7. CASE Call
  <2> DEFINE f == [Last(stack) EXCEPT !.event = Head(queue).id]
  <2>1. /\ queue # <<>> /\ queue' = Tail(queue) /\ stack # <<>> /\ Last(stack).event = 0
        /\ stack' = Append(Front(stack), f)
        /\ UNCHANGED <<event, error, arrived, connected, heap, crashed>>
    BY <1>7 DEF Call, InLoop, tables, Innermost
  <2>2. f \in Frame /\ f.event = Head(queue).id
    <3>1. Last(stack) \in Frame
      BY <2>1, <1>b, StackFront
    <3> QED
      BY <3>1, <2>1, <1>h DEF Frame
  <2> HIDE DEF f
  <2>3. f.event # 0 /\ f.event \notin Events(stack)
    BY <2>1, <2>2, <1>a, <1>h DEF Owned
  <2>4. /\ stack' \in Seq(Frame) /\ Len(stack') = Len(stack) /\ EachOnce(stack')
        /\ Events(stack') = (Events(stack) \ {0}) \cup ({f.event} \ {0})
    BY <2>1, <2>2, <2>3, <1>a, <1>b, StackReplace DEF Owned
  <2>5. Owned'
    <3>1. Events(stack') = Events(stack) \cup {Head(queue).id}
      BY <2>2, <2>3, <2>4 DEF Events
    <3> QED
      BY <2>1, <2>4, <3>1, <1>a, <1>h DEF Owned
  <2>6. TypeOK'
    BY <2>1, <2>4, <1>a, <1>h DEF TypeOK, Queueable
  <2> QED
    BY <2>5, <2>6 DEF Safe
<1>8. CASE Crash
  BY <1>8, <1>u, <1>a DEF Crash, tables, TypeOK
<1>9. CASE Return
  <2> DEFINE f == [Last(stack) EXCEPT !.event = 0, !.nested = FALSE]
  <2>1. /\ stack # <<>> /\ Last(stack).event # 0 /\ heap' = heap \ {Last(stack).event}
        /\ stack' = Append(Front(stack), f)
        /\ UNCHANGED <<event, error, arrived, queue, connected, crashed>>
    BY <1>9 DEF Return, tables, Innermost
  <2>2. f \in Frame /\ f.event = 0
    <3>1. Last(stack) \in Frame
      BY <2>1, <1>b, StackFront
    <3>2. 0 \in 0 .. MaxEvents
      BY BoundAssumption
    <3>3. [Last(stack) EXCEPT !.event = 0] \in Frame
      BY <3>1, <3>2 DEF Frame
    <3>4. f = [[Last(stack) EXCEPT !.event = 0] EXCEPT !.nested = FALSE]
      OBVIOUS
    <3> QED
      BY <3>3, <3>4 DEF Frame
  <2> HIDE DEF f
  <2>3. /\ stack' \in Seq(Frame) /\ Len(stack') = Len(stack) /\ EachOnce(stack')
        /\ Events(stack') = (Events(stack) \ {Last(stack).event}) \cup ({f.event} \ {0})
    BY <2>1, <2>2, <1>a, <1>b, StackReplace DEF Owned
  <2>4. Last(stack).event \in Events(stack)
    <3>1. Len(stack) \in DOMAIN stack /\ Last(stack) = stack[Len(stack)]
      BY <2>1, <1>b, StackFront
    <3> QED
      BY <2>1, <3>1 DEF Events
  <2>5. Owned'
    BY <2>1, <2>2, <2>3, <2>4, <1>a DEF Owned
  <2>6. TypeOK'
    BY <2>1, <2>3, <1>a DEF TypeOK
  <2> QED
    BY <2>5, <2>6 DEF Safe
<1>10. CASE Leave
  <2>1. /\ stack # <<>> /\ Last(stack).event = 0 /\ stack' = Front(stack)
        /\ UNCHANGED <<event, error, arrived, queue, connected, heap, crashed>>
    BY <1>10 DEF Leave, InLoop, tables
  <2>2. stack' \in Seq(Frame) /\ Len(stack') = Len(stack) - 1 /\ Len(stack) \in Nat
    BY <2>1, <1>b, StackFront
  <2>3. Events(stack') = Events(stack) /\ EachOnce(stack')
    <3>1. Events(stack') = Events(stack) \ {0} /\ EachOnce(stack')
      BY <2>1, <1>a, <1>b, StackPop DEF Owned
    <3> QED
      BY <3>1 DEF Events
  <2>4. Len(stack') <= MaxDepth
    BY <2>2, <1>a, BoundAssumption DEF TypeOK
  <2> QED
    BY <2>1, <2>2, <2>3, <2>4, <1>a DEF Safe, TypeOK, Owned
<1>11. CASE UNCHANGED vars
  BY <1>11, <1>u, <1>a DEF vars, tables, TypeOK
<1> QED
  BY <1>1, <1>2, <1>3, <1>4, <1>5, <1>6, <1>7, <1>8, <1>9, <1>10, <1>11 DEF Next, Loop

LEMMA SafeImpliesOwned == Safe => EventsAreOwned
<1> SUFFICES ASSUME Safe PROVE EventsAreOwned
  OBVIOUS
<1>1. Handled = Events(stack)
  BY DEF Handled, Events, Range
<1>2. Queued = Ids(queue)
  BY DEF Queued, Ids, Range
<1> QED
  BY <1>1, <1>2 DEF Safe, Owned, EachOnce, EventsAreOwned

\* However deep loops run inside each other, no event is freed under a handler,
\* freed twice or lost, and no table is read outside (event.c:47-98).
THEOREM EveryEventIsOwned == Spec => []EventsAreOwned
  BY SafeInit, SafeStep, SafeImpliesOwned, PTL DEF Spec

-----------------------------------------------------------------------------
(* The loops implement EventDispatch.                                       *)

Pending(q) == [i \in DOMAIN q |-> KindOf(q[i])]
Given(e, place) == [kind |-> KindOf(e), place |-> place]
Shown(g)   == [i \in DOMAIN g |-> Given(g[i].event, g[i].place)]
InTables(ev, er) == [k \in Kinds |-> Wanted(IF k[1] = "error" THEN er[k[2]] ELSE ev[k[2] - 2])]

\* What the server sends, and what handlers are given.
Sent    == {e \in [id : Nat, response_type : ResponseType, error_code : 0 .. 255] :
               e.response_type = 0 => e.error_code \in ErrorCode}
Handed  == [event : Sent, place : Place]
Message == [kind : Kinds, place : Place]

Known == queue \in Seq(Sent) /\ given \in Seq(Handed) /\ arrived \in Nat

LEMMA SentKind == \A e \in Sent : KindOf(e) \in Kinds
<1> SUFFICES ASSUME NEW e \in Sent PROVE KindOf(e) \in Kinds
  OBVIOUS
<1>1. e.response_type \in ResponseType /\ (e.response_type = 0 => e.error_code \in ErrorCode)
  BY DEF Sent
<1>2. CASE e.response_type = 0
  BY <1>1, <1>2 DEF KindOf, Kinds
<1>3. CASE e.response_type # 0
  BY <1>1, <1>3 DEF KindOf, Kinds
<1> QED
  BY <1>2, <1>3

\* A function that goes on where a sequence ends.
LEMMA LikeAppend ==
    ASSUME NEW T, NEW s \in Seq(T), NEW x \in T, NEW t \in [1 .. Len(s) + 1 -> T],
           \A i \in 1 .. Len(s) : t[i] = s[i], t[Len(s) + 1] = x
    PROVE  t = Append(s, x)
<1>1. Len(s) \in Nat /\ Len(s) + 1 \in Nat
  BY LenProperties
<1>2. t \in Seq(T) /\ Len(t) = Len(s) + 1
  BY <1>1
<1>3. /\ Append(s, x) \in Seq(T) /\ Len(Append(s, x)) = Len(s) + 1
      /\ \A i \in 1 .. Len(s) : Append(s, x)[i] = s[i]
      /\ Append(s, x)[Len(s) + 1] = x
  BY AppendProperties
<1>4. \A i \in 1 .. Len(s) + 1 : i \in 1 .. Len(s) \/ i = Len(s) + 1
  BY <1>1
<1> QED
  BY <1>2, <1>3, <1>4, SeqEqual

LEMMA PendingSeq ==
    ASSUME NEW q \in Seq(Sent)
    PROVE  /\ Pending(q) \in Seq(Kinds) /\ Len(Pending(q)) = Len(q) /\ Len(q) \in Nat
           /\ DOMAIN q = 1 .. Len(q)
           /\ \A i \in 1 .. Len(q) : Pending(q)[i] = KindOf(q[i]) /\ KindOf(q[i]) \in Kinds
<1>1. Len(q) \in Nat /\ DOMAIN q = 1 .. Len(q) /\ \A i \in 1 .. Len(q) : q[i] \in Sent
  BY LenProperties, ElementOfSeq
<1>2. Pending(q) \in [1 .. Len(q) -> Kinds]
  BY <1>1, SentKind DEF Pending
<1>3. Pending(q) \in Seq(Kinds) /\ Len(Pending(q)) = Len(q)
  BY <1>1, <1>2
<1>4. \A i \in 1 .. Len(q) : Pending(q)[i] = KindOf(q[i]) /\ KindOf(q[i]) \in Kinds
  BY <1>1, SentKind DEF Pending
<1> QED
  BY <1>1, <1>3, <1>4

LEMMA PendingAppend ==
    ASSUME NEW q \in Seq(Sent), NEW e \in Sent
    PROVE  Pending(Append(q, e)) = Append(Pending(q), KindOf(e))
<1> DEFINE a == Append(q, e)
<1>1. /\ a \in Seq(Sent) /\ Len(a) = Len(q) + 1 /\ a[Len(q) + 1] = e
      /\ \A i \in 1 .. Len(q) : a[i] = q[i]
  BY AppendProperties
<1> HIDE DEF a
<1>2. /\ Pending(q) \in Seq(Kinds) /\ Len(Pending(q)) = Len(q) /\ Len(q) \in Nat
      /\ \A i \in 1 .. Len(q) : Pending(q)[i] = KindOf(q[i])
  BY PendingSeq
<1>3. /\ Pending(a) \in Seq(Kinds) /\ Len(Pending(a)) = Len(q) + 1
      /\ \A i \in 1 .. Len(q) + 1 : Pending(a)[i] = KindOf(a[i])
  BY <1>1, PendingSeq
<1>4. Pending(a) \in [1 .. Len(q) + 1 -> Kinds]
  BY <1>3, LenProperties
<1>5. /\ \A i \in 1 .. Len(q) : i \in 1 .. Len(q) + 1
      /\ Len(q) + 1 \in 1 .. Len(q) + 1
  BY <1>2
<1>6. /\ \A i \in 1 .. Len(q) : Pending(a)[i] = Pending(q)[i]
      /\ Pending(a)[Len(q) + 1] = KindOf(e)
  BY <1>1, <1>2, <1>3, <1>5
<1>7. Pending(a) = Append(Pending(q), KindOf(e))
  BY <1>2, <1>4, <1>6, SentKind, LikeAppend
<1> QED
  BY <1>7 DEF a

LEMMA PendingTail ==
    ASSUME NEW q \in Seq(Sent), q # <<>>
    PROVE  /\ Pending(q) # <<>> /\ Head(q) \in Sent /\ Head(Pending(q)) = KindOf(Head(q))
           /\ Tail(q) \in Seq(Sent) /\ Pending(Tail(q)) = Tail(Pending(q))
<1> DEFINE a == Tail(q)
           p == Pending(q)
<1>1. /\ Head(q) \in Sent /\ a \in Seq(Sent) /\ Len(a) = Len(q) - 1
      /\ \A i \in 1 .. Len(a) : a[i] = q[i + 1]
  BY HeadTailProperties
<1>2. Head(q) = q[1] /\ Len(q) \in Nat /\ Len(q) >= 1
  BY EmptySeq
<1>3. /\ p \in Seq(Kinds) /\ Len(p) = Len(q)
      /\ \A i \in 1 .. Len(q) : p[i] = KindOf(q[i])
  BY PendingSeq
<1>4. p # <<>> /\ Head(p) = KindOf(Head(q))
  BY <1>2, <1>3
<1>5. /\ Tail(p) \in Seq(Kinds) /\ Len(Tail(p)) = Len(q) - 1
      /\ \A i \in 1 .. Len(q) - 1 : Tail(p)[i] = p[i + 1]
  BY <1>3, <1>4, HeadTailProperties
<1>6. /\ Pending(a) \in Seq(Kinds) /\ Len(Pending(a)) = Len(q) - 1
      /\ \A i \in 1 .. Len(q) - 1 : Pending(a)[i] = KindOf(a[i])
  BY <1>1, PendingSeq
<1>7. \A i \in 1 .. Len(q) - 1 : i + 1 \in 1 .. Len(q)
  BY <1>2
<1> HIDE DEF a, p
<1>8. \A i \in 1 .. Len(q) - 1 : Pending(a)[i] = Tail(p)[i]
  BY <1>1, <1>3, <1>5, <1>6, <1>7
<1>9. Pending(a) = Tail(p)
  BY <1>5, <1>6, <1>8, SeqEqual
<1> QED
  BY <1>1, <1>4, <1>9 DEF a, p

LEMMA ShownSeq ==
    ASSUME NEW g \in Seq(Handed)
    PROVE  /\ Shown(g) \in Seq(Message) /\ Len(Shown(g)) = Len(g) /\ Len(g) \in Nat
           /\ \A i \in 1 .. Len(g) : Shown(g)[i] = Given(g[i].event, g[i].place)
<1>1. Len(g) \in Nat /\ DOMAIN g = 1 .. Len(g) /\ \A i \in 1 .. Len(g) : g[i] \in Handed
  BY LenProperties, ElementOfSeq
<1>2. \A h \in Handed : Given(h.event, h.place) \in Message
  BY SentKind DEF Handed, Given, Message
<1>3. Shown(g) \in [1 .. Len(g) -> Message]
  BY <1>1, <1>2 DEF Shown
<1>4. Shown(g) \in Seq(Message) /\ Len(Shown(g)) = Len(g)
  BY <1>1, <1>3
<1> QED
  BY <1>1, <1>4 DEF Shown

LEMMA ShownAppend ==
    ASSUME NEW g \in Seq(Handed), NEW e \in Sent, NEW place \in Place
    PROVE  /\ Append(g, [event |-> e, place |-> place]) \in Seq(Handed)
           /\ Shown(Append(g, [event |-> e, place |-> place])) = Append(Shown(g), Given(e, place))
<1> DEFINE h == [event |-> e, place |-> place]
           a == Append(g, h)
<1>0. h \in Handed /\ h.event = e /\ h.place = place
  BY DEF Handed
<1> HIDE DEF h
<1>1. /\ a \in Seq(Handed) /\ Len(a) = Len(g) + 1 /\ a[Len(g) + 1] = h
      /\ \A i \in 1 .. Len(g) : a[i] = g[i]
  BY <1>0, AppendProperties
<1> HIDE DEF a
<1>2. /\ Shown(g) \in Seq(Message) /\ Len(Shown(g)) = Len(g) /\ Len(g) \in Nat
      /\ \A i \in 1 .. Len(g) : Shown(g)[i] = Given(g[i].event, g[i].place)
  BY ShownSeq
<1>3. /\ Shown(a) \in Seq(Message) /\ Len(Shown(a)) = Len(g) + 1
      /\ \A i \in 1 .. Len(g) + 1 : Shown(a)[i] = Given(a[i].event, a[i].place)
  BY <1>1, ShownSeq
<1>4. Shown(a) \in [1 .. Len(g) + 1 -> Message]
  BY <1>3, LenProperties
<1>5. /\ \A i \in 1 .. Len(g) : i \in 1 .. Len(g) + 1
      /\ Len(g) + 1 \in 1 .. Len(g) + 1
  BY <1>2
<1>6. /\ \A i \in 1 .. Len(g) : Shown(a)[i] = Shown(g)[i]
      /\ Shown(a)[Len(g) + 1] = Given(e, place)
  BY <1>0, <1>1, <1>2, <1>3, <1>5
<1>7. Given(e, place) \in Message
  BY SentKind DEF Given, Message
<1>8. Shown(a) = Append(Shown(g), Given(e, place))
  BY <1>2, <1>4, <1>6, <1>7, LikeAppend
<1> QED
  BY <1>1, <1>8 DEF a, h

LEMMA KnownInit == Init => Known
<1>1. Init => queue = <<>> /\ given = <<>> /\ arrived = 0
  BY DEF Init
<1> QED
  BY <1>1, EmptySeq DEF Known

LEMMA KnownStep == Known /\ [Next]_vars => Known'
<1> SUFFICES ASSUME Known, [Next]_vars PROVE Known'
  OBVIOUS
<1>1. ASSUME NEW t \in ResponseType, NEW c \in (IF t = 0 THEN ErrorCode ELSE {0}), Arrive(t, c)
      PROVE  Known'
  <2> DEFINE e == [id |-> arrived + 1, response_type |-> t, error_code |-> c]
  <2>1. e \in Sent
    BY ResponseAssumption DEF Known, Sent
  <2>2. queue' = Append(queue, e) /\ given' = given /\ arrived' = arrived + 1
    BY <1>1 DEF Arrive
  <2> QED
    BY <2>1, <2>2, AppendProperties DEF Known
<1>2. ASSUME Discard \/ Call PROVE Known'
  <2>1. queue' \in Seq(Sent) /\ queue # <<>> /\ Head(queue) \in Sent /\ arrived' = arrived
    BY <1>2, PendingTail DEF Discard, Call, Known
  <2>2. given' \in Seq(Handed)
    BY <1>2, <2>1, ShownAppend DEF Discard, Call, Known
  <2> QED
    BY <2>1, <2>2 DEF Known
<1>3. ASSUME UNCHANGED <<queue, given, arrived>> PROVE Known'
  BY <1>3 DEF Known
<1> QED
  BY <1>1, <1>2, <1>3 DEF Next, Loop, Break, xcb_event_set_handler, xcb_event_set_error_handler,
     Enter, Crash, Return, Leave, vars

LEMMA InitRefines == Init => Dispatch!Init
<1> SUFFICES ASSUME Init PROVE Dispatch!Init
  OBVIOUS
<1>1. queue = <<>> /\ given = <<>>
  BY DEF Init
<1>2. Pending(queue) = <<>> /\ Shown(given) = <<>>
  BY <1>1 DEF Pending, Shown
<1>3. PICK entry \in {None, Garbage} :
         event = [i \in Slots |-> entry] /\ error = [c \in ErrorCode |-> entry]
  BY DEF Init
<1>4. ASSUME NEW k \in Kinds
      PROVE  Wanted(IF k[1] = "error" THEN error[k[2]] ELSE event[k[2] - 2]) = None
  <2>1. CASE k[1] = "error"
    <3>1. k[2] \in ErrorCode
      BY <2>1 DEF Kinds
    <3> QED
      BY <1>3, <2>1, <3>1 DEF Wanted
  <2>2. CASE k[1] # "error"
    <3>1. k[2] - 2 \in Slots
      BY <2>2 DEF Kinds, Slots, EventSlot
    <3> QED
      BY <1>3, <2>2, <3>1 DEF Wanted
  <2> QED
    BY <2>1, <2>2
<1> QED
  BY <1>2, <1>4 DEF Dispatch!Init, Pending, Shown, Given

\* What the tables of the two modules have to do with each other.
LEMMA SlotKind ==
    ASSUME NEW t \in ResponseType, t # 0
    PROVE  <<"event", t % 128>> \in Kinds /\ EventSlot(t) = (t % 128) - 2 /\ EventSlot(t) \in Slots
           /\ t % 128 \in Int
  BY ResponseAssumption DEF Kinds, EventSlot, Slots

LEMMA SetEvent ==
    ASSUME TypeOK, NEW t \in ResponseType, t # 0, NEW place \in Place
    PROVE  InTables([event EXCEPT ![EventSlot(t)] = place], error)
           = [InTables(event, error) EXCEPT ![<<"event", t % 128>>] = place]
<1> DEFINE ev == [event EXCEPT ![EventSlot(t)] = place]
           W(k, e) == Wanted(IF k[1] = "error" THEN error[k[2]] ELSE e[k[2] - 2])
           k0 == <<"event", t % 128>>
<1>1. k0 \in Kinds /\ EventSlot(t) = (t % 128) - 2 /\ EventSlot(t) \in Slots /\ t % 128 \in Int
  BY SlotKind
<1>2. W(k0, ev) = place
  <2>1. k0[1] # "error" /\ k0[2] - 2 = EventSlot(t)
    BY <1>1
  <2>2. ev[EventSlot(t)] = place
    BY <1>1 DEF TypeOK
  <2> QED
    BY <2>1, <2>2, PlaceAssumption DEF Wanted
<1>3. ASSUME NEW k \in Kinds, k # k0 PROVE W(k, ev) = W(k, event)
  <2>1. CASE k[1] = "error"
    BY <2>1
  <2>2. CASE k[1] # "error"
    <3>1. PICK u \in ResponseType \ {0} : k = <<"event", u % 128>>
      BY <2>2 DEF Kinds
    <3>2. u % 128 # t % 128 /\ u % 128 \in Int /\ (u % 128) - 2 \in Slots
      BY <1>3, <3>1, SlotKind
    <3>3. k[2] - 2 # EventSlot(t) /\ k[2] - 2 \in Slots
      BY <1>1, <3>1, <3>2
    <3>4. ev[k[2] - 2] = event[k[2] - 2]
      BY <3>3 DEF TypeOK
    <3> QED
      BY <3>4
  <2> QED
    BY <2>1, <2>2
<1>4. /\ InTables(ev, error) = [k \in Kinds |-> W(k, ev)]
      /\ InTables(event, error) = [k \in Kinds |-> W(k, event)]
  BY DEF InTables
<1> HIDE DEF W, k0, ev
<1>5. [k \in Kinds |-> W(k, ev)] = [[k \in Kinds |-> W(k, event)] EXCEPT ![k0] = place]
  BY <1>1, <1>2, <1>3
<1> QED
  BY <1>4, <1>5 DEF ev, k0

LEMMA SetError ==
    ASSUME TypeOK, NEW c \in ErrorCode, NEW place \in Place
    PROVE  <<"error", c>> \in Kinds
           /\ InTables(event, [error EXCEPT ![c] = place])
              = [InTables(event, error) EXCEPT ![<<"error", c>>] = place]
<1> DEFINE er == [error EXCEPT ![c] = place]
           W(k, e) == Wanted(IF k[1] = "error" THEN e[k[2]] ELSE event[k[2] - 2])
           k0 == <<"error", c>>
<1>1. k0 \in Kinds
  BY DEF Kinds
<1>2. W(k0, er) = place
  <2>1. er[c] = place
    BY DEF TypeOK
  <2> QED
    BY <2>1, PlaceAssumption DEF Wanted
<1>3. ASSUME NEW k \in Kinds, k # k0 PROVE W(k, er) = W(k, error)
  <2>1. CASE k[1] = "error"
    <3>1. k[2] # c /\ k[2] \in ErrorCode
      BY <1>3, <2>1 DEF Kinds
    <3>2. er[k[2]] = error[k[2]]
      BY <3>1 DEF TypeOK
    <3> QED
      BY <3>2
  <2>2. CASE k[1] # "error"
    BY <2>2
  <2> QED
    BY <2>1, <2>2
<1>4. /\ InTables(event, er) = [k \in Kinds |-> W(k, er)]
      /\ InTables(event, error) = [k \in Kinds |-> W(k, error)]
  BY DEF InTables
<1> HIDE DEF W, k0, er
<1>5. [k \in Kinds |-> W(k, er)] = [[k \in Kinds |-> W(k, error)] EXCEPT ![k0] = place]
  BY <1>1, <1>2, <1>3
<1> QED
  BY <1>1, <1>4, <1>5 DEF er, k0

LEMMA EntryIsWanted ==
    ASSUME NEW e \in Sent
    PROVE  InTables(event, error)[KindOf(e)] = Wanted(Entry(e))
<1>1. KindOf(e) \in Kinds
  BY SentKind
<1>2. CASE e.response_type = 0
  BY <1>1, <1>2 DEF InTables, Entry, KindOf
<1>3. CASE e.response_type # 0
  <2>1. KindOf(e)[1] # "error" /\ KindOf(e)[2] - 2 = EventSlot(e.response_type)
    BY <1>3 DEF KindOf, EventSlot
  <2> QED
    BY <1>1, <1>3, <2>1 DEF InTables, Entry
<1> QED
  BY <1>2, <1>3

LEMMA StepRefines == Safe /\ Known /\ [Next]_vars => [Dispatch!Next]_(Dispatch!vars)
<1> SUFFICES ASSUME Safe, Known, [Next]_vars PROVE [Dispatch!Next]_(Dispatch!vars)
  OBVIOUS
<1> DEFINE W == InTables(event, error)
           P == Pending(queue)
           G == Shown(given)
<1>a. /\ TypeOK /\ queue \in Seq(Sent) /\ given \in Seq(Handed) /\ arrived \in Nat
  BY DEF Safe, Known
\* The abstract actions and a stutter, in the terms above.
<1>b. ASSUME W' = W, G' = G, NEW k \in Kinds, P' = Append(P, k) PROVE Dispatch!Next
  BY <1>b DEF Dispatch!Next, Dispatch!Arrive, InTables, Pending, Shown, Given
<1>c. ASSUME P' = P, G' = G, NEW k \in Kinds, NEW place \in Place, W' = [W EXCEPT ![k] = place]
      PROVE  Dispatch!Next
  BY <1>c DEF Dispatch!Next, Dispatch!Want, InTables, Pending, Shown, Given
<1>d. ASSUME W' = W, P # <<>>, P' = Tail(P),
             G' = IF W[Head(P)] = None THEN G
                  ELSE Append(G, [kind |-> Head(P), place |-> W[Head(P)]])
      PROVE  Dispatch!Next
  BY <1>d DEF Dispatch!Next, Dispatch!Give, InTables, Pending, Shown, Given
<1>u. ASSUME UNCHANGED <<event, error, queue, given>> PROVE UNCHANGED Dispatch!vars
  BY <1>u DEF Dispatch!vars
<1>1. ASSUME NEW t \in ResponseType, NEW c \in (IF t = 0 THEN ErrorCode ELSE {0}), Arrive(t, c)
      PROVE  Dispatch!Next
  <2> DEFINE e == [id |-> arrived + 1, response_type |-> t, error_code |-> c]
  <2>1. e \in Sent
    BY <1>a, ResponseAssumption DEF Sent
  <2>2. queue' = Append(queue, e) /\ UNCHANGED <<event, error, given>>
    BY <1>1 DEF Arrive, tables
  <2> HIDE DEF e
  <2>3. P' = Append(P, KindOf(e)) /\ KindOf(e) \in Kinds
    <3>1. Pending(Append(queue, e)) = Append(Pending(queue), KindOf(e))
      BY <2>1, <1>a, PendingAppend
    <3>2. Pending(queue)' = Pending(queue')
      BY DEF Pending, KindOf
    <3> QED
      BY <2>1, <2>2, <3>1, <3>2, SentKind
  <2>4. W' = W /\ G' = G
    BY <2>2 DEF InTables, Shown
  <2> QED
    BY <2>3, <2>4, <1>b
<1>2. ASSUME NEW t \in ResponseType \ {0}, NEW place \in Place, xcb_event_set_handler(t, place)
      PROVE  Dispatch!Next
  <2>1. event' = [event EXCEPT ![EventSlot(t)] = place] /\ UNCHANGED <<error, queue, given>>
    BY <1>2 DEF xcb_event_set_handler
  <2>2. W' = [W EXCEPT ![<<"event", t % 128>>] = place]
    <3>1. W' = InTables(event', error')
      BY DEF InTables
    <3> QED
      BY <2>1, <3>1, <1>a, SetEvent
  <2>3. P' = P /\ G' = G /\ <<"event", t % 128>> \in Kinds
    BY <2>1, SlotKind DEF Pending, Shown
  <2> QED
    BY <2>2, <2>3, <1>c
<1>3. ASSUME NEW c \in ErrorCode, NEW place \in Place, xcb_event_set_error_handler(c, place)
      PROVE  Dispatch!Next
  <2>1. error' = [error EXCEPT ![c] = place] /\ UNCHANGED <<event, queue, given>>
    BY <1>3 DEF xcb_event_set_error_handler
  <2>2. W' = [W EXCEPT ![<<"error", c>>] = place] /\ <<"error", c>> \in Kinds
    <3>1. W' = InTables(event', error')
      BY DEF InTables
    <3> QED
      BY <2>1, <3>1, <1>a, SetError
  <2>3. P' = P /\ G' = G
    BY <2>1 DEF Pending, Shown
  <2> QED
    BY <2>2, <2>3, <1>c
<1>4. ASSUME Discard \/ Call PROVE Dispatch!Next
  <2>1. /\ queue # <<>> /\ queue' = Tail(queue) /\ UNCHANGED <<event, error>>
    BY <1>4 DEF Discard, Call, tables
  <2>2. /\ P # <<>> /\ Head(queue) \in Sent /\ Head(P) = KindOf(Head(queue)) /\ P' = Tail(P)
    <3>1. P' = Pending(queue')
      BY DEF Pending, KindOf
    <3> QED
      BY <2>1, <3>1, <1>a, PendingTail
  <2>3. W' = W
    BY <2>1 DEF InTables
  <2>4. W[Head(P)] = Wanted(Entry(Head(queue)))
    BY <2>2, EntryIsWanted
  <2>5. CASE Discard
    <3>1. W[Head(P)] = None /\ G' = G
      BY <2>4, <2>5 DEF Discard, Wanted, Shown
    <3> QED
      BY <3>1, <2>2, <2>3, <1>d
  <2>6. CASE Call
    <3> DEFINE place == Entry(Head(queue))
    <3>1. place \in Place /\ given' = Append(given, [event |-> Head(queue), place |-> place])
      BY <2>6 DEF Call
    <3>2. W[Head(P)] = place /\ place # None
      BY <2>4, <3>1, PlaceAssumption DEF Wanted
    <3> HIDE DEF place
    <3>3. G' = Append(G, Given(Head(queue), place))
      <4>1. G' = Shown(given')
        BY DEF Shown, Given, KindOf
      <4> QED
        BY <4>1, <3>1, <2>2, <1>a, ShownAppend
    <3>4. Given(Head(queue), place) = [kind |-> Head(P), place |-> W[Head(P)]]
      BY <2>2, <3>2 DEF Given
    <3> QED
      BY <3>2, <3>3, <3>4, <2>2, <2>3, <1>d
  <2> QED
    BY <1>4, <2>5, <2>6
<1> QED
  BY <1>1, <1>2, <1>3, <1>4, <1>u DEF Next, Loop, Break, Enter, Crash, Return, Leave, vars, tables

\* However loops are nested and whatever handlers do, every event is given once,
\* in order, to the handler set for its kind (event.c:47-77).
THEOREM LoopImplementsDispatch == Spec => GivesAsPromised
  BY SafeInit, SafeStep, KnownInit, KnownStep, InitRefines, StepRefines, PTL
  DEF Spec, GivesAsPromised, Dispatch!Spec
=============================================================================
