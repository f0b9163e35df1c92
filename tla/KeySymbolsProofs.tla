------------------------- MODULE KeySymbolsProofs -------------------------
(***************************************************************************)
(* Proofs about KeySymbols, for any number of changes of the mapping and   *)
(* of allocations.                                                         *)
(***************************************************************************)
EXTENDS KeySymbols, SequenceTheorems, TLAPS

-----------------------------------------------------------------------------
(* Requests on the wire, answers and events in the stream.                  *)

Event  == {"keyboard", "modifier"}
Packet == [type : {"answer"}, body : Answer] \cup [type : {"event"}, body : Event]

IsAnswer(packet) == packet.type = "answer"

Asked(w)    == {w[i] : i \in DOMAIN w}
Answered(s) == {s[i].body.cookie : i \in {j \in DOMAIN s : IsAnswer(s[j])}}
Held(A)     == {a.cookie : a \in A}

AskedOnce(w) == \A i, j \in DOMAIN w : w[i] = w[j] => i = j

AnsweredOnce(s) ==
    \A i, j \in DOMAIN s :
        IsAnswer(s[i]) /\ IsAnswer(s[j]) /\ s[i].body.cookie = s[j].body.cookie => i = j

HeldOnce(A) == \A a, b \in A : a.cookie = b.cookie => a = b

\* A keyboard event comes in the stream after place p.
Follows(s, p) == \E j \in DOMAIN s : j > p /\ s[j].type = "event" /\ s[j].body = "keyboard"

Told(e) == \E j \in DOMAIN e : e[j] = "keyboard"

-----------------------------------------------------------------------------
(* The inductive invariant.  That no answer is lost needs that every request *)
(* is in one place; that a lookup gets its answer, that it is in some place; *)
(* that the mapping at hand is current, that an older one is followed by an  *)
(* event on the whole way from the server to the client.                    *)

StreamOK == stream \in Seq(Packet)

\* Every request has been sent, and it or its answer is in one place.
OnePlace ==
    /\ AskedOnce(wire) /\ AnsweredOnce(stream) /\ HeldOnce(answers)
    /\ Asked(wire) \cap Answered(stream) = {}
    /\ Asked(wire) \cap Held(answers) = {}
    /\ Answered(stream) \cap Held(answers) = {}
    /\ Pending \subseteq 1 .. sent

\* Live key symbols have sent a request, and a waiting lookup has set the tag.
Lifecycle ==
    /\ live => cookie # 0
    /\ pc = "waiting" => live /\ tag = "value"

\* The answer that the client counts on comes, unless the connection broke.
Underway == Connected /\ ((live /\ tag = "cookie") \/ pc = "waiting") => cookie \in Pending

\* Errors come from the server only.
ErrorsAreFaults ==
    "server" \notin faults =>
        /\ \A i \in DOMAIN stream : IsAnswer(stream[i]) => stream[i].body.mapping # Null
        /\ \A a \in answers : a.mapping # Null

\* A mapping that is older than the server's is followed by an event.
InSync ==
    Connected /\ live /\ ~skipped =>
        /\ \A i \in DOMAIN stream :
              IsAnswer(stream[i]) /\ stream[i].body.cookie = cookie
                                  /\ stream[i].body.mapping # Null
              => stream[i].body.mapping = mapping \/ Follows(stream, i)
        /\ \A a \in answers :
              a.cookie = cookie /\ a.mapping # Null
              => a.mapping = mapping \/ Follows(stream, 0) \/ Told(events)
        /\ tag = "value" /\ pc = "ready"
              => reply.mapping = mapping \/ Follows(stream, 0) \/ Told(events)

Safe ==
    /\ TypeOK /\ StreamOK /\ OnePlace /\ Lifecycle /\ Underway
    /\ OwnsItsMapping /\ NoAnswerLost /\ ErrorsAreFaults /\ CrashNeedsFault
    /\ InSync

-----------------------------------------------------------------------------
(* What sending and reading do to the two queues.                           *)

LEMMA WireAppend ==
    ASSUME NEW w \in Seq(Nat), NEW c \in Nat, AskedOnce(w), c \notin Asked(w)
    PROVE  /\ Append(w, c) \in Seq(Nat)
           /\ Asked(Append(w, c)) = Asked(w) \cup {c}
           /\ AskedOnce(Append(w, c))
<1> DEFINE t == Append(w, c)
<1>1. /\ t \in Seq(Nat) /\ Len(w) \in Nat /\ Len(t) = Len(w) + 1
      /\ \A i \in 1 .. Len(w) : t[i] = w[i]
      /\ t[Len(w) + 1] = c
  BY AppendProperties, LenProperties
<1>2. DOMAIN t = 1 .. Len(w) + 1 /\ DOMAIN w = 1 .. Len(w)
  BY <1>1, LenProperties
<1> HIDE DEF t
<1>3. Asked(t) = Asked(w) \cup {c}
  <2>1. \A x : x \in Asked(t) <=> \E i \in 1 .. Len(w) + 1 : x = t[i]
    BY <1>2 DEF Asked
  <2>2. \A x : x \in Asked(w) <=> \E i \in 1 .. Len(w) : x = w[i]
    BY <1>2 DEF Asked
  <2>3. ASSUME NEW x \in Asked(t) PROVE x \in Asked(w) \cup {c}
    <3>1. PICK i \in 1 .. Len(w) + 1 : x = t[i]
      BY <2>1
    <3>2. CASE i = Len(w) + 1
      BY <3>1, <3>2, <1>1
    <3>3. CASE i \in 1 .. Len(w)
      <4>1. x = w[i]
        BY <3>1, <3>3, <1>1
      <4> QED
        BY <4>1, <3>3, <2>2
    <3> QED
      BY <3>2, <3>3, <1>1
  <2>4. ASSUME NEW x \in Asked(w) PROVE x \in Asked(t)
    <3>1. PICK i \in 1 .. Len(w) : x = w[i]
      BY <2>2
    <3>2. i \in 1 .. Len(w) + 1 /\ x = t[i]
      BY <3>1, <1>1
    <3> QED
      BY <3>2, <2>1
  <2>5. c \in Asked(t)
    BY <1>1, <2>1
  <2> QED
    BY <2>3, <2>4, <2>5
<1>4. AskedOnce(t)
  <2>1. \A i \in 1 .. Len(w) : w[i] # c
    BY <1>2 DEF Asked
  <2>2. \A i, j \in 1 .. Len(w) : w[i] = w[j] => i = j
    BY <1>2 DEF AskedOnce
  <2>3. ASSUME NEW i \in 1 .. Len(w) + 1, NEW j \in 1 .. Len(w) + 1, t[i] = t[j]
        PROVE  i = j
    <3> DEFINE last == Len(w) + 1
    <3>1. \A k \in 1 .. last : k # last => k \in 1 .. Len(w)
      BY <1>1
    <3>2. \A k \in 1 .. last : k # last => t[k] = w[k] /\ t[k] # c
      BY <3>1, <2>1, <1>1
    <3>3. t[last] = c /\ i \in 1 .. last /\ j \in 1 .. last
      BY <1>1
    <3> HIDE DEF last
    <3>4. CASE i = last
      <4>1. t[j] = c
        BY <2>3, <3>3, <3>4
      <4> QED
        BY <4>1, <3>2, <3>3, <3>4
    <3>5. CASE j = last
      <4>1. t[i] = c
        BY <2>3, <3>3, <3>5
      <4> QED
        BY <4>1, <3>2, <3>3, <3>5
    <3>6. CASE i # last /\ j # last
      <4>1. w[i] = w[j]
        BY <2>3, <3>2, <3>3, <3>6
      <4> QED
        BY <4>1, <2>2, <3>1, <3>3, <3>6
    <3> QED
      BY <3>4, <3>5, <3>6
  <2> QED
    BY <2>3, <1>2 DEF AskedOnce
<1> QED
  BY <1>1, <1>3, <1>4 DEF t

LEMMA WireTail ==
    ASSUME NEW w \in Seq(Nat), w # <<>>, AskedOnce(w)
    PROVE  /\ Tail(w) \in Seq(Nat) /\ Head(w) \in Asked(w)
           /\ Asked(Tail(w)) = Asked(w) \ {Head(w)}
           /\ AskedOnce(Tail(w))
<1> DEFINE t == Tail(w)
<1>1. /\ t \in Seq(Nat) /\ Len(t) = Len(w) - 1 /\ Len(w) \in Nat \ {0}
      /\ \A i \in 1 .. Len(t) : t[i] = w[i + 1]
      /\ Head(w) = w[1]
  BY HeadTailProperties, EmptySeq
<1>2. DOMAIN t = 1 .. Len(w) - 1 /\ DOMAIN w = 1 .. Len(w)
  BY <1>1, LenProperties
<1> HIDE DEF t
<1>3. \A i \in 1 .. Len(w) - 1 : t[i] = w[i + 1] /\ i + 1 \in 1 .. Len(w) /\ i + 1 # 1
  BY <1>1
<1>4. \A i \in 1 .. Len(w) : i = 1 \/ (i - 1 \in 1 .. Len(w) - 1 /\ w[i] = t[i - 1])
  BY <1>1
<1>5. 1 \in 1 .. Len(w)
  BY <1>1
<1>6. Asked(t) = Asked(w) \ {w[1]}
  <2>1. \A x : x \in Asked(t) <=> \E i \in 1 .. Len(w) - 1 : x = t[i]
    BY <1>2 DEF Asked
  <2>2. \A x : x \in Asked(w) <=> \E i \in 1 .. Len(w) : x = w[i]
    BY <1>2 DEF Asked
  <2>3. \A i \in 1 .. Len(w) : i # 1 => w[i] # w[1]
    BY <1>2, <1>5 DEF AskedOnce
  <2>4. \A x : x \in Asked(t) => x \in Asked(w) /\ x # w[1]
    BY <1>3, <2>1, <2>2, <2>3
  <2>5. \A x : x \in Asked(w) /\ x # w[1] => x \in Asked(t)
    BY <1>4, <2>1, <2>2
  <2> QED
    BY <2>4, <2>5
<1>7. AskedOnce(t)
  <2>1. \A i, j \in 1 .. Len(w) - 1 : w[i + 1] = w[j + 1] => i + 1 = j + 1
    BY <1>2, <1>3 DEF AskedOnce
  <2>2. \A i, j \in 1 .. Len(w) - 1 : i + 1 = j + 1 => i = j
    BY <1>1
  <2>3. ASSUME NEW i \in 1 .. Len(w) - 1, NEW j \in 1 .. Len(w) - 1, t[i] = t[j]
        PROVE  i = j
    <3>1. w[i + 1] = w[j + 1]
      BY <1>3, <2>3
    <3> QED
      BY <2>1, <2>2, <3>1
  <2> QED
    BY <1>2, <2>3 DEF AskedOnce
<1>8. w[1] \in Asked(w)
  BY <1>2, <1>5 DEF Asked
<1> QED
  BY <1>1, <1>6, <1>7, <1>8 DEF t

\* What a packet adds to the answers.
CookieOf(packet) == IF IsAnswer(packet) THEN {packet.body.cookie} ELSE {}

LEMMA StreamAppend ==
    ASSUME NEW s \in Seq(Packet), NEW p \in Packet, AnsweredOnce(s),
           CookieOf(p) \cap Answered(s) = {}
    PROVE  /\ Append(s, p) \in Seq(Packet)
           /\ Answered(Append(s, p)) = Answered(s) \cup CookieOf(p)
           /\ AnsweredOnce(Append(s, p))
<1> DEFINE t == Append(s, p)
<1>1. /\ t \in Seq(Packet) /\ Len(s) \in Nat /\ Len(t) = Len(s) + 1
      /\ \A i \in 1 .. Len(s) : t[i] = s[i]
      /\ t[Len(s) + 1] = p
  BY AppendProperties, LenProperties
<1>2. DOMAIN t = 1 .. Len(s) + 1 /\ DOMAIN s = 1 .. Len(s)
  BY <1>1, LenProperties
<1> HIDE DEF t
<1>3. \A i \in 1 .. Len(s) + 1 : (i \in 1 .. Len(s) /\ t[i] = s[i]) \/ (i = Len(s) + 1 /\ t[i] = p)
  BY <1>1
<1>4. \A i \in 1 .. Len(s) : i \in 1 .. Len(s) + 1 /\ t[i] = s[i]
  BY <1>1
<1>5. Len(s) + 1 \in 1 .. Len(s) + 1
  BY <1>1
<1>6. Answered(t) = Answered(s) \cup CookieOf(p)
  <2>1. \A x : x \in Answered(t) <=> \E i \in 1 .. Len(s) + 1 : IsAnswer(t[i]) /\ x = t[i].body.cookie
    BY <1>2 DEF Answered
  <2>2. \A x : x \in Answered(s) <=> \E i \in 1 .. Len(s) : IsAnswer(s[i]) /\ x = s[i].body.cookie
    BY <1>2 DEF Answered
  <2>3. \A x : x \in CookieOf(p) <=> IsAnswer(p) /\ x = p.body.cookie
    BY DEF CookieOf
  <2>4. \A x : x \in Answered(t) => x \in Answered(s) \/ x \in CookieOf(p)
    BY <1>3, <2>1, <2>2, <2>3
  <2>5. \A x : x \in Answered(s) => x \in Answered(t)
    BY <1>4, <2>1, <2>2
  <2>6. \A x : x \in CookieOf(p) => x \in Answered(t)
    BY <1>1, <1>5, <2>1, <2>3
  <2> QED
    BY <2>4, <2>5, <2>6
<1>7. AnsweredOnce(t)
  <2>1. \A i \in 1 .. Len(s) : IsAnswer(s[i]) /\ IsAnswer(p) => s[i].body.cookie # p.body.cookie
    BY <1>2 DEF CookieOf, Answered
  <2> QED
    BY <1>2, <1>3, <2>1 DEF AnsweredOnce
<1> QED
  BY <1>1, <1>6, <1>7 DEF t

LEMMA StreamTail ==
    ASSUME NEW s \in Seq(Packet), s # <<>>, AnsweredOnce(s)
    PROVE  /\ Tail(s) \in Seq(Packet) /\ Head(s) \in Packet
           /\ DOMAIN s = 1 .. Len(s) /\ DOMAIN Tail(s) = 1 .. Len(s) - 1
           /\ Len(s) \in Nat \ {0} /\ Head(s) = s[1]
           /\ \A i \in 1 .. Len(s) - 1 : Tail(s)[i] = s[i + 1]
           /\ Answered(Tail(s)) = Answered(s) \ CookieOf(Head(s))
           /\ CookieOf(Head(s)) \subseteq Answered(s)
           /\ AnsweredOnce(Tail(s))
<1> DEFINE t == Tail(s)
<1>1. /\ t \in Seq(Packet) /\ Len(t) = Len(s) - 1 /\ Len(s) \in Nat \ {0}
      /\ \A i \in 1 .. Len(t) : t[i] = s[i + 1]
      /\ Head(s) = s[1] /\ Head(s) \in Packet
  BY HeadTailProperties, EmptySeq
<1>2. DOMAIN t = 1 .. Len(s) - 1 /\ DOMAIN s = 1 .. Len(s)
  BY <1>1, LenProperties
<1> HIDE DEF t
<1>3. \A i \in 1 .. Len(s) - 1 : t[i] = s[i + 1] /\ i + 1 \in 1 .. Len(s) /\ i + 1 # 1
  BY <1>1
<1>4. \A i \in 1 .. Len(s) : i = 1 \/ (i - 1 \in 1 .. Len(s) - 1 /\ s[i] = t[i - 1])
  BY <1>1
<1>5. 1 \in 1 .. Len(s)
  BY <1>1
<1> DEFINE head == s[1]
<1>6. /\ \A x : x \in Answered(t) <=> \E i \in 1 .. Len(s) - 1 : IsAnswer(t[i]) /\ x = t[i].body.cookie
      /\ \A x : x \in Answered(s) <=> \E i \in 1 .. Len(s) : IsAnswer(s[i]) /\ x = s[i].body.cookie
      /\ \A x : x \in CookieOf(head) <=> IsAnswer(head) /\ x = head.body.cookie
  BY <1>2 DEF Answered, CookieOf
<1>7. CookieOf(head) \subseteq Answered(s)
  BY <1>5, <1>6
<1>8. Answered(t) = Answered(s) \ CookieOf(head)
  <2>1. \A i \in 1 .. Len(s) : i # 1 /\ IsAnswer(s[i]) => s[i].body.cookie \notin CookieOf(head)
    BY <1>2, <1>5 DEF AnsweredOnce, CookieOf
  <2>2. \A x : x \in Answered(t) => x \in Answered(s) /\ x \notin CookieOf(head)
    BY <1>3, <1>6, <2>1
  <2>3. \A x : x \in Answered(s) /\ x \notin CookieOf(head) => x \in Answered(t)
    BY <1>4, <1>6
  <2> QED
    BY <2>2, <2>3
<1>9. AnsweredOnce(t)
  BY <1>2, <1>3 DEF AnsweredOnce
<1> QED
  BY <1>1, <1>2, <1>3, <1>7, <1>8, <1>9 DEF t

LEMMA FollowsAppend ==
    ASSUME NEW s \in Seq(Packet), NEW p \in Packet
    PROVE  /\ \A i \in Nat : Follows(s, i) => Follows(Append(s, p), i)
           /\ p = [type |-> "event", body |-> "keyboard"]
              => \A i \in 0 .. Len(s) : Follows(Append(s, p), i)
<1>1. /\ Append(s, p) \in Seq(Packet) /\ Len(s) \in Nat /\ Len(Append(s, p)) = Len(s) + 1
      /\ \A i \in 1 .. Len(s) : Append(s, p)[i] = s[i]
      /\ Append(s, p)[Len(s) + 1] = p
  BY AppendProperties, LenProperties
<1>2. DOMAIN Append(s, p) = 1 .. Len(s) + 1 /\ DOMAIN s = 1 .. Len(s)
  BY <1>1, LenProperties
<1>3. \A i \in Nat : Follows(s, i) => Follows(Append(s, p), i)
  <2>1. \A j \in 1 .. Len(s) : j \in 1 .. Len(s) + 1
    BY <1>1
  <2> QED
    BY <1>1, <1>2, <2>1 DEF Follows
<1>4. ASSUME p = [type |-> "event", body |-> "keyboard"], NEW i \in 0 .. Len(s)
      PROVE  Follows(Append(s, p), i)
  <2>1. Len(s) + 1 \in 1 .. Len(s) + 1 /\ Len(s) + 1 > i
    BY <1>1
  <2>2. p.type = "event" /\ p.body = "keyboard"
    BY <1>4
  <2> QED
    BY <1>1, <1>2, <2>1, <2>2 DEF Follows
<1> QED
  BY <1>3, <1>4

LEMMA FollowsTail ==
    ASSUME NEW s \in Seq(Packet), s # <<>>
    PROVE  /\ \A i \in DOMAIN Tail(s) : Follows(s, i + 1) => Follows(Tail(s), i)
           /\ Follows(s, 1) => Follows(Tail(s), 0)
           /\ Follows(s, 0) /\ ~(Head(s).type = "event" /\ Head(s).body = "keyboard")
              => Follows(Tail(s), 0)
<1> DEFINE t == Tail(s)
<1>1. /\ t \in Seq(Packet) /\ Len(t) = Len(s) - 1 /\ Len(s) \in Nat \ {0}
      /\ \A i \in 1 .. Len(t) : t[i] = s[i + 1]
      /\ Head(s) = s[1]
  BY HeadTailProperties, EmptySeq
<1>2. DOMAIN t = 1 .. Len(s) - 1 /\ DOMAIN s = 1 .. Len(s)
  BY <1>1, LenProperties
<1> HIDE DEF t
<1>3. \A j \in 1 .. Len(s) : j = 1 \/ (j - 1 \in 1 .. Len(s) - 1 /\ s[j] = t[j - 1])
  BY <1>1
<1>4. ASSUME NEW i \in Nat, NEW j \in 1 .. Len(s), j > i + 1,
             s[j].type = "event", s[j].body = "keyboard"
      PROVE  Follows(t, i)
  <2>1. j - 1 \in DOMAIN t /\ j - 1 > i /\ t[j - 1] = s[j]
    BY <1>2, <1>3, <1>4
  <2> QED
    BY <1>4, <2>1 DEF Follows
<1>5. \A i \in Nat : Follows(s, i + 1) => Follows(t, i)
  BY <1>2, <1>4 DEF Follows
<1>6. \A i \in DOMAIN t : i \in Nat
  BY <1>1, <1>2
<1>7. Follows(s, 1) => Follows(t, 0)
  <2>1. 0 + 1 = 1 /\ 0 \in Nat
    OBVIOUS
  <2> QED
    BY <1>5, <2>1
<1>8. ASSUME Follows(s, 0), ~(s[1].type = "event" /\ s[1].body = "keyboard")
      PROVE  Follows(t, 0)
  <2>1. PICK j \in 1 .. Len(s) : s[j].type = "event" /\ s[j].body = "keyboard"
    BY <1>2, <1>8 DEF Follows
  <2>2. j > 0 + 1 /\ 0 \in Nat
    BY <1>1, <1>8, <2>1
  <2> QED
    BY <1>4, <2>1, <2>2
<1> QED
  BY <1>1, <1>5, <1>6, <1>7, <1>8 DEF t

LEMMA ToldAppend ==
    ASSUME NEW e \in Seq(Event), NEW x \in Event
    PROVE  Append(e, x) \in Seq(Event) /\ (Told(e) \/ x = "keyboard" => Told(Append(e, x)))
<1>1. /\ Append(e, x) \in Seq(Event) /\ Len(e) \in Nat /\ Len(Append(e, x)) = Len(e) + 1
      /\ \A i \in 1 .. Len(e) : Append(e, x)[i] = e[i]
      /\ Append(e, x)[Len(e) + 1] = x
  BY AppendProperties, LenProperties
<1>2. DOMAIN Append(e, x) = 1 .. Len(e) + 1 /\ DOMAIN e = 1 .. Len(e)
  BY <1>1, LenProperties
<1>3. Len(e) + 1 \in 1 .. Len(e) + 1 /\ \A i \in 1 .. Len(e) : i \in 1 .. Len(e) + 1
  BY <1>1
<1> QED
  BY <1>1, <1>2, <1>3 DEF Told

LEMMA ToldTail ==
    ASSUME NEW e \in Seq(Event), e # <<>>
    PROVE  /\ Tail(e) \in Seq(Event) /\ Head(e) \in Event
           /\ Told(e) /\ Head(e) # "keyboard" => Told(Tail(e))
<1>1. /\ Tail(e) \in Seq(Event) /\ Len(Tail(e)) = Len(e) - 1 /\ Len(e) \in Nat \ {0}
      /\ \A i \in 1 .. Len(Tail(e)) : Tail(e)[i] = e[i + 1]
      /\ Head(e) = e[1] /\ Head(e) \in Event
  BY HeadTailProperties, EmptySeq
<1>2. DOMAIN Tail(e) = 1 .. Len(e) - 1 /\ DOMAIN e = 1 .. Len(e)
  BY <1>1, LenProperties
<1>3. \A j \in 1 .. Len(e) : j = 1 \/ (j - 1 \in 1 .. Len(e) - 1 /\ e[j] = Tail(e)[j - 1])
  BY <1>1
<1> QED
  BY <1>1, <1>2, <1>3 DEF Told

-----------------------------------------------------------------------------
(* The invariant holds at first, and every step keeps it.                   *)

LEMMA PendingParts ==
    /\ Pending = Asked(wire) \cup Answered(stream) \cup Held(answers)
    /\ Pending' = Asked(wire') \cup Answered(stream') \cup Held(answers')
  BY DEF Pending, Asked, Answered, Held, IsAnswer

\* A request gets a cookie that no other has.
LEMMA AskResult ==
    ASSUME TypeOK, StreamOK, OnePlace, Ask
    PROVE  /\ sent' = sent + 1 /\ cookie' = sent + 1 /\ sent \in Nat
           /\ UNCHANGED <<mapping, others, stream, answers, faults>>
           /\ wire' \in Seq(Nat)
           /\ sent + 1 \notin Pending
           /\ Pending' = Pending \cup (IF Connected THEN {sent + 1} ELSE {})
           /\ OnePlace'
<1>1. /\ sent' = sent + 1 /\ cookie' = sent + 1 /\ sent \in Nat /\ wire \in Seq(Nat)
      /\ UNCHANGED <<mapping, others, stream, answers, faults>>
      /\ wire' = IF Connected THEN Append(wire, sent + 1) ELSE wire
  BY DEF Ask, TypeOK, server
<1>2. sent + 1 \notin Pending
  BY <1>1 DEF OnePlace
<1>3. CASE ~Connected
  <2>1. wire' = wire
    BY <1>1, <1>3
  <2>2. Pending' = Pending
    BY <1>1, <2>1, PendingParts
  <2>3. OnePlace'
    BY <1>1, <2>1, <2>2 DEF OnePlace
  <2> QED
    BY <1>1, <1>2, <1>3, <2>1, <2>2, <2>3
<1>4. CASE Connected
  <2>1. wire' = Append(wire, sent + 1)
    BY <1>1, <1>4
  <2>2. sent + 1 \in Nat /\ sent + 1 \notin Asked(wire) /\ AskedOnce(wire)
    BY <1>1, <1>2, PendingParts DEF OnePlace
  <2>3. wire' \in Seq(Nat) /\ Asked(wire') = Asked(wire) \cup {sent + 1} /\ AskedOnce(wire')
    BY <1>1, <2>1, <2>2, WireAppend
  <2>4. Pending' = Pending \cup {sent + 1}
    BY <1>1, <2>3, PendingParts
  <2>5. Pending' \subseteq 1 .. sent'
    BY <1>1, <2>4 DEF OnePlace
  <2>6. sent + 1 \notin Answered(stream) /\ sent + 1 \notin Held(answers)
    BY <1>2, PendingParts
  <2>7. OnePlace'
    BY <1>1, <2>3, <2>5, <2>6 DEF OnePlace
  <2> QED
    BY <1>1, <1>2, <1>4, <2>3, <2>4, <2>7
<1> QED
  BY <1>3, <1>4

\* Parts of the invariant that a step leaves alone.
LEMMA Frames ==
    /\ OnePlace /\ UNCHANGED <<wire, stream, answers, sent>> => OnePlace' /\ Pending' = Pending
    /\ ErrorsAreFaults /\ UNCHANGED <<stream, answers, faults>> => ErrorsAreFaults'
    /\ OwnsItsMapping /\ UNCHANGED <<pc, heap, live, tag, reply>> => OwnsItsMapping'
    /\ Lifecycle /\ UNCHANGED <<pc, live, tag, cookie>> => Lifecycle'
    /\ StreamOK /\ UNCHANGED stream => StreamOK'
<1>1. UNCHANGED <<wire, stream, answers, sent>> => Pending' = Pending
  BY DEF Pending
<1>2. OnePlace /\ UNCHANGED <<wire, stream, answers, sent>> => OnePlace'
  BY <1>1 DEF OnePlace
<1>3. ErrorsAreFaults /\ UNCHANGED <<stream, answers, faults>> => ErrorsAreFaults'
  BY DEF ErrorsAreFaults
<1>4. OwnsItsMapping /\ UNCHANGED <<pc, heap, live, tag, reply>> => OwnsItsMapping'
  BY DEF OwnsItsMapping
<1>5. Lifecycle /\ UNCHANGED <<pc, live, tag, cookie>> => Lifecycle'
  BY DEF Lifecycle
<1>6. StreamOK /\ UNCHANGED stream => StreamOK'
  BY DEF StreamOK
<1> QED
  BY <1>1, <1>2, <1>3, <1>4, <1>5, <1>6

LEMMA SafeInit == Init => Safe
<1> SUFFICES ASSUME Init PROVE Safe
  OBVIOUS
<1> USE BoundAssumption, NullAssumption
<1>1. /\ wire = <<>> /\ stream = <<>> /\ answers = {} /\ events = <<>> /\ faults = {} /\ sent = 0
      /\ ~live /\ tag = "cookie" /\ pc = "ready" /\ heap = {}
  BY DEF Init
<1>2. DOMAIN wire = {} /\ DOMAIN stream = {}
  BY <1>1
<1>3. Pending = {} /\ OnePlace
  <2>1. Asked(wire) = {} /\ Answered(stream) = {} /\ Held(answers) = {}
    BY <1>1, <1>2 DEF Asked, Answered, Held
  <2> QED
    BY <1>1, <1>2, <2>1, PendingParts DEF OnePlace, AskedOnce, AnsweredOnce, HeldOnce
<1>4. TypeOK
  <2>1. wire \in Seq(Nat) /\ events \in Seq({"keyboard", "modifier"})
    BY <1>1, EmptySeq
  <2>2. answers \subseteq Answer /\ heap \subseteq Answer /\ abandoned \subseteq 1 .. sent
    BY <1>1 DEF Init
  <2>3. /\ mapping \in 0 .. MaxChanges /\ others \in 0 .. MaxOthers /\ allocs \in 0 .. MaxAllocs
        /\ sent \in Nat /\ cookie \in 0 .. sent
    BY DEF Init
  <2>4. /\ faults \subseteq {"server", "connection"} /\ live \in BOOLEAN /\ skipped \in BOOLEAN
        /\ tag \in {"cookie", "value"} /\ pc \in {"ready", "waiting", "crashed"}
        /\ reply \in Answer \cup {Null}
    BY DEF Init
  <2> QED
    BY <2>1, <2>2, <2>3, <2>4 DEF TypeOK
<1>5. StreamOK
  BY <1>1, EmptySeq DEF StreamOK
<1>6. Lifecycle /\ Underway /\ OwnsItsMapping /\ CrashNeedsFault /\ InSync
  BY <1>1 DEF Lifecycle, Underway, OwnsItsMapping, CrashNeedsFault, InSync
<1>7. NoAnswerLost /\ ErrorsAreFaults
  BY <1>1, <1>2, <1>3 DEF NoAnswerLost, ErrorsAreFaults
<1> QED
  BY <1>3, <1>4, <1>5, <1>6, <1>7 DEF Safe

LEMMA SafeStep == Safe /\ [Next]_vars => Safe'
<1> SUFFICES ASSUME Safe, [Next]_vars PROVE Safe'
  OBVIOUS
<1> USE BoundAssumption, NullAssumption
<1>1. /\ TypeOK /\ StreamOK /\ OnePlace /\ Lifecycle /\ Underway
      /\ OwnsItsMapping /\ NoAnswerLost /\ ErrorsAreFaults /\ CrashNeedsFault
      /\ InSync
  BY DEF Safe
<1>2. /\ wire \in Seq(Nat) /\ stream \in Seq(Packet) /\ events \in Seq(Event)
      /\ answers \subseteq Answer /\ sent \in Nat /\ cookie \in 0 .. sent
      /\ mapping \in 0 .. MaxChanges /\ mapping \in Nat
  BY <1>1 DEF TypeOK, StreamOK, Event
<1>3. ASSUME ChangeKeyboard PROVE Safe'
  <2> DEFINE note == [type |-> "event", body |-> "keyboard"]
  <2>1. /\ mapping' = mapping + 1 /\ mapping < MaxChanges /\ stream' = Append(stream, note)
        /\ UNCHANGED <<others, wire, answers, events, faults>>
        /\ UNCHANGED <<live, tag, cookie, reply, allocs, sent, heap, abandoned, skipped, pc>>
    BY <1>3 DEF ChangeKeyboard, client, syms
  <2>2. note \in Packet /\ CookieOf(note) = {} /\ note.type = "event"
    BY DEF Packet, Event, CookieOf, IsAnswer
  <2>3. /\ stream' \in Seq(Packet) /\ Answered(stream') = Answered(stream)
        /\ AnsweredOnce(stream')
    BY <1>1, <1>2, <2>1, <2>2, StreamAppend DEF OnePlace
  <2>4. /\ Len(stream) \in Nat
        /\ DOMAIN stream' = 1 .. Len(stream) + 1 /\ DOMAIN stream = 1 .. Len(stream)
        /\ \A i \in 1 .. Len(stream) : stream'[i] = stream[i]
        /\ stream'[Len(stream) + 1] = note
    BY <1>2, <2>1, <2>2, AppendProperties, LenProperties
  <2>5. Pending' = Pending /\ OnePlace'
    BY <1>1, <2>1, <2>3, PendingParts DEF OnePlace
  <2>6. TypeOK' /\ StreamOK'
    BY <1>1, <1>2, <2>1, <2>3 DEF TypeOK, StreamOK
  <2>7. Lifecycle' /\ OwnsItsMapping' /\ CrashNeedsFault'
    BY <1>1, <2>1 DEF Lifecycle, OwnsItsMapping, CrashNeedsFault
  <2>8. Underway' /\ NoAnswerLost'
    BY <1>1, <2>1, <2>5 DEF Underway, NoAnswerLost, Connected
  <2>9. \A i \in DOMAIN stream' : IsAnswer(stream'[i]) =>
           i \in DOMAIN stream /\ stream'[i] = stream[i]
    <3>1. \A i \in DOMAIN stream' : i \in DOMAIN stream \/ i = Len(stream) + 1
      BY <2>4
    <3>2. ~IsAnswer(note)
      BY DEF IsAnswer
    <3> QED
      BY <2>4, <3>1, <3>2
  <2>10. ErrorsAreFaults'
    BY <1>1, <2>1, <2>9 DEF ErrorsAreFaults
  <2>11. Follows(stream', 0) /\ \A i \in DOMAIN stream : Follows(stream', i)
    <3>1. \A i \in 0 .. Len(stream) : Follows(stream', i)
      BY <1>2, <2>1, <2>2, FollowsAppend
    <3> QED
      BY <2>4, <3>1
  <2>12. InSync'
    BY <2>9, <2>11 DEF InSync
  <2> QED
    BY <2>5, <2>6, <2>7, <2>8, <2>10, <2>12 DEF Safe
<1>4. ASSUME ChangeOther PROVE Safe'
  <2> DEFINE note == [type |-> "event", body |-> "modifier"]
  <2>1. /\ others' = others + 1 /\ others < MaxOthers /\ stream' = Append(stream, note)
        /\ UNCHANGED <<mapping, wire, answers, events, faults>>
        /\ UNCHANGED <<live, tag, cookie, reply, allocs, sent, heap, abandoned, skipped, pc>>
    BY <1>4 DEF ChangeOther, client, syms
  <2>2. note \in Packet /\ CookieOf(note) = {} /\ ~IsAnswer(note)
    BY DEF Packet, Event, CookieOf, IsAnswer
  <2>3. /\ stream' \in Seq(Packet) /\ Answered(stream') = Answered(stream)
        /\ AnsweredOnce(stream')
    BY <1>1, <1>2, <2>1, <2>2, StreamAppend DEF OnePlace
  <2>4. /\ Len(stream) \in Nat
        /\ DOMAIN stream' = 1 .. Len(stream) + 1 /\ DOMAIN stream = 1 .. Len(stream)
        /\ \A i \in 1 .. Len(stream) : stream'[i] = stream[i]
        /\ stream'[Len(stream) + 1] = note
    BY <1>2, <2>1, <2>2, AppendProperties, LenProperties
  <2>5. Pending' = Pending /\ OnePlace'
    BY <1>1, <2>1, <2>3, PendingParts DEF OnePlace
  <2>6. TypeOK' /\ StreamOK'
    BY <1>1, <1>2, <2>1, <2>3 DEF TypeOK, StreamOK
  <2>7. Lifecycle' /\ OwnsItsMapping' /\ CrashNeedsFault'
    BY <1>1, <2>1 DEF Lifecycle, OwnsItsMapping, CrashNeedsFault
  <2>8. Underway' /\ NoAnswerLost'
    BY <1>1, <2>1, <2>5 DEF Underway, NoAnswerLost, Connected
  <2>9. \A i \in DOMAIN stream' : IsAnswer(stream'[i]) =>
           i \in DOMAIN stream /\ stream'[i] = stream[i]
    <3>1. \A i \in DOMAIN stream' : i \in DOMAIN stream \/ i = Len(stream) + 1
      BY <2>4
    <3> QED
      BY <2>2, <2>4, <3>1
  <2>10. ErrorsAreFaults'
    BY <1>1, <2>1, <2>9 DEF ErrorsAreFaults
  <2>11. /\ Follows(stream, 0) => Follows(stream', 0)
         /\ \A i \in DOMAIN stream : Follows(stream, i) => Follows(stream', i)
    <3>1. 0 \in Nat /\ \A i \in DOMAIN stream : i \in Nat
      BY <2>4
    <3> QED
      BY <1>2, <2>1, <2>2, <3>1, FollowsAppend
  <2>12. InSync'
    BY <1>1, <2>1, <2>9, <2>11 DEF InSync, Connected
  <2> QED
    BY <2>5, <2>6, <2>7, <2>8, <2>10, <2>12 DEF Safe
<1>5. ASSUME Serve PROVE Safe'
  <2>1. PICK m \in {mapping, Null} :
           /\ stream' = Append(stream, [type |-> "answer",
                                  body |-> [cookie |-> Head(wire), mapping |-> m]])
           /\ (m # Null /\ faults' = faults) \/ faults' = faults \cup {"server"}
    BY <1>2, <1>5 DEF Serve
  <2> DEFINE note == [type |-> "answer", body |-> [cookie |-> Head(wire), mapping |-> m]]
  <2>2. /\ wire # <<>> /\ wire' = Tail(wire)
        /\ UNCHANGED <<mapping, others, answers, events>>
        /\ UNCHANGED <<live, tag, cookie, reply, allocs, sent, heap, abandoned, skipped, pc>>
    BY <1>5 DEF Serve, client, syms, server
  <2>3. /\ wire' \in Seq(Nat) /\ Head(wire) \in Asked(wire) /\ Head(wire) \in Nat
        /\ Asked(wire') = Asked(wire) \ {Head(wire)} /\ AskedOnce(wire')
    BY <1>1, <1>2, <2>2, WireTail, HeadTailProperties DEF OnePlace
  <2>4. note \in Packet /\ CookieOf(note) = {Head(wire)}
    BY <1>2, <2>3 DEF Packet, Answer, CookieOf, IsAnswer
  <2>5. CookieOf(note) \cap Answered(stream) = {} /\ Head(wire) \notin Held(answers)
    BY <1>1, <2>3, <2>4 DEF OnePlace
  <2>6. /\ stream' \in Seq(Packet) /\ AnsweredOnce(stream')
        /\ Answered(stream') = Answered(stream) \cup {Head(wire)}
    BY <1>1, <1>2, <2>1, <2>4, <2>5, StreamAppend DEF OnePlace
  <2>7. /\ Len(stream) \in Nat
        /\ DOMAIN stream' = 1 .. Len(stream) + 1 /\ DOMAIN stream = 1 .. Len(stream)
        /\ \A i \in 1 .. Len(stream) : stream'[i] = stream[i]
        /\ stream'[Len(stream) + 1] = note
    BY <1>2, <2>1, <2>4, AppendProperties, LenProperties
  <2>8. Pending' = Pending
    BY <2>2, <2>3, <2>6, PendingParts
  <2>9. OnePlace'
    BY <1>1, <2>2, <2>3, <2>5, <2>6, <2>8 DEF OnePlace
  <2>10. faults' \subseteq {"server", "connection"} /\ faults \subseteq faults'
         /\ ("connection" \in faults' <=> "connection" \in faults)
    BY <1>1, <2>1 DEF TypeOK
  <2>11. TypeOK' /\ StreamOK'
    BY <1>1, <1>2, <2>2, <2>3, <2>6, <2>10 DEF TypeOK, StreamOK
  <2>12. Lifecycle' /\ OwnsItsMapping'
    BY <1>1, <2>2 DEF Lifecycle, OwnsItsMapping
  <2>13. Underway' /\ NoAnswerLost'
    BY <1>1, <2>2, <2>8, <2>10 DEF Underway, NoAnswerLost, Connected
  <2>14. CrashNeedsFault'
    BY <1>1, <2>2, <2>10 DEF CrashNeedsFault
  <2>15. \A i \in DOMAIN stream' : \/ i \in DOMAIN stream /\ stream'[i] = stream[i]
                                   \/ stream'[i].body.mapping = m
    <3>1. \A i \in DOMAIN stream' : i \in DOMAIN stream \/ i = Len(stream) + 1
      BY <2>7
    <3>2. note.body.mapping = m
      OBVIOUS
    <3> QED
      BY <2>7, <3>1, <3>2
  <2>16. ErrorsAreFaults'
    <3>1. "server" \notin faults' => m # Null /\ "server" \notin faults
      BY <2>1, <2>10
    <3> QED
      BY <1>1, <2>2, <2>15, <3>1 DEF ErrorsAreFaults
  <2>17. /\ Follows(stream, 0) => Follows(stream', 0)
         /\ \A i \in DOMAIN stream : Follows(stream, i) => Follows(stream', i)
    <3>1. 0 \in Nat /\ \A i \in DOMAIN stream : i \in Nat
      BY <2>7
    <3> QED
      BY <1>2, <2>1, <2>4, <3>1, FollowsAppend
  <2>18. InSync'
    BY <1>1, <2>2, <2>10, <2>15, <2>17 DEF InSync, Connected
  <2> QED
    BY <2>9, <2>11, <2>12, <2>13, <2>14, <2>16, <2>18 DEF Safe
<1>6. ASSUME Receive PROVE Safe'
  <2> DEFINE packet == Head(stream)
  <2>1. /\ stream # <<>> /\ stream' = Tail(stream)
        /\ \/ packet.type = "answer" /\ answers' = answers \cup {packet.body} /\ events' = events
           \/ packet.type = "event" /\ events' = Append(events, packet.body) /\ answers' = answers
        /\ UNCHANGED <<mapping, others, wire, faults>>
        /\ UNCHANGED <<live, tag, cookie, reply, allocs, sent, heap, abandoned, skipped, pc>>
    BY <1>6 DEF Receive, client, syms, server
  <2>2. /\ stream' \in Seq(Packet) /\ packet \in Packet
        /\ DOMAIN stream = 1 .. Len(stream) /\ DOMAIN stream' = 1 .. Len(stream) - 1
        /\ Len(stream) \in Nat \ {0} /\ packet = stream[1]
        /\ \A i \in 1 .. Len(stream) - 1 : stream'[i] = stream[i + 1]
        /\ Answered(stream') = Answered(stream) \ CookieOf(packet)
        /\ CookieOf(packet) \subseteq Answered(stream)
        /\ AnsweredOnce(stream')
    BY <1>1, <1>2, <2>1, StreamTail DEF OnePlace
  <2> HIDE DEF packet
  <2>3. \A i \in DOMAIN stream' : i + 1 \in DOMAIN stream /\ stream'[i] = stream[i + 1]
    BY <2>2
  <2>4. /\ \A i \in DOMAIN stream' : Follows(stream, i + 1) => Follows(stream', i)
        /\ Follows(stream, 1) => Follows(stream', 0)
        /\ Follows(stream, 0) /\ ~(packet.type = "event" /\ packet.body = "keyboard")
           => Follows(stream', 0)
    BY <1>2, <2>1, FollowsTail DEF packet
  <2>5. CASE packet.type = "answer"
    <3>1. /\ answers' = answers \cup {packet.body} /\ events' = events
          /\ packet.body \in Answer /\ IsAnswer(packet)
          /\ CookieOf(packet) = {packet.body.cookie}
      BY <2>1, <2>2, <2>5 DEF Packet, IsAnswer, CookieOf
    <3>2. Held(answers') = Held(answers) \cup {packet.body.cookie}
      BY <3>1 DEF Held
    <3>3. packet.body.cookie \notin Held(answers) /\ packet.body.cookie \notin Asked(wire)
      BY <1>1, <2>2, <3>1 DEF OnePlace
    <3>4. HeldOnce(answers')
      <4>1. \A a \in answers : a.cookie # packet.body.cookie
        BY <3>3 DEF Held
      <4> QED
        BY <1>1, <3>1, <4>1 DEF OnePlace, HeldOnce
    <3>5. Pending' = Pending
      BY <2>1, <2>2, <3>1, <3>2, PendingParts
    <3>6. OnePlace'
      BY <1>1, <2>1, <2>2, <3>1, <3>2, <3>3, <3>4, <3>5 DEF OnePlace
    <3>7. TypeOK' /\ StreamOK'
      BY <1>1, <1>2, <2>1, <2>2, <3>1 DEF TypeOK, StreamOK
    <3>8. Lifecycle' /\ OwnsItsMapping' /\ CrashNeedsFault'
      BY <1>1, <2>1 DEF Lifecycle, OwnsItsMapping, CrashNeedsFault
    <3>9. Underway' /\ NoAnswerLost'
      BY <1>1, <2>1, <3>5 DEF Underway, NoAnswerLost, Connected
    <3>10. 1 \in DOMAIN stream
      BY <2>2
    <3>11. ErrorsAreFaults'
      BY <1>1, <2>1, <2>2, <2>3, <3>1, <3>10 DEF ErrorsAreFaults
    <3>12. Follows(stream, 0) => Follows(stream', 0)
      BY <2>4, <2>5
    <3>13. InSync'
      BY <1>1, <2>1, <2>2, <2>3, <2>4, <3>1, <3>10, <3>12 DEF InSync, Connected
    <3> QED
      BY <3>6, <3>7, <3>8, <3>9, <3>11, <3>13 DEF Safe
  <2>6. CASE packet.type = "event"
    <3>1. /\ events' = Append(events, packet.body) /\ answers' = answers
          /\ packet.body \in Event /\ ~IsAnswer(packet) /\ CookieOf(packet) = {}
      BY <2>1, <2>2, <2>6 DEF Packet, IsAnswer, CookieOf
    <3>2. events' \in Seq(Event) /\ (Told(events) \/ packet.body = "keyboard" => Told(events'))
      BY <1>2, <3>1, ToldAppend
    <3>3. Pending' = Pending
      BY <2>1, <2>2, <3>1, PendingParts
    <3>4. OnePlace'
      BY <1>1, <2>1, <2>2, <3>1, <3>3 DEF OnePlace
    <3>5. TypeOK' /\ StreamOK'
      BY <1>1, <1>2, <2>1, <2>2, <3>1, <3>2 DEF TypeOK, StreamOK, Event
    <3>6. Lifecycle' /\ OwnsItsMapping' /\ CrashNeedsFault'
      BY <1>1, <2>1 DEF Lifecycle, OwnsItsMapping, CrashNeedsFault
    <3>7. Underway' /\ NoAnswerLost'
      BY <1>1, <2>1, <3>3 DEF Underway, NoAnswerLost, Connected
    <3>8. ErrorsAreFaults'
      BY <1>1, <2>1, <2>3, <3>1 DEF ErrorsAreFaults
    <3>9. Follows(stream, 0) \/ Told(events) => Follows(stream', 0) \/ Told(events')
      BY <2>4, <3>2
    <3>10. InSync'
      BY <1>1, <2>1, <2>3, <2>4, <3>1, <3>9 DEF InSync, Connected
    <3> QED
      BY <3>4, <3>5, <3>6, <3>7, <3>8, <3>10 DEF Safe
  <2> QED
    BY <2>1, <2>5, <2>6
<1>7. ASSUME Break PROVE Safe'
  <2>1. /\ faults' = faults \cup {"connection"} /\ wire' = <<>> /\ stream' = <<>>
        /\ UNCHANGED <<mapping, others, answers, events>>
        /\ UNCHANGED <<live, tag, cookie, reply, allocs, sent, heap, abandoned, skipped, pc>>
    BY <1>7 DEF Break, client, syms, server
  <2>2. DOMAIN wire' = {} /\ DOMAIN stream' = {}
    BY <2>1
  <2>3. Asked(wire') = {} /\ Answered(stream') = {}
    BY <2>2 DEF Asked, Answered
  <2>4. Pending' \subseteq Pending
    BY <2>1, <2>3, PendingParts
  <2>5. OnePlace'
    BY <1>1, <2>1, <2>2, <2>3, <2>4 DEF OnePlace, AskedOnce, AnsweredOnce
  <2>6. wire' \in Seq(Nat) /\ stream' \in Seq(Packet)
    BY <2>1, EmptySeq
  <2>7. TypeOK' /\ StreamOK'
    BY <1>1, <2>1, <2>6 DEF TypeOK, StreamOK
  <2>8. Lifecycle' /\ OwnsItsMapping' /\ CrashNeedsFault'
    BY <1>1, <2>1 DEF Lifecycle, OwnsItsMapping, CrashNeedsFault
  <2>9. ~Connected'
    BY <2>1 DEF Connected
  <2>10. Underway' /\ InSync'
    BY <2>9 DEF Underway, InSync
  <2>11. NoAnswerLost'
    BY <1>1, <2>1, <2>4 DEF NoAnswerLost
  <2>12. ErrorsAreFaults'
    BY <1>1, <2>1, <2>2 DEF ErrorsAreFaults
  <2> QED
    BY <2>5, <2>7, <2>8, <2>10, <2>11, <2>12 DEF Safe
<1>8. ASSUME Alloc PROVE Safe'
  <2>1. /\ pc = "ready" /\ ~live /\ allocs < MaxAllocs /\ allocs' = allocs + 1
        /\ live' = TRUE /\ tag' = "cookie" /\ skipped' = FALSE /\ Ask
        /\ UNCHANGED <<events, reply, heap, abandoned, pc>>
    BY <1>8 DEF Alloc
  <2>2. /\ sent' = sent + 1 /\ cookie' = sent + 1
        /\ UNCHANGED <<mapping, others, stream, answers, faults>>
        /\ wire' \in Seq(Nat) /\ sent + 1 \notin Pending
        /\ Pending' = Pending \cup (IF Connected THEN {sent + 1} ELSE {})
        /\ OnePlace'
    BY <1>1, <2>1, AskResult
  <2>3. TypeOK' /\ StreamOK'
    <3>1. /\ abandoned' \subseteq 1 .. sent' /\ cookie' \in 0 .. sent' /\ sent' \in Nat
          /\ allocs' \in 0 .. MaxAllocs
      BY <1>1, <1>2, <2>1, <2>2 DEF TypeOK
    <3> QED
      BY <1>1, <2>1, <2>2, <3>1 DEF TypeOK, StreamOK
  <2>4. Lifecycle' /\ OwnsItsMapping' /\ CrashNeedsFault' /\ ErrorsAreFaults'
    BY <1>1, <1>2, <2>1, <2>2, Frames DEF Lifecycle, OwnsItsMapping, CrashNeedsFault
  <2>5. Underway' /\ NoAnswerLost'
    BY <1>1, <2>1, <2>2 DEF Underway, NoAnswerLost, Connected
  <2>6. InSync'
    <3>1. /\ \A i \in DOMAIN stream : IsAnswer(stream[i]) => stream[i].body.cookie # sent + 1
          /\ \A a \in answers : a.cookie # sent + 1
      BY <2>2, PendingParts DEF Answered, Held
    <3> QED
      BY <2>1, <2>2, <3>1 DEF InSync
  <2> QED
    BY <2>2, <2>3, <2>4, <2>5, <2>6 DEF Safe
<1>9. ASSUME Free PROVE Safe'
  <2>1. /\ pc = "ready" /\ live /\ live' = FALSE
        /\ IF tag = "value" THEN heap' = heap \ {reply} /\ UNCHANGED abandoned
           ELSE abandoned' = abandoned \cup {cookie} /\ UNCHANGED heap
        /\ UNCHANGED <<mapping, others, wire, stream, answers, events, faults>>
        /\ UNCHANGED <<tag, cookie, reply, allocs, sent, skipped, pc>>
    BY <1>9 DEF Free, xcb, server
  <2>2. OnePlace' /\ Pending' = Pending /\ ErrorsAreFaults' /\ StreamOK'
    BY <1>1, <2>1, Frames
  <2>3. abandoned' \subseteq 1 .. sent /\ heap' \subseteq Answer
    <3>1. cookie \in 1 .. sent
      BY <1>1, <1>2, <2>1 DEF Lifecycle
    <3> QED
      BY <1>1, <2>1, <3>1 DEF TypeOK
  <2>4. TypeOK'
    BY <1>1, <2>1, <2>3 DEF TypeOK
  <2>5. Lifecycle' /\ CrashNeedsFault' /\ Underway' /\ InSync'
    BY <1>1, <2>1, <2>2 DEF Lifecycle, CrashNeedsFault, Underway, InSync
  <2>6. OwnsItsMapping'
    BY <1>1, <2>1 DEF OwnsItsMapping
  <2>7. NoAnswerLost'
    BY <1>1, <2>1, <2>2 DEF NoAnswerLost, TypeOK
  <2> QED
    BY <2>2, <2>4, <2>5, <2>6, <2>7 DEF Safe
<1>10. ASSUME Lookup PROVE Safe'
  <2>1. /\ pc = "ready" /\ live /\ tag = "cookie" /\ tag' = "value" /\ pc' = "waiting"
        /\ UNCHANGED <<mapping, others, wire, stream, answers, events, faults>>
        /\ UNCHANGED <<live, cookie, reply, allocs, sent, heap, abandoned, skipped>>
    BY <1>10 DEF Lookup, xcb, server
  <2>2. OnePlace' /\ Pending' = Pending /\ ErrorsAreFaults' /\ StreamOK'
    BY <1>1, <2>1, Frames
  <2>3. TypeOK'
    BY <1>1, <2>1 DEF TypeOK
  <2>4. Lifecycle' /\ CrashNeedsFault' /\ OwnsItsMapping'
    BY <1>1, <2>1 DEF Lifecycle, CrashNeedsFault, OwnsItsMapping
  <2>5. Underway' /\ NoAnswerLost'
    BY <1>1, <2>1, <2>2 DEF Underway, NoAnswerLost, Connected
  <2>6. InSync'
    BY <1>1, <2>1 DEF InSync, Connected
  <2> QED
    BY <2>2, <2>3, <2>4, <2>5, <2>6 DEF Safe
<1>11. ASSUME Collect PROVE Safe'
  <2>1. PICK a \in answers : /\ a.cookie = cookie /\ a.mapping # Null
                             /\ answers' = answers \ {a} /\ reply' = a
                             /\ heap' = heap \cup {a}
    BY <1>11 DEF Collect
  <2>2. /\ pc = "waiting" /\ pc' = "ready"
        /\ UNCHANGED <<mapping, others, wire, stream, events, faults>>
        /\ UNCHANGED <<live, tag, cookie, allocs, sent, abandoned, skipped>>
    BY <1>11 DEF Collect, server
  <2>3. live /\ tag = "value" /\ a \in Answer /\ heap = {}
    BY <1>1, <1>2, <2>1, <2>2 DEF Lifecycle, OwnsItsMapping
  <2>4. Held(answers') = Held(answers) \ {cookie} /\ HeldOnce(answers')
    <3>1. \A b \in answers : b.cookie = cookie => b = a
      BY <1>1, <2>1 DEF OnePlace, HeldOnce
    <3>2. \A b \in answers : b # a => b \in answers' /\ b.cookie # cookie
      BY <2>1, <3>1
    <3>3. HeldOnce(answers')
      BY <1>1, <2>1 DEF OnePlace, HeldOnce
    <3>4. \A b \in answers' : b \in answers /\ b.cookie # cookie
      BY <2>1, <3>2
    <3>5. /\ \A x : x \in Held(answers) <=> \E b \in answers : x = b.cookie
          /\ \A x : x \in Held(answers') <=> \E b \in answers' : x = b.cookie
      BY DEF Held
    <3>6. \A x : x \in Held(answers') => x \in Held(answers) /\ x # cookie
      BY <3>4, <3>5
    <3>7. \A x : x \in Held(answers) /\ x # cookie => x \in Held(answers')
      BY <2>1, <3>2, <3>5
    <3> QED
      BY <3>3, <3>6, <3>7
  <2>5. Pending' = Pending \ {cookie}
    <3>1. cookie \in Held(answers)
      BY <2>1 DEF Held
    <3>2. cookie \notin Asked(wire) /\ cookie \notin Answered(stream)
      BY <1>1, <3>1 DEF OnePlace
    <3> QED
      BY <2>2, <2>4, <3>2, PendingParts
  <2>6. OnePlace'
    BY <1>1, <2>2, <2>4, <2>5 DEF OnePlace
  <2>7. TypeOK' /\ StreamOK'
    BY <1>1, <2>1, <2>2, <2>3 DEF TypeOK, StreamOK
  <2>8. Lifecycle' /\ CrashNeedsFault' /\ OwnsItsMapping'
    BY <1>1, <2>1, <2>2, <2>3 DEF Lifecycle, CrashNeedsFault, OwnsItsMapping
  <2>9. Underway' /\ NoAnswerLost'
    BY <1>1, <2>2, <2>3, <2>5 DEF Underway, NoAnswerLost
  <2>10. ErrorsAreFaults'
    BY <1>1, <2>1, <2>2 DEF ErrorsAreFaults
  <2>11. InSync'
    BY <1>1, <2>1, <2>2, <2>3 DEF InSync, Connected
  <2> QED
    BY <2>6, <2>7, <2>8, <2>9, <2>10, <2>11 DEF Safe
<1>12. ASSUME CollectNothing PROVE Safe'
  <2>1. /\ pc = "waiting" /\ pc' = "crashed" /\ reply' = Null
        /\ [cookie |-> cookie, mapping |-> Null] \in answers \/ cookie \notin Pending
        /\ answers' = {a \in answers : a.cookie # cookie}
        /\ UNCHANGED <<mapping, others, wire, stream, events, faults>>
        /\ UNCHANGED <<live, tag, cookie, allocs, sent, heap, abandoned, skipped>>
    BY <1>12 DEF CollectNothing, server
  <2>2. live /\ tag = "value"
    BY <1>1, <2>1 DEF Lifecycle
  <2>3. Held(answers') = Held(answers) \ {cookie} /\ HeldOnce(answers')
    BY <1>1, <2>1 DEF OnePlace, Held, HeldOnce
  <2>4. cookie \notin Asked(wire) /\ cookie \notin Answered(stream)
    <3>1. CASE cookie \notin Pending
      BY <3>1, PendingParts
    <3>2. CASE [cookie |-> cookie, mapping |-> Null] \in answers
      <4>1. cookie \in Held(answers)
        BY <3>2 DEF Held
      <4> QED
        BY <1>1, <4>1 DEF OnePlace
    <3> QED
      BY <2>1, <3>1, <3>2
  <2>5. Pending' = Pending \ {cookie}
    BY <2>1, <2>3, <2>4, PendingParts
  <2>6. OnePlace'
    BY <1>1, <2>1, <2>3, <2>5 DEF OnePlace
  <2>7. TypeOK' /\ StreamOK'
    BY <1>1, <2>1 DEF TypeOK, StreamOK
  <2>8. Lifecycle' /\ OwnsItsMapping' /\ Underway'
    BY <1>1, <2>1, <2>2 DEF Lifecycle, OwnsItsMapping, Underway
  <2>9. NoAnswerLost'
    BY <1>1, <2>1, <2>2, <2>5 DEF NoAnswerLost
  <2>10. ErrorsAreFaults'
    BY <1>1, <2>1 DEF ErrorsAreFaults
  <2>11. faults # {}
    <3>1. CASE cookie \notin Pending
      BY <1>1, <2>1, <3>1 DEF Underway, Connected
    <3>2. CASE [cookie |-> cookie, mapping |-> Null] \in answers
      BY <1>1, <3>2 DEF ErrorsAreFaults
    <3> QED
      BY <2>1, <3>1, <3>2
  <2>12. CrashNeedsFault'
    BY <2>1, <2>11 DEF CrashNeedsFault
  <2>13. InSync'
    BY <1>1, <2>1 DEF InSync, Connected
  <2> QED
    BY <2>6, <2>7, <2>8, <2>9, <2>10, <2>12, <2>13 DEF Safe
<1>13. ASSUME HandleNotify PROVE Safe'
  <2>1. /\ pc = "ready" /\ pc' = "ready" /\ events # <<>> /\ events' = Tail(events)
        /\ UNCHANGED <<live, allocs, abandoned>>
    BY <1>13 DEF HandleNotify
  <2>2. /\ events' \in Seq(Event)
        /\ Told(events) /\ Head(events) # "keyboard" => Told(events')
    BY <1>2, <2>1, ToldTail
  <2>3. CASE Head(events) = "keyboard" /\ live /\ tag = "value"
    <3>1. /\ heap' = heap \ {reply} /\ reply' = Null /\ tag' = "cookie" /\ skipped' = FALSE /\ Ask
      BY <1>13, <2>3 DEF HandleNotify, IsKeyboard, Refresh, RefreshPending
    <3>2. /\ sent' = sent + 1 /\ cookie' = sent + 1
          /\ UNCHANGED <<mapping, others, stream, answers, faults>>
          /\ wire' \in Seq(Nat) /\ sent + 1 \notin Pending
          /\ Pending' = Pending \cup (IF Connected THEN {sent + 1} ELSE {})
          /\ OnePlace'
      BY <1>1, <3>1, AskResult
    <3>3. TypeOK' /\ StreamOK'
      <4>1. abandoned' \subseteq 1 .. sent' /\ cookie' \in 0 .. sent' /\ sent' \in Nat
        BY <1>1, <1>2, <2>1, <3>2 DEF TypeOK
      <4> QED
        BY <1>1, <2>1, <2>2, <3>1, <3>2, <4>1 DEF TypeOK, StreamOK, Event
    <3>4. Lifecycle' /\ OwnsItsMapping' /\ CrashNeedsFault' /\ ErrorsAreFaults'
      BY <1>1, <1>2, <2>1, <2>3, <3>1, <3>2, Frames DEF Lifecycle, OwnsItsMapping, CrashNeedsFault
    <3>5. Underway' /\ NoAnswerLost'
      BY <1>1, <2>1, <2>3, <3>1, <3>2 DEF Underway, NoAnswerLost, Connected
    <3>6. InSync'
      <4>1. /\ \A i \in DOMAIN stream : IsAnswer(stream[i]) => stream[i].body.cookie # sent + 1
            /\ \A a \in answers : a.cookie # sent + 1
        BY <3>2, PendingParts DEF Answered, Held
      <4> QED
        BY <3>1, <3>2, <4>1 DEF InSync
    <3> QED
      BY <3>2, <3>3, <3>4, <3>5, <3>6 DEF Safe
  <2>4. CASE ~(Head(events) = "keyboard" /\ live /\ tag = "value")
    <3>1. /\ UNCHANGED <<mapping, others, wire, stream, answers, faults>>
          /\ UNCHANGED <<tag, cookie, reply, sent, heap>>
          /\ skipped' \in BOOLEAN
          /\ Head(events) = "keyboard" /\ live => skipped'
          /\ skipped => skipped'
      BY <1>1, <1>13, <2>4
      DEF HandleNotify, IsKeyboard, Refresh, RefreshPending, server, TypeOK
    <3>2. OnePlace' /\ Pending' = Pending /\ ErrorsAreFaults' /\ StreamOK'
      BY <1>1, <3>1, Frames
    <3>3. TypeOK'
      BY <1>1, <2>1, <2>2, <3>1 DEF TypeOK, Event
    <3>4. Lifecycle' /\ OwnsItsMapping' /\ CrashNeedsFault'
      BY <1>1, <2>1, <3>1 DEF Lifecycle, OwnsItsMapping, CrashNeedsFault
    <3>5. Underway' /\ NoAnswerLost'
      BY <1>1, <2>1, <3>1, <3>2 DEF Underway, NoAnswerLost, Connected
    <3>6. InSync'
      BY <1>1, <2>1, <2>2, <3>1 DEF InSync, Connected
    <3> QED
      BY <3>2, <3>3, <3>4, <3>5, <3>6 DEF Safe
  <2> QED
    BY <2>3, <2>4
<1>14. ASSUME UNCHANGED vars PROVE Safe'
  <2>1. /\ UNCHANGED <<mapping, others, wire, stream, answers, events, faults>>
        /\ UNCHANGED <<live, tag, cookie, reply, allocs, sent, heap, abandoned, skipped, pc>>
    BY <1>14 DEF vars, server, xcb, syms
  <2>2. OnePlace' /\ Pending' = Pending /\ ErrorsAreFaults' /\ StreamOK'
    BY <1>1, <2>1, Frames
  <2>3. TypeOK' /\ Lifecycle' /\ OwnsItsMapping' /\ CrashNeedsFault'
    BY <1>1, <2>1 DEF TypeOK, Lifecycle, OwnsItsMapping, CrashNeedsFault
  <2>4. Underway' /\ NoAnswerLost' /\ InSync'
    BY <1>1, <2>1, <2>2 DEF Underway, NoAnswerLost, InSync, Connected
  <2> QED
    BY <2>2, <2>3, <2>4 DEF Safe
<1> QED
  BY <1>3, <1>4, <1>5, <1>6, <1>7, <1>8, <1>9, <1>10, <1>11, <1>12, <1>13, <1>14 DEF Next

LEMMA SafeInvariant == Spec => []Safe
  BY SafeInit, SafeStep, PTL DEF Spec

-----------------------------------------------------------------------------
(* Theorems.                                                                *)

\* The types of the variables of the key symbols, of xcb and of the server
\* (keysyms.c:73-108, 290-305, 473-487).
THEOREM TypeCorrect == Spec => []TypeOK
<1>1. Safe => TypeOK
  BY DEF Safe
<1> QED
  BY <1>1, SafeInvariant, PTL

\* The client owns exactly the mapping its key symbols hold: none is leaked,
\* none is freed in use (keysyms.c:103-104, 295-298).
THEOREM OneMappingIsOwned == Spec => []OwnsItsMapping
<1>1. Safe => OwnsItsMapping
  BY DEF Safe
<1> QED
  BY <1>1, SafeInvariant, PTL

\* Every answer is collected, but for those that xcb_key_symbols_free left
\* behind (keysyms.c:98-108, 293-305).
THEOREM AnswersAreCollected == Spec => []NoAnswerLost
<1>1. Safe => NoAnswerLost
  BY DEF Safe
<1> QED
  BY <1>1, SafeInvariant, PTL

\* Every answer has one owner (keysyms.c:98-108, 293-305).
THEOREM AnswersHaveOneOwner == Spec => []AnswersAreOwned
  BY OneMappingIsOwned, AnswersAreCollected, PTL DEF AnswersAreOwned

\* A lookup reads through a null pointer only after an error of the server or
\* the connection: cookie and reply are never confused (keysyms.c:473-487).
THEOREM CrashesNeedFaults == Spec => []CrashNeedsFault
<1>1. Safe => CrashNeedsFault
  BY DEF Safe
<1> QED
  BY <1>1, SafeInvariant, PTL

\* When all events are handled, lookups use the server's mapping, unless a
\* notify was ignored for a pending request (keysyms.c:290-308).
THEOREM MappingIsCurrent == Spec => []CaughtUp
<1>1. Safe => CaughtUp
  <2>1. stream = <<>> => ~Follows(stream, 0)
    BY DEF Follows
  <2>2. events = <<>> => ~Told(events)
    BY DEF Told
  <2> QED
    BY <2>1, <2>2 DEF Safe, InSync, CaughtUp, TypeOK
<1> QED
  BY <1>1, SafeInvariant, PTL
=============================================================================
