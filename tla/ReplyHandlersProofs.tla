------------------------ MODULE ReplyHandlersProofs ------------------------
(***************************************************************************)
(* Proofs about ReplyHandlers, for any number of registrations, replies    *)
(* and starts.                                                             *)
(***************************************************************************)
EXTENDS ReplyHandlers, SequenceTheorems, TLAPS

-----------------------------------------------------------------------------
(* Inserting into a sequence and cutting a piece out of it.                 *)

\* InsertAt, element by element.
LEMMA InsertAtProperties ==
    ASSUME NEW S, NEW s \in Seq(S), NEW n \in S, NEW p \in 1 .. Len(s) + 1
    PROVE  LET t == InsertAt(s, p, n) IN
           /\ t \in Seq(S)
           /\ Len(t) = Len(s) + 1
           /\ \A i \in 1 .. Len(t) :
                 t[i] = IF i < p THEN s[i] ELSE IF i = p THEN n ELSE s[i - 1]
<1> DEFINE front == SubSeq(s, 1, p - 1)
           back  == SubSeq(s, p, Len(s))
<1>1. /\ front \in Seq(S) /\ Len(front) = p - 1
      /\ \A i \in 1 .. p - 1 : front[i] = s[i]
  BY SubSeqProperties
<1>2. /\ back \in Seq(S) /\ Len(back) = Len(s) + 1 - p
      /\ \A i \in 1 .. Len(s) + 1 - p : back[i] = s[p + i - 1]
  BY SubSeqProperties
<1>3. /\ front \o <<n>> \in Seq(S) /\ Len(front \o <<n>>) = p
      /\ \A i \in 1 .. p : (front \o <<n>>)[i] = IF i < p THEN s[i] ELSE n
  BY <1>1, ConcatProperties
<1>4. InsertAt(s, p, n) = (front \o <<n>>) \o back
  BY DEF InsertAt
<1> HIDE DEF front, back
<1> QED
  BY <1>2, <1>3, <1>4, ConcatProperties

\* What is left of s when its elements from p to q are cut out.
LEMMA CutProperties ==
    ASSUME NEW S, NEW s \in Seq(S), NEW p \in 1 .. Len(s), NEW q \in p .. Len(s)
    PROVE  LET t == SubSeq(s, 1, p - 1) \o SubSeq(s, q + 1, Len(s)) IN
           /\ t \in Seq(S)
           /\ Len(t) = Len(s) - (q - p + 1)
           /\ \A i \in 1 .. Len(t) : t[i] = IF i < p THEN s[i] ELSE s[i + (q - p + 1)]
<1> DEFINE front == SubSeq(s, 1, p - 1)
           back  == SubSeq(s, q + 1, Len(s))
<1>1. /\ front \in Seq(S) /\ Len(front) = p - 1
      /\ \A i \in 1 .. p - 1 : front[i] = s[i]
  BY SubSeqProperties
<1>2. /\ back \in Seq(S) /\ Len(back) = Len(s) - q
      /\ \A i \in 1 .. Len(s) - q : back[i] = s[q + i]
  BY SubSeqProperties
<1> HIDE DEF front, back
<1>3. /\ front \o back \in Seq(S)
      /\ Len(front \o back) = Len(front) + Len(back)
      /\ \A i \in 1 .. Len(front) + Len(back) :
            (front \o back)[i] = IF i <= Len(front) THEN front[i] ELSE back[i - Len(front)]
  BY <1>1, <1>2, ConcatProperties
<1>4. Len(s) \in Nat
  BY LenProperties
<1>5. Len(front \o back) = Len(s) - (q - p + 1)
  BY <1>1, <1>2, <1>3, <1>4
<1>6. ASSUME NEW i \in 1 .. Len(front \o back)
      PROVE  (front \o back)[i] = IF i < p THEN s[i] ELSE s[i + (q - p + 1)]
  <2>1. CASE i < p
    BY <2>1, <1>1, <1>2, <1>3, <1>4
  <2>2. CASE i >= p
    <3>1. i - (p - 1) \in 1 .. Len(s) - q /\ q + (i - (p - 1)) = i + (q - p + 1)
      BY <2>2, <1>4, <1>5
    <3>2. back[i - (p - 1)] = s[i + (q - p + 1)]
      BY <3>1, <1>2
    <3> QED
      BY <2>2, <3>2, <1>1, <1>2, <1>3, <1>4
  <2> QED
    BY <2>1, <2>2, <1>4
<1> QED
  BY <1>3, <1>5, <1>6 DEF front, back

\* The elements of a sequence after an insertion.
LEMMA InsertAtRange ==
    ASSUME NEW S, NEW s \in Seq(S), NEW n \in S, NEW p \in 1 .. Len(s) + 1
    PROVE  LET t == InsertAt(s, p, n) IN
           /\ Range(t) = Range(s) \cup {n}
           /\ IsInjective(s) /\ n \notin Range(s) => IsInjective(t)
<1> DEFINE t == InsertAt(s, p, n)
<1>1. /\ t \in Seq(S) /\ Len(t) = Len(s) + 1 /\ Len(s) \in Nat
      /\ \A i \in 1 .. Len(t) :
            t[i] = IF i < p THEN s[i] ELSE IF i = p THEN n ELSE s[i - 1]
  BY InsertAtProperties, LenProperties
<1>2. DOMAIN t = 1 .. Len(s) + 1 /\ DOMAIN s = 1 .. Len(s)
  BY <1>1, LenProperties
<1> HIDE DEF t
<1>3. Range(t) = Range(s) \cup {n}
  <2>1. ASSUME NEW i \in DOMAIN t PROVE t[i] \in Range(s) \cup {n}
    BY <1>1, <1>2 DEF Range
  <2>2. ASSUME NEW i \in DOMAIN s PROVE s[i] \in Range(t)
    <3>1. CASE i < p
      BY <3>1, <1>1, <1>2 DEF Range
    <3>2. CASE i >= p
      <4>1. i + 1 \in DOMAIN t /\ t[i + 1] = s[i]
        BY <3>2, <1>1, <1>2
      <4> QED
        BY <4>1 DEF Range
    <3> QED
      BY <3>1, <3>2, <1>1, <1>2
  <2>3. n \in Range(t)
    <3>1. p \in DOMAIN t /\ t[p] = n
      BY <1>1, <1>2
    <3> QED
      BY <3>1 DEF Range
  <2> QED
    BY <2>1, <2>2, <2>3 DEF Range
<1>4. ASSUME IsInjective(s), n \notin Range(s)
      PROVE  IsInjective(t)
  <2>1. \A i \in 1 .. Len(s) : s[i] # n
    BY <1>2, <1>4 DEF Range
  <2>2. \A i, j \in 1 .. Len(s) : s[i] = s[j] => i = j
    BY <1>2, <1>4 DEF IsInjective
  <2>3. ASSUME NEW i \in 1 .. Len(s) + 1, NEW j \in 1 .. Len(s) + 1, t[i] = t[j]
        PROVE  i = j
    <3> DEFINE at(x) == IF x < p THEN x ELSE x - 1
    <3>1. \A x \in 1 .. Len(s) + 1 :
             x # p => at(x) \in 1 .. Len(s) /\ t[x] = s[at(x)] /\ t[x] # n
      BY <1>1, <2>1
    <3>2. t[p] = n
      BY <1>1
    <3>3. CASE i = p \/ j = p
      BY <2>3, <3>1, <3>2, <3>3
    <3>4. CASE i # p /\ j # p
      <4>1. at(i) = at(j)
        BY <2>2, <2>3, <3>1, <3>4
      <4> QED
        BY <3>4, <4>1, <1>1
    <3> QED
      BY <3>3, <3>4
  <2> QED
    BY <2>3, <1>2 DEF IsInjective
<1> QED
  BY <1>3, <1>4 DEF t

\* The elements of a sequence after a cut.
LEMMA CutRange ==
    ASSUME NEW S, NEW s \in Seq(S), NEW p \in 1 .. Len(s), NEW q \in p .. Len(s),
           IsInjective(s)
    PROVE  LET t == SubSeq(s, 1, p - 1) \o SubSeq(s, q + 1, Len(s)) IN
           /\ Range(t) \subseteq Range(s) \ {s[q]}
           /\ IsInjective(t)
           /\ p = q => Range(t) = Range(s) \ {s[q]}
<1> DEFINE t == SubSeq(s, 1, p - 1) \o SubSeq(s, q + 1, Len(s))
           k == q - p + 1
<1>1. /\ t \in Seq(S) /\ Len(t) = Len(s) - k
      /\ \A i \in 1 .. Len(t) : t[i] = IF i < p THEN s[i] ELSE s[i + k]
  BY CutProperties
<1>2. DOMAIN t = 1 .. Len(s) - k /\ DOMAIN s = 1 .. Len(s) /\ Len(s) \in Nat
  BY <1>1, LenProperties
<1>3. k \in Nat /\ q = p + k - 1 /\ k >= 1
  BY <1>2
<1>4. \A i, j \in 1 .. Len(s) : s[i] = s[j] => i = j
  BY <1>2 DEF IsInjective
<1> HIDE DEF t, k
<1>5. ASSUME NEW i \in DOMAIN t PROVE t[i] \in Range(s) \ {s[q]}
  <2>1. CASE i < p
    BY <2>1, <1>1, <1>2, <1>3, <1>4 DEF Range
  <2>2. CASE i >= p
    <3>1. i + k \in 1 .. Len(s) /\ i + k # q /\ t[i] = s[i + k]
      BY <2>2, <1>1, <1>2, <1>3
    <3> QED
      BY <3>1, <1>2, <1>4 DEF Range
  <2> QED
    BY <2>1, <2>2, <1>2
<1>6. IsInjective(t)
  <2>1. ASSUME NEW i \in 1 .. Len(t), NEW j \in 1 .. Len(t), t[i] = t[j]
        PROVE  i = j
    <3> DEFINE at(x) == IF x < p THEN x ELSE x + k
    <3>1. at(i) \in 1 .. Len(s) /\ at(j) \in 1 .. Len(s)
      BY <1>1, <1>2, <1>3
    <3>2. s[at(i)] = s[at(j)]
      BY <2>1, <1>1
    <3>3. at(i) = at(j)
      BY <3>1, <3>2, <1>4
    <3> QED
      BY <3>3, <1>2, <1>3
  <2> QED
    BY <2>1, <1>1, <1>2 DEF IsInjective
<1>7. ASSUME p = q PROVE Range(s) \ {s[q]} \subseteq Range(t)
  <2>1. k = 1
    BY <1>3, <1>7
  <2>2. ASSUME NEW i \in 1 .. Len(s), i # q PROVE s[i] \in Range(t)
    <3>1. CASE i < p
      <4>1. i \in DOMAIN t /\ t[i] = s[i]
        BY <3>1, <1>1, <1>2, <2>1
      <4> QED
        BY <4>1 DEF Range
    <3>2. CASE i > p
      <4>1. i - 1 \in DOMAIN t /\ t[i - 1] = s[i]
        BY <3>2, <1>1, <1>2, <2>1
      <4> QED
        BY <4>1 DEF Range
    <3> QED
      BY <3>1, <3>2, <2>2, <1>2, <1>7
  <2> QED
    BY <2>2, <1>2 DEF Range
<1>8. Range(t) \subseteq Range(s) \ {s[q]}
  BY <1>5 DEF Range
<1> QED
  BY <1>6, <1>7, <1>8 DEF t

-----------------------------------------------------------------------------
(* The two list operations. *)

\* insert_handler returns the list with n added, in order, and not empty.
LEMMA InsertHandlerResult ==
    ASSUME list \in Seq(Node), NEW n \in Node, InsertHandler(n)
    PROVE  /\ list' \in Seq(Node)
           /\ list' # <<>>
           /\ Range(list') = Range(list) \cup {n}
           /\ IsInjective(list) /\ n \notin Range(list) => IsInjective(list')
           /\ Sorted => Sorted'
<1>1. PICK p \in 1 .. Len(list) + 1 :
         WalkEnds(list, RequestNumber[n], p) /\ list' = InsertAt(list, p, n)
  BY DEF InsertHandler
<1>2. /\ list' \in Seq(Node) /\ Len(list') = Len(list) + 1 /\ Len(list) \in Nat
      /\ \A i \in 1 .. Len(list') :
            list'[i] = IF i < p THEN list[i] ELSE IF i = p THEN n ELSE list[i - 1]
  BY <1>1, InsertAtProperties, LenProperties
<1>3. /\ Range(list') = Range(list) \cup {n}
      /\ IsInjective(list) /\ n \notin Range(list) => IsInjective(list')
  BY <1>1, InsertAtRange
<1>4. list' # <<>>
  BY <1>2
<1>5. ASSUME Sorted PROVE Sorted'
  <2> DEFINE number(i) == RequestNumber[list[i]]
  <2>1. \A i \in 1 .. Len(list) : number(i) \in Nat
    BY RequestAssumption, ElementOfSeq
  <2>2. RequestNumber[n] \in Nat
    BY RequestAssumption
  <2>3. \A i, j \in 1 .. Len(list) : i < j => number(i) <= number(j)
    BY <1>5 DEF Sorted
  <2>4. \A i \in 1 .. p - 1 : number(i) < RequestNumber[n]
    BY <1>1 DEF WalkEnds
  <2>5. \A i \in p .. Len(list) : number(i) >= RequestNumber[n]
    <3>1. p <= Len(list) => number(p) >= RequestNumber[n]
      BY <1>1 DEF WalkEnds
    <3> HIDE DEF number
    <3> QED
      BY <3>1, <2>1, <2>2, <2>3, <1>2
  <2>6. \A i \in 1 .. Len(list') :
           RequestNumber[list'[i]] =
              IF i < p THEN number(i) ELSE IF i = p THEN RequestNumber[n] ELSE number(i - 1)
    BY <1>2
  <2> HIDE DEF number
  <2>7. ASSUME NEW i \in 1 .. Len(list'), NEW j \in 1 .. Len(list'), i < j
        PROVE  RequestNumber[list'[i]] <= RequestNumber[list'[j]]
    <3>1. CASE j < p
      BY <3>1, <2>3, <2>6, <2>7, <1>2
    <3>2. CASE j = p
      BY <3>2, <2>1, <2>2, <2>4, <2>6, <2>7, <1>2
    <3>3. CASE j > p /\ i < p
      BY <3>3, <2>1, <2>2, <2>4, <2>5, <2>6, <2>7, <1>2
    <3>4. CASE j > p /\ i = p
      BY <3>4, <2>1, <2>2, <2>5, <2>6, <2>7, <1>2
    <3>5. CASE i > p
      <4>1. /\ i - 1 \in 1 .. Len(list) /\ j - 1 \in 1 .. Len(list)
            /\ i - 1 < j - 1 /\ ~(i < p) /\ ~(j < p) /\ i # p /\ j # p
        BY <3>5, <2>7, <1>2
      <4>2. number(i - 1) <= number(j - 1)
        BY <4>1, <2>3
      <4> QED
        BY <4>1, <4>2, <2>6
    <3> QED
      BY <3>1, <3>2, <3>3, <3>4, <3>5, <1>2
  <2> QED
    BY <2>7 DEF Sorted
<1> QED
  BY <1>2, <1>3, <1>4, <1>5

\* remove_handler on a listed node: it is unlinked and freed, the order stays,
\* and nothing else is unlinked when every handler has a request of its own.
LEMMA RemoveHandlerResult ==
    ASSUME list \in Seq(Node), IsInjective(list), Sorted,
           NEW n \in Node, n \in Range(list), RemoveHandler(n)
    PROVE  /\ list' \in Seq(Node)
           /\ IsInjective(list')
           /\ Sorted'
           /\ Range(list') \subseteq Range(list) \ {n}
           /\ IsInjective(RequestNumber) => Range(list') = Range(list) \ {n}
           /\ freed' = freed \cup {n}
<1> DEFINE number(i) == RequestNumber[list[i]]
<1>1. Len(list) \in Nat /\ DOMAIN list = 1 .. Len(list)
  BY LenProperties
<1>2. PICK m \in 1 .. Len(list) : list[m] = n
  BY <1>1 DEF Range
<1>3. \A i \in 1 .. Len(list) : list[i] = n => i = m
  BY <1>1, <1>2 DEF IsInjective
<1>4. \A i \in 1 .. Len(list) : number(i) \in Nat
  BY RequestAssumption, ElementOfSeq
<1>5. \A i, j \in 1 .. Len(list) : i < j => number(i) <= number(j)
  BY DEF Sorted
<1>6. number(m) = RequestNumber[n]
  BY <1>2
<1>7. PICK p \in 1 .. Len(list) + 1 :
         /\ WalkEnds(list, RequestNumber[n], p)
         /\ \/ /\ p <= Len(list)
               /\ number(p) = RequestNumber[n]
               /\ \E q \in 1 .. Len(list) :
                     /\ list[q] = n
                     /\ list' = SubSeq(list, 1, p - 1) \o SubSeq(list, q + 1, Len(list))
               /\ freed' = freed \cup {n}
            \/ p <= Len(list) => number(p) # RequestNumber[n]
  BY DEF RemoveHandler
<1>8. /\ \A i \in 1 .. p - 1 : number(i) < RequestNumber[n]
      /\ p <= Len(list) => number(p) >= RequestNumber[n]
  BY <1>7 DEF WalkEnds
<1> HIDE DEF number
<1>9. p <= m
  BY <1>1, <1>4, <1>6, <1>8
<1>10. p \in 1 .. Len(list) /\ number(p) = RequestNumber[n] /\ m \in p .. Len(list)
  <2>1. p \in 1 .. Len(list) /\ m \in p .. Len(list)
    BY <1>1, <1>9
  <2>2. number(p) <= number(m)
    BY <2>1, <1>4, <1>5, <1>9
  <2> QED
    BY <2>1, <2>2, <1>4, <1>6, <1>8
<1>11. /\ list' = SubSeq(list, 1, p - 1) \o SubSeq(list, m + 1, Len(list))
       /\ freed' = freed \cup {n}
  <2>. p <= Len(list) /\ number(p) = RequestNumber[n]
    BY <1>10
  <2>1. freed' = freed \cup {n}
    BY <1>7, Zenon
  <2>2. PICK q \in 1 .. Len(list) :
           /\ list[q] = n
           /\ list' = SubSeq(list, 1, p - 1) \o SubSeq(list, q + 1, Len(list))
    BY <1>7, Zenon
  <2>3. q = m
    BY <2>2, <1>3
  <2> QED
    BY <2>1, <2>2, <2>3
<1>12. /\ list' \in Seq(Node)
       /\ Len(list') = Len(list) - (m - p + 1)
       /\ \A i \in 1 .. Len(list') :
             list'[i] = IF i < p THEN list[i] ELSE list[i + (m - p + 1)]
  BY <1>10, <1>11, CutProperties
<1>13. /\ Range(list') \subseteq Range(list) \ {n}
       /\ IsInjective(list')
       /\ p = m => Range(list') = Range(list) \ {n}
  BY <1>2, <1>10, <1>11, CutRange
<1>14. ASSUME IsInjective(RequestNumber) PROVE p = m
  <2>1. list[p] \in Node /\ RequestNumber[list[p]] = RequestNumber[n]
    BY <1>10, ElementOfSeq DEF number
  <2>2. list[p] = n
    BY <2>1, <1>14, RequestAssumption DEF IsInjective
  <2> QED
    BY <2>2, <1>3, <1>10
<1>15. Sorted'
  <2> DEFINE k  == m - p + 1
             at(i) == IF i < p THEN i ELSE i + k
  <2>1. \A i \in 1 .. Len(list') :
           at(i) \in 1 .. Len(list) /\ RequestNumber[list'[i]] = number(at(i))
    BY <1>1, <1>10, <1>12 DEF number
  <2>2. \A i, j \in 1 .. Len(list') : i < j => at(i) < at(j)
    BY <1>1, <1>10, <1>12
  <2> HIDE DEF at
  <2>3. \A i, j \in 1 .. Len(list') :
           i < j => RequestNumber[list'[i]] <= RequestNumber[list'[j]]
    BY <2>1, <2>2, <1>5
  <2> QED
    BY <2>3 DEF Sorted
<1> QED
  BY <1>11, <1>12, <1>13, <1>14, <1>15

-----------------------------------------------------------------------------
(* The inductive invariant.  NoUseAfterFree alone is not inductive: that a    *)
(* removal unlinks the node it frees needs the list to be in order and        *)
(* without repetition, that it leaves cur alone needs the mutex, and that an  *)
(* insertion adds no freed node needs the progress of the calls.              *)

Linked == {"broadcasting", "unlocking", "returned"}

ListInv ==
    /\ IsInjective(list)
    /\ \A n \in Listed \cup freed : call[n] \in Linked

CurInv == pc \in {"handler", "relock", "loop"} => cur # Null

Safe == TypeOK /\ LockDiscipline /\ Sorted /\ ListInv /\ CurInv /\ NoUseAfterFree

LEMMA SafeInit == Init => Safe
<1> SUFFICES ASSUME Init PROVE Safe
  OBVIOUS
<1>1. TypeOK
  <2>1. list \in Seq(Node)
    BY EmptySeq DEF Init
  <2>2. /\ answers \in [Requests -> Seq({"reply", "error"})]
        /\ taken \in [Requests -> Nat]
        /\ \A r \in Requests : taken[r] <= Len(answers[r])
    BY EmptySeq DEF Init
  <2>3. call \in [Node -> CallStates] /\ pc \in ThreadStates
    BY DEF Init, CallStates, ThreadStates
  <2>4. closed \in [Requests -> BOOLEAN] /\ cancel \in BOOLEAN /\ broken \in BOOLEAN
    BY DEF Init
  <2>5. starts \in 0 .. MaxStarts
    BY BoundAssumption DEF Init
  <2> QED
    BY <2>1, <2>2, <2>3, <2>4, <2>5 DEF Init, TypeOK
<1>2. LockDiscipline
  BY NodeAssumption DEF Init, LockDiscipline, CallHolds, ThreadHolds
<1>3. Range(list) = {}
  BY DEF Init, Range
<1>4. Sorted /\ ListInv
  BY <1>3 DEF Init, Sorted, ListInv, Listed, IsInjective
<1>5. CurInv /\ NoUseAfterFree
  BY <1>3 DEF Init, CurInv, NoUseAfterFree, Listed
<1> QED
  BY <1>1, <1>2, <1>4, <1>5 DEF Safe

\* Every step but an insertion and a removal leaves the list as it is.
LEMMA SafeStep == Safe /\ [Next]_vars => Safe'
<1> SUFFICES ASSUME Safe, [Next]_vars PROVE Safe'
  OBVIOUS
<1> USE NodeAssumption, RequestAssumption, BoundAssumption
<1> USE DEF Safe, TypeOK, LockDiscipline, ListInv, CurInv, NoUseAfterFree, Listed, Linked,
        CallHolds, ThreadHolds, CallStates, ThreadStates, client, thread, control, server
<1>0. list' = list => Sorted'
  BY DEF Sorted
<1>1. ASSUME NEW n \in Node, AddHandler(n) PROVE Safe'
  BY <1>0, <1>1 DEF AddHandler
<1>2. ASSUME NEW n \in Node, AddFromHandler(n) PROVE Safe'
  BY <1>0, <1>2 DEF AddFromHandler
<1>3. ASSUME NEW n \in Node, CallLock(n) PROVE Safe'
  BY <1>0, <1>3 DEF CallLock
<1>4. ASSUME NEW n \in Node, CallBroadcast(n) PROVE Safe'
  BY <1>0, <1>4 DEF CallBroadcast
<1>5. ASSUME NEW n \in Node, CallUnlock(n) PROVE Safe'
  BY <1>0, <1>5 DEF CallUnlock
<1>6. ASSUME StartThread PROVE Safe'
  BY <1>0, <1>6 DEF StartThread
<1>7. ASSUME CancelThread PROVE Safe'
  BY <1>0, <1>7 DEF CancelThread
<1>8. ASSUME JoinThread PROVE Safe'
  BY <1>0, <1>8 DEF JoinThread
<1>9. ASSUME ThreadLock PROVE Safe'
  BY <1>0, <1>9 DEF ThreadLock, TakesLock
<1>10. ASSUME PickHead PROVE Safe'
  <2>1. CASE list = <<>>
    BY <1>0, <1>10, <2>1 DEF PickHead
  <2>2. CASE list # <<>>
    <3>1. Head(list) \in Node /\ Head(list) \in Listed
      BY <2>2, HeadTailProperties, LenProperties DEF Range
    <3> QED
      BY <1>0, <1>10, <2>2, <3>1 DEF PickHead
  <2> QED
    BY <2>1, <2>2
<1>11. ASSUME WaitAnswered PROVE Safe'
  <2>1. cur \in Node /\ curRequest \in Requests
    BY <1>11 DEF WaitAnswered, curRequest, Requests
  <2>2. taken[curRequest] + 1 \in 1 .. Len(answers[curRequest])
    BY <1>11, <2>1, LenProperties DEF WaitAnswered, Available
  <2>3. answers[curRequest][taken[curRequest] + 1] \in {"reply", "error"}
    BY <2>1, <2>2, ElementOfSeq
  <2>4. TypeOK'
    BY <1>11, <2>1, <2>2, <2>3 DEF WaitAnswered
  <2> QED
    BY <1>0, <1>11, <2>4 DEF WaitAnswered
<1>12. ASSUME WaitEmpty PROVE Safe'
  BY <1>0, <1>12 DEF WaitEmpty
<1>13. ASSUME HandlerReturns PROVE Safe'
  BY <1>0, <1>13 DEF HandlerReturns
<1>14. ASSUME ThreadRelock PROVE Safe'
  BY <1>0, <1>14 DEF ThreadRelock, TakesLock
<1>15. ASSUME Cancelled PROVE Safe'
  BY <1>0, <1>15 DEF Cancelled
<1>16. ASSUME UnwindLock PROVE Safe'
  BY <1>0, <1>16 DEF UnwindLock, TakesLock
<1>17. ASSUME UnwindUnlock PROVE Safe'
  BY <1>0, <1>17 DEF UnwindUnlock
<1>18. ASSUME ReadThroughNull PROVE Safe'
  BY <1>0, <1>18 DEF ReadThroughNull
<1>19. ASSUME SpuriousWakeup PROVE Safe'
  BY <1>0, <1>19 DEF SpuriousWakeup
<1>20. ASSUME NEW r \in Requests, SendReply(r) PROVE Safe'
  BY <1>0, <1>20 DEF SendReply
<1>21. ASSUME NEW r \in Requests, SendError(r) PROVE Safe'
  BY <1>0, <1>21 DEF SendError
<1>22. ASSUME NEW r \in Requests, CompleteRequest(r) PROVE Safe'
  BY <1>0, <1>22 DEF CompleteRequest
<1>23. ASSUME BreakConnection PROVE Safe'
  BY <1>0, <1>23 DEF BreakConnection
<1>24. ASSUME Finished PROVE Safe'
  BY <1>0, <1>24 DEF Finished, vars
<1>25. ASSUME NEW n \in Node, CallInsert(n) PROVE Safe'
  <2>1. n \notin Listed /\ n \notin freed
    BY <1>25 DEF CallInsert
  <2>2. /\ list' \in Seq(Node)
        /\ Range(list') = Range(list) \cup {n}
        /\ IsInjective(list')
        /\ Sorted'
    BY <1>25, <2>1, InsertHandlerResult DEF CallInsert
  <2> QED
    BY <1>25, <2>1, <2>2 DEF CallInsert
<1>26. ASSUME LoopEnd PROVE Safe'
  <2>1. cur \in Node /\ cur \in Listed
    BY <1>26 DEF LoopEnd, EndsRound
  <2>2. CASE got = "reply"
    BY <1>0, <1>26, <2>2 DEF LoopEnd, EndsRound
  <2>3. CASE got # "reply"
    <3>1. /\ list' \in Seq(Node)
          /\ Range(list') \subseteq Range(list) \ {cur}
          /\ IsInjective(list')
          /\ Sorted'
          /\ freed' = freed \cup {cur}
      BY <1>26, <2>1, <2>3, RemoveHandlerResult DEF LoopEnd, EndsRound
    <3> QED
      BY <1>26, <2>1, <2>3, <3>1 DEF LoopEnd, EndsRound
  <2> QED
    BY <2>2, <2>3
<1>27. ASSUME UNCHANGED vars PROVE Safe'
  <2>1. /\ UNCHANGED <<lock, list, freed, call, nested, pc, cur, got, cancel, starts>>
        /\ UNCHANGED <<answers, taken, closed, broken>>
    BY <1>27 DEF vars
  <2> QED
    BY <1>0, <2>1
<1> HIDE DEF Safe
<1> QED
  BY <1>1, <1>2, <1>3, <1>4, <1>5, <1>6, <1>7, <1>8, <1>9, <1>10, <1>11, <1>12, <1>13, <1>14,
     <1>15, <1>16, <1>17, <1>18, <1>19, <1>20, <1>21, <1>22, <1>23, <1>24, <1>25, <1>26, <1>27
  DEF Next, CallStep, ThreadStep

LEMMA SafeInvariant == Spec => []Safe
  BY SafeInit, SafeStep, PTL DEF Spec

\* Every variable keeps its type.
THEOREM TypeCorrect == Spec => []TypeOK
  BY SafeInvariant, PTL DEF Safe

\* The mutex is held exactly in the critical sections.
THEOREM MutualExclusion == Spec => []LockDiscipline
  BY SafeInvariant, PTL DEF Safe

\* The thread never uses a node that is unlinked or freed.
THEOREM ThreadUsesListedNodes == Spec => []NoUseAfterFree
  BY SafeInvariant, PTL DEF Safe

\* The list stays in the order of the request numbers.
THEOREM ListStaysSorted == Spec => []Sorted
  BY SafeInvariant, PTL DEF Safe

-----------------------------------------------------------------------------
(* The thread sleeps only while it has nothing to do.                        *)

LEMMA NoMissedWakeupStep == Safe /\ NoMissedWakeup /\ [Next]_vars => NoMissedWakeup'
<1> SUFFICES ASSUME Safe, NoMissedWakeup, [Next]_vars PROVE NoMissedWakeup'
  OBVIOUS
<1> USE DEF NoMissedWakeup, client, thread, control, server
<1>0. call \in [Node -> CallStates]
  BY DEF Safe, TypeOK
<1>1. ASSUME NEW n \in Node, AddHandler(n) \/ AddFromHandler(n) \/ CallLock(n) PROVE NoMissedWakeup'
  BY <1>0, <1>1 DEF AddHandler, AddFromHandler, CallLock
<1>2. ASSUME NEW n \in Node, CallInsert(n) PROVE NoMissedWakeup'
  BY <1>0, <1>2 DEF CallInsert
<1>3. ASSUME NEW n \in Node, CallBroadcast(n) PROVE NoMissedWakeup'
  BY <1>0, <1>3 DEF CallBroadcast
<1>4. ASSUME NEW n \in Node, CallUnlock(n) PROVE NoMissedWakeup'
  BY <1>0, <1>4 DEF CallUnlock
<1>5. CASE LoopEnd
  BY <1>5 DEF LoopEnd, EndsRound
<1>6. CASE StartThread \/ CancelThread \/ JoinThread \/ ReadThroughNull \/ SpuriousWakeup
  BY <1>6 DEF StartThread, CancelThread, JoinThread, ReadThroughNull, SpuriousWakeup
<1>7. CASE ThreadLock \/ PickHead \/ WaitAnswered \/ WaitEmpty \/ HandlerReturns \/ ThreadRelock
  BY <1>7 DEF ThreadLock, PickHead, WaitAnswered, WaitEmpty, HandlerReturns, ThreadRelock,
              TakesLock
<1>8. CASE Cancelled \/ UnwindLock \/ UnwindUnlock
  BY <1>8 DEF Cancelled, UnwindLock, UnwindUnlock, TakesLock
<1>9. ASSUME NEW r \in Requests, SendReply(r) \/ SendError(r) \/ CompleteRequest(r)
      PROVE  NoMissedWakeup'
  BY <1>9 DEF SendReply, SendError, CompleteRequest
<1>10. CASE BreakConnection \/ Finished \/ UNCHANGED vars
  BY <1>10 DEF BreakConnection, Finished, vars
<1> HIDE DEF NoMissedWakeup
<1> QED
  BY <1>1, <1>2, <1>3, <1>4, <1>5, <1>6, <1>7, <1>8, <1>9, <1>10 DEF Next, CallStep, ThreadStep

\* No registration is overlooked by a thread asleep on the condition variable.
THEOREM NoWakeupIsMissed == Spec => []NoMissedWakeup
<1>1. Init => NoMissedWakeup
  BY DEF Init, NoMissedWakeup
<1> QED
  BY <1>1, SafeInvariant, NoMissedWakeupStep, PTL DEF Spec

-----------------------------------------------------------------------------
(* The thread runs until it is stopped, if it is started with a handler      *)
(* registered and pthread_cond_wait returns only when it is woken.           *)

RunsInv ==
    /\ RunsUntilStopped
    /\ pc \in {"lock", "pick"} => list # <<>>
    /\ pc = "wait" => cur # Null
    /\ \A n \in Node : call[n] = "broadcasting" => list # <<>>

LEMMA RunsStep ==
    ASSUME ~StartsEmpty, ~SpuriousWakeups
    PROVE  Safe /\ RunsInv /\ [Next]_vars => RunsInv'
<1> SUFFICES ASSUME Safe, RunsInv, [Next]_vars PROVE RunsInv'
  OBVIOUS
<1> USE DEF RunsInv, RunsUntilStopped, client, thread, control, server
<1>0. /\ call \in [Node -> CallStates] /\ list \in Seq(Node)
      /\ lock = Thread <=> pc \in ThreadHolds
      /\ \A n \in Node : lock = n <=> call[n] \in CallHolds
  BY DEF Safe, TypeOK, LockDiscipline
<1>1. ASSUME NEW n \in Node, AddHandler(n) \/ AddFromHandler(n) \/ CallLock(n) PROVE RunsInv'
  BY <1>0, <1>1 DEF AddHandler, AddFromHandler, CallLock
<1>2. ASSUME NEW n \in Node, CallInsert(n) PROVE RunsInv'
  <2>1. list' # <<>>
    BY <1>0, <1>2, InsertHandlerResult DEF CallInsert
  <2> QED
    BY <1>0, <1>2, <2>1 DEF CallInsert
<1>3. ASSUME NEW n \in Node, CallBroadcast(n) PROVE RunsInv'
  BY <1>0, <1>3 DEF CallBroadcast
<1>4. ASSUME NEW n \in Node, CallUnlock(n) PROVE RunsInv'
  BY <1>0, <1>4 DEF CallUnlock
<1>5. CASE LoopEnd
  <2>1. \A n \in Node : call[n] # "broadcasting"
    BY <1>0, <1>5, NodeAssumption DEF LoopEnd, ThreadHolds, CallHolds, EndsRound
  <2> QED
    BY <1>5, <2>1 DEF LoopEnd, EndsRound
<1>6. CASE StartThread \/ CancelThread \/ JoinThread \/ ReadThroughNull \/ SpuriousWakeup
  BY <1>6 DEF StartThread, CancelThread, JoinThread, ReadThroughNull, SpuriousWakeup
<1>7. CASE PickHead
  <2>1. Head(list) \in Node
    BY <1>0, <1>7, HeadTailProperties DEF PickHead
  <2> QED
    BY <1>7, <2>1, NodeAssumption DEF PickHead
<1>8. CASE ThreadLock \/ WaitAnswered \/ WaitEmpty \/ HandlerReturns \/ ThreadRelock
  BY <1>8 DEF ThreadLock, WaitAnswered, WaitEmpty, HandlerReturns, ThreadRelock, TakesLock
<1>9. CASE Cancelled \/ UnwindLock \/ UnwindUnlock
  BY <1>9 DEF Cancelled, UnwindLock, UnwindUnlock, TakesLock
<1>10. ASSUME NEW r \in Requests, SendReply(r) \/ SendError(r) \/ CompleteRequest(r)
       PROVE  RunsInv'
  BY <1>10 DEF SendReply, SendError, CompleteRequest
<1>11. CASE BreakConnection \/ Finished \/ UNCHANGED vars
  BY <1>11 DEF BreakConnection, Finished, vars
<1> HIDE DEF RunsInv
<1> QED
  BY <1>1, <1>2, <1>3, <1>4, <1>5, <1>6, <1>7, <1>8, <1>9, <1>10, <1>11
  DEF Next, CallStep, ThreadStep

\* The promise of xcb_reply.h:93-95, for a disciplined client and without
\* spurious wakeups; ReplyStartEmpty and ReplySpurious show what each costs.
THEOREM ThreadRunsUntilStopped ==
    ASSUME ~StartsEmpty, ~SpuriousWakeups
    PROVE  Spec => []RunsUntilStopped
<1>1. Init => RunsInv
  BY DEF Init, RunsInv, RunsUntilStopped
<1>2. RunsInv => RunsUntilStopped
  BY DEF RunsInv
<1>3. Safe /\ RunsInv /\ [Next]_vars => RunsInv'
  BY RunsStep
<1> QED
  BY <1>1, <1>2, <1>3, SafeInvariant, PTL DEF Spec

-----------------------------------------------------------------------------
(* Registrations are kept, if every handler has a request of its own.        *)

LEMMA NoLostRegistrationStep ==
    ASSUME IsInjective(RequestNumber)
    PROVE  Safe /\ NoLostRegistration /\ [Next]_vars => NoLostRegistration'
<1> SUFFICES ASSUME Safe, NoLostRegistration, [Next]_vars PROVE NoLostRegistration'
  OBVIOUS
<1> USE DEF NoLostRegistration, Registered, Listed, client, thread, control, server
<1>0. /\ call \in [Node -> CallStates] /\ list \in Seq(Node)
      /\ IsInjective(list) /\ Sorted
  BY DEF Safe, TypeOK, ListInv
<1>1. ASSUME NEW n \in Node, AddHandler(n) \/ AddFromHandler(n) \/ CallLock(n)
      PROVE  NoLostRegistration'
  BY <1>0, <1>1 DEF AddHandler, AddFromHandler, CallLock
<1>2. ASSUME NEW n \in Node, CallInsert(n) PROVE NoLostRegistration'
  <2>1. Range(list') = Range(list) \cup {n}
    BY <1>0, <1>2, InsertHandlerResult DEF CallInsert
  <2> QED
    BY <1>0, <1>2, <2>1 DEF CallInsert
<1>3. ASSUME NEW n \in Node, CallBroadcast(n) \/ CallUnlock(n) PROVE NoLostRegistration'
  BY <1>0, <1>3 DEF CallBroadcast, CallUnlock
<1>4. CASE LoopEnd
  <2>1. cur \in Node /\ cur \in Range(list)
    BY <1>4 DEF LoopEnd, Safe, TypeOK, CurInv, NoUseAfterFree, EndsRound
  <2>2. CASE got = "reply"
    BY <1>4, <2>2 DEF LoopEnd, EndsRound
  <2>3. CASE got # "reply"
    <3>1. Range(list') = Range(list) \ {cur} /\ freed' = freed \cup {cur}
      BY <1>0, <1>4, <2>1, <2>3, RemoveHandlerResult DEF LoopEnd, EndsRound
    <3> QED
      BY <1>4, <3>1 DEF LoopEnd, EndsRound
  <2> QED
    BY <2>2, <2>3
<1>5. CASE StartThread \/ CancelThread \/ JoinThread \/ ReadThroughNull \/ SpuriousWakeup
  BY <1>5 DEF StartThread, CancelThread, JoinThread, ReadThroughNull, SpuriousWakeup
<1>6. CASE ThreadLock \/ PickHead \/ WaitAnswered \/ WaitEmpty \/ HandlerReturns \/ ThreadRelock
  BY <1>6 DEF ThreadLock, PickHead, WaitAnswered, WaitEmpty, HandlerReturns, ThreadRelock,
              TakesLock
<1>7. CASE Cancelled \/ UnwindLock \/ UnwindUnlock
  BY <1>7 DEF Cancelled, UnwindLock, UnwindUnlock, TakesLock
<1>8. ASSUME NEW r \in Requests, SendReply(r) \/ SendError(r) \/ CompleteRequest(r)
      PROVE  NoLostRegistration'
  BY <1>8 DEF SendReply, SendError, CompleteRequest
<1>9. CASE BreakConnection \/ Finished \/ UNCHANGED vars
  BY <1>9 DEF BreakConnection, Finished, vars
<1> HIDE DEF NoLostRegistration
<1> QED
  BY <1>1, <1>2, <1>3, <1>4, <1>5, <1>6, <1>7, <1>8, <1>9 DEF Next, CallStep, ThreadStep

\* A registration is never unlinked but by the removal that frees it.
THEOREM RegistrationsAreKept ==
    ASSUME IsInjective(RequestNumber)
    PROVE  Spec => []NoLostRegistration
<1>1. Init => NoLostRegistration
  BY DEF Init, NoLostRegistration, Registered
<1>2. Safe /\ NoLostRegistration /\ [Next]_vars => NoLostRegistration'
  BY NoLostRegistrationStep
<1> QED
  BY <1>1, <1>2, SafeInvariant, PTL DEF Spec

-----------------------------------------------------------------------------
(* A handler is retired only after its last response.                        *)

\* An error is the last response to its request.
ErrorsLast ==
    \A r \in Requests : \A i \in 1 .. Len(answers[r]) :
        answers[r][i] = "error" => closed[r] /\ i = Len(answers[r])

\* A wait that returned no reply has seen the end of the responses.
EndSeen == pc \in {"handler", "relock", "loop"} /\ got # "reply" => Exhausted(curRequest)

AnswerInv == ErrorsLast /\ EndSeen /\ NoReplyDropped

\* Nothing follows once a request is exhausted.
LEMMA ExhaustedIsStable ==
    Safe /\ [Next]_vars => \A r \in Requests : Exhausted(r) => Exhausted(r)'
<1> SUFFICES ASSUME Safe, [Next]_vars, NEW r \in Requests, Exhausted(r)
             PROVE  Exhausted(r)'
  OBVIOUS
<1> USE DEF Exhausted, client, thread, control, server
<1>0. /\ answers \in [Requests -> Seq({"reply", "error"})]
      /\ taken \in [Requests -> Nat]
      /\ closed \in [Requests -> BOOLEAN]
  BY DEF Safe, TypeOK
<1>1. CASE UNCHANGED server
  BY <1>1
<1>2. CASE WaitAnswered
  BY <1>0, <1>2 DEF WaitAnswered, Available
<1>3. ASSUME NEW s \in Requests, SendReply(s) \/ SendError(s) \/ CompleteRequest(s)
      PROVE  Exhausted(r)'
  BY <1>0, <1>3 DEF SendReply, SendError, CompleteRequest, Current
<1>4. CASE BreakConnection
  BY <1>4 DEF BreakConnection
<1>5. \/ UNCHANGED server \/ WaitAnswered \/ BreakConnection
      \/ \E s \in Requests : SendReply(s) \/ SendError(s) \/ CompleteRequest(s)
  BY DEF Next, CallStep, ThreadStep, AddHandler, AddFromHandler, CallLock, CallInsert,
         CallBroadcast, CallUnlock, StartThread, CancelThread, JoinThread, ThreadLock, PickHead,
         WaitEmpty, HandlerReturns, ThreadRelock, LoopEnd, EndsRound, Cancelled, UnwindLock,
         UnwindUnlock, ReadThroughNull, SpuriousWakeup, Finished, vars, TakesLock
<1> QED
  BY <1>1, <1>2, <1>3, <1>4, <1>5

LEMMA ErrorsLastStep == Safe /\ ErrorsLast /\ [Next]_vars => ErrorsLast'
<1> SUFFICES ASSUME Safe, ErrorsLast, [Next]_vars PROVE ErrorsLast'
  OBVIOUS
<1> USE DEF ErrorsLast, client, thread, control, server
<1>0. /\ answers \in [Requests -> Seq({"reply", "error"})]
      /\ closed \in [Requests -> BOOLEAN]
  BY DEF Safe, TypeOK
<1>1. CASE UNCHANGED <<answers, closed>>
  BY <1>1
<1>2. ASSUME NEW s \in Requests, SendReply(s) PROVE ErrorsLast'
  BY <1>0, <1>2, AppendProperties DEF SendReply, Current
<1>3. ASSUME NEW s \in Requests, SendError(s) PROVE ErrorsLast'
  BY <1>0, <1>3, AppendProperties DEF SendError, Current
<1>4. ASSUME NEW s \in Requests, CompleteRequest(s) PROVE ErrorsLast'
  BY <1>0, <1>4 DEF CompleteRequest
<1>5. \/ UNCHANGED <<answers, closed>>
      \/ \E s \in Requests : SendReply(s) \/ SendError(s) \/ CompleteRequest(s)
  BY DEF Next, CallStep, ThreadStep, AddHandler, AddFromHandler, CallLock, CallInsert,
         CallBroadcast, CallUnlock, StartThread, CancelThread, JoinThread, ThreadLock, PickHead,
         WaitAnswered, WaitEmpty, HandlerReturns, ThreadRelock, LoopEnd, EndsRound, Cancelled,
         UnwindLock, UnwindUnlock, ReadThroughNull, SpuriousWakeup, BreakConnection, Finished,
         vars, TakesLock
<1> QED
  BY <1>1, <1>2, <1>3, <1>4, <1>5

LEMMA EndSeenStep == Safe /\ ErrorsLast /\ EndSeen /\ [Next]_vars => EndSeen'
<1> SUFFICES ASSUME Safe, ErrorsLast, EndSeen, [Next]_vars,
                    pc' \in {"handler", "relock", "loop"}, got' # "reply"
             PROVE  Exhausted(curRequest)'
  BY DEF EndSeen
<1> USE DEF client, thread, control, server
<1>0. /\ answers \in [Requests -> Seq({"reply", "error"})]
      /\ taken \in [Requests -> Nat]
      /\ \A r \in Requests : taken[r] <= Len(answers[r])
      /\ cur \in Node \cup {Null}
      /\ pc \in {"handler", "relock", "loop"} => cur \in Node
  BY DEF Safe, TypeOK, CurInv
<1>1. CASE WaitAnswered
  <2> DEFINE r == RequestNumber[cur]
             k == taken[r] + 1
  <2>1. r \in Requests /\ cur' = cur /\ UNCHANGED <<answers, closed>>
    BY <1>0, <1>1 DEF WaitAnswered, Requests
  <2>2. k \in 1 .. Len(answers[r]) /\ taken'[r] = k /\ got' = answers[r][k]
    BY <1>0, <1>1, <2>1, LenProperties DEF WaitAnswered, Available, curRequest
  <2>3. answers[r][k] \in {"reply", "error"}
    BY <1>0, <2>1, <2>2, ElementOfSeq
  <2>4. closed[r] /\ k = Len(answers[r])
    BY <2>1, <2>2, <2>3 DEF ErrorsLast
  <2> QED
    BY <2>1, <2>2, <2>4 DEF Exhausted, curRequest
<1>2. CASE WaitEmpty
  BY <1>2 DEF WaitEmpty, Exhausted, curRequest
<1>3. CASE pc \in {"handler", "relock", "loop"} /\ UNCHANGED <<cur, got>>
  <2>1. RequestNumber[cur] \in Requests /\ Exhausted(RequestNumber[cur])
    BY <1>0, <1>3 DEF EndSeen, curRequest, Requests
  <2>2. Exhausted(RequestNumber[cur])'
    BY <1>3, <2>1, ExhaustedIsStable DEF Exhausted
  <2> QED
    BY <1>3, <2>2 DEF curRequest, Exhausted
<1>4. WaitAnswered \/ WaitEmpty \/ (pc \in {"handler", "relock", "loop"} /\ UNCHANGED <<cur, got>>)
  BY DEF Next, CallStep, ThreadStep, AddHandler, AddFromHandler, CallLock, CallInsert,
         CallBroadcast, CallUnlock, StartThread, CancelThread, JoinThread, ThreadLock, PickHead,
         HandlerReturns, ThreadRelock, LoopEnd, EndsRound, Cancelled, UnwindLock, UnwindUnlock,
         ReadThroughNull, SpuriousWakeup, SendReply, SendError, CompleteRequest, BreakConnection,
         Finished, vars, TakesLock
<1> QED
  BY <1>1, <1>2, <1>3, <1>4

LEMMA NoReplyDroppedStep ==
    Safe /\ EndSeen /\ NoReplyDropped /\ [Next]_vars => NoReplyDropped'
<1> SUFFICES ASSUME Safe, EndSeen, NoReplyDropped, [Next]_vars, NEW n \in freed'
             PROVE  Exhausted(RequestNumber[n])'
  BY DEF NoReplyDropped, Exhausted
<1> USE DEF client, thread, control, server
<1>1. n \in freed \/ (pc = "loop" /\ got # "reply" /\ n = cur)
  <2>1. CASE LoopEnd
    <3>1. CASE got = "reply"
      BY <2>1, <3>1 DEF LoopEnd, EndsRound
    <3>2. CASE got # "reply"
      <4>1. RemoveHandler(cur) /\ pc = "loop"
        BY <2>1, <3>2 DEF LoopEnd, EndsRound
      <4>2. freed' = freed \/ freed' = freed \cup {cur}
        BY <4>1, Zenon DEF RemoveHandler
      <4> QED
        BY <3>2, <4>1, <4>2
    <3> QED
      BY <3>1, <3>2
  <2>2. CASE UNCHANGED freed
    BY <2>2
  <2>3. LoopEnd \/ UNCHANGED freed
    BY DEF Next, CallStep, ThreadStep, AddHandler, AddFromHandler, CallLock, CallInsert,
           CallBroadcast, CallUnlock, StartThread, CancelThread, JoinThread, ThreadLock, PickHead,
           WaitAnswered, WaitEmpty, HandlerReturns, ThreadRelock, Cancelled, UnwindLock,
           UnwindUnlock, ReadThroughNull, SpuriousWakeup, SendReply, SendError, CompleteRequest,
           BreakConnection, Finished, vars, TakesLock
  <2> QED
    BY <2>1, <2>2, <2>3
<1>2. n \in Node /\ Exhausted(RequestNumber[n])
  BY <1>1 DEF Safe, TypeOK, CurInv, EndSeen, NoReplyDropped, curRequest
<1>3. RequestNumber[n] \in Requests
  BY <1>2 DEF Requests
<1> QED
  BY <1>2, <1>3, ExhaustedIsStable DEF Exhausted

\* A handler is retired only when nothing further can come for its request.
THEOREM RetiredAfterLastReply == Spec => []NoReplyDropped
<1>1. Init => AnswerInv
  BY EmptySeq DEF Init, AnswerInv, ErrorsLast, EndSeen, NoReplyDropped
<1>2. Safe /\ AnswerInv /\ [Next]_vars => AnswerInv'
  BY ErrorsLastStep, EndSeenStep, NoReplyDroppedStep DEF AnswerInv
<1>3. AnswerInv => NoReplyDropped
  BY DEF AnswerInv
<1> QED
  BY <1>1, <1>2, <1>3, SafeInvariant, PTL DEF Spec
=============================================================================
