------------------------- MODULE RenderUtilProofs -------------------------
(***************************************************************************)
(* Proofs about renderutil: about RenderCache, for any number of threads,  *)
(* connections and heap blocks, and about GlyphStream, for every limit,    *)
(* every announcement, all runs and any number of calls: what fits into    *)
(* the buffer, and what a server draws.  The parts are proved each         *)
(* for its own specification, which RenderUtil implements.                 *)
(***************************************************************************)
EXTENDS RenderUtil, NaturalsInduction, WellFoundedInduction, SequenceTheorems, TLAPS

-----------------------------------------------------------------------------
(* Sequences without repetition.                                            *)

\* Removing one element of a sequence without repetition.
LEMMA RemoveAtRange ==
    ASSUME NEW S, NEW s \in Seq(S), NEW i \in 1 .. Len(s), IsInjective(s)
    PROVE  /\ RemoveAt(s, i) \in Seq(S)
           /\ Range(RemoveAt(s, i)) = Range(s) \ {s[i]}
           /\ IsInjective(RemoveAt(s, i))
<1> DEFINE t     == RemoveAt(s, i)
           front == SubSeq(s, 1, i - 1)
           back  == SubSeq(s, i + 1, Len(s))
           at(j) == IF j < i THEN j ELSE j + 1
<1>1. t = front \o back
  BY DEF RemoveAt
<1>2. /\ front \in Seq(S) /\ Len(front) = i - 1
      /\ \A j \in 1 .. i - 1 : front[j] = s[j]
  BY SubSeqProperties
<1>3. /\ back \in Seq(S) /\ Len(back) = Len(s) - i
      /\ \A j \in 1 .. Len(s) - i : back[j] = s[i + j]
  BY SubSeqProperties
<1>4. DOMAIN s = 1 .. Len(s) /\ Len(s) \in Nat
  BY LenProperties
<1> HIDE DEF t, front, back
<1>5. /\ t \in Seq(S) /\ Len(t) = Len(front) + Len(back)
      /\ \A j \in 1 .. Len(front) + Len(back) :
            t[j] = IF j <= Len(front) THEN front[j] ELSE back[j - Len(front)]
  BY <1>1, <1>2, <1>3, ConcatProperties
<1>6. DOMAIN t = 1 .. Len(front) + Len(back) /\ DOMAIN t = 1 .. Len(s) - 1
  BY <1>2, <1>3, <1>4, <1>5, LenProperties
<1> DEFINE joined(j) == IF j <= Len(front) THEN front[j] ELSE back[j - Len(front)]
<1>7. \A j \in DOMAIN t : t[j] = joined(j)
  BY <1>5, <1>6
<1>8. ASSUME NEW j \in DOMAIN t PROVE t[j] = s[at(j)]
  <2>1. CASE j < i
    <3>1. joined(j) = front[j] /\ j \in 1 .. i - 1
      BY <2>1, <1>2, <1>4, <1>6
    <3> QED
      BY <2>1, <3>1, <1>2, <1>7
  <2>2. CASE j >= i
    <3>1. j - (i - 1) \in 1 .. Len(s) - i /\ i + (j - (i - 1)) = j + 1
      BY <2>2, <1>4, <1>6
    <3>2. back[j - (i - 1)] = s[j + 1]
      BY <3>1, <1>3
    <3>3. joined(j) = back[j - (i - 1)] /\ at(j) = j + 1
      BY <2>2, <1>2, <1>4, <1>6
    <3> QED
      BY <3>2, <3>3, <1>7
  <2> QED
    BY <2>1, <2>2, <1>6
<1>9. \A k, l \in 1 .. Len(s) : s[k] = s[l] => k = l
  BY <1>4 DEF IsInjective
<1>10. \A j \in DOMAIN t : at(j) \in 1 .. Len(s) /\ at(j) # i
  BY <1>4, <1>6
<1>11. ASSUME NEW k \in 1 .. Len(s), k # i PROVE s[k] \in Range(t)
  <2> DEFINE j == IF k < i THEN k ELSE k - 1
  <2>1. j \in DOMAIN t /\ at(j) = k
    BY <1>4, <1>6, <1>11
  <2> QED
    BY <2>1, <1>8 DEF Range
<1>12. Range(t) = Range(s) \ {s[i]}
  BY <1>4, <1>8, <1>9, <1>10, <1>11 DEF Range
<1>13. \A j, k \in DOMAIN t : t[j] = t[k] => j = k
  BY <1>4, <1>6, <1>8, <1>9, <1>10
<1> QED
  BY <1>5, <1>12, <1>13 DEF t, IsInjective

\* Putting an element in front of a sequence.
LEMMA PrependRange ==
    ASSUME NEW S, NEW s \in Seq(S), NEW e \in S
    PROVE  /\ <<e>> \o s \in Seq(S)
           /\ Range(<<e>> \o s) = Range(s) \cup {e}
           /\ IsInjective(s) /\ e \notin Range(s) => IsInjective(<<e>> \o s)
<1> DEFINE t == <<e>> \o s
<1>1. /\ t \in Seq(S) /\ Len(t) = Len(s) + 1 /\ Len(s) \in Nat
      /\ t[1] = e
      /\ \A i \in 2 .. Len(t) : t[i] = s[i - 1]
  BY ConcatProperties, LenProperties
<1>2. DOMAIN t = 1 .. Len(s) + 1 /\ DOMAIN s = 1 .. Len(s)
  BY <1>1, LenProperties
<1> HIDE DEF t
<1>3. Range(t) = Range(s) \cup {e}
  <2>1. ASSUME NEW i \in DOMAIN t PROVE t[i] \in Range(s) \cup {e}
    BY <1>1, <1>2 DEF Range
  <2>2. ASSUME NEW i \in DOMAIN s PROVE s[i] \in Range(t)
    <3>1. i + 1 \in DOMAIN t /\ t[i + 1] = s[i]
      BY <1>1, <1>2
    <3> QED
      BY <3>1 DEF Range
  <2>3. e \in Range(t)
    BY <1>1, <1>2 DEF Range
  <2> QED
    BY <2>1, <2>2, <2>3 DEF Range
<1>4. ASSUME IsInjective(s), e \notin Range(s), NEW i \in DOMAIN t, NEW j \in DOMAIN t, t[i] = t[j]
      PROVE  i = j
  <2>1. \A k \in 1 .. Len(s) : s[k] # e
    BY <1>2, <1>4 DEF Range
  <2>2. \A k, l \in 1 .. Len(s) : s[k] = s[l] => k = l
    BY <1>2, <1>4 DEF IsInjective
  <2>3. \A k \in DOMAIN t : k # 1 => k - 1 \in 1 .. Len(s) /\ t[k] = s[k - 1]
    BY <1>1, <1>2
  <2>4. CASE i = 1 \/ j = 1
    BY <2>4, <2>1, <2>3, <1>1, <1>4
  <2>5. CASE i # 1 /\ j # 1
    <3>1. i - 1 = j - 1
      BY <2>2, <2>3, <2>5, <1>4
    <3> QED
      BY <3>1, <1>1, <1>2
  <2> QED
    BY <2>4, <2>5
<1>5. IsInjective(s) /\ e \notin Range(s) => IsInjective(t)
  BY <1>4 DEF IsInjective
<1> QED
  BY <1>1, <1>3, <1>5 DEF t

-----------------------------------------------------------------------------
(* The inductive invariant.  That a connection has one entry follows only    *)
(* from what the thread that is about to link one has seen under the lock;   *)
(* that its server was asked once, from where that question is on record.    *)

\* Entries are linked once, and no two are of the same connection.
OneEach ==
    /\ IsInjective(head)
    /\ \A e, f \in Range(head) : conn[e] = conn[f] => e = f

\* A linked entry is allocated and complete.
EntriesComplete ==
    \A e \in Range(head) :
        e \in heap /\ conn[e] \in Conn /\ answer[e] \in PossibleAnswers(conn[e])

\* The entry a thread is about to link is its own, and the first of its
\* connection.
PendingNew ==
    \A p \in Proc : pc[p] \in {"fetch", "link"} =>
        /\ info[p] \in heap \ Range(head)
        /\ conn[info[p]] = want[p]
        /\ \A e \in Range(head) : conn[e] # want[p]
        /\ pc[p] = "link" => answer[info[p]] \in PossibleAnswers(want[p])

WantsOne == \A p \in Proc : want[p] = Null <=> pc[p] = "idle"

\* A connection whose server was asked has an entry, or is about to have one.
AskedOnRecord ==
    \A c \in Conn :
        /\ asked[c] <= 1
        /\ asked[c] = 1 => \/ \E e \in Range(head) : conn[e] = c
                           \/ \E p \in Proc : pc[p] = "link" /\ want[p] = c

Safe ==
    /\ TypeOK /\ LockDiscipline /\ OneEach /\ EntriesComplete /\ CurListed
    /\ PendingNew /\ WantsOne /\ AskedOnRecord

LEMMA KeptIsPossible ==
    ASSUME NEW c \in Conn,
           NEW version \in {"none", "old", "new"}, NEW formats \in {"none", "subpixel"}
    PROVE  /\ Kept(has_required_depths(c), version, formats) \in PossibleAnswers(c)
           /\ Kept(has_required_depths(c), version, formats) \in Answers
<1>1. has_required_depths(c) =>
         \A screen \in Screens[c] : REQUIRED_DEPTHS \subseteq
                                  screen.advertised \cup screen.creatable
  BY DEF has_required_depths, pixmap_depths_usable
<1> QED
  BY <1>1 DEF Kept, PossibleAnswers, Answers, Absent

LEMMA SafeInit == Init => Safe
<1> SUFFICES ASSUME Init PROVE Safe
  OBVIOUS
<1>1. Range(head) = {} /\ head \in Seq(Entry)
  BY EmptySeq DEF Init, Range
<1>2. TypeOK
  BY <1>1 DEF Init, TypeOK, Answers, Absent
<1>3. LockDiscipline
  BY NullAssumption DEF Init, LockDiscipline, Holds
<1>4. OneEach /\ EntriesComplete /\ CurListed /\ PendingNew /\ WantsOne
  BY <1>1 DEF Init, OneEach, EntriesComplete, CurListed, PendingNew, WantsOne, IsInjective
<1>5. AskedOnRecord
  BY DEF Init, AskedOnRecord
<1> QED
  BY <1>2, <1>3, <1>4, <1>5 DEF Safe

LEMMA SafeStep == Safe /\ [Next]_vars => Safe'
<1> SUFFICES ASSUME Safe, [Next]_vars PROVE Safe'
  OBVIOUS
<1> USE NullAssumption
<1> USE DEF Safe, TypeOK, LockDiscipline, Holds, LookupStates, DisconnectStates,
        list, block, local, Goto
<1>0. \A p, q \in Proc : pc[p] \in Holds /\ pc[q] \in Holds => p = q
  OBVIOUS
<1>1. ASSUME NEW p \in Proc, UNCHANGED <<list, block, asked>>, TypeOK', LockDiscipline',
             \A q \in Proc \ {p} : pc'[q] = pc[q] /\ want'[q] = want[q] /\ info'[q] = info[q],
             pc'[p] \notin {"fetch", "link"}, pc[p] # "link", want'[p] = Null <=> pc'[p] = "idle"
      PROVE  Safe'
  <2>1. OneEach' /\ EntriesComplete' /\ CurListed'
    BY <1>1 DEF OneEach, EntriesComplete, CurListed
  <2>2. PendingNew'
    BY <1>1 DEF PendingNew
  <2>3. WantsOne'
    BY <1>1 DEF WantsOne
  <2>4. AskedOnRecord'
    BY <1>1 DEF AskedOnRecord
  <2> QED
    BY <1>1, <2>1, <2>2, <2>3, <2>4
<1>2. ASSUME NEW p \in Proc, NEW c \in Conn, Lookup(p, c) PROVE Safe'
  <2>1. TypeOK'
    BY <1>2 DEF Lookup
  <2>2. LockDiscipline'
    BY <1>2 DEF Lookup
  <2>3. /\ UNCHANGED <<list, block, asked>>
        /\ \A q \in Proc \ {p} : pc'[q] = pc[q] /\ want'[q] = want[q] /\ info'[q] = info[q]
    BY <1>2 DEF Lookup
  <2>4. /\ pc'[p] \notin {"fetch", "link"} /\ pc[p] # "link"
        /\ want'[p] = Null <=> pc'[p] = "idle"
    BY <1>2 DEF Lookup
  <2> QED
    BY <1>1, <2>1, <2>2, <2>3, <2>4
<1>3. ASSUME NEW p \in Proc, NEW c \in Conn, Disconnect(p, c) PROVE Safe'
  <2>1. TypeOK'
    BY <1>3 DEF Disconnect
  <2>2. LockDiscipline'
    BY <1>3 DEF Disconnect
  <2>3. /\ UNCHANGED <<list, block, asked>>
        /\ \A q \in Proc \ {p} : pc'[q] = pc[q] /\ want'[q] = want[q] /\ info'[q] = info[q]
    BY <1>3 DEF Disconnect
  <2>4. /\ pc'[p] \notin {"fetch", "link"} /\ pc[p] # "link"
        /\ want'[p] = Null <=> pc'[p] = "idle"
    BY <1>3 DEF Disconnect
  <2> QED
    BY <1>1, <2>1, <2>2, <2>3, <2>4
<1>4. ASSUME NEW p \in Proc, ReadCur(p) PROVE Safe'
  <2>1. TypeOK'
    BY <1>4 DEF ReadCur
  <2>2. LockDiscipline'
    BY <1>4 DEF ReadCur
  <2>3. /\ UNCHANGED <<list, block, asked>>
        /\ \A q \in Proc \ {p} : pc'[q] = pc[q] /\ want'[q] = want[q] /\ info'[q] = info[q]
    BY <1>4 DEF ReadCur
  <2>4. /\ pc'[p] \notin {"fetch", "link"} /\ pc[p] # "link"
        /\ want'[p] = Null <=> pc'[p] = "idle"
    BY <1>4 DEF ReadCur, WantsOne
  <2> QED
    BY <1>1, <2>1, <2>2, <2>3, <2>4
<1>5. ASSUME NEW p \in Proc, CompareCur(p) PROVE Safe'
  <2>1. TypeOK'
    BY <1>5 DEF CompareCur
  <2>2. LockDiscipline'
    BY <1>5 DEF CompareCur
  <2>3. /\ UNCHANGED <<list, block, asked>>
        /\ \A q \in Proc \ {p} : pc'[q] = pc[q] /\ want'[q] = want[q] /\ info'[q] = info[q]
    BY <1>5 DEF CompareCur
  <2>4. /\ pc'[p] \notin {"fetch", "link"} /\ pc[p] # "link"
        /\ want'[p] = Null <=> pc'[p] = "idle"
    BY <1>5 DEF CompareCur, WantsOne
  <2> QED
    BY <1>1, <2>1, <2>2, <2>3, <2>4
<1>6. ASSUME NEW p \in Proc, LockForLookup(p) \/ LockForDisconnect(p) PROVE Safe'
  <2>1. TypeOK'
    BY <1>6 DEF LockForLookup, LockForDisconnect, Takes
  <2>2. LockDiscipline'
    BY <1>6 DEF LockForLookup, LockForDisconnect, Takes
  <2>3. /\ UNCHANGED <<list, block, asked>>
        /\ \A q \in Proc \ {p} : pc'[q] = pc[q] /\ want'[q] = want[q] /\ info'[q] = info[q]
    BY <1>6 DEF LockForLookup, LockForDisconnect, Takes
  <2>4. /\ pc'[p] \notin {"fetch", "link"} /\ pc[p] # "link"
        /\ want'[p] = Null <=> pc'[p] = "idle"
    BY <1>6 DEF LockForLookup, LockForDisconnect, Takes, WantsOne
  <2> QED
    BY <1>1, <2>1, <2>2, <2>3, <2>4
<1>7. ASSUME NEW p \in Proc, Found(p) PROVE Safe'
  <2>1. PICK i \in 1 .. Len(head) : cur' = head[i] /\ info' = [info EXCEPT ![p] = head[i]]
    BY <1>7 DEF Found
  <2>2. head[i] \in Entry /\ head[i] \in Range(head)
    BY ElementOfSeq, LenProperties DEF Range
  <2>3. TypeOK' /\ LockDiscipline'
    BY <1>7, <2>1, <2>2 DEF Found
  <2>4. OneEach' /\ EntriesComplete' /\ CurListed'
    BY <1>7, <2>1, <2>2 DEF Found, OneEach, EntriesComplete, CurListed
  <2>5. PendingNew' /\ WantsOne'
    BY <1>7, <2>1 DEF Found, PendingNew, WantsOne
  <2>6. AskedOnRecord'
    BY <1>7 DEF Found, AskedOnRecord
  <2> QED
    BY <2>3, <2>4, <2>5, <2>6
<1>8. ASSUME NEW p \in Proc, Allocate(p) PROVE Safe'
  <2>1. PICK e \in Entry \ heap :
           /\ heap' = heap \cup {e}
           /\ conn' = [conn EXCEPT ![e] = want[p]]
           /\ answer' = [answer EXCEPT ![e] = Garbage]
           /\ info' = [info EXCEPT ![p] = e]
    BY <1>8 DEF Allocate
  <2>2. e \notin Range(head)
    BY DEF EntriesComplete
  <2>3. TypeOK' /\ LockDiscipline'
    BY <1>8, <2>1 DEF Allocate
  <2>4. OneEach' /\ EntriesComplete' /\ CurListed'
    BY <1>8, <2>1, <2>2 DEF Allocate, OneEach, EntriesComplete, CurListed
  <2>5. \A f \in Range(head) : conn'[f] = conn[f] /\ conn[f] # want[p]
    BY <1>8, <2>1, <2>2 DEF Allocate, Of
  <2>6. \A q \in Proc \ {p} : pc[q] \notin {"fetch", "link"}
    BY <1>0, <1>8 DEF Allocate
  <2>7. PendingNew' /\ WantsOne'
    BY <1>8, <2>1, <2>2, <2>5, <2>6 DEF Allocate, PendingNew, WantsOne
  <2>8. AskedOnRecord'
    BY <1>8, <2>5, <2>6 DEF Allocate, AskedOnRecord
  <2> QED
    BY <2>3, <2>4, <2>7, <2>8
<1>9. ASSUME NEW p \in Proc, AllocationFails(p) PROVE Safe'
  <2>1. TypeOK'
    BY <1>9 DEF AllocationFails
  <2>2. LockDiscipline'
    BY <1>9 DEF AllocationFails
  <2>3. /\ UNCHANGED <<list, block, asked>>
        /\ \A q \in Proc \ {p} : pc'[q] = pc[q] /\ want'[q] = want[q] /\ info'[q] = info[q]
    BY <1>9 DEF AllocationFails
  <2>4. /\ pc'[p] \notin {"fetch", "link"} /\ pc[p] # "link"
        /\ want'[p] = Null <=> pc'[p] = "idle"
    BY <1>9 DEF AllocationFails, WantsOne
  <2> QED
    BY <1>1, <2>1, <2>2, <2>3, <2>4
<1>10. ASSUME NEW p \in Proc, Fetch(p) PROVE Safe'
  <2>1. want[p] \in Conn
    BY <1>10 DEF Fetch, WantsOne
  <2>2. PICK version \in {"none", "old", "new"}, formats \in {"none", "subpixel"} :
           answer' = [answer EXCEPT ![info[p]] =
                         Kept(has_required_depths(want[p]), version, formats)]
    BY <1>10 DEF Fetch
  <2> DEFINE a == Kept(has_required_depths(want[p]), version, formats)
  <2>3. a \in PossibleAnswers(want[p]) /\ a \in Answers
    BY <2>1, KeptIsPossible
  <2>4. answer' = [answer EXCEPT ![info[p]] = a]
    BY <2>2
  <2> HIDE DEF a
  <2>5. info[p] \in heap \ Range(head) /\ \A e \in Range(head) : conn[e] # want[p]
    BY <1>10 DEF Fetch, PendingNew
  <2>6. \A q \in Proc \ {p} : pc[q] \notin {"fetch", "link"}
    BY <1>0, <1>10 DEF Fetch
  <2>7. TypeOK' /\ LockDiscipline'
    <3>1. answer' \in [Entry -> Answers \cup {Garbage}]
      BY <2>4, <2>3
    <3>2. asked' \in [Conn -> Nat]
      BY <1>10, <2>1 DEF Fetch
    <3>3. LockDiscipline'
      BY <1>10 DEF Fetch
    <3> QED
      BY <1>10, <3>1, <3>2, <3>3 DEF Fetch
  <2>8. OneEach' /\ EntriesComplete' /\ CurListed'
    BY <1>10, <2>4, <2>5 DEF Fetch, OneEach, EntriesComplete, CurListed
  <2>9. PendingNew' /\ WantsOne'
    <3>1. answer'[info[p]] \in PossibleAnswers(want[p]) /\ conn[info[p]] = want[p]
      BY <1>10, <2>4, <2>3, <2>5 DEF Fetch, PendingNew
    <3>2. PendingNew'
      BY <1>10, <2>5, <2>6, <3>1 DEF Fetch, PendingNew
    <3>3. WantsOne'
      BY <1>10 DEF Fetch, WantsOne
    <3> QED
      BY <3>2, <3>3
  <2>10. asked[want[p]] = 0
    BY <1>10, <2>1, <2>5, <2>6 DEF Fetch, AskedOnRecord
  <2>11. AskedOnRecord'
    BY <1>10, <2>1, <2>6, <2>10 DEF Fetch, AskedOnRecord
  <2> QED
    BY <2>7, <2>8, <2>9, <2>11
<1>11. ASSUME NEW p \in Proc, Link(p) PROVE Safe'
  <2>1. /\ want[p] \in Conn /\ info[p] \in heap \ Range(head) /\ conn[info[p]] = want[p]
        /\ \A e \in Range(head) : conn[e] # want[p]
        /\ answer[info[p]] \in PossibleAnswers(want[p])
    BY <1>11 DEF Link, WantsOne, PendingNew
  <2>2. /\ head' \in Seq(Entry)
        /\ Range(head') = Range(head) \cup {info[p]}
        /\ IsInjective(head')
    BY <1>11, <2>1, PrependRange DEF Link, OneEach
  <2>3. TypeOK' /\ LockDiscipline'
    BY <1>11, <2>1, <2>2 DEF Link
  <2>4. OneEach' /\ EntriesComplete' /\ CurListed'
    <3>1. OneEach'
      BY <1>11, <2>1, <2>2 DEF Link, OneEach
    <3>2. EntriesComplete'
      BY <1>11, <2>1, <2>2 DEF Link, EntriesComplete
    <3>3. CurListed'
      BY <1>11, <2>1, <2>2 DEF Link, CurListed
    <3> QED
      BY <3>1, <3>2, <3>3
  <2>5. \A q \in Proc \ {p} : pc[q] \notin {"fetch", "link"}
    BY <1>0, <1>11 DEF Link
  <2>6. PendingNew' /\ WantsOne'
    BY <1>11, <2>5 DEF Link, PendingNew, WantsOne
  <2>7. AskedOnRecord'
    BY <1>11, <2>1, <2>2, <2>5 DEF Link, AskedOnRecord
  <2> QED
    BY <2>3, <2>4, <2>6, <2>7
<1>12. ASSUME NEW p \in Proc, UnlockLookup(p) \/ UnlockDisconnect(p) PROVE Safe'
  <2>1. TypeOK'
    BY <1>12 DEF UnlockLookup, UnlockDisconnect, Releases
  <2>2. LockDiscipline'
    BY <1>12 DEF UnlockLookup, UnlockDisconnect, Releases
  <2>3. /\ UNCHANGED <<list, block, asked>>
        /\ \A q \in Proc \ {p} : pc'[q] = pc[q] /\ want'[q] = want[q] /\ info'[q] = info[q]
    BY <1>12 DEF UnlockLookup, UnlockDisconnect, Releases
  <2>4. /\ pc'[p] \notin {"fetch", "link"} /\ pc[p] # "link"
        /\ want'[p] = Null <=> pc'[p] = "idle"
    BY <1>12 DEF UnlockLookup, UnlockDisconnect, Releases, WantsOne
  <2> QED
    BY <1>1, <2>1, <2>2, <2>3, <2>4
<1>13. ASSUME NEW p \in Proc, Return(p) PROVE Safe'
  <2>1. TypeOK'
    BY <1>13 DEF Return, Answers, Absent
  <2>2. LockDiscipline'
    BY <1>13 DEF Return
  <2>3. /\ UNCHANGED <<list, block, asked>>
        /\ \A q \in Proc \ {p} : pc'[q] = pc[q] /\ want'[q] = want[q] /\ info'[q] = info[q]
    BY <1>13 DEF Return
  <2>4. /\ pc'[p] \notin {"fetch", "link"} /\ pc[p] # "link"
        /\ want'[p] = Null <=> pc'[p] = "idle"
    BY <1>13 DEF Return
  <2> QED
    BY <1>1, <2>1, <2>2, <2>3, <2>4
<1>14. ASSUME NEW p \in Proc, Drop(p) PROVE Safe'
  <2>1. PICK i \in 1 .. Len(head) :
           /\ conn[head[i]] = want[p]
           /\ head' = RemoveAt(head, i)
           /\ cur' = IF cur = head[i] THEN Null ELSE cur
           /\ Freed(head[i])
    BY <1>14 DEF Drop
  <2> DEFINE e == head[i]
  <2>2. e \in Entry /\ e \in Range(head)
    BY ElementOfSeq, LenProperties DEF Range
  <2>3. head' \in Seq(Entry) /\ Range(head') = Range(head) \ {e} /\ IsInjective(head')
    BY RemoveAtRange, <2>1 DEF OneEach
  <2>4. /\ heap' = heap \ {e}
        /\ conn' = [conn EXCEPT ![e] = Null]
        /\ answer' = [answer EXCEPT ![e] = Garbage]
        /\ conn[e] = want[p] /\ cur' = IF cur = e THEN Null ELSE cur
    BY <2>1 DEF Freed
  <2> HIDE DEF e
  <2>5. want[p] \in Conn
    BY <1>14 DEF Drop, WantsOne
  <2>6. TypeOK' /\ LockDiscipline'
    BY <1>14, <2>2, <2>3, <2>4, <2>5 DEF Drop
  <2>7. OneEach' /\ EntriesComplete' /\ CurListed'
    BY <2>2, <2>3, <2>4 DEF OneEach, EntriesComplete, CurListed
  <2>8. \A q \in Proc : pc'[q] \notin {"fetch", "link"} /\ pc[q] \notin {"fetch", "link"}
    BY <1>0, <1>14 DEF Drop
  <2>9. PendingNew' /\ WantsOne'
    BY <1>14, <2>8 DEF Drop, PendingNew, WantsOne
  <2>10. ASSUME NEW c \in Conn PROVE asked'[c] <= 1 /\ (asked'[c] = 1 => \E f \in Range(head') : conn'[f] = c)
    <3>1. CASE c = want[p]
      BY <1>14, <2>5, <3>1 DEF Drop
    <3>2. CASE c # want[p]
      <4>1. asked'[c] = asked[c]
        BY <1>14, <3>2 DEF Drop
      <4>2. asked[c] = 1 => \E f \in Range(head) : conn[f] = c
        BY <2>8 DEF AskedOnRecord
      <4>3. \A f \in Range(head) : conn[f] = c => f \in Range(head') /\ conn'[f] = c
        BY <2>3, <2>4, <3>2
      <4> QED
        BY <4>1, <4>2, <4>3 DEF AskedOnRecord
    <3> QED
      BY <3>1, <3>2
  <2>11. AskedOnRecord'
    BY <2>10 DEF AskedOnRecord
  <2> QED
    BY <2>6, <2>7, <2>9, <2>11
<1>15. ASSUME NEW p \in Proc, DropNothing(p) PROVE Safe'
  <2>1. TypeOK'
    BY <1>15 DEF DropNothing
  <2>2. LockDiscipline'
    BY <1>15 DEF DropNothing
  <2>3. /\ UNCHANGED <<list, block, asked>>
        /\ \A q \in Proc \ {p} : pc'[q] = pc[q] /\ want'[q] = want[q] /\ info'[q] = info[q]
    BY <1>15 DEF DropNothing
  <2>4. /\ pc'[p] \notin {"fetch", "link"} /\ pc[p] # "link"
        /\ want'[p] = Null <=> pc'[p] = "idle"
    BY <1>15 DEF DropNothing, WantsOne
  <2> QED
    BY <1>1, <2>1, <2>2, <2>3, <2>4
<1>16. ASSUME UNCHANGED vars PROVE Safe'
  <2>1. /\ UNCHANGED <<lock, head, cur, heap, conn, answer>>
        /\ UNCHANGED <<pc, want, info, returned, asked>>
    BY <1>16 DEF vars
  <2> QED
    BY <2>1 DEF OneEach, EntriesComplete, CurListed, PendingNew, WantsOne, AskedOnRecord
<1> HIDE DEF Safe
<1> QED
  BY <1>2, <1>3, <1>4, <1>5, <1>6, <1>7, <1>8, <1>9, <1>10, <1>11, <1>12, <1>13, <1>14,
     <1>15, <1>16 DEF Next, Step

THEOREM Invariance == Spec => []Safe
<1> QED
  BY SafeInit, SafeStep, PTL DEF Spec

\* The variables keep their types.
THEOREM TypeCorrect == Spec => []TypeOK
<1>1. Safe => TypeOK
  BY DEF Safe
<1> QED
  BY <1>1, Invariance, PTL

\* connections.lock is held exactly in the critical sections (cache.c:191-193,
\* 218-232), by one thread at a time.
THEOREM MutualExclusion == Spec => []LockDiscipline
<1>1. Safe => LockDiscipline
  BY DEF Safe
<1> QED
  BY <1>1, Invariance, PTL

\* Threads that raced each other to the lock never link two entries of one
\* connection (cache.c:138-175).
THEOREM NoDuplicateEntries == Spec => []OneEntryPerConnection
<1>1. Safe => OneEntryPerConnection
  <2> SUFFICES ASSUME Safe, NEW i \in 1 .. Len(head), NEW j \in 1 .. Len(head),
                      conn[head[i]] = conn[head[j]]
               PROVE  i = j
    BY DEF OneEntryPerConnection
  <2>1. head \in Seq(Entry) /\ OneEach
    BY DEF Safe, TypeOK
  <2>2. DOMAIN head = 1 .. Len(head)
    BY <2>1, LenProperties
  <2>3. head[i] = head[j]
    BY <2>1, <2>2 DEF OneEach, Range
  <2> QED
    BY <2>1, <2>2, <2>3 DEF OneEach, IsInjective
<1> QED
  BY <1>1, Invariance, PTL

\* No server is asked a second time before its connection is dropped.
THEOREM ServerAskedOnce == Spec => []AskedOnce
<1>1. Safe => AskedOnce
  BY DEF Safe, AskedOnRecord, AskedOnce
<1> QED
  BY <1>1, Invariance, PTL

\* connections.cur never points to an entry that was dropped (cache.c:225-226).
THEOREM CurNeverDangles == Spec => []CurListed
<1>1. Safe => CurListed
  BY DEF Safe
<1> QED
  BY <1>1, Invariance, PTL

-----------------------------------------------------------------------------
(* Clients that keep every disconnect apart from every lookup.              *)

Apart ==
    \A p, q \in Proc : pc[p] \in LookupStates => pc[q] \notin DisconnectStates

\* What a lookup is about to read was linked, and is its connection's.
InfoListed ==
    \A p \in Proc :
        /\ pc[p] \in {"compare", "unlock", "answer"} /\ info[p] # Null => info[p] \in Range(head)
        /\ pc[p] \in {"unlock", "answer"} /\ info[p] # Null => conn[info[p]] = want[p]

SafeApart == Safe /\ Apart /\ InfoListed

LEMMA SafeApartInit == Init => SafeApart
<1>1. Init => Apart /\ InfoListed
  BY DEF Init, Apart, InfoListed, LookupStates, DisconnectStates
<1> QED
  BY <1>1, SafeInit DEF SafeApart

LEMMA SafeApartStep ==
    ASSUME Exclusive
    PROVE  SafeApart /\ [Next]_vars => SafeApart'
<1> SUFFICES ASSUME SafeApart, [Next]_vars PROVE Apart' /\ InfoListed'
  BY SafeStep DEF SafeApart
<1> USE NullAssumption
<1> USE DEF SafeApart, Safe, TypeOK, LookupStates, DisconnectStates, list, block, local, Goto
<1>1. ASSUME NEW p \in Proc, UNCHANGED <<head, conn>>, pc' = [pc EXCEPT ![p] = pc'[p]],
             \A q \in Proc \ {p} : want'[q] = want[q] /\ info'[q] = info[q],
             pc'[p] \in LookupStates => pc[p] \in LookupStates,
             pc'[p] \in DisconnectStates => pc[p] \in DisconnectStates,
             pc'[p] \notin {"compare", "unlock", "answer"}
      PROVE  Apart' /\ InfoListed'
  <2>1. \A q \in Proc \ {p} : pc'[q] = pc[q] /\ want'[q] = want[q] /\ info'[q] = info[q]
    BY <1>1
  <2>2. \A q \in Proc : /\ pc'[q] \in LookupStates => pc[q] \in LookupStates
                        /\ pc'[q] \in DisconnectStates => pc[q] \in DisconnectStates
    BY <1>1, <2>1
  <2>3. Apart'
    <3> HIDE DEF LookupStates, DisconnectStates
    <3> QED
      BY <2>2 DEF Apart
  <2>4. \A q \in Proc : pc'[q] \in {"compare", "unlock", "answer"} =>
            pc'[q] = pc[q] /\ want'[q] = want[q] /\ info'[q] = info[q]
    BY <1>1, <2>1
  <2>5. head' = head /\ conn' = conn
    BY <1>1
  <2>6. InfoListed'
    BY <2>4, <2>5 DEF InfoListed
  <2> QED
    BY <2>3, <2>6
<1>2. ASSUME NEW p \in Proc, NEW c \in Conn, Lookup(p, c) PROVE Apart' /\ InfoListed'
  <2>1. \A q \in Proc : pc[q] \notin DisconnectStates
    BY <1>2 DEF Lookup, Busy, WantsOne
  <2> QED
    BY <1>2, <2>1 DEF Lookup, Apart, InfoListed
<1>3. ASSUME NEW p \in Proc, NEW c \in Conn, Disconnect(p, c) PROVE Apart' /\ InfoListed'
  <2>1. \A q \in Proc : pc[q] = "idle"
    BY <1>3 DEF Disconnect, Busy, WantsOne
  <2> QED
    BY <1>3, <2>1 DEF Disconnect, Apart, InfoListed
<1>4. ASSUME NEW p \in Proc, ReadCur(p) PROVE Apart' /\ InfoListed'
  BY <1>4 DEF ReadCur, Apart, InfoListed, CurListed
<1>5. ASSUME NEW p \in Proc, CompareCur(p) PROVE Apart' /\ InfoListed'
  BY <1>5 DEF CompareCur, Apart, InfoListed, EntriesComplete
<1>6. ASSUME NEW p \in Proc, LockForLookup(p) \/ LockForDisconnect(p)
      PROVE  Apart' /\ InfoListed'
  BY <1>6 DEF LockForLookup, LockForDisconnect, Takes, Apart, InfoListed
<1>7. ASSUME NEW p \in Proc, Found(p) PROVE Apart' /\ InfoListed'
  <2>1. PICK i \in 1 .. Len(head) :
           conn[head[i]] = want[p] /\ info' = [info EXCEPT ![p] = head[i]]
    BY <1>7 DEF Found
  <2>2. head[i] \in Entry /\ head[i] \in Range(head)
    BY ElementOfSeq, LenProperties DEF Range
  <2> QED
    BY <1>7, <2>1, <2>2 DEF Found, Apart, InfoListed
<1>8. ASSUME NEW p \in Proc, Allocate(p) PROVE Apart' /\ InfoListed'
  <2>1. PICK e \in Entry \ heap :
           conn' = [conn EXCEPT ![e] = want[p]] /\ info' = [info EXCEPT ![p] = e]
    BY <1>8 DEF Allocate
  <2>2. \A f \in Range(head) : conn'[f] = conn[f]
    BY <2>1 DEF EntriesComplete
  <2> QED
    BY <1>8, <2>1, <2>2 DEF Allocate, Apart, InfoListed
<1>9. ASSUME NEW p \in Proc, AllocationFails(p) PROVE Apart' /\ InfoListed'
  BY <1>9 DEF AllocationFails, Apart, InfoListed
<1>10. ASSUME NEW p \in Proc, Fetch(p) PROVE Apart' /\ InfoListed'
  BY <1>10 DEF Fetch, Apart, InfoListed
<1>11. ASSUME NEW p \in Proc, Link(p) PROVE Apart' /\ InfoListed'
  <2>1. /\ info[p] \in heap \ Range(head) /\ conn[info[p]] = want[p]
        /\ IsInjective(head)
    BY <1>11 DEF Link, PendingNew, OneEach
  <2>2. Range(head') = Range(head) \cup {info[p]}
    BY <1>11, <2>1, PrependRange DEF Link
  <2> QED
    BY <1>11, <2>1, <2>2 DEF Link, Apart, InfoListed
<1>12. ASSUME NEW p \in Proc, UnlockLookup(p) \/ UnlockDisconnect(p)
       PROVE  Apart' /\ InfoListed'
  BY <1>12 DEF UnlockLookup, UnlockDisconnect, Releases, Apart, InfoListed
<1>13. ASSUME NEW p \in Proc, Return(p) PROVE Apart' /\ InfoListed'
  BY <1>13 DEF Return, Apart, InfoListed
<1>14. ASSUME NEW p \in Proc, Drop(p) PROVE Apart' /\ InfoListed'
  <2>1. \A q \in Proc : pc[q] \notin LookupStates
    BY <1>14 DEF Drop, Apart
  <2> QED
    BY <1>14, <2>1 DEF Drop, Apart, InfoListed
<1>15. ASSUME NEW p \in Proc, DropNothing(p) PROVE Apart' /\ InfoListed'
  BY <1>15 DEF DropNothing, Apart, InfoListed
<1>16. ASSUME UNCHANGED vars PROVE Apart' /\ InfoListed'
  <2>1. UNCHANGED <<head, conn, pc, want, info>>
    BY <1>16 DEF vars
  <2> QED
    BY <2>1 DEF Apart, InfoListed
<1> HIDE DEF SafeApart
<1> QED
  BY <1>2, <1>3, <1>4, <1>5, <1>6, <1>7, <1>8, <1>9, <1>10, <1>11, <1>12, <1>13, <1>14,
     <1>15, <1>16 DEF Next, Step

THEOREM ApartInvariance ==
    ASSUME Exclusive
    PROVE  Spec => []SafeApart
<1> QED
  BY SafeApartInit, SafeApartStep, PTL DEF Spec

\* The entry a lookup reads without the lock is linked: nothing was freed
\* under it (cache.c:188-189, 197-213, 226).
THEOREM LookupsNeverReadFreedEntries ==
    ASSUME Exclusive
    PROVE  Spec => []LookupsReadListedEntries
<1>1. SafeApart => LookupsReadListedEntries
  BY DEF SafeApart, InfoListed, LookupsReadListedEntries
<1> QED
  BY <1>1, ApartInvariance, PTL

-----------------------------------------------------------------------------
(* The cache implements RenderAnswers.                                      *)

LEMMA InitRefines == Init => Abstract!Init
<1> SUFFICES ASSUME Init PROVE Abstract!Init
  OBVIOUS
<1>1. Range(head) = {}
  BY DEF Init, Range
<1> QED
  BY <1>1 DEF Init, Abstract!Init, Known, LooksUp, Of, LookupStates

LEMMA StepRefines ==
    ASSUME Exclusive
    PROVE  SafeApart /\ SafeApart' /\ [Next]_vars => [Abstract!Next]_(Abstract!vars)
<1> SUFFICES ASSUME SafeApart, SafeApart', [Next]_vars
             PROVE  Abstract!Next \/ UNCHANGED <<Known, LooksUp, returned>>
  BY DEF Abstract!vars
<1> USE NullAssumption
<1> USE DEF SafeApart, Safe, TypeOK, LookupStates, DisconnectStates, list, block, local, Goto
<1>1. ASSUME UNCHANGED head, \A e \in Range(head) : conn'[e] = conn[e] /\ answer'[e] = answer[e]
      PROVE  UNCHANGED Known
  BY <1>1 DEF Known, Of
<1>2. ASSUME NEW p \in Proc, NEW c \in Conn, Lookup(p, c) PROVE Abstract!Next
  <2>1. UNCHANGED <<Known, returned>>
    BY <1>1, <1>2 DEF Lookup
  <2>2. LooksUp[p] = {} /\ LooksUp' = [LooksUp EXCEPT ![p] = {c}]
    BY <1>2 DEF Lookup, LooksUp
  <2> QED
    BY <2>1, <2>2 DEF Abstract!Next, Abstract!Begin
<1>3. ASSUME NEW p \in Proc,
             \/ \E c \in Conn : Disconnect(p, c)
             \/ ReadCur(p) \/ CompareCur(p) \/ LockForLookup(p) \/ LockForDisconnect(p)
             \/ Found(p) \/ AllocationFails(p) \/ UnlockLookup(p)
             \/ DropNothing(p) \/ UnlockDisconnect(p)
      PROVE  UNCHANGED <<Known, LooksUp, returned>>
  <2>1. UNCHANGED <<head, conn, answer, returned>>
    BY <1>3 DEF Disconnect, ReadCur, CompareCur, LockForLookup, LockForDisconnect, Takes,
         Found, AllocationFails, UnlockLookup, DropNothing, UnlockDisconnect, Releases
  <2>2. \A q \in Proc : (pc'[q] \in LookupStates <=> pc[q] \in LookupStates)
                        /\ (pc[q] \in LookupStates => want'[q] = want[q])
    BY <1>3 DEF Disconnect, ReadCur, CompareCur, LockForLookup, LockForDisconnect, Takes,
         Found, AllocationFails, UnlockLookup, DropNothing, UnlockDisconnect, Releases
  <2>3. UNCHANGED LooksUp
    BY <2>2 DEF LooksUp
  <2> QED
    BY <1>1, <2>1, <2>3
<1>4. ASSUME NEW p \in Proc, Allocate(p) \/ Fetch(p)
      PROVE  UNCHANGED <<Known, LooksUp, returned>>
  <2>1. \A e \in Range(head) : conn'[e] = conn[e] /\ answer'[e] = answer[e]
    BY <1>4 DEF Allocate, Fetch, EntriesComplete, PendingNew
  <2>2. UNCHANGED <<head, want, returned>>
    BY <1>4 DEF Allocate, Fetch
  <2>3. \A q \in Proc : pc'[q] \in LookupStates <=> pc[q] \in LookupStates
    BY <1>4 DEF Allocate, Fetch
  <2> QED
    BY <1>1, <2>1, <2>2, <2>3 DEF LooksUp
<1>5. ASSUME NEW p \in Proc, Link(p) PROVE Abstract!Learn(want[p])
  <2>1. /\ want[p] \in Conn /\ info[p] \in heap \ Range(head) /\ conn[info[p]] = want[p]
        /\ \A e \in Range(head) : conn[e] # want[p]
        /\ answer[info[p]] \in PossibleAnswers(want[p])
        /\ IsInjective(head)
    BY <1>5 DEF Link, WantsOne, PendingNew, OneEach
  <2>2. Range(head') = Range(head) \cup {info[p]} /\ UNCHANGED <<conn, answer, want, returned>>
    BY <1>5, <2>1, PrependRange DEF Link
  <2>3. Of(want[p]) = {} /\ Of(want[p])' = {info[p]}
    BY <2>1, <2>2 DEF Of
  <2>4. \A c \in Conn \ {want[p]} : Of(c)' = Of(c)
    BY <2>1, <2>2 DEF Of
  <2>5. Known[want[p]] = {} /\ Known' = [Known EXCEPT ![want[p]] = {answer[info[p]]}]
    <3>1. ASSUME NEW c \in Conn, c = want[p]
          PROVE  Known[c] = {} /\ Known'[c] = {answer[info[p]]}
      <4>1. Of(c) = {} /\ Of(c)' = {info[p]}
        BY <2>2, <2>3, <3>1 DEF Of
      <4> QED
        BY <2>2, <4>1 DEF Known
    <3>2. ASSUME NEW c \in Conn \ {want[p]} PROVE Known'[c] = Known[c]
      BY <2>2, <2>4 DEF Known
    <3>3. Known[want[p]] = {} /\ \A c \in Conn : Known'[c] =
             [Known EXCEPT ![want[p]] = {answer[info[p]]}][c]
      BY <2>1, <3>1, <3>2 DEF Known
    <3> QED
      BY <3>3 DEF Known
  <2>6. UNCHANGED LooksUp /\ want[p] \in LooksUp[p]
    BY <1>5, <2>2 DEF Link, LooksUp
  <2> QED
    BY <2>1, <2>2, <2>5, <2>6 DEF Abstract!Learn
<1>6. ASSUME NEW p \in Proc, Return(p) PROVE Abstract!Return(p, want[p])
  <2>1. want[p] \in Conn /\ LooksUp[p] = {want[p]}
    BY <1>6 DEF Return, WantsOne, LooksUp
  <2>2. LooksUp' = [LooksUp EXCEPT ![p] = {}] /\ UNCHANGED Known
    BY <1>1, <1>6 DEF Return, LooksUp
  <2>3. CASE info[p] = Null
    BY <1>6, <2>1, <2>2, <2>3 DEF Return, Abstract!Return
  <2>4. CASE info[p] # Null
    <3>1. info[p] \in Of(want[p]) /\ info[p] \in heap
      BY <1>6, <2>4 DEF Return, InfoListed, EntriesComplete, Of
    <3>2. returned' = [returned EXCEPT ![p] = answer[info[p]]]
      BY <1>6, <2>4, <3>1 DEF Return
    <3>3. answer[info[p]] \in Known[want[p]]
      BY <2>1, <3>1 DEF Known
    <3> QED
      BY <2>1, <2>2, <3>2, <3>3 DEF Abstract!Return
  <2> QED
    BY <2>3, <2>4
<1>7. ASSUME NEW p \in Proc, Drop(p) PROVE Abstract!Forget(want[p])
  <2>1. PICK i \in 1 .. Len(head) :
           conn[head[i]] = want[p] /\ head' = RemoveAt(head, i) /\ Freed(head[i])
    BY <1>7 DEF Drop
  <2> DEFINE e == head[i]
  <2>2. e \in Entry /\ e \in Range(head)
    BY ElementOfSeq, LenProperties DEF Range
  <2>3. Range(head') = Range(head) \ {e}
    BY RemoveAtRange, <2>1 DEF OneEach
  <2>4. conn' = [conn EXCEPT ![e] = Null] /\ answer' = [answer EXCEPT ![e] = Garbage]
        /\ conn[e] = want[p]
    BY <2>1 DEF Freed
  <2> HIDE DEF e
  <2>5. want[p] \in Conn /\ \A q \in Proc : pc[q] \notin LookupStates
    BY <1>7 DEF Drop, WantsOne, Apart
  <2>6. Of(want[p])' = {}
    BY <1>7, <2>2, <2>3, <2>4 DEF Of, OneEach, Drop
  <2>7. \A c \in Conn \ {want[p]} : Of(c)' = Of(c) /\ e \notin Of(c)
    BY <2>2, <2>3, <2>4 DEF Of
  <2>8. Known' = [Known EXCEPT ![want[p]] = {}]
    <3>1. ASSUME NEW c \in Conn \ {want[p]} PROVE Known'[c] = Known[c]
      <4>1. Of(c)' = Of(c) /\ \A f \in Of(c) : answer'[f] = answer[f]
        BY <2>4, <2>7 DEF Of
      <4> QED
        BY <4>1 DEF Known
    <3>2. ASSUME NEW c \in Conn, c = want[p] PROVE Known'[c] = {}
      <4>1. Of(c)' = {}
        BY <1>7, <2>6, <3>2 DEF Of, Drop
      <4> QED
        BY <4>1 DEF Known
    <3> QED
      BY <2>5, <3>1, <3>2 DEF Known
  <2>9. UNCHANGED <<LooksUp, returned>> /\ \A q \in Proc : LooksUp[q] = {}
    BY <1>7, <2>5 DEF Drop, LooksUp
  <2> QED
    BY <2>8, <2>9 DEF Abstract!Forget
<1>8. ASSUME UNCHANGED vars PROVE UNCHANGED <<Known, LooksUp, returned>>
  <2>1. UNCHANGED <<head, conn, answer, pc, want, returned>>
    BY <1>8 DEF vars
  <2> QED
    BY <2>1 DEF Known, LooksUp, Of
<1>9. ASSUME NEW p \in Proc, pc[p] # "idle" PROVE want[p] \in Conn
  BY <1>9 DEF WantsOne
<1>10. ASSUME NEW p \in Proc, Link(p) \/ Return(p) \/ Drop(p) PROVE Abstract!Next
  <2>1. want[p] \in Conn
    BY <1>9, <1>10 DEF Link, Return, Drop
  <2> QED
    BY <1>5, <1>6, <1>7, <1>10, <2>1 DEF Abstract!Next
<1> HIDE DEF SafeApart
<1> QED
  BY <1>2, <1>3, <1>4, <1>8, <1>10 DEF Next, Step

\* Lookups return what the connection's server can have said, the same until
\* the connection is dropped, or that Render is absent.
THEOREM CacheImplementsAnswers ==
    ASSUME Exclusive
    PROVE  Spec => ImplementsRenderAnswers
<1> QED
  BY ApartInvariance, InitRefines, StepRefines, PTL
  DEF Spec, ImplementsRenderAnswers, Abstract!Spec

-----------------------------------------------------------------------------
(* Glyph streams.                                                           *)

(* The inductive invariant: the buffer still has the worst case's room for  *)
(* every glyph and every change that is still to come.                      *)

Room ==
    kept /\ glyph_pc # "none" =>
        /\ promised.glyphs >= 0 /\ promised.changes >= 0
        /\ 4 * Len(stream) + 12 * (promised.glyphs + promised.changes) <= stream_len

Fresh == glyph_pc = "none" => kept /\ stream = <<>>

GlyphSafe == Glyphs!TypeOK /\ Room /\ Fresh /\ Glyphs!PromiseSuffices

LEMMA PackedBounds ==
    ASSUME NEW size \in {1, 2, 4}, NEW n \in Nat
    PROVE  Glyphs!Packed(size, n) \in Nat /\ (n > 0 => Glyphs!Packed(size, n) <= n)
<1>1. CASE size = 1
  BY <1>1 DEF Glyphs!Packed
<1>2. CASE size = 2
  BY <1>2 DEF Glyphs!Packed
<1>3. CASE size = 4
  BY <1>3 DEF Glyphs!Packed
<1> QED
  BY <1>1, <1>2, <1>3

LEMMA Doubled ==
    ASSUME NEW x \in Nat, Glyphs!Aligned(x)
    PROVE  2 * x \in Nat /\ Glyphs!Aligned(2 * x) /\ 2 * x >= x
  BY DEF Glyphs!Aligned

\* What a writer leaves behind.
LEMMA Written ==
    ASSUME NEW s \in Seq(Nat), NEW words \in Seq(Nat)
    PROVE  s \o words \in Seq(Nat) /\ Len(s \o words) = Len(s) + Len(words)
  BY ConcatProperties

\* The room that glyphs and changes give up is as much as they need.
LEMMA RoomLeft ==
    ASSUME NEW len \in Nat, NEW more \in Nat, NEW bytes \in Nat, NEW larger \in Nat,
           NEW g \in Nat, NEW c \in Nat, NEW n \in 0 .. g, NEW m \in 0 .. c,
           4 * len + 12 * (g + c) <= bytes, bytes <= larger, more <= 3 * (n + m)
    PROVE  /\ 4 * (len + more) + 12 * ((g - n) + (c - m)) <= larger
           /\ 4 * (len + more) <= larger
  OBVIOUS

LEMMA Repeated ==
    ASSUME NEW k \in Nat, NEW x \in Nat
    PROVE  [i \in 1 .. k |-> x] \in Seq(Nat) /\ Len([i \in 1 .. k |-> x]) = k
  OBVIOUS

LEMMA GlyphSafeInit ==
    Glyphs!Init => GlyphSafe
<1> USE StreamAssumption DEF Glyphs!NumberAssumption
<1> SUFFICES ASSUME Glyphs!Init PROVE GlyphSafe
  OBVIOUS
<1>1. Glyphs!TypeOK
  BY DEF Glyphs!Init, Glyphs!TypeOK, Glyphs!Aligned
<1> QED
  BY <1>1 DEF Glyphs!Init, GlyphSafe, Room, Fresh, Glyphs!PromiseSuffices

LEMMA GlyphSafeStep ==
    GlyphSafe /\ [Glyphs!Next]_(Glyphs!vars) => GlyphSafe'
<1>a. /\ Count \subseteq Nat /\ Total \subseteq Nat /\ MaxCalls \in Nat /\ Marker \in Nat
      /\ Glyphset \subseteq Nat /\ Offset \subseteq Nat /\ Glyph \subseteq Nat
  BY StreamAssumption DEF Glyphs!NumberAssumption, Glyphs!LimitAssumption
<1> SUFFICES ASSUME GlyphSafe, [Glyphs!Next]_(Glyphs!vars) PROVE GlyphSafe'
  OBVIOUS
<1>1. Glyphs!TypeOK /\ Room /\ Fresh /\ Glyphs!PromiseSuffices
  BY DEF GlyphSafe
<1>0. /\ stream \in Seq(Nat) /\ Len(stream) \in Nat /\ stream_len \in Nat /\ Glyphs!Aligned(stream_len)
      /\ calls \in 0 .. MaxCalls /\ promised \in [glyphs : Int, changes : Int]
      /\ promised.glyphs \in Int /\ promised.changes \in Int
  BY <1>1, LenProperties DEF Glyphs!TypeOK
<1>00. MaxCalls \in Nat
  BY <1>a
<1>2. ASSUME NEW n \in Total, NEW m \in Total,
             Glyphs!xcb_render_util_composite_text_stream(n, m)
      PROVE  GlyphSafe'
  <2>1. n \in Nat /\ m \in Nat /\ stream = <<>> /\ Len(stream) = 0
    BY <1>1, <1>a, <1>2 DEF Glyphs!xcb_render_util_composite_text_stream, Fresh
  <2>2. Glyphs!WorstCaseBytes(n, m) \in Nat /\ Glyphs!Aligned(Glyphs!WorstCaseBytes(n, m))
        /\ 12 * (n + m) <= Glyphs!WorstCaseBytes(n, m)
    BY <2>1 DEF Glyphs!WorstCaseBytes, Glyphs!Aligned
  <2>3. Glyphs!TypeOK'
    BY <1>1, <1>2, <2>1, <2>2 DEF Glyphs!xcb_render_util_composite_text_stream, Glyphs!TypeOK
  <2>4. Room' /\ Fresh' /\ Glyphs!PromiseSuffices'
    BY <1>1, <1>2, <2>1, <2>2
    DEF Glyphs!xcb_render_util_composite_text_stream, Room, Fresh, Glyphs!PromiseSuffices
  <2> QED
    BY <2>3, <2>4 DEF GlyphSafe
<1>3. ASSUME NEW size \in {1, 2, 4}, NEW offset \in Offset, NEW n \in Count,
             NEW glyph \in Glyph, Glyphs!glyphs(size, offset, n, glyph)
      PROVE  GlyphSafe'
  <2> DEFINE words == <<n, offset>> \o [i \in 1 .. Glyphs!Packed(size, n) |-> glyph]
  <2>1. n \in Nat /\ offset \in Nat /\ glyph \in Nat
    BY <1>a
  <2>2. Glyphs!Packed(size, n) \in Nat /\ (n > 0 => Glyphs!Packed(size, n) <= n)
    BY <2>1, PackedBounds
  <2>3. words \in Seq(Nat) /\ Len(words) = 2 + Glyphs!Packed(size, n)
    <3>1. [i \in 1 .. Glyphs!Packed(size, n) |-> glyph] \in Seq(Nat)
          /\ Len([i \in 1 .. Glyphs!Packed(size, n) |-> glyph]) = Glyphs!Packed(size, n)
      BY <2>1, <2>2, Repeated
    <3>2. <<n, offset>> \in Seq(Nat) /\ Len(<<n, offset>>) = 2
      BY <2>1
    <3> QED
      BY <3>1, <3>2, Written
  <2>4. /\ stream' = stream \o words
        /\ glyph_pc' = IF 4 * Len(stream \o words) > stream_len' THEN "overrun" ELSE "open"
        /\ stream_len' \in {stream_len, 2 * stream_len}
    BY <1>3 DEF Glyphs!glyphs, Glyphs!Write, Glyphs!_grow_stream
  <2> HIDE DEF words
  <2>5. /\ calls < MaxCalls /\ calls' = calls + 1 /\ glyph_size' = size
        /\ promised' = [promised EXCEPT !.glyphs = @ - n]
        /\ kept' \in BOOLEAN /\ (kept' => kept /\ n > 0 /\ n <= promised.glyphs)
        /\ UNCHANGED <<initial_glyphset, current_glyphset, chosen>>
    BY <1>3 DEF Glyphs!glyphs
  <2>6. stream' \in Seq(Nat) /\ Len(stream') = Len(stream) + (2 + Glyphs!Packed(size, n))
    BY <1>0, <2>2, <2>3, <2>4, Written
  <2>7. stream_len' \in Nat /\ Glyphs!Aligned(stream_len') /\ stream_len <= stream_len'
    <3>1. 2 * stream_len \in Nat /\ Glyphs!Aligned(2 * stream_len) /\ 2 * stream_len >= stream_len
      BY <1>0, Doubled
    <3>2. CASE stream_len' = stream_len
      BY <1>0, <3>2
    <3>3. CASE stream_len' = 2 * stream_len
      BY <1>0, <3>1, <3>3
    <3> QED
      BY <2>4, <3>2, <3>3
  <2>8. glyph_pc' = IF 4 * Len(stream') > stream_len' THEN "overrun" ELSE "open"
    BY <2>4
  <2>9. calls' \in 0 .. MaxCalls /\ glyph_pc # "none"
    <3>1. glyph_pc # "none"
      BY <1>3 DEF Glyphs!glyphs
    <3>2. calls' \in 0 .. MaxCalls
      <4>1. calls \in 0 .. MaxCalls
        BY <1>0
      <4>2. calls < MaxCalls /\ calls' = calls + 1
        BY <2>5
      <4> QED
        BY <1>00, <4>1, <4>2
    <3> QED
      BY <3>1, <3>2
  <2>10. /\ promised' \in [glyphs : Int, changes : Int]
         /\ promised'.glyphs = promised.glyphs - n /\ promised'.changes = promised.changes
    <3>1. promised.glyphs - n \in Int
      BY <1>0, <2>1
    <3> QED
      BY <1>0, <2>5, <3>1
  <2>11. Glyphs!TypeOK'
    BY <1>1, <2>5, <2>6, <2>7, <2>8, <2>9, <2>10 DEF Glyphs!TypeOK
  <2>12. ASSUME kept'
         PROVE  /\ promised'.glyphs >= 0 /\ promised'.changes >= 0
                /\ 4 * Len(stream') + 12 * (promised'.glyphs + promised'.changes) <= stream_len'
                /\ glyph_pc' # "overrun"
    <3>1. kept /\ n > 0 /\ n <= promised.glyphs /\ Glyphs!Packed(size, n) <= n
      BY <2>2, <2>5, <2>12
    <3>2. /\ promised.glyphs \in Nat /\ promised.changes \in Nat
          /\ 4 * Len(stream) + 12 * (promised.glyphs + promised.changes) <= stream_len
      BY <1>0, <1>1, <2>9, <3>1 DEF Room
    <3>3. 2 + Glyphs!Packed(size, n) \in Nat /\ 2 + Glyphs!Packed(size, n) <= 3 * (n + 0)
      BY <2>1, <2>2, <3>1
    <3>4. n \in 0 .. promised.glyphs /\ 0 \in 0 .. promised.changes
      BY <2>1, <3>1, <3>2
    <3>5. /\ 4 * Len(stream') + 12 * ((promised.glyphs - n) + (promised.changes - 0))
                 <= stream_len'
          /\ 4 * Len(stream') <= stream_len'
      <4>1. Len(stream) \in Nat /\ stream_len \in Nat /\ stream_len' \in Nat
            /\ stream_len <= stream_len'
        BY <1>0, <2>7
      <4>2. Len(stream') = Len(stream) + (2 + Glyphs!Packed(size, n))
        BY <2>6
      <4> DEFINE g == promised.glyphs
                 c == promised.changes
                 more == 2 + Glyphs!Packed(size, n)
      <4>3. /\ g \in Nat /\ c \in Nat /\ more \in Nat /\ n \in 0 .. g /\ 0 \in 0 .. c
            /\ 4 * Len(stream) + 12 * (g + c) <= stream_len /\ more <= 3 * (n + 0)
            /\ Len(stream') = Len(stream) + more
        BY <3>2, <3>3, <3>4, <4>2
      <4> HIDE DEF g, c, more
      <4>4. /\ 4 * (Len(stream) + more) + 12 * ((g - n) + (c - 0)) <= stream_len'
            /\ 4 * (Len(stream) + more) <= stream_len'
        BY <4>1, <4>3, RoomLeft
      <4> QED
        BY <4>3, <4>4 DEF g, c
    <3>6. ~(4 * Len(stream') > stream_len')
      <4>1. Len(stream') \in Int /\ stream_len' \in Int
        BY <2>6, <2>7, LenProperties
      <4> QED
        BY <3>5, <4>1
    <3>7. promised'.glyphs >= 0 /\ promised'.changes >= 0
          /\ promised'.glyphs + promised'.changes = (promised.glyphs - n) + (promised.changes - 0)
      <4>1. promised'.glyphs = promised.glyphs - n /\ promised'.changes = promised.changes
        BY <2>10
      <4>2. promised.glyphs - n >= 0 /\ promised.changes - 0 = promised.changes
        BY <2>1, <3>1, <3>2
      <4>3. promised.changes >= 0
        BY <3>2
      <4> QED
        BY <4>1, <4>2, <4>3
    <3>8. glyph_pc' # "overrun"
      BY <2>8, <3>6
    <3> QED
      BY <3>5, <3>7, <3>8
  <2>13. Room' /\ Glyphs!PromiseSuffices' /\ Fresh'
    BY <2>8, <2>12 DEF Room, Glyphs!PromiseSuffices, Fresh
  <2> QED
    BY <2>11, <2>13 DEF GlyphSafe
<1>4. ASSUME NEW glyphset \in Glyphset, Glyphs!xcb_render_util_change_glyphset(glyphset)
      PROVE  GlyphSafe'
  <2> DEFINE words == <<Marker, 0, glyphset>>
  <2>1. words \in Seq(Nat) /\ Len(words) = 3
    BY <1>a
  <2>2. /\ stream' = stream \o words
        /\ glyph_pc' = IF 4 * Len(stream \o words) > stream_len' THEN "overrun" ELSE "open"
        /\ stream_len' \in {stream_len, 2 * stream_len}
    BY <1>4 DEF Glyphs!xcb_render_util_change_glyphset, Glyphs!Write, Glyphs!_grow_stream
  <2> HIDE DEF words
  <2>3. /\ calls < MaxCalls /\ calls' = calls + 1
        /\ current_glyphset' = glyphset /\ chosen' = glyphset
        /\ promised' = [promised EXCEPT !.changes = @ - 1]
        /\ kept' \in BOOLEAN /\ (kept' => kept /\ promised.changes > 0)
        /\ UNCHANGED <<glyph_size, initial_glyphset>>
    BY <1>4 DEF Glyphs!xcb_render_util_change_glyphset
  <2>4. stream' \in Seq(Nat) /\ Len(stream') = Len(stream) + 3
    BY <1>0, <2>1, <2>2, Written
  <2>5. stream_len' \in Nat /\ Glyphs!Aligned(stream_len') /\ stream_len <= stream_len'
    <3>1. 2 * stream_len \in Nat /\ Glyphs!Aligned(2 * stream_len) /\ 2 * stream_len >= stream_len
      BY <1>0, Doubled
    <3>2. CASE stream_len' = stream_len
      BY <1>0, <3>2
    <3>3. CASE stream_len' = 2 * stream_len
      BY <1>0, <3>1, <3>3
    <3> QED
      BY <2>2, <3>2, <3>3
  <2>6. glyph_pc' = IF 4 * Len(stream') > stream_len' THEN "overrun" ELSE "open"
    BY <2>2
  <2>7. calls' \in 0 .. MaxCalls /\ glyph_pc # "none"
    <3>1. glyph_pc # "none"
      BY <1>4 DEF Glyphs!xcb_render_util_change_glyphset
    <3>2. calls \in 0 .. MaxCalls
      BY <1>0
    <3>3. calls < MaxCalls /\ calls' = calls + 1
      BY <2>3
    <3> QED
      BY <1>00, <3>1, <3>2, <3>3
  <2>8. /\ promised' \in [glyphs : Int, changes : Int]
        /\ promised'.changes = promised.changes - 1 /\ promised'.glyphs = promised.glyphs
    <3>1. promised.changes - 1 \in Int
      BY <1>0
    <3> QED
      BY <1>0, <2>3, <3>1
  <2>9. Glyphs!TypeOK'
    BY <1>1, <2>3, <2>4, <2>5, <2>6, <2>7, <2>8 DEF Glyphs!TypeOK
  <2>10. ASSUME kept'
         PROVE  /\ promised'.glyphs >= 0 /\ promised'.changes >= 0
                /\ 4 * Len(stream') + 12 * (promised'.glyphs + promised'.changes) <= stream_len'
                /\ glyph_pc' # "overrun"
    <3>1. /\ kept /\ promised.changes > 0
          /\ promised.glyphs \in Nat /\ promised.changes \in Nat
          /\ 4 * Len(stream) + 12 * (promised.glyphs + promised.changes) <= stream_len
      BY <1>0, <1>1, <2>3, <2>7, <2>10 DEF Room
    <3>2. /\ 4 * Len(stream') + 12 * ((promised.glyphs - 0) + (promised.changes - 1))
                 <= stream_len'
          /\ 4 * Len(stream') <= stream_len'
      <4>1. 0 \in 0 .. promised.glyphs /\ 1 \in 0 .. promised.changes /\ 3 <= 3 * (0 + 1)
        BY <3>1
      <4>2. Len(stream) \in Nat /\ stream_len \in Nat /\ stream_len' \in Nat
            /\ stream_len <= stream_len'
        BY <1>0, <2>5
      <4>3. Len(stream') = Len(stream) + 3
        BY <2>4
      <4> QED
        BY <3>1, <4>1, <4>2, <4>3, RoomLeft
    <3>3. ~(4 * Len(stream') > stream_len')
      <4>1. Len(stream') \in Int /\ stream_len' \in Int
        BY <2>4, <2>5, LenProperties
      <4> QED
        BY <3>2, <4>1
    <3>4. promised'.glyphs >= 0 /\ promised'.changes >= 0
          /\ promised'.glyphs + promised'.changes = (promised.glyphs - 0) + (promised.changes - 1)
      <4>1. promised'.glyphs = promised.glyphs /\ promised'.changes = promised.changes - 1
        BY <2>8
      <4>2. promised.changes - 1 >= 0 /\ promised.glyphs - 0 = promised.glyphs
        BY <3>1
      <4>3. promised.glyphs >= 0
        BY <3>1
      <4> QED
        BY <4>1, <4>2, <4>3
    <3> QED
      BY <2>6, <3>2, <3>3, <3>4
  <2>11. Room' /\ Glyphs!PromiseSuffices' /\ Fresh'
    BY <2>6, <2>10 DEF Room, Glyphs!PromiseSuffices, Fresh
  <2> QED
    BY <2>9, <2>11 DEF GlyphSafe
<1>5. ASSUME NEW glyphset \in Glyphset, Glyphs!KeepGlyphset(glyphset) PROVE GlyphSafe'
  <2>1. Glyphs!TypeOK'
    <3>1. calls' \in 0 .. MaxCalls
      BY <1>0, <1>00, <1>5 DEF Glyphs!KeepGlyphset
    <3> QED
      BY <1>1, <1>5, <3>1 DEF Glyphs!KeepGlyphset, Glyphs!TypeOK
  <2>2. /\ glyph_pc \notin {"none", "overrun"} /\ glyph_pc' = glyph_pc /\ stream' = stream /\ stream_len' = stream_len
        /\ promised' = promised /\ kept' = kept
    BY <1>5 DEF Glyphs!KeepGlyphset
  <2>3. Room'
    BY <1>1, <2>2 DEF Room
  <2>4. Fresh' /\ Glyphs!PromiseSuffices'
    BY <2>2 DEF Fresh, Glyphs!PromiseSuffices
  <2> QED
    BY <2>1, <2>3, <2>4 DEF GlyphSafe
<1>6. ASSUME Glyphs!xcb_render_util_composite_text \/ Glyphs!xcb_render_util_composite_text_free
      PROVE  GlyphSafe'
  <2>1. Glyphs!TypeOK'
    BY <1>1, <1>6
    DEF Glyphs!xcb_render_util_composite_text, Glyphs!xcb_render_util_composite_text_free, Glyphs!TypeOK
  <2>2. /\ glyph_pc # "none" /\ glyph_pc' \notin {"none", "overrun"}
        /\ stream' = stream /\ stream_len' = stream_len
        /\ promised' = promised /\ kept' = kept
    BY <1>6 DEF Glyphs!xcb_render_util_composite_text, Glyphs!xcb_render_util_composite_text_free
  <2>3. Room'
    BY <1>1, <2>2 DEF Room
  <2>4. Fresh' /\ Glyphs!PromiseSuffices'
    BY <2>2 DEF Fresh, Glyphs!PromiseSuffices
  <2> QED
    BY <2>1, <2>3, <2>4 DEF GlyphSafe
<1>7. CASE UNCHANGED Glyphs!vars
  BY <1>1, <1>7 DEF Glyphs!vars, GlyphSafe, Glyphs!TypeOK, Room, Fresh, Glyphs!PromiseSuffices
<1> QED
  BY <1>2, <1>3, <1>4, <1>5, <1>6, <1>7 DEF Glyphs!Next

THEOREM GlyphInvariance == Glyphs!Spec => []GlyphSafe
<1> QED
  BY GlyphSafeInit, GlyphSafeStep, PTL DEF Glyphs!Spec

\* The two parts of renderutil do not disturb each other: whatever program
\* uses it, the cache behaves as RenderCache and the stream as GlyphStream.
THEOREM PartsBehave == UtilSpec => Spec /\ Glyphs!Spec
<1>1. UtilInit => Init /\ Glyphs!Init
  BY DEF UtilInit
<1>2. [UtilNext]_<<streaming, vars, stream_vars>> => [Next]_vars /\ [Glyphs!Next]_(Glyphs!vars)
  <2> SUFFICES ASSUME [UtilNext]_<<streaming, vars, stream_vars>>
               PROVE  [Next]_vars /\ [Glyphs!Next]_(Glyphs!vars)
    OBVIOUS
  <2>1. Next \/ UNCHANGED vars
    BY DEF UtilNext
  <2>2. Glyphs!Next \/ UNCHANGED stream_vars
    BY DEF UtilNext
  <2>3. UNCHANGED stream_vars => UNCHANGED Glyphs!vars
    BY DEF stream_vars, Glyphs!vars
  <2> QED
    BY <2>1, <2>2, <2>3
<1> QED
  BY <1>1, <1>2, PTL DEF UtilSpec, Spec, Glyphs!Spec

\* The buffer is always a whole number of words; the types of the variables.
THEOREM StreamTypes == UtilSpec => []Glyphs!TypeOK
<1>1. GlyphSafe => Glyphs!TypeOK
  BY DEF GlyphSafe
<1> QED
  BY <1>1, GlyphInvariance, PartsBehave, PTL

\* The worst case that glyph.c:62 assumes is one: no client that keeps to its
\* announcement makes the stream longer than the buffer, realloc or not.
THEOREM AnnouncementSuffices == UtilSpec => []PromiseSuffices
<1>1. GlyphSafe => PromiseSuffices
  BY DEF GlyphSafe, PromiseSuffices
<1> QED
  BY <1>1, GlyphInvariance, PartsBehave, PTL

-----------------------------------------------------------------------------
(* What the server draws.  It reads word by word, so what it makes of a      *)
(* stream is what it makes of one more word after what it made of the rest. *)

\* A set of numbers that has any has a least one.
LEMMA LeastOf ==
    ASSUME NEW S \in SUBSET Nat, S # {}
    PROVE  \E k \in S : \A j \in S : ~(j < k)
<1>1. IsWellFoundedOn(OpToRel(<, Nat), Nat)
  BY NatLessThanWellFounded
<1>2. PICK k \in S : \A j \in S : <<j, k>> \notin OpToRel(<, Nat)
  BY <1>1, WFMin
<1> QED
  BY <1>2, Zenon DEF OpToRel

\* The server before it has read anything.
Start(glyphset) ==
    [place |-> 0, number |-> 0, offset |-> 0, glyphset |-> glyphset, drawn |-> <<>>]

\* after is what Served builds, as far as word n.
Reads(after, size, glyphset, words, n) ==
    after = [i \in 0 .. n |-> IF i = 0 THEN Start(glyphset)
                              ELSE Glyphs!AfterWord(size, after[i - 1], words[i])]

\* There is such a function: no number of words is the least without one;
LEMMA ReadsExists ==
    ASSUME NEW size, NEW glyphset, NEW words, NEW n \in Nat
    PROVE  \E after : Reads(after, size, glyphset, words, n)
<1> DEFINE Missing == {k \in Nat : ~\E after : Reads(after, size, glyphset, words, k)}
<1>1. SUFFICES ASSUME Missing # {} PROVE FALSE
  OBVIOUS
<1>2. PICK k \in Missing : \A j \in Missing : ~(j < k)
  BY <1>1, LeastOf
<1>3. k # 0
  <2>1. Reads([j \in 0 .. 0 |-> Start(glyphset)], size, glyphset, words, 0)
    BY DEF Reads
  <2> QED
    BY <2>1
<1>4. PICK after : Reads(after, size, glyphset, words, k - 1)
  BY <1>2, <1>3
<1> DEFINE more == [j \in 0 .. k |-> IF j < k THEN after[j]
                                     ELSE Glyphs!AfterWord(size, after[k - 1], words[k])]
<1>5. Reads(more, size, glyphset, words, k)
  <2>1. \A j \in 0 .. k :
           more[j] = IF j = 0 THEN Start(glyphset) ELSE Glyphs!AfterWord(size, more[j - 1], words[j])
    BY <1>3, <1>4 DEF Reads
  <2> QED
    BY <2>1 DEF Reads
<1> QED
  BY <1>5

\* and only one, whatever words follow: none is the first to differ.
LEMMA ReadsOnce ==
    ASSUME NEW size, NEW glyphset, NEW n \in Nat, NEW m \in Nat, n <= m, NEW words, NEW more,
           \A i \in 1 .. n : words[i] = more[i],
           NEW a, Reads(a, size, glyphset, words, n), NEW b, Reads(b, size, glyphset, more, m)
    PROVE  a[n] = b[n]
<1> DEFINE Differ == {i \in 0 .. n : a[i] # b[i]}
<1>1. SUFFICES ASSUME Differ # {} PROVE FALSE
  OBVIOUS
<1>2. PICK k \in Differ : \A j \in Differ : ~(j < k)
  <2>1. Differ \in SUBSET Nat
    OBVIOUS
  <2> QED
    BY <1>1, <2>1, LeastOf
<1>3. /\ a[k] = IF k = 0 THEN Start(glyphset) ELSE Glyphs!AfterWord(size, a[k - 1], words[k])
      /\ b[k] = IF k = 0 THEN Start(glyphset) ELSE Glyphs!AfterWord(size, b[k - 1], more[k])
  BY DEF Reads
<1>4. k # 0
  BY <1>3
<1>5. a[k - 1] = b[k - 1] /\ words[k] = more[k]
  BY <1>2, <1>4
<1> QED
  BY <1>3, <1>4, <1>5

\* What a server makes of a stream is what such a function says.
LEMMA ServedIs ==
    ASSUME NEW size, NEW glyphset, NEW words \in Seq(Nat)
    PROVE  \E after : /\ Reads(after, size, glyphset, words, Len(words))
                      /\ Glyphs!Served(size, glyphset, words) = after[Len(words)]
<1> DEFINE after == CHOOSE f : Reads(f, size, glyphset, words, Len(words))
<1>1. Len(words) \in Nat
  BY LenProperties
<1>2. Reads(after, size, glyphset, words, Len(words))
  BY <1>1, ReadsExists
<1>3. Glyphs!Served(size, glyphset, words) = after[Len(words)]
  BY DEF Glyphs!Served, Reads, Start
<1> QED
  BY <1>2, <1>3

\* Nothing is drawn before the first word.
LEMMA ServedNothing ==
    ASSUME NEW size, NEW glyphset
    PROVE  Glyphs!Served(size, glyphset, <<>>) = Start(glyphset)
<1> DEFINE none == <<>>
<1>1. none \in Seq(Nat) /\ Len(none) = 0
  OBVIOUS
<1> HIDE DEF none
<1>2. PICK after : Reads(after, size, glyphset, none, 0)
                   /\ Glyphs!Served(size, glyphset, none) = after[0]
  BY <1>1, ServedIs
<1>3. after[0] = Start(glyphset)
  BY <1>2 DEF Reads
<1> QED
  BY <1>2, <1>3 DEF none

\* Words before words: a name for \o, which the prover would take apart.
Cat(s, t) == s \o t

\* Sequences of words, joined from the left or from the right.
LEMMA Joined ==
    ASSUME NEW s \in Seq(Nat), NEW t \in Seq(Nat), NEW u \in Seq(Nat)
    PROVE  Cat(s, t) \in Seq(Nat) /\ Cat(Cat(s, t), u) = Cat(s, Cat(t, u))
<1>1. s \o t \in Seq(Nat)
  BY ConcatProperties
<1>2. (s \o t) \o u = s \o (t \o u)
  BY ConcatAssociative
<1> QED
  BY <1>1, <1>2 DEF Cat

\* A stream with one more word.
More(words, word) == Cat(words, <<word>>)

\* What a server that has read a stream makes of one more word.
LEMMA ServedWord ==
    ASSUME NEW size, NEW glyphset, NEW words \in Seq(Nat), NEW word \in Nat
    PROVE  /\ More(words, word) \in Seq(Nat)
           /\ Glyphs!Served(size, glyphset, More(words, word))
                 = Glyphs!AfterWord(size, Glyphs!Served(size, glyphset, words), word)
<1> DEFINE n    == Len(words)
           more == More(words, word)
<1>1. /\ n \in Nat /\ more \in Seq(Nat) /\ Len(more) = n + 1 /\ more[n + 1] = word
      /\ \A i \in 1 .. n : words[i] = more[i]
  BY AppendProperties, AppendIsConcat, LenProperties DEF More, Cat
<1>2. PICK a : Reads(a, size, glyphset, words, n) /\ Glyphs!Served(size, glyphset, words) = a[n]
  BY ServedIs
<1> HIDE DEF n, more
<1>3. PICK b : Reads(b, size, glyphset, more, n + 1)
               /\ Glyphs!Served(size, glyphset, more) = b[n + 1]
  BY <1>1, ServedIs
<1>4. a[n] = b[n]
  BY <1>1, <1>2, <1>3, ReadsOnce
<1>5. b[n + 1] = Glyphs!AfterWord(size, b[n], word)
  BY <1>1, <1>3 DEF Reads
<1> QED
  BY <1>1, <1>2, <1>3, <1>4, <1>5 DEF more

\* How many words glyphs fill; none only if there are none.
LEMMA PackedNone ==
    ASSUME NEW size \in {1, 2, 4}, NEW n \in Nat
    PROVE  Glyphs!Packed(size, n) \in Nat /\ (Glyphs!Packed(size, n) = 0 <=> n = 0)
<1>1. CASE size = 1
  BY <1>1 DEF Glyphs!Packed
<1>2. CASE size = 2
  BY <1>2 DEF Glyphs!Packed
<1>3. CASE size = 4
  BY <1>3 DEF Glyphs!Packed
<1> QED
  BY <1>1, <1>2, <1>3

\* A run as it is written, as far as its j-th word of glyphs.
RunUpTo(words, n, offset, glyph, j) ==
    Cat(words, Cat(<<n, offset>>, [i \in 1 .. j |-> glyph]))

\* It begins with its two numbers and grows by one word at a time.
LEMMA RunGrows ==
    ASSUME NEW words \in Seq(Nat), NEW n \in Nat, NEW offset \in Nat, NEW glyph \in Nat,
           NEW j \in Nat
    PROVE  /\ RunUpTo(words, n, offset, glyph, 0) = More(More(words, n), offset)
           /\ RunUpTo(words, n, offset, glyph, j) \in Seq(Nat)
           /\ RunUpTo(words, n, offset, glyph, j + 1)
                 = More(RunUpTo(words, n, offset, glyph, j), glyph)
<1> DEFINE body(k) == [i \in 1 .. k |-> glyph]
           front   == <<n, offset>>
           first   == <<n>>
           second  == <<offset>>
           last    == <<glyph>>
           rest    == body(j)
<1>1. \A k \in Nat : body(k) \in Seq(Nat) /\ Len(body(k)) = k /\ \A i \in 1 .. k : body(k)[i] = glyph
  OBVIOUS
<1>2. /\ front \in Seq(Nat) /\ first \in Seq(Nat) /\ second \in Seq(Nat) /\ last \in Seq(Nat)
      /\ body(0) = <<>>
  OBVIOUS
<1>3. front = Cat(first, second)
  <2>1. front = Append(first, offset)
    OBVIOUS
  <2>2. Append(first, offset) = first \o second
    BY <1>2, AppendIsConcat
  <2> QED
    BY <2>1, <2>2 DEF Cat
<1> HIDE DEF front, first, second, body
<1>4. rest \in Seq(Nat) /\ body(j + 1) = Cat(rest, last)
  <2>1. rest \in Seq(Nat) /\ Len(rest) = j /\ \A i \in 1 .. j : rest[i] = glyph
    BY <1>1
  <2> DEFINE more == Append(rest, glyph)
  <2> HIDE DEF rest
  <2>2. more \in Seq(Nat) /\ Len(more) = j + 1
    BY <2>1, AppendProperties
  <2>3. ASSUME NEW i \in 1 .. j + 1 PROVE more[i] = glyph
    BY <2>1, AppendProperties
  <2>4. more = Cat(rest, last)
    BY <2>1, AppendIsConcat DEF Cat
  <2> HIDE DEF more, last
  <2>5. body(j + 1) = more
    BY <1>1, <2>2, <2>3, SeqEqual
  <2> QED
    BY <2>1, <2>4, <2>5
<1>5. Cat(words, Cat(front, body(0))) = More(More(words, n), offset)
  <2>1. Cat(front, body(0)) = front
    BY <1>2, ConcatEmptySeq DEF Cat
  <2> HIDE DEF last, rest
  <2>2. Cat(words, Cat(first, second)) = Cat(Cat(words, first), second)
    BY <1>2, Joined
  <2> QED
    BY <1>3, <2>1, <2>2 DEF More, first, second
<1>6. /\ Cat(words, Cat(front, rest)) \in Seq(Nat)
      /\ Cat(words, Cat(front, body(j + 1))) = More(Cat(words, Cat(front, rest)), glyph)
  <2> HIDE DEF last, rest
  <2>1. Cat(words, Cat(front, rest)) \in Seq(Nat)
    BY <1>2, <1>4, Joined
  <2>2. Cat(words, Cat(front, Cat(rest, last))) = Cat(Cat(words, Cat(front, rest)), last)
    BY <1>2, <1>4, Joined
  <2> QED
    BY <1>4, <2>1, <2>2 DEF More, last
<1>7. ASSUME NEW k PROVE Cat(words, Cat(front, body(k))) = RunUpTo(words, n, offset, glyph, k)
  BY DEF RunUpTo, front, body
<1> HIDE DEF last
<1> QED
  BY <1>5, <1>6, <1>7

\* What is drawn once a run is drawn, too.
WithRun(runs, glyphset, n, offset, glyph) ==
    Append(runs, [glyphset |-> glyphset, offset |-> offset, count |-> n,
                  glyph |-> IF n = 0 THEN 0 ELSE glyph])

\* A run is drawn as it is meant, with the glyph set that is in use.
LEMMA RunIsDrawn ==
    ASSUME NEW size \in {1, 2, 4}, NEW initial, NEW words \in Seq(Nat), NEW n \in Nat, n # Marker,
           NEW offset \in Nat, NEW glyph \in Nat,
           Glyphs!Served(size, initial, words).place = 0
    PROVE  LET server == Glyphs!Served(size, initial, words)
               served == Glyphs!Served(size, initial,
                            RunUpTo(words, n, offset, glyph, Glyphs!Packed(size, n)))
           IN  /\ served.place = 0 /\ served.glyphset = server.glyphset
               /\ served.drawn = WithRun(server.drawn, server.glyphset, n, offset, glyph)
<1> DEFINE server  == Glyphs!Served(size, initial, words)
           all     == Glyphs!Packed(size, n)
           part(j) == RunUpTo(words, n, offset, glyph, j)
           at(j)   == Glyphs!Served(size, initial, part(j))
           more    == WithRun(server.drawn, server.glyphset, n, offset, glyph)
           Right(j) == /\ at(j).glyphset = server.glyphset
                       /\ j < all => /\ at(j).place = j + 2 /\ at(j).number = n /\ at(j).offset = offset
                                     /\ at(j).drawn = server.drawn
                       /\ j = all => at(j).place = 0 /\ at(j).drawn = more
<1>1. all \in Nat /\ (all = 0 <=> n = 0)
  BY PackedNone
<1>2. Glyphs!Words(size, n) = 2 + all
  BY DEF Glyphs!Words
<1>3. server.place = 0
  OBVIOUS
<1> HIDE DEF server, all
<1>4. /\ part(0) = More(More(words, n), offset)
      /\ \A j \in Nat : part(j) \in Seq(Nat) /\ part(j + 1) = More(part(j), glyph)
  <2>1. part(0) = More(More(words, n), offset)
    <3>1. 0 \in Nat
      OBVIOUS
    <3> QED
      BY <3>1, RunGrows
  <2>2. ASSUME NEW j \in Nat PROVE part(j) \in Seq(Nat)
    BY RunGrows
  <2>3. ASSUME NEW j \in Nat PROVE part(j + 1) = More(part(j), glyph)
    BY RunGrows
  <2> HIDE DEF part
  <2> QED
    BY <2>1, <2>2, <2>3
<1> HIDE DEF part
<1>5. Right(0)
  <2> DEFINE one == Glyphs!AfterWord(size, server, n)
  <2>1. More(words, n) \in Seq(Nat) /\ Glyphs!Served(size, initial, More(words, n)) = one
    BY ServedWord DEF server
  <2>2. /\ one.place = 1 /\ one.number = n /\ one.glyphset = server.glyphset
        /\ one.drawn = server.drawn
    BY <1>1, <1>2, <1>3 DEF Glyphs!AfterWord
  <2> HIDE DEF one
  <2>3. at(0) = Glyphs!AfterWord(size, one, offset)
    <3> DEFINE begun == More(words, n)
    <3>1. begun \in Seq(Nat) /\ Glyphs!Served(size, initial, begun) = one
      BY <2>1
    <3> HIDE DEF begun
    <3>2. Glyphs!Served(size, initial, More(begun, offset)) = Glyphs!AfterWord(size, one, offset)
      BY <3>1, ServedWord
    <3> QED
      BY <1>4, <3>2 DEF begun
  <2> HIDE DEF at
  <2> QED
    BY <1>1, <1>2, <2>2, <2>3 DEF Glyphs!AfterWord, WithRun
<1>6. ASSUME NEW j \in Nat, j < all, Right(j) PROVE Right(j + 1)
  <2>1. at(j + 1) = Glyphs!AfterWord(size, at(j), glyph)
    <3>1. part(j) \in Seq(Nat) /\ part(j + 1) = More(part(j), glyph)
      BY <1>4
    <3>2. Glyphs!Served(size, initial, More(part(j), glyph)) = Glyphs!AfterWord(size, at(j), glyph)
      BY <3>1, ServedWord
    <3> QED
      BY <3>1, <3>2
  <2>2. /\ at(j).place = j + 2 /\ at(j).number = n /\ at(j).offset = offset
        /\ at(j).drawn = server.drawn /\ at(j).glyphset = server.glyphset
    BY <1>6
  <2> HIDE DEF at
  <2>3. n # 0 /\ j + 2 + 1 # 1 /\ j + 2 + 1 # 2 /\ (j + 2 + 1 = 2 + all <=> j + 1 = all)
    BY <1>1, <1>6
  <2> QED
    BY <1>1, <1>2, <2>1, <2>2, <2>3 DEF Glyphs!AfterWord, WithRun
<1> HIDE DEF Right
<1>7. Right(all)
  <2> DEFINE Wrong == {j \in 0 .. all : ~Right(j)}
  <2>1. SUFFICES ASSUME Wrong # {} PROVE FALSE
    BY <1>1
  <2>2. PICK k \in Wrong : \A j \in Wrong : ~(j < k)
    <3>1. Wrong \in SUBSET Nat
      BY <1>1
    <3> QED
      BY <2>1, <3>1, LeastOf
  <2>3. k # 0
    BY <1>5, <2>2
  <2>4. k - 1 \in Nat /\ k - 1 < all /\ Right(k - 1)
    BY <1>1, <2>2, <2>3
  <2>5. Right(k - 1 + 1)
    BY <1>6, <2>4
  <2>6. k - 1 + 1 = k
    BY <1>1
  <2> QED
    BY <2>2, <2>5, <2>6
<1> QED
  BY <1>1, <1>7 DEF Right, at, part, all, server

\* A change of the glyph set is taken, and nothing is drawn.
LEMMA ChangeIsTaken ==
    ASSUME NEW size, NEW initial, NEW words \in Seq(Nat), NEW glyphset \in Nat, Marker \in Nat,
           Glyphs!Served(size, initial, words).place = 0
    PROVE  LET server == Glyphs!Served(size, initial, words)
               served == Glyphs!Served(size, initial, words \o <<Marker, 0, glyphset>>)
           IN  /\ served.place = 0 /\ served.glyphset = glyphset
               /\ served.drawn = server.drawn
<1> DEFINE server == Glyphs!Served(size, initial, words)
           one    == Glyphs!AfterWord(size, server, Marker)
           two    == Glyphs!AfterWord(size, one, 0)
           three  == Glyphs!AfterWord(size, two, glyphset)
           begun  == More(words, Marker)
           more   == More(begun, 0)
           whole  == words \o <<Marker, 0, glyphset>>
<1>1. whole = More(more, glyphset)
  BY DEF More, Cat
<1>2. begun \in Seq(Nat) /\ Glyphs!Served(size, initial, begun) = one
  <2>1. begun \in Seq(Nat)
    BY ServedWord
  <2>2. Glyphs!Served(size, initial, More(words, Marker)) = one
    BY ServedWord
  <2> QED
    BY <2>1, <2>2
<1> HIDE DEF begun, one
<1>3. more \in Seq(Nat) /\ Glyphs!Served(size, initial, more) = two
  <2>1. 0 \in Nat
    OBVIOUS
  <2>2. more \in Seq(Nat)
    BY <1>2, <2>1, ServedWord
  <2>3. Glyphs!Served(size, initial, More(begun, 0)) = Glyphs!AfterWord(size, one, 0)
    BY <1>2, <2>1, ServedWord
  <2> QED
    BY <2>2, <2>3
<1> HIDE DEF more, two, whole
<1>4. Glyphs!Served(size, initial, whole) = three
  BY <1>1, <1>3, ServedWord
<1>5. server.place = 0 /\ Glyphs!Words(size, Marker) = 3
  BY DEF Glyphs!Words
<1> HIDE DEF server
<1>6. one.place = 1 /\ one.number = Marker /\ one.drawn = server.drawn
  BY <1>5 DEF Glyphs!AfterWord, one
<1>7. two.place = 2 /\ two.number = Marker /\ two.drawn = server.drawn
  BY <1>5, <1>6 DEF Glyphs!AfterWord, two
<1>8. three.place = 0 /\ three.glyphset = glyphset /\ three.drawn = server.drawn
  BY <1>5, <1>7 DEF Glyphs!AfterWord
<1> QED
  BY <1>4, <1>8 DEF server, whole

\* A server that has read the stream has drawn what the client has, and has the
\* glyph set in use; until the size of the glyphs is known, for every size.
Sizes == IF glyph_size = 0 THEN {1, 2, 4} ELSE {glyph_size}

UpToDate(size) ==
    LET server == Glyphs!Served(size, initial_glyphset, stream)
    IN  server.place = 0 /\ server.glyphset = current_glyphset /\ server.drawn = drawn

KeepsUp ==
    /\ chosen = current_glyphset
    /\ glyph_pc = "sent" => glyph_size # 0
    /\ \A size \in Sizes : UpToDate(size)

\* Of nothing nothing is drawn,
LEMMA KeepsUpStarts == Glyphs!Init => KeepsUp
<1> SUFFICES ASSUME Glyphs!Init PROVE KeepsUp
  OBVIOUS
<1>1. ASSUME NEW size PROVE UpToDate(size)
  <2>1. Glyphs!Served(size, initial_glyphset, <<>>) = Start(initial_glyphset)
    BY ServedNothing
  <2> QED
    BY <2>1 DEF Glyphs!Init, UpToDate, Start
<1> QED
  BY <1>1 DEF Glyphs!Init, KeepsUp

\* and every call leaves the server where the client is.
LEMMA KeepsUpStep == Glyphs!TypeOK /\ KeepsUp /\ [Glyphs!Next]_(Glyphs!vars) => KeepsUp'
<1> SUFFICES ASSUME Glyphs!TypeOK, KeepsUp, [Glyphs!Next]_(Glyphs!vars) PROVE KeepsUp'
  OBVIOUS
<1>1. /\ Count \subseteq Nat /\ Marker \in Nat /\ Glyphset \subseteq Nat
      /\ Offset \subseteq Nat /\ Glyph \subseteq Nat
      /\ Limit \in [{1, 2, 4} -> Nat] /\ \A size \in {1, 2, 4} : Limit[size] < Marker
  BY StreamAssumption DEF Glyphs!NumberAssumption, Glyphs!LimitAssumption
<1>2. stream \in Seq(Nat) /\ glyph_size \in {0, 1, 2, 4} /\ Sizes \subseteq {1, 2, 4}
  BY DEF Glyphs!TypeOK, Sizes
<1>3. ASSUME NEW size \in {1, 2, 4}, NEW offset \in Offset, NEW n \in Count,
             NEW glyph \in Glyph, Glyphs!glyphs(size, offset, n, glyph)
      PROVE  KeepsUp'
  <2>1. /\ n \in Nat /\ offset \in Nat /\ glyph \in Nat /\ n <= Limit[size]
        /\ glyph_size \in {0, size} /\ glyph_size' = size
        /\ stream' = RunUpTo(stream, n, offset, glyph, Glyphs!Packed(size, n))
        /\ drawn' = WithRun(drawn, chosen, n, offset, glyph) /\ glyph_pc' # "sent"
        /\ UNCHANGED <<initial_glyphset, current_glyphset, chosen>>
    BY <1>1, <1>3 DEF Glyphs!glyphs, Glyphs!Write, Glyphs!Accepted, RunUpTo, WithRun, Cat
  <2>2. n # Marker
    BY <1>1, <2>1
  <2>3. size \in Sizes /\ Sizes' = {size}
    BY <2>1 DEF Sizes
  <2>4. UpToDate(size) /\ chosen = current_glyphset
    BY <2>3 DEF KeepsUp
  <2>5. UpToDate(size)'
    <3> DEFINE server == Glyphs!Served(size, initial_glyphset, stream)
               served == Glyphs!Served(size, initial_glyphset,
                            RunUpTo(stream, n, offset, glyph, Glyphs!Packed(size, n)))
    <3>1. server.place = 0 /\ server.glyphset = current_glyphset /\ server.drawn = drawn
      BY <2>4 DEF UpToDate
    <3>2. /\ served.place = 0 /\ served.glyphset = server.glyphset
          /\ served.drawn = WithRun(server.drawn, server.glyphset, n, offset, glyph)
      BY <1>2, <2>1, <2>2, <3>1, RunIsDrawn
    <3>3. served = Glyphs!Served(size, initial_glyphset', stream')
      BY <2>1
    <3> HIDE DEF server, served
    <3> QED
      BY <2>1, <2>4, <3>1, <3>2, <3>3 DEF UpToDate
  <2> QED
    BY <2>1, <2>3, <2>4, <2>5 DEF KeepsUp
<1>4. ASSUME NEW glyphset \in Glyphset, Glyphs!xcb_render_util_change_glyphset(glyphset)
      PROVE  KeepsUp'
  <2>1. /\ glyphset \in Nat /\ stream' = stream \o <<Marker, 0, glyphset>>
        /\ chosen' = glyphset /\ current_glyphset' = glyphset /\ glyph_pc' # "sent"
        /\ UNCHANGED <<glyph_size, initial_glyphset, drawn>>
    BY <1>1, <1>4 DEF Glyphs!xcb_render_util_change_glyphset, Glyphs!Write
  <2>2. Sizes' = Sizes
    BY <2>1 DEF Sizes
  <2>3. ASSUME NEW size \in Sizes PROVE UpToDate(size)'
    <3> DEFINE server == Glyphs!Served(size, initial_glyphset, stream)
               served == Glyphs!Served(size, initial_glyphset, stream \o <<Marker, 0, glyphset>>)
    <3>1. server.place = 0 /\ server.drawn = drawn
      BY DEF KeepsUp, UpToDate
    <3>2. served.place = 0 /\ served.glyphset = glyphset /\ served.drawn = server.drawn
      BY <1>1, <1>2, <2>1, <3>1, ChangeIsTaken
    <3>3. served = Glyphs!Served(size, initial_glyphset', stream')
      BY <2>1
    <3> HIDE DEF server, served
    <3> QED
      BY <2>1, <3>1, <3>2, <3>3 DEF UpToDate
  <2> QED
    BY <2>1, <2>2, <2>3 DEF KeepsUp
<1>5. ASSUME UNCHANGED <<glyph_size, initial_glyphset, current_glyphset, stream, drawn>>,
             chosen' = current_glyphset, glyph_pc' = "sent" => glyph_size # 0
      PROVE  KeepsUp'
  BY <1>5 DEF KeepsUp, Sizes, UpToDate
<1>6. ASSUME NEW glyphset \in Glyphset, Glyphs!KeepGlyphset(glyphset) PROVE KeepsUp'
  BY <1>5, <1>6 DEF Glyphs!KeepGlyphset, KeepsUp
<1>7. ASSUME NEW n \in Total, NEW m \in Total,
             Glyphs!xcb_render_util_composite_text_stream(n, m)
      PROVE  KeepsUp'
  BY <1>5, <1>7 DEF Glyphs!xcb_render_util_composite_text_stream, KeepsUp
<1>8. CASE Glyphs!xcb_render_util_composite_text \/ Glyphs!xcb_render_util_composite_text_free
  BY <1>5, <1>8
  DEF Glyphs!xcb_render_util_composite_text, Glyphs!xcb_render_util_composite_text_free, KeepsUp
<1>9. CASE UNCHANGED Glyphs!vars
  BY <1>5, <1>9 DEF Glyphs!vars, KeepsUp
<1> QED
  BY <1>3, <1>4, <1>6, <1>7, <1>8, <1>9 DEF Glyphs!Next

\* A server that is sent a stream draws what the client has drawn, each run
\* with the glyph set that was chosen for it, however runs and changes of the
\* glyph set follow each other, also when more is sent later (glyph.c:85-197).
THEOREM StreamsAreDrawn == UtilSpec => []DrawsWhatWasAsked
<1>1. Glyphs!Spec => []KeepsUp
  <2>1. GlyphSafe => Glyphs!TypeOK
    BY DEF GlyphSafe
  <2> QED
    BY <2>1, KeepsUpStarts, KeepsUpStep, GlyphInvariance, PTL DEF Glyphs!Spec
<1>2. KeepsUp => DrawsWhatWasAsked
  <2> SUFFICES ASSUME KeepsUp, glyph_pc = "sent"
               PROVE  LET server == Glyphs!Served(glyph_size, initial_glyphset, stream)
                      IN  server.drawn = drawn /\ server.place = 0
    BY DEF DrawsWhatWasAsked, Glyphs!DrawsWhatWasAsked
  <2>1. glyph_size \in Sizes
    BY DEF KeepsUp, Sizes
  <2> QED
    BY <2>1 DEF KeepsUp, UpToDate
<1> QED
  BY <1>1, <1>2, PartsBehave, PTL
=============================================================================
