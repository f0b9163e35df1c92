---------------------------- MODULE LookupProofs ----------------------------
(***************************************************************************)
(* Proofs about Lookups: the columns and the search of keysyms for any     *)
(* mapping, the parameters of requests and the names of colours, whatever  *)
(* the client adds and asks, the labels, whatever arrives, and the visuals *)
(* and picture formats that are found, whatever the server has.            *)
(***************************************************************************)
EXTENDS Lookups, FiniteSetTheorems, NaturalsInduction, WellFoundedInduction,
        SequenceTheorems, TLAPS

-----------------------------------------------------------------------------
(* Upper and lower case.                                                    *)

\* Capitals of keysyms in LowerOnly: no character has them.
Stray == {1958, 1962, 2003}

LEMMA RangesAre ==
    ASSUME NEW r \in UpperCase
    PROVE  /\ r.first \in Nat /\ r.last \in Nat /\ r.shift \in Int \ {0}
           /\ 0 < r.first /\ 0 < r.first + r.shift
           /\ r.last < 5298 /\ r.last + r.shift < 5298
           /\ \A n \in r.first .. r.last : n + r.shift \in LowerOnly => n \in Stray
BY DEF UpperCase, LowerOnly, Stray

LEMMA RangesApart ==
    ASSUME NEW r \in UpperCase, NEW q \in UpperCase, NEW n \in Int, n \in r.first .. r.last
    PROVE  /\ n \in q.first .. q.last => q = r
           /\ n - q.shift \notin q.first .. q.last
           /\ n + r.shift \notin q.first .. q.last
           /\ n + r.shift - q.shift \in q.first .. q.last => q = r
BY SMTT(60) DEF UpperCase

\* The two cases of a letter.
LEMMA LetterCases ==
    ASSUME NEW r \in UpperCase, NEW n \in Int, n \in r.first .. r.last, n \notin Stray
    PROVE  /\ xcb_convert_case(n) = [lower |-> n + r.shift, upper |-> n]
           /\ xcb_convert_case(n + r.shift) = [lower |-> n + r.shift, upper |-> n]
<1> DEFINE up(m)  == {q \in UpperCase : m \in q.first .. q.last}
           low(m) == {q \in UpperCase : m - q.shift \in q.first .. q.last /\ m \notin LowerOnly}
<1>1. /\ n \notin Armenian /\ n + r.shift \notin Armenian
      /\ n + r.shift \notin LowerOnly /\ n \in Int /\ r.shift \in Int
  BY RangesAre DEF Armenian
<1>2. up(n) = {r} /\ up(n + r.shift) = {} /\ low(n + r.shift) = {r}
  BY <1>1, RangesApart, RangesAre
<1>3. (CHOOSE q \in {r} : TRUE) = r
  OBVIOUS
<1>4. \A m : xcb_convert_case(m) =
        [lower |-> IF m \in Armenian /\ m % 2 = 0 THEN m + 1
                   ELSE IF up(m) # {} THEN m + (CHOOSE q \in up(m) : TRUE).shift ELSE m,
         upper |-> IF m \in Armenian /\ m % 2 = 1 THEN m - 1
                   ELSE IF up(m) = {} /\ low(m) # {} THEN m - (CHOOSE q \in low(m) : TRUE).shift
                   ELSE m]
  BY DEF xcb_convert_case
<1> HIDE DEF up, low
<1>5. xcb_convert_case(n) = [lower |-> n + r.shift, upper |-> n]
  BY <1>1, <1>2, <1>3, <1>4
<1>6. xcb_convert_case(n + r.shift) = [lower |-> n + r.shift, upper |-> n]
  <2> DEFINE m == n + r.shift
  <2>1. m - r.shift = n
    BY <1>1
  <2>2. m \notin Armenian /\ up(m) = {} /\ low(m) = {r}
    BY <1>1, <1>2
  <2> HIDE DEF m
  <2>3. xcb_convert_case(m) = [lower |-> m, upper |-> n]
    BY <1>3, <1>4, <2>1, <2>2
  <2> QED
    BY <2>3 DEF m
<1> QED
  BY <1>5, <1>6

\* Armenian letters alternate.
LEMMA ArmenianCases ==
    ASSUME NEW n \in Armenian
    PROVE  xcb_convert_case(n) = IF n % 2 = 0 THEN [lower |-> n + 1, upper |-> n]
                                 ELSE [lower |-> n, upper |-> n - 1]
<1>1. \A r \in UpperCase : n \notin r.first .. r.last /\ n - r.shift \notin r.first .. r.last
  BY RangesAre DEF Armenian
<1>2. n \in Int /\ n % 2 \in {0, 1}
  BY DEF Armenian
<1> QED
  BY <1>1, <1>2 DEF xcb_convert_case

\* Any keysym is a letter of one of these kinds, or has no case.
LEMMA CaseKinds ==
    ASSUME NEW n \in Int, n \notin Stray
    PROVE  \/ n \in Armenian
           \/ \E r \in UpperCase : n \in r.first .. r.last
           \/ \E r \in UpperCase : n - r.shift \in (r.first .. r.last) \ Stray
           \/ xcb_convert_case(n) = [lower |-> n, upper |-> n]
<1>1. LowerOnly \cap Stray = {}
  BY DEF LowerOnly, Stray
<1>2. \A r \in UpperCase : n - r.shift \in Stray => n \in LowerOnly
                          \/ n - r.shift \notin r.first .. r.last
  BY DEF UpperCase, LowerOnly, Stray
<1> QED
  BY <1>2 DEF xcb_convert_case

\* A keysym without stray capital is one of its two cases, which have the same
\* cases themselves.
LEMMA CasesConsist ==
    ASSUME NEW n \in Nat, n \notin Stray
    PROVE  LET case == xcb_convert_case(n)
           IN  /\ case.lower \in Int /\ case.upper \in Int
               /\ Cased(n) => /\ n \in {case.lower, case.upper}
                              /\ xcb_convert_case(case.lower) = case
                              /\ xcb_convert_case(case.upper) = case
               /\ ~Cased(n) => case.lower = n /\ case.upper = n
<1> DEFINE case == xcb_convert_case(n)
<1>1. CASE n \in Armenian
  <2>1. CASE n % 2 = 0
    <3>1. n + 1 \in Armenian /\ (n + 1) % 2 = 1 /\ n + 1 \in Int /\ n \in Int
      BY <1>1, <2>1 DEF Armenian
    <3>2. case = [lower |-> n + 1, upper |-> n]
      BY <1>1, <2>1, ArmenianCases
    <3>3. xcb_convert_case(n + 1) = [lower |-> n + 1, upper |-> n + 1 - 1]
      BY <3>1, ArmenianCases
    <3> QED
      BY <3>1, <3>2, <3>3 DEF Cased
  <2>2. CASE n % 2 # 0
    <3>1. n - 1 \in Armenian /\ (n - 1) % 2 = 0 /\ n - 1 \in Int /\ n \in Int
      BY <1>1, <2>2 DEF Armenian
    <3>2. case = [lower |-> n, upper |-> n - 1]
      BY <1>1, <2>2, ArmenianCases
    <3>3. xcb_convert_case(n - 1) = [lower |-> n - 1 + 1, upper |-> n - 1]
      BY <3>1, ArmenianCases
    <3> QED
      BY <3>1, <3>2, <3>3 DEF Cased
  <2> QED
    BY <2>1, <2>2
<1>2. ASSUME NEW r \in UpperCase, n \in r.first .. r.last
      PROVE  /\ case.lower \in Int /\ case.upper = n /\ case.lower # n
             /\ xcb_convert_case(case.lower) = case
  <2> DEFINE m == n + r.shift
  <2>1. m \in Int /\ m # n
    BY RangesAre
  <2>2. case = [lower |-> m, upper |-> n] /\ xcb_convert_case(m) = [lower |-> m, upper |-> n]
    BY <1>2, LetterCases
  <2> HIDE DEF m
  <2> QED
    BY <2>1, <2>2
<1>3. ASSUME NEW r \in UpperCase, n - r.shift \in (r.first .. r.last) \ Stray
      PROVE  /\ case.upper \in Int /\ case.lower = n /\ case.upper # n
             /\ xcb_convert_case(case.upper) = case
  <2> DEFINE m == n - r.shift
  <2>1. m \in Int /\ m + r.shift = n /\ m # n
    BY RangesAre
  <2> HIDE DEF m
  <2>2. case = [lower |-> n, upper |-> m] /\ xcb_convert_case(m) = [lower |-> n, upper |-> m]
    BY <1>3, <2>1, LetterCases DEF m
  <2> QED
    BY <2>1, <2>2
<1>4. CASE case = [lower |-> n, upper |-> n]
  BY <1>4 DEF Cased
<1> HIDE DEF case
<1>5. (\E r \in UpperCase : n \in r.first .. r.last) =>
      /\ case.lower \in Int /\ case.upper = n /\ case.lower # n
      /\ xcb_convert_case(case.lower) = case
  BY <1>2
<1>6. (\E r \in UpperCase : n - r.shift \in (r.first .. r.last) \ Stray) =>
      /\ case.upper \in Int /\ case.lower = n /\ case.upper # n
      /\ xcb_convert_case(case.upper) = case
  BY <1>3
<1> QED
  BY <1>1, <1>4, <1>5, <1>6, CaseKinds DEF Cased, case

\* A keysym whose cases are the same is that of both.
LEMMA UncasedIsBoth ==
    ASSUME NEW n \in Nat, ~Cased(n)
    PROVE  xcb_convert_case(n).lower = n
<1> DEFINE up == {r \in UpperCase : n \in r.first .. r.last}
           r  == CHOOSE r \in up : TRUE
<1>1. CASE n \in Armenian
  BY <1>1, ArmenianCases DEF Cased
<1>2. CASE n \notin Armenian /\ up # {}
  <2>1. r \in up
    BY <1>2
  <2>2. r \in UpperCase
    BY <2>1
  <2>3. xcb_convert_case(n).lower = n + r.shift /\ xcb_convert_case(n).upper = n
    BY <1>2 DEF xcb_convert_case
  <2> HIDE DEF r
  <2> QED
    BY <2>2, <2>3, RangesAre DEF Cased
<1>3. CASE n \notin Armenian /\ up = {}
  BY <1>3 DEF xcb_convert_case
<1> QED
  BY <1>1, <1>2, <1>3

\* The greatest of some numbers.
LEMMA GreatestIs ==
    ASSUME NEW n \in Nat, NEW S \in SUBSET (0 .. n), S # {}
    PROVE  Max(S) \in S /\ \A k \in S : k <= Max(S)
<1> DEFINE T == {n - k : k \in S}
<1>1. T \in SUBSET Nat /\ T # {}
  <2>1. \A k \in S : n - k \in Nat
    OBVIOUS
  <2>2. T # {}
    OBVIOUS
  <2> QED
    BY <2>1, <2>2
<1>2. PICK t \in T : \A u \in T : t <= u
  <2> HIDE DEF T
  <2>1. PICK t \in T : \A u \in T : <<u, t>> \notin OpToRel(<, Nat)
    BY <1>1, NatLessThanWellFounded, WFMin
  <2>2. \A u \in T : ~(u < t)
    BY <1>1, <2>1, Zenon DEF OpToRel
  <2>3. \A u \in T : t <= u
    BY <1>1, <2>2
  <2> QED
    BY <2>3
<1>3. PICK k \in S : t = n - k
  BY <1>2
<1>4. \A j \in S : j <= k
  <2> SUFFICES ASSUME NEW j \in S PROVE j <= k
    OBVIOUS
  <2>1. n - j \in T /\ j \in Nat /\ k \in Nat
    OBVIOUS
  <2>2. t <= n - j /\ t = n - k
    BY <1>2, <1>3, <2>1
  <2> HIDE DEF T
  <2> QED
    BY <2>1, <2>2
<1> QED
  BY <1>4 DEF Max

\* The keysyms of a row that follow the protocol's rule, in terms of the last
\* one that is not NoSymbol.
LEMMA RowOfFour ==
    ASSUME NEW row \in Seq(Nat), NEW at,
           at = [k \in 1 .. 4 |-> IF k \in DOMAIN row THEN row[k] ELSE NoSymbol]
    PROVE  \E m \in 0 .. Len(row) :
              /\ \A k \in DOMAIN row : k > m => row[k] = NoSymbol
              /\ m > 0 => row[m] # NoSymbol
              /\ \A k \in 1 .. 4 : FourKeysyms(Significant(row))[k]
                                  = at[IF m <= 2 /\ k > 2 THEN k - 2 ELSE k]
              /\ Trimmed(row) = IF Len(row) <= 2 THEN Len(row) ELSE IF m >= 3 THEN m ELSE 2
<1> DEFINE S == {0} \cup {k \in DOMAIN row : row[k] # NoSymbol}
           m == Max(S)
           list == SubSeq(row, 1, m)
<1>1. Len(row) \in Nat /\ DOMAIN row = 1 .. Len(row) /\ \A k \in DOMAIN row : row[k] \in Nat
  BY ElementOfSeq, LenProperties
<1>2. m \in S /\ \A k \in S : k <= m
  <2>1. S \in SUBSET (0 .. Len(row)) /\ S # {}
    BY <1>1
  <2> HIDE DEF S
  <2> QED
    BY <1>1, <2>1, GreatestIs
<1>3. /\ m \in 0 .. Len(row)
      /\ \A k \in DOMAIN row : k > m => row[k] = NoSymbol
      /\ m > 0 => row[m] # NoSymbol
  <2>1. m \in 0 .. Len(row) /\ (m > 0 => row[m] # NoSymbol)
    <3> HIDE DEF m
    <3> QED
      BY <1>1, <1>2
  <2>2. ASSUME NEW k \in DOMAIN row, k > m PROVE row[k] = NoSymbol
    <3> HIDE DEF m
    <3>1. k \in Nat /\ m \in Nat
      BY <1>1, <2>1
    <3> QED
      BY <1>2, <2>2, <3>1
  <2> QED
    BY <2>1, <2>2
<1> HIDE DEF m
<1>4. list \in Seq(Nat) /\ Len(list) = m /\ \A k \in 1 .. m : list[k] = row[k]
  BY <1>1, <1>3, SubSeqProperties
<1>5. Trimmed(row) = IF Len(row) <= 2 THEN Len(row) ELSE IF m >= 3 THEN m ELSE 2
  <2> DEFINE R == {2} \cup {k \in 3 .. Len(row) : row[k] # NoSymbol}
  <2> SUFFICES ASSUME Len(row) > 2 PROVE Max(R) = IF m >= 3 THEN m ELSE 2
    BY <1>1 DEF Trimmed
  <2>1. Max(R) \in R /\ \A k \in R : k <= Max(R)
    <3>1. R \in SUBSET (0 .. Len(row)) /\ R # {}
      BY <1>1
    <3> HIDE DEF R
    <3> QED
      BY <1>1, <3>1, GreatestIs
  <2>2. m >= 3 => m \in R
    BY <1>1, <1>3
  <2>3. \A k \in R : k = 2 \/ k <= m
    BY <1>1, <1>3
  <2>4. \A k \in R : k \in Nat /\ k >= 2
    BY <1>1
  <2> HIDE DEF R
  <2> QED
    BY <1>1, <1>3, <2>1, <2>2, <2>3, <2>4
<1>6. ASSUME NEW k \in 1 .. 4
      PROVE  FourKeysyms(list)[k] = at[IF m <= 2 /\ k > 2 THEN k - 2 ELSE k]
  <2> HIDE DEF list
  <2>2. k = 1 \/ k = 2 \/ k = 3 \/ k = 4
    OBVIOUS
  <2>3. \A j \in 1 .. 4 : at[j] = IF j <= m THEN list[j] ELSE NoSymbol
    <3> SUFFICES ASSUME NEW j \in 1 .. 4 PROVE at[j] = IF j <= m THEN list[j] ELSE NoSymbol
      OBVIOUS
    <3>1. at[j] = IF j \in DOMAIN row THEN row[j] ELSE NoSymbol
      OBVIOUS
    <3>2. m \in Nat /\ m <= Len(row)
      BY <1>1, <1>3
    <3>3. CASE j <= m
      BY <1>1, <1>4, <3>1, <3>2, <3>3
    <3>4. CASE ~(j <= m)
      BY <1>3, <3>1, <3>2, <3>4
    <3> QED
      BY <3>3, <3>4
  <2>4. m \in Nat
    BY <1>1, <1>3
  <2>5. CASE m = 0
    <3>1. FourKeysyms(list) = <<NoSymbol, NoSymbol, NoSymbol, NoSymbol>>
      BY <1>4, <2>5 DEF FourKeysyms
    <3> QED
      BY <2>2, <2>3, <2>5, <3>1
  <2>6. CASE m = 1
    <3>1. FourKeysyms(list) = <<list[1], NoSymbol, list[1], NoSymbol>>
      BY <1>4, <2>6 DEF FourKeysyms
    <3> QED
      BY <2>2, <2>3, <2>6, <3>1
  <2>7. CASE m = 2
    <3>1. FourKeysyms(list) = <<list[1], list[2], list[1], list[2]>>
      BY <1>4, <2>7 DEF FourKeysyms
    <3> QED
      BY <2>2, <2>3, <2>7, <3>1
  <2>8. CASE m = 3
    <3>1. FourKeysyms(list) = <<list[1], list[2], list[3], NoSymbol>>
      BY <1>4, <2>8 DEF FourKeysyms
    <3> QED
      BY <2>2, <2>3, <2>8, <3>1
  <2>9. CASE m > 3
    <3>1. FourKeysyms(list) = SubSeq(list, 1, 4)
      <4>1. Len(list) # 0 /\ Len(list) # 1 /\ Len(list) # 2 /\ Len(list) # 3
        BY <1>4, <2>4, <2>9
      <4> QED
        BY <4>1 DEF FourKeysyms
    <3>2. list \in Seq(Nat) /\ Len(list) = m /\ 4 <= m
      BY <1>4, <2>4, <2>9
    <3>3. \A j \in 1 .. 4 : SubSeq(list, 1, 4)[j] = list[j]
      <4>1. \A j \in 1 .. 4 : list[j] \in Nat
        BY <2>4, <3>2, ElementOfSeq
      <4>2. \A j \in 1 .. 4 : 1 + j - 1 = j
        OBVIOUS
      <4>3. \A j \in 1 .. 4 - 1 + 1 : SubSeq(list, 1, 4)[j] = list[1 + j - 1]
        BY <4>1, SubSeqProperties
      <4> QED
        BY <4>2, <4>3
    <3>4. FourKeysyms(list)[k] = list[k] /\ at[k] = list[k]
      BY <2>3, <2>4, <3>1, <3>2, <3>3
    <3>5. ~(m <= 2)
      BY <2>4, <2>9
    <3> QED
      BY <3>4, <3>5
  <2> QED
    BY <2>4, <2>5, <2>6, <2>7, <2>8, <2>9
<1> QED
  BY <1>3, <1>5, <1>6 DEF Significant, list, m

\* A group of one keysym is made of its cases, another is as it stands.
LEMMA GroupIs ==
    ASSUME NEW a \in Nat, NEW b \in Nat
    PROVE  /\ Group(a, b)[1] = IF b = NoSymbol THEN xcb_convert_case(a).lower ELSE a
           /\ Group(a, b)[2] = IF b # NoSymbol THEN b ELSE
                               IF xcb_convert_case(a).upper = xcb_convert_case(a).lower
                               THEN NoSymbol ELSE xcb_convert_case(a).upper
BY UncasedIsBoth DEF Group, Cased

\* Any row of keysyms follows the protocol.
LEMMA RowFollows ==
    ASSUME NEW row \in Seq(Nat), row # <<>>, NEW col \in 0 .. 3
    PROVE  get_keysym(row, col) = Protocol(row, col)
<1> DEFINE at    == [k \in 1 .. 4 |-> IF k \in DOMAIN row THEN row[k] ELSE NoSymbol]
           four  == FourKeysyms(Significant(row))
           per   == IF col \in {2, 3} THEN Trimmed(row) ELSE Len(row)
           c     == IF col \in {2, 3} /\ per < 3 THEN col - 2 ELSE col
           first == c - (c % 2)
           g     == IF col < 2 THEN 1 ELSE 3
<1>1. /\ Len(row) \in Nat /\ Len(row) > 0 /\ DOMAIN row = 1 .. Len(row)
      /\ \A k \in DOMAIN row : row[k] \in Nat
  BY ElementOfSeq, LenProperties, EmptySeq
<1>2. PICK m \in 0 .. Len(row) :
              /\ \A k \in DOMAIN row : k > m => row[k] = NoSymbol
              /\ m > 0 => row[m] # NoSymbol
              /\ \A k \in 1 .. 4 : four[k] = at[IF m <= 2 /\ k > 2 THEN k - 2 ELSE k]
              /\ Trimmed(row) = IF Len(row) <= 2 THEN Len(row) ELSE IF m >= 3 THEN m ELSE 2
  BY RowOfFour
<1>3. m \in Nat /\ m <= Len(row)
  BY <1>1
<1>4. /\ at[1] = row[1] /\ \A k \in 1 .. 4 : at[k] \in Nat
      /\ \A k \in 1 .. 4 : at[k] = IF k <= Len(row) THEN row[k] ELSE NoSymbol
  BY <1>1 DEF NoSymbol
<1>5. \A k \in 1 .. 4 : k > m => at[k] = NoSymbol
  BY <1>1, <1>2, <1>3, <1>4
<1> HIDE DEF at, four
<1>6. /\ c = first + (col % 2)
      /\ Even(c) <=> col % 2 = 0
      /\ first = IF col >= 2 /\ m >= 3 THEN 2 ELSE 0
      /\ first < per
      /\ per \in Nat /\ per <= Len(row)
      /\ first + 1 < per \/ at[first + 2] = NoSymbol
  <2>1. col = 0 \/ col = 1 \/ col = 2 \/ col = 3
    OBVIOUS
  <2>2. per \in Nat /\ per <= Len(row) /\ per > 0
    BY <1>1, <1>2, <1>3
  <2>3. CASE col \in {0, 1}
    <3>1. per = Len(row) /\ c = col
      BY <2>3
    <3>2. 1 < per \/ at[2] = NoSymbol
      BY <1>1, <1>4, <3>1
    <3> HIDE DEF per
    <3> QED
      BY <2>2, <2>3, <3>1, <3>2 DEF Even
  <2>4. CASE col \in {2, 3} /\ m <= 2
    <3>1. per < 3 /\ (per >= 2 \/ Len(row) = 1)
      BY <1>1, <1>2, <1>3, <2>4
    <3>2. c = col - 2
      BY <2>4, <3>1
    <3>3. 1 < per \/ at[2] = NoSymbol
      BY <1>4, <2>2, <3>1
    <3> HIDE DEF per
    <3> QED
      BY <2>2, <2>4, <3>2, <3>3, <1>3 DEF Even
  <2>5. CASE col \in {2, 3} /\ m > 2
    <3>1. per = m
      <4>1. Trimmed(row) = IF Len(row) <= 2 THEN Len(row) ELSE IF m >= 3 THEN m ELSE 2
        BY <1>2
      <4>2. Len(row) \in Nat /\ m > 2 /\ m <= Len(row) /\ m \in Nat
        BY <1>1, <1>3, <2>5
      <4>3. Trimmed(row) = m
        BY <4>1, <4>2
      <4> QED
        BY <2>5, <4>3
    <3>2. c = col
      BY <1>3, <2>5, <3>1
    <3>3. 3 < per \/ at[4] = NoSymbol
      BY <1>3, <1>5, <3>1
    <3> HIDE DEF per
    <3> QED
      BY <2>2, <2>5, <3>1, <3>2, <3>3, <1>3 DEF Even
  <2> QED
    BY <1>3, <2>1, <2>3, <2>4, <2>5
<1> DEFINE case == xcb_convert_case(row[first + 1])
<1>7. get_keysym(row, col) =
        IF per <= first + 1 \/ row[first + 2] = NoSymbol
        THEN IF Even(c) THEN case.lower
             ELSE IF case.upper = case.lower THEN NoSymbol ELSE case.upper
        ELSE row[c + 1]
  BY <1>1 DEF get_keysym
<1>8. four[g] = at[first + 1] /\ four[g + 1] = at[first + 2]
  <2>1. first = IF col >= 2 /\ m >= 3 THEN 2 ELSE 0
    BY <1>6
  <2> HIDE DEF first
  <2>2. \A k \in 1 .. 4 : four[k] = at[IF m <= 2 /\ k > 2 THEN k - 2 ELSE k]
    BY <1>2
  <2>3. CASE col < 2
    <3>1. four[1] = at[1] /\ four[2] = at[2]
      BY <2>2
    <3> QED
      BY <2>1, <2>3, <3>1
  <2>4. CASE col >= 2 /\ m >= 3
    <3>1. four[3] = at[3] /\ four[4] = at[4]
      BY <1>3, <2>2, <2>4
    <3> QED
      BY <2>1, <2>4, <3>1
  <2>5. CASE col >= 2 /\ m <= 2
    <3>1. four[3] = at[1] /\ four[4] = at[2]
      BY <1>3, <2>2, <2>5
    <3> QED
      BY <1>3, <2>1, <2>5, <3>1
  <2> QED
    BY <1>3, <2>3, <2>4, <2>5
<1>9. Protocol(row, col) = Group(four[g], four[g + 1])[1 + (col % 2)]
  BY DEF Protocol, four
<1>10. first \in {0, 2} /\ col % 2 \in {0, 1}
  BY <1>6
<1> HIDE DEF per, c, first, g
<1>11. at[first + 1] = row[first + 1] /\ at[first + 1] \in Nat /\ at[first + 2] \in Nat
  <2>1. /\ first + 1 \in 1 .. 4 /\ first + 2 \in 1 .. 4
        /\ first + 1 <= Len(row)
    BY <1>1, <1>6, <1>10
  <2> QED
    BY <1>4, <2>1
<1>12. at[first + 2] = NoSymbol <=> per <= first + 1 \/ row[first + 2] = NoSymbol
  BY <1>1, <1>4, <1>6, <1>10
<1> DEFINE a == at[first + 1]
           b == at[first + 2]
<1>13. /\ Group(a, b)[1] = IF b = NoSymbol THEN case.lower ELSE a
       /\ Group(a, b)[2] = IF b # NoSymbol THEN b ELSE
                           IF case.upper = case.lower THEN NoSymbol ELSE case.upper
  BY <1>11, GroupIs
<1>14. Protocol(row, col) = Group(a, b)[1 + (col % 2)]
  BY <1>8, <1>9
<1>15. b # NoSymbol => row[c + 1] = IF col % 2 = 0 THEN a ELSE b
  <2> SUFFICES ASSUME b # NoSymbol PROVE row[c + 1] = IF col % 2 = 0 THEN a ELSE b
    OBVIOUS
  <2>1. b = row[first + 2]
    BY <1>4, <1>10
  <2>2. CASE col % 2 = 0
    BY <1>6, <1>10, <1>11, <2>2
  <2>3. CASE col % 2 = 1
    <3>1. c + 1 = first + 2
      BY <1>6, <1>10, <2>3
    <3> QED
      BY <2>1, <2>3, <3>1
  <2> QED
    BY <1>10, <2>2, <2>3
<1>16. get_keysym(row, col) = IF b = NoSymbol
        THEN IF col % 2 = 0 THEN case.lower
             ELSE IF case.upper = case.lower THEN NoSymbol ELSE case.upper
        ELSE IF col % 2 = 0 THEN a ELSE b
  <2>1. Even(c) <=> col % 2 = 0
    BY <1>6
  <2>2. b = NoSymbol <=> (per <= first + 1 \/ row[first + 2] = NoSymbol)
    BY <1>12
  <2> HIDE DEF a, b, case
  <2>3. CASE b = NoSymbol
    BY <1>7, <2>1, <2>2, <2>3
  <2>4. CASE b # NoSymbol
    BY <1>7, <1>15, <2>2, <2>4
  <2> QED
    BY <2>3, <2>4
<1> HIDE DEF a, b, case
<1>17. CASE col % 2 = 0
  BY <1>13, <1>14, <1>16, <1>17
<1>18. CASE col % 2 = 1
  BY <1>13, <1>14, <1>16, <1>18
<1> QED
  BY <1>10, <1>17, <1>18
-----------------------------------------------------------------------------
(* The search of keycodes.                                                  *)

\* The places the search has come past; the counter is 0 behind the last key.
Past == {p \in Places : p[1] < column \/ (p[1] = column /\ (~InColumn \/ p[2] < keycode))}

Scan ==
    /\ table \in Tables
    /\ pc \in {"scan", "done"}
    /\ column \in 0 .. per_keycode
    /\ keycode \in Keycodes \cup {(MaxKeycode + 1) % KeycodeLimit}
    /\ column = per_keycode => keycode = MinKeycode
    /\ pc = "done" => column = per_keycode
    /\ result \in Seq(Keycodes)
    /\ Len(result) = Cardinality(Past)
    /\ \A p \in Past : result[Cardinality(Before(p)) + 1] = p[2]

\* The counter is a keycode, or has left them.
LEMMA CounterIs ==
    /\ MinKeycode \in Nat \ {0} /\ MaxKeycode \in Nat /\ MinKeycode <= MaxKeycode
    /\ KeycodeLimit \in Nat /\ MaxKeycode < KeycodeLimit
    /\ (MaxKeycode + 1) % KeycodeLimit \in {0, MaxKeycode + 1}
    /\ (MaxKeycode + 1) % KeycodeLimit \in 0 .. KeycodeLimit - 1
    /\ \A k \in Keycodes : k \in Nat /\ k # 0 /\ k <= MaxKeycode /\ MinKeycode <= k
    /\ \A k \in Keycodes : k # MaxKeycode => (k + 1) % KeycodeLimit = k + 1
<1>1. /\ MinKeycode \in Nat \ {0} /\ MaxKeycode \in Nat /\ MinKeycode <= MaxKeycode
      /\ KeycodeLimit \in Nat /\ MaxKeycode < KeycodeLimit
  BY KeycodeAssumption
<1>2. CASE MaxKeycode + 1 = KeycodeLimit
  <2>1. (MaxKeycode + 1) % KeycodeLimit = 0
    BY <1>1, <1>2
  <2> QED
    BY <1>1, <2>1 DEF Keycodes
<1>3. CASE MaxKeycode + 1 # KeycodeLimit
  <2>1. (MaxKeycode + 1) % KeycodeLimit = MaxKeycode + 1
    BY <1>1, <1>3
  <2> QED
    BY <1>1, <1>3, <2>1 DEF Keycodes
<1> QED
  BY <1>2, <1>3

\* The mapping is a finite table.
LEMMA PlacesAre ==
    ASSUME table \in Tables
    PROVE  /\ per_keycode \in Nat /\ per_keycode > 0
           /\ IsFiniteSet(Places)
           /\ Cardinality(Places) <= per_keycode * Cardinality(Keycodes)
           /\ \A p \in Places : /\ p[1] \in Nat /\ p[1] < per_keycode /\ p[2] \in Keycodes
                                /\ IsFiniteSet(Before(p))
           /\ \A p, q \in Places : p[1] = q[1] /\ p[2] = q[2] => p = q
<1>1. per_keycode \in Nat /\ per_keycode > 0
  <2>1. MinKeycode \in DOMAIN table
    BY KeycodeAssumption
  <2>2. table[MinKeycode] \in Seq(Nat) /\ Len(table[MinKeycode]) > 0
    BY <2>1, KeycodeAssumption
  <2> QED
    BY <2>2, LenProperties DEF per_keycode
<1> DEFINE columns == 0 .. per_keycode - 1
<1>2. IsFiniteSet(columns) /\ Cardinality(columns) = per_keycode
  BY <1>1, FS_Interval
<1>3. IsFiniteSet(Keycodes)
  BY CounterIs, FS_Interval DEF Keycodes
<1>4. /\ IsFiniteSet(columns \X Keycodes)
      /\ Cardinality(columns \X Keycodes) = per_keycode * Cardinality(Keycodes)
  BY <1>2, <1>3, FS_Product
<1>5. Places \subseteq columns \X Keycodes
  BY DEF Places
<1>6. IsFiniteSet(Places) /\ Cardinality(Places) <= per_keycode * Cardinality(Keycodes)
  BY <1>4, <1>5, FS_Subset
<1>7. \A p : Before(p) \subseteq Places
  BY DEF Before
<1>8. \A p \in Places : IsFiniteSet(Before(p))
  BY <1>6, <1>7, FS_Subset
<1>9. \A p \in Places : /\ p[1] \in Nat /\ p[1] < per_keycode
                         /\ p[2] \in Keycodes /\ p = <<p[1], p[2]>>
  BY <1>1, <1>5
<1> QED
  BY <1>1, <1>6, <1>8, <1>9

\* A place that is past has its keycode among those that were found before.
LEMMA PastRank ==
    ASSUME Scan, NEW p \in Past
    PROVE  Cardinality(Before(p)) \in 0 .. Cardinality(Past) - 1
<1>1. table \in Tables /\ p \in Places
  BY DEF Scan, Past
<1>2. /\ IsFiniteSet(Places) /\ Past \subseteq Places
      /\ Before(p) \subseteq Past /\ p \notin Before(p)
  <2>1. \A q \in Places : q[1] \in Nat /\ q[2] \in Keycodes
    BY <1>1, PlacesAre
  <2>2. column \in Nat /\ (InColumn => keycode \in Nat)
    BY <1>1, CounterIs, PlacesAre DEF Scan
  <2>3. Past \subseteq Places /\ IsFiniteSet(Places)
    BY <1>1, PlacesAre DEF Past
  <2>4. p \notin Before(p)
    BY <1>1, <2>1, CounterIs DEF Before
  <2>5. ASSUME NEW q \in Before(p) PROVE q \in Past
    <3>1. q \in Places /\ (q[1] < p[1] \/ (q[1] = p[1] /\ q[2] < p[2]))
      BY DEF Before
    <3>2. p[1] < column \/ (p[1] = column /\ (~InColumn \/ p[2] < keycode))
      BY DEF Past
    <3>3. /\ q[1] \in Nat /\ p[1] \in Nat /\ q[2] \in Nat /\ p[2] \in Nat
      BY <1>1, <2>1, <3>1, CounterIs
    <3>4. q[1] < column \/ (q[1] = column /\ (~InColumn \/ q[2] < keycode))
      <4> HIDE DEF InColumn
      <4> QED
        BY <2>2, <3>1, <3>2, <3>3
    <3> QED
      BY <3>1, <3>4 DEF Past
  <2> QED
    BY <2>3, <2>4, <2>5
<1>3. /\ IsFiniteSet(Past) /\ Cardinality(Past) \in Nat
      /\ IsFiniteSet(Before(p)) /\ Cardinality(Before(p)) \in Nat
  BY <1>2, FS_Subset, FS_CardinalityType
<1>4. Cardinality(Before(p)) <= Cardinality(Past)
  BY <1>2, <1>3, FS_Subset
<1>5. Cardinality(Before(p)) # Cardinality(Past)
  BY <1>2, <1>3, FS_Subset
<1> QED
  BY <1>3, <1>4, <1>5

LEMMA ScanStarts == ASSUME LookupInit PROVE Scan
<1>1. /\ table \in Tables /\ pc = "scan" /\ column = 0 /\ keycode = MinKeycode /\ result = <<>>
  <2>1. AnyTable \in Tables
    BY KeycodeAssumption DEF AnyTable
  <2> QED
    BY <2>1 DEF LookupInit, Init
<1>2. Past = {}
  <2>1. InColumn
    BY <1>1, CounterIs DEF InColumn
  <2> SUFFICES ASSUME NEW p \in Past PROVE FALSE
    OBVIOUS
  <2>2. p \in Places /\ (p[1] < 0 \/ p[2] < MinKeycode)
    BY <1>1, <2>1 DEF Past
  <2>3. p[1] \in Nat /\ p[2] \in Keycodes
    BY <1>1, <2>2, PlacesAre
  <2> QED
    BY <2>2, <2>3, CounterIs
<1>3. keycode \in Keycodes /\ per_keycode \in Nat /\ per_keycode > 0
  BY <1>1, CounterIs, PlacesAre DEF Keycodes
<1> QED
  BY <1>1, <1>2, <1>3, FS_EmptySet, EmptySeq DEF Scan

LEMMA VisitScans ==
    ASSUME Scan, Visit
    PROVE  Scan'
<1>1. /\ pc = "scan" /\ column < per_keycode /\ keycode # 0 /\ keycode <= MaxKeycode
      /\ result' = IF xcb_key_symbols_get_keysym(keycode, column) = sought
                   THEN Append(result, keycode) ELSE result
      /\ keycode' = (keycode + 1) % KeycodeLimit
      /\ table' = table /\ sought' = sought /\ column' = column /\ pc' = pc
  BY DEF Visit, InColumn
<1>2. /\ table \in Tables /\ column \in Nat /\ column < per_keycode /\ per_keycode \in Nat
      /\ result \in Seq(Keycodes) /\ keycode \in Keycodes
      /\ keycode \in Nat /\ MaxKeycode \in Nat /\ InColumn
  <2>1. table \in Tables /\ per_keycode \in Nat
    BY PlacesAre DEF Scan
  <2>2. keycode \in Keycodes
    BY <1>1, CounterIs DEF Scan
  <2> QED
    BY <1>1, <2>1, <2>2, CounterIs DEF Scan, InColumn
<1>3. Places' = Places /\ per_keycode' = per_keycode /\ \A p : Before(p)' = Before(p)
  <2>1. per_keycode' = per_keycode /\ Places' = Places
    BY <1>1 DEF per_keycode, Places, xcb_key_symbols_get_keysym
  <2> QED
    BY <2>1 DEF Before
<1> DEFINE here == <<column, keycode>>
           hit  == xcb_key_symbols_get_keysym(keycode, column) = sought
<1>4. hit <=> here \in Places
  BY <1>2 DEF Places
<1>5. /\ keycode' \in Keycodes \cup {(MaxKeycode + 1) % KeycodeLimit}
      /\ InColumn' => keycode' = keycode + 1
      /\ ~InColumn' => keycode = MaxKeycode
  <2>1. CASE keycode = MaxKeycode
    BY <1>1, <2>1, CounterIs DEF InColumn
  <2>2. CASE keycode # MaxKeycode
    <3>1. keycode' = keycode + 1 /\ keycode + 1 <= MaxKeycode
      BY <1>1, <1>2, <2>2, CounterIs
    <3>2. keycode + 1 \in Keycodes
      BY <1>2, <3>1, CounterIs DEF Keycodes
    <3> QED
      BY <1>2, <3>1, <3>2 DEF InColumn
  <2> QED
    BY <2>1, <2>2
<1>6. Past' = Past \cup (IF hit THEN {here} ELSE {})
  <2>1. \A p \in Places : p[1] \in Nat /\ p[2] \in Nat /\ p[2] <= MaxKeycode
    BY <1>2, PlacesAre, CounterIs
  <2>2. ASSUME NEW p \in Places
        PROVE  (p[1] = column /\ (~InColumn' \/ p[2] < keycode'))
               <=> (p[1] = column /\ (p[2] < keycode \/ p[2] = keycode))
    <3>1. CASE InColumn'
      BY <1>2, <1>5, <2>1, <3>1
    <3>2. CASE ~InColumn'
      BY <1>2, <1>5, <2>1, <3>2
    <3> QED
      BY <3>1, <3>2
  <2>3. Past' = {p \in Places : p[1] < column \/ (p[1] = column /\ (~InColumn' \/ p[2] < keycode'))}
    BY <1>1, <1>3 DEF Past
  <2>4. Past = {p \in Places : p[1] < column \/ (p[1] = column /\ p[2] < keycode)}
    BY <1>2 DEF Past
  <2>5. \A p \in Places : (p[1] = column /\ p[2] = keycode) <=> p = here
    <3>1. \A p \in Places : p = <<p[1], p[2]>>
      BY DEF Places
    <3> QED
      BY <3>1
  <2>6. \A p : p \in Past' <=> p \in Past \/ (p \in Places /\ p = here)
    BY <2>2, <2>3, <2>4, <2>5
  <2> HIDE DEF here, hit
  <2> QED
    BY <1>4, <2>6
<1>7. here \in Places => here \notin Past /\ Before(here) = Past
  <2>1. \A p \in Places : p[1] \in Nat /\ p[2] \in Nat
    BY <1>2, PlacesAre, CounterIs
  <2> QED
    BY <1>2, <2>1 DEF Past, Before
<1>8. IsFiniteSet(Past) /\ Cardinality(Past) \in Nat
  <2>1. Past \subseteq Places /\ IsFiniteSet(Places)
    BY <1>2, PlacesAre DEF Past
  <2> QED
    BY <2>1, FS_Subset, FS_CardinalityType
<1> HIDE DEF here, hit
<1>9. /\ result' \in Seq(Keycodes)
      /\ Len(result') = Cardinality(Past')
      /\ \A p \in Past' : result'[Cardinality(Before(p)) + 1] = p[2]
  <2>1. Len(result) = Cardinality(Past) /\ \A p \in Past : result[Cardinality(Before(p)) + 1] = p[2]
    BY DEF Scan
  <2>2. CASE ~hit
    <3>1. result' = result /\ Past' = Past
      BY <1>1, <1>6, <2>2 DEF hit
    <3> QED
      BY <1>2, <2>1, <3>1
  <2>3. CASE hit
    <3>1. result' = Append(result, keycode) /\ Past' = Past \cup {here}
      BY <1>1, <1>6, <2>3 DEF hit
    <3>2. here \notin Past /\ Before(here) = Past /\ here[2] = keycode
      BY <1>4, <1>7, <2>3 DEF here
    <3>3. Cardinality(Past') = Cardinality(Past) + 1
      BY <1>8, <3>1, <3>2, FS_AddElement
    <3>4. /\ result' \in Seq(Keycodes) /\ Len(result') = Len(result) + 1
          /\ \A i \in 1 .. Len(result) : result'[i] = result[i]
          /\ result'[Len(result) + 1] = keycode
      BY <1>2, <3>1, AppendProperties
    <3>5. ASSUME NEW p \in Past PROVE result'[Cardinality(Before(p)) + 1] = p[2]
      <4>1. Cardinality(Before(p)) + 1 \in 1 .. Len(result)
        BY <1>8, <2>1, PastRank
      <4> QED
        BY <2>1, <3>4, <4>1
    <3>6. result'[Cardinality(Before(here)) + 1] = here[2]
      BY <2>1, <3>2, <3>4
    <3> QED
      BY <2>1, <3>1, <3>3, <3>4, <3>5, <3>6
  <2> QED
    BY <2>2, <2>3
<1>10. \A p \in Past' : Before(p)' = Before(p)
  BY <1>3
<1>11. \A p \in Past' : result'[Cardinality(Before(p)') + 1] = p[2]
  BY <1>9, <1>10
<1>12. column' \in 0 .. per_keycode' /\ column' # per_keycode'
  BY <1>1, <1>2, <1>3
<1>13. table' \in Tables /\ pc' = "scan"
  BY <1>1, <1>2
<1> QED
  BY <1>5, <1>9, <1>11, <1>12, <1>13 DEF Scan

LEMMA ColumnScans ==
    ASSUME Scan, NextColumn
    PROVE  Scan'
<1>1. /\ pc = "scan" /\ column < per_keycode /\ ~InColumn
      /\ column' = column + 1 /\ keycode' = MinKeycode
      /\ table' = table /\ sought' = sought /\ result' = result /\ pc' = pc
  BY DEF NextColumn
<1>2. Places' = Places /\ per_keycode' = per_keycode /\ \A p : Before(p)' = Before(p)
  <2>1. per_keycode' = per_keycode /\ Places' = Places
    BY <1>1 DEF per_keycode, Places, xcb_key_symbols_get_keysym
  <2> QED
    BY <2>1 DEF Before
<1>3. table \in Tables /\ per_keycode \in Nat /\ column \in Nat /\ column + 1 \in 0 .. per_keycode
  <2>1. table \in Tables /\ per_keycode \in Nat
    BY PlacesAre DEF Scan
  <2> QED
    BY <1>1, <2>1 DEF Scan
<1>4. Past' = Past
  <2>1. \A p \in Places : p[1] \in Nat /\ p[2] \in Nat /\ MinKeycode <= p[2]
    BY <1>3, PlacesAre, CounterIs
  <2>2. InColumn'
    BY <1>1, CounterIs DEF InColumn
  <2>3. Past' = {p \in Places : p[1] < column + 1 \/ (p[1] = column + 1 /\ p[2] < MinKeycode)}
    BY <1>1, <1>2, <2>2 DEF Past
  <2>4. Past = {p \in Places : p[1] < column \/ p[1] = column}
    BY <1>1 DEF Past
  <2>5. \A p \in Places : (p[1] < column + 1 \/ (p[1] = column + 1 /\ p[2] < MinKeycode))
                          <=> (p[1] < column \/ p[1] = column)
    BY <1>3, <2>1, CounterIs
  <2> QED
    BY <2>3, <2>4, <2>5
<1>5. MinKeycode \in Keycodes
  BY CounterIs DEF Keycodes
<1>6. /\ result \in Seq(Keycodes) /\ Len(result) = Cardinality(Past)
      /\ \A p \in Past : result[Cardinality(Before(p)) + 1] = p[2]
  BY DEF Scan
<1>7. \A p \in Past' : result'[Cardinality(Before(p)') + 1] = p[2]
  BY <1>1, <1>2, <1>4, <1>6
<1> QED
  BY <1>1, <1>2, <1>3, <1>4, <1>5, <1>6, <1>7 DEF Scan

\* Steps that leave the search alone, its end included.
LEMMA SearchRests ==
    ASSUME Scan, UNCHANGED <<table, sought, column, keycode, result>>,
           pc' = pc \/ Finish
    PROVE  Scan'
<1>1. /\ Places' = Places /\ per_keycode' = per_keycode /\ Past' = Past
      /\ \A p : Before(p)' = Before(p)
  <2>1. per_keycode' = per_keycode /\ Places' = Places
    BY DEF per_keycode, Places, xcb_key_symbols_get_keysym
  <2>2. InColumn' = InColumn
    BY DEF InColumn
  <2> QED
    BY <2>1, <2>2 DEF Before, Past
<1>2. pc' = "done" => column = per_keycode
  <2>1. CASE pc' = pc
    BY <2>1 DEF Scan
  <2>2. CASE Finish
    <3>1. column >= per_keycode /\ column \in 0 .. per_keycode /\ per_keycode \in Nat
      BY <2>2, PlacesAre DEF Finish, Scan
    <3> QED
      BY <3>1
  <2> QED
    BY <2>1, <2>2
<1>3. pc' \in {"scan", "done"}
  BY DEF Scan, Finish
<1> QED
  BY <1>1, <1>2, <1>3 DEF Scan

LEMMA ScanStep == Scan /\ [LookupNext]_lookup_vars => Scan'
<1> SUFFICES ASSUME Scan, [LookupNext]_lookup_vars PROVE Scan'
  OBVIOUS
<1>1. CASE KeysymStep
  <2>1. Visit \/ NextColumn \/ Finish
    BY <1>1 DEF KeysymStep, Next
  <2>2. ASSUME Finish PROVE Scan'
    BY <2>2, SearchRests DEF Finish
  <2> QED
    BY <2>1, <2>2, VisitScans, ColumnScans
<1>2. CASE UNCHANGED vars
  BY <1>2, SearchRests DEF vars
<1>3. KeysymStep \/ UNCHANGED vars
  BY DEF LookupNext, lookup_vars
<1> QED
  BY <1>1, <1>2, <1>3

THEOREM ScanInvariance == LookupSpec => []Scan
<1>1. LookupInit => Scan
  BY ScanStarts
<1> QED
  BY <1>1, ScanStep, PTL DEF LookupSpec

\* The search finds a keycode once for every column in which its key has the
\* keysym, in order, and nothing else, for any mapping, also when the counter
\* wraps around behind the highest keycode (keysyms.c:238-267).
THEOREM SearchFindsExactly == LookupSpec => []FoundExactly
<1>1. Scan => FoundExactly
  <2> SUFFICES ASSUME Scan PROVE FoundExactly
    OBVIOUS
  <2>1. table \in Tables
    BY DEF Scan
  <2>2. IsFiniteSet(Places) /\ Past \in SUBSET Places
    BY <2>1, PlacesAre DEF Past
  <2>3. Cardinality(Past) <= Cardinality(Places)
    BY <2>2, FS_Subset
  <2>4. Cardinality(Past) \in Nat /\ Cardinality(Places) \in Nat
    BY <2>2, FS_Subset, FS_CardinalityType
  <2>5. /\ per_keycode * Cardinality(Keycodes) \in Nat
        /\ Cardinality(Places) <= per_keycode * Cardinality(Keycodes)
    <3>1. IsFiniteSet(Keycodes) /\ per_keycode \in Nat
      BY <2>1, CounterIs, FS_Interval, PlacesAre DEF Keycodes
    <3>2. Cardinality(Keycodes) \in Nat
      BY <3>1, FS_CardinalityType
    <3> QED
      BY <2>1, <3>1, <3>2, PlacesAre
  <2> DEFINE room == per_keycode * Cardinality(Keycodes)
  <2>6. Len(result) <= room
    <3>1. Len(result) = Cardinality(Past) /\ room \in Nat /\ Cardinality(Places) <= room
      BY <2>5 DEF Scan
    <3> HIDE DEF room
    <3> QED
      BY <2>3, <2>4, <3>1
  <2>7. TypeOK
    <3>1. keycode \in 0 .. KeycodeLimit - 1
      BY CounterIs DEF Scan
    <3> QED
      BY <2>6, <3>1 DEF Scan, TypeOK
  <2>8. ASSUME pc = "done" PROVE Past = Places
    <3>1. column = per_keycode
      BY <2>8 DEF Scan
    <3>2. \A p \in Places : p[1] < per_keycode
      BY <2>1, PlacesAre
    <3> QED
      BY <3>1, <3>2 DEF Past
  <2> QED
    BY <2>7, <2>8 DEF Scan, FoundExactly
<1> QED
  BY <1>1, ScanInvariance, PTL
-----------------------------------------------------------------------------
(* Columns and cases.                                                       *)

\* A key with one keysym has its two cases, in either group.
LEMMA SingleIs ==
    ASSUME NEW sym \in Int, NEW col \in 0 .. 3
    PROVE  LET case == xcb_convert_case(sym)
           IN  get_keysym(<<sym>>, col) =
                   IF col \in {0, 2} THEN case.lower
                   ELSE IF case.upper = case.lower THEN NoSymbol ELSE case.upper
<1>1. col = 0 \/ col = 1 \/ col = 2 \/ col = 3
  OBVIOUS
<1>2. Len(<<sym>>) = 1 /\ Trimmed(<<sym>>) = 1 /\ <<sym>>[1] = sym
  BY DEF Trimmed
<1> QED
  BY <1>1, <1>2 DEF get_keysym, Even

\* No key of the mappings has a capital that no character has.
CapitalsAreAssigned == \A t \in Tables : \A k \in Keycodes : t[k][1] \notin Stray

LEMMA KeysAre ==
    ASSUME table \in Tables, NEW code \in Keycodes
    PROVE  table[code] \in Seq(Nat) /\ table[code] # <<>> /\ table[code][1] \in Nat
<1>1. code \in DOMAIN table
  BY KeycodeAssumption DEF Keycodes
<1>2. table[code] \in Seq(Nat) /\ Len(table[code]) > 0
  BY <1>1, KeycodeAssumption
<1> QED
  BY <1>2, ElementOfSeq, LenProperties, EmptySeq

\* The four columns of any key follow the protocol (keysyms.c:101-233).
THEOREM FourColumnsFollowProtocol == LookupSpec => []GroupsFollowProtocol
<1>1. Scan => GroupsFollowProtocol
  <2> SUFFICES ASSUME Scan, NEW code \in Keycodes, NEW col \in 0 .. 3
               PROVE  xcb_key_symbols_get_keysym(code, col) = Protocol(table[code], col)
    BY DEF GroupsFollowProtocol
  <2>1. table[code] \in Seq(Nat) /\ table[code] # <<>>
    BY KeysAre DEF Scan
  <2> QED
    BY <2>1, RowFollows DEF xcb_key_symbols_get_keysym
<1> QED
  BY <1>1, ScanInvariance, PTL

\* The same, and a key has the same keysyms whichever case of a letter the
\* server lists (keysyms.c:312-412), for any mapping without stray capitals.
THEOREM ColumnsFollow ==
    ASSUME CapitalsAreAssigned
    PROVE  LookupSpec => []ColumnsFollowProtocol
<1>1. Scan => CasesAgree
  <2> SUFFICES ASSUME Scan, NEW code \in Keycodes
               PROVE  LET sym == table[code][1]
                          case == xcb_convert_case(sym)
                      IN  /\ Cased(sym) => /\ sym \in {case.lower, case.upper}
                                           /\ xcb_convert_case(case.lower) = case
                                           /\ xcb_convert_case(case.upper) = case
                          /\ \A col \in 0 .. 3 :
                                get_keysym(<<case.lower>>, col) = get_keysym(<<case.upper>>, col)
    BY DEF CasesAgree
  <2> DEFINE sym == table[code][1]
             case == xcb_convert_case(sym)
  <2>1. sym \in Nat /\ sym \notin Stray
    BY KeysAre DEF Scan, CapitalsAreAssigned
  <2> HIDE DEF sym
  <2>2. /\ case.lower \in Int /\ case.upper \in Int
        /\ Cased(sym) => /\ sym \in {case.lower, case.upper}
                         /\ xcb_convert_case(case.lower) = case
                         /\ xcb_convert_case(case.upper) = case
        /\ ~Cased(sym) => case.lower = sym /\ case.upper = sym
    BY <2>1, CasesConsist
  <2> HIDE DEF case
  <2>3. ASSUME NEW col \in 0 .. 3
        PROVE  get_keysym(<<case.lower>>, col) = get_keysym(<<case.upper>>, col)
    <3>1. xcb_convert_case(case.lower) = xcb_convert_case(case.upper)
      BY <2>2
    <3> DEFINE both == xcb_convert_case(case.lower)
    <3>2. get_keysym(<<case.lower>>, col) =
              IF col \in {0, 2} THEN both.lower
              ELSE IF both.upper = both.lower THEN NoSymbol ELSE both.upper
      BY <2>2, SingleIs
    <3>3. get_keysym(<<case.upper>>, col) =
              IF col \in {0, 2} THEN both.lower
              ELSE IF both.upper = both.lower THEN NoSymbol ELSE both.upper
      BY <2>2, <3>1, SingleIs
    <3> HIDE DEF both
    <3> QED
      BY <3>2, <3>3
  <2> QED
    BY <2>2, <2>3 DEF case, sym
<1> QED
  BY <1>1, FourColumnsFollowProtocol, ScanInvariance, PTL DEF ColumnsFollowProtocol

-----------------------------------------------------------------------------
(* Labels.                                                                  *)

LEMMA TablesAre ==
    /\ Len(Labels!labelEvent) = 35 /\ Len(Labels!labelError) = 18 /\ Len(Labels!labelRequest) = 128
    /\ DOMAIN Labels!labelEvent = 1 .. 35 /\ DOMAIN Labels!labelError = 1 .. 18
    /\ DOMAIN Labels!labelRequest = 1 .. 128
  BY DEF Labels!labelEvent, Labels!labelError, Labels!labelRequest

\* The label of an event is the name of its handler.
LEMMA EventNames ==
    ASSUME NEW i \in 1 .. 35, NEW name \in DOMAIN Labels!TypedHandler
    PROVE  (Labels!labelEvent[i] = name) <=> (Labels!TypedHandler[name] = i - 1)
BY SMTT(60) DEF Labels!labelEvent, Labels!TypedHandler

\* Handlers are for events that have a label.
LEMMA HandledEvents ==
    ASSUME NEW name \in DOMAIN Labels!TypedHandler
    PROVE  Labels!TypedHandler[name] \in 2 .. 34
BY SMTT(60) DEF Labels!TypedHandler

LEMMA ErrorNames ==
    ASSUME NEW i \in 1 .. 18, NEW name \in DOMAIN Labels!ErrorConstant
    PROVE  (Labels!labelError[i] = name) <=> (Labels!ErrorConstant[name] = i - 1)
BY SMTT(60) DEF Labels!labelError, Labels!ErrorConstant

LEMMA NamedErrors ==
    ASSUME NEW name \in DOMAIN Labels!ErrorConstant
    PROVE  Labels!ErrorConstant[name] \in 1 .. 17
BY SMTT(60) DEF Labels!ErrorConstant

\* Only the variants of the text requests share a label.
LEMMA RequestNames ==
    ASSUME NEW i \in 1 .. 128, NEW j \in 1 .. 128,
           Labels!labelRequest[i] = Labels!labelRequest[j], i # j
    PROVE  <<i, j>> \in {<<75, 76>>, <<76, 75>>, <<77, 78>>, <<78, 77>>}
BY SMTT(60) DEF Labels!labelRequest

\* NULL is the label of what is beyond a table, and no other.
LEMMA LabelIs ==
    ASSUME NEW n \in Nat
    PROVE  /\ Labels!xcb_event_get_label(n) =
                  IF n < 35 THEN Labels!labelEvent[n + 1] ELSE NoLabel
           /\ Labels!xcb_event_get_error_label(n) =
                  IF n < 18 THEN Labels!labelError[n + 1] ELSE NoLabel
           /\ Labels!xcb_event_get_request_label(n) =
                  IF n < 128 THEN Labels!labelRequest[n + 1] ELSE NoLabel
           /\ n < 35  => Labels!labelEvent[n + 1] # NoLabel
           /\ n < 18  => Labels!labelError[n + 1] # NoLabel
           /\ n < 128 => Labels!labelRequest[n + 1] # NoLabel
<1>1. /\ \A i \in 1 .. 35  : Labels!labelEvent[i] # NoLabel
      /\ \A i \in 1 .. 18  : Labels!labelError[i] # NoLabel
      /\ \A i \in 1 .. 128 : Labels!labelRequest[i] # NoLabel
  BY LabelAssumption, TablesAre DEF Range
<1>2. /\ n < 35 => n + 1 \in 1 .. 35
      /\ n < 18 => n + 1 \in 1 .. 18
      /\ n < 128 => n + 1 \in 1 .. 128
  OBVIOUS
<1>3. /\ Labels!xcb_event_get_label(n) =
              IF n < 35 THEN Labels!labelEvent[n + 1] ELSE NoLabel
      /\ Labels!xcb_event_get_error_label(n) =
              IF n < 18 THEN Labels!labelError[n + 1] ELSE NoLabel
      /\ Labels!xcb_event_get_request_label(n) =
              IF n < 128 THEN Labels!labelRequest[n + 1] ELSE NoLabel
  BY TablesAre DEF Labels!xcb_event_get_label, Labels!xcb_event_get_error_label,
                   Labels!xcb_event_get_request_label, Labels!Label
<1> QED
  BY <1>1, <1>2, <1>3

\* The log says of what is handled what the tables have for it.
EventLogged(t) ==
    /\ now = <<t>>
    /\ log = [event |-> Labels!xcb_event_get_label(t % 128), error |-> NoLabel,
              request |-> NoLabel]

FailureLogged(code, major) ==
    /\ now = <<0, code, major>>
    /\ log = [event |-> Labels!xcb_event_get_label(0),
              error |-> Labels!xcb_event_get_error_label(code),
              request |-> Labels!xcb_event_get_request_label(major)]

Logged ==
    \/ now = <<>>
    \/ \E t \in ResponseType : EventLogged(t)
    \/ \E code \in ErrorCode, major \in Major : FailureLogged(code, major)

LEMMA LoggedStep == Logged /\ [LookupNext]_lookup_vars => Logged'
<1> SUFFICES ASSUME Logged, [LookupNext]_lookup_vars PROVE Logged'
  OBVIOUS
<1>1. ASSUME NEW t \in ResponseType, Labels!LogEvent(t) PROVE Logged'
  <2>1. <<t>>[1] = t
    OBVIOUS
  <2>2. EventLogged(t)'
    BY <1>1, <2>1 DEF Labels!LogEvent, Labels!XCB_EVENT_RESPONSE_TYPE, Labels!Nothing, EventLogged
  <2> QED
    BY <2>2 DEF Logged
<1>2. ASSUME NEW code \in ErrorCode, NEW major \in Major, Labels!LogError(code, major)
      PROVE  Logged'
  <2>1. FailureLogged(code, major)'
    BY <1>2 DEF Labels!LogError, FailureLogged
  <2> QED
    BY <2>1 DEF Logged
<1>3. CASE Labels!Done
  BY <1>3 DEF Labels!Done, Logged
<1>4. CASE UNCHANGED label_vars
  <2>1. now' = now /\ log' = log
    BY <1>4 DEF label_vars
  <2> QED
    BY <2>1 DEF Logged, EventLogged, FailureLogged
<1>5. Labels!Next \/ UNCHANGED label_vars
  BY DEF LookupNext, LabelStep, lookup_vars
<1> QED
  BY <1>1, <1>2, <1>3, <1>4, <1>5 DEF Labels!Next

\* The numbers that arrive.
LEMMA CodesAre == ResponseType \subseteq Nat /\ ErrorCode \subseteq Nat /\ Major \subseteq Nat
<1>1. /\ ResponseType \subseteq 2 .. 127 \cup 130 .. 255
      /\ ErrorCode \subseteq 0 .. 255 /\ Major \subseteq 0 .. 255
  BY LookupAssumption, Zenon
<1> QED
  BY <1>1

LEMMA EventsAreNamed ==
    ASSUME NEW t \in ResponseType, EventLogged(t)
    PROVE  Labels!NamedAfterHandler /\ Labels!FailureNamed
<1> DEFINE n == t % 128
<1>1. n \in Nat /\ t \in Nat
  BY CodesAre
<1>2. Len(now) = 1 /\ now[1] = t /\ log.event = Labels!xcb_event_get_label(n)
  BY DEF EventLogged
<1>3. ASSUME NEW name \in DOMAIN Labels!TypedHandler
      PROVE  (log.event = name) <=> (Labels!TypedHandler[name] = n)
  <2> HIDE DEF n
  <2>1. CASE n < 35
    <3> DEFINE i == n + 1
    <3>1. i \in 1 .. 35 /\ i - 1 = n
      BY <1>1, <2>1
    <3>2. log.event = Labels!labelEvent[i]
      BY <1>1, <1>2, <2>1, LabelIs
    <3> HIDE DEF i
    <3>3. (Labels!labelEvent[i] = name) <=> (Labels!TypedHandler[name] = i - 1)
      BY <3>1, EventNames
    <3> QED
      BY <3>1, <3>2, <3>3, Zenon
  <2>2. CASE ~(n < 35)
    <3> DEFINE i == Labels!TypedHandler[name] + 1
    <3>1. Labels!TypedHandler[name] \in 2 .. 34
      BY HandledEvents
    <3>2. i \in 1 .. 35 /\ i - 1 = Labels!TypedHandler[name] /\ i - 1 \in Nat /\ i - 1 < 35
          /\ i - 1 + 1 = i
      BY <3>1
    <3> HIDE DEF i
    <3>3. Labels!labelEvent[i] = name /\ Labels!labelEvent[i] # NoLabel
      BY <3>2, EventNames, LabelIs
    <3>4. log.event = NoLabel
      BY <1>1, <1>2, <2>2, LabelIs
    <3> QED
      BY <1>1, <2>2, <3>1, <3>3, <3>4
  <2> QED
    BY <2>1, <2>2
<1> QED
  BY <1>2, <1>3 DEF Labels!NamedAfterHandler, Labels!FailureNamed

LEMMA FailuresAreNamed ==
    ASSUME NEW code \in ErrorCode, NEW major \in Major, FailureLogged(code, major)
    PROVE  Labels!NamedAfterHandler /\ Labels!FailureNamed
<1>1. code \in Nat /\ major \in Nat
  BY CodesAre
<1>2. /\ Len(now) = 3 /\ now[2] = code /\ now[3] = major
      /\ log.error = Labels!xcb_event_get_error_label(code)
      /\ log.request = Labels!xcb_event_get_request_label(major)
  BY DEF FailureLogged
<1>3. ASSUME NEW name \in DOMAIN Labels!ErrorConstant
      PROVE  (log.error = name) <=> (Labels!ErrorConstant[name] = code)
  <2>1. CASE code < 18
    <3> DEFINE i == code + 1
    <3>1. i \in 1 .. 18 /\ i - 1 = code
      BY <1>1, <2>1
    <3>2. log.error = Labels!labelError[i]
      BY <1>1, <1>2, <2>1, LabelIs
    <3> HIDE DEF i
    <3>3. (Labels!labelError[i] = name) <=> (Labels!ErrorConstant[name] = i - 1)
      BY <3>1, ErrorNames
    <3> QED
      BY <3>1, <3>2, <3>3, Zenon
  <2>2. CASE ~(code < 18)
    <3> DEFINE i == Labels!ErrorConstant[name] + 1
    <3>1. Labels!ErrorConstant[name] \in 1 .. 17
      BY NamedErrors
    <3>2. i \in 1 .. 18 /\ i - 1 = Labels!ErrorConstant[name] /\ i - 1 \in Nat /\ i - 1 < 18
          /\ i - 1 + 1 = i
      BY <3>1
    <3> HIDE DEF i
    <3>3. Labels!labelError[i] = name /\ Labels!labelError[i] # NoLabel
      BY <3>2, ErrorNames, LabelIs
    <3>4. log.error = NoLabel
      BY <1>1, <1>2, <2>2, LabelIs
    <3> QED
      BY <1>1, <2>2, <3>1, <3>3, <3>4
  <2> QED
    BY <2>1, <2>2
<1>4. (log.request = NoLabel) <=> major >= 128
  BY <1>1, <1>2, LabelIs
<1>5. ASSUME NEW other \in 0 .. 127 \ {major},
             Labels!xcb_event_get_request_label(other) = log.request
      PROVE  {other, major} \in {{74, 75}, {76, 77}}
  <2>1. other \in Nat /\ other < 128 /\ other # major
    OBVIOUS
  <2>2. major < 128
    BY <1>1, <1>2, <1>4, <1>5, <2>1, LabelIs
  <2>3. Labels!labelRequest[other + 1] = Labels!labelRequest[major + 1]
    BY <1>1, <1>2, <1>5, <2>1, <2>2, LabelIs
  <2>4. other + 1 \in 1 .. 128 /\ major + 1 \in 1 .. 128
    BY <1>1, <2>1, <2>2
  <2> DEFINE i == other + 1
             j == major + 1
  <2> HIDE DEF i, j
  <2>5. <<i, j>> \in {<<75, 76>>, <<76, 75>>, <<77, 78>>, <<78, 77>>}
    <3>1. /\ Labels!labelRequest[i] = Labels!labelRequest[j]
          /\ i \in 1 .. 128 /\ j \in 1 .. 128 /\ i # j
      BY <1>1, <2>1, <2>3, <2>4 DEF i, j
    <3> QED
      BY <3>1, RequestNames
  <2>6. \/ (other = 74 /\ major = 75) \/ (other = 75 /\ major = 74)
        \/ (other = 76 /\ major = 77) \/ (other = 77 /\ major = 76)
    BY <1>1, <2>1, <2>5 DEF i, j
  <2> QED
    BY <2>6
<1> QED
  BY <1>2, <1>3, <1>4, <1>5 DEF Labels!NamedAfterHandler, Labels!FailureNamed

\* Whatever arrives is logged under the name of its handler or constant, and
\* under no other; the labels of requests tell them apart (event.c:120-335).
THEOREM LabelsAgree == LookupSpec => []TablesAgree
<1>1. LookupInit => Logged
  BY DEF LookupInit, Labels!Init, Logged
<1>2. Logged => TablesAgree
  <2>1. ASSUME now = <<>> PROVE Labels!NamedAfterHandler /\ Labels!FailureNamed
    BY <2>1 DEF Labels!NamedAfterHandler, Labels!FailureNamed
  <2> QED
    BY <2>1, EventsAreNamed, FailuresAreNamed DEF Logged, TablesAgree
<1> QED
  BY <1>1, <1>2, LoggedStep, PTL DEF LookupSpec

-----------------------------------------------------------------------------
(* Parameters of requests.                                                  *)

LEMMA SameCardinality == \A S : Requests!Cardinality(S) = Cardinality(S)
  BY DEF Requests!Cardinality, Cardinality

\* The bit whose rank is that of a bit of the mask is that bit.
LEMMA RankFindsBit ==
    ASSUME NEW bits \in SUBSET Nat, IsFiniteSet(bits), NEW bit \in bits
    PROVE  LET rank == Requests!Cardinality({b \in bits : b <= bit})
           IN  /\ rank \in 1 .. Requests!Cardinality(bits)
               /\ Requests!NthBit(bits, rank) = bit
<1> DEFINE upto(b) == {c \in bits : c <= b}
<1>1. ASSUME NEW b \in bits
      PROVE  IsFiniteSet(upto(b)) /\ Cardinality(upto(b)) \in Nat /\ upto(b) \in SUBSET bits
    BY FS_Subset, FS_CardinalityType
<1>2. ASSUME NEW b \in bits, NEW c \in bits, Cardinality(upto(b)) = Cardinality(upto(c))
      PROVE  b = c
  <2>1. b \in Nat /\ c \in Nat /\ b \in upto(b) /\ c \in upto(c)
    OBVIOUS
  <2>2. upto(b) \subseteq upto(c) \/ upto(c) \subseteq upto(b)
    <3>1. \A d \in bits : d \in Nat
      OBVIOUS
    <3>2. b <= c \/ c <= b
      BY <2>1
    <3>3. ASSUME NEW d \in Nat, NEW e \in Nat, d <= e PROVE upto(d) \subseteq upto(e)
      <4> SUFFICES ASSUME NEW x \in upto(d) PROVE x \in upto(e)
        OBVIOUS
      <4>1. x \in bits /\ x \in Nat /\ x <= d
        BY <3>1
      <4>2. x <= e
        BY <3>3, <4>1
      <4> QED
        BY <4>1, <4>2
    <3>4. (b <= c => upto(b) \subseteq upto(c)) /\ (c <= b => upto(c) \subseteq upto(b))
      BY <2>1, <3>3
    <3> QED
      BY <3>2, <3>4
  <2> HIDE DEF upto
  <2>3. upto(b) = upto(c)
    BY <1>1, <1>2, <2>2, FS_Subset
  <2>4. c \in upto(b) /\ b \in upto(c)
    BY <2>1, <2>3
  <2> QED
    BY <2>1, <2>4 DEF upto
<1>3. Cardinality(upto(bit)) \in 1 .. Cardinality(bits)
  <2>1. Cardinality(bits) \in Nat /\ Cardinality(upto(bit)) <= Cardinality(bits)
    BY <1>1, FS_Subset, FS_CardinalityType
  <2>2. bit \in upto(bit)
    OBVIOUS
  <2> HIDE DEF upto
  <2>3. Cardinality(upto(bit)) # 0
    BY <1>1, <2>2, FS_EmptySet
  <2> QED
    BY <1>1, <2>1, <2>3
<1> DEFINE rank == Cardinality(upto(bit))
<1>4. Requests!NthBit(bits, rank) = CHOOSE b \in bits : Cardinality(upto(b)) = rank
  BY SameCardinality DEF Requests!NthBit
<1>5. Requests!NthBit(bits, rank) = bit
  <2> HIDE DEF upto
  <2>1. \A b \in bits : Cardinality(upto(b)) = rank <=> b = bit
    BY <1>2
  <2> QED
    BY <1>4, <2>1
<1> QED
  BY <1>3, <1>5, SameCardinality

\* A request takes the parameter of a bit to the bit.
LEMMA TakenToBit ==
    ASSUME NEW bits \in SUBSET Nat, IsFiniteSet(bits), NEW src, NEW bit \in bits
    PROVE  Requests!pack_list(bits, src)[Requests!Cardinality({b \in bits : b <= bit})] = src[bit]
<1> DEFINE rank == Requests!Cardinality({b \in bits : b <= bit})
<1>1. rank \in 1 .. Requests!Cardinality(bits) /\ Requests!NthBit(bits, rank) = bit
  BY RankFindsBit
<1> HIDE DEF rank
<1>2. Requests!pack_list(bits, src)[rank] = src[Requests!NthBit(bits, rank)]
  BY <1>1 DEF Requests!pack_list
<1> QED
  BY <1>1, <1>2 DEF rank

\* The parameters of a bit, among those that were added.
Given(a, bit) == {i \in DOMAIN a : a[i][1] = bit}

LEMMA SameGreatest ==
    ASSUME NEW n \in Nat, NEW S \in SUBSET (0 .. n), S # {}
    PROVE  Requests!Max(S) \in S /\ \A k \in S : k <= Requests!Max(S)
<1>1. Requests!Max(S) = Max(S)
  BY DEF Requests!Max, Max
<1> QED
  BY <1>1, GreatestIs

\* The structure and its mask are what was added, each parameter the last one.
Filled(k, m, p, a) ==
    /\ k \in DOMAIN Requests!Fields
    /\ m \subseteq 0 .. Requests!Fields[k] - 1
    /\ a \in Seq((0 .. Requests!Fields[k] - 1) \X Value)
    /\ DOMAIN p = 0 .. Requests!Fields[k] - 1
    /\ \A bit \in 0 .. Requests!Fields[k] - 1 :
          /\ bit \in m <=> Given(a, bit) # {}
          /\ \A i \in Given(a, bit) : (\A j \in Given(a, bit) : j <= i) => p[bit] = a[i][2]

LEMMA FieldsAre == \A k \in DOMAIN Requests!Fields : Requests!Fields[k] \in Nat \ {0}
  BY DEF Requests!Fields

\* What the server makes of it.
LEMMA FilledIsSent ==
    ASSUME NEW k, NEW m, NEW p, NEW a, Filled(k, m, p, a)
    PROVE  \A bit \in 0 .. Requests!Fields[k] - 1 :
              (IF bit \in m
               THEN Requests!pack_list(m, p)[Requests!Cardinality({b \in m : b <= bit})]
               ELSE Junk)
              = IF Given(a, bit) = {} THEN Junk ELSE a[Requests!Max(Given(a, bit))][2]
<1> SUFFICES ASSUME NEW bit \in 0 .. Requests!Fields[k] - 1, bit \in m
             PROVE  Requests!pack_list(m, p)[Requests!Cardinality({b \in m : b <= bit})]
                    = a[Requests!Max(Given(a, bit))][2]
  BY DEF Filled
<1>1. Requests!Fields[k] \in Nat /\ m \in SUBSET Nat /\ IsFiniteSet(m)
  <2>1. Requests!Fields[k] \in Nat
    BY FieldsAre DEF Filled
  <2> DEFINE top == Requests!Fields[k] - 1
  <2>2. top \in Int /\ m \in SUBSET (0 .. top)
    BY <2>1 DEF Filled
  <2> HIDE DEF top
  <2>3. IsFiniteSet(0 .. top) /\ m \in SUBSET Nat
    BY <2>2, FS_Interval
  <2> QED
    BY <2>1, <2>2, <2>3, FS_Subset
<1>2. Requests!pack_list(m, p)[Requests!Cardinality({b \in m : b <= bit})] = p[bit]
  BY <1>1, TakenToBit
<1> DEFINE last == Requests!Max(Given(a, bit))
<1>3. last \in Given(a, bit) /\ \A j \in Given(a, bit) : j <= last
  <2>1. Len(a) \in Nat /\ DOMAIN a = 1 .. Len(a)
    BY LenProperties DEF Filled
  <2>2. Given(a, bit) \in SUBSET (0 .. Len(a))
    BY <2>1 DEF Given
  <2>3. Given(a, bit) # {}
    BY DEF Filled
  <2> QED
    BY <2>1, <2>2, <2>3, SameGreatest
<1> HIDE DEF last
<1>4. p[bit] = a[last][2]
  BY <1>3 DEF Filled
<1> QED
  BY <1>2, <1>4 DEF last

FilledIn == Filled(kind, mask, params, adds)

LEMMA FilledStarts == LookupInit => FilledIn
<1> SUFFICES ASSUME LookupInit PROVE FilledIn
  OBVIOUS
<1>1. /\ kind \in DOMAIN Requests!Fields /\ mask = {} /\ adds = <<>>
      /\ params = [bit \in 0 .. Requests!Fields[kind] - 1 |-> Junk]
  BY DEF LookupInit, Requests!Init, Requests!Bits
<1>2. \A bit : Given(adds, bit) = {}
  BY <1>1 DEF Given
<1>3. adds \in Seq((0 .. Requests!Fields[kind] - 1) \X Value)
  BY <1>1
<1> QED
  BY <1>1, <1>2, <1>3 DEF FilledIn, Filled

LEMMA AddFills ==
    ASSUME FilledIn, NEW bit \in Requests!Bits, NEW v \in Value,
           Requests!XCB_AUX_ADD_PARAM(bit, v)
    PROVE  FilledIn'
<1> DEFINE Bits == 0 .. Requests!Fields[kind] - 1
           n == Len(adds)
<1>1. /\ mask' = mask \cup {bit} /\ params' = [params EXCEPT ![bit] = v]
      /\ adds' = Append(adds, <<bit, v>>) /\ kind' = kind /\ bit \in Bits
  BY DEF Requests!XCB_AUX_ADD_PARAM, Requests!Bits
<1>2. /\ kind \in DOMAIN Requests!Fields /\ mask \subseteq Bits
      /\ adds \in Seq(Bits \X Value) /\ DOMAIN params = Bits
      /\ \A b \in Bits :
            /\ b \in mask <=> Given(adds, b) # {}
            /\ \A i \in Given(adds, b) :
                  (\A j \in Given(adds, b) : j <= i) => params[b] = adds[i][2]
  BY DEF FilledIn, Filled
<1> HIDE DEF Bits
<1>3. /\ n \in Nat /\ DOMAIN adds = 1 .. n
      /\ adds' \in Seq(Bits \X Value) /\ DOMAIN adds' = 1 .. n + 1
      /\ \A i \in 1 .. n : adds'[i] = adds[i]
      /\ adds'[n + 1] = <<bit, v>>
  <2>1. <<bit, v>> \in Bits \X Value
    BY <1>1
  <2> QED
    BY <1>1, <1>2, <2>1, AppendProperties, LenProperties
<1> HIDE DEF n
<1>4. ASSUME NEW b \in Bits
      PROVE  /\ b \in mask' <=> Given(adds', b) # {}
             /\ \A i \in Given(adds', b) :
                   (\A j \in Given(adds', b) : j <= i) => params'[b] = adds'[i][2]
  <2>1. CASE b = bit
    <3>1. n + 1 \in Given(adds', b) /\ b \in mask'
      BY <1>1, <1>3, <2>1 DEF Given
    <3>2. ASSUME NEW i \in Given(adds', b), \A j \in Given(adds', b) : j <= i
          PROVE  params'[b] = adds'[i][2]
      <4>1. i = n + 1
        BY <1>3, <3>1, <3>2 DEF Given
      <4> QED
        BY <1>1, <1>2, <1>3, <2>1, <4>1
    <3> QED
      BY <3>1, <3>2
  <2>2. CASE b # bit
    <3>1. Given(adds', b) = Given(adds, b)
      <4>1. n + 1 \notin Given(adds', b)
        BY <1>3, <2>2 DEF Given
      <4> QED
        BY <1>3, <4>1 DEF Given
    <3>2. \A i \in Given(adds, b) : adds'[i] = adds[i]
      BY <1>3 DEF Given
    <3>3. params'[b] = params[b] /\ (b \in mask' <=> b \in mask)
      BY <1>1, <1>2, <2>2
    <3> QED
      BY <1>2, <3>1, <3>2, <3>3
  <2> QED
    BY <2>1, <2>2
<1>5. mask' \subseteq Bits /\ DOMAIN params' = Bits
  BY <1>1, <1>2
<1> QED
  BY <1>1, <1>2, <1>3, <1>4, <1>5 DEF FilledIn, Filled, Bits

LEMMA LineFills ==
    ASSUME FilledIn, NEW w \in Value, NEW l \in Value, NEW c \in Value, NEW j \in Value,
           Requests!xcb_aux_set_line_attributes_checked(w, l, c, j)
    PROVE  FilledIn'
<1> DEFINE Bits == 0 .. 22
           four == <<<<4, w>>, <<5, l>>, <<6, c>>, <<7, j>>>>
<1>1. /\ kind = "gc" /\ kind' = kind /\ adds' = four /\ mask' = 4 .. 7
      /\ params' = [params EXCEPT ![4] = w, ![5] = l, ![6] = c, ![7] = j]
  BY DEF Requests!xcb_aux_set_line_attributes_checked
<1>2. Requests!Fields["gc"] = 23 /\ "gc" \in DOMAIN Requests!Fields
  BY DEF Requests!Fields
<1>3. DOMAIN params = Bits
  BY <1>1, <1>2 DEF FilledIn, Filled
<1>4. /\ params'[4] = w /\ params'[5] = l /\ params'[6] = c /\ params'[7] = j
      /\ DOMAIN params' = Bits
  BY <1>1, <1>3
<1>5. four \in Seq(Bits \X Value)
  <2>1. <<4, w>> \in Bits \X Value /\ <<5, l>> \in Bits \X Value
        /\ <<6, c>> \in Bits \X Value /\ <<7, j>> \in Bits \X Value
    OBVIOUS
  <2> QED
    BY <2>1
<1>6. /\ DOMAIN four = 1 .. 4
      /\ four[1] = <<4, w>> /\ four[2] = <<5, l>> /\ four[3] = <<6, c>> /\ four[4] = <<7, j>>
  OBVIOUS
<1> HIDE DEF four
<1>7. ASSUME NEW b \in Bits
      PROVE  /\ b \in 4 .. 7 <=> Given(four, b) # {}
             /\ \A i \in Given(four, b) : params'[b] = four[i][2]
  <2>1. \A i \in 1 .. 4 : i \in Given(four, b) <=> b = i + 3
    BY <1>6 DEF Given
  <2>2. Given(four, b) \subseteq 1 .. 4
    BY <1>6 DEF Given
  <2>3. b \in 4 .. 7 => b - 3 \in Given(four, b)
    BY <2>1
  <2>4. \A i \in Given(four, b) : b = i + 3 /\ i \in 1 .. 4
    BY <2>1, <2>2
  <2>5. \A i \in Given(four, b) : params'[b] = four[i][2]
    BY <1>4, <1>6, <2>4
  <2> QED
    BY <2>3, <2>4, <2>5
<1> HIDE DEF Bits
<1>8. Filled("gc", mask', params', four)
  <2>1. 0 .. Requests!Fields["gc"] - 1 = Bits
    BY <1>2 DEF Bits
  <2>2. mask' \subseteq Bits
    BY <1>1 DEF Bits
  <2> QED
    BY <1>1, <1>2, <1>4, <1>5, <1>7, <2>1, <2>2 DEF Filled
<1> QED
  BY <1>1, <1>8 DEF FilledIn

LEMMA FilledStep == FilledIn /\ [LookupNext]_lookup_vars => FilledIn'
<1> SUFFICES ASSUME FilledIn, [LookupNext]_lookup_vars PROVE FilledIn'
  OBVIOUS
<1>1. ASSUME UNCHANGED <<kind, mask, params, adds>> PROVE FilledIn'
  BY <1>1 DEF FilledIn
<1>2. CASE Requests!Next
  <2>1. CASE \E bit \in Requests!Bits, v \in Value : Requests!XCB_AUX_ADD_PARAM(bit, v)
    BY <2>1, AddFills
  <2>2. CASE \E w, l, c, j \in Value : Requests!xcb_aux_set_line_attributes_checked(w, l, c, j)
    BY <2>2, LineFills
  <2>3. CASE Requests!Request \/ \E name \in Name : Requests!ParseColor(name)
    BY <1>1, <2>3 DEF Requests!Request, Requests!ParseColor
  <2> QED
    BY <1>2, <2>1, <2>2, <2>3 DEF Requests!Next
<1>3. CASE UNCHANGED request_vars
  BY <1>1, <1>3 DEF request_vars
<1>4. Requests!Next \/ UNCHANGED request_vars
  BY DEF LookupNext, RequestStep, lookup_vars
<1> QED
  BY <1>2, <1>3, <1>4

\* A step that sends a request has the server set what was added.
LEMMA SendsWhatWasAdded ==
    ASSUME FilledIn, FilledIn', [LookupNext]_lookup_vars, set' # set
    PROVE  set' = [bit \in Requests!Bits |->
                      LET given == {i \in DOMAIN adds' : adds'[i][1] = bit}
                      IN  IF given = {} THEN Junk ELSE adds'[Requests!Max(given)][2]]
<1>1. /\ kind' = kind
      /\ set' = Requests!Unpacked(mask', Requests!pack_list(mask', params'))
  <2>1. Requests!Next \/ UNCHANGED request_vars
    BY DEF LookupNext, RequestStep, lookup_vars
  <2>2. Requests!Next
    BY <2>1 DEF request_vars
  <2>3. Requests!Request
        \/ \E w, l, c, j \in Value : Requests!xcb_aux_set_line_attributes_checked(w, l, c, j)
    BY <2>2 DEF Requests!Next, Requests!XCB_AUX_ADD_PARAM, Requests!ParseColor
  <2>4. CASE Requests!Request
    BY <2>4 DEF Requests!Request
  <2>5. CASE \E w, l, c, j \in Value : Requests!xcb_aux_set_line_attributes_checked(w, l, c, j)
    BY <2>5 DEF Requests!xcb_aux_set_line_attributes_checked
  <2> QED
    BY <2>3, <2>4, <2>5
<1>2. Filled(kind, mask', params', adds')
  BY <1>1 DEF FilledIn
<1>3. \A bit \in 0 .. Requests!Fields[kind] - 1 :
              (IF bit \in mask'
               THEN Requests!pack_list(mask', params')[
                       Requests!Cardinality({b \in mask' : b <= bit})]
               ELSE Junk)
              = IF Given(adds', bit) = {} THEN Junk ELSE adds'[Requests!Max(Given(adds', bit))][2]
  BY <1>2, FilledIsSent
<1> QED
  BY <1>1, <1>3 DEF Requests!Unpacked, Requests!Bits, Given

\* A client that adds parameters in any order, some of them twice, and sends the
\* request has the server set just those, each to the value it was given last,
\* for every structure and any number of parameters (xcb_aux.c:153-164).
THEOREM RequestsSetWhatWasAdded == LookupSpec => SetsWhatWasAdded
<1>1. FilledIn /\ FilledIn' /\ [LookupNext]_lookup_vars =>
        [set' # set =>
            set' = [bit \in Requests!Bits |->
                      LET given == {i \in DOMAIN adds' : adds'[i][1] = bit}
                      IN  IF given = {} THEN Junk ELSE adds'[Requests!Max(given)][2]]]_(Requests!vars)
  BY SendsWhatWasAdded
<1> QED
  BY <1>1, FilledStarts, FilledStep, PTL
  DEF LookupSpec, SetsWhatWasAdded, Requests!SetsWhatWasAdded

-----------------------------------------------------------------------------
(* Colours.                                                                 *)

\* A set of numbers that has any has a least one.
LEMMA LeastOf ==
    ASSUME NEW S \in SUBSET Nat, S # {}
    PROVE  \E k \in S : \A j \in S : ~(j < k)
<1>1. IsWellFoundedOn(OpToRel(<, Nat), Nat)
  BY NatLessThanWellFounded
<1>2. PICK k \in S : \A j \in S : <<j, k>> \notin OpToRel(<, Nat)
  BY <1>1, WFMin
<1> QED
  BY <1>2, Zenon DEF OpToRel

\* b is what Number builds, as far as digit n.
Counts(b, digits, n) ==
    b = [i \in 0 .. n |-> IF i = 0 THEN 0 ELSE 16 * b[i - 1] + digits[i]]

\* There is such a function: no number of digits is the least without one.
LEMMA CountsExists ==
    ASSUME NEW digits, NEW n \in Nat
    PROVE  \E b : Counts(b, digits, n)
<1> DEFINE Missing == {k \in Nat : ~\E b : Counts(b, digits, k)}
<1>1. SUFFICES ASSUME Missing # {} PROVE FALSE
  OBVIOUS
<1>2. PICK k \in Missing : \A j \in Missing : ~(j < k)
  BY <1>1, LeastOf
<1>3. k # 0
  <2>1. Counts([j \in 0 .. 0 |-> 0], digits, 0)
    BY DEF Counts
  <2> QED
    BY <2>1
<1>4. PICK b : Counts(b, digits, k - 1)
  BY <1>2, <1>3
<1> DEFINE more == [j \in 0 .. k |-> IF j < k THEN b[j] ELSE 16 * b[k - 1] + digits[k]]
<1>5. Counts(more, digits, k)
  <2>1. \A j \in 0 .. k : more[j] = IF j = 0 THEN 0 ELSE 16 * more[j - 1] + digits[j]
    BY <1>3, <1>4 DEF Counts
  <2> QED
    BY <2>1 DEF Counts
<1> QED
  BY <1>5

\* The value of up to four digits.
Value4(x, digits, n) ==
    /\ n = 1 => x = digits[1]
    /\ n = 2 => x = 16 * digits[1] + digits[2]
    /\ n = 3 => x = 256 * digits[1] + 16 * digits[2] + digits[3]
    /\ n = 4 => x = 4096 * digits[1] + 256 * digits[2] + 16 * digits[3] + digits[4]

\* What is counted is their value.
LEMMA NumberIs ==
    ASSUME NEW digits \in Seq(0 .. 15), NEW n \in 1 .. 4, Len(digits) = n
    PROVE  Value4(Requests!Number(digits), digits, n)
<1> DEFINE b == CHOOSE f : Counts(f, digits, n)
<1>1. \A i \in 1 .. n : digits[i] \in 0 .. 15
  BY ElementOfSeq
<1>2. Counts(b, digits, n)
  <2>1. n \in Nat
    OBVIOUS
  <2>2. \E f : Counts(f, digits, n)
    BY <2>1, CountsExists
  <2> QED
    BY <2>2
<1>3. Requests!Number(digits) = b[n]
  BY DEF Requests!Number, Counts
<1> HIDE DEF b
<1>4. b[0] = 0 /\ \A i \in 1 .. n : b[i] = 16 * b[i - 1] + digits[i]
  BY <1>2 DEF Counts
<1>5. b[1] = digits[1]
  BY <1>1, <1>4
<1>6. ASSUME n >= 2 PROVE b[2] = 16 * digits[1] + digits[2]
  <2>1. b[2] = 16 * b[1] + digits[2]
    BY <1>4, <1>6
  <2> QED
    BY <1>5, <2>1
<1>7. ASSUME n >= 3 PROVE b[3] = 256 * digits[1] + 16 * digits[2] + digits[3]
  <2>1. b[3] = 16 * b[2] + digits[3] /\ digits[1] \in Int /\ digits[2] \in Int /\ digits[3] \in Int
    BY <1>1, <1>4, <1>7
  <2> QED
    BY <1>6, <1>7, <2>1
<1>8. ASSUME n = 4
      PROVE  b[4] = 4096 * digits[1] + 256 * digits[2] + 16 * digits[3] + digits[4]
  <2>1. b[4] = 16 * b[3] + digits[4]
    BY <1>4, <1>8
  <2>2. digits[1] \in Int /\ digits[2] \in Int /\ digits[3] \in Int /\ digits[4] \in Int
    BY <1>1, <1>8
  <2> QED
    BY <1>7, <1>8, <2>1, <2>2
<1> QED
  BY <1>3, <1>5, <1>6, <1>7, <1>8 DEF Value4

\* A number of four digits, and its digits.
Made(x, a, b, c, d) == x = 4096 * a + 256 * b + 16 * c + d

Leads(x, a, b, c, d) ==
    /\ (x \div 4096) % 16 = a /\ (x \div 256) % 16 = b
    /\ (x \div 16) % 16 = c /\ (x \div 1) % 16 = d

\* They are read off by division.
LEMMA FourDigits ==
    ASSUME NEW a \in 0 .. 15, NEW b \in 0 .. 15, NEW c \in 0 .. 15, NEW d \in 0 .. 15,
           NEW x, Made(x, a, b, c, d)
    PROVE  Leads(x, a, b, c, d)
<1> USE DEF Made
<1>1. (x \div 4096) % 16 = a
  OBVIOUS
<1>2. (x \div 256) % 16 = b
  OBVIOUS
<1>3. (x \div 16) % 16 = c
  OBVIOUS
<1>4. (x \div 1) % 16 = d
  OBVIOUS
<1> QED
  BY <1>1, <1>2, <1>3, <1>4 DEF Leads

\* The powers that shift by up to four digits.
LEMMA Powers ==
    /\ 16 ^ 0 = 1 /\ 16 ^ 1 = 16 /\ 16 ^ 2 = 256 /\ 16 ^ 3 = 4096
    /\ 2 ^ 0 = 1 /\ 2 ^ 4 = 16 /\ 2 ^ 8 = 256 /\ 2 ^ 12 = 4096
<1>1. 16 ^ 0 = 1 /\ 16 ^ 1 = 16
  OBVIOUS
<1>2. 16 ^ 2 = 256
  OBVIOUS
<1>3. 16 ^ 3 = 4096
  OBVIOUS
<1>4. 2 ^ 0 = 1 /\ 2 ^ 4 = 16
  OBVIOUS
<1>5. 2 ^ 8 = 256
  OBVIOUS
<1>6. 2 ^ 12 = 4096
  OBVIOUS
<1> QED
  BY <1>1, <1>2, <1>3, <1>4, <1>5, <1>6

\* The digits of a number that is shifted up to 16 bits are its leading ones.
LEMMA DigitsLead ==
    ASSUME NEW digits \in Seq(0 .. 15), NEW n \in 1 .. 4, Len(digits) = n, NEW i \in 1 .. 4
    PROVE  ((Requests!Number(digits) * 2 ^ (16 - 4 * n)) \div 16 ^ (4 - i)) % 16
              = IF i <= n THEN digits[i] ELSE 0
<1> DEFINE at == [j \in 1 .. 4 |-> IF j <= n THEN digits[j] ELSE 0]
           x  == Requests!Number(digits)
           y  == x * 2 ^ (16 - 4 * n)
<1>1. \A j \in 1 .. 4 : at[j] \in 0 .. 15
  <2>1. \A j \in 1 .. n : digits[j] \in 0 .. 15
    BY ElementOfSeq
  <2> QED
    BY <2>1
<1>2. Value4(x, digits, n)
  BY NumberIs
<1>3. /\ n = 1 => 2 ^ (16 - 4 * n) = 4096
      /\ n = 2 => 2 ^ (16 - 4 * n) = 256
      /\ n = 3 => 2 ^ (16 - 4 * n) = 16
      /\ n = 4 => 2 ^ (16 - 4 * n) = 1
  <2>1. CASE n = 1
    <3>1. 16 - 4 * n = 12
      BY <2>1
    <3> QED
      BY <2>1, <3>1, Powers
  <2>2. CASE n = 2
    <3>1. 16 - 4 * n = 8
      BY <2>2
    <3> QED
      BY <2>2, <3>1, Powers
  <2>3. CASE n = 3
    <3>1. 16 - 4 * n = 4
      BY <2>3
    <3> QED
      BY <2>3, <3>1, Powers
  <2>4. CASE n = 4
    <3>1. 16 - 4 * n = 0
      BY <2>4
    <3> QED
      BY <2>4, <3>1, Powers
  <2> QED
    BY <2>1, <2>2, <2>3, <2>4
<1>4. y = 4096 * at[1] + 256 * at[2] + 16 * at[3] + at[4]
  <2> HIDE DEF x
  <2>1. CASE n = 1
    <3>1. y = digits[1] * 4096 /\ digits[1] \in Int
      BY <1>1, <1>2, <1>3, <2>1 DEF Value4
    <3> HIDE DEF y
    <3> QED
      BY <2>1, <3>1
  <2>2. CASE n = 2
    <3>1. y = (16 * digits[1] + digits[2]) * 256 /\ digits[1] \in Int /\ digits[2] \in Int
      BY <1>1, <1>2, <1>3, <2>2 DEF Value4
    <3> HIDE DEF y
    <3> QED
      BY <2>2, <3>1
  <2>3. CASE n = 3
    <3>1. /\ y = (256 * digits[1] + 16 * digits[2] + digits[3]) * 16
          /\ digits[1] \in Int /\ digits[2] \in Int /\ digits[3] \in Int
      BY <1>1, <1>2, <1>3, <2>3 DEF Value4
    <3> HIDE DEF y
    <3> QED
      BY <2>3, <3>1
  <2>4. CASE n = 4
    <3>1. /\ y = (4096 * digits[1] + 256 * digits[2] + 16 * digits[3] + digits[4]) * 1
          /\ digits[1] \in Int /\ digits[2] \in Int /\ digits[3] \in Int /\ digits[4] \in Int
      BY <1>1, <1>2, <1>3, <2>4 DEF Value4
    <3> HIDE DEF y
    <3> QED
      BY <2>4, <3>1
  <2> QED
    BY <2>1, <2>2, <2>3, <2>4
<1> HIDE DEF y, at
<1>5. Leads(y, at[1], at[2], at[3], at[4])
  <2>1. /\ at[1] \in 0 .. 15 /\ at[2] \in 0 .. 15 /\ at[3] \in 0 .. 15 /\ at[4] \in 0 .. 15
    BY <1>1
  <2>2. Made(y, at[1], at[2], at[3], at[4])
    BY <1>4 DEF Made
  <2> QED
    BY <2>1, <2>2, FourDigits
<1>6. (y \div 16 ^ (4 - i)) % 16 = at[i]
  <2>1. CASE i = 1
    <3>1. 4 - i = 3
      BY <2>1
    <3> QED
      BY <1>5, <2>1, <3>1, Powers DEF Leads
  <2>2. CASE i = 2
    <3>1. 4 - i = 2
      BY <2>2
    <3> QED
      BY <1>5, <2>2, <3>1, Powers DEF Leads
  <2>3. CASE i = 3
    <3>1. 4 - i = 1
      BY <2>3
    <3> QED
      BY <1>5, <2>3, <3>1, Powers DEF Leads
  <2>4. CASE i = 4
    <3>1. 4 - i = 0
      BY <2>4
    <3> QED
      BY <1>5, <2>4, <3>1, Powers DEF Leads
  <2> QED
    BY <2>1, <2>2, <2>3, <2>4
<1> QED
  BY <1>6 DEF y, at, x
\* The third of the digits that a component has.
Third(name, n, k) == SubSeq(name, k * n + 1, k * n + n)

\* The components begin with the digits, and the rest is 0.
Led(name, rgb) ==
    LET n == Len(name) \div 3
    IN  /\ 3 * n = Len(name) /\ n <= 4
        /\ \A k \in 1 .. 3, i \in 1 .. 4 :
              (rgb[k] \div 16 ^ (4 - i)) % 16 = IF i <= n THEN name[(k - 1) * n + i] ELSE 0

\* A name of three, six, nine or twelve digits.
LEMMA ColorParsed ==
    ASSUME NEW name \in Name, Len(name) \in {3, 6, 9, 12}, Other \notin Requests!Range(name)
    PROVE  Led(name, Requests!xcb_aux_parse_color(name))
<1> DEFINE n   == Len(name) \div 3
           rgb == Requests!xcb_aux_parse_color(name)
<1>1. n \in 1 .. 4 /\ 3 * n = Len(name)
  <2>1. \A l \in {3, 6, 9, 12} : l \div 3 \in 1 .. 4 /\ 3 * (l \div 3) = l
    OBVIOUS
  <2> QED
    BY <2>1
<1>2. rgb = [k \in 1 .. 3 |-> Requests!Number(Third(name, n, k - 1)) * 2 ^ (16 - 4 * n)]
  BY DEF Requests!xcb_aux_parse_color, Third
<1>3. \A i \in 1 .. Len(name) : name[i] \in 0 .. 15
  <2>1. name \in Seq(0 .. 15 \cup {Other})
    BY LookupAssumption
  <2>2. \A i \in 1 .. Len(name) : name[i] \in 0 .. 15 \cup {Other}
    BY <2>1, ElementOfSeq
  <2>3. \A i \in 1 .. Len(name) : name[i] # Other
    BY <2>1 DEF Requests!Range
  <2> QED
    BY <2>2, <2>3
<1> HIDE DEF n, rgb
<1> SUFFICES ASSUME NEW k \in 1 .. 3, NEW i \in 1 .. 4
             PROVE  (rgb[k] \div 16 ^ (4 - i)) % 16 = IF i <= n THEN name[(k - 1) * n + i] ELSE 0
  BY <1>1 DEF Led, n, rgb
<1> DEFINE digits == Third(name, n, k - 1)
<1>4. /\ Len(digits) = n /\ digits \in Seq(0 .. 15)
      /\ \A j \in 1 .. n : digits[j] = name[(k - 1) * n + j]
  <2> DEFINE from == (k - 1) * n + 1
             to   == (k - 1) * n + n
  <2>1. from \in Int /\ to \in Int /\ 1 <= from /\ from <= to /\ to <= Len(name) /\ to - from + 1 = n
    <3>1. n \in {1, 2, 3, 4} /\ k \in {1, 2, 3}
      BY <1>1
    <3>2. (k - 1) * n \in Nat /\ (k - 1) * n <= 2 * n
      BY <3>1
    <3> QED
      BY <1>1, <3>2
  <2>2. from - 1 = (k - 1) * n
    BY <1>1
  <2>3. digits = SubSeq(name, from, to)
    BY DEF Third
  <2>4. name \in Seq(0 .. 15)
    BY <1>3, LookupAssumption, SeqDef
  <2> HIDE DEF from, to, digits
  <2>5. digits \in Seq(0 .. 15) /\ Len(digits) = n
    BY <2>1, <2>3, <2>4, SubSeqProperties
  <2>6. \A j \in 1 .. n : digits[j] = name[from + j - 1]
    BY <2>1, <2>3, <2>4, SubSeqProperties
  <2>7. \A j \in 1 .. n : from + j - 1 = (k - 1) * n + j
    BY <1>1, <2>1, <2>2
  <2> QED
    BY <2>5, <2>6, <2>7
<1>5. rgb[k] = Requests!Number(digits) * 2 ^ (16 - 4 * n)
  BY <1>2
<1> HIDE DEF digits
<1>6. ((Requests!Number(digits) * 2 ^ (16 - 4 * n)) \div 16 ^ (4 - i)) % 16
         = IF i <= n THEN digits[i] ELSE 0
  BY <1>1, <1>4, DigitsLead
<1> QED
  BY <1>4, <1>5, <1>6

\* What the client looks at is a name as it was parsed, or nothing.
Parsed ==
    \/ parsed = Requests!NoColor
    \/ \E name \in Name : parsed = [name |-> name, rgb |-> Requests!xcb_aux_parse_color(name)]

\* However the client goes on.
LEMMA ParsedStep == Parsed /\ [LookupNext]_lookup_vars => Parsed'
<1> SUFFICES ASSUME Parsed, [LookupNext]_lookup_vars PROVE Parsed'
  OBVIOUS
<1>1. CASE UNCHANGED parsed
  BY <1>1 DEF Parsed
<1>2. CASE Requests!Next
  <2>1. CASE \E name \in Name : Requests!ParseColor(name)
    BY <2>1 DEF Parsed, Requests!ParseColor
  <2>2. ASSUME parsed' = Requests!NoColor PROVE Parsed'
    BY <2>2 DEF Parsed
  <2> QED
    BY <1>1, <1>2, <2>1, <2>2
    DEF Requests!Next, Requests!XCB_AUX_ADD_PARAM, Requests!Request,
        Requests!xcb_aux_set_line_attributes_checked
<1> QED
  BY <1>1, <1>2 DEF LookupNext, lookup_vars, request_vars, RequestStep

\* A colour's name of 1 to 4 digits for each component gives those digits as
\* the most significant ones of 16 bits, and no other name is taken, whatever
\* names are asked for (xcb_aux.c:290-331).
THEOREM DigitsAreLeading == LookupSpec => []DigitsLeadComponents
<1>1. LookupInit => Parsed
  BY DEF LookupInit, Requests!Init, Parsed
<1>2. Parsed => DigitsLeadComponents
  <2> SUFFICES ASSUME Parsed,
                      \/ parsed.rgb # <<>>
                      \/ Len(parsed.name) \in {3, 6, 9, 12} /\ Other \notin Requests!Range(parsed.name)
               PROVE  Led(parsed.name, parsed.rgb)
    BY DEF DigitsLeadComponents, Requests!DigitsLeadComponents, Led
  <2>1. parsed # Requests!NoColor
    <3>1. Requests!NoColor.name = <<>> /\ Requests!NoColor.rgb = <<>> /\ Len(<<>>) = 0
      BY DEF Requests!NoColor
    <3> QED
      BY <3>1
  <2>2. PICK name \in Name : parsed = [name |-> name, rgb |-> Requests!xcb_aux_parse_color(name)]
    BY <2>1 DEF Parsed
  <2>3. Len(name) \in {3, 6, 9, 12} /\ Other \notin Requests!Range(name)
    BY <2>2 DEF Requests!xcb_aux_parse_color
  <2>4. parsed.name = name /\ parsed.rgb = Requests!xcb_aux_parse_color(name)
    BY <2>2
  <2> QED
    BY <2>3, <2>4, ColorParsed
<1> QED
  BY <1>1, <1>2, ParsedStep, PTL DEF LookupSpec

-----------------------------------------------------------------------------
(* Loops that return the first thing they find.                             *)

\* x is the result of the first of the rounds 1 to n that has one.
FirstIs(x, results, n, none) ==
    \/ x = none /\ \A i \in 1 .. n : results[i] = none
    \/ \E i \in 1 .. n : /\ results[i] # none /\ x = results[i]
                         /\ \A j \in 1 .. n : j < i => results[j] = none

\* What such a loop returns.
LEMMA FirstOfIs ==
    ASSUME NEW n \in Nat, NEW results, DOMAIN results = 1 .. n, NEW none
    PROVE  /\ FirstIs(Setup!FirstOf(results, none), results, n, none)
           /\ FirstIs(Pict!FirstOf(results, none), results, n, none)
<1> DEFINE hits  == {i \in DOMAIN results : results[i] # none}
           first == CHOOSE i \in hits : \A j \in hits : i <= j
           x     == IF hits = {} THEN none ELSE results[first]
<1>1. Setup!FirstOf(results, none) = x /\ Pict!FirstOf(results, none) = x
  BY DEF Setup!FirstOf, Setup!Min, Pict!FirstOf, Pict!Min
<1>2. FirstIs(x, results, n, none)
  <2>1. CASE hits = {}
    BY <2>1 DEF FirstIs
  <2>2. CASE hits # {}
    <3>1. hits \in SUBSET Nat
      OBVIOUS
    <3>2. PICK k \in hits : \A j \in hits : ~(j < k)
      BY <2>2, <3>1, LeastOf
    <3>3. \A j \in hits : k <= j
      BY <3>1, <3>2
    <3>4. first \in hits /\ \A j \in hits : first <= j
      BY <3>3
    <3> HIDE DEF first
    <3>5. \A j \in 1 .. n : j < first => results[j] = none
      BY <3>1, <3>4
    <3> QED
      BY <2>2, <3>4, <3>5 DEF FirstIs
  <2> QED
    BY <2>1, <2>2
<1> QED
  BY <1>1, <1>2

-----------------------------------------------------------------------------
(* Visuals of the setup.                                                    *)

\* What a server's screen is: one depth at least, with a list of visuals.
Proper(screen) ==
    /\ screen \in Seq([depth : Nat \ {0}, visuals : Seq(Visual)])
    /\ Len(screen) > 0

\* A place is a pair of numbers, and none of them is Null.
LEMMA PlacesOfScreen ==
    ASSUME NEW screen, Proper(screen)
    PROVE  /\ Len(screen) \in Nat /\ DOMAIN screen = 1 .. Len(screen)
           /\ \A i \in 1 .. Len(screen) :
                 /\ screen[i].depth \in Nat \ {0} /\ screen[i].visuals \in Seq(Visual)
                 /\ Len(screen[i].visuals) \in Nat
                 /\ DOMAIN screen[i].visuals = 1 .. Len(screen[i].visuals)
           /\ \A p \in Setup!Places(screen) :
                 /\ p # Null /\ p = <<p[1], p[2]>>
                 /\ p[1] \in 1 .. Len(screen) /\ p[2] \in 1 .. Len(screen[p[1]].visuals)
           /\ \A i \in 1 .. Len(screen) : \A j \in 1 .. Len(screen[i].visuals) :
                 <<i, j>> \in Setup!Places(screen)
<1>1. Len(screen) \in Nat /\ DOMAIN screen = 1 .. Len(screen)
  BY DEF Proper
<1>2. ASSUME NEW i \in 1 .. Len(screen)
      PROVE  /\ screen[i].depth \in Nat \ {0} /\ screen[i].visuals \in Seq(Visual)
             /\ Len(screen[i].visuals) \in Nat
             /\ DOMAIN screen[i].visuals = 1 .. Len(screen[i].visuals)
  <2>1. screen[i] \in [depth : Nat \ {0}, visuals : Seq(Visual)]
    BY ElementOfSeq DEF Proper
  <2> QED
    BY <2>1
<1>3. ASSUME NEW p \in Setup!Places(screen)
      PROVE  /\ p # Null /\ p = <<p[1], p[2]>>
             /\ p[1] \in 1 .. Len(screen) /\ p[2] \in 1 .. Len(screen[p[1]].visuals)
  <2>1. PICK i \in 1 .. Len(screen) : \E j \in 1 .. Len(screen[i].visuals) : p = <<i, j>>
    BY <1>1, <1>2 DEF Setup!Places
  <2>2. p \in Nat \X Nat
    BY <1>1, <1>2, <2>1
  <2> QED
    BY <2>1, <2>2, LookupAssumption
<1>4. ASSUME NEW i \in 1 .. Len(screen), NEW j \in 1 .. Len(screen[i].visuals)
      PROVE  <<i, j>> \in Setup!Places(screen)
  BY <1>1, <1>2 DEF Setup!Places
<1> QED
  BY <1>1, <1>2, <1>3, <1>4

\* In the order in which the iterators go over them.
NotAfter(p, q) == p[1] < q[1] \/ (p[1] = q[1] /\ p[2] <= q[2])

\* The two loops return at the first of the places that pass.
LEMMA FirstPlaceIs ==
    ASSUME NEW screen, Proper(screen), NEW passing \in SUBSET Setup!Places(screen)
    PROVE  IF passing = {} THEN Setup!FirstPlace(screen, passing) = Null
           ELSE /\ Setup!FirstPlace(screen, passing) \in passing
                /\ \A q \in passing : NotAfter(Setup!FirstPlace(screen, passing), q)
<1> DEFINE n == Len(screen)
           len(i) == Len(screen[i].visuals)
           hit(i) == [j \in DOMAIN screen[i].visuals |->
                         IF <<i, j>> \in passing THEN <<i, j>> ELSE Null]
           inner == [i \in DOMAIN screen |-> Setup!FirstOf(hit(i), Null)]
           p == Setup!FirstOf(inner, Null)
<1>1. Setup!FirstPlace(screen, passing) = p
  BY DEF Setup!FirstPlace
<1>2. n \in Nat /\ DOMAIN screen = 1 .. n
  BY PlacesOfScreen
<1>3. \A i \in 1 .. n : len(i) \in Nat /\ DOMAIN screen[i].visuals = 1 .. len(i)
  BY PlacesOfScreen
<1>4. \A q \in passing : /\ q # Null /\ q = <<q[1], q[2]>>
                         /\ q[1] \in 1 .. n /\ q[2] \in 1 .. len(q[1])
  BY PlacesOfScreen
<1>5. ASSUME NEW i \in 1 .. n PROVE FirstIs(inner[i], hit(i), len(i), Null)
  <2>1. DOMAIN hit(i) = 1 .. len(i) /\ len(i) \in Nat
    BY <1>3
  <2> HIDE DEF hit, len
  <2>2. FirstIs(Setup!FirstOf(hit(i), Null), hit(i), len(i), Null)
    BY <2>1, FirstOfIs
  <2>3. inner[i] = Setup!FirstOf(hit(i), Null)
    BY <1>2
  <2> QED
    BY <2>2, <2>3
<1>6. FirstIs(p, inner, n, Null)
  <2>1. DOMAIN inner = 1 .. n
    BY <1>2
  <2> HIDE DEF inner, n
  <2> QED
    BY <1>2, <2>1, FirstOfIs
<1>7. ASSUME NEW i \in 1 .. n, NEW j \in 1 .. len(i)
      PROVE  hit(i)[j] = IF <<i, j>> \in passing THEN <<i, j>> ELSE Null
  BY <1>3
<1> HIDE DEF n, len, hit, inner, p
<1>8. ASSUME NEW i \in 1 .. n, inner[i] = Null, NEW q \in passing PROVE q[1] # i
  <2> SUFFICES ASSUME q[1] = i PROVE FALSE
    OBVIOUS
  <2>1. q[2] \in 1 .. len(i) /\ q = <<i, q[2]>> /\ q # Null
    BY <1>4
  <2>2. hit(i)[q[2]] = q
    BY <1>7, <2>1
  <2>3. FirstIs(Null, hit(i), len(i), Null)
    BY <1>5, <1>8
  <2> QED
    BY <2>1, <2>2, <2>3 DEF FirstIs
<1>9. ASSUME NEW i \in 1 .. n, inner[i] # Null
      PROVE  /\ inner[i] \in passing /\ inner[i][1] = i
             /\ \A q \in passing : q[1] = i => inner[i][2] <= q[2]
  <2>1. PICK j \in 1 .. len(i) : /\ hit(i)[j] # Null /\ inner[i] = hit(i)[j]
                                 /\ \A k \in 1 .. len(i) : k < j => hit(i)[k] = Null
    BY <1>5, <1>9 DEF FirstIs
  <2>2. <<i, j>> \in passing /\ inner[i] = <<i, j>>
    BY <1>7, <2>1
  <2>3. ASSUME NEW q \in passing, q[1] = i PROVE j <= q[2]
    <3>1. q[2] \in 1 .. len(i) /\ q = <<i, q[2]>> /\ q # Null
      BY <1>4, <2>3
    <3>2. hit(i)[q[2]] = q
      BY <1>7, <3>1
    <3>3. ~(q[2] < j)
      BY <2>1, <3>1, <3>2
    <3> QED
      BY <1>3, <3>1, <3>3
  <2> QED
    BY <2>2, <2>3
<1>10. CASE passing = {}
  <2>1. p = Null
    BY <1>6, <1>9, <1>10 DEF FirstIs
  <2> QED
    BY <1>1, <1>10, <2>1
<1>11. CASE passing # {}
  <2>1. PICK i \in 1 .. n : /\ inner[i] # Null /\ p = inner[i]
                            /\ \A j \in 1 .. n : j < i => inner[j] = Null
    <3>1. PICK q \in passing : TRUE
      BY <1>11
    <3>2. q[1] \in 1 .. n /\ inner[q[1]] # Null
      BY <1>4, <1>8, <3>1
    <3> QED
      BY <1>6, <3>2 DEF FirstIs
  <2>2. p \in passing /\ p[1] = i
    BY <1>9, <2>1
  <2>3. ASSUME NEW q \in passing PROVE NotAfter(p, q)
    <3>1. q[1] \in 1 .. n /\ ~(q[1] < i)
      BY <1>4, <1>8, <2>1
    <3>2. i < q[1] \/ q[1] = i
      BY <1>2, <3>1
    <3> QED
      BY <1>9, <2>1, <2>2, <3>2 DEF NotAfter
  <2> QED
    BY <1>1, <1>11, <2>2, <2>3
<1> QED
  BY <1>10, <1>11

\* Screens that are all proper.
ScreensAre == Len(screens) \in Nat /\ DOMAIN screens = 1 .. Len(screens)
              /\ \A i \in 1 .. Len(screens) : Proper(screens[i])

\* What is found there, and that the screens stay proper.
SetupFinds ==
    part = "setup" =>
        ScreensAre /\ Setup!IdsAreFound /\ Setup!AttrsAreFound /\ Setup!VisualtypeMissesHalf

\* The screens that the setup begins with are proper ones.
LEMMA SetupBegins == LookupInit => SetupFinds
<1> SUFFICES ASSUME LookupInit, part = "setup" PROVE SetupFinds
  BY DEF SetupFinds
<1> DEFINE DepthSet == [depth : Nat \ {0}, visuals : Seq(Visual)]
<1>1. Setup!Init
  BY DEF LookupInit
<1>2. Setup!VisualLists \subseteq Seq(Visual)
  BY DEF Setup!VisualLists, Setup!SeqOf
<1>3. ASSUME NEW s \in Setup!Screens PROVE Proper(s)
  <2>1. CASE \E v \in Setup!VisualLists : s = <<Setup!Depth(24, v)>>
    <3>1. PICK v \in Seq(Visual) : s = <<Setup!Depth(24, v)>>
      BY <1>2, <2>1
    <3>2. Setup!Depth(24, v) \in DepthSet
      BY DEF Setup!Depth
    <3> HIDE DEF DepthSet
    <3>3. s \in Seq(DepthSet) /\ Len(s) = 1
      BY <3>1, <3>2
    <3> QED
      BY <3>3 DEF Proper, DepthSet
  <2>2. CASE \E v \in Setup!VisualLists : \E w \in Setup!VisualLists :
                s = <<Setup!Depth(24, v), Setup!Depth(1, w)>>
    <3>1. PICK v \in Seq(Visual), w \in Seq(Visual) :
             s = <<Setup!Depth(24, v), Setup!Depth(1, w)>>
      BY <1>2, <2>2
    <3>2. Setup!Depth(24, v) \in DepthSet /\ Setup!Depth(1, w) \in DepthSet
      BY DEF Setup!Depth
    <3> HIDE DEF DepthSet
    <3>3. s \in Seq(DepthSet) /\ Len(s) = 2
      BY <3>1, <3>2
    <3> QED
      BY <3>3 DEF Proper, DepthSet
  <2> QED
    BY <2>1, <2>2 DEF Setup!Screens
<1>4. Proper(Setup!Another)
  <2> DEFINE all == Setup!SetToSeq(Visual)
             n   == Setup!Cardinality(Visual)
  <2>1. n \in Nat /\ \E f \in [1 .. n -> Visual] : Setup!IsInjective(f)
    <3>1. n = Cardinality(Visual)
      BY DEF Setup!Cardinality, Cardinality
    <3>2. n \in Nat /\ ExistsBijection(1 .. n, Visual)
      BY <3>1, LookupAssumption, FS_CardinalityType
    <3> QED
      BY <3>2 DEF ExistsBijection, Bijection, Injection, IsInjective, Setup!IsInjective
  <2>2. all \in [1 .. n -> Visual]
    BY <2>1 DEF Setup!SetToSeq
  <2> HIDE DEF n, all
  <2>3. all \in Seq(Visual)
    BY <2>1, <2>2
  <2>4. Setup!Depth(8, all) \in DepthSet /\ Setup!Another = <<Setup!Depth(8, all)>>
    BY <2>3 DEF Setup!Depth, Setup!Another, all
  <2> HIDE DEF DepthSet
  <2>5. Setup!Another \in Seq(DepthSet) /\ Len(Setup!Another) = 1
    BY <2>4
  <2> QED
    BY <2>5 DEF Proper, DepthSet
<1>5. ScreensAre
  <2>1. PICK s \in Setup!Screens : screens = <<s>> \/ screens = <<Setup!Another, s>>
    BY <1>1 DEF Setup!Init
  <2>2. Proper(s)
    BY <1>3
  <2>3. CASE screens = <<s>>
    <3>1. Len(screens) = 1 /\ DOMAIN screens = 1 .. 1 /\ screens[1] = s
      BY <2>3
    <3> QED
      BY <2>2, <3>1 DEF ScreensAre
  <2>4. CASE screens = <<Setup!Another, s>>
    <3>1. /\ Len(screens) = 2 /\ DOMAIN screens = 1 .. 2
          /\ screens[1] = Setup!Another /\ screens[2] = s
      BY <2>4
    <3> QED
      BY <1>4, <2>2, <3>1 DEF ScreensAre
  <2> QED
    BY <2>1, <2>3, <2>4
<1>6. asked.call = "none"
  BY <1>1 DEF Setup!Init
<1> QED
  BY <1>5, <1>6
  DEF SetupFinds, Setup!IdsAreFound, Setup!AttrsAreFound, Setup!VisualtypeMissesHalf

\* A visual that is looked up by its id,
LEMMA IdFound ==
    ASSUME NEW screen, Proper(screen), NEW id
    PROVE  LET place == Setup!xcb_aux_find_visual_by_id(screen, id)
               depth  == Setup!xcb_aux_get_depth_of_visual(screen, id)
           IN  IF Setup!PlacesOf(screen, id) = {} THEN place = Null /\ depth = 0
               ELSE /\ place \in Setup!PlacesOf(screen, id)
                    /\ screen[place[1]].depth = depth /\ depth # 0
<1> DEFINE passing == Setup!PlacesOf(screen, id)
           p == Setup!FirstPlace(screen, passing)
<1>1. passing \in SUBSET Setup!Places(screen)
  BY DEF Setup!PlacesOf
<1>2. IF passing = {} THEN p = Null ELSE p \in passing
  BY <1>1, FirstPlaceIs
<1>3. Setup!xcb_aux_find_visual_by_id(screen, id) = p
  BY DEF Setup!xcb_aux_find_visual_by_id
<1>4. Setup!xcb_aux_get_depth_of_visual(screen, id) = IF p = Null THEN 0 ELSE screen[p[1]].depth
  BY DEF Setup!xcb_aux_get_depth_of_visual
<1>5. \A q \in Setup!Places(screen) : q # Null /\ screen[q[1]].depth # 0
  BY PlacesOfScreen
<1> HIDE DEF passing, p
<1> QED
  BY <1>1, <1>2, <1>3, <1>4, <1>5 DEF passing

\* by its class and depth,
Fits(screen, p, class, depth) ==
    /\ class = -1 \/ Class[Setup!VisualAt(screen, p)] = class
    /\ depth = -1 \/ screen[p[1]].depth = depth

LEMMA AttrsFound ==
    ASSUME NEW screen, Proper(screen), NEW class \in Int, NEW depth \in Int
    PROVE  LET place  == Setup!xcb_aux_find_visual_by_attrs(screen, class, depth)
               having == {p \in Setup!Places(screen) : Fits(screen, p, class, depth)}
           IN  IF having = {} THEN place = Null
               ELSE place \in having /\ \A p \in having : NotAfter(place, p)
<1> DEFINE having == {p \in Setup!Places(screen) : Fits(screen, p, class, depth)}
           passing == {place \in Setup!Places(screen) :
                          /\ depth \in {-1, screen[place[1]].depth}
                          /\ class \in {-1, Class[Setup!VisualAt(screen, place)]}}
<1>1. having = passing
  BY DEF Fits
<1>2. Setup!xcb_aux_find_visual_by_attrs(screen, class, depth) = Setup!FirstPlace(screen, passing)
  BY DEF Setup!xcb_aux_find_visual_by_attrs
<1>3. having \in SUBSET Setup!Places(screen)
  OBVIOUS
<1> HIDE DEF having, passing
<1>4. IF having = {} THEN Setup!FirstPlace(screen, having) = Null
      ELSE /\ Setup!FirstPlace(screen, having) \in having
           /\ \A q \in having : NotAfter(Setup!FirstPlace(screen, having), q)
  BY <1>3, FirstPlaceIs
<1> QED
  BY <1>1, <1>2, <1>4 DEF having

\* and in the first depth, as far as the loop comes.
LEMMA VisualtypeFound ==
    ASSUME ScreensAre, NEW n \in Int, NEW id
    PROVE  LET place == Setup!xcb_aux_get_visualtype(n, id)
               early == {p \in Setup!PlacesOf(screens[n + 1], id) :
                            p[1] = 1 /\ 2 * p[2] <= Len(screens[n + 1][1].visuals) + 1}
           IN  IF n + 1 \notin DOMAIN screens THEN place = Null
               ELSE IF early = {} THEN place = Null ELSE place \in early
<1> DEFINE screen == Setup!xcb_aux_get_screen(n)
           hits   == {cur \in Setup!Visits(screen[1].visuals) : screen[1].visuals[cur + 1] = id}
           place  == Setup!xcb_aux_get_visualtype(n, id)
           least  == Setup!Min(hits)
<1>1. place = IF screen = Null THEN Null ELSE IF hits = {} THEN Null ELSE <<1, least + 1>>
  BY DEF Setup!xcb_aux_get_visualtype
<1>2. CASE n + 1 \notin DOMAIN screens
  <2>1. screen = Null
    BY <1>2 DEF Setup!xcb_aux_get_screen
  <2> QED
    BY <1>1, <1>2, <2>1
<1>3. CASE n + 1 \in DOMAIN screens
  <2> DEFINE len   == Len(screen[1].visuals)
             early == {p \in Setup!PlacesOf(screen, id) : p[1] = 1 /\ 2 * p[2] <= len + 1}
  <2>1. screen = screens[n + 1] /\ Proper(screen)
    BY <1>3 DEF Setup!xcb_aux_get_screen, ScreensAre
  <2>2. screen # Null
    <3>1. screen \in Seq([depth : Nat \ {0}, visuals : Seq(Visual)])
      BY <2>1 DEF Proper
    <3> QED
      BY <3>1, LookupAssumption
  <2> HIDE DEF screen
  <2>3. len \in Nat /\ 1 \in 1 .. Len(screen)
    <3>1. Len(screen) \in Nat /\ Len(screen) > 0
      BY <2>1 DEF Proper
    <3> QED
      BY <2>1, <3>1, PlacesOfScreen
  <2>4. hits = {cur \in 0 .. len - 1 : cur < len - cur /\ screen[1].visuals[cur + 1] = id}
    BY DEF Setup!Visits
  <2>5. ASSUME NEW p PROVE p \in early <=> \E cur \in hits : p = <<1, cur + 1>>
    <3>1. ASSUME p \in early PROVE \E cur \in hits : p = <<1, cur + 1>>
      <4>1. /\ p \in Setup!Places(screen) /\ Setup!VisualAt(screen, p) = id
            /\ p[1] = 1 /\ 2 * p[2] <= len + 1
        BY <3>1 DEF Setup!PlacesOf
      <4>2. p = <<1, p[2]>> /\ p[2] \in 1 .. len
        BY <2>1, <4>1, PlacesOfScreen
      <4>3. p[2] - 1 \in hits /\ p[2] - 1 + 1 = p[2]
        <5>1. screen[1].visuals[p[2]] = id
          BY <4>1 DEF Setup!VisualAt
        <5>2. p[2] - 1 + 1 = p[2] /\ p[2] - 1 \in 0 .. len - 1 /\ p[2] - 1 < len - (p[2] - 1)
          BY <2>3, <4>1, <4>2
        <5> HIDE DEF hits
        <5> QED
          BY <2>4, <5>1, <5>2
      <4> HIDE DEF hits
      <4> QED
        BY <4>2, <4>3
    <3>2. ASSUME NEW cur \in hits, p = <<1, cur + 1>> PROVE p \in early
      <4>1. cur \in 0 .. len - 1 /\ cur < len - cur /\ screen[1].visuals[cur + 1] = id
        BY <2>4
      <4>2. p \in Setup!Places(screen)
        <5>1. cur + 1 \in 1 .. len
          BY <2>3, <4>1
        <5> QED
          BY <2>1, <2>3, <3>2, <5>1, PlacesOfScreen
      <4>3. Setup!VisualAt(screen, p) = id /\ p[1] = 1 /\ p[2] = cur + 1
        BY <3>2, <4>1 DEF Setup!VisualAt
      <4>4. 2 * (cur + 1) <= len + 1
        BY <2>3, <4>1
      <4> QED
        BY <4>2, <4>3, <4>4 DEF Setup!PlacesOf
    <3> HIDE DEF hits, early
    <3> QED
      BY <3>1, <3>2
  <2>6. hits # {} => least \in hits
    <3>1. hits \in SUBSET Nat
      BY <2>4
    <3> HIDE DEF hits
    <3>2. SUFFICES ASSUME hits # {} PROVE least \in hits
      OBVIOUS
    <3>3. PICK k \in hits : \A j \in hits : ~(j < k)
      BY <3>1, <3>2, LeastOf
    <3>4. \A j \in hits : k <= j
      BY <3>1, <3>3
    <3> QED
      BY <3>4 DEF Setup!Min
  <2> HIDE DEF hits, early, least, place
  <2>7. IF early = {} THEN place = Null ELSE place \in early
    <3>1. CASE hits = {}
      BY <1>1, <2>5, <3>1
    <3>2. CASE hits # {}
      BY <1>1, <2>2, <2>5, <2>6, <3>2
    <3> QED
      BY <3>1, <3>2
  <2> QED
    BY <1>3, <2>1, <2>7 DEF early, place
<1> QED
  BY <1>2, <1>3

\* Whichever is asked, it is found.
LEMMA SetupStepFinds == SetupFinds /\ [LookupNext]_lookup_vars => SetupFinds'
<1> SUFFICES ASSUME SetupFinds, [LookupNext]_lookup_vars, part' = "setup" PROVE SetupFinds'
  BY DEF SetupFinds
<1>1. part = "setup" /\ (Setup!Next \/ UNCHANGED <<screens, asked, found>>)
  BY DEF LookupNext, lookup_vars, answer_vars, SetupStep, PictStep
<1>2. ScreensAre /\ Setup!IdsAreFound /\ Setup!AttrsAreFound /\ Setup!VisualtypeMissesHalf
  BY <1>1 DEF SetupFinds
<1>3. CASE UNCHANGED <<screens, asked, found>>
  BY <1>2, <1>3
  DEF SetupFinds, ScreensAre, Setup!IdsAreFound, Setup!AttrsAreFound,
      Setup!VisualtypeMissesHalf, Setup!Screen
<1>4. ASSUME screens' = screens PROVE ScreensAre'
  BY <1>2, <1>4 DEF ScreensAre
<1>5. ASSUME NEW n \in Setup!Numbers
      PROVE  n \in Int /\ n + 1 \in 1 .. Len(screens) /\ Proper(screens[n + 1])
  BY <1>2 DEF ScreensAre, Setup!Numbers
<1>6. ASSUME NEW n \in Setup!Numbers, NEW id \in Visual, Setup!FindById(n, id) PROVE SetupFinds'
  <2> DEFINE screen == screens[n + 1]
  <2>1. /\ screens' = screens /\ asked' = [call |-> "id", screen |-> n, id |-> id]
        /\ found' = Setup!xcb_aux_find_visual_by_id(screen, id)
    BY <1>6 DEF Setup!FindById, Setup!Answer
  <2>2. asked'.call = "id" /\ asked'.id = id /\ Setup!Screen' = screen
    BY <2>1 DEF Setup!Screen
  <2>3. Proper(screen)
    BY <1>5
  <2> HIDE DEF screen
  <2>4. IF Setup!PlacesOf(screen, id) = {} THEN found' = Null
        ELSE /\ found' \in Setup!PlacesOf(screen, id)
             /\ screen[found'[1]].depth = Setup!xcb_aux_get_depth_of_visual(screen, id)
    BY <2>1, <2>3, IdFound
  <2>5. Setup!IdsAreFound'
    BY <2>2, <2>4 DEF Setup!IdsAreFound
  <2> QED
    BY <1>4, <2>1, <2>2, <2>5 DEF SetupFinds, Setup!AttrsAreFound, Setup!VisualtypeMissesHalf
<1>7. ASSUME NEW n \in Setup!Numbers, NEW id \in Visual, Setup!GetDepth(n, id) PROVE SetupFinds'
  <2> DEFINE screen == screens[n + 1]
  <2>1. /\ screens' = screens /\ asked' = [call |-> "depth", screen |-> n, id |-> id]
        /\ found' = Setup!xcb_aux_get_depth_of_visual(screen, id)
    BY <1>7 DEF Setup!GetDepth, Setup!Answer
  <2>2. asked'.call = "depth" /\ asked'.id = id /\ Setup!Screen' = screen
    BY <2>1 DEF Setup!Screen
  <2>3. Proper(screen)
    BY <1>5
  <2> HIDE DEF screen
  <2>4. found' = 0 <=> Setup!PlacesOf(screen, id) = {}
    BY <2>1, <2>3, IdFound
  <2>5. Setup!IdsAreFound'
    BY <2>2, <2>4 DEF Setup!IdsAreFound
  <2> QED
    BY <1>4, <2>1, <2>2, <2>5 DEF SetupFinds, Setup!AttrsAreFound, Setup!VisualtypeMissesHalf
<1>8. ASSUME NEW n \in Setup!Numbers, NEW class \in -1 .. 5, NEW depth \in {-1, 1, 8, 24},
             Setup!FindByAttrs(n, class, depth)
      PROVE  SetupFinds'
  <2> DEFINE screen == screens[n + 1]
             having == {p \in Setup!Places(screen) : Fits(screen, p, class, depth)}
  <2>1. /\ screens' = screens
        /\ asked' = [call |-> "attrs", screen |-> n, class |-> class, depth |-> depth]
        /\ found' = Setup!xcb_aux_find_visual_by_attrs(screen, class, depth)
    BY <1>8 DEF Setup!FindByAttrs, Setup!Answer
  <2>2. /\ asked'.call = "attrs" /\ asked'.class = class /\ asked'.depth = depth
        /\ Setup!Screen' = screen
    BY <2>1 DEF Setup!Screen
  <2>3. Proper(screen) /\ class \in Int /\ depth \in Int
    BY <1>5
  <2> HIDE DEF screen
  <2>4. IF having = {} THEN found' = Null
        ELSE found' \in having /\ \A p \in having : NotAfter(found', p)
    BY <2>1, <2>3, AttrsFound
  <2>5. Setup!AttrsAreFound'
    BY <2>2, <2>4 DEF Setup!AttrsAreFound, Fits, NotAfter, Setup!VisualAt
  <2> QED
    BY <1>4, <2>1, <2>2, <2>5 DEF SetupFinds, Setup!IdsAreFound, Setup!VisualtypeMissesHalf
<1>9. ASSUME NEW n \in 0 .. 2, NEW id \in Visual, Setup!GetVisualtype(n, id) PROVE SetupFinds'
  <2>1. /\ screens' = screens /\ asked' = [call |-> "visualtype", screen |-> n, id |-> id]
        /\ found' = Setup!xcb_aux_get_visualtype(n, id)
    BY <1>9 DEF Setup!GetVisualtype, Setup!Answer
  <2>2. /\ asked'.call = "visualtype" /\ asked'.screen = n /\ asked'.id = id
        /\ Setup!Screen' = screens[n + 1]
    BY <2>1 DEF Setup!Screen
  <2> DEFINE early == {p \in Setup!PlacesOf(screens[n + 1], id) :
                          p[1] = 1 /\ 2 * p[2] <= Len(screens[n + 1][1].visuals) + 1}
  <2>3. IF n + 1 \notin DOMAIN screens THEN found' = Null
        ELSE IF early = {} THEN found' = Null ELSE found' \in early
    BY <1>2, <2>1, VisualtypeFound
  <2>4. Setup!VisualtypeMissesHalf'
    BY <2>1, <2>2, <2>3 DEF Setup!VisualtypeMissesHalf
  <2> QED
    BY <1>4, <2>1, <2>2, <2>4 DEF SetupFinds, Setup!IdsAreFound, Setup!AttrsAreFound
<1> QED
  BY <1>1, <1>3, <1>6, <1>7, <1>8, <1>9 DEF Setup!Next

-----------------------------------------------------------------------------
(* Picture formats.                                                         *)

\* How many of some numbers are at most i.
UpTo(numbers, i) == Cardinality({j \in numbers : j <= i})

\* Counting goes up by one at each of the numbers.
LEMMA CountsUp ==
    ASSUME NEW n \in Nat, NEW numbers \in SUBSET (1 .. n)
    PROVE  /\ IsFiniteSet(numbers) /\ UpTo(numbers, 0) = 0
           /\ UpTo(numbers, n) = Cardinality(numbers)
           /\ \A i \in 0 .. n : UpTo(numbers, i) \in 0 .. Cardinality(numbers)
           /\ \A i \in 1 .. n : UpTo(numbers, i) =
                 IF i \in numbers THEN UpTo(numbers, i - 1) + 1 ELSE UpTo(numbers, i - 1)
<1> DEFINE low(i) == {j \in numbers : j <= i}
<1>0. \A j \in numbers : j \in Int /\ 1 <= j /\ j <= n
  OBVIOUS
<1>1. IsFiniteSet(numbers) /\ Cardinality(numbers) \in Nat
  <2>1. IsFiniteSet(1 .. n)
    BY FS_Interval
  <2>2. IsFiniteSet(numbers)
    BY <2>1, FS_Subset
  <2> QED
    BY <2>2, FS_CardinalityType
<1>2. \A i : IsFiniteSet(low(i)) /\ Cardinality(low(i)) \in 0 .. Cardinality(numbers)
  <2> SUFFICES ASSUME NEW i
               PROVE  IsFiniteSet(low(i)) /\ Cardinality(low(i)) \in 0 .. Cardinality(numbers)
    OBVIOUS
  <2>1. low(i) \in SUBSET numbers
    OBVIOUS
  <2> HIDE DEF low
  <2>2. IsFiniteSet(low(i)) /\ Cardinality(low(i)) <= Cardinality(numbers)
    BY <1>1, <2>1, FS_Subset
  <2>3. Cardinality(low(i)) \in Nat
    BY <2>2, FS_CardinalityType
  <2> QED
    BY <1>1, <2>2, <2>3
<1>3. UpTo(numbers, 0) = 0
  <2>1. \A j \in numbers : ~(j <= 0)
    BY <1>0
  <2>2. low(0) = {}
    BY <2>1
  <2> QED
    BY <2>2, FS_EmptySet DEF UpTo
<1>4. UpTo(numbers, n) = Cardinality(numbers)
  <2>1. low(n) = numbers
    BY <1>0
  <2> QED
    BY <2>1 DEF UpTo
<1>5. ASSUME NEW i \in 1 .. n
      PROVE  UpTo(numbers, i) =
                IF i \in numbers THEN UpTo(numbers, i - 1) + 1 ELSE UpTo(numbers, i - 1)
  <2>1. CASE i \in numbers
    <3>1. low(i) = low(i - 1) \cup {i}
      <4>1. \A j \in numbers : j <= i <=> j <= i - 1 \/ j = i
        BY <1>0
      <4> QED
        BY <2>1, <4>1
    <3>2. i \notin low(i - 1)
      OBVIOUS
    <3>3. IsFiniteSet(low(i - 1))
      BY <1>2
    <3> HIDE DEF low
    <3>4. Cardinality(low(i - 1) \cup {i}) = Cardinality(low(i - 1)) + 1
      BY <3>2, <3>3, FS_AddElement
    <3> QED
      BY <2>1, <3>1, <3>4 DEF UpTo, low
  <2>2. CASE i \notin numbers
    <3>1. low(i) = low(i - 1)
      <4>1. \A j \in numbers : j <= i <=> j <= i - 1
        BY <1>0, <2>2
      <4> QED
        BY <4>1
    <3> QED
      BY <2>2, <3>1 DEF UpTo
  <2> QED
    BY <2>1, <2>2
<1>6. \A i \in 0 .. n : UpTo(numbers, i) \in 0 .. Cardinality(numbers)
  BY <1>2 DEF UpTo
<1> QED
  BY <1>1, <1>3, <1>4, <1>5, <1>6

\* A round that is the count-th to match, counted from 0, is found if there is
\* one that is preceded by as many.
LEMMA RoundOfCount ==
    ASSUME NEW n \in Nat, NEW numbers \in SUBSET (1 .. n),
           NEW count \in 0 .. Cardinality(numbers) - 1
    PROVE  \E i \in numbers : UpTo(numbers, i - 1) = count
<1> DEFINE more == {i \in 0 .. n : UpTo(numbers, i) > count}
<1>1. /\ UpTo(numbers, 0) = 0 /\ UpTo(numbers, n) = Cardinality(numbers)
      /\ \A i \in 0 .. n : UpTo(numbers, i) \in Nat
      /\ \A i \in 1 .. n : UpTo(numbers, i) =
            IF i \in numbers THEN UpTo(numbers, i - 1) + 1 ELSE UpTo(numbers, i - 1)
  BY CountsUp
<1>2. more \in SUBSET Nat /\ n \in more
  BY <1>1
<1>3. PICK k \in more : \A j \in more : ~(j < k)
  BY <1>2, LeastOf
<1>4. k # 0
  BY <1>1, <1>3
<1>5. k - 1 \in 0 .. n /\ k \in 1 .. n /\ UpTo(numbers, k - 1) <= count /\ UpTo(numbers, k) > count
  <2>1. k - 1 \in 0 .. n /\ k \in 1 .. n
    BY <1>2, <1>4
  <2>2. k - 1 \notin more
    BY <1>3, <2>1
  <2> QED
    BY <1>1, <2>1, <2>2
<1>6. k \in numbers /\ UpTo(numbers, k - 1) = count
  BY <1>1, <1>5
<1> QED
  BY <1>6

\* left is what CountLeft builds.
Counting(left, wanted, template, count, n) ==
    left = [i \in 0 .. n |->
               IF i = 0 THEN count
               ELSE IF Pict!Matches(formats[i], wanted, template) THEN left[i - 1] - 1
                    ELSE left[i - 1]]

\* There is such a function, however many formats there are.
LEMMA CountingExists ==
    ASSUME NEW wanted, NEW template, NEW count, NEW n \in Nat
    PROVE  \E left : Counting(left, wanted, template, count, n)
<1> DEFINE Missing == {k \in Nat : ~\E left : Counting(left, wanted, template, count, k)}
           Match(k) == Pict!Matches(formats[k], wanted, template)
<1>1. SUFFICES ASSUME Missing # {} PROVE FALSE
  OBVIOUS
<1>2. PICK k \in Missing : \A j \in Missing : ~(j < k)
  BY <1>1, LeastOf
<1>3. k # 0
  <2>1. Counting([j \in 0 .. 0 |-> count], wanted, template, count, 0)
    BY DEF Counting
  <2> QED
    BY <2>1
<1>4. PICK left : Counting(left, wanted, template, count, k - 1)
  BY <1>2, <1>3
<1> DEFINE more == [j \in 0 .. k |-> IF j < k THEN left[j]
                                     ELSE IF Match(k) THEN left[k - 1] - 1 ELSE left[k - 1]]
<1>5. Counting(more, wanted, template, count, k)
  <2>1. \A j \in 0 .. k : more[j] = IF j = 0 THEN count
                                    ELSE IF Match(j) THEN more[j - 1] - 1 ELSE more[j - 1]
    BY <1>3, <1>4 DEF Counting
  <2> QED
    BY <2>1 DEF Counting
<1> QED
  BY <1>5

\* The formats that match.
Matching(wanted, template) == {i \in DOMAIN formats : Pict!Matches(formats[i], wanted, template)}

\* The matching format that count others precede is found.
LEMMA FormatFound ==
    ASSUME formats \in Seq(Format), formats # NoReply, NEW wanted, NEW template, NEW count \in Int
    PROVE  LET x       == Pict!xcb_render_util_find_format(wanted, template, count)
               numbers == Matching(wanted, template)
           IN  /\ IsFiniteSet(numbers) /\ Cardinality(numbers) \in Nat
               /\ IF count \in 0 .. Cardinality(numbers) - 1
                  THEN x \in numbers /\ Cardinality({i \in numbers : i < x}) = count
                  ELSE x = 0
<1> DEFINE n       == Len(formats)
           numbers == Matching(wanted, template)
           left    == Pict!CountLeft(wanted, template, count)
           round   == [i \in DOMAIN formats |->
                          IF Pict!Matches(formats[i], wanted, template) /\ left[i - 1] = 0 THEN i ELSE 0]
           x       == Pict!FirstOf(round, 0)
<1>1. n \in Nat /\ DOMAIN formats = 1 .. n
  BY LenProperties
<1>2. Pict!xcb_render_util_find_format(wanted, template, count) = x
  BY DEF Pict!xcb_render_util_find_format
<1>3. /\ numbers \in SUBSET (1 .. n)
      /\ \A i \in 1 .. n : i \in numbers <=> Pict!Matches(formats[i], wanted, template)
  BY <1>1 DEF Matching
<1>4. Counting(left, wanted, template, count, n)
  <2>1. left = CHOOSE f : Counting(f, wanted, template, count, n)
    BY DEF Pict!CountLeft, Counting
  <2>2. \E f : Counting(f, wanted, template, count, n)
    BY <1>1, CountingExists
  <2> HIDE DEF left, n
  <2> QED
    BY <2>1, <2>2
<1> HIDE DEF left
<1>5. /\ left[0] = count
      /\ \A i \in 1 .. n : left[i] = IF i \in numbers THEN left[i - 1] - 1 ELSE left[i - 1]
  BY <1>1, <1>3, <1>4 DEF Counting
<1>6. FirstIs(x, round, n, 0)
  <2>1. DOMAIN round = 1 .. n
    BY <1>1
  <2> HIDE DEF round, n
  <2> QED
    BY <1>1, <2>1, FirstOfIs
<1>7. \A i \in 1 .. n : round[i] = IF i \in numbers /\ left[i - 1] = 0 THEN i ELSE 0
  BY <1>1, <1>3
<1> HIDE DEF n, numbers, round, x
<1>8. /\ IsFiniteSet(numbers) /\ UpTo(numbers, 0) = 0
      /\ UpTo(numbers, n) = Cardinality(numbers)
      /\ \A i \in 0 .. n : UpTo(numbers, i) \in 0 .. Cardinality(numbers)
      /\ \A i \in 1 .. n : UpTo(numbers, i) =
            IF i \in numbers THEN UpTo(numbers, i - 1) + 1 ELSE UpTo(numbers, i - 1)
  BY <1>1, <1>3, CountsUp
<1>9. \A i \in 0 .. n : left[i] = count - UpTo(numbers, i)
  <2> DEFINE Wrong == {i \in 0 .. n : left[i] # count - UpTo(numbers, i)}
  <2>1. SUFFICES ASSUME Wrong # {} PROVE FALSE
    OBVIOUS
  <2>2. PICK k \in Wrong : \A j \in Wrong : ~(j < k)
    <3>1. Wrong \in SUBSET Nat
      BY <1>1
    <3> QED
      BY <2>1, <3>1, LeastOf
  <2>3. k # 0
    BY <1>5, <1>8
  <2>4. k \in 1 .. n /\ k - 1 \in 0 .. n
    BY <1>1, <2>3
  <2>5. left[k - 1] = count - UpTo(numbers, k - 1)
    BY <2>2, <2>4
  <2>6. UpTo(numbers, k - 1) \in Int
    BY <1>8, <2>4
  <2>7. left[k] = count - UpTo(numbers, k)
    BY <1>5, <1>8, <2>4, <2>5, <2>6
  <2> QED
    BY <2>7
<1>10. Cardinality(numbers) \in Nat
  BY <1>8, FS_CardinalityType
<1>11. CASE x = 0 /\ \A i \in 1 .. n : round[i] = 0
  <2>1. ASSUME count \in 0 .. Cardinality(numbers) - 1 PROVE FALSE
    <3>1. PICK i \in numbers : UpTo(numbers, i - 1) = count
      BY <1>1, <1>3, <2>1, RoundOfCount
    <3>2. i \in 1 .. n /\ i - 1 \in 0 .. n /\ left[i - 1] = 0
      BY <1>1, <1>3, <1>9, <3>1
    <3> QED
      BY <1>7, <1>11, <3>1, <3>2
  <2> QED
    BY <1>2, <1>8, <1>10, <1>11, <2>1 DEF numbers
<1>12. CASE \E i \in 1 .. n : round[i] # 0 /\ x = round[i]
  <2>1. PICK i \in 1 .. n : round[i] # 0 /\ x = round[i]
    BY <1>12
  <2>2. x = i /\ i \in numbers /\ left[i - 1] = 0 /\ i - 1 \in 0 .. n
    BY <1>1, <1>7, <2>1
  <2>3. UpTo(numbers, i - 1) = count
    <3>1. UpTo(numbers, i - 1) \in Int /\ left[i - 1] = count - UpTo(numbers, i - 1)
      BY <1>8, <1>9, <2>2
    <3> QED
      BY <2>2, <3>1
  <2>4. {j \in numbers : j <= i - 1} = {j \in numbers : j < x}
    <3>1. \A j \in numbers : j <= i - 1 <=> j < x
      BY <1>1, <1>3, <2>2
    <3> QED
      BY <3>1
  <2>5. count \in 0 .. Cardinality(numbers) - 1
    <3>1. UpTo(numbers, i) = count + 1 /\ UpTo(numbers, i) <= Cardinality(numbers) /\ count >= 0
      <4>1. i \in 0 .. n
        OBVIOUS
      <4> QED
        BY <1>8, <2>2, <2>3, <4>1
    <3> QED
      BY <1>10, <3>1
  <2> QED
    BY <1>2, <1>8, <1>10, <2>2, <2>3, <2>4, <2>5 DEF numbers, UpTo
<1> QED
  BY <1>6, <1>11, <1>12 DEF FirstIs

\* Widths of channels differ in their masks.
LEMMA PowersApart ==
    /\ \A w \in 0 .. 16 : 2 ^ w \in Nat \ {0}
    /\ \A v, w \in 0 .. 16 : 2 ^ v = 2 ^ w => v = w
<1> DEFINE power == [w \in 0 .. 16 |-> 2 ^ w]
<1>1. power[0] = 1 /\ power[1] = 2 /\ power[2] = 4 /\ power[3] = 8
  OBVIOUS
<1>2. power[4] = 16 /\ power[5] = 32 /\ power[6] = 64 /\ power[7] = 128
  OBVIOUS
<1>3. power[8] = 256 /\ power[9] = 512 /\ power[10] = 1024 /\ power[11] = 2048
  OBVIOUS
<1>4. power[12] = 4096 /\ power[13] = 8192 /\ power[14] = 16384 /\ power[15] = 32768
  OBVIOUS
<1>5. power[16] = 65536
  OBVIOUS
<1>6. \A w \in 0 .. 16 : power[w] = 2 ^ w
  OBVIOUS
<1> HIDE DEF power
<1>7. \A w \in 0 .. 16 : power[w] \in Nat \ {0}
  BY <1>1, <1>2, <1>3, <1>4, <1>5
<1>8. \A v, w \in 0 .. 16 : power[v] = power[w] => v = w
  BY <1>1, <1>2, <1>3, <1>4, <1>5
<1> QED
  BY <1>6, <1>7, <1>8

\* PictFormats has the fields of PictTemplates.
LEMMA SameFields == Pict!Channel = Channel /\ Pict!MaskOf = MaskOf /\ Pict!Masks = Masks
  BY DEF Pict!Channel, Pict!MaskOf, Pict!Masks, Channel, MaskOf, Masks

\* The bits of a channel that has k of them from a on, and the mask and the
\* shift of such a channel.
Stretch(a, k) == a .. a + k - 1

Has(f, c, a, k) == f[MaskOf[c]] = 2 ^ k - 1 /\ (k = 0 \/ f[c] = a)

\* A channel has k bits from a on if its mask and its shift say so, the shift
\* only if it has any.
LEMMA ChannelFits ==
    ASSUME NEW f \in Format, NEW c \in Channel, NEW a \in Nat, NEW k \in 0 .. 16
    PROVE  Pict!Bits(f, c) = Stretch(a, k) <=> Has(f, c, a, k)
<1> DEFINE width == CHOOSE w \in 0 .. 16 : 2 ^ w - 1 = f[MaskOf[c]]
           s == f[c]
<1>1. Pict!Bits(f, c) = s .. s + width - 1
  BY SameFields DEF Pict!Bits
<1>2. width \in 0 .. 16 /\ 2 ^ width - 1 = f[MaskOf[c]]
  <2>1. \E w \in 0 .. 16 : 2 ^ w - 1 = f[MaskOf[c]]
    BY LookupAssumption
  <2> QED
    BY <2>1
<1>3. s \in Nat
  BY LookupAssumption DEF Field
<1> HIDE DEF width, s
<1>4. f[MaskOf[c]] = 2 ^ k - 1 <=> width = k
  <2> DEFINE p == 2 ^ k
             q == 2 ^ width
  <2>1. p \in Nat /\ q \in Nat /\ (p = q => k = width) /\ (k = width => p = q)
    BY <1>2, PowersApart
  <2>2. q - 1 = f[MaskOf[c]]
    BY <1>2
  <2> HIDE DEF p, q
  <2>3. f[MaskOf[c]] = p - 1 <=> width = k
    BY <2>1, <2>2
  <2> QED
    BY <2>3 DEF p
<1>5. s .. s + width - 1 = a .. a + k - 1 <=> width = k /\ (k = 0 \/ s = a)
  <2>1. CASE k = 0
    <3>1. a .. a + k - 1 = {}
      BY <2>1
    <3>2. width # 0 => s \in s .. s + width - 1
      BY <1>2, <1>3
    <3>3. width = 0 => s .. s + width - 1 = {}
      BY <1>2, <1>3
    <3> QED
      BY <2>1, <3>1, <3>2, <3>3
  <2>2. CASE k # 0
    <3>1. ASSUME s .. s + width - 1 = a .. a + k - 1 PROVE width = k /\ s = a
      <4>1. a \in s .. s + width - 1 /\ a + k - 1 \in s .. s + width - 1
        <5>1. a \in a .. a + k - 1 /\ a + k - 1 \in a .. a + k - 1
          BY <2>2
        <5> QED
          BY <3>1, <5>1
      <4>2. width # 0
        BY <1>2, <1>3, <4>1
      <4>3. s \in a .. a + k - 1 /\ s + width - 1 \in a .. a + k - 1
        <5>1. s \in s .. s + width - 1 /\ s + width - 1 \in s .. s + width - 1
          BY <1>2, <1>3, <4>2
        <5> QED
          BY <3>1, <5>1
      <4> QED
        BY <1>2, <1>3, <4>1, <4>3
    <3>2. ASSUME width = k, s = a PROVE s .. s + width - 1 = a .. a + k - 1
      BY <3>2
    <3> QED
      BY <2>2, <3>1, <3>2
  <2> QED
    BY <2>1, <2>2
<1> QED
  BY <1>1, <1>4, <1>5 DEF s, Stretch, Has

\* The fields of a template.
LEMMA DirectIs ==
    ASSUME NEW depth, NEW shift, NEW masks
    PROVE  LET t == Pict!Direct(depth, shift, masks)
           IN  /\ t["type"] = 1 /\ t["depth"] = depth
               /\ t["red"] = shift["red"] /\ t["green"] = shift["green"]
               /\ t["blue"] = shift["blue"] /\ t["alpha"] = shift["alpha"]
               /\ t["red_mask"] = masks["red"] /\ t["green_mask"] = masks["green"]
               /\ t["blue_mask"] = masks["blue"] /\ t["alpha_mask"] = masks["alpha"]
<1> USE DEF Pict!Direct, Pict!Field, Pict!Channel, Pict!Masks, Pict!MaskOf
<1> DEFINE t == Pict!Direct(depth, shift, masks)
<1>1. t["type"] = 1 /\ t["depth"] = depth
  OBVIOUS
<1>2. /\ t["red"] = shift["red"] /\ t["green"] = shift["green"]
      /\ t["blue"] = shift["blue"] /\ t["alpha"] = shift["alpha"]
  OBVIOUS
<1>3. t["red_mask"] = masks["red"]
  OBVIOUS
<1>4. t["green_mask"] = masks["green"]
  OBVIOUS
<1>5. t["blue_mask"] = masks["blue"]
  OBVIOUS
<1>6. t["alpha_mask"] = masks["alpha"]
  OBVIOUS
<1> QED
  BY <1>1, <1>2, <1>3, <1>4, <1>5, <1>6

\* The four channels and their masks.
LEMMA ChannelsAre ==
    /\ Channel = {"red", "green", "blue", "alpha"}
    /\ MaskOf["red"] = "red_mask" /\ MaskOf["green"] = "green_mask"
    /\ MaskOf["blue"] = "blue_mask" /\ MaskOf["alpha"] = "alpha_mask"
    /\ Masks = {"red_mask", "green_mask", "blue_mask", "alpha_mask"}
  BY DEF Channel, MaskOf, Masks

\* What the five standard formats have.
HasStandard(f, n) ==
    CASE n = 0 -> Has(f, "red", 16, 8) /\ Has(f, "green", 8, 8)
                  /\ Has(f, "blue", 0, 8) /\ Has(f, "alpha", 24, 8)
      [] n = 1 -> Has(f, "red", 16, 8) /\ Has(f, "green", 8, 8)
                  /\ Has(f, "blue", 0, 8) /\ Has(f, "alpha", 0, 0)
      [] n = 2 -> Has(f, "red", 0, 0) /\ Has(f, "green", 0, 0)
                  /\ Has(f, "blue", 0, 0) /\ Has(f, "alpha", 0, 8)
      [] n = 3 -> Has(f, "red", 0, 0) /\ Has(f, "green", 0, 0)
                  /\ Has(f, "blue", 0, 0) /\ Has(f, "alpha", 0, 4)
      [] n = 4 -> Has(f, "red", 0, 0) /\ Has(f, "green", 0, 0)
                  /\ Has(f, "blue", 0, 0) /\ Has(f, "alpha", 0, 1)

\* The bits of the five standard formats.
LEMMA BitsOf ==
    ASSUME NEW f \in Format, NEW n \in 0 .. 4
    PROVE  (\A c \in Channel : Pict!Bits(f, c) = Pict!StandardBits(n)[c]) <=>
              HasStandard(f, n)
<1> DEFINE bits == Pict!StandardBits(n)
           same(c) == Pict!Bits(f, c) = bits[c]
<1>1. (\A c \in Channel : same(c)) <=>
         same("red") /\ same("green") /\ same("blue") /\ same("alpha")
  BY ChannelsAre
<1>2. ASSUME NEW c \in Channel, NEW a \in Nat, NEW k \in 0 .. 16, bits[c] = Stretch(a, k)
      PROVE  same(c) <=> Has(f, c, a, k)
  BY <1>2, ChannelFits
<1>3. CASE n = 0
  <2>1. /\ bits["red"] = Stretch(16, 8) /\ bits["green"] = Stretch(8, 8)
        /\ bits["blue"] = Stretch(0, 8) /\ bits["alpha"] = Stretch(24, 8)
    BY <1>3 DEF Pict!StandardBits, Stretch
  <2>2. HasStandard(f, n) <=> Has(f, "red", 16, 8) /\ Has(f, "green", 8, 8)
                              /\ Has(f, "blue", 0, 8) /\ Has(f, "alpha", 24, 8)
    BY <1>3 DEF HasStandard
  <2> HIDE DEF bits, same
  <2>3. same("red") <=> Has(f, "red", 16, 8)
    BY <1>2, <2>1, ChannelsAre
  <2>4. same("green") <=> Has(f, "green", 8, 8)
    BY <1>2, <2>1, ChannelsAre
  <2>5. same("blue") <=> Has(f, "blue", 0, 8)
    BY <1>2, <2>1, ChannelsAre
  <2>6. same("alpha") <=> Has(f, "alpha", 24, 8)
    BY <1>2, <2>1, ChannelsAre
  <2> QED
    BY <1>1, <2>2, <2>3, <2>4, <2>5, <2>6 DEF same, bits
<1>4. CASE n = 1
  <2>1. /\ bits["red"] = Stretch(16, 8) /\ bits["green"] = Stretch(8, 8)
        /\ bits["blue"] = Stretch(0, 8) /\ bits["alpha"] = Stretch(0, 0)
    BY <1>4 DEF Pict!StandardBits, Stretch
  <2>2. HasStandard(f, n) <=> Has(f, "red", 16, 8) /\ Has(f, "green", 8, 8)
                              /\ Has(f, "blue", 0, 8) /\ Has(f, "alpha", 0, 0)
    BY <1>4 DEF HasStandard
  <2> HIDE DEF bits, same
  <2>3. same("red") <=> Has(f, "red", 16, 8)
    BY <1>2, <2>1, ChannelsAre
  <2>4. same("green") <=> Has(f, "green", 8, 8)
    BY <1>2, <2>1, ChannelsAre
  <2>5. same("blue") <=> Has(f, "blue", 0, 8)
    BY <1>2, <2>1, ChannelsAre
  <2>6. same("alpha") <=> Has(f, "alpha", 0, 0)
    BY <1>2, <2>1, ChannelsAre
  <2> QED
    BY <1>1, <2>2, <2>3, <2>4, <2>5, <2>6 DEF same, bits
<1>5. ASSUME NEW k \in 0 .. 16, n \in {2, 3, 4}, bits["alpha"] = Stretch(0, k),
             HasStandard(f, n) <=> Has(f, "red", 0, 0) /\ Has(f, "green", 0, 0)
                                   /\ Has(f, "blue", 0, 0) /\ Has(f, "alpha", 0, k)
      PROVE  (\A c \in Channel : same(c)) <=> HasStandard(f, n)
  <2>1. /\ bits["red"] = Stretch(0, 0) /\ bits["green"] = Stretch(0, 0)
        /\ bits["blue"] = Stretch(0, 0)
    BY <1>5 DEF Pict!StandardBits, Stretch
  <2> HIDE DEF bits, same
  <2>2. same("red") <=> Has(f, "red", 0, 0)
    BY <1>2, <2>1, ChannelsAre
  <2>3. same("green") <=> Has(f, "green", 0, 0)
    BY <1>2, <2>1, ChannelsAre
  <2>4. same("blue") <=> Has(f, "blue", 0, 0)
    BY <1>2, <2>1, ChannelsAre
  <2>5. same("alpha") <=> Has(f, "alpha", 0, k)
    BY <1>2, <1>5, ChannelsAre
  <2> QED
    BY <1>1, <1>5, <2>2, <2>3, <2>4, <2>5
<1>6. CASE n = 2
  <2>1. bits["alpha"] = Stretch(0, 8)
    BY <1>6 DEF Pict!StandardBits, Stretch
  <2>2. HasStandard(f, n) <=> Has(f, "red", 0, 0) /\ Has(f, "green", 0, 0)
                              /\ Has(f, "blue", 0, 0) /\ Has(f, "alpha", 0, 8)
    BY <1>6 DEF HasStandard
  <2>3. 8 \in 0 .. 16
    OBVIOUS
  <2> HIDE DEF bits, same
  <2>4. (\A c \in Channel : same(c)) <=> HasStandard(f, n)
    BY <1>5, <1>6, <2>1, <2>2, <2>3
  <2> QED
    BY <2>4 DEF same, bits
<1>7. CASE n = 3
  <2>1. bits["alpha"] = Stretch(0, 4)
    BY <1>7 DEF Pict!StandardBits, Stretch
  <2>2. HasStandard(f, n) <=> Has(f, "red", 0, 0) /\ Has(f, "green", 0, 0)
                              /\ Has(f, "blue", 0, 0) /\ Has(f, "alpha", 0, 4)
    BY <1>7 DEF HasStandard
  <2>3. 4 \in 0 .. 16
    OBVIOUS
  <2> HIDE DEF bits, same
  <2>4. (\A c \in Channel : same(c)) <=> HasStandard(f, n)
    BY <1>5, <1>7, <2>1, <2>2, <2>3
  <2> QED
    BY <2>4 DEF same, bits
<1>8. CASE n = 4
  <2>1. bits["alpha"] = Stretch(0, 1)
    BY <1>8 DEF Pict!StandardBits, Stretch
  <2>2. HasStandard(f, n) <=> Has(f, "red", 0, 0) /\ Has(f, "green", 0, 0)
                              /\ Has(f, "blue", 0, 0) /\ Has(f, "alpha", 0, 1)
    BY <1>8 DEF HasStandard
  <2>3. 1 \in 0 .. 16
    OBVIOUS
  <2> HIDE DEF bits, same
  <2>4. (\A c \in Channel : same(c)) <=> HasStandard(f, n)
    BY <1>5, <1>8, <2>1, <2>2, <2>3
  <2> QED
    BY <2>4 DEF same, bits
<1> QED
  BY <1>3, <1>4, <1>6, <1>7, <1>8

\* What the masks and shifts say of a channel.
LEMMA HasIs ==
    ASSUME NEW f, NEW c, NEW a
    PROVE  /\ Has(f, c, a, 0) <=> f[MaskOf[c]] = 0
           /\ Has(f, c, a, 1) <=> f[MaskOf[c]] = 1 /\ f[c] = a
           /\ Has(f, c, a, 4) <=> f[MaskOf[c]] = 15 /\ f[c] = a
           /\ Has(f, c, a, 8) <=> f[MaskOf[c]] = 255 /\ f[c] = a
<1>1. Has(f, c, a, 0) <=> f[MaskOf[c]] = 0
  BY DEF Has
<1>2. Has(f, c, a, 1) <=> f[MaskOf[c]] = 1 /\ f[c] = a
  BY DEF Has
<1>3. Has(f, c, a, 4) <=> f[MaskOf[c]] = 15 /\ f[c] = a
  BY DEF Has
<1>4. Has(f, c, a, 8) <=> f[MaskOf[c]] = 255 /\ f[c] = a
  BY DEF Has
<1> QED
  BY <1>1, <1>2, <1>3, <1>4

\* The templates find what has the bits of a standard format.
LEMMA StandardMatches ==
    ASSUME NEW f \in Format, NEW n \in 0 .. 4
    PROVE  Pict!Matches(f, Pict!standardFormats[n + 1].mask, Pict!standardFormats[n + 1].templ) <=>
              /\ f.type = 1 /\ f.depth = <<32, 24, 8, 4, 1>>[n + 1]
              /\ \A c \in Channel : Pict!Bits(f, c) = Pict!StandardBits(n)[c]
<1> DEFINE wanted == Pict!standardFormats[n + 1].mask
           templ  == Pict!standardFormats[n + 1].templ
           match  == \A field \in wanted : templ[field] = f[field]
<1>1. Pict!Matches(f, wanted, templ) <=> match
  BY DEF Pict!Matches
<1>2. CASE n = 0
  <2>1. /\ wanted = {"type", "depth", "red", "green", "blue", "alpha",
                   "red_mask", "green_mask", "blue_mask", "alpha_mask"}
        /\ templ = Pict!Direct(32, Pict!Shifts(16, 8, 0, 24), Pict!Shifts(255, 255, 255, 255))
    BY <1>2, SameFields, ChannelsAre DEF Pict!standardFormats
  <2>2. /\ templ["type"] = 1 /\ templ["depth"] = 32
        /\ templ["red"] = 16 /\ templ["green"] = 8 /\ templ["blue"] = 0 /\ templ["alpha"] = 24
        /\ templ["red_mask"] = 255 /\ templ["green_mask"] = 255
        /\ templ["blue_mask"] = 255 /\ templ["alpha_mask"] = 255
    BY <2>1, DirectIs DEF Pict!Shifts
  <2> HIDE DEF wanted, templ
  <2>3. match <=> /\ f["type"] = 1 /\ f["depth"] = 32
                  /\ Has(f, "red", 16, 8) /\ Has(f, "green", 8, 8)
                  /\ Has(f, "blue", 0, 8) /\ Has(f, "alpha", 24, 8)
    BY <2>1, <2>2, HasIs, ChannelsAre
  <2> HIDE DEF match
  <2> QED
    BY <1>1, <1>2, <2>3, BitsOf DEF wanted, templ, HasStandard
<1>3. CASE n = 1
  <2>1. /\ wanted = {"type", "depth", "red", "green", "blue",
                   "red_mask", "green_mask", "blue_mask", "alpha_mask"}
        /\ templ = Pict!Direct(24, Pict!Shifts(16, 8, 0, 0), Pict!Shifts(255, 255, 255, 0))
    BY <1>3, SameFields, ChannelsAre DEF Pict!standardFormats
  <2>2. /\ templ["type"] = 1 /\ templ["depth"] = 24
        /\ templ["red"] = 16 /\ templ["green"] = 8 /\ templ["blue"] = 0
        /\ templ["red_mask"] = 255 /\ templ["green_mask"] = 255
        /\ templ["blue_mask"] = 255 /\ templ["alpha_mask"] = 0
    BY <2>1, DirectIs DEF Pict!Shifts
  <2> HIDE DEF wanted, templ
  <2>3. match <=> /\ f["type"] = 1 /\ f["depth"] = 24
                  /\ Has(f, "red", 16, 8) /\ Has(f, "green", 8, 8)
                  /\ Has(f, "blue", 0, 8) /\ Has(f, "alpha", 0, 0)
    BY <2>1, <2>2, HasIs, ChannelsAre
  <2> HIDE DEF match
  <2> QED
    BY <1>1, <1>3, <2>3, BitsOf DEF wanted, templ, HasStandard
<1>4. ASSUME NEW depth, NEW value, NEW k, n \in {2, 3, 4},
             wanted = {"type", "depth", "alpha", "red_mask", "green_mask", "blue_mask", "alpha_mask"},
             templ = Pict!Direct(depth, Pict!Shifts(0, 0, 0, 0), Pict!Shifts(0, 0, 0, value)),
             Has(f, "alpha", 0, k) <=> f["alpha_mask"] = value /\ f["alpha"] = 0
      PROVE  match <=> /\ f["type"] = 1 /\ f["depth"] = depth
                       /\ Has(f, "red", 0, 0) /\ Has(f, "green", 0, 0)
                       /\ Has(f, "blue", 0, 0) /\ Has(f, "alpha", 0, k)
  <2>1. /\ templ["type"] = 1 /\ templ["depth"] = depth /\ templ["alpha"] = 0
        /\ templ["red_mask"] = 0 /\ templ["green_mask"] = 0
        /\ templ["blue_mask"] = 0 /\ templ["alpha_mask"] = value
    BY <1>4, DirectIs DEF Pict!Shifts
  <2> HIDE DEF wanted, templ
  <2> QED
    BY <1>4, <2>1, HasIs, ChannelsAre
<1>5. CASE n = 2
  <2>1. /\ wanted = {"type", "depth", "alpha", "red_mask", "green_mask", "blue_mask", "alpha_mask"}
        /\ templ = Pict!Direct(8, Pict!Shifts(0, 0, 0, 0), Pict!Shifts(0, 0, 0, 255))
    BY <1>5, SameFields, ChannelsAre DEF Pict!standardFormats
  <2>2. Has(f, "alpha", 0, 8) <=> f["alpha_mask"] = 255 /\ f["alpha"] = 0
    BY HasIs, ChannelsAre
  <2> HIDE DEF wanted, templ, match
  <2> QED
    BY <1>1, <1>4, <1>5, <2>1, <2>2, BitsOf DEF wanted, templ, HasStandard
<1>6. CASE n = 3
  <2>1. /\ wanted = {"type", "depth", "alpha", "red_mask", "green_mask", "blue_mask", "alpha_mask"}
        /\ templ = Pict!Direct(4, Pict!Shifts(0, 0, 0, 0), Pict!Shifts(0, 0, 0, 15))
    BY <1>6, SameFields, ChannelsAre DEF Pict!standardFormats
  <2>2. Has(f, "alpha", 0, 4) <=> f["alpha_mask"] = 15 /\ f["alpha"] = 0
    BY HasIs, ChannelsAre
  <2> HIDE DEF wanted, templ, match
  <2> QED
    BY <1>1, <1>4, <1>6, <2>1, <2>2, BitsOf DEF wanted, templ, HasStandard
<1>7. CASE n = 4
  <2>1. /\ wanted = {"type", "depth", "alpha", "red_mask", "green_mask", "blue_mask", "alpha_mask"}
        /\ templ = Pict!Direct(1, Pict!Shifts(0, 0, 0, 0), Pict!Shifts(0, 0, 0, 1))
    BY <1>7, SameFields, ChannelsAre DEF Pict!standardFormats
  <2>2. Has(f, "alpha", 0, 1) <=> f["alpha_mask"] = 1 /\ f["alpha"] = 0
    BY HasIs, ChannelsAre
  <2> HIDE DEF wanted, templ, match
  <2> QED
    BY <1>1, <1>4, <1>7, <2>1, <2>2, BitsOf DEF wanted, templ, HasStandard
<1> QED
  BY <1>2, <1>3, <1>5, <1>6, <1>7

\* A visual is found if some depth of some screen lists it.
LEMMA VisualFormatFound ==
    ASSUME formats # NoReply, screens \in Seq(Seq(Seq(Visual))), NEW visual \in Visual
    PROVE  Pict!xcb_render_util_find_visual_format(visual) = visual <=>
              \E i \in DOMAIN screens : \E j \in DOMAIN screens[i] :
                  visual \in Pict!Range(screens[i][j])
<1> DEFINE round(visuals)  == [k \in DOMAIN visuals |-> IF visuals[k] = visual THEN visuals[k] ELSE 0]
           inDepth(visuals) == Pict!FirstOf(round(visuals), 0)
           depthsOf(depths) == [j \in DOMAIN depths |-> inDepth(depths[j])]
           onScreen(depths) == Pict!FirstOf(depthsOf(depths), 0)
           all == [i \in DOMAIN screens |-> onScreen(screens[i])]
<1>0. Pict!xcb_render_util_find_visual_format(visual) = Pict!FirstOf(all, 0)
  BY DEF Pict!xcb_render_util_find_visual_format
<1>1. visual # 0
  BY LookupAssumption
<1>2. ASSUME NEW visuals \in Seq(Visual)
      PROVE  inDepth(visuals) \in {visual, 0} /\ (inDepth(visuals) = visual <=> visual \in Pict!Range(visuals))
  <2> DEFINE r == round(visuals)
             n == Len(visuals)
  <2>1. n \in Nat /\ DOMAIN visuals = 1 .. n /\ DOMAIN r = 1 .. n
    OBVIOUS
  <2>2. \A k \in 1 .. n : r[k] = IF visuals[k] = visual THEN visual ELSE 0
    BY <2>1
  <2>3. visual \in Pict!Range(visuals) <=> \E k \in 1 .. n : visuals[k] = visual
    BY <2>1 DEF Pict!Range
  <2>4. inDepth(visuals) = Pict!FirstOf(r, 0)
    OBVIOUS
  <2> HIDE DEF r, n, inDepth
  <2>5. FirstIs(inDepth(visuals), r, n, 0)
    BY <2>1, <2>4, FirstOfIs
  <2> QED
    BY <1>1, <2>2, <2>3, <2>5 DEF FirstIs
<1> HIDE DEF inDepth
<1>3. ASSUME NEW depths \in Seq(Seq(Visual))
      PROVE  /\ onScreen(depths) \in {visual, 0}
             /\ onScreen(depths) = visual <=> \E j \in DOMAIN depths : visual \in Pict!Range(depths[j])
  <2> DEFINE r == depthsOf(depths)
             n == Len(depths)
  <2>1. n \in Nat /\ DOMAIN depths = 1 .. n /\ DOMAIN r = 1 .. n
    OBVIOUS
  <2>2. \A j \in 1 .. n : r[j] \in {visual, 0} /\ (r[j] = visual <=> visual \in Pict!Range(depths[j]))
    <3> SUFFICES ASSUME NEW j \in 1 .. n
                 PROVE  r[j] \in {visual, 0} /\ (r[j] = visual <=> visual \in Pict!Range(depths[j]))
      OBVIOUS
    <3>1. depths[j] \in Seq(Visual) /\ r[j] = inDepth(depths[j])
      BY <2>1, ElementOfSeq
    <3> HIDE DEF r
    <3> QED
      BY <1>2, <3>1
  <2>3. onScreen(depths) = Pict!FirstOf(r, 0)
    OBVIOUS
  <2> HIDE DEF r, n, onScreen
  <2>4. FirstIs(onScreen(depths), r, n, 0)
    BY <2>1, <2>3, FirstOfIs
  <2>5. /\ onScreen(depths) \in {visual, 0}
        /\ onScreen(depths) = visual <=> \E j \in 1 .. n : r[j] = visual
    BY <1>1, <2>2, <2>4 DEF FirstIs
  <2> QED
    BY <2>1, <2>2, <2>5
<1> HIDE DEF onScreen
<1> DEFINE n == Len(screens)
<1>4. n \in Nat /\ DOMAIN screens = 1 .. n /\ DOMAIN all = 1 .. n
  OBVIOUS
<1>5. \A i \in 1 .. n : /\ all[i] \in {visual, 0}
                        /\ all[i] = visual <=> \E j \in DOMAIN screens[i] :
                                                   visual \in Pict!Range(screens[i][j])
  <2> SUFFICES ASSUME NEW i \in 1 .. n
               PROVE  /\ all[i] \in {visual, 0}
                      /\ all[i] = visual <=> \E j \in DOMAIN screens[i] :
                                                 visual \in Pict!Range(screens[i][j])
    OBVIOUS
  <2>1. screens[i] \in Seq(Seq(Visual)) /\ all[i] = onScreen(screens[i])
    BY <1>4, ElementOfSeq
  <2> HIDE DEF all
  <2> QED
    BY <1>3, <2>1
<1> HIDE DEF all, n
<1>6. FirstIs(Pict!FirstOf(all, 0), all, n, 0)
  BY <1>4, FirstOfIs
<1>7. Pict!FirstOf(all, 0) = visual <=> \E i \in 1 .. n : all[i] = visual
  BY <1>1, <1>5, <1>6 DEF FirstIs
<1> QED
  BY <1>0, <1>4, <1>5, <1>7

\* What the reply is made of, and that its formats are found.
PictFinds ==
    part = "pict" =>
        /\ (formats = NoReply /\ screens = <<>>) \/ formats \in Seq(Format)
        /\ screens \in Seq(Seq(Seq(Visual)))
        /\ Pict!EveryMatchOnce /\ Pict!StandardIsByBits /\ Pict!VisualsAreFound

\* The replies that there may be are such ones.
LEMMA PictBegins == LookupInit => PictFinds
<1> SUFFICES ASSUME LookupInit, part = "pict" PROVE PictFinds
  BY DEF PictFinds
<1>1. Pict!Init
  BY DEF LookupInit
<1>2. ASSUME NEW T, NEW S \in SUBSET T, NEW n \in Nat PROVE Pict!SeqOf(S, n) \subseteq Seq(T)
  <2> SUFFICES ASSUME NEW s \in Pict!SeqOf(S, n) PROVE s \in Seq(T)
    OBVIOUS
  <2>1. PICK m \in 0 .. n : s \in [1 .. m -> S]
    BY DEF Pict!SeqOf
  <2>2. m \in Nat /\ s \in [1 .. m -> T]
    BY <2>1
  <2> QED
    BY <2>2
<1>3. formats = NoReply \/ formats \in Seq(Format)
  BY <1>1, <1>2, LookupAssumption DEF Pict!Init
<1>4. formats = NoReply => screens = <<>>
  <2>1. NoReply # <<>>
    <3>1. <<>> \in Seq(Format)
      OBVIOUS
    <3> QED
      BY <3>1, LookupAssumption
  <2> QED
    BY <1>1, <2>1 DEF Pict!Init
<1>5. screens \in Seq(Seq(Seq(Visual)))
  <2> DEFINE A == Pict!SeqOf(Visual, 1)
             B == Pict!SeqOf(A, 2)
             C == Pict!SeqOf(B, 2)
  <2>1. screens = <<>> \/ screens \in C
    BY <1>1 DEF Pict!Init
  <2>2. A \in SUBSET Seq(Visual)
    BY <1>2
  <2> HIDE DEF A
  <2>3. B \in SUBSET Seq(Seq(Visual))
    BY <1>2, <2>2
  <2> HIDE DEF B
  <2>4. C \in SUBSET Seq(Seq(Seq(Visual)))
    BY <1>2, <2>3
  <2> HIDE DEF C
  <2>5. <<>> \in Seq(Seq(Seq(Visual)))
    OBVIOUS
  <2> QED
    BY <2>1, <2>4, <2>5
<1>6. asked.call = "none"
  BY <1>1 DEF Pict!Init
<1> QED
  BY <1>3, <1>4, <1>5, <1>6
  DEF PictFinds, Pict!EveryMatchOnce, Pict!StandardIsByBits, Pict!VisualsAreFound

\* Sets of formats are counted as everywhere.
LEMMA SamePictCardinality == \A S : Pict!Cardinality(S) = Cardinality(S)
  BY DEF Pict!Cardinality, Cardinality

\* Whichever is asked, it is found.
LEMMA PictStepFinds == PictFinds /\ [LookupNext]_lookup_vars => PictFinds'
<1> SUFFICES ASSUME PictFinds, [LookupNext]_lookup_vars, part' = "pict" PROVE PictFinds'
  BY DEF PictFinds
<1>1. part = "pict" /\ (Pict!Next \/ UNCHANGED <<formats, screens, asked, found>>)
  BY DEF LookupNext, lookup_vars, answer_vars, SetupStep, PictStep
<1>2. /\ (formats = NoReply /\ screens = <<>>) \/ formats \in Seq(Format)
      /\ screens \in Seq(Seq(Seq(Visual)))
      /\ Pict!EveryMatchOnce /\ Pict!StandardIsByBits /\ Pict!VisualsAreFound
  BY <1>1 DEF PictFinds
<1>3. CASE UNCHANGED <<formats, screens, asked, found>>
  BY <1>2, <1>3
  DEF PictFinds, Pict!EveryMatchOnce, Pict!StandardIsByBits, Pict!VisualsAreFound
<1>4. ASSUME NEW wanted, NEW template, NEW count \in Int,
             Pict!FindFormat(wanted, template, count)
      PROVE  PictFinds'
  <2> DEFINE numbers == Matching(wanted, template)
             matching == {i \in DOMAIN formats : \A field \in wanted :
                             formats[i][field] = template[field]}
  <2>1. /\ formats' = formats /\ screens' = screens
        /\ asked' = [call |-> "format", mask |-> wanted, template |-> template, count |-> count]
        /\ found' = Pict!xcb_render_util_find_format(wanted, template, count)
    BY <1>4 DEF Pict!FindFormat, Pict!Answer
  <2>2. /\ asked'.call = "format" /\ asked'.mask = wanted /\ asked'.template = template
        /\ asked'.count = count
    BY <2>1
  <2>3. matching = numbers
    BY DEF Matching, Pict!Matches
  <2> HIDE DEF numbers
  <2>4. IF formats = NoReply \/ count \notin 0 .. Cardinality(numbers) - 1 THEN found' = 0
        ELSE found' \in numbers /\ Cardinality({i \in numbers : i < found'}) = count
    <3>1. CASE formats = NoReply
      BY <2>1, <3>1 DEF Pict!xcb_render_util_find_format
    <3>2. CASE formats # NoReply
      BY <1>2, <2>1, <3>2, FormatFound DEF numbers
    <3> QED
      BY <3>1, <3>2
  <2>5. Pict!EveryMatchOnce'
    <3> HIDE DEF matching
    <3>1. IF formats = NoReply \/ count \notin 0 .. Cardinality(matching) - 1 THEN found' = 0
          ELSE found' \in matching /\ Cardinality({i \in matching : i < found'}) = count
      BY <2>3, <2>4
    <3> QED
      BY <2>1, <2>2, <3>1, SamePictCardinality DEF Pict!EveryMatchOnce, matching
  <2> QED
    BY <1>2, <2>1, <2>2, <2>5 DEF PictFinds, Pict!StandardIsByBits, Pict!VisualsAreFound
<1>5. ASSUME NEW n \in -1 .. 5, Pict!FindStandardFormat(n) PROVE PictFinds'
  <2> DEFINE right == {i \in DOMAIN formats :
                          /\ formats[i].type = 1
                          /\ formats[i].depth = <<32, 24, 8, 4, 1>>[n + 1]
                          /\ \A c \in Pict!Channel : Pict!Bits(formats[i], c) = Pict!StandardBits(n)[c]}
             goal == IF n \notin 0 .. 4 \/ formats = NoReply \/ right = {} THEN found' = 0
                     ELSE found' \in right /\ \A i \in right : found' <= i
  <2>1. /\ formats' = formats /\ screens' = screens
        /\ asked' = [call |-> "standard", number |-> n]
        /\ found' = Pict!xcb_render_util_find_standard_format(n)
    BY <1>5 DEF Pict!FindStandardFormat, Pict!Answer
  <2>2. asked'.call = "standard" /\ asked'.number = n
    BY <2>1
  <2>3. goal
    <3>1. DOMAIN Pict!standardFormats = 1 .. 5
      BY DEF Pict!standardFormats
    <3>2. CASE n \notin 0 .. 4
      BY <2>1, <3>1, <3>2 DEF Pict!xcb_render_util_find_standard_format
    <3>3. CASE n \in 0 .. 4
      <4> DEFINE fields  == Pict!standardFormats[n + 1].mask
                 templ   == Pict!standardFormats[n + 1].templ
                 numbers == Matching(fields, templ)
      <4>1. found' = Pict!xcb_render_util_find_format(fields, templ, 0)
        BY <2>1, <3>1, <3>3 DEF Pict!xcb_render_util_find_standard_format
      <4>2. CASE formats = NoReply
        BY <4>1, <4>2 DEF Pict!xcb_render_util_find_format
      <4>3. CASE formats # NoReply
        <5>1. formats \in Seq(Format)
          BY <1>2, <4>3
        <5>2. \A i \in DOMAIN formats : formats[i] \in Format
          BY <5>1, ElementOfSeq
        <5>3. numbers = right
          <6> HIDE DEF fields, templ
          <6>1. \A i \in DOMAIN formats : Pict!Matches(formats[i], fields, templ) <=> i \in right
            BY <3>3, <5>2, StandardMatches, SameFields DEF fields, templ
          <6> HIDE DEF right
          <6>2. right \subseteq DOMAIN formats
            BY DEF right
          <6> QED
            BY <6>1, <6>2 DEF Matching
        <5> HIDE DEF fields, templ, right, numbers
        <5> DEFINE x(count) == Pict!xcb_render_util_find_format(fields, templ, count)
        <5>4. \A count \in Int :
                 /\ IsFiniteSet(numbers) /\ Cardinality(numbers) \in Nat
                 /\ IF count \in 0 .. Cardinality(numbers) - 1
                    THEN x(count) \in numbers /\ Cardinality({i \in numbers : i < x(count)}) = count
                    ELSE x(count) = 0
          BY <4>3, <5>1, FormatFound DEF numbers
        <5>5. found' = x(0)
          BY <4>1
        <5> HIDE DEF x
        <5>6. /\ IsFiniteSet(numbers) /\ Cardinality(numbers) \in Nat
              /\ IF 0 \in 0 .. Cardinality(numbers) - 1
                 THEN found' \in numbers /\ Cardinality({i \in numbers : i < found'}) = 0
                 ELSE found' = 0
          BY <5>4, <5>5
        <5>7. CASE numbers = {}
          <6>1. Cardinality(numbers) = 0
            BY <5>7, FS_EmptySet
          <6> QED
            BY <5>3, <5>6, <5>7, <6>1
        <5>8. CASE numbers # {}
          <6>1. Cardinality(numbers) # 0
            BY <5>6, <5>8, FS_EmptySet
          <6>2. found' \in numbers /\ Cardinality({i \in numbers : i < found'}) = 0
            BY <5>6, <6>1
          <6>3. {i \in numbers : i < found'} = {}
            <7>1. IsFiniteSet({i \in numbers : i < found'})
              BY <5>6, FS_Subset
            <7> QED
              BY <6>2, <7>1, FS_EmptySet
          <6>4. numbers \in SUBSET Nat
            BY <5>1 DEF numbers, Matching
          <6>5. \A i \in numbers : found' <= i
            BY <6>2, <6>3, <6>4
          <6> QED
            BY <3>3, <4>3, <5>3, <5>8, <6>2, <6>5
        <5> QED
          BY <5>7, <5>8
      <4> QED
        BY <4>2, <4>3
    <3> QED
      BY <3>2, <3>3
  <2>4. Pict!StandardIsByBits'
    BY <2>1, <2>2, <2>3 DEF Pict!StandardIsByBits
  <2> QED
    BY <1>2, <2>1, <2>2, <2>4 DEF PictFinds, Pict!EveryMatchOnce, Pict!VisualsAreFound
<1>6. ASSUME NEW visual \in Visual, Pict!FindVisualFormat(visual) PROVE PictFinds'
  <2>1. /\ formats' = formats /\ screens' = screens
        /\ asked' = [call |-> "visual", visual |-> visual]
        /\ found' = Pict!xcb_render_util_find_visual_format(visual)
    BY <1>6 DEF Pict!FindVisualFormat, Pict!Answer
  <2>2. asked'.call = "visual" /\ asked'.visual = visual
    BY <2>1
  <2>3. found' = visual <=> \E i \in DOMAIN screens : \E j \in DOMAIN screens[i] :
                                visual \in Pict!Range(screens[i][j])
    <3>1. CASE formats = NoReply
      <4>1. screens = <<>> /\ DOMAIN screens = {}
        BY <1>2, <3>1, LookupAssumption
      <4>2. found' = 0 /\ visual # 0
        BY <2>1, <3>1, LookupAssumption DEF Pict!xcb_render_util_find_visual_format
      <4> QED
        BY <4>1, <4>2
    <3>2. CASE formats # NoReply
      BY <1>2, <2>1, <3>2, VisualFormatFound
    <3> QED
      BY <3>1, <3>2
  <2>4. Pict!VisualsAreFound'
    BY <2>1, <2>2, <2>3 DEF Pict!VisualsAreFound
  <2> QED
    BY <1>2, <2>1, <2>2, <2>4 DEF PictFinds, Pict!EveryMatchOnce, Pict!StandardIsByBits
<1>7. ASSUME NEW count \in -1 .. MaxFormats PROVE count \in Int
  BY LookupAssumption
<1> QED
  BY <1>1, <1>3, <1>4, <1>5, <1>6, <1>7 DEF Pict!Next

\* What is looked up in the setup or among the picture formats is found if it
\* is there, however many screens, depths, visuals and formats there are.
THEOREM LookupsAreRight == LookupSpec => []LookupsFind
<1>1. SetupFinds /\ PictFinds => LookupsFind
  BY DEF SetupFinds, PictFinds, LookupsFind
<1> QED
  BY <1>1, SetupBegins, PictBegins, SetupStepFinds, PictStepFinds, PTL DEF LookupSpec
=============================================================================
