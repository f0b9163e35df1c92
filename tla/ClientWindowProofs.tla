------------------------- MODULE ClientWindowProofs -------------------------
(***************************************************************************)
(* Proofs about ClientWindow: that hints arrive as they were set and are   *)
(* never flagged without having been there, and that replies are owned and *)
(* read in full, for any number of values, clients' bad habits and calls.  *)
(***************************************************************************)
EXTENDS ClientWindow, FiniteSetTheorems, NaturalsInduction, SequenceTheorems, TLAPS

\* The smaller of two numbers.
LEMMA MinOfTwo ==
    ASSUME NEW a \in Int, NEW b \in Int
    PROVE  Min({a, b}) = IF a <= b THEN a ELSE b
BY DEF Min

-----------------------------------------------------------------------------
(* The tables.                                                              *)

\* Which flags and fields there are.
LEMMA Names ==
    /\ DOMAIN SizeFlag = {"us_position", "p_position", "us_size", "p_size", "p_min_size",
                          "p_max_size", "p_resize_inc", "p_aspect", "base_size", "p_win_gravity"}
    /\ DOMAIN WmFlag = {"input", "state", "icon_pixmap", "icon_window", "icon_position",
                        "icon_mask", "window_group", "x_urgency"}
    /\ DOMAIN SizeEnd = {"position", "size", "min_size", "max_size", "resize_inc",
                         "aspect", "base_size", "win_gravity"}
    /\ DOMAIN WmEnd = {"input", "initial_state", "icon_pixmap", "icon_window",
                       "icon_position", "icon_mask", "window_group"}
    /\ DOMAIN SizeStart = DOMAIN SizeEnd /\ DOMAIN WmStart = DOMAIN WmEnd
    /\ Hint = DOMAIN SizeFlag \cup DOMAIN WmFlag
BY DEF SizeFlag, WmFlag, SizeEnd, WmEnd, SizeStart, WmStart, Hint, FieldOf, Joined

\* A field of the structure lies in its words; the last of those fields are
\* the ones that ICCCM version 1 added.
LEMMA FieldsFit ==
    ASSUME kind \in {"size", "wm"}, NEW f \in Field
    PROVE  /\ Start[f] \in Nat /\ End[f] \in Nat /\ End[f] <= Words
           /\ kind = "size" /\ f \notin {"base_size", "win_gravity"} => End[f] <= 15
           /\ kind = "wm" /\ f # "window_group" => End[f] <= 8
BY Names DEF Field, Start, End, Joined, SizeEnd, SizeStart, WmEnd, WmStart, Words

\* What the flags of the structure tell about, and where the others point.
LEMMA FlagsTell ==
    ASSUME kind \in {"size", "wm"}
    PROVE  /\ Flag \subseteq Hint /\ "unknown" \notin Hint
           /\ \A g \in Flag \ {"x_urgency"} : FieldOf[g] \in Field
           /\ \A g \in Hint \ {"x_urgency"} : End[FieldOf[g]] \in Nat
           /\ \A g \in Hint : FieldOf[g] = "none" <=> g = "x_urgency"
           /\ \A g \in Flag : FieldOf[g] \in {"base_size", "win_gravity"}
                              <=> g \in {"base_size", "p_win_gravity"}
           /\ \A g \in Hint : FieldOf[g] = "window_group" <=> g = "window_group"
<1>1. /\ Flag \subseteq Hint /\ "unknown" \notin Hint
      /\ \A g \in Flag \ {"x_urgency"} : FieldOf[g] \in Field
  BY Names DEF Flag, Field, FieldOf, Joined, SizeFlag, WmFlag
<1>2. \A g \in Hint \ {"x_urgency"} : End[FieldOf[g]] \in Nat
  BY Names DEF FieldOf, Joined, SizeFlag, WmFlag, End, SizeEnd, WmEnd
<1>3. \A g \in Hint : FieldOf[g] = "none" <=> g = "x_urgency"
  BY Names DEF FieldOf, Joined, SizeFlag, WmFlag
<1>4. \A g \in Hint : FieldOf[g] = "window_group" <=> g = "window_group"
  BY Names DEF FieldOf, Joined, SizeFlag, WmFlag
<1>5. \A g \in Flag : FieldOf[g] \in {"base_size", "win_gravity"}
                      <=> g \in {"base_size", "p_win_gravity"}
  BY Names DEF Flag, FieldOf, Joined, SizeFlag, WmFlag
<1> QED
  BY <1>1, <1>2, <1>3, <1>4, <1>5

\* The field that ICCCM added last to WM_HINTS lies in the first 9 words.
LEMMA GroupFits == FieldOf["window_group"] = "window_group" /\ End["window_group"] = 9
<1>1. FieldOf["window_group"] = "window_group"
  BY DEF FieldOf, Joined, SizeFlag, WmFlag
<1>2. End["window_group"] = 9
  BY DEF End, Joined, SizeEnd, WmEnd
<1> QED
  BY <1>1, <1>2

-----------------------------------------------------------------------------
(* The inductive invariant of the hints.                                    *)

\* Other clients give WM_NORMAL_HINTS elements of 32 bits, as ICCCM has it: the
\* decoder takes other widths for hints as well.  That of WM_HINTS does not.
FormatsAreTold == kind = "size" => ForeignFormat \subseteq {32}

\* Structures, properties and replies.
Structures == [flags : SUBSET (Flag \cup {"unknown"}),
               field : [Field -> Value \cup {Zero, Foreign, Torn}]]
Properties == [type : {"hints", "other"}, format : IF kind = "size" THEN {32} ELSE {8, 16, 32},
               length : Nat, content : Structures]
Replies    == {r \in Properties : r.format = 32 => r.length <= Words}
Refusals   == {Null, [type |-> "none", format |-> 0, length |-> 0]}

\* The variables of a window with hints; no two questions are open at a time.
HintTypes ==
    /\ kind \in {"size", "wm"}
    /\ draft \in Structures /\ hints \in Structures
    /\ window \in BOOLEAN /\ asked \in BOOLEAN /\ outside \in BOOLEAN
    /\ property = <<>> \/ \E p \in Properties : property = <<p>>
    /\ reply = <<>> \/ \E r \in Replies \cup Refusals : reply = <<r>>
    /\ asked => reply = <<>>
    /\ count \in [sets : 0 .. MaxSets, changes : 0 .. MaxChanges, asks : 0 .. MaxAsks]
    /\ notices \in 0 .. count.changes

\* Every flag of the decoded structure has its field in the reply.
Backed ==
    /\ ~outside
    /\ last # <<>> =>
          \A flag \in (hints.flags \cap Flag) \ {"x_urgency"} :
             \/ 4 * End[FieldOf[flag]] <= Bytes(last[1])
             \/ flag = "window_group" /\ hints.field.window_group = Zero

\* What depends on the kind of hints stays the same.
LEMMA SameKind ==
    ASSUME kind' = kind
    PROVE  /\ Flag' = Flag /\ Field' = Field /\ Words' = Words
           /\ Structures' = Structures /\ Properties' = Properties /\ Replies' = Replies
           /\ \A r : Reading(r)' = Reading(r)
<1>1. Flag' = Flag /\ Field' = Field /\ Words' = Words
  BY DEF Flag, Field, Words
<1> QED
  BY <1>1 DEF Structures, Properties, Replies, Reading

\* A setter fills one field.
LEMMA FillTypes ==
    ASSUME NEW h \in Structures, NEW f \in Field, NEW v \in Value, NEW clears, NEW flag \in Flag
    PROVE  Fill(h, f, v, clears, flag) \in Structures
<1>1. /\ (h.flags \ clears) \cup {flag} \subseteq Flag \cup {"unknown"}
      /\ [h.field EXCEPT ![f] = v] \in [Field -> Value \cup {Zero, Foreign, Torn}]
  BY DEF Structures
<1> QED
  BY <1>1 DEF Fill, Structures

\* Setters yield structures.
LEMMA SetTypes ==
    ASSUME HintTypes, NEW v \in Value
    PROVE  /\ kind = "size" => SizeSetters(draft, v) \subseteq Structures
           /\ kind = "wm" => WmSetters(draft, v) \subseteq Structures
<1>1. draft \in Structures
  BY DEF HintTypes
<1>2. CASE kind = "size"
  <2>1. /\ {"position", "size", "min_size", "max_size", "resize_inc",
            "aspect", "base_size", "win_gravity"} \subseteq Field
        /\ {"us_position", "p_position", "us_size", "p_size", "p_min_size", "p_max_size",
            "p_resize_inc", "p_aspect", "base_size", "p_win_gravity"} \subseteq Flag
    BY <1>2, Names DEF Field, Flag
  <2>2. \A user \in BOOLEAN : xcb_size_hints_set_position(draft, user, v) \in Structures
                              /\ xcb_size_hints_set_size(draft, user, v) \in Structures
    BY <1>1, <2>1, FillTypes DEF xcb_size_hints_set_position, xcb_size_hints_set_size
  <2>3. /\ xcb_size_hints_set_min_size(draft, v) \in Structures
        /\ xcb_size_hints_set_max_size(draft, v) \in Structures
        /\ xcb_size_hints_set_resize_inc(draft, v) \in Structures
    BY <1>1, <2>1, FillTypes DEF xcb_size_hints_set_min_size,
       xcb_size_hints_set_max_size, xcb_size_hints_set_resize_inc
  <2>4. /\ xcb_size_hints_set_aspect(draft, v) \in Structures
        /\ xcb_size_hints_set_base_size(draft, v) \in Structures
        /\ xcb_size_hints_set_win_gravity(draft, v) \in Structures
    BY <1>1, <2>1, FillTypes DEF xcb_size_hints_set_aspect,
       xcb_size_hints_set_base_size, xcb_size_hints_set_win_gravity
  <2>5. ASSUME NEW d \in SizeSetters(draft, v) PROVE d \in Structures
    <3>1. \/ d \in {xcb_size_hints_set_position(draft, user, v) : user \in BOOLEAN}
          \/ d \in {xcb_size_hints_set_size(draft, user, v) : user \in BOOLEAN}
          \/ d \in {xcb_size_hints_set_min_size(draft, v), xcb_size_hints_set_max_size(draft, v),
                   xcb_size_hints_set_resize_inc(draft, v), xcb_size_hints_set_aspect(draft, v),
                   xcb_size_hints_set_base_size(draft, v), xcb_size_hints_set_win_gravity(draft, v)}
      BY <2>5 DEF SizeSetters
    <3> QED
      BY <2>2, <2>3, <2>4, <3>1
  <2> QED
    BY <1>2, <2>5
<1>3. CASE kind = "wm"
  <2>1. /\ {"input", "initial_state", "icon_pixmap", "icon_window",
            "icon_mask", "window_group"} \subseteq Field
        /\ {"input", "state", "icon_pixmap", "icon_window",
            "icon_mask", "window_group", "x_urgency"} \subseteq Flag
    BY <1>3, Names DEF Field, Flag
  <2>2. /\ xcb_wm_hints_set_input(draft, v) \in Structures
        /\ xcb_wm_hints_set_state(draft, v) \in Structures
        /\ xcb_wm_hints_set_icon_pixmap(draft, v) \in Structures
    BY <1>1, <2>1, FillTypes DEF xcb_wm_hints_set_input, xcb_wm_hints_set_state,
       xcb_wm_hints_set_icon_pixmap
  <2>3. /\ xcb_wm_hints_set_icon_mask(draft, v) \in Structures
        /\ xcb_wm_hints_set_icon_window(draft, v) \in Structures
        /\ xcb_wm_hints_set_window_group(draft, v) \in Structures
    BY <1>1, <2>1, FillTypes DEF xcb_wm_hints_set_icon_mask, xcb_wm_hints_set_icon_window,
       xcb_wm_hints_set_window_group
  <2>4. /\ xcb_wm_hints_set_none(draft) \in Structures
        /\ xcb_wm_hints_set_urgency(draft) \in Structures
    BY <1>1, <2>1 DEF xcb_wm_hints_set_none, xcb_wm_hints_set_urgency, Structures
  <2> QED
    BY <1>3, <2>2, <2>3, <2>4 DEF WmSetters
<1> QED
  BY <1>2, <1>3

\* What a server sends of a property is a reply, and of its words.
LEMMA ServedTypes ==
    ASSUME kind \in {"size", "wm"}, NEW p \in Properties
    PROVE  /\ Served(p) \in Replies
           /\ Served(p).type = p.type /\ Served(p).content = p.content
           /\ Served(p).format = p.format
           /\ p.type = "hints" /\ p.format = 32 =>
                 Served(p).length = IF p.length <= Words THEN p.length ELSE Words
<1> DEFINE words == (AskedWords * 32) \div p.format
<1>1. Words \in Nat /\ p.length \in Nat /\ p.format \in {8, 16, 32}
  BY DEF Words, Properties
<1>2. words \in Nat /\ (p.format = 32 => words = Words)
  BY <1>1 DEF AskedWords, Words
<1> HIDE DEF words
<1>3. PICK n \in Nat : /\ Served(p) = [p EXCEPT !.length = n] /\ (p.format = 32 => n <= Words)
                       /\ p.type = "hints" /\ p.format = 32 =>
                             n = IF p.length <= Words THEN p.length ELSE Words
  <2>1. CASE ~watched /\ p.type # "hints"
    <3>1. Served(p) = [p EXCEPT !.length = 0]
      BY <2>1 DEF Served
    <3> QED
      BY <1>1, <2>1, <3>1
  <2>2. CASE ~(~watched /\ p.type # "hints")
    <3>1. Served(p) = [p EXCEPT !.length = Min({p.length, words})]
      BY <2>2 DEF Served, words
    <3>2. Min({p.length, words}) = IF p.length <= words THEN p.length ELSE words
      BY <1>1, <1>2, MinOfTwo
    <3> QED
      BY <1>1, <1>2, <3>1, <3>2
  <2> QED
    BY <2>1, <2>2
<1> QED
  BY <1>3 DEF Properties, Replies

\* What a decoder accepts.
LEMMA AcceptedIsReply ==
    ASSUME HintTypes, reply # <<>>, Accepts(reply[1])
    PROVE  /\ reply[1] \in Replies /\ reply[1].type = "hints"
           /\ kind = "size" => reply[1].length \in 15 .. 18
           /\ kind = "wm" => reply[1].length \in 8 .. 9
           /\ reply[1].format = 32 /\ Bytes(reply[1]) = 4 * reply[1].length
<1> DEFINE r == reply[1]
<1>1. r \in Replies \cup Refusals
  BY DEF HintTypes
<1> HIDE DEF r
<1>2. r \notin Refusals /\ (IF kind = "size" THEN SizeAccepts(r) ELSE WmAccepts(r))
  <2>1. r # Null /\ (IF kind = "size" THEN SizeAccepts(r) ELSE WmAccepts(r))
    BY DEF Accepts, r
  <2>2. r.type = "hints"
    BY <2>1 DEF SizeAccepts, WmAccepts
  <2> QED
    BY <2>1, <2>2 DEF Refusals
<1>3. r \in Replies /\ r.length \in Nat /\ r.format = 32 /\ r.length <= Words
  BY <1>1, <1>2 DEF Replies, Properties, WmAccepts, HintTypes
<1>4. r.type = "hints" /\ (kind = "size" => r.length >= 15) /\ (kind = "wm" => r.length >= 8)
  BY <1>2 DEF SizeAccepts, WmAccepts
<1>5. (kind = "size" => Words = 18) /\ (kind = "wm" => Words = 9)
  BY DEF Words
<1>6. Bytes(r) = 4 * r.length
  BY <1>3 DEF Bytes
<1> QED
  BY <1>3, <1>4, <1>5, <1>6 DEF r

\* The fields that decoding copies, and those it clears: no field is torn.
LEMMA CopiedFields ==
    ASSUME HintTypes, reply # <<>>, Accepts(reply[1])
    PROVE  LET r == reply[1]
               copy == Copied(hints, r)
           IN  /\ copy \in Structures /\ copy.flags = r.content.flags
               /\ \A f \in Field : End[f] <= r.length => copy.field[f] = r.content.field[f]
<1> DEFINE r == reply[1]
           copy == Copied(hints, r)
<1>1. r \in Replies /\ Bytes(r) = 4 * r.length /\ r.length \in Nat /\ r.content \in Structures
  BY AcceptedIsReply DEF Replies, Properties
<1>2. \A f \in Field : Start[f] \in Nat /\ End[f] \in Nat
  BY FieldsFit DEF HintTypes
<1>3. hints \in Structures
  BY DEF HintTypes
<1> HIDE DEF r
<1>4. copy \in Structures /\ copy.flags = r.content.flags
  BY <1>1, <1>3 DEF Copied, Structures
<1>5. ASSUME NEW f \in Field, End[f] <= r.length PROVE copy.field[f] = r.content.field[f]
  BY <1>1, <1>2, <1>5 DEF Copied
<1> QED
  BY <1>4, <1>5 DEF r

\* What decoding yields, flag by flag.
LEMMA DecodedFields ==
    ASSUME HintTypes, reply # <<>>, Accepts(reply[1])
    PROVE  LET r == reply[1]
               d == Decode(r)
           IN  /\ d \in Structures
               /\ \A g \in Flag :
                     /\ g \in d.flags <=> /\ g \in r.content.flags
                                          /\ \/ g \notin {"base_size", "p_win_gravity"}
                                             \/ r.length = 18
                     /\ g \in d.flags /\ g # "x_urgency" =>
                           \/ /\ End[FieldOf[g]] <= r.length
                              /\ d.field[FieldOf[g]] = r.content.field[FieldOf[g]]
                           \/ /\ g = "window_group" /\ r.length = 8 /\ d.field[FieldOf[g]] = Zero
                              /\ End[FieldOf[g]] > r.length
<1> DEFINE r == reply[1]
           d == Decode(r)
           copy == Copied(hints, r)
<1>1. /\ r \in Replies /\ r.type = "hints" /\ r.length \in Nat
      /\ kind = "size" => r.length \in 15 .. 18
      /\ kind = "wm" => r.length \in 8 .. 9
  BY AcceptedIsReply DEF Replies, Properties
<1>2. /\ copy \in Structures /\ copy.flags = r.content.flags
      /\ \A f \in Field : End[f] <= r.length => copy.field[f] = r.content.field[f]
  BY CopiedFields
<1>3. kind \in {"size", "wm"}
  BY DEF HintTypes
<1>4. /\ \A g \in Flag \ {"x_urgency"} : FieldOf[g] \in Field
      /\ \A g \in Flag : FieldOf[g] \in {"base_size", "win_gravity"}
                         <=> g \in {"base_size", "p_win_gravity"}
      /\ \A g \in Flag : FieldOf[g] = "window_group" <=> g = "window_group"
  BY <1>3, FlagsTell
<1>5. /\ \A f \in Field : End[f] \in Nat /\ End[f] <= Words
      /\ kind = "size" => \A f \in Field \ {"base_size", "win_gravity"} : End[f] <= 15
      /\ kind = "wm" => \A f \in Field \ {"window_group"} : End[f] <= 8
  BY <1>3, FieldsFit
<1> HIDE DEF r, copy
<1>6. CASE kind = "size" /\ r.length = 18
  <2>1. d = [copy EXCEPT !.flags = @ \cap DOMAIN SizeFlag] /\ Flag = DOMAIN SizeFlag
    BY <1>6 DEF Decode, xcb_get_wm_size_hints_from_reply, copy, Flag
  <2>2. d \in Structures /\ d.flags = copy.flags \cap Flag /\ d.field = copy.field
    BY <2>1, <1>2 DEF Structures
  <2>3. \A f \in Field : End[f] <= r.length
    BY <1>5, <1>6 DEF Words
  <2> QED
    BY <1>2, <1>4, <1>6, <2>2, <2>3 DEF r
<1>7. CASE kind = "size" /\ r.length # 18
  <2>1. /\ d = [flags |-> (copy.flags \cap DOMAIN SizeFlag) \ {"base_size", "p_win_gravity"},
                field |-> [f \in Field |-> IF f \in {"base_size", "win_gravity"} THEN Zero
                                           ELSE copy.field[f]]]
        /\ Flag = DOMAIN SizeFlag
    BY <1>1, <1>7 DEF Decode, xcb_get_wm_size_hints_from_reply, copy, Flag
  <2>2. d \in Structures
    BY <2>1, <1>2 DEF Structures
  <2>3. \A f \in Field \ {"base_size", "win_gravity"} :
           End[f] <= r.length /\ d.field[f] = r.content.field[f]
    BY <1>1, <1>2, <1>5, <1>7, <2>1
  <2>4. d.flags = (r.content.flags \cap Flag) \ {"base_size", "p_win_gravity"}
    BY <2>1, <1>2
  <2> QED
    BY <1>4, <1>7, <2>2, <2>3, <2>4, Names DEF r, Flag
<1>8. CASE kind = "wm" /\ r.length = 9
  <2>1. d = copy
    BY <1>8 DEF Decode, xcb_get_wm_hints_from_reply, copy
  <2>2. \A f \in Field : End[f] <= r.length
    BY <1>5, <1>8 DEF Words
  <2>3. {"base_size", "p_win_gravity"} \cap Flag = {}
    BY <1>8, Names DEF Flag
  <2> QED
    BY <1>2, <1>4, <1>8, <2>1, <2>2, <2>3 DEF r
<1>9. CASE kind = "wm" /\ r.length = 8
  <2>1. d = [copy EXCEPT !.field["window_group"] = Zero]
    BY <1>9 DEF Decode, xcb_get_wm_hints_from_reply, copy
  <2>2. "window_group" \in Field /\ End["window_group"] = 9
    BY <1>9, Names DEF Field, End, Joined, WmEnd
  <2>3. /\ d \in Structures /\ d.flags = copy.flags
        /\ d.field = [copy.field EXCEPT !["window_group"] = Zero]
    BY <2>1, <1>2 DEF Structures
  <2>4. /\ d.field["window_group"] = Zero
        /\ \A f \in Field \ {"window_group"} :
              End[f] <= r.length /\ d.field[f] = r.content.field[f]
    BY <1>2, <1>5, <1>9, <2>2, <2>3 DEF Structures
  <2>5. {"base_size", "p_win_gravity"} \cap Flag = {}
    BY <1>9, Names DEF Flag
  <2> QED
    BY <1>2, <1>4, <1>9, <2>2, <2>3, <2>4, <2>5 DEF r
<1> QED
  BY <1>1, <1>3, <1>6, <1>7, <1>8, <1>9

-----------------------------------------------------------------------------
(* The steps.                                                               *)

\* The invariant holds initially.
LEMMA HintsStart ==
    ASSUME BoundAssumption, WindowInit
    PROVE  HintTypes /\ Backed
<1>1. kind \in {"size", "wm"} /\ Empty \in Structures
  BY DEF WindowInit, Init, Empty, Structures
<1>2. /\ count \in [sets : 0 .. MaxSets, changes : 0 .. MaxChanges, asks : 0 .. MaxAsks]
      /\ notices \in 0 .. count.changes
  BY DEF WindowInit, Init, BoundAssumption
<1>3. outside = FALSE /\ asked = FALSE /\ window = TRUE
  BY DEF WindowInit, Init
<1>4. HintTypes
  BY <1>1, <1>2, <1>3 DEF WindowInit, Init, HintTypes
<1>5. Backed
  BY <1>3 DEF WindowInit, Init, Backed
<1> QED
  BY <1>4, <1>5

\* Every step with hints keeps it.
LEMMA HintsStep ==
    ASSUME BoundAssumption, FormatsAreTold, HintTypes, Backed, Next
    PROVE  HintTypes' /\ Backed'
<1> USE DEF BoundAssumption
<1>1. CASE Set
  <2>1. /\ kind' = kind /\ UNCHANGED <<property, window, asked, reply, notices, hints, outside>>
        /\ count' = [count EXCEPT !.sets = @ + 1] /\ count.sets < MaxSets
    BY <1>1 DEF Set
  <2>2. draft' \in Structures
    BY <1>1, SetTypes DEF Set, HintTypes
  <2>3. /\ count' \in [sets : 0 .. MaxSets, changes : 0 .. MaxChanges, asks : 0 .. MaxAsks]
        /\ count'.changes = count.changes
    BY <2>1 DEF HintTypes
  <2>4. HintTypes'
    BY <2>1, <2>2, <2>3, SameKind DEF HintTypes
  <2>5. Backed'
    BY <1>1, SameKind DEF Set, Backed, Bytes
  <2> QED
    BY <2>4, <2>5
<1>2. ASSUME NEW written \in Properties, Change(written)
      PROVE  HintTypes' /\ Backed'
  <2>1. /\ kind' = kind /\ UNCHANGED <<draft, window, asked, reply, hints, outside>>
        /\ count' = [count EXCEPT !.changes = @ + 1] /\ count.changes < MaxChanges
        /\ property' = <<written>> /\ notices' \in {notices + 1, 0}
    BY <1>2 DEF Change
  <2>2. /\ count' \in [sets : 0 .. MaxSets, changes : 0 .. MaxChanges, asks : 0 .. MaxAsks]
        /\ count'.changes = count.changes + 1
    BY <2>1 DEF HintTypes
  <2>3. notices' \in 0 .. count'.changes
    BY <2>1, <2>2 DEF HintTypes
  <2>4. HintTypes'
    BY <2>1, <2>2, <2>3, SameKind DEF HintTypes
  <2>5. Backed'
    BY <1>2, SameKind DEF Change, Backed, Bytes
  <2> QED
    BY <2>4, <2>5
<1>3. CASE Publish
  <2>1. [type |-> "hints", format |-> 32, length |-> Words, content |-> draft] \in Properties
    BY DEF HintTypes, Properties, Words
  <2> QED
    BY <1>2, <1>3, <2>1 DEF Publish
<1>4. CASE Disturb
  <2>1. [flags |-> Flag \cup {"unknown"}, field |-> [f \in Field |-> Foreign]] \in Structures
    BY DEF Structures
  <2>2. ForeignLength[kind] \subseteq Nat
    BY DEF HintTypes
  <2> QED
    BY <1>2, <1>4, <2>1, <2>2 DEF Disturb, Properties, FormatsAreTold
<1>5. CASE Destroy
  <2>1. kind' = kind /\ window' = FALSE
    BY <1>5 DEF Destroy
  <2>2. HintTypes'
    BY <1>5, <2>1, SameKind DEF Destroy, HintTypes
  <2>3. Backed'
    BY <1>5, SameKind DEF Destroy, Backed, Bytes
  <2> QED
    BY <2>2, <2>3
<1>6. CASE Ask
  <2>1. /\ kind' = kind /\ UNCHANGED <<draft, window, property, reply, hints, notices, outside>>
        /\ count' = [count EXCEPT !.asks = @ + 1] /\ count.asks < MaxAsks
    BY <1>6 DEF Ask
  <2>2. /\ count' \in [sets : 0 .. MaxSets, changes : 0 .. MaxChanges, asks : 0 .. MaxAsks]
        /\ count'.changes = count.changes
    BY <2>1 DEF HintTypes
  <2>3. asked' \in BOOLEAN /\ (asked' => reply' = <<>>)
    BY <1>6 DEF Ask, Idle
  <2>4. HintTypes'
    BY <2>1, <2>2, <2>3, SameKind DEF HintTypes
  <2>5. Backed'
    BY <1>6, SameKind DEF Ask, Backed, Bytes
  <2> QED
    BY <2>4, <2>5
<1>7. CASE Notice
  <2>1. /\ kind' = kind /\ UNCHANGED <<draft, window, property, reply, hints, count, outside>>
        /\ notices > 0 /\ notices' = notices - 1
    BY <1>7 DEF Notice
  <2>2. asked' \in BOOLEAN /\ (asked' => reply' = <<>>)
    BY <1>7 DEF Notice, Idle
  <2>3. count.changes \in Nat /\ notices' \in 0 .. count.changes
    BY <2>1 DEF HintTypes
  <2>4. HintTypes'
    BY <2>1, <2>2, <2>3, SameKind DEF HintTypes
  <2>5. Backed'
    BY <1>7, SameKind DEF Notice, Backed, Bytes
  <2> QED
    BY <2>4, <2>5
<1>8. CASE Serve
  <2>1. kind' = kind /\ UNCHANGED <<draft, window, property, hints, count, notices, outside>>
    BY <1>8 DEF Serve
  <2>2. \E r \in Replies \cup Refusals : reply' = <<r>>
    <3>1. CASE ~window \/ property = <<>>
      BY <1>8, <3>1 DEF Serve, Refusals
    <3>2. CASE window /\ property # <<>>
      <4>1. PICK p \in Properties : property = <<p>>
        BY <3>2 DEF HintTypes
      <4>2. Served(p) \in Replies
        BY ServedTypes DEF HintTypes
      <4>3. reply' = <<Served(p)>>
        BY <1>8, <3>2, <4>1 DEF Serve
      <4> QED
        BY <4>2, <4>3
    <3> QED
      BY <3>1, <3>2
  <2>3. ~asked' /\ asked' \in BOOLEAN
    BY <1>8 DEF Serve
  <2>4. HintTypes'
    BY <2>1, <2>2, <2>3, SameKind DEF HintTypes, Refusals
  <2>5. Backed'
    BY <1>8, SameKind DEF Serve, Backed, Bytes
  <2> QED
    BY <2>4, <2>5
<1>9. CASE Receive
  <2>1. /\ kind' = kind /\ UNCHANGED <<draft, window, property, asked, count, notices>>
        /\ reply # <<>> /\ reply' = <<>>
    BY <1>9 DEF Receive
  <2>2. CASE ~Accepts(reply[1])
    <3>1. UNCHANGED <<hints, last, outside>>
      BY <1>9, <2>2 DEF Receive
    <3>2. HintTypes'
      BY <2>1, <3>1, SameKind DEF HintTypes
    <3>3. Backed'
      BY <2>1, <3>1, SameKind DEF Backed, Bytes
    <3> QED
      BY <3>2, <3>3
  <2>3. CASE Accepts(reply[1])
    <3>1. /\ hints' = Decode(reply[1]) /\ last' = reply
          /\ outside' = (Bytes(reply[1]) > 4 * Words)
      BY <1>9, <2>3, Zenon DEF Receive
    <3>2. /\ reply[1].length \in Nat /\ Bytes(reply[1]) = 4 * reply[1].length
          /\ reply[1].length <= Words
      BY <2>1, <2>3, AcceptedIsReply DEF Replies, Properties, HintTypes
    <3>3. ~outside' /\ outside' \in BOOLEAN
      <4> DEFINE past == Bytes(reply[1]) > 4 * Words
      <4>1. past = FALSE
        BY <3>2 DEF Words
      <4>2. outside' = past
        BY <3>1, Zenon
      <4> HIDE DEF past
      <4> QED
        BY <4>1, <4>2, Zenon
    <3>4. hints' \in Structures
      BY <2>1, <2>3, <3>1, DecodedFields
    <3>5. HintTypes'
      BY <2>1, <3>3, <3>4, SameKind DEF HintTypes
    <3>6. ASSUME NEW g \in (hints'.flags \cap Flag) \ {"x_urgency"}
          PROVE  \/ 4 * End[FieldOf[g]] <= Bytes(reply[1])
                 \/ g = "window_group" /\ hints'.field.window_group = Zero
      <4>1. \/ End[FieldOf[g]] <= reply[1].length
            \/ g = "window_group" /\ hints'.field[FieldOf[g]] = Zero
        BY <2>1, <2>3, <3>1, <3>6, DecodedFields
      <4>2. FieldOf["window_group"] = "window_group"
        BY Names DEF FieldOf, Joined, WmFlag
      <4>3. End[FieldOf[g]] \in Nat
        BY FlagsTell DEF HintTypes
      <4> QED
        BY <3>2, <4>1, <4>2, <4>3
    <3>7. Backed'
      BY <2>1, <3>1, <3>3, <3>6, SameKind DEF Backed, Bytes
    <3> QED
      BY <3>5, <3>7
  <2> QED
    BY <2>2, <2>3
<1> QED
  BY <1>1, <1>3, <1>4, <1>5, <1>6, <1>7, <1>8, <1>9 DEF Next

\* Every step keeps it, those with other properties, too.
LEMMA WindowStep ==
    ASSUME BoundAssumption, HintTypes, Backed, FormatsAreTold,
           [WindowNext]_<<hinting, vars, p_vars>>
    PROVE  HintTypes' /\ Backed' /\ FormatsAreTold'
<1>1. CASE Next
  <2>1. kind' = kind
    BY <1>1 DEF Next, Set, Publish, Disturb, Change, Destroy, Ask, Notice, Serve, Receive
  <2> QED
    BY <1>1, <2>1, HintsStep DEF FormatsAreTold
<1>2. CASE UNCHANGED vars
  <2>1. kind' = kind
    BY <1>2 DEF vars
  <2>2. HintTypes' /\ Backed'
    BY <1>2, <2>1, SameKind DEF vars, HintTypes, Backed, Bytes, Refusals
  <2> QED
    BY <2>1, <2>2 DEF FormatsAreTold
<1> QED
  BY <1>1, <1>2 DEF WindowNext

\* The property the runs check follows.
LEMMA HintsBacked ==
    ASSUME BoundAssumption, HintTypes, Backed
    PROVE  FlagsAreBacked
<1>1. notices \in 0 .. MaxChanges
  BY DEF HintTypes, BoundAssumption
<1>2. TypeOK
  BY <1>1 DEF HintTypes, Backed, TypeOK, Structures
<1> QED
  BY <1>2 DEF Backed, FlagsAreBacked

\* A field that is flagged in the decoded hints stood in the property in full,
\* and no structure is written past its end: for WM_HINTS whatever others leave
\* there, for WM_NORMAL_HINTS when they keep to 32 bits (icccm.c:446-464,
\* 636-640).
THEOREM FlaggedFieldsWereSent == WindowSpec /\ FormatsAreTold => []FlagsAreBacked
<1> USE BoundAssumption
<1>1. WindowInit => HintTypes /\ Backed
  BY HintsStart
<1>2. HintTypes /\ Backed /\ FormatsAreTold /\ [WindowNext]_<<hinting, vars, p_vars>>
      => HintTypes' /\ Backed' /\ FormatsAreTold'
  BY WindowStep
<1>3. HintTypes /\ Backed => FlagsAreBacked
  BY HintsBacked
<1> QED
  BY <1>1, <1>2, <1>3, PTL DEF WindowSpec

-----------------------------------------------------------------------------
(* The hints arrive: every step is one of HintBoard or changes nothing there. *)

\* A value of a hint as HintBoard has it.
LEMMA RivalsAre ==
    ASSUME NEW g \in Hint
    PROVE  Rivals[g] = CASE g = "us_position" -> {"p_position"}
                         [] g = "p_position"  -> {"us_position"}
                         [] g = "us_size"     -> {"p_size"}
                         [] g = "p_size"      -> {"us_size"}
                         [] OTHER             -> {}
<1>1. Rivals[g] = {f \in Hint \ {g} : FieldOf[f] = FieldOf[g]}
  BY DEF Rivals
<1> QED
  BY <1>1, Names DEF FieldOf, Joined, SizeFlag, WmFlag

\* Filling a field gives its hint and takes back the hint's rivals.
LEMMA FillGives ==
    ASSUME kind \in {"size", "wm"}, draft \in Structures,
           NEW v \in Value, NEW flag \in Flag \ {"x_urgency"}, NEW clears,
           clears \ {flag} = Rivals[flag],
           draft' = Fill(draft, FieldOf[flag], v, clears, flag)
    PROVE  View(draft') = [g \in Hint |-> IF g = flag THEN v
                                          ELSE IF g \in Rivals[flag] THEN Unset
                                          ELSE View(draft)[g]]
<1> DEFINE h == draft
           d == draft'
           f == FieldOf[flag]
<1>1. /\ d.flags = (h.flags \ clears) \cup {flag}
      /\ d.field = [h.field EXCEPT ![f] = v]
  BY DEF Fill
<1>2. f \in Field /\ flag \in Hint /\ Flag \subseteq Hint /\ "unknown" \notin Hint
  BY FlagsTell
<1>3. h.flags \subseteq Flag \cup {"unknown"} /\ h.field \in [Field -> Value \cup {Zero, Foreign, Torn}]
  BY DEF Structures
<1>4. \A g \in Hint : g \in Rivals[flag] <=> g # flag /\ FieldOf[g] = f
  BY <1>2 DEF Rivals
<1> SUFFICES ASSUME NEW g \in Hint
             PROVE  View(d)[g] = IF g = flag THEN v
                                 ELSE IF g \in Rivals[flag] THEN Unset ELSE View(h)[g]
  BY DEF View
<1>5. /\ View(d)[g] = IF g \notin d.flags THEN Unset
                      ELSE IF g = "x_urgency" THEN "on" ELSE d.field[FieldOf[g]]
      /\ View(h)[g] = IF g \notin h.flags THEN Unset
                      ELSE IF g = "x_urgency" THEN "on" ELSE h.field[FieldOf[g]]
  BY DEF View
<1> HIDE DEF h, d, f
<1>6. CASE g = flag
  <2>1. d.field[f] = v
    BY <1>1, <1>2, <1>3
  <2> QED
    BY <1>1, <1>5, <1>6, <2>1 DEF f
<1>7. CASE g # flag /\ g \in Rivals[flag]
  BY <1>1, <1>5, <1>7
<1>8. CASE g # flag /\ g \notin Rivals[flag]
  <2>1. g \in d.flags <=> g \in h.flags
    BY <1>1, <1>8
  <2>2. g \in h.flags /\ g # "x_urgency" => d.field[FieldOf[g]] = h.field[FieldOf[g]]
    <3>1. FieldOf[g] # f
      BY <1>4, <1>8
    <3> QED
      BY <3>1, <1>1, <1>2, <1>3
  <2> QED
    BY <2>1, <2>2, <1>5, <1>8
<1> QED
  BY <1>6, <1>7, <1>8

\* A setter gives one hint, or takes one back.
LEMMA SetGives ==
    ASSUME HintTypes, Set
    PROVE  \/ \E h \in Hint, v \in Value \cup {"on"} :
                 View(draft') = [g \in Hint |-> IF g = h THEN v
                                                ELSE IF g \in Rivals[h] THEN Unset
                                                ELSE View(draft)[g]]
           \/ \E h \in Hint : View(draft') = [View(draft) EXCEPT ![h] = Unset]
<1> DEFINE Gives(h, v) == View(draft') = [g \in Hint |-> IF g = h THEN v
                                                         ELSE IF g \in Rivals[h] THEN Unset
                                                         ELSE View(draft)[g]]
<1>1. kind \in {"size", "wm"} /\ draft \in Structures
  BY DEF HintTypes
<1>2. PICK v \in Value :
         draft' \in IF kind = "size" THEN SizeSetters(draft, v) ELSE WmSetters(draft, v)
  BY DEF Set
<1>3. Flag \subseteq Hint
  BY <1>1, FlagsTell
<1>4. ASSUME NEW flag \in Flag \ {"x_urgency"}, NEW clears, clears \ {flag} = Rivals[flag],
             draft' = Fill(draft, FieldOf[flag], v, clears, flag)
      PROVE  \E h \in Hint : Gives(h, v)
  <2>1. Gives(flag, v)
    BY <1>1, <1>4, FillGives
  <2> HIDE DEF Gives
  <2> QED
    BY <1>3, <2>1
<1>5. CASE kind = "size"
  <2>1. /\ Flag = DOMAIN SizeFlag
        /\ \A g \in Flag : FieldOf[g] = SizeFlag[g]
    BY <1>5, Names DEF Flag, FieldOf, Joined
  <2>2. PICK flag \in Flag \ {"x_urgency"}, clears \in SUBSET Flag :
           clears \ {flag} = Rivals[flag] /\ draft' = Fill(draft, FieldOf[flag], v, clears, flag)
    <3>1. \/ draft' \in {xcb_size_hints_set_position(draft, user, v) : user \in BOOLEAN}
          \/ draft' \in {xcb_size_hints_set_size(draft, user, v) : user \in BOOLEAN}
          \/ draft' \in {xcb_size_hints_set_min_size(draft, v), xcb_size_hints_set_max_size(draft, v),
                   xcb_size_hints_set_resize_inc(draft, v), xcb_size_hints_set_aspect(draft, v),
                   xcb_size_hints_set_base_size(draft, v), xcb_size_hints_set_win_gravity(draft, v)}
      BY <1>2, <1>5 DEF SizeSetters
    <3>2. \A flag \in Flag, clears \in SUBSET Flag :
             clears \ {flag} = Rivals[flag] /\ draft' = Fill(draft, SizeFlag[flag], v, clears, flag)
             => \E g \in Flag \ {"x_urgency"}, c \in SUBSET Flag :
                   c \ {g} = Rivals[g] /\ draft' = Fill(draft, FieldOf[g], v, c, g)
      BY <2>1, Names
    <3>3. Flag \subseteq Hint
      BY <1>3
    <3>4. CASE draft' \in {xcb_size_hints_set_position(draft, user, v) : user \in BOOLEAN}
      <4>1. \E flag \in {"us_position", "p_position"} :
               draft' = Fill(draft, "position", v, {"us_position", "p_position"}, flag)
        BY <3>4 DEF xcb_size_hints_set_position
      <4>2. \A flag \in {"us_position", "p_position"} :
               /\ {"us_position", "p_position"} \ {flag} = Rivals[flag]
               /\ SizeFlag[flag] = "position"
        BY RivalsAre, Names DEF SizeFlag
      <4> QED
        BY <3>2, <4>1, <4>2, <2>1, Names
    <3>5. CASE draft' \in {xcb_size_hints_set_size(draft, user, v) : user \in BOOLEAN}
      <4>1. \E flag \in {"us_size", "p_size"} :
               draft' = Fill(draft, "size", v, {"us_size", "p_size"}, flag)
        BY <3>5 DEF xcb_size_hints_set_size
      <4>2. \A flag \in {"us_size", "p_size"} :
               {"us_size", "p_size"} \ {flag} = Rivals[flag] /\ SizeFlag[flag] = "size"
        BY RivalsAre, Names DEF SizeFlag
      <4> QED
        BY <3>2, <4>1, <4>2, <2>1, Names
    <3>6. CASE draft' \in {xcb_size_hints_set_min_size(draft, v), xcb_size_hints_set_max_size(draft, v),
                   xcb_size_hints_set_resize_inc(draft, v), xcb_size_hints_set_aspect(draft, v),
                   xcb_size_hints_set_base_size(draft, v), xcb_size_hints_set_win_gravity(draft, v)}
      <4>1. \E flag \in {"p_min_size", "p_max_size", "p_resize_inc", "p_aspect", "base_size",
                         "p_win_gravity"} : draft' = Fill(draft, SizeFlag[flag], v, {}, flag)
        BY <3>6 DEF xcb_size_hints_set_min_size, xcb_size_hints_set_max_size,
           xcb_size_hints_set_resize_inc, xcb_size_hints_set_aspect,
           xcb_size_hints_set_base_size, xcb_size_hints_set_win_gravity, SizeFlag
      <4>2. \A flag \in {"p_min_size", "p_max_size", "p_resize_inc", "p_aspect", "base_size",
                         "p_win_gravity"} : {} \ {flag} = Rivals[flag]
        BY RivalsAre, Names
      <4> QED
        BY <3>2, <4>1, <4>2, <2>1, Names
    <3> QED
      BY <3>1, <3>4, <3>5, <3>6
  <2> QED
    BY <1>4, <2>2
<1>6. CASE kind = "wm"
  <2>1. /\ Flag = DOMAIN WmFlag
        /\ \A g \in Flag : FieldOf[g] = WmFlag[g]
    BY <1>6, Names DEF Flag, FieldOf, Joined
  <2> DEFINE fills == {"input", "state", "icon_pixmap", "icon_mask", "icon_window", "window_group"}
  <2>2. \/ \E flag \in fills : draft' = Fill(draft, WmFlag[flag], v, {}, flag)
        \/ draft' = xcb_wm_hints_set_none(draft)
        \/ draft' = xcb_wm_hints_set_urgency(draft)
    BY <1>2, <1>6 DEF WmSetters, WmFlag, xcb_wm_hints_set_input, xcb_wm_hints_set_state,
       xcb_wm_hints_set_icon_pixmap, xcb_wm_hints_set_icon_mask,
       xcb_wm_hints_set_icon_window, xcb_wm_hints_set_window_group
  <2>3. CASE \E flag \in fills : draft' = Fill(draft, WmFlag[flag], v, {}, flag)
    <3>1. PICK flag \in fills : draft' = Fill(draft, WmFlag[flag], v, {}, flag)
      BY <2>3
    <3>2. flag \in Flag \ {"x_urgency"} /\ {} \ {flag} = Rivals[flag]
      BY <2>1, <1>3, RivalsAre, Names
    <3> QED
      BY <1>4, <2>1, <3>1, <3>2
  <2>4. CASE draft' = xcb_wm_hints_set_none(draft)
    <3>1. draft' = [draft EXCEPT !.flags = @ \ {"state"}]
      BY <2>4 DEF xcb_wm_hints_set_none
    <3>2. draft'.flags = draft.flags \ {"state"} /\ draft'.field = draft.field
      BY <1>1, <3>1 DEF Structures
    <3>3. "state" \in Hint
      BY Names
    <3>4. View(draft') = [View(draft) EXCEPT !["state"] = Unset]
      BY <3>2, <3>3 DEF View
    <3> QED
      BY <3>3, <3>4
  <2>5. CASE draft' = xcb_wm_hints_set_urgency(draft)
    <3>1. draft' = [draft EXCEPT !.flags = @ \cup {"x_urgency"}]
      BY <2>5 DEF xcb_wm_hints_set_urgency
    <3>2. draft'.flags = draft.flags \cup {"x_urgency"} /\ draft'.field = draft.field
      BY <1>1, <3>1 DEF Structures
    <3>3. "x_urgency" \in Hint
      BY Names
    <3>4. Rivals["x_urgency"] = {}
      BY <3>3, RivalsAre
    <3>5. Gives("x_urgency", "on")
      BY <3>2, <3>3, <3>4 DEF View
    <3>6. \E h \in Hint : Gives(h, "on")
      <4> HIDE DEF Gives
      <4> QED
        BY <3>3, <3>5
    <3> QED
      BY <3>6
  <2> QED
    BY <2>2, <2>3, <2>4, <2>5
<1> QED
  BY <1>1, <1>5, <1>6

\* Whoever publishes the structure posts the hints in it.
LEMMA WholeIsRead ==
    ASSUME HintTypes
    PROVE  Reading([type |-> "hints", format |-> 32, length |-> Words, content |-> draft])
           = View(draft)
<1> DEFINE r == [type |-> "hints", format |-> 32, length |-> Words, content |-> draft]
<1>1. kind \in {"size", "wm"} /\ draft \in Structures
  BY DEF HintTypes
<1>2. /\ r.type = "hints" /\ r.format = 32 /\ r.length = Words /\ r.content = draft
      /\ Words = IF kind = "size" THEN 18 ELSE 9
  BY DEF Words
<1> HIDE DEF r
<1>3. ASSUME NEW g \in Hint, g # "x_urgency", End[FieldOf[g]] > Words
      PROVE  g # "window_group" /\ View(draft)[g] = Unset
  <2>1. g \notin Flag
    <3> SUFFICES ASSUME g \in Flag PROVE FALSE
      OBVIOUS
    <3>1. End[FieldOf[g]] \in Nat /\ End[FieldOf[g]] <= Words
      BY <1>1, <1>3, FieldsFit, FlagsTell
    <3> QED
      BY <1>2, <1>3, <3>1
  <2>2. g \notin draft.flags
    BY <1>1, <2>1, FlagsTell DEF Structures
  <2>3. g # "window_group"
    BY <1>1, <1>2, <1>3, GroupFits
  <2> QED
    BY <2>2, <2>3 DEF View
<1>4. Reading(r) = [g \in Hint |-> View(draft)[g]]
  BY <1>2, <1>3 DEF Reading
<1>5. View(draft) = [g \in Hint |-> View(draft)[g]]
  BY DEF View
<1> QED
  BY <1>4, <1>5 DEF r

\* What the server sends reads as what stands on the window, or as nothing.
LEMMA ServedIsRead ==
    ASSUME kind \in {"size", "wm"}, NEW p \in Properties
    PROVE  Reading(Served(p)) \in {Reading(p), Unreadable}
<1> DEFINE s == Served(p)
<1>1. /\ s \in Replies /\ s.type = p.type /\ s.content = p.content /\ s.format = p.format
      /\ p.type = "hints" /\ p.format = 32 =>
            s.length = IF p.length <= Words THEN p.length ELSE Words
  BY ServedTypes
<1>2. p.length \in Nat /\ p.content \in Structures /\ Words = IF kind = "size" THEN 18 ELSE 9
  BY DEF Properties, Words
<1> HIDE DEF s
<1>3. CASE p.type # "hints" \/ p.format # 32
  BY <1>1, <1>3 DEF Reading, s
<1>4. CASE p.type = "hints" /\ p.format = 32 /\ p.length <= Words
  BY <1>1, <1>4 DEF Reading, s
<1>5. CASE p.type = "hints" /\ p.format = 32 /\ p.length > Words
  <2>1. s.length = Words
    BY <1>1, <1>2, <1>5
  <2>2. ASSUME NEW g \in Hint, g # "x_urgency", End[FieldOf[g]] > Words
        PROVE  g # "window_group" /\ View(p.content)[g] = Unset
    <3>1. g \notin Flag
      <4> SUFFICES ASSUME g \in Flag PROVE FALSE
        OBVIOUS
      <4>1. End[FieldOf[g]] \in Nat /\ End[FieldOf[g]] <= Words
        BY <2>2, FieldsFit, FlagsTell
      <4> QED
        BY <1>2, <2>2, <4>1
    <3>2. g \notin p.content.flags
      BY <1>2, <3>1, FlagsTell DEF Structures
    <3>3. g # "window_group"
      BY <1>2, <2>2, GroupFits
    <3> QED
      BY <3>2, <3>3 DEF View
  <2>3. \A g \in Hint \ {"x_urgency"} : End[FieldOf[g]] \in Nat
    BY FlagsTell
  <2>4. Reading(s) = [g \in Hint |-> View(p.content)[g]]
    BY <1>1, <1>2, <1>5, <2>1, <2>2 DEF Reading
  <2>5. Reading(p) = [g \in Hint |-> View(p.content)[g]]
    <3>1. ASSUME NEW g \in Hint, g # "x_urgency", End[FieldOf[g]] > p.length
          PROVE  g # "window_group" /\ View(p.content)[g] = Unset
      BY <1>2, <1>5, <2>2, <2>3, <3>1
    <3> QED
      BY <1>2, <1>5, <3>1 DEF Reading
  <2> QED
    BY <2>4, <2>5 DEF s
<1> QED
  BY <1>2, <1>3, <1>4, <1>5

\* What is decoded is what somebody who knows ICCCM reads.
LEMMA DecodedIsRead ==
    ASSUME HintTypes, reply # <<>>, Accepts(reply[1])
    PROVE  Reading(reply[1]) = View(Decode(reply[1]))
<1> DEFINE r == reply[1]
           d == Decode(r)
<1>1. /\ r \in Replies /\ r.type = "hints" /\ r.format = 32 /\ r.length \in Nat
      /\ kind = "size" => r.length \in 15 .. 18
      /\ kind = "wm" => r.length \in 8 .. 9
      /\ r.content.flags \subseteq Flag \cup {"unknown"}
  BY AcceptedIsReply DEF Replies, Properties, Structures
<1>2. /\ d \in Structures
      /\ \A g \in Flag :
            /\ g \in d.flags <=> /\ g \in r.content.flags
                                 /\ \/ g \notin {"base_size", "p_win_gravity"}
                                    \/ r.length = 18
            /\ g \in d.flags /\ g # "x_urgency" =>
                  \/ /\ End[FieldOf[g]] <= r.length
                     /\ d.field[FieldOf[g]] = r.content.field[FieldOf[g]]
                  \/ /\ g = "window_group" /\ r.length = 8 /\ d.field[FieldOf[g]] = Zero
                     /\ End[FieldOf[g]] > r.length
  BY DecodedFields
<1>3. kind \in {"size", "wm"}
  BY DEF HintTypes
<1>4. /\ Flag \subseteq Hint /\ "unknown" \notin Hint
      /\ \A g \in Hint \ {"x_urgency"} : End[FieldOf[g]] \in Nat
  BY <1>3, FlagsTell
<1>5. /\ d.flags \subseteq Flag \cup {"unknown"}
  BY <1>2 DEF Structures
<1> HIDE DEF r, d
<1> DEFINE short(g) == \/ g # "x_urgency" /\ End[FieldOf[g]] > r.length
                       \/ kind = "size" /\ r.length < 18 /\ g \in {"base_size", "p_win_gravity"}
<1>6. Reading(r) = [g \in Hint |->
                      IF short(g) THEN IF g = "window_group" /\ g \in r.content.flags THEN Zero ELSE Unset
                      ELSE View(r.content)[g]]
  BY <1>1, <1>3 DEF Reading
<1>7. ASSUME NEW g \in Hint
      PROVE  View(d)[g] = IF short(g)
                          THEN IF g = "window_group" /\ g \in r.content.flags THEN Zero ELSE Unset
                          ELSE View(r.content)[g]
  <2>1. /\ View(d)[g] = IF g \notin d.flags THEN Unset
                        ELSE IF g = "x_urgency" THEN "on" ELSE d.field[FieldOf[g]]
        /\ View(r.content)[g] = IF g \notin r.content.flags THEN Unset
                        ELSE IF g = "x_urgency" THEN "on" ELSE r.content.field[FieldOf[g]]
    BY DEF View
  <2> DEFINE end == End[FieldOf[g]]
  <2>2. g # "x_urgency" => end \in Nat
    BY <1>4
  <2>3. g \in Flag \ {"x_urgency"} =>
           /\ end <= Words
           /\ kind = "size" /\ g \notin {"base_size", "p_win_gravity"} => end <= 15
           /\ kind = "wm" /\ g # "window_group" => end <= 8
    BY <1>3, FieldsFit, FlagsTell
  <2> HIDE DEF end
  <2>4. CASE g \notin Flag
    <3>1. g \notin d.flags /\ g \notin r.content.flags
      BY <1>1, <1>4, <1>5, <2>4
    <3> QED
      BY <2>1, <3>1
  <2>5. CASE g = "x_urgency"
    BY <1>2, <2>1, <2>4, <2>5
  <2>6. CASE g \in Flag /\ g # "x_urgency" /\ kind = "size"
    <3>1. g # "window_group"
      BY <2>6, Names DEF Flag
    <3>2. short(g) <=> r.length < 18 /\ g \in {"base_size", "p_win_gravity"}
      BY <1>1, <2>2, <2>3, <2>6 DEF end, Words
    <3> QED
      BY <1>1, <1>2, <2>1, <2>6, <3>1, <3>2
  <2>7. CASE g \in Flag /\ g # "x_urgency" /\ kind = "wm"
    <3>1. g \notin {"base_size", "p_win_gravity"}
      BY <2>7, Names DEF Flag
    <3>2. short(g) <=> end > r.length
      BY <2>7 DEF end
    <3>3. end <= r.length \/ (g = "window_group" /\ r.length = 8)
      BY <1>1, <2>2, <2>3, <2>7 DEF Words
    <3>4. CASE end <= r.length
      BY <1>1, <1>2, <2>1, <2>2, <2>7, <3>1, <3>2, <3>4 DEF end
    <3>5. CASE end > r.length
      BY <1>1, <1>2, <2>1, <2>2, <2>7, <3>1, <3>2, <3>3, <3>5 DEF end
    <3> QED
      BY <1>1, <2>2, <2>7, <3>4, <3>5
  <2> QED
    BY <1>3, <2>4, <2>5, <2>6, <2>7
<1>8. View(d) = [g \in Hint |-> View(d)[g]]
  BY DEF View
<1> QED
  BY <1>6, <1>7, <1>8 DEF r, d

\* The hints of a structure are not nothing.
LEMMA ViewIsReadable ==
    ASSUME UnreadableAssumption, kind \in {"size", "wm"}, NEW d \in Structures
    PROVE  View(d) # Unreadable
<1>1. ASSUME NEW g \in Hint PROVE View(d)[g] \in Value \cup {Unset, "on", Zero, Foreign, Torn}
  <2>1. View(d)[g] = IF g \notin d.flags THEN Unset
                     ELSE IF g = "x_urgency" THEN "on" ELSE d.field[FieldOf[g]]
    BY DEF View
  <2>2. g \in d.flags /\ g # "x_urgency" => FieldOf[g] \in Field
    BY FlagsTell DEF Structures
  <2> QED
    BY <2>1, <2>2 DEF Structures
<1>2. View(d) = [g \in Hint |-> View(d)[g]]
  BY DEF View
<1>3. [g \in Hint |-> View(d)[g]] \in [Hint -> Value \cup {Unset, "on", Zero, Foreign, Torn}]
  BY <1>1
<1> QED
  BY <1>2, <1>3 DEF UnreadableAssumption

\* What others post is nothing readable, or hints.
LEMMA DisturbanceIsRead ==
    ASSUME kind \in {"size", "wm"},
           NEW n \in Nat, NEW width, NEW type
    PROVE  LET r == [type |-> type, format |-> width, length |-> n,
                     content |-> [flags |-> Flag \cup {"unknown"},
                                  field |-> [f \in Field |-> Foreign]]]
           IN  Reading(r) = Unreadable \/ Reading(r) \in Board!Hints
<1> DEFINE c == [flags |-> Flag \cup {"unknown"}, field |-> [f \in Field |-> Foreign]]
           r == [type |-> type, format |-> width, length |-> n, content |-> c]
<1>1. ASSUME NEW g \in Hint PROVE View(c)[g] \in {Unset, "on", Foreign}
  <2>1. View(c)[g] = IF g \notin c.flags THEN Unset
                     ELSE IF g = "x_urgency" THEN "on" ELSE c.field[FieldOf[g]]
    BY DEF View
  <2>2. g \in c.flags /\ g # "x_urgency" => FieldOf[g] \in Field
    BY FlagsTell
  <2> QED
    BY <2>1, <2>2
<1> DEFINE short(g) == \/ g # "x_urgency" /\ End[FieldOf[g]] > n
                       \/ kind = "size" /\ n < 18 /\ g \in {"base_size", "p_win_gravity"}
           reads(g) == IF short(g) THEN IF g = "window_group" /\ g \in c.flags THEN Zero ELSE Unset
                       ELSE View(c)[g]
<1>2. r.content = c /\ r.length = n
  OBVIOUS
<1> HIDE DEF c, r
<1>3. Reading(r) = Unreadable \/ Reading(r) = [g \in Hint |-> reads(g)]
  BY <1>2 DEF Reading
<1>4. \A g \in Hint : reads(g) \in Value \cup {"on", Zero, Foreign} \cup {Unset}
  BY <1>1
<1> QED
  BY <1>3, <1>4 DEF Board!Hints, r, c

\* The window is bare and nobody knows any hints in the beginning.
LEMMA HintsInit == WindowInit => Board!Init
<1> SUFFICES ASSUME WindowInit PROVE Board!Init
  OBVIOUS
<1>1. View(Empty) = [g \in Hint |-> Unset]
  BY DEF View, Empty
<1> QED
  BY <1>1 DEF WindowInit, Init, Board!Init

\* Every step is one of the board, or changes nothing on it.
LEMMA HintsNext ==
    ASSUME BoundAssumption, UnreadableAssumption, FormatsAreTold, HintTypes, Backed, Next
    PROVE  [Board!Next]_(Board!vars)
<1> DEFINE posted == IF property = <<>> THEN Unreadable ELSE Reading(property[1])
           seen   == IF reply = <<>> THEN <<>>
                     ELSE IF reply[1] = Null THEN <<Unreadable>> ELSE <<Reading(reply[1])>>
<1>1. kind \in {"size", "wm"} /\ kind' = kind /\ \A r : Reading(r)' = Reading(r)
  BY SameKind DEF Next, Set, Publish, Disturb, Change, Destroy, Ask, Notice, Serve, Receive, HintTypes
<1> HIDE DEF posted, seen
<1>2. CASE Set
  <2>1. UNCHANGED <<property, reply, hints>>
    BY <1>2 DEF Set
  <2>2. posted' = posted /\ seen' = seen /\ View(hints)' = View(hints)
    BY <1>1, <2>1 DEF posted, seen
  <2>3. CASE \E h \in Hint, v \in Value \cup {"on"} :
                View(draft') = [g \in Hint |-> IF g = h THEN v
                                               ELSE IF g \in Rivals[h] THEN Unset
                                               ELSE View(draft)[g]]
    <3>1. \E h \in Hint, v \in Value \cup {"on", Zero, Foreign} : Board!Give(h, v)
      BY <2>2, <2>3 DEF Board!Give, posted, seen
    <3> QED
      BY <3>1 DEF Board!Next
  <2>4. CASE \E h \in Hint : View(draft') = [View(draft) EXCEPT ![h] = Unset]
    <3>1. \E h \in Hint : Board!TakeBack(h)
      BY <2>2, <2>4 DEF Board!TakeBack, posted, seen
    <3> QED
      BY <3>1 DEF Board!Next
  <2> QED
    BY <1>2, <2>3, <2>4, SetGives
<1>3. CASE Publish
  <2> DEFINE written == [type |-> "hints", format |-> 32, length |-> Words, content |-> draft]
  <2>1. /\ UNCHANGED <<draft, reply, hints>> /\ property' = <<written>>
    BY <1>3 DEF Publish, Change
  <2>2. seen' = seen /\ View(hints)' = View(hints) /\ View(draft)' = View(draft)
    BY <1>1, <2>1 DEF seen
  <2>3. posted' = View(draft)
    <3>1. Reading(written) = View(draft)
      BY WholeIsRead
    <3> HIDE DEF written
    <3>2. posted' = Reading(written)
      BY <1>1, <2>1 DEF posted
    <3> QED
      BY <3>1, <3>2
  <2> QED
    BY <2>2, <2>3 DEF Board!Next, Board!Post, posted, seen
<1>4. CASE Disturb
  <2>1. PICK n \in ForeignLength[kind], width \in ForeignFormat, type \in {"hints", "other"} :
           Change([type |-> type, format |-> width, length |-> n,
                   content |-> [flags |-> Flag \cup {"unknown"},
                                field |-> [f \in Field |-> Foreign]]])
    BY <1>4 DEF Disturb
  <2> DEFINE written == [type |-> type, format |-> width, length |-> n,
                         content |-> [flags |-> Flag \cup {"unknown"},
                                      field |-> [f \in Field |-> Foreign]]]
  <2>2. n \in Nat
    BY <1>1 DEF BoundAssumption
  <2>3. Reading(written) = Unreadable \/ Reading(written) \in Board!Hints
    BY <1>1, <2>2, DisturbanceIsRead
  <2> HIDE DEF written
  <2>4. UNCHANGED <<draft, reply, hints>> /\ property' = <<written>>
    BY <2>1 DEF Change, written
  <2>5. seen' = seen /\ View(hints)' = View(hints) /\ View(draft)' = View(draft)
    BY <1>1, <2>4 DEF seen
  <2>6. posted' = Reading(written)
    BY <1>1, <2>4 DEF posted
  <2> QED
    BY <2>3, <2>5, <2>6 DEF Board!Next, Board!Disturb, posted, seen
<1>5. CASE Destroy \/ Ask \/ Notice
  <2>1. UNCHANGED <<draft, property, reply, hints>>
    BY <1>5 DEF Destroy, Ask, Notice
  <2>2. /\ posted' = posted /\ seen' = seen
        /\ View(hints)' = View(hints) /\ View(draft)' = View(draft)
    BY <1>1, <2>1 DEF posted, seen
  <2> QED
    BY <2>2 DEF Board!vars, posted, seen
<1>6. CASE Serve
  <2>1. UNCHANGED <<draft, property, hints>> /\ reply = <<>>
    BY <1>6 DEF Serve, HintTypes
  <2>2. posted' = posted /\ View(hints)' = View(hints) /\ View(draft)' = View(draft)
    BY <1>1, <2>1 DEF posted
  <2>3. seen = <<>> /\ seen' \in {<<posted>>, <<Unreadable>>}
    <3>1. seen = <<>>
      BY <2>1 DEF seen
    <3>2. CASE ~window
      <4>1. reply' = <<Null>>
        BY <1>6, <3>2 DEF Serve
      <4> QED
        BY <3>1, <4>1 DEF seen
    <3>3. CASE window /\ property = <<>>
      <4>1. reply' = <<[type |-> "none", format |-> 0, length |-> 0]>>
        BY <1>6, <3>3 DEF Serve
      <4>2. Reading([type |-> "none", format |-> 0, length |-> 0]) = Unreadable
        BY DEF Reading
      <4> QED
        BY <1>1, <3>1, <4>1, <4>2 DEF seen
    <3>4. CASE window /\ property # <<>>
      <4>1. PICK p \in Properties : property = <<p>>
        BY <3>4 DEF HintTypes
      <4>2. reply' = <<Served(p)>> /\ posted = Reading(p)
        BY <1>6, <3>4, <4>1 DEF Serve, posted
      <4>3. Reading(Served(p)) \in {posted, Unreadable}
        BY <1>1, <4>2, ServedIsRead
      <4> QED
        BY <1>1, <3>1, <4>2, <4>3 DEF seen
    <3> QED
      BY <3>2, <3>3, <3>4
  <2> QED
    BY <2>2, <2>3 DEF Board!Next, Board!Answer, posted, seen
<1>7. CASE Receive
  <2>1. /\ UNCHANGED <<draft, property>> /\ reply' = <<>>
        /\ reply # <<>> /\ \E r \in Replies \cup Refusals : reply = <<r>>
    BY <1>7 DEF Receive, HintTypes
  <2>2. posted' = posted /\ View(draft)' = View(draft) /\ seen' = <<>> /\ seen # <<>>
    BY <1>1, <2>1 DEF posted, seen
  <2>3. View(hints)' = IF seen[1] = Unreadable THEN View(hints) ELSE seen[1]
    <3>1. CASE Accepts(reply[1])
      <4>1. hints' = Decode(reply[1]) /\ reply[1] # Null
        BY <1>7, <3>1 DEF Receive, Accepts
      <4>2. seen[1] = Reading(reply[1]) /\ Reading(reply[1]) = View(Decode(reply[1]))
        BY <2>1, <3>1, <4>1, DecodedIsRead DEF seen
      <4>3. View(Decode(reply[1])) # Unreadable
        BY <1>1, <2>1, <3>1, DecodedFields, ViewIsReadable
      <4> QED
        BY <4>1, <4>2, <4>3
    <3>2. CASE ~Accepts(reply[1])
      <4>1. View(hints)' = View(hints)
        BY <1>7, <3>2 DEF Receive
      <4>2. seen[1] = Unreadable
        <5>1. CASE reply[1] = Null
          BY <2>1, <5>1 DEF seen
        <5>2. CASE reply[1] # Null
          <6>1. seen[1] = Reading(reply[1])
            BY <2>1, <5>2 DEF seen
          <6>2. Reading(reply[1]) = Unreadable
            <7>1. PICK r \in Replies \cup Refusals : reply[1] = r
              BY <2>1
            <7>2. CASE r \in Refusals
              BY <5>2, <7>1, <7>2 DEF Refusals, Reading
            <7>3. CASE r \in Replies
              <8>1. r.format \in {8, 16, 32} /\ r.length \in Nat
                BY <1>1, <7>3 DEF Replies, Properties
              <8>2. IF kind = "size" THEN ~SizeAccepts(r) ELSE ~WmAccepts(r)
                BY <3>2, <5>2, <7>1 DEF Accepts
              <8>3. r.type # "hints" \/ r.format # 32 \/ r.length < (IF kind = "size" THEN 15 ELSE 8)
                BY <8>1, <8>2 DEF SizeAccepts, WmAccepts
              <8> QED
                BY <7>1, <8>3 DEF Reading
            <7> QED
              BY <7>1, <7>2, <7>3
          <6> QED
            BY <6>1, <6>2
        <5> QED
          BY <5>1, <5>2
      <4> QED
        BY <4>1, <4>2
    <3> QED
      BY <3>1, <3>2
  <2> QED
    BY <2>2, <2>3 DEF Board!Next, Board!Learn, posted, seen
<1> QED
  BY <1>2, <1>3, <1>4, <1>5, <1>6, <1>7 DEF Next

\* What the window manager learns is what stood on the window as a whole, and
\* what the client posts there is what it last set: the structures, the wire
\* and the decoders implement HintBoard, under the same condition (icccm.c:316-395,
\* 429-467, 518-590, 622-643).
THEOREM HintsDoArrive == WindowSpec /\ FormatsAreTold => HintsArrive
<1> USE BoundAssumption, UnreadableAssumption
<1>1. WindowInit => HintTypes /\ Backed /\ Board!Init
  BY HintsStart, HintsInit
<1>2. HintTypes /\ Backed /\ FormatsAreTold /\ [WindowNext]_<<hinting, vars, p_vars>>
      => HintTypes' /\ Backed' /\ FormatsAreTold'
  BY WindowStep
<1>3. HintTypes /\ Backed /\ FormatsAreTold /\ [WindowNext]_<<hinting, vars, p_vars>>
      => [Board!Next]_(Board!vars)
  <2> SUFFICES ASSUME HintTypes, Backed, FormatsAreTold, [WindowNext]_<<hinting, vars, p_vars>>
               PROVE  [Board!Next]_(Board!vars)
    OBVIOUS
  <2>1. CASE Next
    BY <2>1, HintsNext
  <2>2. CASE UNCHANGED vars
    <3>1. UNCHANGED <<draft, property, reply, hints>> /\ \A r : Reading(r)' = Reading(r)
      BY <2>2, SameKind DEF vars
    <3> QED
      BY <3>1 DEF Board!vars
  <2> QED
    BY <2>1, <2>2 DEF WindowNext
<1> QED
  BY <1>1, <1>2, <1>3, PTL DEF WindowSpec, HintsArrive, Board!Spec

-----------------------------------------------------------------------------
(* Names, classes, protocols and the window one is transient for.           *)

\* Values as clients write them, and properties and replies that have them.
Data   == {d \in Seq(Element \cup {Nul}) : Len(d) <= MaxLength}
Stored == [type : {"STRING", "ATOM", "WINDOW", "other"}, format : {8, 16, 32}, data : Data]
Sent   == Stored \cup [type : {"none"}, format : {0}, data : Data]

\* Nobody asks while a structure holds a reply, and no two replies are open.
ReplyTypes ==
    /\ p_kind \in {"text", "class", "protocols", "transient"}
    /\ p_window \in BOOLEAN /\ p_asked \in BOOLEAN
    /\ p_property = Nothing \/ p_property \in Stored
    /\ p_reply = <<>> \/ p_reply = <<Nothing>> \/ \E r \in Sent : p_reply = <<r>>
    /\ p_count \in [changes : 0 .. MaxValues, asks : 0 .. MaxAsks]
    /\ held \in 0 .. p_count.asks
    /\ p_asked => p_reply = <<>>
    /\ p_asked \/ p_reply # <<>> => held = 0 /\ p_count.asks > 0
    /\ value \in Data

\* The replies that are allocated.
Owned ==
    heap = (IF held = 0 THEN {} ELSE {held})
           \cup (IF p_reply \in {<<>>, <<Nothing>>} THEN {} ELSE {p_count.asks})

\* What is held is read in full.
Read == Props!NamesAreWhole /\ Props!ClassIsRead /\ Props!ListIsWhole

\* The smaller of two numbers, there.
LEMMA MinOfTwoThere ==
    ASSUME NEW a \in Int, NEW b \in Int
    PROVE  Props!Min({a, b}) = IF a <= b THEN a ELSE b
BY DEF Props!Min

\* A short sequence over some set is a value.
LEMMA SeqOfIsData ==
    ASSUME ValueAssumption, NEW S \in SUBSET (Element \cup {Nul}), NEW n \in Nat, n <= MaxLength
    PROVE  Props!SeqOf(S, n) \subseteq Data
<1> SUFFICES ASSUME NEW d \in Props!SeqOf(S, n) PROVE d \in Data
  OBVIOUS
<1>1. PICK m \in 0 .. n : d \in [1 .. m -> S]
  BY DEF Props!SeqOf
<1>2. d \in Seq(Element \cup {Nul}) /\ Len(d) = m
  BY <1>1
<1> QED
  BY <1>1, <1>2 DEF Data, ValueAssumption

\* Whatever is written is a property of the server.
LEMMA WrittenIsStored ==
    ASSUME ValueAssumption, p_kind \in {"text", "class", "protocols", "transient"}
    PROVE  Props!Written \cup Props!Strange \subseteq Stored
<1>1. /\ Props!SeqOf(Element, MaxLength) \subseteq Data
      /\ Props!SeqOf(Element \cup {Nul}, MaxLength) \subseteq Data
      /\ Props!SeqOf(Element, 1) \subseteq Data
  BY SeqOfIsData DEF ValueAssumption
<1>2. \A x \in Element : <<x>> \in Data
  BY DEF Data, ValueAssumption
<1>3. Props!Strange \subseteq Stored
  BY <1>2 DEF Props!Strange, Props!Property, Stored
<1>4. Props!Written \subseteq Stored
  <2>1. Props!xcb_set_wm_name \subseteq Stored
    BY <1>1 DEF Props!xcb_set_wm_name, Props!Values, Props!Property, Stored
  <2>2. Props!xcb_set_wm_protocols \subseteq Stored
    BY <1>1 DEF Props!xcb_set_wm_protocols, Props!Values, Props!Property, Stored
  <2>3. Props!SetClass \subseteq Stored
    <3> SUFFICES ASSUME NEW p \in Props!SetClass PROVE p \in Stored
      OBVIOUS
    <3>1. PICK d \in Props!SeqOf(Element \cup {Nul}, MaxLength) :
             p = [type |-> "STRING", format |-> 8, data |-> d]
      BY Zenon DEF Props!SetClass, Props!Property
    <3>2. d \in Data
      BY <1>1
    <3> QED
      BY <3>1, <3>2 DEF Stored
  <2>4. Props!SetTransientFor \subseteq Stored
    BY <1>1 DEF Props!SetTransientFor, Props!Property, Stored
  <2> QED
    BY <2>1, <2>2, <2>3, <2>4 DEF Props!Written
<1> QED
  BY <1>3, <1>4

\* The server answers with a reply, at most as long as the property.
LEMMA AnswerIsSent ==
    ASSUME ValueAssumption, ReplyTypes
    PROVE  Props!Answer \in Sent
<1>1. CASE p_property = Nothing
  <2>1. <<>> \in Data
    BY DEF Data, ValueAssumption
  <2> QED
    BY <1>1, <2>1 DEF Props!Answer, Props!Property, Sent
<1>2. CASE p_property # Nothing /\ Props!AskedType \notin {"any", p_property.type}
  <2>1. <<>> \in Data
    BY DEF Data, ValueAssumption
  <2>2. Props!Answer = [p_property EXCEPT !.data = <<>>]
    BY <1>2 DEF Props!Answer
  <2> QED
    BY <1>2, <2>1, <2>2 DEF ReplyTypes, Sent, Stored
<1>3. CASE p_property # Nothing /\ Props!AskedType \in {"any", p_property.type}
  <2> DEFINE d == p_property.data
             n == Props!AskedElements(p_property.format)
  <2>1. p_property \in Stored
    BY <1>3 DEF ReplyTypes
  <2>2. d \in Seq(Element \cup {Nul}) /\ Len(d) \in Nat /\ Len(d) <= MaxLength
    BY <2>1 DEF Stored, Data
  <2>3. n \in Nat
    BY <2>1 DEF Props!AskedElements, Stored, ValueAssumption
  <2>4. Props!Answer = [p_property EXCEPT !.data = SubSeq(d, 1, Props!Min({Len(d), n}))]
    BY <1>3, Zenon DEF Props!Answer
  <2> HIDE DEF d, n
  <2>5. PICK m \in 0 .. Len(d) : Props!Min({Len(d), n}) = m
    BY <2>2, <2>3, MinOfTwoThere
  <2>6. \A i \in 1 .. m : d[i] \in Element \cup {Nul}
    BY <2>2
  <2>7. SubSeq(d, 1, m) \in Seq(Element \cup {Nul}) /\ Len(SubSeq(d, 1, m)) = m
    BY <2>2, <2>6, SubSeqProperties
  <2>8. SubSeq(d, 1, m) \in Data
    BY <2>2, <2>7 DEF Data, ValueAssumption
  <2> QED
    BY <2>1, <2>4, <2>5, <2>8 DEF Stored, Sent
<1> QED
  BY <1>1, <1>2, <1>3

-----------------------------------------------------------------------------
(* Strings.                                                                 *)

\* Where the strings of a value end.
LEMMA NulsAre ==
    ASSUME NEW d \in Seq(Element \cup {Nul}), NEW i \in Nat
    PROVE  /\ Props!NulsFrom(d, i) \subseteq i + 1 .. Len(d)
           /\ \A j \in Props!NulsFrom(d, i) : d[j] = Nul
           /\ \A j \in i + 1 .. Len(d) : d[j] = Nul => j \in Props!NulsFrom(d, i)
BY DEF Props!NulsFrom

\* The first of some numbers.
LEMMA LeastThere ==
    ASSUME NEW S \in SUBSET Nat, S # {}
    PROVE  Props!Min(S) \in S /\ \A j \in S : Props!Min(S) <= j
<1>1. \E x \in S : \A y \in S : x <= y
  <2>1. PICK x \in S : \A y \in S : <<y, x>> \notin OpToRel(<, Nat)
    BY NatLessThanWellFounded, WFMin
  <2>2. \A y \in S : ~(y < x)
    BY <2>1, Zenon DEF OpToRel
  <2> QED
    BY <2>2
<1> QED
  BY <1>1 DEF Props!Min

\* Sets of positions are finite.
LEMMA PartIsFinite ==
    ASSUME NEW n \in Nat, NEW S \in SUBSET (1 .. n)
    PROVE  IsFiniteSet(S)
<1>1. IsFiniteSet(1 .. n)
  BY FS_Interval
<1> QED
  BY <1>1, FS_Subset

\* A set with two elements has two different ones.
LEMMA TwoElements ==
    ASSUME NEW S, IsFiniteSet(S), Cardinality(S) >= 2
    PROVE  \E x, y \in S : x # y
<1>1. S # {}
  BY FS_EmptySet
<1>2. PICK x : x \in S
  BY <1>1
<1>3. S # {x}
  BY FS_Singleton
<1> QED
  BY <1>2, <1>3

\* How many there are is how many there are here.
LEMMA SameCardinality == \A S : Props!Cardinality(S) = Cardinality(S)
BY DEF Props!Cardinality, Cardinality

\* Two terminated strings are told apart and read without what ends them.
LEMMA StringsAreRead ==
    ASSUME ValueAssumption, NEW d \in Seq(Element \cup {Nul}), NEW k \in {0, 1},
           Props!Cardinality(Props!NulsFrom(d, 0)) >= 2
    PROVE  LET n     == Props!StringLength(d, 0, k)
               name  == IF n = Len(d) THEN n - 1 ELSE n
               one   == Props!String(d, 0)
               other == Props!String(d, name + 1)
           IN  /\ Beyond \notin Props!Range(one) \cup Props!Range(other)
               /\ SubSeq(d, 1, Len(one) + Len(other) + 2)
                  = one \o <<Nul>> \o other \o <<Nul>>
<1> DEFINE A == Props!NulsFrom(d, 0)
           a == Props!Min(A)
           B == Props!NulsFrom(d, a)
           b == Props!Min(B)
           n     == Props!StringLength(d, 0, k)
           name  == IF n = Len(d) THEN n - 1 ELSE n
           one   == Props!String(d, 0)
           other == Props!String(d, name + 1)
<1>1. Len(d) \in Nat /\ A \subseteq 1 .. Len(d) /\ \A j \in A : d[j] = Nul
  BY NulsAre
<1>2. PICK i \in A, j \in A : i < j
  <2> HIDE DEF A
  <2>1. IsFiniteSet(A)
    BY <1>1, PartIsFinite
  <2>2. Cardinality(A) >= 2
    BY SameCardinality DEF A
  <2>3. PICK x \in A, y \in A : x # y
    BY <2>1, <2>2, TwoElements
  <2>4. x \in Nat /\ y \in Nat
    BY <1>1
  <2>5. x < y \/ y < x
    BY <2>3, <2>4
  <2> QED
    BY <2>5
<1>3. a \in A /\ (\A x \in A : a <= x) /\ a \in 1 .. Len(d) /\ d[a] = Nul
  <2> HIDE DEF A
  <2>1. A \in SUBSET Nat /\ A # {}
    BY <1>1, <1>2
  <2>2. a \in A /\ \A x \in A : a <= x
    BY <2>1, LeastThere
  <2> QED
    BY <1>1, <2>2
<1>4. B \subseteq a + 1 .. Len(d) /\ (\A x \in B : d[x] = Nul) /\ j \in B
  <2>1. a \in Nat /\ j \in a + 1 .. Len(d) /\ d[j] = Nul
    BY <1>1, <1>2, <1>3
  <2> QED
    BY <2>1, NulsAre
<1>5. b \in B /\ b \in a + 1 .. Len(d) /\ d[b] = Nul
  <2> HIDE DEF B
  <2>1. B \in SUBSET Nat /\ B # {}
    BY <1>1, <1>3, <1>4
  <2>2. b \in B
    BY <2>1, LeastThere
  <2> QED
    BY <1>4, <2>2
<1>6. name = a - 1
  <2>1. n = a - 1 - 0
    BY <1>2 DEF Props!StringLength
  <2> HIDE DEF n
  <2> QED
    BY <1>1, <1>3, <1>5, <2>1
<1>7. one = SubSeq(d, 1, a - 1)
  <2>1. one = SubSeq(d, 0 + 1, a - 1)
    BY <1>1, <1>2, <1>3 DEF Props!String
  <2> QED
    BY <2>1
<1>8. other = SubSeq(d, a + 1, b - 1)
  <2> HIDE DEF n
  <2>1. name + 1 = a
    BY <1>3, <1>6
  <2>2. other = Props!String(d, a)
    BY <2>1
  <2>3. ~(a >= Len(d)) /\ B # {}
    BY <1>1, <1>3, <1>4, <1>5
  <2> QED
    BY <2>2, <2>3 DEF Props!String
<1> HIDE DEF a, b, A, B, n, name, one, other
<1>9. \A x \in 1 .. Len(d) : d[x] \in Element \cup {Nul}
  OBVIOUS
<1>10. one \in Seq(Element \cup {Nul}) /\ Len(one) = a - 1
  BY <1>1, <1>3, <1>7, <1>9, SubSeqProperties
<1>11. other \in Seq(Element \cup {Nul}) /\ Len(other) = b - 1 - a
  BY <1>1, <1>3, <1>5, <1>8, <1>9, SubSeqProperties
<1>12. Beyond \notin Props!Range(one) \cup Props!Range(other)
  BY <1>10, <1>11 DEF Props!Range, ValueAssumption
<1>13. Len(one) + Len(other) + 2 = b
  BY <1>3, <1>5, <1>10, <1>11
<1>14. SubSeq(d, 1, b) = one \o <<Nul>> \o other \o <<Nul>>
  <2>1. \A x \in 1 .. Len(d) : d[x] = Nul => SubSeq(d, x, x) = <<Nul>>
    <3> SUFFICES ASSUME NEW x \in 1 .. Len(d), d[x] = Nul PROVE SubSeq(d, x, x) = <<Nul>>
      OBVIOUS
    <3>1. /\ SubSeq(d, x, x) \in Seq(Element \cup {Nul}) /\ Len(SubSeq(d, x, x)) = 1
          /\ SubSeq(d, x, x)[1] = Nul
      BY <1>9, SubSeqProperties
    <3>2. <<Nul>> \in Seq(Element \cup {Nul}) /\ Len(<<Nul>>) = 1 /\ <<Nul>>[1] = Nul
      OBVIOUS
    <3>3. \A y \in 1 .. Len(SubSeq(d, x, x)) : SubSeq(d, x, x)[y] = <<Nul>>[y]
      BY <3>1, <3>2
    <3> QED
      BY <3>1, <3>2, <3>3, SeqEqual
  <2>2. SubSeq(d, a, a) = <<Nul>> /\ SubSeq(d, b, b) = <<Nul>>
    BY <1>1, <1>3, <1>5, <2>1
  <2>3. one \o <<Nul>> = SubSeq(d, 1, a)
    <3>1. SubSeq(d, 1, a - 1) \o SubSeq(d, (a - 1) + 1, a) = SubSeq(d, 1, a)
      BY <1>1, <1>3, ConcatAdjacentSubSeq
    <3>2. (a - 1) + 1 = a
      BY <1>3
    <3> QED
      BY <1>7, <2>2, <3>1, <3>2
  <2>4. (one \o <<Nul>>) \o other = SubSeq(d, 1, b - 1)
    <3>1. SubSeq(d, 1, a) \o SubSeq(d, a + 1, b - 1) = SubSeq(d, 1, b - 1)
      BY <1>1, <1>3, <1>5, ConcatAdjacentSubSeq
    <3> QED
      BY <1>8, <2>3, <3>1
  <2>5. SubSeq(d, 1, b - 1) \o <<Nul>> = SubSeq(d, 1, b)
    <3>1. SubSeq(d, 1, b - 1) \o SubSeq(d, (b - 1) + 1, b) = SubSeq(d, 1, b)
      BY <1>1, <1>3, <1>5, ConcatAdjacentSubSeq
    <3>2. (b - 1) + 1 = b
      BY <1>1, <1>5
    <3> QED
      BY <2>2, <3>1, <3>2
  <2> QED
    BY <2>4, <2>5
<1> QED
  BY <1>12, <1>13, <1>14 DEF one, other, name, n

-----------------------------------------------------------------------------
(* The steps with replies.                                                  *)

\* The invariant holds initially.
LEMMA RepliesStart ==
    ASSUME BoundAssumption, ValueAssumption, WindowInit
    PROVE  ReplyTypes /\ Owned /\ Read
<1>1. Props!Init
  BY DEF WindowInit
<1>2. <<>> \in Data
  BY DEF Data, ValueAssumption
<1>3. p_window = TRUE /\ p_asked = FALSE
  BY <1>1 DEF Props!Init
<1>4. ReplyTypes
  <2>1. /\ p_count \in [changes : 0 .. MaxValues, asks : 0 .. MaxAsks]
        /\ held = 0 /\ held \in 0 .. p_count.asks
    BY <1>1 DEF Props!Init, BoundAssumption, ValueAssumption
  <2>2. p_property = Nothing /\ p_reply = <<>> /\ value = <<>>
        /\ p_kind \in {"text", "class", "protocols", "transient"}
    BY <1>1 DEF Props!Init
  <2> QED
    BY <1>2, <1>3, <2>1, <2>2 DEF ReplyTypes
<1>5. Owned
  BY <1>1 DEF Props!Init, Owned
<1>6. Read
  BY <1>1 DEF Props!Init, Read, Props!NamesAreWhole, Props!ClassIsRead, Props!ListIsWhole
<1> QED
  BY <1>4, <1>5, <1>6

\* What a structure holds is read as long as it is held.
LEMMA ReadStays ==
    ASSUME Read, UNCHANGED <<p_kind, held, value, told>>
    PROVE  Read'
BY DEF Read, Props!NamesAreWhole, Props!ClassIsRead, Props!ListIsWhole, Props!NulsFrom, Props!Range

\* The bytes of n elements.
LEMMA BytesAre ==
    ASSUME NEW n \in Nat, NEW width \in {0, 8, 16, 32}
    PROVE  8 * ((n * width) \div 8) = width * n
<1>1. CASE width = 0
  BY <1>1
<1>2. CASE width = 8
  BY <1>2
<1>3. CASE width = 16
  BY <1>3
<1>4. CASE width = 32
  BY <1>4
<1> QED
  BY <1>1, <1>2, <1>3, <1>4

\* A reply that is understood is held and read in full.
LEMMA HeldIsRead ==
    ASSUME ValueAssumption, ReplyTypes, NEW r \in Sent, p_kind' = p_kind,
           \/ p_kind = "text" /\ Props!xcb_get_text_property_reply(r)
           \/ p_kind = "class" /\ Props!xcb_get_wm_class_reply(r)
           \/ p_kind = "protocols" /\ Props!xcb_get_wm_protocols_reply(r),
           held' # held
    PROVE  held' = p_count.asks /\ value' = r.data /\ heap' = heap /\ Read'
<1>1. /\ r.data \in Seq(Element \cup {Nul}) /\ Len(r.data) \in Nat
      /\ r.format \in {0, 8, 16, 32}
  BY DEF Sent, Stored, Data
<1>2. CASE p_kind = "text"
  <2>1. /\ Props!Hold(r, [format |-> r.format, name_len |-> (Len(r.data) * r.format) \div 8])
    BY <1>2 DEF Props!xcb_get_text_property_reply, Props!Refuse, Props!xcb_get_property_value_length
  <2>2. /\ held' = p_count.asks /\ value' = r.data /\ heap' = heap
        /\ told'.format = r.format /\ told'.name_len = (Len(r.data) * r.format) \div 8
    BY <2>1 DEF Props!Hold
  <2>3. 8 * told'.name_len = told'.format * Len(value')
    <3>1. 8 * ((Len(r.data) * r.format) \div 8) = r.format * Len(r.data)
      BY <1>1, BytesAre
    <3> QED
      BY <2>2, <3>1
  <2>4. Read'
    BY <1>2, <2>3 DEF Read, Props!NamesAreWhole, Props!ClassIsRead, Props!ListIsWhole
  <2> QED
    BY <2>2, <2>4
<1>3. CASE p_kind = "class"
  <2> DEFINE n(k)    == Props!StringLength(r.data, 0, k)
             name(k) == IF n(k) = Len(r.data) THEN n(k) - 1 ELSE n(k)
             one      == Props!String(r.data, 0)
             other(k) == Props!String(r.data, name(k) + 1)
  <2>1. PICK k \in {0, 1} : Props!Hold(r, <<one, other(k)>>)
    BY <1>3 DEF Props!xcb_get_wm_class_reply, Props!Refuse, Props!xcb_get_property_value_length
  <2>2. /\ held' = p_count.asks /\ value' = r.data /\ heap' = heap
        /\ told' = <<one, other(k)>>
    BY <2>1 DEF Props!Hold
  <2>3. Props!Cardinality(Props!NulsFrom(r.data, 0)) >= 2 =>
           /\ Beyond \notin Props!Range(one) \cup Props!Range(other(k))
           /\ SubSeq(r.data, 1, Len(one) + Len(other(k)) + 2)
              = one \o <<Nul>> \o other(k) \o <<Nul>>
    BY <1>1, StringsAreRead
  <2>4. Props!ClassIsRead'
    <3>1. Props!NulsFrom(value, 0)' = Props!NulsFrom(r.data, 0)
      BY <2>2 DEF Props!NulsFrom
    <3>2. told'[1] = one /\ told'[2] = other(k) /\ Len(told') = 2
      BY <2>2
    <3> HIDE DEF one, other
    <3> SUFFICES ASSUME Props!Cardinality(Props!NulsFrom(r.data, 0)) >= 2
                 PROVE  /\ Len(told') = 2
                        /\ Beyond \notin Props!Range(told'[1]) \cup Props!Range(told'[2])
                        /\ SubSeq(value', 1, Len(told'[1]) + Len(told'[2]) + 2)
                           = told'[1] \o <<Nul>> \o told'[2] \o <<Nul>>
      BY <3>1 DEF Props!ClassIsRead
    <3> QED
      BY <2>2, <2>3, <3>2
  <2>5. Read'
    BY <1>3, <2>4 DEF Read, Props!NamesAreWhole, Props!ListIsWhole
  <2> QED
    BY <2>2, <2>5
<1>4. CASE p_kind = "protocols"
  <2>1. Props!Hold(r, Props!Taken(r.data, Len(r.data)))
    BY <1>4 DEF Props!xcb_get_wm_protocols_reply, Props!Refuse, Props!xcb_get_property_value_length
  <2>2. Props!Taken(r.data, Len(r.data)) = r.data
    BY <1>1, SubSeqFull DEF Props!Taken
  <2>3. held' = p_count.asks /\ value' = r.data /\ heap' = heap /\ told' = value'
    BY <2>1, <2>2 DEF Props!Hold
  <2>4. Read'
    BY <1>4, <2>3 DEF Read, Props!NamesAreWhole, Props!ClassIsRead, Props!ListIsWhole
  <2> QED
    BY <2>3, <2>4
<1> QED
  BY <1>2, <1>3, <1>4

\* Every step keeps the invariant.
LEMMA RepliesStep ==
    ASSUME BoundAssumption, ValueAssumption, ReplyTypes, Owned, Read, Props!Next
    PROVE  ReplyTypes' /\ Owned' /\ Read'
<1> USE DEF BoundAssumption
<1>1. CASE Props!Change
  <2>1. /\ UNCHANGED <<p_kind, p_window, p_asked, p_reply, heap, held, value, told>>
        /\ p_count' = [p_count EXCEPT !.changes = @ + 1] /\ p_count.changes < MaxValues
        /\ p_property' \in Props!Written \cup Props!Strange \cup {Nothing}
    BY <1>1 DEF Props!Change
  <2>2. p_property' = Nothing \/ p_property' \in Stored
    BY <2>1, WrittenIsStored DEF ReplyTypes
  <2>3. /\ p_count' \in [changes : 0 .. MaxValues, asks : 0 .. MaxAsks]
        /\ p_count'.asks = p_count.asks
    BY <2>1 DEF ReplyTypes, ValueAssumption
  <2>4. ReplyTypes'
    BY <2>1, <2>2, <2>3 DEF ReplyTypes
  <2>5. Owned'
    BY <2>1, <2>3 DEF Owned
  <2> QED
    BY <2>1, <2>4, <2>5, ReadStays
<1>2. CASE Props!Destroy
  <2>1. /\ UNCHANGED <<p_kind, p_property, p_asked, p_reply, heap, held, value, told, p_count>>
        /\ p_window' = FALSE
    BY <1>2 DEF Props!Destroy
  <2>2. ReplyTypes'
    BY <2>1 DEF ReplyTypes
  <2>3. Owned'
    BY <2>1 DEF Owned
  <2> QED
    BY <2>1, <2>2, <2>3, ReadStays
<1>3. CASE Props!Ask
  <2>1. /\ UNCHANGED <<p_kind, p_property, p_window, p_reply, heap, held, value, told>>
        /\ p_count' = [p_count EXCEPT !.asks = @ + 1] /\ p_count.asks < MaxAsks
        /\ p_reply = <<>> /\ held = 0 /\ p_asked' = TRUE
    BY <1>3 DEF Props!Ask
  <2>2. /\ p_count' \in [changes : 0 .. MaxValues, asks : 0 .. MaxAsks]
        /\ p_count'.asks = p_count.asks + 1 /\ p_count.asks \in Nat
    BY <2>1 DEF ReplyTypes
  <2>3. ReplyTypes'
    BY <2>1, <2>2 DEF ReplyTypes
  <2>4. Owned'
    BY <2>1, <2>2 DEF Owned
  <2> QED
    BY <2>1, <2>3, <2>4, ReadStays
<1>4. CASE Props!Serve
  <2>1. /\ UNCHANGED <<p_kind, p_property, p_window, held, value, told, p_count>>
        /\ p_asked /\ p_asked' = FALSE
        /\ p_reply' = <<IF p_window THEN Props!Answer ELSE Nothing>>
        /\ heap' = IF p_window THEN heap \cup {p_count.asks} ELSE heap
    BY <1>4 DEF Props!Serve
  <2>2. Props!Answer \in Sent /\ Props!Answer # Nothing
    <3>1. Props!Answer \in Sent
      BY AnswerIsSent
    <3>2. Sent \subseteq [type : {"STRING", "ATOM", "WINDOW", "other", "none"},
                         format : Nat, data : Seq(Element \cup {Nul})]
      <4> SUFFICES ASSUME NEW r \in Sent
                   PROVE  r \in [type : {"STRING", "ATOM", "WINDOW", "other", "none"},
                                format : Nat, data : Seq(Element \cup {Nul})]
        OBVIOUS
      <4>1. r.data \in Seq(Element \cup {Nul})
        BY DEF Data, Sent, Stored
      <4>2. /\ r = [type |-> r.type, format |-> r.format, data |-> r.data]
            /\ r.format \in Nat /\ r.type \in {"STRING", "ATOM", "WINDOW", "other", "none"}
        BY DEF Sent, Stored
      <4> QED
        BY <4>1, <4>2
    <3> QED
      BY <3>1, <3>2 DEF ValueAssumption
  <2>3. p_reply = <<>> /\ held = 0 /\ p_count.asks > 0
    BY <2>1 DEF ReplyTypes
  <2>4. ReplyTypes'
    <3> HIDE DEF BoundAssumption
    <3>1. p_reply' = <<Nothing>> \/ \E r \in Sent : p_reply' = <<r>>
      BY <2>1, <2>2
    <3> QED
      BY <2>1, <2>3, <3>1 DEF ReplyTypes
  <2>5. Owned'
    BY <2>1, <2>2, <2>3 DEF Owned
  <2> QED
    BY <2>1, <2>4, <2>5, ReadStays
<1>5. CASE Props!Receive
  <2>1. /\ UNCHANGED <<p_kind, p_property, p_window, p_asked, p_count>>
        /\ p_reply # <<>> /\ p_reply' = <<>>
    BY <1>5 DEF Props!Receive
  <2> DEFINE r == p_reply[1]
  <2>2. /\ r = Nothing \/ r \in Sent
        /\ p_reply = <<r>>
        /\ ~p_asked /\ held = 0 /\ p_count.asks > 0
    BY <2>1 DEF ReplyTypes
  <2>3. heap = IF r = Nothing THEN {} ELSE {p_count.asks}
    <3> HIDE DEF r
    <3>1. p_reply \in {<<>>, <<Nothing>>} <=> r = Nothing
      BY <2>2
    <3> QED
      BY <2>2, <3>1 DEF Owned
  <2>4. \/ p_kind = "text"      /\ Props!xcb_get_text_property_reply(r)
        \/ p_kind = "class"     /\ Props!xcb_get_wm_class_reply(r)
        \/ p_kind = "transient" /\ Props!xcb_get_wm_transient_for_reply(r)
        \/ p_kind = "protocols" /\ Props!xcb_get_wm_protocols_reply(r)
    BY <1>5 DEF Props!Receive
  <2> HIDE DEF r
  <2>5. CASE held' = held
    <3>1. /\ heap' = heap \ {p_count.asks} /\ value' = value
      BY <2>2, <2>4, <2>5 DEF Props!xcb_get_text_property_reply, Props!xcb_get_wm_class_reply,
         Props!xcb_get_wm_transient_for_reply, Props!xcb_get_wm_protocols_reply,
         Props!Refuse, Props!Hold
    <3>2. ReplyTypes'
      BY <2>1, <2>2, <2>5, <3>1 DEF ReplyTypes
    <3>3. Owned'
      BY <2>1, <2>2, <2>3, <2>5, <3>1 DEF Owned
    <3>4. Read'
      BY <2>2, <2>5 DEF Read, Props!NamesAreWhole, Props!ClassIsRead, Props!ListIsWhole
    <3> QED
      BY <3>2, <3>3, <3>4
  <2>6. CASE held' # held
    <3>1. r # Nothing /\ p_kind # "transient"
      BY <2>4, <2>6 DEF Props!xcb_get_text_property_reply, Props!xcb_get_wm_class_reply,
         Props!xcb_get_wm_transient_for_reply, Props!xcb_get_wm_protocols_reply, Props!Refuse
    <3>2. held' = p_count.asks /\ value' = r.data /\ heap' = heap /\ Read'
      BY <2>1, <2>2, <2>4, <2>6, <3>1, HeldIsRead
    <3>3. r.data \in Data
      BY <2>2, <3>1 DEF Sent, Stored
    <3>4. ReplyTypes'
      BY <2>1, <2>2, <3>2, <3>3 DEF ReplyTypes
    <3>5. Owned'
      BY <2>1, <2>2, <2>3, <3>1, <3>2 DEF Owned
    <3> QED
      BY <3>2, <3>4, <3>5
  <2> QED
    BY <2>5, <2>6
<1>6. CASE Props!Wipe
  <2>1. /\ UNCHANGED <<p_kind, p_property, p_window, p_asked, p_reply, p_count>>
        /\ held # 0 /\ heap' = heap \ {held} /\ held' = 0 /\ value' = <<>>
    BY <1>6 DEF Props!Wipe
  <2>2. p_reply = <<>> /\ ~p_asked
    BY <2>1 DEF ReplyTypes
  <2>3. <<>> \in Data
    BY DEF Data, ValueAssumption
  <2>4. ReplyTypes'
    BY <2>1, <2>2, <2>3 DEF ReplyTypes
  <2>5. Owned'
    BY <2>1, <2>2 DEF Owned
  <2>6. Read'
    BY <2>1 DEF Read, Props!NamesAreWhole, Props!ClassIsRead, Props!ListIsWhole
  <2> QED
    BY <2>4, <2>5, <2>6
<1> QED
  BY <1>1, <1>2, <1>3, <1>4, <1>5, <1>6 DEF Props!Next

\* The property the runs check follows.
LEMMA RepliesRead ==
    ASSUME BoundAssumption, ValueAssumption, ReplyTypes, Owned, Read
    PROVE  RepliesAreRead
<1>1. /\ Len(p_reply) <= 1 /\ Len(value) <= MaxLength
      /\ held \in 0 .. MaxAsks /\ p_count.asks \in 0 .. MaxAsks
  <2>1. Len(value) <= MaxLength /\ p_count.asks \in 0 .. MaxAsks /\ held \in 0 .. p_count.asks
    BY DEF ReplyTypes, Data
  <2>2. p_reply = <<>> \/ \E x : p_reply = <<x>>
    BY DEF ReplyTypes
  <2>3. Len(p_reply) <= 1
    <3>1. CASE p_reply = <<>>
      BY <3>1
    <3>2. CASE p_reply # <<>>
      <4>1. PICK x : p_reply = <<x>>
        BY <2>2, <3>2
      <4> QED
        BY <4>1
    <3> QED
      BY <3>1, <3>2
  <2> QED
    BY <2>1, <2>3 DEF BoundAssumption
<1>2. heap \subseteq 1 .. MaxAsks
  <2>1. p_reply # <<>> => p_count.asks > 0
    BY DEF ReplyTypes
  <2> QED
    BY <1>1, <2>1 DEF Owned, BoundAssumption
<1>3. Props!TypeOK
  BY <1>1, <1>2 DEF ReplyTypes, Props!TypeOK
<1> QED
  BY <1>3 DEF Owned, Read, RepliesAreRead, Props!RepliesAreOwned

\* Every reply to a question about names, classes, protocols or transient
\* windows is with xcb or in one structure until that is wiped, and is read
\* there as what the client wrote: names in full, both strings of the class,
\* all protocols (icccm.c:65-68, 244-273, 303-312, 698-717).
THEOREM RepliesAreOwnedAndRead == WindowSpec => []RepliesAreRead
<1> USE BoundAssumption, ValueAssumption
<1>1. WindowInit => ReplyTypes /\ Owned /\ Read
  BY RepliesStart
<1>2. ReplyTypes /\ Owned /\ Read /\ [WindowNext]_<<hinting, vars, p_vars>>
      => ReplyTypes' /\ Owned' /\ Read'
  <2> SUFFICES ASSUME ReplyTypes, Owned, Read, [WindowNext]_<<hinting, vars, p_vars>>
               PROVE  ReplyTypes' /\ Owned' /\ Read'
    OBVIOUS
  <2>1. CASE Props!Next
    BY <2>1, RepliesStep
  <2>2. CASE UNCHANGED p_vars
    BY <2>2, ReadStays DEF p_vars, ReplyTypes, Owned
  <2> QED
    BY <2>1, <2>2 DEF WindowNext
<1>3. ReplyTypes /\ Owned /\ Read => RepliesAreRead
  BY RepliesRead
<1> QED
  BY <1>1, <1>2, <1>3, PTL DEF WindowSpec
=============================================================================
