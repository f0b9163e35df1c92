---------------------------- MODULE WindowHints ----------------------------
(***************************************************************************)
(* WM_NORMAL_HINTS and WM_HINTS with icccm/icccm.c.  A client fills a      *)
(* structure with setters and publishes it as a property of its window; a  *)
(* window manager asks for the property, or is told when it changes        *)
(* (property/property.c), and has the reply decoded into a structure of    *)
(* its own.  Other clients may leave something else in the property.       *)
(*                                                                         *)
(* A structure is its flags, by name, and fields of one to four words      *)
(* after them.  A field that is cut by the end of a property is Torn.      *)
(***************************************************************************)
EXTENDS Integers, FiniteSetsExt

CONSTANTS
    Value,          \* what the client sets hints to
    ForeignLength,  \* how many elements each kind of property may have when others set it,
    ForeignFormat,  \* and their widths
    Zero,           \* a field that was never set
    Foreign,        \* a field of another client
    Torn,           \* a field of which only a part was copied
    Unset,          \* a hint that is not given
    Unreadable,     \* a property without hints
    Null,           \* no reply
    MaxSets,        \* bound: calls of setters
    MaxChanges,     \* bound: changes of the property
    MaxAsks         \* bound: requests of the window manager

ASSUME BoundAssumption ==
    /\ MaxSets \in Nat /\ MaxChanges \in Nat /\ MaxAsks \in Nat
    /\ ForeignLength \in [{"size", "wm"} -> SUBSET Nat] /\ ForeignFormat \subseteq {8, 16, 32}

VARIABLES
    kind,       \* "size" for xcb_size_hints_t, "wm" for xcb_wm_hints_t
    watched,    \* is the window manager told of changes, or does it ask itself?
    draft,      \* the client's structure
    property,   \* the property of the window, <<>> without one
    window,     \* does the window exist?
    asked,      \* is there a request on its way?
    reply,      \* the reply nobody has decoded, <<>> without one
    notices,    \* changes the window manager has not been told of
    hints,      \* the window manager's structure
    last,       \* the reply that was decoded last into it
    outside,    \* was a structure written past its end?
    count       \* how many setters, changes and requests there were

vars == <<kind, watched, draft, property, window, asked, reply, notices, hints, last, outside, count>>

-----------------------------------------------------------------------------
(* The structures.                                                          *)

\* The word after each field of xcb_size_hints_t and of xcb_wm_hints_t.
SizeEnd == [position |-> 3, size |-> 5, min_size |-> 7, max_size |-> 9, resize_inc |-> 11,
            aspect |-> 15, base_size |-> 17, win_gravity |-> 18]
SizeStart == [position |-> 1, size |-> 3, min_size |-> 5, max_size |-> 7, resize_inc |-> 9,
              aspect |-> 11, base_size |-> 15, win_gravity |-> 17]

WmEnd == [input |-> 2, initial_state |-> 3, icon_pixmap |-> 4, icon_window |-> 5,
          icon_position |-> 7, icon_mask |-> 8, window_group |-> 9]
WmStart == [input |-> 1, initial_state |-> 2, icon_pixmap |-> 3, icon_window |-> 4,
            icon_position |-> 5, icon_mask |-> 7, window_group |-> 8]

\* Both tables in one: no name is in the two of them.
Joined(f, g) == [x \in DOMAIN f \cup DOMAIN g |-> IF x \in DOMAIN f THEN f[x] ELSE g[x]]

End   == Joined(SizeEnd, WmEnd)
Start == Joined(SizeStart, WmStart)
Words == IF kind = "size" THEN 18 ELSE 9

\* The flags, with the fields they tell about.
SizeFlag == [us_position |-> "position", p_position |-> "position", us_size |-> "size",
             p_size |-> "size", p_min_size |-> "min_size", p_max_size |-> "max_size",
             p_resize_inc |-> "resize_inc", p_aspect |-> "aspect", base_size |-> "base_size",
             p_win_gravity |-> "win_gravity"]
WmFlag == [input |-> "input", state |-> "initial_state", icon_pixmap |-> "icon_pixmap",
           icon_window |-> "icon_window", icon_position |-> "icon_position",
           icon_mask |-> "icon_mask", window_group |-> "window_group", x_urgency |-> "none"]

FieldOf == Joined(SizeFlag, WmFlag)
Flag    == DOMAIN IF kind = "size" THEN SizeFlag ELSE WmFlag
Field   == DOMAIN IF kind = "size" THEN SizeEnd ELSE WmEnd

Empty == [flags |-> {}, field |-> [f \in Field |-> Zero]]

Init ==
    /\ kind \in {"size", "wm"} /\ watched \in BOOLEAN
    /\ draft = Empty /\ hints = Empty
    /\ property = <<>> /\ window = TRUE
    /\ asked = FALSE /\ reply = <<>> /\ last = <<>> /\ notices = 0
    /\ outside = FALSE
    /\ count = [sets |-> 0, changes |-> 0, asks |-> 0]

-----------------------------------------------------------------------------
(* The setters.                                                             *)

\* A field gets a value and its flag; the flags in clears go.
Fill(h, f, v, clears, flag) ==
    [flags |-> (h.flags \ clears) \cup {flag}, field |-> [h.field EXCEPT ![f] = v]]

\* Mutant: the position keeps the flag of the other kind.
xcb_size_hints_set_position_keeping(h, user, v) ==
    Fill(h, "position", v, {}, IF user THEN "us_position" ELSE "p_position")

xcb_size_hints_set_position(h, user, v) ==
    Fill(h, "position", v, {"us_position", "p_position"},
         IF user THEN "us_position" ELSE "p_position")
xcb_size_hints_set_size(h, user, v) ==
    Fill(h, "size", v, {"us_size", "p_size"}, IF user THEN "us_size" ELSE "p_size")
xcb_size_hints_set_min_size(h, v)    == Fill(h, "min_size", v, {}, "p_min_size")
xcb_size_hints_set_max_size(h, v)    == Fill(h, "max_size", v, {}, "p_max_size")
xcb_size_hints_set_resize_inc(h, v)  == Fill(h, "resize_inc", v, {}, "p_resize_inc")
xcb_size_hints_set_aspect(h, v)      == Fill(h, "aspect", v, {}, "p_aspect")
xcb_size_hints_set_base_size(h, v)   == Fill(h, "base_size", v, {}, "base_size")
xcb_size_hints_set_win_gravity(h, v) == Fill(h, "win_gravity", v, {}, "p_win_gravity")

xcb_wm_hints_set_input(h, v)        == Fill(h, "input", v, {}, "input")
\* xcb_wm_hints_set_iconic, _normal and _withdrawn
xcb_wm_hints_set_state(h, v)        == Fill(h, "initial_state", v, {}, "state")
xcb_wm_hints_set_icon_pixmap(h, v)  == Fill(h, "icon_pixmap", v, {}, "icon_pixmap")
xcb_wm_hints_set_icon_mask(h, v)    == Fill(h, "icon_mask", v, {}, "icon_mask")
xcb_wm_hints_set_icon_window(h, v)  == Fill(h, "icon_window", v, {}, "icon_window")
xcb_wm_hints_set_window_group(h, v) == Fill(h, "window_group", v, {}, "window_group")
xcb_wm_hints_set_none(h)    == [h EXCEPT !.flags = @ \ {"state"}]
xcb_wm_hints_set_urgency(h) == [h EXCEPT !.flags = @ \cup {"x_urgency"}]

SizeSetters(h, v) ==
    {xcb_size_hints_set_position(h, user, v) : user \in BOOLEAN}
    \cup {xcb_size_hints_set_size(h, user, v) : user \in BOOLEAN}
    \cup {xcb_size_hints_set_min_size(h, v), xcb_size_hints_set_max_size(h, v),
          xcb_size_hints_set_resize_inc(h, v), xcb_size_hints_set_aspect(h, v),
          xcb_size_hints_set_base_size(h, v), xcb_size_hints_set_win_gravity(h, v)}

WmSetters(h, v) ==
    {xcb_wm_hints_set_input(h, v), xcb_wm_hints_set_state(h, v),
     xcb_wm_hints_set_icon_pixmap(h, v), xcb_wm_hints_set_icon_mask(h, v),
     xcb_wm_hints_set_icon_window(h, v), xcb_wm_hints_set_window_group(h, v),
     xcb_wm_hints_set_none(h), xcb_wm_hints_set_urgency(h)}

Set ==
    /\ count.sets < MaxSets
    /\ count' = [count EXCEPT !.sets = @ + 1]
    /\ \E v \in Value :
          draft' \in IF kind = "size" THEN SizeSetters(draft, v) ELSE WmSetters(draft, v)
    /\ UNCHANGED <<kind, watched, property, window, asked, reply, notices, hints, last, outside>>

-----------------------------------------------------------------------------
(* The property, and who asks for it.                                       *)

Change(value) ==
    /\ window /\ count.changes < MaxChanges
    /\ count' = [count EXCEPT !.changes = @ + 1]
    /\ property' = <<value>>
    /\ notices' = IF watched THEN notices + 1 ELSE 0
    /\ UNCHANGED <<kind, watched, draft, window, asked, reply, hints, last, outside>>

\* xcb_set_wm_normal_hints, xcb_set_wm_hints: the whole structure.
Publish == Change([type |-> "hints", format |-> 32, length |-> Words, content |-> draft])

\* Another client sets all flags, and one that is unknown, or has its own type.
Disturb ==
    \E n \in ForeignLength[kind], width \in ForeignFormat, type \in {"hints", "other"} :
        Change([type |-> type, format |-> width, length |-> n,
                content |-> [flags |-> Flag \cup {"unknown"},
                             field |-> [f \in Field |-> Foreign]]])

Destroy ==
    /\ window
    /\ window' = FALSE
    /\ UNCHANGED <<kind, watched, draft, property, asked, reply, notices, hints, last, outside, count>>

Idle == ~asked /\ reply = <<>> /\ ~outside

\* xcb_get_wm_normal_hints, xcb_get_wm_hints
Ask ==
    /\ Idle /\ ~watched /\ count.asks < MaxAsks
    /\ asked' = TRUE
    /\ count' = [count EXCEPT !.asks = @ + 1]
    /\ UNCHANGED <<kind, watched, draft, property, window, reply, notices, hints, last, outside>>

\* An event tells of a change, and the handler is to be called with the value.
Notice ==
    /\ Idle /\ notices > 0
    /\ notices' = notices - 1
    /\ asked' = TRUE
    /\ UNCHANGED <<kind, watched, draft, property, window, reply, hints, last, outside, count>>

\* The words a request asks for; a watcher asks for the structure's, too.
AskedWords == Words

\* The server sends no more than that, and nothing of another type than the
\* one asked for; a handler of property.c asks for any type.
Served(p) ==
    [p EXCEPT !.length = IF ~watched /\ p.type # "hints" THEN 0
                         ELSE Min({@, (AskedWords * 32) \div p.format})]

Serve ==
    /\ asked
    /\ asked' = FALSE
    /\ reply' = IF ~window THEN <<Null>>
                ELSE IF property = <<>> THEN <<[type |-> "none", format |-> 0, length |-> 0]>>
                ELSE <<Served(property[1])>>
    /\ UNCHANGED <<kind, watched, draft, property, window, notices, hints, last, outside, count>>

-----------------------------------------------------------------------------
(* Decoding.                                                                *)

Bytes(r) == (r.length * r.format) \div 8

\* memcpy to a structure.
Copied(to, r) ==
    [flags |-> r.content.flags,
     field |-> [f \in Field |->
                  IF 4 * End[f] <= Bytes(r) THEN r.content.field[f]
                  ELSE IF 4 * Start[f] >= Bytes(r) THEN to.field[f]
                  ELSE Torn]]

\* Mutant: the fields that ICCCM version 1 added are taken as they are.
xcb_get_wm_size_hints_from_reply_new(r) ==
    [Copied(hints, r) EXCEPT !.flags = @ \cap DOMAIN SizeFlag]

\* Mutant: properties from before ICCCM are refused.
SizeAcceptsNew(r) == r.type = "hints" /\ r.format \in {8, 16, 32} /\ r.length >= 18

SizeAccepts(r) == r.type = "hints" /\ r.format \in {8, 16, 32} /\ r.length >= 15

\* Properties from before ICCCM have no base size and gravity; unknown flags go.
xcb_get_wm_size_hints_from_reply(r) ==
    LET copy == Copied(hints, r)
        new  == {"base_size", "win_gravity"}
    IN  IF r.length >= 18
        THEN [copy EXCEPT !.flags = @ \cap DOMAIN SizeFlag]
        ELSE [flags |-> (copy.flags \cap DOMAIN SizeFlag) \ {"base_size", "p_win_gravity"},
              field |-> [f \in Field |-> IF f \in new THEN Zero ELSE copy.field[f]]]

WmAccepts(r) == r.type = "hints" /\ r.length >= 8 /\ r.format = 32

xcb_get_wm_hints_from_reply(r) ==
    LET copy == Copied(hints, r)
    IN  IF r.length < 9 THEN [copy EXCEPT !.field["window_group"] = Zero] ELSE copy

Accepts(r) ==
    r # Null /\ IF kind = "size" THEN SizeAccepts(r) ELSE WmAccepts(r)

Decode(r) == IF kind = "size" THEN xcb_get_wm_size_hints_from_reply(r)
             ELSE xcb_get_wm_hints_from_reply(r)

\* Without a reply or with one that is not understood the structure is left
\* alone; the reply is freed here or by property.c.
Receive ==
    /\ reply # <<>> /\ ~outside
    /\ reply' = <<>>
    /\ IF Accepts(reply[1])
       THEN /\ hints' = Decode(reply[1])
            /\ last' = reply
            /\ outside' = (Bytes(reply[1]) > 4 * Words)
       ELSE UNCHANGED <<hints, last, outside>>
    /\ UNCHANGED <<kind, watched, draft, property, window, asked, notices, count>>

Next ==
    \/ Set \/ Publish \/ Disturb \/ Destroy
    \/ Ask \/ Notice \/ Serve \/ Receive

Spec == Init /\ [][Next]_vars

\* The server answers, and a window manager that watches stays in its loop.
FairSpec == Spec /\ WF_vars(Notice) /\ WF_vars(Serve) /\ WF_vars(Receive)

-----------------------------------------------------------------------------
(* Properties.                                                              *)

\* The types of all variables.
TypeOK ==
    /\ \A s \in {draft, hints} : s.flags \subseteq Flag \cup {"unknown"}
                                 /\ s.field \in [Field -> Value \cup {Zero, Foreign, Torn}]
    /\ window \in BOOLEAN /\ asked \in BOOLEAN /\ outside \in BOOLEAN
    /\ notices \in 0 .. MaxChanges
    /\ count \in [sets : 0 .. MaxSets, changes : 0 .. MaxChanges, asks : 0 .. MaxAsks]
    /\ asked => reply = <<>>

\* However long the property is, decoding stays inside of the structure: the
\* request limits the reply to the structure's words (icccm.c:418, 446, 611).
\* Fields that are flagged after decoding were in the property in full: none is
\* left over from an older property or half of one; a missing group is 0
\* (icccm.c:446-464, 636-640).
FlagsAreBacked ==
    /\ TypeOK
    /\ ~outside
    /\ last # <<>> =>
          \A flag \in (hints.flags \cap Flag) \ {"x_urgency"} :
             \/ 4 * End[FieldOf[flag]] <= Bytes(last[1])
             \/ flag = "window_group" /\ hints.field.window_group = Zero

\* All hints of both kinds.
Hint == DOMAIN FieldOf

\* The hints a structure holds.
View(s) == [flag \in Hint |->
              IF flag \notin s.flags THEN Unset
              ELSE IF flag = "x_urgency" THEN "on"
              ELSE s.field[FieldOf[flag]]]

\* To know nothing is not to know some hints.
ASSUME UnreadableAssumption ==
    Unreadable \notin [Hint -> Value \cup {Unset, "on", Zero, Foreign, Torn}]

\* The hints somebody who knows ICCCM reads from a property: pre-ICCCM ones
\* lack the last fields.
Reading(r) ==
    IF r.type # "hints" \/ r.format # 32 \/ r.length < (IF kind = "size" THEN 15 ELSE 8)
    THEN Unreadable
    ELSE [flag \in Hint |->
            IF \/ flag # "x_urgency" /\ End[FieldOf[flag]] > r.length
               \/ (kind = "size" /\ r.length < 18 /\ flag \in {"base_size", "p_win_gravity"})
            THEN IF flag = "window_group" /\ flag \in r.content.flags THEN Zero ELSE Unset
            ELSE View(r.content)[flag]]

\* One kind of position, and one of size, at a time.
Rivals == [flag \in Hint |-> {g \in Hint \ {flag} : FieldOf[g] = FieldOf[flag]}]

Board == INSTANCE HintBoard WITH
    Value      <- Value \cup {"on", Zero, Foreign},
    wish       <- View(draft),
    posted     <- IF property = <<>> THEN Unreadable ELSE Reading(property[1]),
    seen       <- IF reply = <<>> THEN <<>>
                  ELSE IF reply[1] = Null THEN <<Unreadable>>
                  ELSE <<Reading(reply[1])>>,
    learned    <- View(hints)

\* What the window manager learns is what stood on the window as a whole, and
\* what the client wrote there is what it last set (icccm.c:316-395, 429-467,
\* 518-590, 622-643).
HintsArrive == Board!Spec

\* A window manager that watches knows the last readable hints in the end
\* (icccm.c:120-125, property.c:52-66).
CatchesUp ==
    watched =>
        <>[](outside \/ ~window \/ property = <<>> \/ Reading(property[1]) = Unreadable
             \/ View(hints) = Reading(property[1]))
=============================================================================
