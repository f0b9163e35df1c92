---------------------------- MODULE PictFormats -----------------------------
(***************************************************************************)
(* Searching the picture formats that the server has told of:              *)
(* renderutil/util.c.  The reply has formats, and for each screen, depth   *)
(* and visual the format of its drawables.  A format that is found is the  *)
(* number of its place, 0 stands for NULL.                                 *)
(***************************************************************************)
EXTENDS PictTemplates, Searches

CONSTANTS
    Format,         \* the formats there may be
    MaxFormats,     \* bound: formats in a reply
    Visual,         \* the visual ids
    MaxVisuals,     \* bound: visuals in a depth
    NoReply         \* the extension is missing

VARIABLES
    formats,    \* the formats of the reply, or NoReply
    screens,    \* the visuals of each depth of each screen
    asked,      \* the last call
    found       \* what it returned

vars == <<formats, screens, asked, found>>

Init ==
    /\ formats \in {NoReply} \cup SeqOf(Format, MaxFormats)
    /\ screens \in (IF formats = <<>> THEN SeqOf(SeqOf(SeqOf(Visual, MaxVisuals), 2), 2) ELSE {<<>>})
    /\ asked = [call |-> "none"] /\ found = 0

-----------------------------------------------------------------------------

Matches(f, mask, template) == \A field \in mask : template[field] = f[field]

\* What is left of count when that many formats were looked at.
CountLeft(mask, template, count) ==
    LET left[i \in 0 .. Len(formats)] ==
            IF i = 0 THEN count
            ELSE IF Matches(formats[i], mask, template) THEN left[i - 1] - 1 ELSE left[i - 1]
    IN  left

\* The matching format at which count is 0.
xcb_render_util_find_format(mask, template, count) ==
    IF formats = NoReply THEN 0
    ELSE LET left == CountLeft(mask, template, count)
         IN  FirstOf([i \in DOMAIN formats |->
                 IF Matches(formats[i], mask, template) /\ left[i - 1] = 0 THEN i ELSE 0], 0)

\* Formats count from 0.
xcb_render_util_find_standard_format(n) ==
    IF n + 1 \notin DOMAIN standardFormats THEN 0
    ELSE xcb_render_util_find_format(standardFormats[n + 1].mask,
                                     standardFormats[n + 1].templ, 0)

\* The visual, on whatever screen and at whatever depth.
xcb_render_util_find_visual_format(visual) ==
    LET InDepth(visuals) == FirstOf([k \in DOMAIN visuals |->
                                        IF visuals[k] = visual THEN visuals[k] ELSE 0], 0)
        OnScreen(depths) == FirstOf([j \in DOMAIN depths |-> InDepth(depths[j])], 0)
    IN  IF formats = NoReply THEN 0
        ELSE FirstOf([i \in DOMAIN screens |-> OnScreen(screens[i])], 0)

-----------------------------------------------------------------------------

Answer(call, result) ==
    /\ asked.call = "none"
    /\ asked' = call /\ found' = result
    /\ UNCHANGED <<formats, screens>>

FindFormat(mask, template, count) ==
    Answer([call |-> "format", mask |-> mask, template |-> template, count |-> count],
           xcb_render_util_find_format(mask, template, count))

FindStandardFormat(n) ==
    Answer([call |-> "standard", number |-> n], xcb_render_util_find_standard_format(n))

FindVisualFormat(visual) ==
    Answer([call |-> "visual", visual |-> visual], xcb_render_util_find_visual_format(visual))

\* Templates that ask for one format, one depth, or any that stores as one.
Next ==
    \/ \E mask \in {{}, {"id"}, {"type", "depth"}, Channel \cup Masks},
          template \in Format, count \in -1 .. MaxFormats : FindFormat(mask, template, count)
    \/ \E n \in -1 .. 5 : FindStandardFormat(n)
    \/ \E visual \in Visual : FindVisualFormat(visual)

Spec == Init /\ [][Next]_vars

-----------------------------------------------------------------------------
(* Properties.                                                              *)

\* With counts from 0 on a client gets every format that matches its template,
\* each once and in order, and then NULL (util.c:59-101).
EveryMatchOnce ==
    asked.call = "format" =>
        LET matching == {i \in DOMAIN formats : \A field \in asked.mask :
                            formats[i][field] = asked.template[field]}
        IN  IF formats = NoReply \/ asked.count \notin 0 .. Cardinality(matching) - 1 THEN found = 0
            ELSE found \in matching /\ Cardinality({i \in matching : i < found}) = asked.count

\* The bits of a pixel that a channel has.
Bits(f, channel) ==
    LET width == CHOOSE w \in 0 .. 16 : 2 ^ w - 1 = f[MaskOf[channel]]
    IN  f[channel] .. f[channel] + width - 1

\* Where the bits of the standard formats' channels are: as many as the name
\* says, alpha, red, green and blue from the most significant on.
StandardBits(n) ==
    CASE n = 0 -> [alpha |-> 24 .. 31, red |-> 16 .. 23, green |-> 8 .. 15, blue |-> 0 .. 7]
      [] n = 1 -> [alpha |-> {}, red |-> 16 .. 23, green |-> 8 .. 15, blue |-> 0 .. 7]
      [] n = 2 -> [alpha |-> 0 .. 7, red |-> {}, green |-> {}, blue |-> {}]
      [] n = 3 -> [alpha |-> 0 .. 3, red |-> {}, green |-> {}, blue |-> {}]
      [] n = 4 -> [alpha |-> {0}, red |-> {}, green |-> {}, blue |-> {}]

\* A standard format is the first one of its depth whose pixels are made of the
\* right bits, whatever the shifts of channels it does not have
\* (xcb_renderutil.h:45-51, util.c:114-238).
StandardIsByBits ==
    asked.call = "standard" =>
        LET n     == asked.number
            right == {i \in DOMAIN formats :
                         /\ formats[i].type = 1
                         /\ formats[i].depth = <<32, 24, 8, 4, 1>>[n + 1]
                         /\ \A c \in Channel : Bits(formats[i], c) = StandardBits(n)[c]}
        IN  IF n \notin 0 .. 4 \/ formats = NoReply \/ right = {} THEN found = 0
            ELSE found \in right /\ \A i \in right : found <= i

\* The format of a visual is known if some screen lists it at some depth
\* (util.c:32-38).
VisualsAreFound ==
    asked.call = "visual" =>
        (found = asked.visual <=>
            \E i \in DOMAIN screens : \E j \in DOMAIN screens[i] :
                asked.visual \in Range(screens[i][j]))
=============================================================================
