--------------------------- MODULE PictTemplates ----------------------------
(***************************************************************************)
(* What a picture format is, and the standard ones: xcb_pict_format_t and  *)
(* standardFormats of renderutil.  A format or a template is a function of *)
(* its fields.                                                             *)
(***************************************************************************)
EXTENDS Integers, Sequences

Channel == {"red", "green", "blue", "alpha"}

MaskOf == [red |-> "red_mask", green |-> "green_mask", blue |-> "blue_mask", alpha |-> "alpha_mask"]

Masks == {MaskOf[c] : c \in Channel}

\* xcb_pict_format_t: what a template may ask for; a channel's name stands for
\* its shift.
Field == {"id", "type", "depth", "colormap"} \cup Channel \cup Masks

-----------------------------------------------------------------------------

Shifts(r, g, b, a) == [red |-> r, green |-> g, blue |-> b, alpha |-> a]

\* A template: type, depth, shifts and masks.
Direct(depth, shift, mask) ==
    [field \in Field |->
        CASE field \in Channel -> shift[field]
          [] field = "type"    -> 1
          [] field = "depth"   -> depth
          [] field \in {"id", "colormap"} -> 0
          [] OTHER -> mask[CHOOSE c \in Channel : field = MaskOf[c]]]

\* XCB_PICT_STANDARD_ARGB_32, RGB_24, A_8, A_4 and A_1.
standardFormats == <<
    [templ |-> Direct(32, Shifts(16, 8, 0, 24), Shifts(255, 255, 255, 255)),
     mask  |-> {"type", "depth"} \cup Channel \cup Masks],
    [templ |-> Direct(24, Shifts(16, 8, 0, 0), Shifts(255, 255, 255, 0)),
     mask  |-> {"type", "depth"} \cup (Channel \ {"alpha"}) \cup Masks],
    [templ |-> Direct(8, Shifts(0, 0, 0, 0), Shifts(0, 0, 0, 255)),
     mask  |-> {"type", "depth", "alpha"} \cup Masks],
    [templ |-> Direct(4, Shifts(0, 0, 0, 0), Shifts(0, 0, 0, 15)),
     mask  |-> {"type", "depth", "alpha"} \cup Masks],
    [templ |-> Direct(1, Shifts(0, 0, 0, 0), Shifts(0, 0, 0, 1)),
     mask  |-> {"type", "depth", "alpha"} \cup Masks]>>
=============================================================================
