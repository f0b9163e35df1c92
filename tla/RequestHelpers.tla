--------------------------- MODULE RequestHelpers ---------------------------
(***************************************************************************)
(* The helpers of aux/xcb_aux.c for requests with optional parameters, and *)
(* its parser of colour names.  A client adds parameters to a structure    *)
(* and its mask, a helper packs those that were added into the list that   *)
(* goes on the wire, and the server takes them in the order of the bits.   *)
(* Parameters are numbered from 0 like the bits and the fields.            *)
(***************************************************************************)
EXTENDS Integers, FiniteSetsExt, SequencesExt

CONSTANTS
    Value,          \* the values of parameters
    Junk,           \* what a field holds that was not set
    MaxAdds,        \* bound: parameters that are added
    Other,          \* a character that is no hexadecimal digit
    Name            \* the colour names behind their #: sequences of digits and Other

VARIABLES
    kind,       \* the structure
    mask,       \* the bits that are set
    params,     \* its fields
    adds,       \* the parameters that were added, in order
    set,        \* what the last request has set, Junk for the rest
    parsed      \* the colour the client looks at: its name and what it was parsed as

vars == <<kind, mask, params, adds, set, parsed>>

\* How many fields the structures have.
Fields == [cw |-> 15, configure_window |-> 7, gc |-> 23, keyboard |-> 8]

Bits == 0 .. Fields[kind] - 1

NoColor == [name |-> <<>>, rgb |-> <<>>]

Init ==
    /\ kind \in DOMAIN Fields
    /\ mask = {} /\ params = [bit \in Bits |-> Junk] /\ adds = <<>>
    /\ set = [bit \in Bits |-> Junk]
    /\ parsed = NoColor

-----------------------------------------------------------------------------
(* Parameters.                                                              *)

XCB_AUX_ADD_PARAM(bit, value) ==
    /\ Len(adds) < MaxAdds
    /\ mask' = mask \cup {bit}
    /\ params' = [params EXCEPT ![bit] = value]
    /\ adds' = Append(adds, <<bit, value>>)
    /\ parsed' = NoColor
    /\ UNCHANGED <<kind, set>>

\* Mutant: the source moves only past the fields that are packed.
pack_list_dense(bits, src) ==
    [i \in 1 .. Cardinality(bits) |-> src[i - 1]]

\* The bit that is the n-th to be shifted out of the mask.
NthBit(bits, n) == CHOOSE bit \in bits : Cardinality({b \in bits : b <= bit}) = n

\* The fields whose bits are set, in the order of the bits.
pack_list(bits, src) == [n \in 1 .. Cardinality(bits) |-> src[NthBit(bits, n)]]

\* The server: the n-th value belongs to the n-th bit.
Unpacked(bits, list) ==
    [bit \in Bits |-> IF bit \in bits THEN list[Cardinality({b \in bits : b <= bit})] ELSE Junk]

\* xcb_aux_create_window, change_window_attributes, configure_window,
\* create_gc, change_gc, change_keyboard_control and their checked forms.
Request ==
    /\ set' = Unpacked(mask, pack_list(mask, params))
    /\ UNCHANGED <<kind, mask, params, adds, parsed>>

\* Line width, line style, cap style and join style.
xcb_aux_set_line_attributes_checked(width, line, cap, join) ==
    /\ kind = "gc" /\ adds = <<>>
    /\ adds' = <<<<4, width>>, <<5, line>>, <<6, cap>>, <<7, join>>>>
    /\ mask' = 4 .. 7
    /\ params' = [params EXCEPT ![4] = width, ![5] = line, ![6] = cap, ![7] = join]
    /\ set' = Unpacked(mask', pack_list(mask', params'))
    /\ UNCHANGED <<kind, parsed>>

-----------------------------------------------------------------------------
(* Colours.                                                                 *)

\* What the loop makes of digits: each shifts those before it up.
Number(digits) ==
    LET b[i \in 0 .. Len(digits)] == IF i = 0 THEN 0 ELSE 16 * b[i - 1] + digits[i]
    IN  b[Len(digits)]

\* Mutant: short numbers are not shifted up.
ParseUnshifted(name) ==
    LET n == Len(name) \div 3
        Part(k) == Number(SubSeq(name, k * n + 1, k * n + n))
    IN  IF Len(name) \notin {3, 6, 9, 12} \/ Other \in Range(name) THEN <<>>
        ELSE <<Part(0), Part(1), Part(2)>>

\* Red, green and blue, each of a third of the digits and scaled to 16 bits;
\* <<>> if the name has to be looked up.
xcb_aux_parse_color(name) ==
    LET n == Len(name) \div 3
        Part(k) == Number(SubSeq(name, k * n + 1, k * n + n))
    IN  IF Len(name) \notin {3, 6, 9, 12} \/ Other \in Range(name) THEN <<>>
        ELSE [k \in 1 .. 3 |-> Part(k - 1) * 2 ^ (16 - 4 * n)]

ParseColor(name) ==
    /\ adds = <<>>
    /\ parsed' = [name |-> name, rgb |-> xcb_aux_parse_color(name)]
    /\ UNCHANGED <<kind, mask, params, adds, set>>

Next ==
    \/ \E bit \in Bits, value \in Value : XCB_AUX_ADD_PARAM(bit, value)
    \/ Request
    \/ \E width, line, cap, join \in Value :
          xcb_aux_set_line_attributes_checked(width, line, cap, join)
    \/ \E name \in Name : ParseColor(name)

Spec == Init /\ [][Next]_vars

-----------------------------------------------------------------------------
(* Properties.                                                              *)

\* A client that adds parameters in any order, some of them twice, and sends
\* the request has the server set just those, each to the value it was given
\* last (xcb_aux.c:153-164, xcb_aux.h:40-49).
SetsWhatWasAdded ==
    [][set' # set =>
        set' = [bit \in Bits |->
                   LET given == {i \in DOMAIN adds' : adds'[i][1] = bit}
                   IN  IF given = {} THEN Junk ELSE adds'[Max(given)][2]]]_vars

\* A name with 1 to 4 digits for each component gives those digits as the most
\* significant ones of 16 bits, the others 0; no other name is taken
\* (xcb_aux.c:290-292, 308-331).
DigitsLeadComponents ==
    parsed.rgb # <<>> \/ (Len(parsed.name) \in {3, 6, 9, 12} /\ Other \notin Range(parsed.name)) =>
        LET n == Len(parsed.name) \div 3
        IN  /\ 3 * n = Len(parsed.name) /\ n <= 4
            /\ \A k \in 1 .. 3, i \in 1 .. 4 :
                  (parsed.rgb[k] \div 16 ^ (4 - i)) % 16 =
                      IF i <= n THEN parsed.name[(k - 1) * n + i] ELSE 0
=============================================================================
