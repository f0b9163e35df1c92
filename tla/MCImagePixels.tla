--------------------------- MODULE MCImagePixels ---------------------------
(***************************************************************************)
(* Small instances of FastPixels, and so of ImagePixels, for TLC.          *)
(***************************************************************************)
EXTENDS FastPixels

Orders == {LSB, MSB}

\* Z formats: of each pair of depth and bits per pixel, with the least and the
\* largest pad, in the given byte orders.
ZFormats(pairs, orders) ==
    {[format |-> "Z", pad |-> pad, depth |-> pair[1], bpp |-> pair[2],
      unit |-> IF pair[2] = 4 THEN 8 ELSE pair[2], byte_order |-> order, bit_order |-> MSB] :
        pad \in {8, 32}, pair \in pairs, order \in orders}

\* Bitmaps and pixmaps of planes, padded to their unit, to 32 bits or, by
\* clients that do not mind, to bytes.
XYFormats(depths, units) ==
    {f \in {[format |-> "XY", pad |-> pad, depth |-> depth, bpp |-> depth, unit |-> unit,
             byte_order |-> byte, bit_order |-> bit] :
                pad \in {8, 16, 32}, depth \in depths, unit \in units, byte \in Orders, bit \in Orders} :
        f.pad \in {f.unit, 32} \/ (f.pad = 8 /\ f.depth = 1)}

\* Formats of all depths; of those with 24 bits per pixel, one byte order.
MCFormats ==
    ZFormats({<<1, 8>>, <<4, 4>>, <<4, 8>>, <<8, 8>>, <<8, 16>>, <<8, 32>>, <<16, 16>>, <<16, 32>>,
              <<24, 32>>, <<32, 32>>}, Orders)
    \cup ZFormats({<<24, 24>>}, {MSB})
    \cup XYFormats({1}, {8, 16, 32}) \cup XYFormats({4, 8}, {8, 32})
    \cup {[format |-> "XY", pad |-> 32, depth |-> 24, bpp |-> 24, unit |-> 32,
           byte_order |-> LSB, bit_order |-> MSB]}

\* A server in the style of a PC, one in that of a workstation, and one whose
\* depth 8 has no xy format that xcb_image_create accepts.
MCServers ==
    { [byte_order |-> LSB, bit_order |-> LSB, unit |-> 32, pad |-> 32,
       formats |-> {[depth |-> d, bpp |-> d, pad |-> 32] : d \in {1, 8, 16, 32}}
                   \cup {[depth |-> 24, bpp |-> 32, pad |-> 32]}],
      [byte_order |-> MSB, bit_order |-> LSB, unit |-> 16, pad |-> 32,
       formats |-> {[depth |-> d, bpp |-> d, pad |-> 32] : d \in {1, 8, 16, 32}}
                   \cup {[depth |-> 24, bpp |-> 32, pad |-> 32]}],
      [byte_order |-> LSB, bit_order |-> MSB, unit |-> 8, pad |-> 8,
       formats |-> {[depth |-> 1, bpp |-> 1, pad |-> 8], [depth |-> 8, bpp |-> 16, pad |-> 8]}] }

\* The layouts there are functions for, with more bits than planes too, and
\* bitmaps of all orders.
MCFastFormats ==
    {[format |-> "Z", pad |-> 32, depth |-> pair[1], bpp |-> pair[2], unit |-> pair[2],
      byte_order |-> order, bit_order |-> MSB] :
        pair \in {<<8, 8>>, <<24, 32>>, <<32, 32>>}, order \in {LSB, MSB}}
    \cup {[format |-> "XY", pad |-> 32, depth |-> 1, bpp |-> 1, unit |-> 32,
           byte_order |-> byte, bit_order |-> bit] : byte \in {LSB, MSB}, bit \in {LSB, MSB}}

\* What the theorems about pixels ask for beyond the assumptions holds here.
ASSUME ProofsApply == \E order \in Orders : OneOrderOf24(order)
=============================================================================
