----------------------------- MODULE MCLookups ------------------------------
(***************************************************************************)
(* A small instance of Lookups for TLC, with all keysyms of the tables.    *)
(***************************************************************************)
EXTENDS Lookups

-----------------------------------------------------------------------------
(* Keyboard mappings.                                                       *)

\* The empty entry, a letter in both cases and a digit.
MCKeysyms == {NoSymbol, 65, 97, 49}

\* Every row of one to max of these keysyms for every key.
Rows(max) == UNION {[Keycodes -> [1 .. w -> MCKeysyms]] : w \in 1 .. max}

\* Every keysym of the character sets with case that keysymdef.h assigns: the
\* places where the capitals of LowerOnly would be are empty.
Assigned ==
    (1 .. 5400) \ {l - r.shift : <<l, r>> \in
        {<<l, r>> \in LowerOnly \X UpperCase : l - r.shift \in r.first .. r.last}}

\* The same row of up to five keysyms for every key.
Uniform(max) == {[k \in Keycodes |-> row] : row \in UNION {[1 .. w -> MCKeysyms] : w \in 1 .. max}}

\* Each assigned keysym alone on its keys.
Singles == {[k \in Keycodes |-> <<sym>>] : sym \in Assigned}

MCTables == Rows(2) \cup Uniform(5) \cup Singles

-----------------------------------------------------------------------------
(* Visuals and picture formats.                                             *)

MCClass == <<4, 5>>

\* Two formats that are nearly the same get different ids.
Numbered(id, f) == [f EXCEPT !["id"] = id]

Opaque == Shifts(255, 255, 255, 0)
Direct24(a) == Direct(24, Shifts(16, 8, 0, a), Opaque)
Alpha(depth, shift, bits) == Direct(depth, shift, Shifts(0, 0, 0, bits))
Unshifted == Shifts(0, 0, 0, 0)

\* The standard formats; some with shifts of channels they do not have, with
\* the channels in another order, or with colormaps, and alpha in 24 bits.
MCFormat == {
    Numbered(1, Direct(32, Shifts(16, 8, 0, 24), Shifts(255, 255, 255, 255))),
    Numbered(2, Direct(32, Shifts(0, 8, 16, 24), Shifts(255, 255, 255, 255))),
    Numbered(3, Direct(32, Shifts(16, 8, 0, 0), Opaque)),
    Numbered(4, Direct24(0)),
    Numbered(5, Direct24(24)),
    Numbered(6, [Direct24(0) EXCEPT !["alpha_mask"] = 255]),
    Numbered(7, Alpha(8, Unshifted, 255)),
    Numbered(8, Alpha(8, Shifts(3, 5, 7, 0), 255)),
    Numbered(9, [Alpha(8, Unshifted, 255) EXCEPT !["type"] = 0]),
    Numbered(10, Alpha(4, Unshifted, 15)),
    Numbered(11, Alpha(1, Unshifted, 1)) }

-----------------------------------------------------------------------------
(* Colour names.                                                            *)

\* All short names of a few digits, and longer ones that repeat a pair.
MCName ==
    SeqOf({1, 10, 15, Other}, 4) \cup
    {[i \in 1 .. n |-> IF i % 3 = 0 THEN c ELSE IF i % 2 = 0 THEN d ELSE (i % 16)] :
        n \in 5 .. 13, c \in {0, 9, Other}, d \in {7, 15}}
=============================================================================
