--------------------------- MODULE MCRenderCache ---------------------------
(***************************************************************************)
(* Small instances of RenderCache for TLC.                                 *)
(***************************************************************************)
EXTENDS RenderCache, TLC

CONSTANTS c1, c2

\* The first server advertises every required depth but two, which it lets
\* clients create; on the second screen of the other, depth 4 is unusable.
MCScreens ==
    c1 :> {[advertised |-> {1, 8, 24}, creatable |-> {4, 32}]} @@
    c2 :> {[advertised |-> REQUIRED_DEPTHS, creatable |-> {}],
           [advertised |-> {1, 8, 24, 32}, creatable |-> {}]}

\* Threads and heap blocks are interchangeable.
Symmetry == Permutations(Proc) \cup Permutations(Entry)
=============================================================================
