--------------------------- MODULE MCClientWindow ---------------------------
(***************************************************************************)
(* A small instance of ClientWindow for TLC.                               *)
(***************************************************************************)
EXTENDS ClientWindow

\* Too short, without the fields of ICCCM version 1, in full and too long.
MCForeignLength == [size |-> {14, 15, 20}, wm |-> {7, 8, 12}]
=============================================================================
