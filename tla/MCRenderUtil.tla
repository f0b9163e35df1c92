---------------------------- MODULE MCRenderUtil ----------------------------
(***************************************************************************)
(* A small instance of RenderUtil for TLC.                                 *)
(***************************************************************************)
EXTENDS RenderUtil, MCRenderCache

\* Runs of up to five glyphs, of wide glyphs up to six.
MCLimit == [size \in {1, 2, 4} |-> IF size = 1 THEN 5 ELSE 6]
=============================================================================
