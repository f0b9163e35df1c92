-------------------------- MODULE MCReplyHandlers --------------------------
(***************************************************************************)
(* Small instances of ReplyHandlers for TLC.                               *)
(***************************************************************************)
EXTENDS ReplyHandlers, TLC

CONSTANTS a, b, c

\* Three requests with numbers of their own.
DistinctRequests == (a :> 1) @@ (b :> 2) @@ (c :> 3)

DistinctPair == (a :> 1) @@ (b :> 2)
=============================================================================
