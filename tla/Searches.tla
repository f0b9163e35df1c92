------------------------------ MODULE Searches -------------------------------
(***************************************************************************)
(* Loops that return the first thing they find.                            *)
(***************************************************************************)
EXTENDS Integers, FiniteSetsExt, SequencesExt

\* The result of a loop whose rounds have these results: that of the first
\* round that has one, and none if no round has.
FirstOf(results, none) ==
    LET hits == {i \in DOMAIN results : results[i] # none}
    IN  IF hits = {} THEN none ELSE results[Min(hits)]
=============================================================================
