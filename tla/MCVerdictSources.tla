------------------------- MODULE MCVerdictSources -------------------------
(***************************************************************************)
(* Two callers, one input with a right and a wrong label, a committee of   *)
(* three with one judge that may lie.  Two calls and a review are enough   *)
(* for a wait to time out, its answer to be taken by the next call, and a  *)
(* review to meet another label than it judged, after one change of the    *)
(* switch's decision.                                                      *)
(***************************************************************************)
EXTENDS VerdictSources

MCTruth == [i \in Input |-> CHOOSE l \in Label : TRUE]
MCLiar == {1}
MCVerifiers == {NoSource, "callable"}
MCBatches == {NoSource, "human", "majority", "unanimous", "callable"}
=============================================================================
