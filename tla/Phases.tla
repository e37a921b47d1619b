------------------------------- MODULE Phases -------------------------------
(***************************************************************************)
(* The six rungs of graduated autonomy, numbered as _PHASE_ORDER numbers   *)
(* them, and the two neighbour functions of gates.py.                      *)
(***************************************************************************)
EXTENDS Integers

RULE             == 0
MODEL_SHADOW     == 1
MODEL_PRIMARY    == 2
ML_SHADOW        == 3
ML_WITH_FALLBACK == 4
ML_PRIMARY       == 5

Phase == RULE .. ML_PRIMARY

\* Python's None where a neighbour does not exist.
NoPhase == -1

next_phase(p) == IF p = ML_PRIMARY THEN NoPhase ELSE p + 1
prev_phase(p) == IF p = RULE THEN NoPhase ELSE p - 1
=============================================================================
