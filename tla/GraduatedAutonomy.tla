------------------------- MODULE GraduatedAutonomy --------------------------
(***************************************************************************)
(* What the lifecycle of one switch promises, with none of its machinery:  *)
(* autonomy is earned one rung at a time and never past the ceiling, it is *)
(* given up one rung at a time, and a process restart returns to the phase *)
(* the switch was configured with.                                         *)
(***************************************************************************)
EXTENDS SwitchConfig

VARIABLE phase

Init == phase = StartingPhase

Promote == /\ phase < phase_limit
           /\ phase' = phase + 1

Demote == /\ phase > RULE
          /\ phase' = phase - 1

Restart == phase' = StartingPhase

Next == Promote \/ Demote \/ Restart

Spec == Init /\ [][Next]_phase
=============================================================================
