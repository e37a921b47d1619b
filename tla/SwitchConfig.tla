---------------------------- MODULE SwitchConfig ----------------------------
(***************************************************************************)
(* The phase axes of a switch's configuration, and what construction does  *)
(* to them: a safety-critical switch has its ceiling capped below          *)
(* ML_PRIMARY, and a starting phase above the ceiling is refused.          *)
(***************************************************************************)
EXTENDS Phases

CONSTANTS StartingPhase,   \* SwitchConfig.starting_phase at construction
          PhaseLimit,      \* SwitchConfig.phase_limit as the caller gave it
          SafetyCritical   \* SwitchConfig.safety_critical

\* SwitchConfig.phase_limit once __post_init__ has run.
phase_limit ==
    IF SafetyCritical /\ PhaseLimit > ML_WITH_FALLBACK
    THEN ML_WITH_FALLBACK
    ELSE PhaseLimit

\* The configurations __post_init__ does not refuse.
ConfigAccepted ==
    /\ ~(SafetyCritical /\ StartingPhase = ML_PRIMARY)
    /\ StartingPhase <= phase_limit

ASSUME ConfigAssumption ==
    /\ StartingPhase \in Phase
    /\ PhaseLimit \in Phase
    /\ SafetyCritical \in BOOLEAN
    /\ ConfigAccepted
=============================================================================
