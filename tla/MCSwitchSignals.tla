--------------------------- MODULE MCSwitchSignals ---------------------------
(***************************************************************************)
(* Instances of SwitchSignals for TLC.  Version 1 is the embedded default  *)
(* whose gate says how much evidence it needs, 2 the embedded default that *)
(* does not, and 3 one this build cannot resolve.                          *)
(***************************************************************************)
EXTENDS SwitchSignals

CONSTANTS a, b, own

Everything == Operation

Deploy(j, g, current) == [judge |-> j, rule |-> 1, gate |-> g, current |-> current]

\* Upgrades of the SDK and changes of the judge, also together, and the move
\* from a default gate to the operator's own.
Upgrades == {Deploy(j, None, v) : j \in Judge, v \in Embedded} \cup {Deploy(a, own, 2)}
=============================================================================
