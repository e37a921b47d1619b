--------------------------- MODULE MCEvidenceLadder ---------------------------
(***************************************************************************)
(* Instances of EvidenceLadder for TLC: the cases a switch may meet        *)
(***************************************************************************)
EXTENDS EvidenceLadder

\* Sure and right, sure and wrong, unsure and wrong, and a call that raises.
Sure(l)   == [says |-> l, sure |-> TRUE]
Unsure(l) == [says |-> l, sure |-> FALSE]
Fails     == [says |-> None, sure |-> FALSE]

\* The layers agree, or one of them stands alone, or one cannot answer.
Every ==
    {[rule |-> Truth,   model |-> Sure(Mistake),   ml |-> Sure(Mistake)],
     [rule |-> Mistake, model |-> Sure(Truth),     ml |-> Sure(Mistake)],
     [rule |-> Mistake, model |-> Sure(Mistake),   ml |-> Sure(Truth)],
     [rule |-> Truth,   model |-> Unsure(Mistake), ml |-> Fails],
     [rule |-> Truth,   model |-> Fails,           ml |-> Sure(Blank)]}
=============================================================================
