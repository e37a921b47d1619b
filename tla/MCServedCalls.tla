---------------------------- MODULE MCServedCalls ----------------------------
(***************************************************************************)
(* Instances of ServedCalls for TLC.                                       *)
(***************************************************************************)
EXTENDS ServedCalls

AllVerbs == {"classify", "dispatch", "aclassify", "verdict_for"}
=============================================================================
