--------------------------- MODULE MCSegmentedLog ---------------------------
(***************************************************************************)
(* Instances of SegmentedLog for TLC.                                      *)
(***************************************************************************)
EXTENDS SegmentedLog

CONSTANTS p1, p2
=============================================================================
