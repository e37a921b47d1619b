---------------------------- MODULE MCResilientLog ----------------------------
(***************************************************************************)
(* Instances of ResilientLog for TLC: which thread calls which operations. *)
(***************************************************************************)
EXTENDS ResilientLog

CONSTANTS t1, t2

\* One writer that also drains, beside a reader.
MayOneWriter == t1 :> {"append_record", "drain"} @@ t2 :> {"load_records"}
=============================================================================
