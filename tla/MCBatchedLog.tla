----------------------------- MODULE MCBatchedLog ----------------------------
(***************************************************************************)
(* Instances of BatchedLog for TLC: which thread calls which operations.   *)
(***************************************************************************)
EXTENDS BatchedLog

CONSTANTS t1, t2, a, b

\* A writer that also closes, beside a reader that also writes.
MayShare == t1 :> {"append_record", "close"} @@ t2 :> {"append_record", "load_records", "flush"}
=============================================================================
