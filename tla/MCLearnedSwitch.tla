--------------------------- MODULE MCLearnedSwitch ---------------------------
(***************************************************************************)
(* Instances of LearnedSwitch for TLC: which thread calls which operations *)
(***************************************************************************)
EXTENDS LearnedSwitch, TLC

CONSTANTS t1, t2

\* A batch that serves its rows, beside a server whose verifier records.
MayServe ==
    t1 :> {"bulk_record_verdicts_from_source", "reset_circuit_breaker"}
    @@ t2 :> {"classify", "demote", "advance"}

\* One thread records, advances and owns the head; the other only serves.
MayOwner ==
    t1 :> {"record_verdict", "advance", "persist_head", "refit", "refit_head"}
    @@ t2 :> {"classify"}

\* Batches, single verdicts and advances by hand, beside an operator who
\* demotes.  Were the second thread to record too, it could hold the first up
\* for ever: the lock is not a queue.
MayBatchOperator ==
    t1 :> {"record_verdict", "advance", "bulk_record_verdicts", "bulk_record_verdicts_from_source"}
    @@ t2 :> {"demote", "reset_circuit_breaker"}
=============================================================================
