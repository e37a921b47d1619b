------------------------------ MODULE OutcomeLog ------------------------------
(***************************************************************************)
(* What an outcome log behind ResilientStorage promises its one writer: an *)
(* append is kept at the end of its switch's log; the buffer that bridges  *)
(* an outage is bounded, and what it lets go of is counted; nothing else   *)
(* ever leaves the log or changes places.  A backend that raises after it  *)
(* wrote may have a record kept twice.                                     *)
(***************************************************************************)
EXTENDS Naturals, SequencesExt

CONSTANTS Switch, Record

VARIABLES
    log,    \* log[s]: what a reader is owed, oldest first
    lost    \* records let go of so far

Init == log = [s \in Switch |-> <<>>] /\ lost = 0

Accept(s, r) ==
    /\ r \notin ToSet(log[s])
    /\ log' = [log EXCEPT ![s] = Append(@, r)]
    /\ UNCHANGED lost

\* One record makes room for the new one, and is counted in due course.
Displace(s, r, i) ==
    /\ r \notin ToSet(log[s])
    /\ log' = [log EXCEPT ![s] = Append(RemoveAt(@, i), r)]
    /\ UNCHANGED lost

Count == lost' = lost + 1 /\ UNCHANGED log

\* The copy comes next to the record it repeats.
Repeat(s, i) ==
    /\ log' = [log EXCEPT ![s] = InsertAt(@, i, @[i])]
    /\ UNCHANGED lost

Next ==
    \/ Count
    \/ \E s \in Switch :
          \/ \E r \in Record : Accept(s, r)
          \/ \E i \in DOMAIN log[s] : Repeat(s, i) \/ \E r \in Record : Displace(s, r, i)

Spec == Init /\ [][Next]_<<log, lost>>
=============================================================================
