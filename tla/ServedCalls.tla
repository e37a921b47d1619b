----------------------------- MODULE ServedCalls -----------------------------
(***************************************************************************)
(* One call of a switch, from its decision to its rows in the outcome log  *)
(* (core.py): classify, dispatch with the label's action, aclassify on an  *)
(* event loop, verdict_for around a block; the configured verifier, the    *)
(* automatic UNKNOWN row, and what a caller later marks on the result.     *)
(*                                                                         *)
(* What the shadow layers said during call n is n itself, and 0 is what a  *)
(* row says that carries no observation.  A verifier's answer, the action  *)
(* and the storage are user code: each may fail.  A process exit           *)
(* (KeyboardInterrupt, SystemExit) goes through every handler.             *)
(***************************************************************************)
EXTENDS Naturals, FiniteSets

CONSTANTS
  Caller,     \* threads, and coroutines
  Verbs,      \* the methods called
  MaxCalls,   \* bound: calls
  MaxFaults   \* bound: refused appends, cancellations and exits

\* What the constants may be.
CallsAssumption ==
  /\ Verbs \subseteq {"classify", "dispatch", "aclassify", "verdict_for"} /\ Verbs # {}
  /\ MaxCalls \in Nat /\ MaxFaults \in Nat

VARIABLES
  config,     \* a verifier is set; auto_record; propagate_action_exceptions
  calls,      \* calls begun
  pc, job,    \* per caller
  log,        \* the outcome log
  orphans,    \* rows a worker thread still writes for a cancelled coroutine
  faults,
  excused,    \* history: calls cut off by an exit or a cancellation, or refused a row
  over        \* history: calls that ended, with what their action did

vars == <<config, calls, pc, job, log, orphans, faults, excused, over>>
past == <<calls, faults, excused>>

\* What became of the label's action.
Acted == {"none", "ok", "raised"}
Job == [call : 0..MaxCalls, verb : Verbs, acted : Acted]
Row == [call : 1..MaxCalls, by : {"auto", "verifier", "caller", "holder"},
        shadows : 0..MaxCalls, acted : Acted]

Init ==
  /\ config \in [verifier : BOOLEAN, auto_record : BOOLEAN, propagate : BOOLEAN]
  /\ calls = 0
  /\ pc = [c \in Caller |-> "idle"]
  /\ job = [c \in Caller |-> [call |-> 0, verb |-> CHOOSE v \in Verbs : TRUE, acted |-> "none"]]
  /\ log = {} /\ orphans = {} /\ faults = 0 /\ excused = {} /\ over = {}

At(c, from, to) == pc[c] = from /\ pc' = [pc EXCEPT ![c] = to]
Fault(c) ==
  /\ faults < MaxFaults /\ faults' = faults + 1
  /\ excused' = excused \cup {job[c].call}

\* The observations travel on the result.
Shadows(c) == job[c].call

RowOf(c, by) == [call |-> job[c].call, by |-> by, shadows |-> Shadows(c), acted |-> job[c].acted]

-----------------------------------------------------------------------------
Begin(c, verb) ==
  /\ calls < MaxCalls /\ calls' = calls + 1
  /\ At(c, "idle", IF verb = "dispatch" THEN "act" ELSE "judge")
  /\ job' = [job EXCEPT ![c] = [call |-> calls + 1, verb |-> verb, acted |-> "none"]]
  /\ UNCHANGED <<config, log, orphans, faults, excused, over>>

\* Mutant: a handler's exception is re-raised where it happened.
ActReraises(c) ==
  /\ \E acted \in Acted :
       /\ job' = [job EXCEPT ![c].acted = acted]
       /\ IF acted = "raised" /\ config.propagate
          THEN At(c, "act", "idle") /\ over' = over \cup {[call |-> job[c].call, acted |-> acted]}
          ELSE At(c, "act", "judge") /\ UNCHANGED over
  /\ UNCHANGED <<config, past, log, orphans>>

\* _maybe_dispatch: no action for this label, or one that returns or raises;
\* the exception is kept on the result.
Act(c) ==
  /\ At(c, "act", "judge")
  /\ \E acted \in Acted : job' = [job EXCEPT ![c].acted = acted]
  /\ UNCHANGED <<config, past, log, orphans, over>>

\* _maybe_run_verifier up to the verdict: there is one, or there is no verifier,
\* the call is not sampled, or the verifier raises.
Judge(c) ==
  /\ \/ config.verifier /\ At(c, "judge", "record")
     \/ At(c, "judge", "log")
  /\ UNCHANGED <<config, past, job, log, orphans, over>>

Record(c) ==
  /\ At(c, "record", "end")
  /\ log' = log \cup {RowOf(c, "verifier")}
  /\ UNCHANGED <<config, past, job, orphans, over>>

\* The log refuses the verdict: the call falls back to its UNKNOWN row.
RecordFails(c) ==
  /\ At(c, "record", "log") /\ Fault(c)
  /\ UNCHANGED <<config, calls, job, log, orphans, over>>

AutoLog(c) ==
  /\ At(c, "log", "end")
  /\ log' = IF config.auto_record THEN log \cup {RowOf(c, "auto")} ELSE log
  /\ UNCHANGED <<config, past, job, orphans, over>>

AutoLogFails(c) ==
  /\ At(c, "log", "end") /\ Fault(c) /\ config.auto_record
  /\ UNCHANGED <<config, calls, job, log, orphans, over>>

\* The call returns its result, or now re-raises what its action raised.
Finish(c) ==
  /\ At(c, "end", IF job[c].verb = "verdict_for" THEN "body"
                  ELSE IF config.propagate /\ job[c].acted = "raised" THEN "idle" ELSE "held")
  /\ over' = over \cup {[call |-> job[c].call, acted |-> job[c].acted]}
  /\ UNCHANGED <<config, past, job, log, orphans>>

\* result.mark_correct() and its peers; or nobody marks the result.
Mark(c) ==
  /\ At(c, "held", "idle")
  /\ log' \in {log, log \cup {RowOf(c, "caller")}}
  /\ UNCHANGED <<config, past, job, orphans, over>>

\* The block marks its holder once, or verdict_for does when the block ends,
\* also by an exception.  The holder hands on label, source and confidence,
\* and not the result.
HolderMark(c) ==
  /\ At(c, "body", "idle")
  /\ log' = log \cup {[call |-> job[c].call, by |-> "holder", shadows |-> 0, acted |-> "none"]}
  /\ UNCHANGED <<config, past, job, orphans, over>>

\* A refused verdict is not tried again: the holder counts as marked.
HolderMarkFails(c) ==
  /\ At(c, "body", "idle") /\ Fault(c)
  /\ UNCHANGED <<config, calls, job, log, orphans, over>>

-----------------------------------------------------------------------------
\* An exit in the action or the verifier ends the call where it stands.
Exit(c) ==
  /\ \E from \in {"act", "judge"} : At(c, from, "idle")
  /\ Fault(c)
  /\ UNCHANGED <<config, calls, job, log, orphans, over>>

\* A coroutine is cancelled.  Inside _amaybe_run_verifier the cancellation is
\* taken for a failing verifier and goes no further; a worker thread that
\* already runs is not stopped by it.
Cancel(c) ==
  /\ job[c].verb = "aclassify" /\ Fault(c)
  /\ \/ At(c, "judge", "log") /\ UNCHANGED orphans
     \/ At(c, "record", "log") /\ orphans' = orphans \cup {RowOf(c, "verifier")}
     \/ /\ At(c, "log", "idle")
        /\ orphans' = IF config.auto_record THEN orphans \cup {RowOf(c, "auto")} ELSE orphans
  /\ UNCHANGED <<config, calls, job, log, over>>

OrphanWrites(row) ==
  /\ log' = log \cup {row} /\ orphans' = orphans \ {row}
  /\ UNCHANGED <<config, past, pc, job, over>>

Step(c) ==
  \/ \E verb \in Verbs : Begin(c, verb)
  \/ Act(c) \/ Judge(c) \/ Record(c) \/ RecordFails(c) \/ AutoLog(c) \/ AutoLogFails(c)
  \/ Finish(c) \/ Mark(c) \/ HolderMark(c) \/ HolderMarkFails(c)
  \/ Exit(c) \/ Cancel(c)

Next == (\E c \in Caller : Step(c)) \/ (\E row \in orphans : OrphanWrites(row))

Spec == Init /\ [][Next]_vars

-----------------------------------------------------------------------------
\* Everything stays in range.
TypeOK ==
  /\ config \in [verifier : BOOLEAN, auto_record : BOOLEAN, propagate : BOOLEAN]
  /\ calls \in 0..MaxCalls /\ job \in [Caller -> Job]
  /\ pc \in [Caller -> {"idle", "act", "judge", "record", "log", "end", "held", "body"}]
  /\ log \subseteq Row /\ orphans \subseteq Row
  /\ faults \in 0..MaxFaults /\ excused \subseteq 1..MaxCalls
  /\ over \subseteq [call : 1..MaxCalls, acted : Acted]

\* However calls overlap, a row carries the observations of its own call or
\* none: observations of one call never become evidence about another (core.py
\* 196-198, 1318-1321).
ShadowsAreOwn == \A row \in log : row.shadows \in {row.call, 0}

\* An action that ran is on record by the time its call ends, also when the
\* call ends by re-raising what the action raised (core.py 1268-1272), unless
\* the call was cut off or the storage refused the row.
ActionIsOnRecord ==
  config.auto_record =>
    \A e \in over : e.acted = "none" \/ e.call \in excused
                      \/ \E row \in log : row.call = e.call /\ row.acted = e.acted

\* A verdict's row supersedes the UNKNOWN one of the same call (core.py 1278-1279);
\* a call has both only when it was cancelled while its verdict was written.
VerdictSupersedes ==
  \A v \in log, a \in log :
    v.by = "verifier" /\ a.by = "auto" /\ v.call = a.call => v.call \in excused

\* A verdict given through verdict_for carries the observations of the call it
\* is about (core.py 1723-1727: on that path "the result's captured shadow
\* observations ... are threaded through to the persisted record
\* automatically").
VerdictForCarriesShadows == \A row \in log : row.by = "holder" => row.shadows = row.call
=============================================================================
