----------------------------- MODULE ResilientLog -----------------------------
(***************************************************************************)
(* ResilientStorage (storage.py): a durable primary that may fail, bridged *)
(* by a bounded in-memory fallback.  The class takes no lock, so every     *)
(* read and write of the fallback, of the primary and of the degraded flag *)
(* is a step of its own, open to the other threads; warnings and the       *)
(* operator's callbacks are left out.  The bookkeeping after a spilled     *)
(* append (the counters and the probe counter) is one step.                *)
(*                                                                         *)
(* The primary is any backend that keeps what it accepts, in order; a call *)
(* of it may raise, and an append may raise after the record was written,  *)
(* as FileStorage's does when fsync fails.                                 *)
(***************************************************************************)
EXTENDS Naturals, FiniteSets, SequencesExt

CONSTANTS
    Caller,      \* threads of the program
    Switch,      \* switch names, numbered in the order sorted() gives them
    May,         \* May[t]: the operations thread t calls
    Capacity,    \* fallback_max_records, per switch
    ProbeEvery,  \* recovery_probe_every
    MaxRecords,  \* bound: records appended
    MaxFaults    \* bound: calls of the primary that raise

Operation == {"append_record", "load_records", "drain"}

ASSUME ResilientAssumption ==
    /\ May \in [Caller -> SUBSET Operation]
    /\ Switch \subseteq Nat /\ Switch # {} /\ IsFiniteSet(Switch)
    /\ Capacity \in Nat \ {0} /\ ProbeEvery \in Nat \ {0}
    /\ MaxRecords \in Nat /\ MaxFaults \in Nat

Record == 1 .. MaxRecords

VARIABLES
    primary,     \* what the primary would read, per switch
    fallback,    \* _fallback._log, per switch
    degraded,    \* _degraded
    sinceProbe,  \* _writes_since_probe
    evictions,   \* _degraded_evictions
    tracked,     \* _tracked_switches
    pc,          \* where each thread stands
    of,          \* of[t]: the switch t's call or recovery is about
    hand,        \* hand[t]: the record t is appending or moving
    before,      \* before[t]: the local of append_record
    todo,        \* todo[t]: the switches a recovery has not finished with
    seen,        \* seen[t]: what t's load_records has read so far
    owed,        \* history: owed[t] was held when t's load_records began
    stale,       \* history: stale[t]: a record moved past t's load_records
    dropped,     \* history: records evicted from the fallback
    next,        \* the next record
    faults       \* raising calls so far

vars == <<primary, fallback, degraded, sinceProbe, evictions, tracked, pc, of, hand, before,
          todo, seen, owed, stale, dropped, next, faults>>
store   == <<primary, fallback>>
mode    == <<degraded, sinceProbe>>
call    == <<of, hand>>
local   == <<before, todo>>
reading == <<seen, owed, stale>>
bounds  == <<next, faults>>

Label == {"idle", "try", "degrade", "measure", "spill", "count", "head", "move", "pop",
          "healthy", "rest", "answer"}
Nothing == [s \in Switch |-> <<>>]
-----------------------------------------------------------------------------
Goto(t, l) == pc' = [pc EXCEPT ![t] = l]

\* Any call of the primary may raise while faults are left.
Raise == faults < MaxFaults /\ faults' = faults + 1

(* append_record *)

\* append_record begins, for a switch it adds to the tracked ones or not.
AppendTracking(t, s, known) ==
    /\ pc[t] = "idle" /\ "append_record" \in May[t]
    /\ next <= MaxRecords
    /\ of' = [of EXCEPT ![t] = s]
    /\ tracked' = known
    /\ hand' = [hand EXCEPT ![t] = next]
    /\ next' = next + 1
    /\ Goto(t, IF degraded THEN "measure" ELSE "try")
    /\ UNCHANGED <<store, mode, evictions, local, reading, dropped, faults>>

\* Mutant: a switch is tracked only once the primary has been tried for it.
AppendBeginUntracked(t, s) ==
    AppendTracking(t, s, IF degraded THEN tracked ELSE tracked \cup {s})

\* _degraded is read once, before the primary is tried.
AppendBegin(t, s) == AppendTracking(t, s, tracked \cup {s})

Stored(t) == primary' = [primary EXCEPT ![of[t]] = Append(@, hand[t])]

PrimaryTakes(t) ==
    /\ pc[t] = "try"
    /\ Stored(t)
    /\ Goto(t, "idle")
    /\ UNCHANGED <<fallback, mode, evictions, tracked, call, local, reading, dropped, bounds>>

\* A raising append has kept nothing, or has kept the record all the same.
RaiseFrom(t, from, l) ==
    /\ pc[t] = from /\ Raise
    /\ UNCHANGED primary \/ Stored(t)
    /\ Goto(t, l)
    /\ UNCHANGED <<fallback, mode, evictions, tracked, call, local, reading, dropped, next>>

PrimaryRaises(t) == RaiseFrom(t, "try", IF degraded THEN "measure" ELSE "degrade")

EnterDegraded(t) ==
    /\ pc[t] = "degrade"
    /\ degraded' = TRUE /\ sinceProbe' = 0
    /\ Goto(t, "measure")
    /\ UNCHANGED <<store, evictions, tracked, call, local, reading, dropped, bounds>>

Measure(t) ==
    /\ pc[t] = "measure"
    /\ before' = [before EXCEPT ![t] = Len(fallback[of[t]])]
    /\ Goto(t, "spill")
    /\ UNCHANGED <<store, mode, evictions, tracked, call, todo, reading, dropped, bounds>>

Full(s) == Len(fallback[s]) = Capacity

\* deque(maxlen=Capacity): a full one lets its oldest record go.
Bounded(s, r) == Append(IF Full(s) THEN Tail(fallback[s]) ELSE fallback[s], r)

Spill(t) ==
    /\ pc[t] = "spill"
    /\ fallback' = [fallback EXCEPT ![of[t]] = Bounded(of[t], hand[t])]
    /\ dropped' = IF Full(of[t]) THEN dropped \cup {Head(fallback[of[t]])} ELSE dropped
    /\ Goto(t, "count")
    /\ UNCHANGED <<primary, mode, evictions, tracked, call, local, reading, bounds>>

\* A probe falls due every ProbeEvery spilled records.
ProbeDue == sinceProbe + 1 >= ProbeEvery

\* CountSpilled, with the test of whether the append evicted something.
CountWhen(t, evicted) ==
    /\ pc[t] = "count"
    /\ evictions' = evictions + IF evicted THEN 1 ELSE 0
    /\ sinceProbe' = IF ProbeDue THEN 0 ELSE sinceProbe + 1
    /\ todo' = [todo EXCEPT ![t] = IF ProbeDue THEN tracked ELSE {}]
    /\ Goto(t, IF ProbeDue THEN "head" ELSE "idle")
    /\ UNCHANGED <<store, degraded, tracked, call, before, reading, dropped, bounds>>

\* The append evicted if the buffer did not grow.
CountSpilled(t) == CountWhen(t, Len(fallback[of[t]]) <= before[t])

(* _try_recover and drain *)

Drain(t) ==
    /\ pc[t] = "idle" /\ "drain" \in May[t]
    /\ degraded
    /\ todo' = [todo EXCEPT ![t] = tracked]
    /\ Goto(t, "head")
    /\ UNCHANGED <<store, mode, evictions, tracked, call, before, reading, dropped, bounds>>

\* The first switch still to do, in sorted order.
Current(t) == CHOOSE s \in todo[t] : \A r \in todo[t] : s <= r

\* An empty buffer finishes its switch.
SwitchDone(t) ==
    /\ pc[t] = "head" /\ todo[t] # {}
    /\ fallback[Current(t)] = <<>>
    /\ todo' = [todo EXCEPT ![t] = @ \ {Current(t)}]
    /\ UNCHANGED <<store, mode, evictions, tracked, pc, call, before, reading, dropped, bounds>>

TakeHead(t) ==
    /\ pc[t] = "head" /\ todo[t] # {}
    /\ fallback[Current(t)] # <<>>
    /\ of' = [of EXCEPT ![t] = Current(t)]
    /\ hand' = [hand EXCEPT ![t] = Head(fallback[Current(t)])]
    /\ Goto(t, "move")
    /\ UNCHANGED <<store, mode, evictions, tracked, local, reading, dropped, bounds>>

Move(t) ==
    /\ pc[t] = "move"
    /\ Stored(t)
    /\ Goto(t, "pop")
    /\ UNCHANGED <<fallback, mode, evictions, tracked, call, local, reading, dropped, bounds>>

\* The recovery gives up, still degraded, with the record still in front.
MoveRaises(t) == RaiseFrom(t, "move", "idle")

\* Pop, with what is left of the buffer.  A load that runs now reads the
\* record twice, or, having read the primary before the move, not at all.
PopLeaves(t, rest) ==
    /\ pc[t] = "pop"
    /\ fallback' = [fallback EXCEPT ![of[t]] = rest]
    /\ stale' = [u \in Caller |-> stale[u] \/ pc[u] \in {"rest", "answer"}]
    /\ Goto(t, "head")
    /\ UNCHANGED <<primary, mode, evictions, tracked, call, local, seen, owed, dropped, bounds>>

\* Mutant: the newest record is removed, as list.pop() would.
PopNewest(t) == PopLeaves(t, SubSeq(fallback[of[t]], 1, Len(fallback[of[t]]) - 1))

\* _pop_fallback_head: whatever is in front by now goes.
Pop(t) == PopLeaves(t, IF fallback[of[t]] = <<>> THEN <<>> ELSE Tail(fallback[of[t]]))

\* Mutant: the recovery announces itself without clearing the flag.
HealthyForgets(t) ==
    /\ pc[t] = "healthy"
    /\ sinceProbe' = 0
    /\ Goto(t, "idle")
    /\ UNCHANGED <<store, degraded, evictions, tracked, call, local, reading, dropped, bounds>>

\* Nothing looks at the buffers again before the flag is cleared.
Healthy(t) ==
    /\ pc[t] = "healthy"
    /\ degraded' = FALSE /\ sinceProbe' = 0
    /\ Goto(t, "idle")
    /\ UNCHANGED <<store, evictions, tracked, call, local, reading, dropped, bounds>>

Drained(t) ==
    /\ pc[t] = "head" /\ todo[t] = {}
    /\ Goto(t, "healthy")
    /\ UNCHANGED <<store, mode, evictions, tracked, call, local, reading, dropped, bounds>>

(* load_records *)

\* Somebody stands between writing a record to the primary and removing it
\* from the fallback.
Doubled == \E u \in Caller : pc[u] = "pop"

\* The primary's part of a load.
LoadFrom(t, s, part) ==
    /\ pc[t] = "idle" /\ "load_records" \in May[t]
    /\ of' = [of EXCEPT ![t] = s]
    /\ seen' = [seen EXCEPT ![t] = part]
    /\ stale' = [stale EXCEPT ![t] = Doubled]
    /\ Goto(t, "rest")
    /\ UNCHANGED <<store, mode, evictions, tracked, hand, local, dropped, next>>

Owe(t, records) == owed' = [owed EXCEPT ![t] = records]

\* Mutant: a degraded log answers from its fallback alone.
LoadPrimaryWhenHealthy(t, s) ==
    /\ LoadFrom(t, s, IF degraded THEN <<>> ELSE primary[s])
    /\ Owe(t, ToSet(primary[s]) \cup ToSet(fallback[s]))
    /\ UNCHANGED faults

LoadPrimary(t, s) ==
    /\ LoadFrom(t, s, primary[s])
    /\ Owe(t, ToSet(primary[s]) \cup ToSet(fallback[s]))
    /\ UNCHANGED faults

\* A primary that raises contributes nothing.
LoadPrimaryRaises(t, s) == LoadFrom(t, s, <<>>) /\ Owe(t, ToSet(fallback[s])) /\ Raise

LoadFallback(t) ==
    /\ pc[t] = "rest"
    /\ seen' = [seen EXCEPT ![t] = @ \o fallback[of[t]]]
    /\ Goto(t, "answer")
    /\ UNCHANGED <<store, mode, evictions, tracked, call, local, owed, stale, dropped, bounds>>

Answer(t) ==
    /\ pc[t] = "answer"
    /\ seen' = [seen EXCEPT ![t] = <<>>]
    /\ owed' = [owed EXCEPT ![t] = {}]
    /\ stale' = [stale EXCEPT ![t] = FALSE]
    /\ Goto(t, "idle")
    /\ UNCHANGED <<store, mode, evictions, tracked, call, local, dropped, bounds>>
-----------------------------------------------------------------------------
Init ==
    /\ primary = Nothing /\ fallback = Nothing
    /\ degraded = FALSE /\ sinceProbe = 0 /\ evictions = 0
    /\ tracked = {}
    /\ pc = [t \in Caller |-> "idle"]
    /\ of = [t \in Caller |-> CHOOSE s \in Switch : TRUE]
    /\ hand = [t \in Caller |-> 0]
    /\ before = [t \in Caller |-> 0]
    /\ todo = [t \in Caller |-> {}]
    /\ seen = [t \in Caller |-> <<>>]
    /\ owed = [t \in Caller |-> {}]
    /\ stale = [t \in Caller |-> FALSE]
    /\ dropped = {}
    /\ next = 1 /\ faults = 0

AppendStep(t) ==
    \/ PrimaryTakes(t) \/ PrimaryRaises(t) \/ EnterDegraded(t)
    \/ Measure(t) \/ Spill(t) \/ CountSpilled(t)
RecoverStep(t) ==
    \/ SwitchDone(t) \/ TakeHead(t) \/ Move(t) \/ MoveRaises(t) \/ Pop(t)
    \/ Drained(t) \/ Healthy(t)
LoadStep(t) == LoadFallback(t) \/ Answer(t)

Next ==
    \E t \in Caller :
        \/ AppendStep(t) \/ Drain(t) \/ RecoverStep(t)
        \/ \E s \in Switch :
              AppendBegin(t, s) \/ LoadPrimary(t, s) \/ LoadPrimaryRaises(t, s)
        \/ LoadStep(t)

Spec == Init /\ [][Next]_vars

\* A call that has begun goes on, and an operator calls drain() while degraded.
Fairness ==
    \A t \in Caller :
        /\ WF_vars(AppendStep(t)) /\ WF_vars(RecoverStep(t)) /\ WF_vars(LoadStep(t))
        /\ SF_vars(Drain(t))

FairSpec == Spec /\ Fairness
-----------------------------------------------------------------------------
(* Properties.  Writers: one thread appends and drains. *)

Writer == {t \in Caller : May[t] \cap {"append_record", "drain"} # {}}

TypeOK ==
    /\ primary \in [Switch -> Seq(Record)]
    /\ fallback \in [Switch -> Seq(Record)]
    /\ \A s \in Switch : Len(fallback[s]) <= Capacity
    /\ degraded \in BOOLEAN
    /\ sinceProbe \in 0 .. ProbeEvery - 1
    /\ evictions \in Nat
    /\ tracked \subseteq Switch
    /\ pc \in [Caller -> Label]
    /\ of \in [Caller -> Switch]
    /\ hand \in [Caller -> Record \cup {0}]
    /\ before \in [Caller -> Nat]
    /\ todo \in [Caller -> SUBSET Switch]
    /\ seen \in [Caller -> Seq(Record)]
    /\ owed \in [Caller -> SUBSET Record]
    /\ stale \in [Caller -> BOOLEAN]
    /\ dropped \subseteq Record
    /\ next \in 1 .. MaxRecords + 1 /\ faults \in 0 .. MaxFaults

\* With one writer, a storage that calls itself healthy has nothing left in
\* its fallback: no record waits there for an episode that may never come.
HealthyMeansDrained ==
    (\A t \in Writer : pc[t] = "idle") /\ ~degraded => fallback = Nothing

\* With one writer, degraded_evictions is the number of records the bounded
\* fallback really let go of, whatever recoveries shrank it in between.
EvictionsCounted ==
    \A t \in Writer : pc[t] # "count" => evictions = Cardinality(dropped)

\* Everything stays in range, a healthy log has nothing left in its fallback,
\* and every record the fallback pushed out was counted (storage.py 1477-1574).
SpillIsKept == TypeOK /\ HealthyMeansDrained /\ EvictionsCounted

\* A load_records past which no record moved answers with everything that was
\* there when it began and was not evicted since.
ReadIsComplete ==
    \A t \in Caller : pc[t] = "answer" /\ ~stale[t] => owed[t] \ dropped \subseteq ToSet(seen[t])

\* However often the primary fails in the middle of a recovery, once it stops
\* failing drain() ends the episode.
EpisodeEnds == degraded ~> ~degraded

\* The one log a writer has: the primary, then the fallback, less the record
\* a recovery has moved and not yet removed.
Held == [s \in Switch |->
    primary[s] \o IF \E t \in Caller : pc[t] = "pop" /\ of[t] = s THEN Tail(fallback[s])
                                                                  ELSE fallback[s]]

Promised == INSTANCE OutcomeLog WITH log <- Held, lost <- evictions

\* With one writer, ResilientStorage is one ordered log that loses only what
\* the bounded fallback evicts and repeats only what a raising primary kept.
ImplementsOutcomeLog == Promised!Spec
=============================================================================
