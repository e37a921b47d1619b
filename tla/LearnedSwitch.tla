---------------------------- MODULE LearnedSwitch ---------------------------
(***************************************************************************)
(* One LearnedSwitch object (core.py) shared by the threads of a process:  *)
(* the phase ladder and the two auto-check counters, the verdict-recording *)
(* path that moves the phase, batch ingestion, the ML_PRIMARY circuit      *)
(* breaker, the ML head and its checkpoint, and a process crash.           *)
(*                                                                         *)
(* Every maximal stretch of a method that runs under self._lock is one     *)
(* step, except the two stretches that call user code while holding it     *)
(* (advance's gate evaluation, ML_PRIMARY's predict): those have a step    *)
(* that takes the lock and a step that releases it.  What a method does    *)
(* between two lock regions is split wherever another thread can see it.   *)
(* The gates, the verifier, the verdict source, the heads and the storage  *)
(* backend are the caller's objects: their answers are nondeterministic.   *)
(***************************************************************************)
EXTENDS SwitchConfig, FiniteSets

CONSTANTS
    Thread,          \* threads calling into the switch
    May,             \* May[t]: the public operations thread t calls
    AutoAdvance,     \* SwitchConfig.auto_advance at construction
    AutoDemote,      \* SwitchConfig.auto_demote
    Interval,        \* SwitchConfig.auto_advance_interval
    Cooldown,        \* SwitchConfig.phase_cooldown_records
    HasModel,        \* a language-model classifier was supplied
    HasVerifier,     \* SwitchConfig.verifier is set
    HeadSource,      \* "explicit" ml_head, a head_"strategy", or "absent"
    Persist,         \* LearnedSwitch(persist=True)
    StorageFaults,   \* append_record / put_state / delete_state may fail
    MaxRows,         \* bound: rows in one batch
    MaxFits,         \* bound: successful fits of the ML head
    MaxCrashes,      \* bound: process crashes
    Free             \* nobody holds self._lock

Operation == {"record_verdict", "classify", "advance", "demote",
              "bulk_record_verdicts", "bulk_record_verdicts_from_source",
              "reset_circuit_breaker", "persist_head", "refit", "refit_head"}

ASSUME SwitchAssumption ==
    /\ May \in [Thread -> SUBSET Operation]
    /\ Free \notin Thread
    /\ AutoAdvance \in BOOLEAN /\ AutoDemote \in BOOLEAN
    /\ HasModel \in BOOLEAN /\ HasVerifier \in BOOLEAN
    /\ Persist \in BOOLEAN /\ StorageFaults \in BOOLEAN
    /\ HeadSource \in {"explicit", "strategy", "absent"}
    /\ Interval \in Nat /\ Cooldown \in Nat
    /\ MaxRows \in Nat /\ MaxFits \in Nat /\ MaxCrashes \in Nat

\* self._ml_head is None; also an absent "head" blob, and an idle loader.
NoHead == -1
\* A head instance nobody has fitted; fit number n produces version n.
Untrained == 0
Version == Untrained .. MaxFits
\* The background loader has been started and has not read the blob yet.
Pending == -2

VARIABLES
    phase,        \* config.starting_phase, which advance/demote mutate
    autoAdvance,  \* config.auto_advance, which the batch methods mutate
    sinceCheck,   \* _records_since_advance_check, saturated at Interval
    sinceChange,  \* _records_since_phase_change, saturated at Cooldown
    lock,         \* holder of self._lock
    tripped,      \* _circuit_tripped
    breakerBlob,  \* persisted "breaker" state: what it would load as
    head,         \* _ml_head
    headBlob,     \* persisted "head" state
    loader,       \* background head loader: Pending, a blob in hand, or done
    fits,         \* fits performed so far
    retired,      \* history: newest head version refit_head has discarded
    pc,           \* where each thread stands
    ret,          \* where the record/classify/advance call returns to
    cur,          \* the local `current` / `phase` each thread has read
    auto,         \* the `_auto` flag of the advance in progress
    batch,        \* locals of the batch method in progress
    snap,         \* head bytes snapshotted and not written yet
    crashes       \* crashes so far

ladder  == <<phase, sinceCheck, sinceChange>>
breaker == <<tripped, breakerBlob>>
mlhead  == <<head, headBlob, loader, fits, retired>>
frame   == <<ret, cur, auto, batch, snap>>
vars == <<ladder, autoAdvance, lock, breaker, mlhead, pc, frame, crashes>>

Label == {"idle", "append", "count", "drift", "judged", "demote", "advcheck",
          "advance", "eval", "save", "put", "disable", "row", "rebase",
          "serve", "ensure", "primary", "predict", "judge"}
-----------------------------------------------------------------------------
Goto(t, l) == pc' = [pc EXCEPT ![t] = l]

\* The call returns normally to whoever made it.
Return(t) == Goto(t, ret[t])

\* classify raises: a batch row absorbs it and never reaches the verdict
\* source, any other caller gets the exception.
Raise(t) == Goto(t, IF ret[t] = "judge" THEN "row" ELSE ret[t])

Saturate(n, bound) == IF n > bound THEN bound ELSE n

\* Where a thread enters the operations whose first step is shared.
Entry == [record_verdict |-> "append", classify |-> "serve",
          advance |-> "advance", persist_head |-> "save"]

Begin(t) ==
    /\ pc[t] = "idle"
    /\ \E o \in May[t] \cap DOMAIN Entry : Goto(t, Entry[o])
    /\ ret' = [ret EXCEPT ![t] = "idle"]
    /\ auto' = [auto EXCEPT ![t] = FALSE]
    /\ UNCHANGED <<ladder, autoAdvance, lock, breaker, mlhead, cur, batch, snap, crashes>>

-----------------------------------------------------------------------------
(* record_verdict *)

\* append_record raises: nothing is counted.  A batch absorbs it, and so does
\* the verifier hop of classify, which then logs an UNKNOWN row instead.
AppendRaises(t) ==
    /\ pc[t] = "append"
    /\ StorageFaults
    /\ Return(t)
    /\ UNCHANGED <<ladder, autoAdvance, lock, breaker, mlhead, frame, crashes>>

\* The row is stored and the auto-check flags are read, without the lock.
AppendRecord(t) ==
    /\ pc[t] = "append"
    /\ IF autoAdvance \/ AutoDemote THEN Goto(t, "count") ELSE Return(t)
    /\ batch' = IF ret[t] = "row" THEN [batch EXCEPT ![t].recorded = TRUE] ELSE batch
    /\ UNCHANGED <<ladder, autoAdvance, lock, breaker, mlhead, ret, cur, auto, snap, crashes>>

\* Mutant of CheckDue: the cooldown forgotten.
CheckDueNoCooldown(check, change) == check >= Interval

\* Both conditions of an auto-check: the interval has passed since the last
\* one, and the cooldown since the last phase change.
CheckDue(check, change) == check >= Interval /\ change >= Cooldown

CountRecord(t) ==
    LET check  == Saturate(sinceCheck + 1, Interval)
        change == Saturate(sinceChange + 1, Cooldown)
    IN  /\ pc[t] = "count"
        /\ lock = Free
        /\ sinceChange' = change
        /\ IF CheckDue(check, change)
           THEN /\ sinceCheck' = 0
                /\ Goto(t, IF AutoDemote THEN "drift" ELSE "advcheck")
           ELSE /\ sinceCheck' = check
                /\ Return(t)
        /\ UNCHANGED <<phase, autoAdvance, lock, breaker, mlhead, frame, crashes>>

\* Mutant of ReadDriftPhase: the gate is asked about the phase a demotion would
\* lead to.
ReadDriftPhaseBelow(t) ==
    /\ pc[t] = "drift"
    /\ lock = Free
    /\ cur' = [cur EXCEPT ![t] = IF phase = RULE THEN phase ELSE prev_phase(phase)]
    /\ Goto(t, IF phase = RULE THEN "advcheck" ELSE "judged")
    /\ UNCHANGED <<ladder, autoAdvance, lock, breaker, mlhead, ret, auto, batch, snap, crashes>>

\* _maybe_auto_demote reads the phase under the lock and lets go of it ...
ReadDriftPhase(t) ==
    /\ pc[t] = "drift"
    /\ lock = Free
    /\ cur' = [cur EXCEPT ![t] = phase]
    /\ Goto(t, IF phase = RULE THEN "advcheck" ELSE "judged")
    /\ UNCHANGED <<ladder, autoAdvance, lock, breaker, mlhead, ret, auto, batch, snap, crashes>>

\* ... asks the drift gate about that phase (a gate that raises counts as no) ...
DriftGate(t) ==
    /\ pc[t] = "judged"
    /\ \/ Goto(t, "demote")
       \/ Goto(t, "advcheck")
    /\ UNCHANGED <<ladder, autoAdvance, lock, breaker, mlhead, frame, crashes>>

StepDown ==
    IF prev_phase(phase) = NoPhase
    THEN UNCHANGED ladder
    ELSE /\ phase' = prev_phase(phase)
         /\ sinceChange' = 0
         /\ UNCHANGED sinceCheck

\* ... and calls demote(), which steps down whatever phase it finds.  It
\* reports "demoted" even from the floor, so the advance check is skipped.
AutoDemoteStep(t) ==
    /\ pc[t] = "demote"
    /\ lock = Free
    /\ StepDown
    /\ Return(t)
    /\ UNCHANGED <<autoAdvance, lock, breaker, mlhead, frame, crashes>>

CheckAutoAdvance(t) ==
    /\ pc[t] = "advcheck"
    /\ IF autoAdvance THEN Goto(t, "advance") ELSE Return(t)
    /\ auto' = [auto EXCEPT ![t] = autoAdvance]
    /\ UNCHANGED <<ladder, autoAdvance, lock, breaker, mlhead, ret, cur, batch, snap, crashes>>

-----------------------------------------------------------------------------
(* advance and demote *)

\* advance() refuses the top rung, the ceiling, and ML_PRIMARY when the switch
\* is safety critical.
AdvanceRefused(p) ==
    \/ next_phase(p) = NoPhase
    \/ next_phase(p) > phase_limit
    \/ SafetyCritical /\ next_phase(p) = ML_PRIMARY

AdvanceRefuse(t) ==
    /\ pc[t] = "advance"
    /\ lock = Free
    /\ AdvanceRefused(phase)
    /\ Return(t)
    /\ UNCHANGED <<ladder, autoAdvance, lock, breaker, mlhead, frame, crashes>>

AdvanceAsk(t) ==
    /\ pc[t] = "advance"
    /\ lock = Free
    /\ ~AdvanceRefused(phase)
    /\ lock' = t
    /\ cur' = [cur EXCEPT ![t] = phase]
    /\ Goto(t, "eval")
    /\ UNCHANGED <<ladder, autoAdvance, breaker, mlhead, ret, auto, batch, snap, crashes>>

\* The gate passes: the phase moves and the head is checkpointed after the
\* lock is released.
AdvancePass(t) ==
    /\ pc[t] = "eval"
    /\ phase' = next_phase(cur[t])
    /\ sinceChange' = 0
    /\ lock' = Free
    /\ Goto(t, "save")
    /\ UNCHANGED <<sinceCheck, autoAdvance, breaker, mlhead, frame, crashes>>

\* Mutant of AdvanceFail: a gate that raises leaves the lock taken.
AdvanceFailKeepsLock(t) ==
    /\ pc[t] = "eval"
    /\ Return(t)
    /\ UNCHANGED <<ladder, autoAdvance, lock, breaker, mlhead, frame, crashes>>

\* The gate refuses, or load_records or the gate raises.
AdvanceFail(t) ==
    /\ pc[t] = "eval"
    /\ lock' = Free
    /\ Return(t)
    /\ UNCHANGED <<ladder, autoAdvance, breaker, mlhead, frame, crashes>>

\* Mutant of Demote: it does not take the lock.
DemoteUnlocked(t) ==
    /\ pc[t] = "idle"
    /\ "demote" \in May[t]
    /\ StepDown
    /\ UNCHANGED <<autoAdvance, lock, breaker, mlhead, pc, frame, crashes>>

\* An operator's demote().
Demote(t) ==
    /\ pc[t] = "idle"
    /\ "demote" \in May[t]
    /\ lock = Free
    /\ StepDown
    /\ UNCHANGED <<autoAdvance, lock, breaker, mlhead, pc, frame, crashes>>

-----------------------------------------------------------------------------
(* bulk_record_verdicts and bulk_record_verdicts_from_source *)

\* No batch in progress.
IdleBatch == [left |-> 0, prior |-> FALSE, recorded |-> FALSE, src |-> FALSE]

\* The enabled flag is remembered ...
BatchBegin(t) ==
    /\ pc[t] = "idle"
    /\ \E n \in 0 .. MaxRows, src \in BOOLEAN :
          /\ (IF src THEN "bulk_record_verdicts_from_source"
                     ELSE "bulk_record_verdicts") \in May[t]
          /\ batch' = [batch EXCEPT ![t] =
                 [left |-> n, prior |-> autoAdvance, recorded |-> FALSE, src |-> src]]
    /\ Goto(t, "disable")
    /\ UNCHANGED <<ladder, autoAdvance, lock, breaker, mlhead, ret, cur, auto, snap, crashes>>

\* ... and switched off for the duration of the batch.
BatchDisable(t) ==
    /\ pc[t] = "disable"
    /\ autoAdvance' = FALSE
    /\ Goto(t, "row")
    /\ UNCHANGED <<ladder, lock, breaker, mlhead, frame, crashes>>

BatchRow(t) ==
    /\ pc[t] = "row"
    /\ batch[t].left > 0
    /\ batch' = [batch EXCEPT ![t].left = @ - 1]
    /\ IF batch[t].src
       THEN Goto(t, "serve") /\ ret' = [ret EXCEPT ![t] = "judge"]
       ELSE Goto(t, "append") /\ ret' = [ret EXCEPT ![t] = "row"]
    /\ UNCHANGED <<ladder, autoAdvance, lock, breaker, mlhead, cur, auto, snap, crashes>>

\* The verdict source judges the label classify returned, or raises.
JudgeRow(t) ==
    /\ pc[t] = "judge"
    /\ \/ Goto(t, "append")
       \/ Goto(t, "row")
    /\ ret' = [ret EXCEPT ![t] = "row"]
    /\ UNCHANGED <<ladder, autoAdvance, lock, breaker, mlhead, cur, auto, batch, snap, crashes>>

\* Mutant of BatchEnd: a batch in which every row failed leaves the flag off.
BatchEndEarlyExit(t) ==
    /\ pc[t] = "row"
    /\ batch[t].left = 0
    /\ autoAdvance' = (batch[t].recorded /\ batch[t].prior)
    /\ Goto(t, IF batch[t].prior /\ batch[t].recorded THEN "rebase" ELSE "idle")
    /\ ret' = [ret EXCEPT ![t] = "idle"]
    /\ batch' = [batch EXCEPT ![t] = IdleBatch]
    /\ UNCHANGED <<ladder, lock, breaker, mlhead, cur, auto, snap, crashes>>

\* The flag gets back the value this batch found; a batch that recorded
\* anything then probes the advance gate.
BatchEnd(t) ==
    /\ pc[t] = "row"
    /\ batch[t].left = 0
    /\ autoAdvance' = batch[t].prior
    /\ Goto(t, IF batch[t].prior /\ batch[t].recorded THEN "rebase" ELSE "idle")
    /\ ret' = [ret EXCEPT ![t] = "idle"]
    /\ batch' = [batch EXCEPT ![t] = IdleBatch]
    /\ UNCHANGED <<ladder, lock, breaker, mlhead, cur, auto, snap, crashes>>

BatchProbe(t) ==
    /\ pc[t] = "rebase"
    /\ lock = Free
    /\ sinceCheck' = 0
    /\ auto' = [auto EXCEPT ![t] = TRUE]
    /\ Goto(t, "advance")
    /\ UNCHANGED <<phase, sinceChange, autoAdvance, lock, breaker, mlhead, ret, cur, batch, snap,
                   crashes>>

-----------------------------------------------------------------------------
(* classify and the ML_PRIMARY circuit breaker *)

MLPhase == {ML_SHADOW, ML_WITH_FALLBACK, ML_PRIMARY}

\* The decision is made.  The verifier's verdict is recorded, or an UNKNOWN
\* row is logged, which no counter sees.
Decided(t) ==
    \/ HasVerifier /\ Goto(t, "append")
    \/ Return(t)

\* A phase the switch cannot serve in.
Unservable(p) ==
    \/ SafetyCritical /\ p = ML_PRIMARY
    \/ ~HasModel /\ p \in {MODEL_SHADOW, MODEL_PRIMARY}

\* The phase is read without the lock.  The rule may raise in any phase.
Serve(t) ==
    /\ pc[t] = "serve"
    /\ cur' = [cur EXCEPT ![t] = phase]
    /\ \/ Raise(t)
       \/ ~Unservable(phase) /\ phase \in MLPhase /\ Goto(t, "ensure")
       \/ ~Unservable(phase) /\ phase \notin MLPhase /\ Decided(t)
    /\ UNCHANGED <<ladder, autoAdvance, lock, breaker, mlhead, ret, auto, batch, snap, crashes>>

\* What the strategy's select() returns: a head nobody has fitted.
SelectedHead == Untrained

\* Mutant of EnsureHead: the lazy selection is skipped at ML_PRIMARY.
EnsureHeadShadowOnly(t) ==
    /\ pc[t] = "ensure"
    /\ head' = IF head = NoHead /\ cur[t] # ML_PRIMARY THEN SelectedHead ELSE head
    /\ IF cur[t] = ML_PRIMARY THEN Goto(t, "primary") ELSE Decided(t)
    /\ UNCHANGED <<ladder, autoAdvance, lock, breaker, headBlob, loader, fits, retired, frame,
                   crashes>>

\* With no strategy, or one that raises, there is no head to serve with.  Below
\* ML_PRIMARY a failing predict is absorbed and changes nothing.
EnsureHead(t) ==
    /\ pc[t] = "ensure"
    /\ \/ /\ head = NoHead
          /\ Raise(t)
          /\ UNCHANGED head
       \/ /\ head # NoHead \/ HeadSource = "strategy"
          /\ head' = IF head = NoHead THEN SelectedHead ELSE head
          /\ IF cur[t] = ML_PRIMARY THEN Goto(t, "primary") ELSE Decided(t)
    /\ UNCHANGED <<ladder, autoAdvance, lock, breaker, headBlob, loader, fits, retired, frame,
                   crashes>>

\* Mutant of PrimaryEnter: the breaker is read, then predict runs, unlocked.
PrimaryEnterUnlocked(t) ==
    /\ pc[t] = "primary"
    /\ IF tripped THEN Decided(t) ELSE Goto(t, "predict")
    /\ UNCHANGED <<ladder, autoAdvance, lock, breaker, mlhead, frame, crashes>>

\* An open breaker answers with the rule; a closed one calls the head with the
\* lock held.
PrimaryEnter(t) ==
    /\ pc[t] = "primary"
    /\ lock = Free
    /\ IF tripped
       THEN Decided(t) /\ UNCHANGED lock
       ELSE Goto(t, "predict") /\ lock' = t
    /\ UNCHANGED <<ladder, autoAdvance, breaker, mlhead, frame, crashes>>

\* A head that is not there raises like one that fails.
PredictAnswers(t) ==
    /\ pc[t] = "predict"
    /\ head # NoHead
    /\ lock' = Free
    /\ Decided(t)
    /\ UNCHANGED <<ladder, autoAdvance, breaker, mlhead, frame, crashes>>

\* A state write is swallowed when it fails.
Written(old, new) == {new} \cup (IF StorageFaults THEN {old} ELSE {})

\* _save_breaker_state after the in-memory flag takes the value v.
SetBreaker(v) ==
    /\ tripped' = v
    /\ IF Persist THEN breakerBlob' \in Written(breakerBlob, v) ELSE UNCHANGED breakerBlob

PredictRaises(t) ==
    /\ pc[t] = "predict"
    /\ SetBreaker(TRUE)
    /\ lock' = Free
    /\ Decided(t)
    /\ UNCHANGED <<ladder, autoAdvance, mlhead, frame, crashes>>

ResetBreaker(t) ==
    /\ pc[t] = "idle"
    /\ "reset_circuit_breaker" \in May[t]
    /\ lock = Free
    /\ SetBreaker(FALSE)
    /\ UNCHANGED <<ladder, autoAdvance, lock, mlhead, pc, frame, crashes>>

-----------------------------------------------------------------------------
(* The ML head: fit, checkpoint, refit_head, background load *)

\* refit() fits under the head lock; too few records leave the head as it is.
Refit(t) ==
    /\ pc[t] = "idle"
    /\ "refit" \in May[t]
    /\ head # NoHead
    /\ \/ /\ fits < MaxFits
          /\ fits' = fits + 1
          /\ head' = fits + 1
       \/ UNCHANGED <<fits, head>>
    /\ Goto(t, "save")
    /\ ret' = [ret EXCEPT ![t] = "idle"]
    /\ UNCHANGED <<ladder, autoAdvance, lock, breaker, headBlob, loader, retired, cur, auto,
                   batch, snap, crashes>>

\* _save_head_state takes the bytes under the head lock ...
SnapshotHead(t) ==
    /\ pc[t] = "save"
    /\ IF Persist /\ head # NoHead
       THEN Goto(t, "put") /\ snap' = [snap EXCEPT ![t] = head]
       ELSE Return(t) /\ UNCHANGED snap
    /\ UNCHANGED <<ladder, autoAdvance, lock, breaker, mlhead, ret, cur, auto, batch, crashes>>

\* ... and writes them after releasing it.
PutHead(t) ==
    /\ pc[t] = "put"
    /\ headBlob' \in Written(headBlob, snap[t])
    /\ Return(t)
    /\ UNCHANGED <<ladder, autoAdvance, lock, breaker, head, loader, fits, retired, frame,
                   crashes>>

\* Mutant of RefitHead: the live head is kept, to be checkpointed again.
RefitHeadKeepsLive(t) ==
    /\ pc[t] = "idle"
    /\ "refit_head" \in May[t]
    /\ lock = Free
    /\ headBlob' \in Written(headBlob, NoHead)
    /\ retired' = fits
    /\ UNCHANGED <<ladder, autoAdvance, lock, breaker, head, loader, fits, pc, frame, crashes>>

\* refit_head: drop the persisted head, and the live one when a strategy can
\* pick another.
RefitHead(t) ==
    /\ pc[t] = "idle"
    /\ "refit_head" \in May[t]
    /\ lock = Free
    /\ head # NoHead \/ HeadSource = "strategy" \/ headBlob # NoHead
    /\ headBlob' \in Written(headBlob, NoHead)
    /\ head' = IF HeadSource = "strategy" THEN NoHead ELSE head
    /\ retired' = fits
    /\ UNCHANGED <<ladder, autoAdvance, lock, breaker, loader, fits, pc, frame, crashes>>

\* A state read that fails is taken for "nothing persisted".
Loaded(blob, nothing) == {blob} \cup (IF StorageFaults THEN {nothing} ELSE {})

\* Mutant of LoaderRead: a switch with nothing persisted never signals done.
LoaderReadSomething ==
    /\ loader = Pending
    /\ headBlob # NoHead
    /\ loader' = headBlob
    /\ UNCHANGED <<ladder, autoAdvance, lock, breaker, head, headBlob, fits, retired, pc, frame,
                   crashes>>

\* The loader thread reads the blob, then loads it under the head lock.
LoaderRead ==
    /\ loader = Pending
    /\ loader' \in Loaded(headBlob, NoHead)
    /\ UNCHANGED <<ladder, autoAdvance, lock, breaker, head, headBlob, fits, retired, pc, frame,
                   crashes>>

\* A blob load_state refuses leaves the head as it was.
LoaderApply ==
    /\ loader \in Version
    /\ head' \in Loaded(loader, head)
    /\ loader' = NoHead
    /\ UNCHANGED <<ladder, autoAdvance, lock, breaker, headBlob, fits, retired, pc, frame,
                   crashes>>

-----------------------------------------------------------------------------
(* Construction, crash and restart *)

ConstructedHead   == IF HeadSource = "explicit" THEN Untrained ELSE NoHead
ConstructedLoader == IF Persist /\ HeadSource = "explicit" THEN Pending ELSE NoHead

Init ==
    /\ phase = StartingPhase
    /\ autoAdvance = AutoAdvance
    /\ sinceCheck = 0
    /\ sinceChange = Cooldown
    /\ lock = Free
    /\ tripped = FALSE /\ breakerBlob = FALSE
    /\ head = ConstructedHead /\ headBlob = NoHead
    /\ loader = ConstructedLoader
    /\ fits = 0 /\ retired = 0
    /\ pc = [t \in Thread |-> "idle"]
    /\ ret = [t \in Thread |-> "idle"]
    /\ cur = [t \in Thread |-> RULE]
    /\ auto = [t \in Thread |-> FALSE]
    /\ batch = [t \in Thread |-> IdleBatch]
    /\ snap = [t \in Thread |-> NoHead]
    /\ crashes = 0

\* The process dies and a new one constructs the switch from the same
\* configuration over the same storage.  Only the blobs survive.
Crash ==
    /\ crashes < MaxCrashes
    /\ crashes' = crashes + 1
    /\ phase' = StartingPhase
    /\ autoAdvance' = AutoAdvance
    /\ sinceCheck' = 0
    /\ sinceChange' = Cooldown
    /\ lock' = Free
    /\ tripped' \in Loaded(Persist /\ breakerBlob, FALSE)
    /\ head' = ConstructedHead
    /\ loader' = ConstructedLoader
    /\ pc' = [t \in Thread |-> "idle"]
    /\ ret' = [t \in Thread |-> "idle"]
    /\ cur' = [t \in Thread |-> RULE]
    /\ auto' = [t \in Thread |-> FALSE]
    /\ batch' = [t \in Thread |-> IdleBatch]
    /\ snap' = [t \in Thread |-> NoHead]
    /\ UNCHANGED <<breakerBlob, headBlob, fits, retired>>

-----------------------------------------------------------------------------
Step(t) ==
    \/ Begin(t)
    \/ AppendRaises(t) \/ AppendRecord(t) \/ CountRecord(t)
    \/ ReadDriftPhase(t) \/ DriftGate(t) \/ AutoDemoteStep(t) \/ CheckAutoAdvance(t)
    \/ AdvanceRefuse(t) \/ AdvanceAsk(t) \/ AdvancePass(t) \/ AdvanceFail(t)
    \/ Demote(t)
    \/ BatchBegin(t) \/ BatchDisable(t) \/ BatchRow(t) \/ JudgeRow(t) \/ BatchEnd(t)
    \/ BatchProbe(t)
    \/ Serve(t) \/ EnsureHead(t) \/ PrimaryEnter(t) \/ PredictAnswers(t) \/ PredictRaises(t)
    \/ ResetBreaker(t)
    \/ Refit(t) \/ SnapshotHead(t) \/ PutHead(t) \/ RefitHead(t)

Next == LoaderRead \/ LoaderApply \/ Crash \/ \E t \in Thread : Step(t)

Spec == Init /\ [][Next]_vars

\* A started operation is run on by its thread, and the loader thread runs.
\* Nothing makes a thread start an operation, and a thread waiting for a lock
\* that others keep taking may wait for ever: the lock is not a queue.
FairSpec ==
    /\ Spec
    /\ WF_vars(LoaderRead \/ LoaderApply)
    /\ \A t \in Thread : WF_vars(pc[t] # "idle" /\ Step(t))

-----------------------------------------------------------------------------
(* Properties *)

TypeOK ==
    /\ phase \in Phase
    /\ autoAdvance \in BOOLEAN
    /\ sinceCheck \in 0 .. Interval
    /\ sinceChange \in 0 .. Cooldown
    /\ lock \in Thread \cup {Free}
    /\ tripped \in BOOLEAN /\ breakerBlob \in BOOLEAN
    /\ head \in Version \cup {NoHead}
    /\ headBlob \in Version \cup {NoHead}
    /\ loader \in Version \cup {NoHead, Pending}
    /\ fits \in 0 .. MaxFits /\ retired \in 0 .. MaxFits
    /\ pc \in [Thread -> Label]
    /\ ret \in [Thread -> {"idle", "row", "judge"}]
    /\ cur \in [Thread -> Phase]
    /\ auto \in [Thread -> BOOLEAN]
    /\ batch \in [Thread -> [left : 0 .. MaxRows, prior : BOOLEAN, recorded : BOOLEAN,
                             src : BOOLEAN]]
    /\ snap \in [Thread -> Version \cup {NoHead}]
    /\ crashes \in 0 .. MaxCrashes

\* advance's gate call and ML_PRIMARY's predict run with self._lock held, and
\* no other step leaves it held.
LockDiscipline ==
    \A t \in Thread : pc[t] \in {"eval", "predict"} <=> lock = t

\* While the advance gate is judging a phase the switch stays in that phase and
\* stays entitled to leave it, so a promotion always leaves the phase the
\* evidence was about (core.py 1973-1976: the read / evaluate / mutate sequence
\* is serialized).
JudgedPhaseStands ==
    \A t \in Thread : pc[t] = "eval" => cur[t] = phase /\ ~AdvanceRefused(phase)

\* The switch is never above the ceiling it was configured with, nor in
\* ML_PRIMARY when safety critical (core.py 1984-2002).
WithinCeiling ==
    /\ phase <= phase_limit
    /\ SafetyCritical => phase # ML_PRIMARY

\* An auto-check that is due is only ever held back by the cooldown: none is
\* skipped however records, batches and phase changes interleave (core.py
\* 1867-1875).
CheckHeldBackOnlyByCooldown ==
    sinceCheck < Interval \/ sinceChange < Cooldown \/ Interval = 0

\* The detailed switch implements the abstract lifecycle.
Lifecycle == INSTANCE GraduatedAutonomy WITH phase <- phase
RefinesLifecycle == Lifecycle!Spec

\* The phase an automatic demotion leaves is the phase the drift gate judged
\* (core.py 1913-1917: the rationale names that phase).
DriftVerdictStands ==
    \A t \in Thread : pc[t] = "demote" => cur[t] = phase

\* No automatic phase change happens within Cooldown records of the last phase
\* change (core.py 424-428: "after ANY phase change (advance or demote),
\* suppress both auto-checks until phase_cooldown_records more verdicts").
AutoMovesCooled ==
    [][\A t \in Thread :
         AutoDemoteStep(t) \/ (AdvancePass(t) /\ auto[t]) =>
             phase' = phase \/ sinceChange = Cooldown]_vars

\* Once no batch is in progress config.auto_advance is what the operator
\* configured (core.py 2221: "Preserve the currently-enabled auto_advance flag").
InBatch(t) == pc[t] \in {"disable", "row"} \/ ret[t] \in {"row", "judge"}
BatchRestoresAutoAdvance ==
    (\A t \in Thread : ~InBatch(t)) => autoAdvance = AutoAdvance

\* No ML_PRIMARY predict is under way while the breaker is open: the first
\* failure shuts out every later caller (core.py 1608-1611).
NoPredictBehindOpenBreaker ==
    \A t \in Thread : pc[t] = "predict" => ~tripped

\* Unless a state write was lost, what a restart would load is the breaker the
\* running process has.
BreakerDurable ==
    Persist /\ ~StorageFaults => (tripped <=> breakerBlob)

\* The breaker opens only because a head failed, never because there was no
\* head to call (core.py 2407: it "trips automatically on ML failures").
TripMeansHeadFailed ==
    [][~tripped /\ tripped' /\ crashes' = crashes => head # NoHead]_vars

\* A head version refit_head discarded is not the persisted one (core.py
\* 3415-3418: "drop the persisted head ... so the next ML-phase serve re-fits").
DiscardedHeadStaysDiscarded ==
    HeadSource = "strategy" => headBlob \in {NoHead, Untrained} \cup (retired + 1 .. fits)

\* A batch that was started runs to its end, and its flag is restored.
BatchFinishes == \A t \in Thread : pc[t] = "disable" ~> pc[t] = "idle"

\* wait_until_head_loaded does not block for ever after the last restart.
HeadLoads == <>[](loader = NoHead)
=============================================================================
