----------------------------- MODULE SwitchSignals -----------------------------
(***************************************************************************)
(* What justifies the phase of a persisted switch, across deployments:     *)
(* the signature of its judge, gate and rule version, reconciled at every  *)
(* construction (core.py reconcile_signals, signals.py), the default-set   *)
(* version its gate is pinned to (defaults.py, migrate_defaults), and the  *)
(* state that snapshot, rollback and uninstall move about.                 *)
(*                                                                         *)
(* Judge, strategy and labels are one component here: each of them trains  *)
(* the head, and the code treats a change of any of them alike.  The       *)
(* advisory digests (head version, rule bytecode) change no state that     *)
(* matters, and the ledger and the breaker blob, which nothing here reads  *)
(* back, are left out.  Storage calls are taken to succeed; the process    *)
(* may die between any two of them.                                        *)
(***************************************************************************)
EXTENDS Phases, FiniteSets

CONSTANTS
    Judge,         \* what verdicts and heads come from: judge, strategy, labels
    Rule,          \* values of rule_version
    Version,       \* default-set versions
    Embedded,      \* the versions this SDK build can resolve
    Baseline,      \* the version an unknown one resolves to
    OwnGate,       \* gates an operator supplies, by identity
    Counting,      \* the gates that expose a min_paired
    Selecting,     \* those with a strategy that selects the head, not a supplied one
    Action,        \* config.signal_swap_action
    StartingPhase, \* config.starting_phase as the code configures it
    Rollout,       \* the deployments that may be started, in any order
    May,           \* the operations that are called
    None,          \* no blob, no head, no snapshot, no decision
    Untrained,     \* a head, or the bytes of one, that nobody has fitted
    MaxRestarts,   \* bound: constructions after the first
    MaxMoves       \* bound: promotions, migrations and rollbacks

Gate == Version \cup OwnGate
Due == "due"   \* a checkpoint is owed
Operation == {"advance", "demote", "refit", "refit_head", "reconcile_signals", "migrate_defaults",
              "rollback", "uninstall"}

\* The signature is [judge, rule, gate]; gate is what identifies it, which for
\* a library default is the pinned version.
Signature == [judge : Judge, rule : Rule, gate : Gate \cup {None}]
\* What is deployed: the program's own judge, rule version and gate, None for
\* gate=None, and the version the installed SDK calls current.
Deployment == [judge : Judge, rule : Rule, gate : OwnGate \cup {None}, current : Embedded]
\* A gate's answer: whether the phase still wins, and whether there were
\* enough paired records to say so.
Decision == [better : BOOLEAN, enough : BOOLEAN]

ASSUME SignalsAssumption ==
    /\ Embedded \subseteq Version /\ Baseline \in Embedded
    /\ Version \cap OwnGate = {} /\ None \notin Gate \cup Judge \cup Rule
    /\ None \notin Signature /\ None \notin Decision
    /\ Untrained \notin Judge \cup {None} /\ Due \notin Judge \cup {Untrained, None}
    /\ Counting \subseteq Gate
    /\ Selecting \subseteq Judge
    /\ Action \in {"demote", "flag"}
    /\ StartingPhase \in Phase
    /\ Rollout \subseteq Deployment
    /\ May \subseteq Operation
    /\ MaxRestarts \in Nat /\ MaxMoves \in Nat

VARIABLES
    deployed,    \* the running deployment
    phase,       \* config.starting_phase, which the phase moves mutate
    version,     \* _default_set_version
    gate,        \* config.gate, by the version that resolves to it
    head,        \* the judge the in-memory head was fitted under
    headBlob,    \* the same, of the persisted head
    signature,   \* the persisted signature
    snapshot,    \* a snapshot() the operator keeps
    pc,          \* where construction, or an operation under _lock, stands
    decision,    \* the gate's answer in a re-justification
    target,      \* the state a rollback or uninstall restores
    loader,      \* the background load has not run yet
    inflight,    \* a checkpoint: its bytes still to take, or still to write
    restored,    \* history: a rollback or uninstall has begun
    restarts, moves

vars == <<deployed, phase, version, gate, head, headBlob, signature, snapshot, pc, decision,
          target, loader, inflight, restored, restarts, moves>>
blobs   == <<headBlob, signature>>
pinned  == <<version, gate>>
bounds  == <<restarts, moves>>
aside   == <<deployed, snapshot, restored, bounds>>

Head == Judge \cup {Untrained, None}
Label == {"reconcile", "ask", "act", "quarantine", "save", "up",
          "putHead", "putSignature", "putPhase", "verifyHead", "verifySignature"}
-----------------------------------------------------------------------------
(* signals.py and defaults.py *)

Managed == deployed.gate = None
Supplied(d) == d.judge \notin Selecting

\* resolve_gate: a version this build does not know gives the baseline gate.
resolve_gate(v) == IF v \in Embedded THEN v ELSE Baseline

signal_signature ==
    [judge |-> deployed.judge, rule |-> deployed.rule,
     gate |-> IF Managed THEN version ELSE deployed.gate]

\* changed_components, against the persisted signature.
Changed == {c \in DOMAIN signature : signature[c] # signal_signature[c]}

\* A changed default under a switch with nothing else changed.
DefaultDrift == Changed = {"gate"} /\ Managed /\ signature.gate \in Version

(* reconcile_signals, at construction or called by the operator *)

Locked == pc # "up"
Step(from, to) == pc = from /\ pc' = to

\* No signature yet: adopt the current one, whatever head is persisted.
Adopt ==
    /\ signature = None
    /\ Step("reconcile", "up")
    /\ signature' = signal_signature
    /\ UNCHANGED <<aside, phase, pinned, head, headBlob, decision, target, loader, inflight>>

Unchanged ==
    /\ signature # None /\ Changed = {}
    /\ Step("reconcile", "up")
    /\ UNCHANGED <<aside, phase, pinned, head, blobs, decision, target, loader, inflight>>

\* Mutant: the version is pinned, and the gate stays the new default.
PinVersionOnly ==
    /\ signature # None /\ DefaultDrift
    /\ Step("reconcile", "up")
    /\ version' = signature.gate
    /\ UNCHANGED <<aside, phase, gate, head, blobs, decision, target, loader, inflight>>

\* A library upgrade does not re-grade: the switch keeps the version of its
\* signature, which is then written back as it was.
Pin ==
    /\ signature # None /\ DefaultDrift
    /\ Step("reconcile", "up")
    /\ version' = signature.gate
    /\ gate' = resolve_gate(signature.gate)
    /\ UNCHANGED <<aside, phase, head, blobs, decision, target, loader, inflight>>

Swap ==
    /\ signature # None /\ Changed # {} /\ ~DefaultDrift
    /\ Step("reconcile", IF Action = "flag" THEN "quarantine" ELSE "ask")
    /\ UNCHANGED <<aside, phase, pinned, head, blobs, decision, target, loader, inflight>>

\* The current gate judges the phase against the one below, on the recency
\* window; at RULE there is nothing to judge, and a raising gate ends the loop.
Ask ==
    /\ \/ phase # RULE /\ Step("ask", "act") /\ decision' \in Decision
       \/ Step("ask", "quarantine") /\ decision' = None
    /\ UNCHANGED <<aside, phase, pinned, head, blobs, target, loader, inflight>>

\* min_paired is 0 for a gate that does not expose it.
Stands == decision.better \/ (~decision.enough /\ gate \in Counting)

Hold ==
    /\ Step("act", "quarantine")
    /\ Stands
    /\ decision' = None
    /\ UNCHANGED <<aside, phase, pinned, head, blobs, target, loader, inflight>>

\* Mutant: demote() is refused, as at a floor, and the loop asks again.
StepDownRefused ==
    /\ Step("act", "ask")
    /\ ~Stands
    /\ decision' = None
    /\ UNCHANGED <<aside, phase, pinned, head, blobs, target, loader, inflight>>

StepDown ==
    /\ Step("act", "ask")
    /\ ~Stands
    /\ phase' = phase - 1
    /\ decision' = None
    /\ UNCHANGED <<aside, pinned, head, blobs, target, loader, inflight>>

\* Mutant: only a changed gate invalidates the head.
QuarantineOnGate ==
    /\ Step("quarantine", "save")
    /\ headBlob' = IF "gate" \in Changed THEN None ELSE headBlob
    /\ head' = IF "gate" \in Changed /\ ~Supplied(deployed) THEN None ELSE head
    /\ UNCHANGED <<aside, phase, pinned, signature, decision, target, loader, inflight>>

\* A head fitted under another judge is dropped: its blob, and the selected
\* instance; a supplied instance belongs to the operator.
Quarantine ==
    /\ Step("quarantine", "save")
    /\ headBlob' = IF "judge" \in Changed THEN None ELSE headBlob
    /\ head' = IF "judge" \in Changed /\ ~Supplied(deployed) THEN None ELSE head
    /\ UNCHANGED <<aside, phase, pinned, signature, decision, target, loader, inflight>>

SaveSignature ==
    /\ Step("save", "up")
    /\ signature' = signal_signature
    /\ UNCHANGED <<aside, phase, pinned, head, headBlob, decision, target, loader, inflight>>

Reconcile == "reconcile_signals" \in May /\ Step("up", "reconcile")
             /\ UNCHANGED <<aside, phase, pinned, head, blobs, decision, target, loader, inflight>>

(* The head: selection, background load, fit, checkpoint *)

\* A serve selects the strategy's head when there is none.
SelectHead ==
    /\ ~Supplied(deployed) /\ head = None
    /\ head' = Untrained
    /\ UNCHANGED <<aside, phase, pinned, blobs, pc, decision, target, loader, inflight>>

\* Construction starts the loader of a supplied head once it has reconciled.
LoadHead ==
    /\ loader /\ ~Locked
    /\ loader' = FALSE
    /\ head' = IF headBlob # None THEN headBlob ELSE head
    /\ UNCHANGED <<aside, phase, pinned, blobs, pc, decision, target, inflight>>

\* refit() takes only the head lock, and ends in a checkpoint.
Refit ==
    /\ "refit" \in May /\ head # None /\ inflight = None
    /\ ~Locked
    /\ head' = deployed.judge
    /\ inflight' = Due
    /\ UNCHANGED <<aside, phase, pinned, blobs, pc, decision, target, loader>>

TakeBytes ==
    /\ inflight = Due
    /\ inflight' = head
    /\ UNCHANGED <<aside, phase, pinned, head, blobs, pc, decision, target, loader>>

\* The bytes are written with no lock held.
PutHead ==
    /\ inflight \notin {None, Due}
    /\ headBlob' = inflight
    /\ inflight' = None
    /\ UNCHANGED <<aside, phase, pinned, head, signature, pc, decision, target, loader>>

RefitHead ==
    /\ "refit_head" \in May /\ ~Locked
    /\ headBlob' = None
    /\ head' = IF Supplied(deployed) THEN head ELSE None
    /\ UNCHANGED <<aside, phase, pinned, signature, pc, decision, target, loader, inflight>>

(* Phase moves and migration *)

Spend == moves < MaxMoves /\ moves' = moves + 1
spared == <<deployed, snapshot, restored, restarts>>

\* A promotion ends in a checkpoint too.
Advance ==
    /\ "advance" \in May /\ ~Locked /\ inflight = None
    /\ next_phase(phase) # NoPhase /\ Spend
    /\ phase' = next_phase(phase)
    /\ inflight' = Due
    /\ UNCHANGED <<spared, pinned, head, blobs, pc, decision, target, loader>>

Demote ==
    /\ "demote" \in May /\ ~Locked
    /\ prev_phase(phase) # NoPhase
    /\ phase' = prev_phase(phase)
    /\ UNCHANGED <<aside, pinned, head, blobs, pc, decision, target, loader, inflight>>

\* What migrate_defaults leaves behind when it adopts version v in phase p.
AdoptVersion(v, p) ==
    /\ version' = v /\ gate' = resolve_gate(v)
    /\ phase' = p
    /\ signature' = [signal_signature EXCEPT !.gate = v]

\* The new gate must justify the phase, on enough evidence; if it does not,
\* accept_reset adopts it all the same and starts over from RULE, and without
\* it nothing moves.
Justifies(v, d) == d.better /\ (d.enough \/ resolve_gate(v) \notin Counting)

Migrate(v, d, accept_reset) ==
    /\ "migrate_defaults" \in May /\ ~Locked
    /\ Managed /\ v # version /\ Spend
    /\ IF phase = RULE \/ Justifies(v, d) THEN AdoptVersion(v, phase)
       ELSE IF accept_reset THEN AdoptVersion(v, RULE)
       ELSE UNCHANGED <<version, gate, phase, signature>>
    /\ UNCHANGED <<spared, head, headBlob, pc, decision, target, loader, inflight>>

(* snapshot, rollback, uninstall *)

\* A snapshot is taken only while the bound leaves something to do with it.
TakeSnapshot ==
    /\ {"rollback", "uninstall"} \cap May # {} /\ ~Locked /\ snapshot = None
    /\ moves < MaxMoves
    /\ snapshot' = [head |-> headBlob, signature |-> signature, phase |-> phase, version |-> version]
    /\ UNCHANGED <<deployed, restored, bounds, phase, pinned, head, blobs, pc, decision,
                   target, loader, inflight>>

Clean == [head |-> None, signature |-> None, phase |-> RULE,
          version |-> IF Managed THEN deployed.current ELSE None]

\* Rollback restores the snapshot; uninstall restores it, or nothing at all,
\* and then verifies.
Restore(state, verify) ==
    /\ Step("up", "putHead") /\ Spend
    /\ target' = [state |-> state, verify |-> verify]
    /\ restored' = TRUE
    /\ UNCHANGED <<deployed, snapshot, restarts, phase, pinned, head, blobs, decision,
                   loader, inflight>>

Rollback == "rollback" \in May /\ snapshot # None /\ Restore(snapshot, FALSE)
Uninstall == "uninstall" \in May /\ \E state \in {snapshot, Clean} \ {None} : Restore(state, TRUE)

\* One storage call per key, in the order of _SNAPSHOT_STATE_KEYS; a key that
\* was absent is deleted.
RestoreHead ==
    /\ Step("putHead", "putSignature")
    /\ headBlob' = target.state.head
    /\ UNCHANGED <<aside, phase, pinned, head, signature, decision, target, loader, inflight>>

RestoreSignature ==
    /\ Step("putSignature", "putPhase")
    /\ signature' = target.state.signature
    /\ UNCHANGED <<aside, phase, pinned, head, headBlob, decision, target, loader, inflight>>

\* The live head and config.gate stay as they are.
RestorePhase ==
    /\ Step("putPhase", IF target.verify THEN "verifyHead" ELSE "up")
    /\ phase' = target.state.phase
    /\ version' = target.state.version
    /\ target' = IF target.verify THEN target ELSE None
    /\ UNCHANGED <<aside, gate, head, blobs, decision, loader, inflight>>

\* Each key is read back; a difference raises, and either way the lock is left.
VerifyHead ==
    /\ Step("verifyHead", IF headBlob = target.state.head THEN "verifySignature" ELSE "up")
    /\ UNCHANGED <<aside, phase, pinned, head, blobs, decision, target, loader, inflight>>

VerifySignature ==
    /\ Step("verifySignature", "up")
    /\ target' = None
    /\ UNCHANGED <<aside, phase, pinned, head, blobs, decision, loader, inflight>>
-----------------------------------------------------------------------------
(* Construction *)

\* __init__ of deployment d, up to the reconciliation.
Constructed(d) ==
    /\ deployed' = d
    /\ phase' = StartingPhase
    /\ version' = IF d.gate = None THEN d.current ELSE None
    /\ gate' = IF d.gate = None THEN resolve_gate(d.current) ELSE d.gate
    /\ head' = IF Supplied(d) THEN Untrained ELSE None
    /\ loader' = Supplied(d)
    /\ pc' = "reconcile"
    /\ decision' = None /\ target' = None /\ inflight' = None

\* The process ends, at any point, and a deployment of the same switch starts.
Restart ==
    /\ restarts < MaxRestarts
    /\ restarts' = restarts + 1
    /\ \E d \in Rollout : Constructed(d)
    /\ UNCHANGED <<blobs, snapshot, restored, moves>>

Init ==
    /\ deployed \in Rollout
    /\ phase = StartingPhase
    /\ version = IF Managed THEN deployed.current ELSE None
    /\ gate = IF Managed THEN resolve_gate(deployed.current) ELSE deployed.gate
    /\ head = IF Supplied(deployed) THEN Untrained ELSE None
    /\ loader = Supplied(deployed)
    /\ headBlob = None /\ signature = None /\ snapshot = None
    /\ pc = "reconcile"
    /\ decision = None /\ target = None /\ inflight = None
    /\ restored = FALSE
    /\ restarts = 0 /\ moves = 0

ReconcileStep ==
    \/ Adopt \/ Unchanged \/ Pin \/ Swap
    \/ Ask \/ Hold \/ StepDown \/ Quarantine \/ SaveSignature
RestoreStep == RestoreHead \/ RestoreSignature \/ RestorePhase \/ VerifyHead \/ VerifySignature
HeadStep == SelectHead \/ LoadHead \/ Refit \/ TakeBytes \/ PutHead \/ RefitHead

Next ==
    \/ ReconcileStep \/ RestoreStep \/ HeadStep
    \/ Reconcile \/ Advance \/ Demote
    \/ \E v \in Version, d \in Decision, accept \in BOOLEAN : Migrate(v, d, accept)
    \/ TakeSnapshot \/ Rollback \/ Uninstall
    \/ Restart

Spec == Init /\ [][Next]_vars
FairSpec == Spec /\ WF_vars(ReconcileStep) /\ WF_vars(RestoreStep)
-----------------------------------------------------------------------------
(* Properties *)

Blob == [head : Head, signature : Signature \cup {None}, phase : Phase, version : Version \cup {None}]

TypeOK ==
    /\ deployed \in Deployment
    /\ phase \in Phase
    /\ version \in Version \cup {None} /\ gate \in Gate
    /\ head \in Head /\ headBlob \in Head
    /\ signature \in Signature \cup {None}
    /\ snapshot \in Blob \cup {None}
    /\ pc \in Label
    /\ decision \in Decision \cup {None}
    /\ target \in [state : Blob, verify : BOOLEAN] \cup {None}
    /\ loader \in BOOLEAN /\ restored \in BOOLEAN
    /\ inflight \in Head \cup {Due}
    /\ restarts \in 0 .. MaxRestarts /\ moves \in 0 .. MaxMoves

\* Until something is rolled back or uninstalled, a switch that is up never
\* holds a head fitted under another judge, strategy or label set than the
\* one it runs with, wherever earlier processes died.
HeadFitsJudge ==
    pc = "up" /\ ~restored => {head, headBlob} \cap Judge \subseteq {deployed.judge}

\* Until then, too, the persisted signature of a switch that is up is what it
\* runs with, so the next construction compares with the right thing.
SignatureIsCurrent == pc = "up" /\ ~restored => signature = signal_signature

\* Until then, the gate that grades the switch is the gate of the version it
\* says it is pinned to, across upgrades and migrations.
GateMatchesPin ==
    pc = "up" /\ ~restored /\ Managed => gate = resolve_gate(version)

\* A gate that says how much evidence it needs never demotes a phase, after a
\* swap, on less.
ThinEvidenceHolds ==
    [][pc = "act" /\ gate \in Counting /\ ~decision.enough => phase' = phase \/ pc' = "reconcile"]_vars

\* Reconciliation, rollback and uninstall end and leave the switch's lock.
LockIsLeft == Locked ~> ~Locked
=============================================================================
