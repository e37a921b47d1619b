------------------------ MODULE SwitchSignals_proofs ------------------------
(***************************************************************************)
(* Proofs about SwitchSignals, for any rollout, any gates and any bound:   *)
(* typing, then the inductive invariant IInv, from which the signature,    *)
(* the pinned gate and the heads of a switch that is up follow.            *)
(***************************************************************************)
EXTENDS SwitchSignals, TLAPS

\* The initial states are well typed.
LEMMA TypeInit == Init => TypeOK
<1> SUFFICES ASSUME Init PROVE TypeOK  OBVIOUS
<1> USE SignalsAssumption DEF SignalsAssumption, Init
<1>1. deployed \in Deployment /\ deployed.current \in Embedded
      /\ deployed.gate \in OwnGate \cup {None}
  BY DEF Deployment
<1>2. version \in Version \cup {None} /\ gate \in Gate
  BY <1>1 DEF Managed, resolve_gate, Gate
<1>3. head \in Head /\ headBlob \in Head /\ inflight \in Head \cup {Due}
  BY DEF Head
<1>4. pc \in Label /\ phase \in Phase /\ restarts \in 0 .. MaxRestarts /\ moves \in 0 .. MaxMoves
  BY DEF Label
<1>5. signature \in Signature \cup {None} /\ snapshot \in Blob \cup {None}
      /\ decision \in Decision \cup {None}
      /\ target \in [state : Blob, verify : BOOLEAN] \cup {None}
      /\ loader \in BOOLEAN /\ restored \in BOOLEAN
  BY DEF Supplied
<1> QED  BY <1>1, <1>2, <1>3, <1>4, <1>5 DEF TypeOK

\* What a well-typed switch signs, is a signature.
LEMMA SignatureType ==
    ASSUME TypeOK
    PROVE  /\ signal_signature \in Signature
           /\ \A v \in Version : [signal_signature EXCEPT !.gate = v] \in Signature
<1>1. deployed.judge \in Judge /\ deployed.rule \in Rule /\ deployed.gate \in OwnGate \cup {None}
  BY DEF TypeOK, Deployment
<1>2. version \in Version \cup {None}
  BY DEF TypeOK
<1> QED  BY <1>1, <1>2 DEF signal_signature, Signature, Gate, Managed

\* Where a component differs, the signature does; where none does, it is the
\* one the switch would sign; and where only the gate does, pinning the
\* switch to its version makes it so.
LEMMA Comparison ==
    ASSUME TypeOK, signature # None
    PROVE  /\ Changed = {} => signature = signal_signature
           /\ "judge" \notin Changed => signature.judge = deployed.judge
           /\ DefaultDrift => /\ signature.judge = deployed.judge
                              /\ signature.rule = deployed.rule
                              /\ signature.gate \in Version /\ Managed
<1>1. signature \in Signature /\ signal_signature \in Signature
  BY SignatureType DEF TypeOK
<1>2. DOMAIN signature = {"judge", "rule", "gate"}
  BY <1>1 DEF Signature
<1>3. signal_signature.judge = deployed.judge /\ signal_signature.rule = deployed.rule
  BY DEF signal_signature
<1>4. "judge" \notin Changed => signature.judge = deployed.judge
  BY <1>2, <1>3 DEF Changed
<1>5. "rule" \notin Changed => signature.rule = deployed.rule
  BY <1>2, <1>3 DEF Changed
<1>6. "gate" \notin Changed => signature.gate = signal_signature.gate
  BY <1>2 DEF Changed
<1>7. ASSUME Changed = {} PROVE signature = signal_signature
  <2>1. /\ signature.judge = signal_signature.judge
        /\ signature.rule = signal_signature.rule
        /\ signature.gate = signal_signature.gate
    BY <1>3, <1>4, <1>5, <1>6, <1>7
  <2> QED  BY <1>1, <2>1 DEF Signature
<1>8. ASSUME DefaultDrift
      PROVE  /\ signature.judge = deployed.judge /\ signature.rule = deployed.rule
             /\ signature.gate \in Version /\ Managed
  <2>1. "judge" \notin Changed /\ "rule" \notin Changed /\ signature.gate \in Version /\ Managed
    BY <1>8 DEF DefaultDrift
  <2> QED  BY <1>4, <1>5, <2>1
<1> QED  BY <1>4, <1>7, <1>8

\* What is true at every step, of the switch's lock and of its heads: a
\* re-justification is under way above RULE, a rollback has its target, the
\* gate is the pinned version's, and every head that could still be written
\* or served was fitted under the judge of the signature it goes with.
Restoring == {"putHead", "putSignature", "putPhase", "verifyHead", "verifySignature"}

Steady ==
    /\ pc = "act" => phase # RULE /\ decision # None
    /\ pc \in Restoring => restored /\ target \in [state : Blob, verify : BOOLEAN]

Pinned == ~restored /\ Managed => gate = resolve_gate(version)

Signed ==
    ~restored =>
        /\ pc = "up" \/ head \in Judge \/ inflight # None => signature = signal_signature
        /\ head \in Judge => head = deployed.judge
        /\ inflight \in Judge => inflight = deployed.judge
        /\ headBlob \in Judge => signature # None /\ headBlob = signature.judge
        /\ pc = "save" /\ headBlob \in Judge => headBlob = deployed.judge

IInv == TypeOK /\ Steady /\ Pinned /\ Signed

LEMMA InitIInv == Init => IInv
<1> SUFFICES ASSUME Init PROVE IInv  OBVIOUS
<1>1. TypeOK  BY TypeInit
<1>2. Steady  BY DEF Init, Steady, Restoring
<1>3. Pinned  BY DEF Init, Pinned
<1>4. Signed
  BY SignalsAssumption DEF Init, Signed, SignalsAssumption
<1> QED  BY <1>1, <1>2, <1>3, <1>4 DEF IInv

\* Reconciliation keeps the types.
LEMMA TypeReconcile ==
    ASSUME TypeOK, Steady, ReconcileStep
    PROVE  TypeOK'
<1> USE DEF TypeOK, aside, bounds, blobs, pinned, Step, Label
<1>1. CASE Adopt
  BY <1>1, SignatureType DEF Adopt
<1>2. CASE Unchanged
  BY <1>2 DEF Unchanged
<1>3. CASE Pin
  <2>1. signature.gate \in Version
    BY <1>3 DEF Pin, DefaultDrift
  <2>2. resolve_gate(signature.gate) \in Gate
    BY <2>1, SignalsAssumption DEF resolve_gate, Gate, SignalsAssumption
  <2> QED  BY <1>3, <2>1, <2>2 DEF Pin
<1>4. CASE Swap
  BY <1>4 DEF Swap
<1>5. CASE Ask
  BY <1>5 DEF Ask
<1>6. CASE Hold
  BY <1>6 DEF Hold
<1>7. CASE StepDown
  <2>1. phase' \in Phase
    BY <1>7 DEF StepDown, Steady, Phase, RULE, ML_PRIMARY
  <2> QED  BY <1>7, <2>1 DEF StepDown
<1>8. CASE Quarantine
  BY <1>8 DEF Quarantine, Head
<1>9. CASE SaveSignature
  BY <1>9, SignatureType DEF SaveSignature
<1> QED  BY <1>1, <1>2, <1>3, <1>4, <1>5, <1>6, <1>7, <1>8, <1>9 DEF ReconcileStep

\* Restoring a snapshot keeps the types.
LEMMA TypeRestore ==
    ASSUME TypeOK, Steady, RestoreStep
    PROVE  TypeOK'
<1> USE DEF TypeOK, aside, bounds, blobs, pinned, Step, Label, Restoring, Steady
<1>1. CASE RestoreHead
  <2>1. target.state.head \in Head
    BY <1>1 DEF RestoreHead, Blob
  <2> QED  BY <1>1, <2>1 DEF RestoreHead
<1>2. CASE RestoreSignature
  <2>1. target.state.signature \in Signature \cup {None}
    BY <1>2 DEF RestoreSignature, Blob
  <2> QED  BY <1>2, <2>1 DEF RestoreSignature
<1>3. CASE RestorePhase
  <2>1. target.state.phase \in Phase /\ target.state.version \in Version \cup {None}
    BY <1>3 DEF RestorePhase, Blob
  <2> QED  BY <1>3, <2>1 DEF RestorePhase
<1>4. CASE VerifyHead
  BY <1>4 DEF VerifyHead
<1>5. CASE VerifySignature
  BY <1>5 DEF VerifySignature
<1> QED  BY <1>1, <1>2, <1>3, <1>4, <1>5 DEF RestoreStep

\* What happens to the heads keeps the types.
LEMMA TypeHead ==
    ASSUME TypeOK, HeadStep
    PROVE  TypeOK'
<1> USE DEF TypeOK, aside, bounds, blobs, pinned, Head
<1>1. CASE SelectHead
  BY <1>1 DEF SelectHead
<1>2. CASE LoadHead
  BY <1>2 DEF LoadHead
<1>3. CASE Refit
  <2>1. deployed.judge \in Judge
    BY DEF Deployment
  <2> QED  BY <1>3, <2>1 DEF Refit
<1>4. CASE TakeBytes
  BY <1>4 DEF TakeBytes
<1>5. CASE PutHead
  BY <1>5 DEF PutHead
<1>6. CASE RefitHead
  BY <1>6 DEF RefitHead
<1> QED  BY <1>1, <1>2, <1>3, <1>4, <1>5, <1>6 DEF HeadStep

\* A clean slate is a state to restore.
LEMMA CleanType == ASSUME TypeOK PROVE Clean \in Blob
<1>1. deployed.current \in Version
  BY SignalsAssumption DEF TypeOK, Deployment, SignalsAssumption
<1>2. RULE \in Phase
  BY DEF Phase, RULE, ML_PRIMARY
<1> QED  BY <1>1, <1>2 DEF Clean, Blob, Head

\* So do phase moves, migrations, snapshots and restarts.
LEMMA TypeMove ==
    ASSUME TypeOK, Reconcile \/ Advance \/ Demote \/ TakeSnapshot \/ Rollback \/ Uninstall
    PROVE  TypeOK'
<1> USE DEF TypeOK, aside, bounds, blobs, pinned, spared, Step, Label
<1>1. CASE Reconcile
  BY <1>1 DEF Reconcile
<1>2. CASE Advance
  <2>1. phase' \in Phase
    BY <1>2 DEF Advance, next_phase, NoPhase, Phase, RULE, ML_PRIMARY
  <2>2. moves' \in 0 .. MaxMoves
    BY <1>2, SignalsAssumption DEF Advance, Spend, SignalsAssumption
  <2> QED  BY <1>2, <2>1, <2>2 DEF Advance
<1>3. CASE Demote
  <2>1. phase' \in Phase
    BY <1>3 DEF Demote, prev_phase, NoPhase, Phase, RULE, ML_PRIMARY
  <2> QED  BY <1>3, <2>1 DEF Demote
<1>4. CASE TakeSnapshot
  <2>1. snapshot' \in Blob
    BY <1>4 DEF TakeSnapshot, Blob
  <2> QED  BY <1>4, <2>1 DEF TakeSnapshot
<1>5. ASSUME NEW state \in Blob, NEW verify \in BOOLEAN, Restore(state, verify) PROVE TypeOK'
  <2>1. moves' \in 0 .. MaxMoves
    BY <1>5, SignalsAssumption DEF Restore, Spend, SignalsAssumption
  <2>2. target' \in [state : Blob, verify : BOOLEAN]
    BY <1>5 DEF Restore
  <2> QED  BY <1>5, <2>1, <2>2 DEF Restore
<1>6. CASE Rollback
  BY <1>5, <1>6 DEF Rollback
<1>7. CASE Uninstall
  <2>1. Clean \in Blob
    BY CleanType
  <2>2. PICK state \in {snapshot, Clean} \ {None} : Restore(state, TRUE)
    BY <1>7 DEF Uninstall
  <2>3. state \in Blob
    BY <2>1
  <2> QED  BY <1>5, <2>2, <2>3
<1> QED  BY <1>1, <1>2, <1>3, <1>4, <1>6, <1>7

LEMMA TypeMigrate ==
    ASSUME TypeOK, NEW v \in Version, NEW d \in Decision, NEW accept \in BOOLEAN,
           Migrate(v, d, accept)
    PROVE  TypeOK'
<1> USE DEF TypeOK, blobs, pinned, spared
<1>1. moves' \in 0 .. MaxMoves
  BY SignalsAssumption DEF Migrate, Spend, SignalsAssumption
<1>2. resolve_gate(v) \in Gate /\ RULE \in Phase
  BY SignalsAssumption DEF resolve_gate, Gate, SignalsAssumption, Phase, RULE, ML_PRIMARY
<1>3. version' \in Version \cup {None} /\ gate' \in Gate /\ phase' \in Phase
      /\ signature' \in Signature \cup {None}
  BY <1>2, SignatureType DEF Migrate, AdoptVersion
<1> QED  BY <1>1, <1>3 DEF Migrate

LEMMA TypeRestart ==
    ASSUME TypeOK, Restart
    PROVE  TypeOK'
<1> USE SignalsAssumption DEF SignalsAssumption, TypeOK, blobs
<1>1. PICK d \in Rollout : Constructed(d)
  BY DEF Restart
<1>2. d \in Deployment /\ d.gate \in OwnGate \cup {None} /\ d.current \in Embedded
  BY DEF Deployment
<1>3. version' \in Version \cup {None} /\ gate' \in Gate /\ phase' \in Phase /\ deployed' \in Deployment
  BY <1>1, <1>2 DEF Constructed, resolve_gate, Gate
<1>4. head' \in Head /\ loader' \in BOOLEAN /\ pc' \in Label /\ inflight' \in Head \cup {Due}
      /\ decision' \in Decision \cup {None}
      /\ target' \in [state : Blob, verify : BOOLEAN] \cup {None}
  BY <1>1 DEF Constructed, Head, Supplied, Label
<1>5. restarts' \in 0 .. MaxRestarts /\ moves' \in 0 .. MaxMoves
      /\ UNCHANGED <<headBlob, signature, snapshot, restored>>
  BY DEF Restart
<1> QED  BY <1>3, <1>4, <1>5

\* Every step keeps the types.
LEMMA TypeNext == TypeOK /\ Steady /\ [Next]_vars => TypeOK'
<1> SUFFICES ASSUME TypeOK, Steady, [Next]_vars PROVE TypeOK'  OBVIOUS
<1>1. CASE UNCHANGED vars
  BY <1>1 DEF vars, TypeOK
<1>2. CASE \E v \in Version, d \in Decision, accept \in BOOLEAN : Migrate(v, d, accept)
  BY <1>2, TypeMigrate
<1> QED
  BY <1>1, <1>2, TypeReconcile, TypeRestore, TypeHead, TypeMove, TypeRestart DEF Next

\* A reconciliation ends with what it signed, whatever was signed before; it
\* lets go of heads only between the comparison and the signature.
LEMMA ReconcileIInv ==
    ASSUME IInv, ReconcileStep
    PROVE  Steady' /\ Pinned' /\ Signed'
<1> USE DEF IInv, Steady, Restoring, aside, bounds, blobs, pinned, Step
<1>1. CASE Adopt
  <2>1. Steady' /\ Pinned'  BY <1>1 DEF Adopt, Pinned, Managed, resolve_gate
  <2>2. signature' = signal_signature'  BY <1>1 DEF Adopt, signal_signature, Managed
  <2>3. ~restored => head \notin Judge /\ inflight = None /\ headBlob \notin Judge
    BY <1>1, SignatureType, SignalsAssumption
       DEF Adopt, Signed, Signature, SignalsAssumption
  <2>4. Signed'
    BY <1>1, <2>2, <2>3, SignalsAssumption DEF Adopt, Signed, SignalsAssumption
  <2> QED  BY <2>1, <2>4
<1>2. CASE Unchanged
  <2>1. Steady' /\ Pinned'  BY <1>2 DEF Unchanged, Pinned, Managed, resolve_gate
  <2>2. signature' = signal_signature'
    BY <1>2, Comparison DEF Unchanged, signal_signature, Managed
  <2>3. Signed'  BY <1>2, <2>2 DEF Unchanged, Signed
  <2> QED  BY <2>1, <2>3
<1>3. CASE Pin
  <2>1. Steady' /\ Pinned'  BY <1>3 DEF Pin, Pinned, Managed, resolve_gate
  <2>2. signature' = signal_signature'
    <3>1. /\ signature \in Signature
          /\ signature.judge = deployed.judge /\ signature.rule = deployed.rule /\ Managed
      BY <1>3, Comparison DEF Pin, TypeOK
    <3>2. signal_signature' = [judge |-> deployed.judge, rule |-> deployed.rule,
                               gate |-> signature.gate]
      BY <1>3, <3>1 DEF Pin, signal_signature, Managed
    <3>3. signature' = signature
      BY <1>3 DEF Pin
    <3> QED  BY <3>1, <3>2, <3>3 DEF Signature
  <2>3. Signed'  BY <1>3, <2>2 DEF Pin, Signed
  <2> QED  BY <2>1, <2>3
<1>4. CASE Swap
  BY <1>4 DEF Swap, Pinned, Managed, resolve_gate, Signed, signal_signature
<1>5. CASE Ask
  <2>1. Steady'
    BY <1>5, SignalsAssumption DEF Ask, Decision, SignalsAssumption
  <2> QED  BY <1>5, <2>1 DEF Ask, Pinned, Managed, resolve_gate, Signed, signal_signature
<1>6. CASE Hold
  BY <1>6 DEF Hold, Pinned, Managed, resolve_gate, Signed, signal_signature
<1>7. CASE StepDown
  BY <1>7 DEF StepDown, Pinned, Managed, resolve_gate, Signed, signal_signature
<1>8. CASE Quarantine
  <2>1. Steady' /\ Pinned'  BY <1>8 DEF Quarantine, Pinned, Managed, resolve_gate
  <2>2. signal_signature' = signal_signature
    BY <1>8 DEF Quarantine, signal_signature, Managed
  <2>3. None \notin Judge
    BY SignalsAssumption DEF SignalsAssumption
  <2>4. ~restored /\ headBlob' \in Judge => headBlob' = headBlob /\ headBlob = deployed.judge
    BY <1>8, <2>3, Comparison DEF Quarantine, Signed
  <2>5. head' \in Judge => head' = head
    BY <1>8, <2>3 DEF Quarantine
  <2>6. Signed'
    BY <1>8, <2>2, <2>4, <2>5 DEF Quarantine, Signed
  <2> QED  BY <2>1, <2>6
<1>9. CASE SaveSignature
  <2>1. Steady' /\ Pinned'  BY <1>9 DEF SaveSignature, Pinned, Managed, resolve_gate
  <2>2. signature' = signal_signature' /\ signature'.judge = deployed.judge /\ signature' # None
    BY <1>9, SignatureType, SignalsAssumption
       DEF SaveSignature, signal_signature, Managed, Signature, SignalsAssumption
  <2>3. Signed'
    BY <1>9, <2>2 DEF SaveSignature, Signed
  <2> QED  BY <2>1, <2>3
<1> QED  BY <1>1, <1>2, <1>3, <1>4, <1>5, <1>6, <1>7, <1>8, <1>9 DEF ReconcileStep

\* Once something is restored nothing is claimed, and until then no step of a
\* restoration is taken.
LEMMA RestoreIInv ==
    ASSUME IInv, RestoreStep
    PROVE  Steady' /\ Pinned' /\ Signed'
<1> USE DEF IInv, Steady, Restoring, aside, Step
<1>1. restored /\ UNCHANGED restored
  BY DEF RestoreStep, RestoreHead, RestoreSignature, RestorePhase, VerifyHead, VerifySignature
<1>2. Pinned' /\ Signed'
  BY <1>1 DEF Pinned, Signed
<1>3. Steady'
  BY <1>1, SignalsAssumption
     DEF RestoreStep, RestoreHead, RestoreSignature, RestorePhase, VerifyHead, VerifySignature,
         SignalsAssumption
<1> QED  BY <1>2, <1>3

\* A head is fitted, loaded or written only under the signature of its judge.
LEMMA HeadIInv ==
    ASSUME IInv, HeadStep
    PROVE  Steady' /\ Pinned' /\ Signed'
<1> USE SignalsAssumption DEF IInv, aside, bounds, blobs, pinned, SignalsAssumption
<1>1. Steady' /\ Pinned'
  BY DEF HeadStep, SelectHead, LoadHead, Refit, TakeBytes, PutHead, RefitHead,
         Steady, Restoring, Pinned, Managed, resolve_gate
<1>2. signature' = signature /\ restored' = restored /\ deployed' = deployed /\ pc' = pc
      /\ signal_signature' = signal_signature
  BY DEF HeadStep, SelectHead, LoadHead, Refit, TakeBytes, PutHead, RefitHead,
         signal_signature, Managed
<1>3. signal_signature.judge = deployed.judge
  BY DEF signal_signature
<1>4. CASE SelectHead
  BY <1>1, <1>2, <1>4 DEF SelectHead, Signed
<1>5. CASE LoadHead
  <2>1. ~restored /\ headBlob \in Judge =>
          signature = signal_signature /\ headBlob = deployed.judge
    BY <1>3, <1>5 DEF LoadHead, Signed, Locked
  <2> QED  BY <1>1, <1>2, <1>5, <2>1 DEF LoadHead, Signed
<1>6. CASE Refit
  BY <1>1, <1>2, <1>6 DEF Refit, Signed, Locked
<1>7. CASE TakeBytes
  BY <1>1, <1>2, <1>7 DEF TakeBytes, Signed
<1>8. CASE PutHead
  <2>1. ~restored => signature = signal_signature
    BY <1>8 DEF PutHead, Signed
  <2>2. signal_signature # None
    BY SignatureType
  <2>3. ~restored /\ headBlob' \in Judge => headBlob' = deployed.judge
    BY <1>8 DEF PutHead, Signed
  <2> QED  BY <1>1, <1>2, <1>3, <1>8, <2>1, <2>2, <2>3 DEF PutHead, Signed
<1>9. CASE RefitHead
  BY <1>1, <1>2, <1>9 DEF RefitHead, Signed
<1> QED  BY <1>4, <1>5, <1>6, <1>7, <1>8, <1>9 DEF HeadStep

LEMMA MoveIInv ==
    ASSUME IInv, Reconcile \/ Advance \/ Demote \/ TakeSnapshot \/ Rollback \/ Uninstall
    PROVE  Steady' /\ Pinned' /\ Signed'
<1> USE SignalsAssumption
    DEF IInv, aside, bounds, blobs, pinned, spared, Step, Steady, Restoring, SignalsAssumption
<1>1. CASE Reconcile
  BY <1>1 DEF Reconcile, Pinned, Managed, resolve_gate, Signed, signal_signature
<1>2. CASE Advance
  BY <1>2 DEF Advance, Locked, Pinned, Managed, resolve_gate, Signed, signal_signature
<1>3. CASE Demote
  BY <1>3 DEF Demote, Locked, Pinned, Managed, resolve_gate, Signed, signal_signature
<1>4. CASE TakeSnapshot
  BY <1>4 DEF TakeSnapshot, Locked, Pinned, Managed, resolve_gate, Signed, signal_signature
<1>5. ASSUME NEW state \in Blob, NEW verify \in BOOLEAN, Restore(state, verify)
      PROVE  Steady' /\ Pinned' /\ Signed'
  <2>1. target' \in [state : Blob, verify : BOOLEAN]
    BY <1>5 DEF Restore
  <2> QED  BY <1>5, <2>1 DEF Restore, Pinned, Signed
<1>6. CASE Rollback
  BY <1>5, <1>6 DEF Rollback, TypeOK
<1>7. CASE Uninstall
  <2>1. PICK state \in {snapshot, Clean} \ {None} : Restore(state, TRUE)
    BY <1>7 DEF Uninstall
  <2>2. state \in Blob
    BY <2>1, CleanType DEF TypeOK
  <2> QED  BY <1>5, <2>1, <2>2
<1> QED  BY <1>1, <1>2, <1>3, <1>4, <1>6, <1>7

\* A migration writes the version it adopts into the signature.
LEMMA MigrateIInv ==
    ASSUME IInv, NEW v \in Version, NEW d \in Decision, NEW accept \in BOOLEAN,
           Migrate(v, d, accept)
    PROVE  Steady' /\ Pinned' /\ Signed'
<1> USE DEF IInv, Migrate, blobs, pinned, spared
<1>1. Steady' /\ Pinned'
  BY DEF Steady, Restoring, Locked, Pinned, Managed, resolve_gate, AdoptVersion
<1>2. ASSUME UNCHANGED <<version, gate, phase, signature>> PROVE Signed'
  BY <1>2 DEF Signed, signal_signature, Managed
<1>3. ASSUME NEW p, AdoptVersion(v, p) PROVE Signed'
  <2>1. signature' = [judge |-> deployed.judge, rule |-> deployed.rule, gate |-> v]
    BY <1>3 DEF AdoptVersion, signal_signature
  <2>2. signal_signature' = signature'
    BY <1>3, <2>1 DEF AdoptVersion, signal_signature, Managed
  <2>3. signature' \in Signature /\ signature'.judge = deployed.judge
    BY <1>3, <2>1, SignatureType DEF AdoptVersion
  <2>4. ~restored /\ headBlob \in Judge => headBlob = deployed.judge
    <3>1. ~restored => signature = signal_signature
      BY DEF Signed, Locked
    <3> QED  BY <3>1 DEF Signed, signal_signature
  <2> QED  BY <2>2, <2>3, <2>4, SignalsAssumption DEF Signed, SignalsAssumption
<1> QED  BY <1>1, <1>2, <1>3

\* A construction drops what was in memory, and looks again.
LEMMA RestartIInv ==
    ASSUME IInv, Restart
    PROVE  Steady' /\ Pinned' /\ Signed'
<1> USE SignalsAssumption DEF IInv, blobs, SignalsAssumption
<1>1. PICK d \in Rollout : Constructed(d)
  BY DEF Restart
<1>2. Steady' /\ Pinned'
  BY <1>1 DEF Constructed, Steady, Restoring, Pinned, Managed, resolve_gate
<1>3. head' \notin Judge /\ inflight' = None /\ pc' = "reconcile"
  BY <1>1 DEF Constructed
<1>4. UNCHANGED <<headBlob, signature, restored>>
  BY DEF Restart
<1>5. Signed'
  BY <1>3, <1>4 DEF Signed
<1> QED  BY <1>2, <1>5

LEMMA NextIInv == IInv /\ [Next]_vars => IInv'
<1> SUFFICES ASSUME IInv, [Next]_vars PROVE IInv'  OBVIOUS
<1>1. TypeOK'
  BY TypeNext DEF IInv
<1>2. CASE UNCHANGED vars
  <2>1. Steady' /\ Pinned' /\ Signed'
    BY <1>2 DEF vars, IInv, Steady, Pinned, Managed, resolve_gate, Signed, signal_signature
  <2> QED  BY <1>1, <2>1 DEF IInv
<1>3. CASE \E v \in Version, d \in Decision, accept \in BOOLEAN : Migrate(v, d, accept)
  BY <1>1, <1>3, MigrateIInv DEF IInv
<1> QED
  BY <1>1, <1>2, <1>3, ReconcileIInv, RestoreIInv, HeadIInv, MoveIInv, RestartIInv
     DEF Next, IInv

-----------------------------------------------------------------------------
\* Every reachable state satisfies the inductive invariant.
THEOREM Inductive == Spec => []IInv
<1>1. Init => IInv  BY InitIInv
<1>2. IInv /\ [Next]_vars => IInv'  BY NextIInv
<1> QED  BY <1>1, <1>2, PTL DEF Spec

\* The switch, its storage and its snapshots hold what their names say,
\* whichever deployments follow each other and wherever each one died.
THEOREM TypeCorrect == Spec => []TypeOK
<1>1. IInv => TypeOK  BY DEF IInv
<1> QED  BY <1>1, Inductive, PTL

\* A switch that is up has signed what it runs with.
THEOREM SignatureCurrent == Spec => []SignatureIsCurrent
<1>1. IInv => SignatureIsCurrent  BY DEF IInv, Signed, SignatureIsCurrent
<1> QED  BY <1>1, Inductive, PTL

\* The gate in force is the gate of the version the switch is pinned to.
THEOREM PinnedGate == Spec => []GateMatchesPin
<1>1. IInv => GateMatchesPin  BY DEF IInv, Pinned, GateMatchesPin
<1> QED  BY <1>1, Inductive, PTL

\* No head fitted under another judge is held, in memory or in storage, by a
\* switch that is up.
THEOREM HeadsFit == Spec => []HeadFitsJudge
<1>1. ASSUME IInv, pc = "up", ~restored PROVE {head, headBlob} \cap Judge \subseteq {deployed.judge}
  <2>1. signature = signal_signature
    BY <1>1 DEF IInv, Signed
  <2>2. headBlob \in Judge => headBlob = deployed.judge
    BY <1>1, <2>1 DEF IInv, Signed, signal_signature
  <2>3. head \in Judge => head = deployed.judge
    BY <1>1 DEF IInv, Signed
  <2> QED  BY <2>2, <2>3
<1>2. IInv => HeadFitsJudge
  BY <1>1 DEF HeadFitsJudge
<1> QED  BY <1>2, Inductive, PTL

\* No step takes a phase down on a gate's "not enough evidence": of the steps
\* a re-justification allows, only the one past Stands moves the phase.
THEOREM ThinEvidence == Spec => ThinEvidenceHolds
<1>1. ASSUME pc = "act", gate \in Counting, ~decision.enough, Next
      PROVE  phase' = phase \/ pc' = "reconcile"
  <2> USE <1>1 DEF aside, pinned, blobs, bounds, spared, Step
  <2>1. CASE ReconcileStep
    BY <2>1 DEF ReconcileStep, Adopt, Unchanged, Pin, Swap, Ask, Hold, StepDown, Stands,
                Quarantine, SaveSignature
  <2>2. CASE RestoreStep
    BY <2>2 DEF RestoreStep, RestoreHead, RestoreSignature, RestorePhase, VerifyHead,
                VerifySignature
  <2>3. CASE HeadStep
    BY <2>3 DEF HeadStep, SelectHead, LoadHead, Refit, TakeBytes, PutHead, RefitHead
  <2>4. CASE Restart
    BY <2>4 DEF Restart, Constructed
  <2>5. CASE Reconcile \/ Advance \/ Demote \/ TakeSnapshot
    BY <2>5 DEF Reconcile, Advance, Demote, TakeSnapshot, Locked
  <2>6. CASE Rollback \/ Uninstall
    BY <2>6 DEF Rollback, Uninstall, Restore
  <2>7. CASE \E v \in Version, d \in Decision, accept \in BOOLEAN : Migrate(v, d, accept)
    BY <2>7 DEF Migrate, Locked
  <2> QED  BY <2>1, <2>2, <2>3, <2>4, <2>5, <2>6, <2>7 DEF Next
<1>2. [Next]_vars => [pc = "act" /\ gate \in Counting /\ ~decision.enough
                        => phase' = phase \/ pc' = "reconcile"]_vars
  BY <1>1
<1> QED  BY <1>2, PTL DEF Spec, ThinEvidenceHolds
=============================================================================
