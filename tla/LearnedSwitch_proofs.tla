------------------------ MODULE LearnedSwitch_proofs ------------------------
(***************************************************************************)
(* Proofs about LearnedSwitch, for any threads, any configuration the      *)
(* constructor accepts and any bound: typing, then the inductive invariant *)
(* IInv, then the refinement of GraduatedAutonomy, then what holds when    *)
(* the calls are shared out among the threads in a stated way: drift       *)
(* verdicts, automatic moves, batches, trips and discarded heads.          *)
(***************************************************************************)
EXTENDS LearnedSwitch, TLAPS

USE DEF RULE, MODEL_SHADOW, MODEL_PRIMARY, ML_SHADOW, ML_WITH_FALLBACK, ML_PRIMARY, Phase

\* phase_limit is a phase, and below ML_PRIMARY for a safety-critical switch.
LEMMA LimitType ==
    /\ phase_limit \in Phase
    /\ SafetyCritical => phase_limit < ML_PRIMARY
BY ConfigAssumption DEF ConfigAssumption, phase_limit

\* The initial states are well typed.
LEMMA TypeInit == Init => TypeOK
<1> SUFFICES ASSUME Init PROVE TypeOK  OBVIOUS
<1>1. phase \in Phase  BY ConfigAssumption DEF Init, ConfigAssumption
<1>2. ConstructedHead \in Version \cup {NoHead}
  BY SwitchAssumption DEF ConstructedHead, Version, Untrained, SwitchAssumption
<1>3. ConstructedLoader \in Version \cup {NoHead, Pending}
  BY DEF ConstructedLoader
<1>4. IdleBatch \in [left : 0 .. MaxRows, prior : BOOLEAN, recorded : BOOLEAN, src : BOOLEAN]
  BY SwitchAssumption DEF IdleBatch, SwitchAssumption
<1>5. 0 \in 0 .. Interval /\ Cooldown \in 0 .. Cooldown /\ 0 \in 0 .. MaxFits
      /\ 0 \in 0 .. MaxCrashes /\ AutoAdvance \in BOOLEAN
  BY SwitchAssumption DEF SwitchAssumption
<1>6. pc \in [Thread -> Label]  BY DEF Init, Label
<1>7. /\ ret \in [Thread -> {"idle", "row", "judge"}]
      /\ cur \in [Thread -> Phase]
      /\ auto \in [Thread -> BOOLEAN]
      /\ snap \in [Thread -> Version \cup {NoHead}]
  BY DEF Init
<1>8. batch \in [Thread -> [left : 0 .. MaxRows, prior : BOOLEAN, recorded : BOOLEAN,
                           src : BOOLEAN]]
  BY <1>4 DEF Init
<1> QED  BY <1>1, <1>2, <1>3, <1>5, <1>6, <1>7, <1>8 DEF Init, TypeOK

\* Marking a batch as having recorded something keeps its type.
LEMMA RecordedType ==
    ASSUME batch \in [Thread -> [left : 0 .. MaxRows, prior : BOOLEAN, recorded : BOOLEAN,
                                src : BOOLEAN]],
           NEW t \in Thread
    PROVE  [batch EXCEPT ![t].recorded = TRUE]
             \in [Thread -> [left : 0 .. MaxRows, prior : BOOLEAN, recorded : BOOLEAN,
                             src : BOOLEAN]]
<1> DEFINE B == [left : 0 .. MaxRows, prior : BOOLEAN, recorded : BOOLEAN, src : BOOLEAN]
<1>1. [batch[t] EXCEPT !.recorded = TRUE] \in B  OBVIOUS
<1> HIDE DEF B
<1>2. batch \in [Thread -> B]  BY DEF B
<1>3. [batch EXCEPT ![t] = [batch[t] EXCEPT !.recorded = TRUE]] \in [Thread -> B]
  BY <1>1, <1>2
<1> QED  BY <1>3 DEF B

\* A step of a thread keeps the types.  (AdvancePass needs the judged phase to
\* have a successor, which is part of the inductive invariant below.)
LEMMA TypeStep ==
    ASSUME TypeOK, JudgedPhaseStands, NEW t \in Thread, Step(t)
    PROVE  TypeOK'
<1> USE SwitchAssumption DEF SwitchAssumption, TypeOK, Label, ladder, breaker, mlhead, frame
<1>1. CASE Begin(t)
  BY <1>1 DEF Begin, Entry, Goto
<1>2. CASE AppendRaises(t)
  BY <1>2 DEF AppendRaises, Return, Goto
<1>3. CASE AppendRecord(t)
  <2>1. PICK l \in Label : pc' = [pc EXCEPT ![t] = l]
    BY <1>3 DEF AppendRecord, Return, Goto
  <2>3. pc' \in [Thread -> Label]
    BY <2>1
  <2>2. batch' \in [Thread -> [left : 0 .. MaxRows, prior : BOOLEAN, recorded : BOOLEAN,
                              src : BOOLEAN]]
    <3>1. CASE ret[t] = "row"
      <4>1. batch' = [batch EXCEPT ![t].recorded = TRUE]
        BY <1>3, <3>1 DEF AppendRecord
      <4> QED  BY <4>1, RecordedType
    <3>2. CASE ret[t] # "row"
      BY <1>3, <3>2 DEF AppendRecord
    <3> QED  BY <3>1, <3>2
  <2> QED  BY <1>3, <2>2, <2>3 DEF AppendRecord
<1>4. CASE CountRecord(t)
  BY <1>4 DEF CountRecord, Return, Goto, Saturate, CheckDue
<1>5. CASE ReadDriftPhase(t)
  BY <1>5 DEF ReadDriftPhase, Goto
<1>6. CASE DriftGate(t)
  BY <1>6 DEF DriftGate, Goto
<1>7. CASE AutoDemoteStep(t)
  BY <1>7 DEF AutoDemoteStep, Return, Goto, StepDown, prev_phase, NoPhase
<1>8. CASE CheckAutoAdvance(t)
  BY <1>8 DEF CheckAutoAdvance, Return, Goto
<1>9. CASE AdvanceRefuse(t)
  BY <1>9 DEF AdvanceRefuse, Return, Goto
<1>10. CASE AdvanceAsk(t)
  BY <1>10 DEF AdvanceAsk, Goto
<1>11. CASE AdvancePass(t)
  BY <1>11 DEF AdvancePass, Goto, next_phase, NoPhase, JudgedPhaseStands, AdvanceRefused
<1>12. CASE AdvanceFail(t)
  BY <1>12 DEF AdvanceFail, Return, Goto
<1>13. CASE Demote(t)
  BY <1>13 DEF Demote, StepDown, prev_phase, NoPhase
<1>14. CASE BatchBegin(t)
  BY <1>14 DEF BatchBegin, Goto
<1>15. CASE BatchDisable(t)
  BY <1>15 DEF BatchDisable, Goto
<1>16. CASE BatchRow(t)
  <2>1. [batch[t] EXCEPT !.left = @ - 1]
            \in [left : 0 .. MaxRows, prior : BOOLEAN, recorded : BOOLEAN, src : BOOLEAN]
    BY <1>16 DEF BatchRow
  <2>2. batch' = [batch EXCEPT ![t] = [batch[t] EXCEPT !.left = @ - 1]]
    BY <1>16 DEF BatchRow
  <2>3. batch' \in [Thread -> [left : 0 .. MaxRows, prior : BOOLEAN, recorded : BOOLEAN,
                              src : BOOLEAN]]
    BY <2>1, <2>2
  <2>4. pc' \in [Thread -> Label] /\ ret' \in [Thread -> {"idle", "row", "judge"}]
    BY <1>16 DEF BatchRow, Goto
  <2> QED  BY <1>16, <2>3, <2>4 DEF BatchRow
<1>17. CASE JudgeRow(t)
  BY <1>17 DEF JudgeRow, Goto
<1>18. CASE BatchEnd(t)
  BY <1>18 DEF BatchEnd, Goto, IdleBatch
<1>19. CASE BatchProbe(t)
  BY <1>19 DEF BatchProbe, Goto
<1>20. CASE Serve(t)
  <2>1. cur' \in [Thread -> Phase]
    BY <1>20 DEF Serve
  <2>2. pc' \in [Thread -> Label]
    BY <1>20 DEF Serve, Goto, Raise, Decided, Return
  <2> QED  BY <1>20, <2>1, <2>2 DEF Serve
<1>21. CASE EnsureHead(t)
  BY <1>21 DEF EnsureHead, Goto, Raise, Decided, Return, SelectedHead, Untrained, Version
<1>22. CASE PrimaryEnter(t)
  BY <1>22 DEF PrimaryEnter, Goto, Decided, Return
<1>23. CASE PredictAnswers(t)
  BY <1>23 DEF PredictAnswers, Decided, Goto, Return
<1>24. CASE PredictRaises(t)
  <2>1. pc' \in [Thread -> Label]
    BY <1>24 DEF PredictRaises, Decided, Goto, Return
  <2>2. tripped' \in BOOLEAN /\ breakerBlob' \in BOOLEAN
    BY <1>24 DEF PredictRaises, SetBreaker, Written
  <2> QED  BY <1>24, <2>1, <2>2 DEF PredictRaises
<1>25. CASE ResetBreaker(t)
  BY <1>25 DEF ResetBreaker, SetBreaker, Written
<1>26. CASE Refit(t)
  <2>1. fits' \in 0 .. MaxFits /\ head' \in Version \cup {NoHead}
    BY <1>26 DEF Refit, Version, Untrained
  <2> QED  BY <1>26, <2>1 DEF Refit, Goto
<1>27. CASE SnapshotHead(t)
  <2>1. pc' \in [Thread -> Label]
    BY <1>27 DEF SnapshotHead, Goto, Return
  <2>2. snap' \in [Thread -> Version \cup {NoHead}]
    BY <1>27 DEF SnapshotHead
  <2> QED  BY <1>27, <2>1, <2>2 DEF SnapshotHead
<1>28. CASE PutHead(t)
  BY <1>28 DEF PutHead, Goto, Return, Written
<1>29. CASE RefitHead(t)
  BY <1>29 DEF RefitHead, Written, Version, Untrained
<1> QED
  BY <1>1, <1>2, <1>3, <1>4, <1>5, <1>6, <1>7, <1>8, <1>9, <1>10, <1>11, <1>12, <1>13, <1>14,
     <1>15, <1>16, <1>17, <1>18, <1>19, <1>20, <1>21, <1>22, <1>23, <1>24, <1>25, <1>26, <1>27, <1>28, <1>29
  DEF Step

\* Only advance's gate call and ML_PRIMARY's predict hold the lock.
LEMMA LockStep ==
    ASSUME TypeOK, LockDiscipline, NEW t \in Thread, Step(t)
    PROVE  LockDiscipline'
<1>0. Free \notin Thread /\ pc \in [Thread -> Label] /\ ret \in [Thread -> {"idle", "row", "judge"}]
  BY SwitchAssumption DEF SwitchAssumption, TypeOK
<1> USE <1>0 DEF LockDiscipline
<1>1. CASE Begin(t)
  BY <1>1 DEF Begin, Goto, Entry
<1>2. CASE AppendRaises(t)
  BY <1>2 DEF AppendRaises, Return, Goto
<1>3. CASE AppendRecord(t)
  BY <1>3 DEF AppendRecord, Return, Goto
<1>4. CASE CountRecord(t)
  BY <1>4 DEF CountRecord, Return, Goto, CheckDue
<1>5. CASE ReadDriftPhase(t)
  BY <1>5 DEF ReadDriftPhase, Goto
<1>6. CASE DriftGate(t)
  BY <1>6 DEF DriftGate, Goto
<1>7. CASE AutoDemoteStep(t)
  BY <1>7 DEF AutoDemoteStep, Return, Goto
<1>8. CASE CheckAutoAdvance(t)
  BY <1>8 DEF CheckAutoAdvance, Return, Goto
<1>9. CASE AdvanceRefuse(t)
  BY <1>9 DEF AdvanceRefuse, Return, Goto
<1>10. CASE AdvanceAsk(t)
  BY <1>10 DEF AdvanceAsk, Goto
<1>11. CASE AdvancePass(t)
  BY <1>11 DEF AdvancePass, Goto
<1>12. CASE AdvanceFail(t)
  BY <1>12 DEF AdvanceFail, Return, Goto
<1>13. CASE Demote(t)
  BY <1>13 DEF Demote
<1>14. CASE BatchBegin(t)
  BY <1>14 DEF BatchBegin, Goto
<1>15. CASE BatchDisable(t)
  BY <1>15 DEF BatchDisable, Goto
<1>16. CASE BatchRow(t)
  BY <1>16 DEF BatchRow, Goto
<1>17. CASE JudgeRow(t)
  BY <1>17 DEF JudgeRow, Goto
<1>18. CASE BatchEnd(t)
  BY <1>18 DEF BatchEnd, Goto
<1>19. CASE BatchProbe(t)
  BY <1>19 DEF BatchProbe, Goto
<1>20. CASE Serve(t)
  BY <1>20 DEF Serve, Goto, Raise, Decided, Return
<1>21. CASE EnsureHead(t)
  BY <1>21 DEF EnsureHead, Goto, Raise, Decided, Return
<1>22. CASE PrimaryEnter(t)
  BY <1>22 DEF PrimaryEnter, Goto, Decided, Return
<1>23. CASE PredictAnswers(t)
  BY <1>23 DEF PredictAnswers, Decided, Goto, Return
<1>24. CASE PredictRaises(t)
  BY <1>24 DEF PredictRaises, Decided, Goto, Return
<1>25. CASE ResetBreaker(t)
  BY <1>25 DEF ResetBreaker
<1>26. CASE Refit(t)
  BY <1>26 DEF Refit, Goto
<1>27. CASE SnapshotHead(t)
  BY <1>27 DEF SnapshotHead, Goto, Return
<1>28. CASE PutHead(t)
  BY <1>28 DEF PutHead, Goto, Return
<1>29. CASE RefitHead(t)
  BY <1>29 DEF RefitHead
<1> QED
  BY <1>1, <1>2, <1>3, <1>4, <1>5, <1>6, <1>7, <1>8, <1>9, <1>10, <1>11, <1>12, <1>13, <1>14,
     <1>15, <1>16, <1>17, <1>18, <1>19, <1>20, <1>21, <1>22, <1>23, <1>24, <1>25, <1>26, <1>27, <1>28, <1>29
  DEF Step

\* A step of one thread leaves the other threads where they are.
LEMMA OtherThread ==
    ASSUME TypeOK, NEW t \in Thread, Step(t), NEW u \in Thread, u # t
    PROVE  /\ pc'[u] = pc[u] /\ ret'[u] = ret[u] /\ cur'[u] = cur[u]
           /\ auto'[u] = auto[u] /\ batch'[u] = batch[u] /\ snap'[u] = snap[u]
<1>0. \E A, B, C, D, E, F : /\ pc \in [Thread -> A] /\ cur \in [Thread -> B] /\ ret \in [Thread -> C]
                            /\ auto \in [Thread -> D] /\ batch \in [Thread -> E] /\ snap \in [Thread -> F]
  BY Zenon DEF TypeOK
<1> USE <1>0 DEF frame
<1>1. CASE Begin(t)
  BY <1>1 DEF Begin, Goto
<1>2. CASE AppendRaises(t)
  BY <1>2 DEF AppendRaises, Return, Goto
<1>3. CASE AppendRecord(t)
  BY <1>3 DEF AppendRecord, Return, Goto
<1>4. CASE CountRecord(t)
  BY <1>4 DEF CountRecord, Return, Goto
<1>5. CASE ReadDriftPhase(t)
  BY <1>5 DEF ReadDriftPhase, Goto
<1>6. CASE DriftGate(t)
  BY <1>6 DEF DriftGate, Goto
<1>7. CASE AutoDemoteStep(t)
  BY <1>7 DEF AutoDemoteStep, Return, Goto
<1>8. CASE CheckAutoAdvance(t)
  BY <1>8 DEF CheckAutoAdvance, Return, Goto
<1>9. CASE AdvanceRefuse(t)
  BY <1>9 DEF AdvanceRefuse, Return, Goto
<1>10. CASE AdvanceAsk(t)
  BY <1>10 DEF AdvanceAsk, Goto
<1>11. CASE AdvancePass(t)
  BY <1>11 DEF AdvancePass, Goto
<1>12. CASE AdvanceFail(t)
  BY <1>12 DEF AdvanceFail, Return, Goto
<1>13. CASE Demote(t)
  BY <1>13 DEF Demote
<1>14. CASE BatchBegin(t)
  BY <1>14 DEF BatchBegin, Goto
<1>15. CASE BatchDisable(t)
  BY <1>15 DEF BatchDisable, Goto
<1>16. CASE BatchRow(t)
  BY <1>16 DEF BatchRow, Goto
<1>17. CASE JudgeRow(t)
  BY <1>17 DEF JudgeRow, Goto
<1>18. CASE BatchEnd(t)
  BY <1>18 DEF BatchEnd, Goto
<1>19. CASE BatchProbe(t)
  BY <1>19 DEF BatchProbe, Goto
<1>20. CASE Serve(t)
  BY <1>20 DEF Serve, Goto, Raise, Decided, Return
<1>21. CASE EnsureHead(t)
  BY <1>21 DEF EnsureHead, Goto, Raise, Decided, Return
<1>22. CASE PrimaryEnter(t)
  BY <1>22 DEF PrimaryEnter, Goto, Decided, Return
<1>23. CASE PredictAnswers(t)
  BY <1>23 DEF PredictAnswers, Decided, Goto, Return
<1>24. CASE PredictRaises(t)
  BY <1>24 DEF PredictRaises, Decided, Goto, Return
<1>25. CASE ResetBreaker(t)
  BY <1>25 DEF ResetBreaker
<1>26. CASE Refit(t)
  BY <1>26 DEF Refit, Goto
<1>27. CASE SnapshotHead(t)
  BY <1>27 DEF SnapshotHead, Goto, Return
<1>28. CASE PutHead(t)
  BY <1>28 DEF PutHead, Goto, Return
<1>29. CASE RefitHead(t)
  BY <1>29 DEF RefitHead
<1> QED
  BY <1>1, <1>2, <1>3, <1>4, <1>5, <1>6, <1>7, <1>8, <1>9, <1>10, <1>11, <1>12, <1>13, <1>14,
     <1>15, <1>16, <1>17, <1>18, <1>19, <1>20, <1>21, <1>22, <1>23, <1>24, <1>25, <1>26, <1>27, <1>28, <1>29
  DEF Step

\* An automatic check of the drift gate or of the advance gate is under way.
Automatic(t) ==
    \/ pc[t] \in {"drift", "judged", "demote", "advcheck"}
    \/ pc[t] \in {"advance", "eval"} /\ auto[t]

\* The gate is reached only through AdvanceAsk, the ML_PRIMARY head only through
\* PrimaryEnter, both with a head ensured, a demotion only through the drift gate,
\* and an automatic check only through a counted record or a batch's probe.
LEMMA Enters ==
    ASSUME TypeOK, NEW t \in Thread, Step(t)
    PROVE  /\ pc'[t] = "eval" => AdvanceAsk(t)
           /\ pc'[t] = "predict" => PrimaryEnter(t)
           /\ pc'[t] \in {"judged", "demote"} => ReadDriftPhase(t) \/ DriftGate(t)
           /\ pc'[t] \in {"primary", "predict"} => EnsureHead(t) \/ pc[t] = "primary"
           /\ pc'[t] = "put" => SnapshotHead(t)
           /\ Automatic(t)' => \/ CountRecord(t) \/ BatchProbe(t)
                               \/ Automatic(t) /\ UNCHANGED sinceChange
<1>0. /\ pc \in [Thread -> Label] /\ ret \in [Thread -> {"idle", "row", "judge"}]
      /\ auto \in [Thread -> BOOLEAN]
  BY DEF TypeOK
<1> USE <1>0 DEF Automatic, ladder, frame
<1>1. CASE Begin(t)
  BY <1>1 DEF Begin, Goto, Entry
<1>2. CASE AppendRaises(t)
  BY <1>2 DEF AppendRaises, Return, Goto
<1>3. CASE AppendRecord(t)
  BY <1>3 DEF AppendRecord, Return, Goto
<1>4. CASE CountRecord(t)
  BY <1>4 DEF CountRecord, Return, Goto
<1>5. CASE ReadDriftPhase(t)
  BY <1>5 DEF ReadDriftPhase, Goto
<1>6. CASE DriftGate(t)
  BY <1>6 DEF DriftGate, Goto
<1>7. CASE AutoDemoteStep(t)
  BY <1>7 DEF AutoDemoteStep, Return, Goto
<1>8. CASE CheckAutoAdvance(t)
  BY <1>8 DEF CheckAutoAdvance, Return, Goto
<1>9. CASE AdvanceRefuse(t)
  BY <1>9 DEF AdvanceRefuse, Return, Goto
<1>10. CASE AdvanceAsk(t)
  BY <1>10 DEF AdvanceAsk, Goto
<1>11. CASE AdvancePass(t)
  BY <1>11 DEF AdvancePass, Goto
<1>12. CASE AdvanceFail(t)
  BY <1>12 DEF AdvanceFail, Return, Goto
<1>13. CASE Demote(t)
  BY <1>13 DEF Demote
<1>14. CASE BatchBegin(t)
  BY <1>14 DEF BatchBegin, Goto
<1>15. CASE BatchDisable(t)
  BY <1>15 DEF BatchDisable, Goto
<1>16. CASE BatchRow(t)
  BY <1>16 DEF BatchRow, Goto
<1>17. CASE JudgeRow(t)
  BY <1>17 DEF JudgeRow, Goto
<1>18. CASE BatchEnd(t)
  BY <1>18 DEF BatchEnd, Goto
<1>19. CASE BatchProbe(t)
  BY <1>19 DEF BatchProbe, Goto
<1>20. CASE Serve(t)
  BY <1>20 DEF Serve, Goto, Raise, Decided, Return
<1>21. CASE EnsureHead(t)
  BY <1>21 DEF EnsureHead, Goto, Raise, Decided, Return
<1>22. CASE PrimaryEnter(t)
  BY <1>22 DEF PrimaryEnter, Goto, Decided, Return
<1>23. CASE PredictAnswers(t)
  BY <1>23 DEF PredictAnswers, Decided, Goto, Return
<1>24. CASE PredictRaises(t)
  BY <1>24 DEF PredictRaises, Decided, Goto, Return
<1>25. CASE ResetBreaker(t)
  BY <1>25 DEF ResetBreaker
<1>26. CASE Refit(t)
  BY <1>26 DEF Refit, Goto
<1>27. CASE SnapshotHead(t)
  BY <1>27 DEF SnapshotHead, Goto, Return
<1>28. CASE PutHead(t)
  BY <1>28 DEF PutHead, Goto, Return
<1>29. CASE RefitHead(t)
  BY <1>29 DEF RefitHead
<1> QED
  BY <1>1, <1>2, <1>3, <1>4, <1>5, <1>6, <1>7, <1>8, <1>9, <1>10, <1>11, <1>12, <1>13, <1>14,
     <1>15, <1>16, <1>17, <1>18, <1>19, <1>20, <1>21, <1>22, <1>23, <1>24, <1>25, <1>26, <1>27, <1>28, <1>29
  DEF Step

\* Who moves the phase, where to, and under which lock: the thread whose gate
\* passed, one rung up to an allowed phase; a demotion, one rung down.
LEMMA PhaseStep ==
    ASSUME TypeOK, LockDiscipline, JudgedPhaseStands, NEW t \in Thread, Step(t)
    PROVE  \/ phase' = phase
           \/ /\ lock = t
              /\ ~AdvanceRefused(phase)
              /\ phase' = phase + 1
           \/ /\ lock = Free
              /\ phase > RULE
              /\ phase' = phase - 1
<1>0. phase \in Phase  BY DEF TypeOK
<1>1. CASE AdvancePass(t)
  BY <1>0, <1>1 DEF AdvancePass, LockDiscipline, JudgedPhaseStands, AdvanceRefused,
                    next_phase, NoPhase
<1>2. CASE AutoDemoteStep(t) \/ Demote(t)
  BY <1>0, <1>2 DEF AutoDemoteStep, Demote, StepDown, prev_phase, NoPhase, ladder
<1>3. CASE ~AdvancePass(t) /\ ~AutoDemoteStep(t) /\ ~Demote(t)
  BY <1>3 DEF Step, Begin, AppendRaises, AppendRecord, CountRecord, ReadDriftPhase, DriftGate,
     CheckAutoAdvance, AdvanceRefuse, AdvanceAsk, AdvanceFail, BatchBegin, BatchDisable,
     BatchRow, JudgeRow, BatchEnd, BatchProbe, Serve, EnsureHead, PrimaryEnter, PredictAnswers,
     PredictRaises, ResetBreaker, Refit, SnapshotHead, PutHead, RefitHead, ladder
<1> QED  BY <1>1, <1>2, <1>3

\* The gate's judgement stays about the phase the switch is in.
LEMMA JudgedStep ==
    ASSUME TypeOK, LockDiscipline, JudgedPhaseStands, NEW t \in Thread, Step(t)
    PROVE  JudgedPhaseStands'
<1> SUFFICES ASSUME NEW u \in Thread, pc'[u] = "eval"
             PROVE  cur'[u] = phase' /\ ~AdvanceRefused(phase')
  BY DEF JudgedPhaseStands, AdvanceRefused
<1>0. cur \in [Thread -> Phase] /\ Free \notin Thread
  BY SwitchAssumption DEF TypeOK, SwitchAssumption
<1>1. CASE u = t
  BY <1>0, <1>1, Enters DEF AdvanceAsk, ladder
<1>2. CASE u # t
  <2>1. pc[u] = "eval" /\ cur'[u] = cur[u]  BY <1>2, OtherThread
  <2>2. lock = u  BY <2>1 DEF LockDiscipline
  <2>3. phase' = phase  BY <2>2, <1>0, <1>2, PhaseStep
  <2> QED  BY <2>1, <2>3 DEF JudgedPhaseStands
<1> QED  BY <1>1, <1>2

\* No step of a thread takes the switch above its ceiling.
LEMMA CeilingStep ==
    ASSUME TypeOK, LockDiscipline, JudgedPhaseStands, WithinCeiling, NEW t \in Thread, Step(t)
    PROVE  WithinCeiling'
<1>0. phase \in Phase /\ phase_limit \in Phase  BY LimitType DEF TypeOK
<1>1. CASE phase' = phase
  BY <1>1 DEF WithinCeiling
<1>2. CASE ~AdvanceRefused(phase) /\ phase' = phase + 1
  BY <1>0, <1>2 DEF AdvanceRefused, next_phase, NoPhase, WithinCeiling
<1>3. CASE phase' = phase - 1
  BY <1>0, <1>3 DEF WithinCeiling
<1> QED  BY <1>1, <1>2, <1>3, PhaseStep

\* The head is never called behind an open breaker: the flag is raised only by
\* a caller that holds the lock, and read only by one that takes it.
LEMMA BreakerStep ==
    ASSUME TypeOK, LockDiscipline, NoPredictBehindOpenBreaker, NEW t \in Thread, Step(t)
    PROVE  NoPredictBehindOpenBreaker'
<1> SUFFICES ASSUME NEW u \in Thread, pc'[u] = "predict"
             PROVE  ~tripped'
  BY DEF NoPredictBehindOpenBreaker
<1>0. /\ Free \notin Thread /\ pc \in [Thread -> Label]
      /\ ret \in [Thread -> {"idle", "row", "judge"}]
  BY SwitchAssumption DEF SwitchAssumption, TypeOK
<1>1. CASE u = t
  BY <1>0, <1>1, Enters DEF PrimaryEnter, Decided, Return, Goto, breaker
<1>2. CASE u # t
  <2>1. pc[u] = "predict" /\ lock = u /\ ~tripped
    BY <1>2, OtherThread DEF LockDiscipline, NoPredictBehindOpenBreaker
  <2>2. ~PredictRaises(t)
    BY <2>1, <1>2 DEF PredictRaises, LockDiscipline
  <2>3. ~ResetBreaker(t)
    BY <2>1, <1>0 DEF ResetBreaker
  <2>4. tripped' = tripped
    BY <2>2, <2>3 DEF Step, Begin, AppendRaises, AppendRecord, CountRecord, ReadDriftPhase,
       DriftGate, AutoDemoteStep, CheckAutoAdvance, AdvanceRefuse, AdvanceAsk, AdvancePass,
       AdvanceFail, Demote, BatchBegin, BatchDisable, BatchRow, JudgeRow, BatchEnd, BatchProbe,
       Serve, EnsureHead, PrimaryEnter, PredictAnswers, Refit, SnapshotHead, PutHead, RefitHead,
       breaker
  <2> QED  BY <2>1, <2>4
<1> QED  BY <1>1, <1>2

\* Memory and storage agree on the breaker as long as no state write is lost.
LEMMA DurableStep ==
    ASSUME TypeOK, BreakerDurable, NEW t \in Thread, Step(t)
    PROVE  BreakerDurable'
<1> USE SwitchAssumption DEF SwitchAssumption, TypeOK, BreakerDurable, breaker
<1>1. CASE PredictRaises(t)
  BY <1>1 DEF PredictRaises, SetBreaker, Written
<1>2. CASE ResetBreaker(t)
  BY <1>2 DEF ResetBreaker, SetBreaker, Written
<1>3. CASE ~PredictRaises(t) /\ ~ResetBreaker(t)
  <2>1. UNCHANGED breaker
    BY <1>3 DEF Step, Begin, AppendRaises, AppendRecord, CountRecord, ReadDriftPhase,
       DriftGate, AutoDemoteStep, CheckAutoAdvance, AdvanceRefuse, AdvanceAsk, AdvancePass,
       AdvanceFail, Demote, BatchBegin, BatchDisable, BatchRow, JudgeRow, BatchEnd, BatchProbe,
       Serve, EnsureHead, PrimaryEnter, PredictAnswers, Refit, SnapshotHead, PutHead, RefitHead
  <2> QED  BY <2>1
<1> QED  BY <1>1, <1>2, <1>3

\* An auto-check that comes due while the cooldown allows it is taken at once.
LEMMA CheckStep ==
    ASSUME TypeOK, CheckHeldBackOnlyByCooldown, NEW t \in Thread, Step(t)
    PROVE  CheckHeldBackOnlyByCooldown'
<1>0. /\ Interval \in Nat /\ Cooldown \in Nat
      /\ sinceCheck \in 0 .. Interval /\ sinceChange \in 0 .. Cooldown
  BY SwitchAssumption DEF SwitchAssumption, TypeOK
<1> USE <1>0 DEF CheckHeldBackOnlyByCooldown, ladder
<1>1. CASE CountRecord(t)
  BY <1>1 DEF CountRecord, CheckDue, Saturate
<1>2. CASE AdvancePass(t)
  BY <1>2 DEF AdvancePass
<1>3. CASE AutoDemoteStep(t) \/ Demote(t)
  BY <1>3 DEF AutoDemoteStep, Demote, StepDown
<1>4. CASE BatchProbe(t)
  BY <1>4 DEF BatchProbe
<1>5. CASE ~CountRecord(t) /\ ~AdvancePass(t) /\ ~AutoDemoteStep(t) /\ ~Demote(t) /\ ~BatchProbe(t)
  <2>1. UNCHANGED ladder
    BY <1>5 DEF Step, Begin, AppendRaises, AppendRecord, ReadDriftPhase, DriftGate,
       CheckAutoAdvance, AdvanceRefuse, AdvanceAsk, AdvanceFail, BatchBegin, BatchDisable,
       BatchRow, JudgeRow, BatchEnd, Serve, EnsureHead, PrimaryEnter, PredictAnswers,
       PredictRaises, ResetBreaker, Refit, SnapshotHead, PutHead, RefitHead
  <2> QED  BY <2>1
<1> QED  BY <1>1, <1>2, <1>3, <1>4, <1>5
-----------------------------------------------------------------------------
(***************************************************************************)
(* Who calls what.  Some promises hold only for some ways of sharing the   *)
(* switch between threads; these are the ways, stated on May alone.        *)
(***************************************************************************)
Bulk == {"bulk_record_verdicts", "bulk_record_verdicts_from_source"}

\* What the threads' operations lead to: a batch, a serve, an automatic check
\* or an advance, a change of phase, a checkpoint of the head.
Batches(t) == May[t] \cap Bulk # {}
Serves(t)  == May[t] \cap {"classify", "bulk_record_verdicts_from_source"} # {}
Records(t) ==
    \/ May[t] \cap (Bulk \cup {"record_verdict", "advance"}) # {}
    \/ HasVerifier /\ "classify" \in May[t]
Moves(t) == Records(t) \/ "demote" \in May[t]
Saves(t) == Records(t) \/ May[t] \cap {"persist_head", "refit"} # {}

OneMover   == \A t, u \in Thread : Moves(t) /\ Moves(u) => t = u
OneBatcher == \A t, u \in Thread : Batches(t) /\ Batches(u) => t = u
NoBatches  == \A t \in Thread : ~Batches(t)

\* Who discards the head is nobody's server, or nobody's head, but its own.
HeadServedByOwner ==
    HeadSource = "strategy" =>
        \A t, u \in Thread : "refit_head" \in May[t] /\ Serves(u) => t = u
HeadSavedByOwner ==
    \A t, u \in Thread : "refit_head" \in May[t] /\ Saves(u) => t = u

\* A thread stands only where its operations lead.
Role(t) ==
    /\ pc[t] \in {"idle", "rebase"} => ret[t] = "idle"
    /\ pc[t] = "judge" => ret[t] = "judge"
    /\ InBatch(t) \/ pc[t] = "rebase" => Batches(t)
    /\ batch[t].src => "bulk_record_verdicts_from_source" \in May[t]
    /\ pc[t] \in {"serve", "ensure", "primary", "predict"} => Serves(t)
    /\ pc[t] \in {"append", "count", "drift", "judged", "demote", "advcheck", "advance", "eval"}
          => Records(t)
    /\ pc[t] \in {"save", "put"} => Saves(t)
Roles == \A t \in Thread : Role(t)

\* The drift gate's verdict is about the phase the switch is in.
JudgedDrift == \A t \in Thread : pc[t] \in {"judged", "demote"} => cur[t] = phase

\* An automatic check under way found the cooldown over.
Cooled == \A t \in Thread : Automatic(t) => sinceChange = Cooldown

\* A batch in progress remembers the configured flag, and nothing but a batch
\* in progress has switched it off.
FlagKept ==
    /\ \A t \in Thread : InBatch(t) => batch[t].prior = AutoAdvance
    /\ (\A t \in Thread : ~InBatch(t) \/ pc[t] = "disable") => autoAdvance = AutoAdvance

\* Who is about to call the head has one to call.
HeadAtHand == \A t \in Thread : pc[t] \in {"primary", "predict"} => head # NoHead

\* The head that is live, and the one about to be written, are no discarded
\* ones; a switch whose head a strategy picks loads none in the background.
Undiscarded == {NoHead, Untrained} \cup (retired + 1 .. fits)
HeadNotDiscarded ==
    HeadSource = "strategy" =>
        /\ retired <= fits
        /\ head \in Undiscarded /\ headBlob \in Undiscarded /\ loader = NoHead
        /\ \A t \in Thread : pc[t] = "put" => snap[t] \in Undiscarded

-----------------------------------------------------------------------------
(* The inductive invariant *)

IInv ==
    /\ TypeOK
    /\ LockDiscipline
    /\ JudgedPhaseStands
    /\ WithinCeiling
    /\ NoPredictBehindOpenBreaker
    /\ BreakerDurable
    /\ CheckHeldBackOnlyByCooldown

LEMMA InvInit == Init => IInv
<1> SUFFICES ASSUME Init PROVE IInv  OBVIOUS
<1>1. TypeOK  BY TypeInit
<1>2. LockDiscipline /\ JudgedPhaseStands /\ NoPredictBehindOpenBreaker /\ BreakerDurable
  BY SwitchAssumption DEF SwitchAssumption, Init, LockDiscipline, JudgedPhaseStands,
     NoPredictBehindOpenBreaker, BreakerDurable
<1>3. WithinCeiling
  BY ConfigAssumption DEF ConfigAssumption, ConfigAccepted, Init, WithinCeiling
<1>4. CheckHeldBackOnlyByCooldown
  BY SwitchAssumption DEF SwitchAssumption, Init, CheckHeldBackOnlyByCooldown
<1> QED  BY <1>1, <1>2, <1>3, <1>4 DEF IInv

\* A crash brings back a state like an initial one; the blobs it keeps are typed.
LEMMA InvCrash ==
    ASSUME TypeOK, BreakerDurable, Crash
    PROVE  IInv'
<1>1. TypeOK'
  <2>1. phase' \in Phase  BY ConfigAssumption DEF Crash, ConfigAssumption
  <2>2. ConstructedHead \in Version \cup {NoHead}
        /\ ConstructedLoader \in Version \cup {NoHead, Pending}
    BY SwitchAssumption
    DEF ConstructedHead, ConstructedLoader, Version, Untrained, SwitchAssumption
  <2>3. IdleBatch \in [left : 0 .. MaxRows, prior : BOOLEAN, recorded : BOOLEAN, src : BOOLEAN]
    BY SwitchAssumption DEF IdleBatch, SwitchAssumption
  <2>4. sinceCheck' \in 0 .. Interval /\ sinceChange' \in 0 .. Cooldown
        /\ autoAdvance' \in BOOLEAN /\ crashes' \in 0 .. MaxCrashes
    BY SwitchAssumption DEF SwitchAssumption, Crash, TypeOK
  <2>5. tripped' \in BOOLEAN
    BY SwitchAssumption DEF SwitchAssumption, Crash, TypeOK, Loaded
  <2>6. pc' \in [Thread -> Label]  BY DEF Crash, Label
  <2>7. /\ ret' \in [Thread -> {"idle", "row", "judge"}]
        /\ cur' \in [Thread -> Phase]
        /\ auto' \in [Thread -> BOOLEAN]
        /\ snap' \in [Thread -> Version \cup {NoHead}]
    BY DEF Crash
  <2>8. batch' \in [Thread -> [left : 0 .. MaxRows, prior : BOOLEAN, recorded : BOOLEAN,
                              src : BOOLEAN]]
    BY <2>3 DEF Crash
  <2> QED  BY <2>1, <2>2, <2>4, <2>5, <2>6, <2>7, <2>8 DEF Crash, TypeOK
<1>2. LockDiscipline' /\ JudgedPhaseStands' /\ NoPredictBehindOpenBreaker'
  BY SwitchAssumption
  DEF SwitchAssumption, Crash, LockDiscipline, JudgedPhaseStands, NoPredictBehindOpenBreaker
<1>3. WithinCeiling'
  BY ConfigAssumption DEF ConfigAssumption, ConfigAccepted, Crash, WithinCeiling
<1>4. CheckHeldBackOnlyByCooldown'
  BY SwitchAssumption DEF SwitchAssumption, Crash, CheckHeldBackOnlyByCooldown
<1>5. BreakerDurable'
  BY SwitchAssumption DEF SwitchAssumption, TypeOK, Crash, Loaded, BreakerDurable
<1> QED  BY <1>1, <1>2, <1>3, <1>4, <1>5 DEF IInv

\* The loader thread only touches the head.
LEMMA InvLoader ==
    ASSUME IInv, LoaderRead \/ LoaderApply
    PROVE  IInv'
<1>1. TypeOK'
  BY DEF IInv, TypeOK, LoaderRead, LoaderApply, Loaded, ladder, breaker, frame, Version
<1>2. UNCHANGED <<ladder, breaker, lock, pc, cur>>
  BY DEF LoaderRead, LoaderApply, mlhead, frame
<1> QED  BY <1>1, <1>2 DEF IInv, LockDiscipline, JudgedPhaseStands, WithinCeiling,
            NoPredictBehindOpenBreaker, BreakerDurable, CheckHeldBackOnlyByCooldown,
            ladder, breaker, AdvanceRefused

LEMMA InvNext == IInv /\ [Next]_vars => IInv'
<1> SUFFICES ASSUME IInv, [Next]_vars PROVE IInv'  OBVIOUS
<1>1. CASE LoaderRead \/ LoaderApply
  BY <1>1, InvLoader
<1>2. CASE Crash
  BY <1>2, InvCrash DEF IInv
<1>3. ASSUME NEW t \in Thread, Step(t) PROVE IInv'
  BY <1>3, TypeStep, LockStep, JudgedStep, CeilingStep, BreakerStep, DurableStep,
     CheckStep
  DEF IInv
<1>4. CASE UNCHANGED vars
  BY <1>4 DEF IInv, TypeOK, LockDiscipline, JudgedPhaseStands, WithinCeiling,
     NoPredictBehindOpenBreaker, BreakerDurable, CheckHeldBackOnlyByCooldown, AdvanceRefused,
     vars, ladder, breaker, mlhead, frame
<1> QED  BY <1>1, <1>2, <1>3, <1>4 DEF Next

\* Every reachable state of the switch satisfies the inductive invariant, for
\* every set of threads, every accepted configuration and every bound.
THEOREM Invariance == Spec => []IInv
<1> QED  BY InvInit, InvNext, PTL DEF Spec

\* The variables keep their types.
THEOREM TypeCorrect == Spec => []TypeOK
<1>1. IInv => TypeOK  BY DEF IInv
<1> QED  BY <1>1, Invariance, PTL

\* advance's read / evaluate / mutate sequence is serialized: the gate's verdict
\* is applied to the phase it was asked about (core.py 1973-1976).
THEOREM VerdictAppliesToJudgedPhase == Spec => []JudgedPhaseStands
<1>1. IInv => JudgedPhaseStands  BY DEF IInv
<1> QED  BY <1>1, Invariance, PTL

\* Whatever the gates answer, the switch stays under its ceiling, and a
\* safety-critical switch never serves with ML_PRIMARY (core.py 1984-2002).
THEOREM CeilingHolds == Spec => []WithinCeiling
<1>1. IInv => WithinCeiling  BY DEF IInv
<1> QED  BY <1>1, Invariance, PTL

\* One failed predict shuts every later caller out of the head (core.py
\* 1608-1611).
THEOREM BreakerShutsOut == Spec => []NoPredictBehindOpenBreaker
<1>1. IInv => NoPredictBehindOpenBreaker  BY DEF IInv
<1> QED  BY <1>1, Invariance, PTL

\* When every state write succeeds, a restart finds the breaker as the crashed
\* process left it (core.py 2487-2507).
THEOREM BreakerSurvives == Spec => []BreakerDurable
<1>1. IInv => BreakerDurable  BY DEF IInv
<1> QED  BY <1>1, Invariance, PTL

\* No due auto-check is lost (core.py 1867-1875).
THEOREM ChecksAreNotLost == Spec => []CheckHeldBackOnlyByCooldown
<1>1. IInv => CheckHeldBackOnlyByCooldown  BY DEF IInv
<1> QED  BY <1>1, Invariance, PTL

\* The multi-threaded switch implements the abstract lifecycle: each of its
\* steps promotes by one rung under the ceiling, demotes by one rung, restarts,
\* or leaves the phase alone.
THEOREM ImplementsLifecycle == Spec => RefinesLifecycle
<1>1. Init => Lifecycle!Init
  BY DEF Init, Lifecycle!Init
<1>2. ASSUME IInv, [Next]_vars PROVE [Lifecycle!Next]_phase
  <2>1. CASE LoaderRead \/ LoaderApply
    BY <2>1 DEF LoaderRead, LoaderApply, ladder
  <2>2. CASE Crash
    BY <2>2 DEF Crash, Lifecycle!Next, Lifecycle!Restart
  <2>3. ASSUME NEW t \in Thread, Step(t) PROVE [Lifecycle!Next]_phase
    <3>0. phase \in Phase /\ phase_limit \in Phase /\ Lifecycle!phase_limit = phase_limit
      BY <1>2, LimitType
      DEF IInv, TypeOK, phase_limit, Lifecycle!phase_limit, Lifecycle!ML_WITH_FALLBACK
    <3>1. CASE ~AdvanceRefused(phase) /\ phase' = phase + 1
      BY <3>0, <3>1 DEF AdvanceRefused, next_phase, NoPhase, Lifecycle!Next, Lifecycle!Promote
    <3>2. CASE phase > RULE /\ phase' = phase - 1
      BY <3>2 DEF Lifecycle!Next, Lifecycle!Demote, Lifecycle!RULE
    <3> QED  BY <1>2, <2>3, <3>1, <3>2, PhaseStep DEF IInv
  <2>4. CASE UNCHANGED vars
    BY <2>4 DEF vars, ladder
  <2> QED  BY <1>2, <2>1, <2>2, <2>3, <2>4 DEF Next
<1> QED  BY <1>1, <1>2, Invariance, PTL DEF Spec, RefinesLifecycle, Lifecycle!Spec
-----------------------------------------------------------------------------
(***************************************************************************)
(* Who moves what.                                                         *)
(***************************************************************************)
\* The steps that touch the phase and its cooldown, the advance flag, the
\* breaker and the head.
LEMMA StepFrame ==
    ASSUME NEW t \in Thread, Step(t)
    PROVE  /\ (CountRecord(t) \/ AdvancePass(t) \/ AutoDemoteStep(t) \/ Demote(t))
                \/ UNCHANGED <<phase, sinceChange>>
           /\ (BatchDisable(t) \/ BatchEnd(t)) \/ UNCHANGED autoAdvance
           /\ (PredictRaises(t) \/ ResetBreaker(t)) \/ UNCHANGED tripped
           /\ (EnsureHead(t) \/ Refit(t) \/ PutHead(t) \/ RefitHead(t)) \/ UNCHANGED mlhead
           /\ UNCHANGED crashes
  BY DEF Step, Begin, AppendRaises, AppendRecord, CountRecord, ReadDriftPhase, DriftGate,
     AutoDemoteStep, CheckAutoAdvance, AdvanceRefuse, AdvanceAsk, AdvancePass, AdvanceFail, Demote,
     BatchBegin, BatchDisable, BatchRow, JudgeRow, BatchEnd, BatchProbe, Serve, EnsureHead,
     PrimaryEnter, PredictAnswers, PredictRaises, ResetBreaker, Refit, SnapshotHead, PutHead,
     RefitHead, ladder, breaker

\* A thread's own step leaves it where one of its operations leads.
LEMMA OwnRole ==
    ASSUME TypeOK, NEW t \in Thread, Role(t), Step(t)
    PROVE  Role(t)'
<1>0. /\ pc \in [Thread -> Label] /\ ret \in [Thread -> {"idle", "row", "judge"}]
      /\ \E B : batch \in [Thread -> B]
  BY Zenon DEF TypeOK
<1> USE <1>0 DEF Role, InBatch, frame
<1>1. CASE Begin(t)
  BY <1>1 DEF Begin, Goto, Entry, Records, Serves, Saves, Batches, Bulk
<1>2. CASE AppendRaises(t)
  BY <1>2 DEF AppendRaises, Return, Goto, Records, Serves, Saves, Batches, Bulk
<1>3. CASE AppendRecord(t)
  BY <1>3 DEF AppendRecord, Return, Goto, Records, Serves, Saves, Batches, Bulk
<1>4. CASE CountRecord(t)
  BY <1>4 DEF CountRecord, Return, Goto, Records, Serves, Saves, Batches, Bulk
<1>5. CASE ReadDriftPhase(t)
  BY <1>5 DEF ReadDriftPhase, Goto, Records, Serves, Saves, Batches, Bulk
<1>6. CASE DriftGate(t)
  BY <1>6 DEF DriftGate, Goto, Records, Serves, Saves, Batches, Bulk
<1>7. CASE AutoDemoteStep(t)
  BY <1>7 DEF AutoDemoteStep, Return, Goto, Records, Serves, Saves, Batches, Bulk
<1>8. CASE CheckAutoAdvance(t)
  BY <1>8 DEF CheckAutoAdvance, Return, Goto, Records, Serves, Saves, Batches, Bulk
<1>9. CASE AdvanceRefuse(t)
  BY <1>9 DEF AdvanceRefuse, Return, Goto, Records, Serves, Saves, Batches, Bulk
<1>10. CASE AdvanceAsk(t)
  BY <1>10 DEF AdvanceAsk, Goto, Records, Serves, Saves, Batches, Bulk
<1>11. CASE AdvancePass(t)
  BY <1>11 DEF AdvancePass, Goto, Records, Serves, Saves, Batches, Bulk
<1>12. CASE AdvanceFail(t)
  BY <1>12 DEF AdvanceFail, Return, Goto, Records, Serves, Saves, Batches, Bulk
<1>13. CASE Demote(t)
  BY <1>13 DEF Demote, Records, Serves, Saves, Batches, Bulk
<1>14. CASE BatchBegin(t)
  BY <1>14 DEF BatchBegin, Goto, Records, Serves, Saves, Batches, Bulk
<1>15. CASE BatchDisable(t)
  BY <1>15 DEF BatchDisable, Goto, Records, Serves, Saves, Batches, Bulk
<1>16. CASE BatchRow(t)
  BY <1>16 DEF BatchRow, Goto, Records, Serves, Saves, Batches, Bulk
<1>17. CASE JudgeRow(t)
  BY <1>17 DEF JudgeRow, Goto, Records, Serves, Saves, Batches, Bulk
<1>18. CASE BatchEnd(t)
  BY <1>18 DEF BatchEnd, Goto, IdleBatch, Records, Serves, Saves, Batches, Bulk
<1>19. CASE BatchProbe(t)
  BY <1>19 DEF BatchProbe, Goto, Records, Serves, Saves, Batches, Bulk
<1>20. CASE Serve(t)
  BY <1>20 DEF Serve, Goto, Raise, Decided, Return, Records, Serves, Saves, Batches, Bulk
<1>21. CASE EnsureHead(t)
  BY <1>21 DEF EnsureHead, Goto, Raise, Decided, Return, Records, Serves, Saves, Batches, Bulk
<1>22. CASE PrimaryEnter(t)
  BY <1>22 DEF PrimaryEnter, Goto, Decided, Return, Records, Serves, Saves, Batches, Bulk
<1>23. CASE PredictAnswers(t)
  BY <1>23 DEF PredictAnswers, Decided, Goto, Return, Records, Serves, Saves, Batches, Bulk
<1>24. CASE PredictRaises(t)
  BY <1>24 DEF PredictRaises, Decided, Goto, Return, Records, Serves, Saves, Batches, Bulk
<1>25. CASE ResetBreaker(t)
  BY <1>25 DEF ResetBreaker, Records, Serves, Saves, Batches, Bulk
<1>26. CASE Refit(t)
  BY <1>26 DEF Refit, Goto, Records, Serves, Saves, Batches, Bulk
<1>27. CASE SnapshotHead(t)
  BY <1>27 DEF SnapshotHead, Goto, Return, Records, Serves, Saves, Batches, Bulk
<1>28. CASE PutHead(t)
  BY <1>28 DEF PutHead, Goto, Return, Records, Serves, Saves, Batches, Bulk
<1>29. CASE RefitHead(t)
  BY <1>29 DEF RefitHead, Records, Serves, Saves, Batches, Bulk
<1> QED
  BY <1>1, <1>2, <1>3, <1>4, <1>5, <1>6, <1>7, <1>8, <1>9, <1>10, <1>11, <1>12, <1>13, <1>14, <1>15,
     <1>16, <1>17, <1>18, <1>19, <1>20, <1>21, <1>22, <1>23, <1>24, <1>25, <1>26, <1>27, <1>28, <1>29
  DEF Step

LEMMA RolesStep == TypeOK /\ Roles /\ [Next]_vars => Roles'
<1> SUFFICES ASSUME TypeOK, Roles, [Next]_vars PROVE Roles'  OBVIOUS
<1>1. CASE LoaderRead \/ LoaderApply
  BY <1>1 DEF LoaderRead, LoaderApply, frame, Roles, Role, InBatch
<1>2. CASE Crash
  BY <1>2 DEF Crash, IdleBatch, Roles, Role, InBatch
<1>3. ASSUME NEW t \in Thread, Step(t) PROVE Roles'
  <2>1. Role(t)'
    BY <1>3, OwnRole DEF Roles
  <2>2. ASSUME NEW u \in Thread, u # t PROVE Role(u)'
    BY <1>3, <2>2, OtherThread DEF Roles, Role, InBatch
  <2> QED  BY <2>1, <2>2 DEF Roles
<1>4. CASE UNCHANGED vars
  BY <1>4 DEF vars, frame, Roles, Role, InBatch
<1> QED  BY <1>1, <1>2, <1>3, <1>4 DEF Next

LEMMA RolesInit == Init => Roles
  BY DEF Init, IdleBatch, Roles, Role, InBatch

\* Who changes the phase or counts towards the cooldown is a mover.
LEMMA MoverMoves ==
    ASSUME Roles, NEW t \in Thread, Step(t), ~UNCHANGED <<phase, sinceChange>>
    PROVE  Moves(t)
<1>1. CountRecord(t) \/ AdvancePass(t) \/ AutoDemoteStep(t) \/ Demote(t)
  BY StepFrame
<1>2. CASE CountRecord(t)
  BY <1>2 DEF CountRecord, Roles, Role, Moves
<1>3. CASE AdvancePass(t)
  BY <1>3 DEF AdvancePass, Roles, Role, Moves
<1>4. CASE AutoDemoteStep(t)
  BY <1>4 DEF AutoDemoteStep, Roles, Role, Moves
<1>5. CASE Demote(t)
  BY <1>5 DEF Demote, Moves
<1> QED  BY <1>1, <1>2, <1>3, <1>4, <1>5

-----------------------------------------------------------------------------
(***************************************************************************)
(* One thread that moves the phase.                                        *)
(***************************************************************************)
LEMMA JudgedDriftStep ==
    ASSUME OneMover
    PROVE  TypeOK /\ Roles /\ JudgedDrift /\ [Next]_vars => JudgedDrift'
<1> SUFFICES ASSUME TypeOK, Roles, JudgedDrift, [Next]_vars PROVE JudgedDrift'  OBVIOUS
<1>1. CASE LoaderRead \/ LoaderApply
  BY <1>1 DEF LoaderRead, LoaderApply, ladder, frame, JudgedDrift
<1>2. CASE Crash
  BY <1>2 DEF Crash, JudgedDrift
<1>3. ASSUME NEW t \in Thread, Step(t), NEW u \in Thread, pc'[u] \in {"judged", "demote"}
      PROVE  cur'[u] = phase'
  <2>0. /\ pc \in [Thread -> Label] /\ ret \in [Thread -> {"idle", "row", "judge"}]
        /\ cur \in [Thread -> Phase]
    BY DEF TypeOK
  <2>1. CASE u = t
    <3>1. ReadDriftPhase(t) \/ DriftGate(t)
      BY <1>3, <2>1, Enters
    <3>2. CASE ReadDriftPhase(t)
      BY <2>0, <2>1, <3>2 DEF ReadDriftPhase, ladder
    <3>3. CASE DriftGate(t)
      BY <2>0, <2>1, <3>3 DEF DriftGate, ladder, frame, JudgedDrift
    <3> QED  BY <3>1, <3>2, <3>3
  <2>2. CASE u # t
    <3>1. pc[u] \in {"judged", "demote"} /\ cur'[u] = cur[u]
      BY <1>3, <2>2, OtherThread
    <3>2. Moves(u)
      BY <3>1 DEF Roles, Role, Moves
    <3>3. phase' = phase
      BY <1>3, <2>2, <3>2, MoverMoves DEF OneMover
    <3> QED  BY <3>1, <3>3 DEF JudgedDrift
  <2> QED  BY <2>1, <2>2
<1>4. CASE UNCHANGED vars
  BY <1>4 DEF vars, ladder, frame, JudgedDrift
<1> QED  BY <1>1, <1>2, <1>3, <1>4 DEF Next, JudgedDrift

\* When one thread moves the phase, however many serve, checkpoint or reset the
\* breaker beside it, an automatic demotion leaves the phase its drift gate
\* judged (core.py 1903-1917).
THEOREM DriftVerdictHolds ==
    ASSUME OneMover
    PROVE  Spec => []DriftVerdictStands
<1> DEFINE Inv == IInv /\ Roles /\ JudgedDrift
<1>1. Init => Inv
  BY InvInit, RolesInit DEF Init, JudgedDrift
<1>2. OneMover /\ Inv /\ [Next]_vars => Inv'
  BY InvNext, RolesStep, JudgedDriftStep DEF IInv
<1>3. Inv => DriftVerdictStands
  BY DEF JudgedDrift, DriftVerdictStands
<1> QED  BY <1>1, <1>2, <1>3, PTL DEF Spec

LEMMA CooledStep ==
    ASSUME OneMover, NoBatches
    PROVE  TypeOK /\ Roles /\ Cooled /\ [Next]_vars => Cooled'
<1> SUFFICES ASSUME TypeOK, Roles, Cooled, [Next]_vars PROVE Cooled'  OBVIOUS
<1>1. CASE LoaderRead \/ LoaderApply
  BY <1>1 DEF LoaderRead, LoaderApply, ladder, frame, Automatic, Cooled
<1>2. CASE Crash
  BY <1>2 DEF Crash, Automatic, Cooled
<1>3. ASSUME NEW t \in Thread, Step(t), NEW u \in Thread, Automatic(u)'
      PROVE  sinceChange' = Cooldown
  <2>0. /\ pc \in [Thread -> Label] /\ ret \in [Thread -> {"idle", "row", "judge"}]
        /\ auto \in [Thread -> BOOLEAN]
        /\ sinceChange \in 0 .. Cooldown /\ Cooldown \in Nat
    BY SwitchAssumption DEF SwitchAssumption, TypeOK
  <2>1. CASE u = t
    <3>1. CASE CountRecord(t)
      BY <1>3, <2>0, <2>1, <3>1 DEF CountRecord, CheckDue, Saturate, Return, Goto, frame, Automatic
    <3>2. CASE BatchProbe(t)
      BY <3>2 DEF BatchProbe, Roles, Role, NoBatches
    <3>3. CASE Automatic(t) /\ sinceChange' = sinceChange
      BY <3>3 DEF Cooled
    <3> QED  BY <1>3, <2>1, <3>1, <3>2, <3>3, Enters
  <2>2. CASE u # t
    <3>1. Automatic(u)
      BY <1>3, <2>2, OtherThread DEF Automatic
    <3>2. Moves(u)
      BY <3>1 DEF Automatic, Roles, Role, Moves
    <3>3. sinceChange' = sinceChange
      BY <1>3, <2>2, <3>2, MoverMoves DEF OneMover
    <3> QED  BY <3>1, <3>3 DEF Cooled
  <2> QED  BY <2>1, <2>2
<1>4. CASE UNCHANGED vars
  BY <1>4 DEF vars, ladder, frame, Automatic, Cooled
<1> QED  BY <1>1, <1>2, <1>3, <1>4 DEF Next, Cooled

\* With one mover and no batches, no automatic change of phase comes within the
\* cooldown of the one before, by hand or automatic (core.py 424-428).
THEOREM AutoMovesWait ==
    ASSUME OneMover, NoBatches
    PROVE  Spec => AutoMovesCooled
<1> DEFINE Inv == IInv /\ Roles /\ Cooled
<1>1. Init => Inv
  BY InvInit, RolesInit DEF Init, Automatic, Cooled
<1>2. OneMover /\ NoBatches /\ Inv /\ [Next]_vars => Inv'
  BY InvNext, RolesStep, CooledStep DEF IInv
<1>3. Inv => [\A t \in Thread :
                 AutoDemoteStep(t) \/ (AdvancePass(t) /\ auto[t]) =>
                     phase' = phase \/ sinceChange = Cooldown]_vars
  BY DEF Cooled, Automatic, AutoDemoteStep, AdvancePass
<1> QED  BY <1>1, <1>2, <1>3, PTL DEF Spec, AutoMovesCooled

-----------------------------------------------------------------------------
(***************************************************************************)
(* One thread that runs batches.                                           *)
(***************************************************************************)
\* The flag and what a batch remembers of it move only at a batch's two ends.
LEMMA BatchFrame ==
    ASSUME TypeOK, NEW t \in Thread, Role(t), Step(t)
    PROVE  \/ /\ BatchBegin(t) /\ ~InBatch(t) /\ pc'[t] = "disable"
              /\ batch'[t].prior = autoAdvance /\ autoAdvance' = autoAdvance
           \/ /\ BatchDisable(t) /\ InBatch(t) /\ InBatch(t)' /\ pc'[t] = "row"
              /\ batch'[t].prior = batch[t].prior
           \/ /\ BatchEnd(t) /\ InBatch(t) /\ ~InBatch(t)' /\ autoAdvance' = batch[t].prior
           \/ /\ (InBatch(t)' <=> InBatch(t)) /\ batch'[t].prior = batch[t].prior
              /\ pc[t] # "disable" /\ pc'[t] # "disable" /\ autoAdvance' = autoAdvance
<1>0. /\ pc \in [Thread -> Label] /\ ret \in [Thread -> {"idle", "row", "judge"}]
      /\ batch \in [Thread -> [left : 0 .. MaxRows, prior : BOOLEAN, recorded : BOOLEAN,
                               src : BOOLEAN]]
  BY DEF TypeOK
<1> USE <1>0 DEF Role, InBatch, frame
<1>1. CASE Begin(t)
  BY <1>1 DEF Begin, Goto, Entry
<1>2. CASE AppendRaises(t)
  BY <1>2 DEF AppendRaises, Return, Goto
<1>3. CASE AppendRecord(t)
  BY <1>3 DEF AppendRecord, Return, Goto
<1>4. CASE CountRecord(t)
  BY <1>4 DEF CountRecord, Return, Goto
<1>5. CASE ReadDriftPhase(t)
  BY <1>5 DEF ReadDriftPhase, Goto
<1>6. CASE DriftGate(t)
  BY <1>6 DEF DriftGate, Goto
<1>7. CASE AutoDemoteStep(t)
  BY <1>7 DEF AutoDemoteStep, Return, Goto
<1>8. CASE CheckAutoAdvance(t)
  BY <1>8 DEF CheckAutoAdvance, Return, Goto
<1>9. CASE AdvanceRefuse(t)
  BY <1>9 DEF AdvanceRefuse, Return, Goto
<1>10. CASE AdvanceAsk(t)
  BY <1>10 DEF AdvanceAsk, Goto
<1>11. CASE AdvancePass(t)
  BY <1>11 DEF AdvancePass, Goto
<1>12. CASE AdvanceFail(t)
  BY <1>12 DEF AdvanceFail, Return, Goto
<1>13. CASE Demote(t)
  BY <1>13 DEF Demote
<1>14. CASE BatchBegin(t)
  <2>1. PICK n \in 0 .. MaxRows, src \in BOOLEAN :
          batch' = [batch EXCEPT ![t] =
                       [left |-> n, prior |-> autoAdvance, recorded |-> FALSE, src |-> src]]
    BY <1>14, Zenon DEF BatchBegin
  <2>2. batch'[t].prior = autoAdvance
    BY <2>1
  <2>3. pc[t] = "idle" /\ pc'[t] = "disable" /\ autoAdvance' = autoAdvance
    BY <1>14 DEF BatchBegin, Goto
  <2> QED  BY <1>14, <2>2, <2>3
<1>15. CASE BatchDisable(t)
  BY <1>15 DEF BatchDisable, Goto
<1>16. CASE BatchRow(t)
  BY <1>16 DEF BatchRow, Goto
<1>17. CASE JudgeRow(t)
  BY <1>17 DEF JudgeRow, Goto
<1>18. CASE BatchEnd(t)
  BY <1>18 DEF BatchEnd, Goto, IdleBatch
<1>19. CASE BatchProbe(t)
  BY <1>19 DEF BatchProbe, Goto
<1>20. CASE Serve(t)
  BY <1>20 DEF Serve, Goto, Raise, Decided, Return
<1>21. CASE EnsureHead(t)
  BY <1>21 DEF EnsureHead, Goto, Raise, Decided, Return
<1>22. CASE PrimaryEnter(t)
  BY <1>22 DEF PrimaryEnter, Goto, Decided, Return
<1>23. CASE PredictAnswers(t)
  BY <1>23 DEF PredictAnswers, Decided, Goto, Return
<1>24. CASE PredictRaises(t)
  BY <1>24 DEF PredictRaises, Decided, Goto, Return
<1>25. CASE ResetBreaker(t)
  BY <1>25 DEF ResetBreaker
<1>26. CASE Refit(t)
  BY <1>26 DEF Refit, Goto
<1>27. CASE SnapshotHead(t)
  BY <1>27 DEF SnapshotHead, Goto, Return
<1>28. CASE PutHead(t)
  BY <1>28 DEF PutHead, Goto, Return
<1>29. CASE RefitHead(t)
  BY <1>29 DEF RefitHead
<1> QED
  BY <1>1, <1>2, <1>3, <1>4, <1>5, <1>6, <1>7, <1>8, <1>9, <1>10, <1>11, <1>12, <1>13, <1>14, <1>15,
     <1>16, <1>17, <1>18, <1>19, <1>20, <1>21, <1>22, <1>23, <1>24, <1>25, <1>26, <1>27, <1>28, <1>29
  DEF Step

LEMMA FlagStep ==
    ASSUME OneBatcher
    PROVE  TypeOK /\ Roles /\ FlagKept /\ [Next]_vars => FlagKept'
<1> SUFFICES ASSUME TypeOK, Roles, FlagKept, [Next]_vars PROVE FlagKept'  OBVIOUS
<1>1. CASE LoaderRead \/ LoaderApply
  BY <1>1 DEF LoaderRead, LoaderApply, frame, FlagKept, InBatch
<1>2. CASE Crash
  BY <1>2 DEF Crash, FlagKept, InBatch
<1>3. ASSUME NEW t \in Thread, Step(t) PROVE FlagKept'
  <2>1. ASSUME NEW u \in Thread, u # t
        PROVE  (InBatch(u)' <=> InBatch(u)) /\ batch'[u] = batch[u] /\ pc'[u] = pc[u]
    BY <1>3, <2>1, OtherThread DEF InBatch
  <2>2. ASSUME NEW u \in Thread, u # t, Batches(t) PROVE ~InBatch(u)
    BY <2>2 DEF OneBatcher, Roles, Role
  <2>3. /\ \A u \in Thread : InBatch(u) => batch[u].prior = AutoAdvance
        /\ (\A u \in Thread : ~InBatch(u) \/ pc[u] = "disable") => autoAdvance = AutoAdvance
    BY DEF FlagKept
  <2>4. CASE BatchBegin(t) /\ ~InBatch(t) /\ pc'[t] = "disable"
             /\ batch'[t].prior = autoAdvance /\ autoAdvance' = autoAdvance
    <3>1. Batches(t)
      BY <2>4 DEF BatchBegin, Batches, Bulk
    <3>2. \A u \in Thread : ~InBatch(u)
      BY <2>2, <2>4, <3>1
    <3>3. autoAdvance = AutoAdvance
      BY <2>3, <3>2
    <3> QED  BY <2>1, <2>4, <3>2, <3>3 DEF FlagKept
  <2>5. CASE BatchDisable(t) /\ InBatch(t) /\ InBatch(t)' /\ pc'[t] = "row"
             /\ batch'[t].prior = batch[t].prior
    BY <2>1, <2>3, <2>5 DEF FlagKept
  <2>6. CASE BatchEnd(t) /\ InBatch(t) /\ ~InBatch(t)' /\ autoAdvance' = batch[t].prior
    BY <2>1, <2>3, <2>6 DEF FlagKept
  <2>7. CASE (InBatch(t)' <=> InBatch(t)) /\ batch'[t].prior = batch[t].prior
             /\ pc[t] # "disable" /\ pc'[t] # "disable" /\ autoAdvance' = autoAdvance
    BY <2>1, <2>3, <2>7 DEF FlagKept
  <2>8. Role(t)
    BY DEF Roles
  <2> QED  BY <1>3, <2>4, <2>5, <2>6, <2>7, <2>8, BatchFrame
<1>4. CASE UNCHANGED vars
  BY <1>4 DEF vars, frame, FlagKept, InBatch
<1> QED  BY <1>1, <1>2, <1>3, <1>4 DEF Next

\* When one thread runs batches, config.auto_advance is what the operator
\* configured whenever none is in progress, however its rows failed and
\* whatever the other threads do (core.py 2221-2245).
THEOREM BatchRestores ==
    ASSUME OneBatcher
    PROVE  Spec => []BatchRestoresAutoAdvance
<1> DEFINE Inv == IInv /\ Roles /\ FlagKept
<1>1. Init => Inv
  BY InvInit, RolesInit DEF Init, FlagKept, InBatch
<1>2. OneBatcher /\ Inv /\ [Next]_vars => Inv'
  BY InvNext, RolesStep, FlagStep DEF IInv
<1>3. Inv => BatchRestoresAutoAdvance
  BY DEF FlagKept, BatchRestoresAutoAdvance
<1> QED  BY <1>1, <1>2, <1>3, PTL DEF Spec

-----------------------------------------------------------------------------
(***************************************************************************)
(* The head and its owner.                                                 *)
(***************************************************************************)
LEMMA HeadAtHandStep ==
    ASSUME HeadServedByOwner
    PROVE  TypeOK /\ Roles /\ HeadAtHand /\ [Next]_vars => HeadAtHand'
<1> SUFFICES ASSUME TypeOK, Roles, HeadAtHand, [Next]_vars PROVE HeadAtHand'  OBVIOUS
<1>1. CASE LoaderRead \/ LoaderApply
  BY <1>1 DEF LoaderRead, LoaderApply, Loaded, Version, Untrained, NoHead, HeadAtHand
<1>2. CASE Crash
  BY <1>2 DEF Crash, HeadAtHand
<1>3. ASSUME NEW t \in Thread, Step(t), NEW u \in Thread, pc'[u] \in {"primary", "predict"}
      PROVE  head' # NoHead
  <2>0. /\ pc \in [Thread -> Label] /\ ret \in [Thread -> {"idle", "row", "judge"}]
        /\ fits \in 0 .. MaxFits
    BY DEF TypeOK
  <2>1. EnsureHead(t) \/ pc[u] \in {"primary", "predict"}
    <3>1. CASE u = t
      BY <1>3, <2>0, <3>1, Enters
    <3>2. CASE u # t
      BY <1>3, <3>2, OtherThread
    <3> QED  BY <3>1, <3>2
  <2>2. CASE EnsureHead(t)
    <3>1. head # NoHead => head' = head
      BY <2>2 DEF EnsureHead
    <3>2. head = NoHead => head' = SelectedHead \/ pc'[t] \notin {"primary", "predict"}
      BY <2>0, <2>2 DEF EnsureHead, Raise, Goto
    <3>3. SelectedHead # NoHead
      BY DEF SelectedHead, Untrained, NoHead
    <3>4. CASE u = t
      BY <1>3, <3>1, <3>2, <3>3, <3>4
    <3>5. CASE u # t
      BY <1>3, <3>1, <3>5, OtherThread DEF HeadAtHand
    <3> QED  BY <3>4, <3>5
  <2>3. CASE ~EnsureHead(t)
    <3>1. pc[u] \in {"primary", "predict"} /\ head # NoHead
      BY <2>1, <2>3 DEF HeadAtHand
    <3>2. CASE Refit(t)
      BY <2>0, <3>1, <3>2, SwitchAssumption DEF Refit, NoHead, SwitchAssumption
    <3>3. CASE RefitHead(t)
      <4>1. Serves(u) /\ u # t
        BY <3>1, <3>3 DEF RefitHead, Roles, Role
      <4>2. HeadSource # "strategy"
        BY <3>3, <4>1 DEF RefitHead, HeadServedByOwner
      <4> QED  BY <3>1, <3>3, <4>2 DEF RefitHead
    <3>4. CASE PutHead(t) \/ UNCHANGED mlhead
      BY <3>1, <3>4 DEF PutHead, mlhead
    <3> QED  BY <1>3, <2>3, <3>2, <3>3, <3>4, StepFrame
  <2> QED  BY <2>2, <2>3
<1>4. CASE UNCHANGED vars
  BY <1>4 DEF vars, mlhead, HeadAtHand
<1> QED  BY <1>1, <1>2, <1>3, <1>4 DEF Next, HeadAtHand

\* Unless a thread discards the head another one serves with, the breaker opens
\* only for a head that failed, never for one that is not there (core.py
\* 1607-1612, 2407).
THEOREM TripsAreFailures ==
    ASSUME HeadServedByOwner
    PROVE  Spec => TripMeansHeadFailed
<1> DEFINE Inv == IInv /\ Roles /\ HeadAtHand
<1>1. Init => Inv
  BY InvInit, RolesInit DEF Init, HeadAtHand
<1>2. HeadServedByOwner /\ Inv /\ [Next]_vars => Inv'
  BY InvNext, RolesStep, HeadAtHandStep DEF IInv
<1>3. Inv /\ [Next]_vars => [~tripped /\ tripped' /\ crashes' = crashes => head # NoHead]_vars
  <2> SUFFICES ASSUME Inv, Next, ~tripped, tripped', crashes' = crashes PROVE head # NoHead
    OBVIOUS
  <2>1. ~LoaderRead /\ ~LoaderApply
    BY DEF LoaderRead, LoaderApply, breaker
  <2>2. ~Crash
    <3>1. crashes \in Nat
      BY SwitchAssumption DEF SwitchAssumption, IInv, TypeOK
    <3>2. Crash => crashes' = crashes + 1
      BY DEF Crash
    <3> QED  BY <3>1, <3>2
  <2>3. PICK t \in Thread : Step(t)
    BY <2>1, <2>2 DEF Next
  <2>4. ~ResetBreaker(t)
    BY DEF ResetBreaker, SetBreaker
  <2>5. PredictRaises(t)
    BY <2>3, <2>4, StepFrame
  <2> QED  BY <2>5 DEF PredictRaises, HeadAtHand
<1> QED  BY <1>1, <1>2, <1>3, PTL DEF Spec, TripMeansHeadFailed

LEMMA DiscardStep ==
    ASSUME HeadSavedByOwner, ~StorageFaults
    PROVE  TypeOK /\ Roles /\ HeadNotDiscarded /\ [Next]_vars => HeadNotDiscarded'
<1> SUFFICES ASSUME TypeOK, Roles, HeadNotDiscarded, [Next]_vars, HeadSource = "strategy"
             PROVE  HeadNotDiscarded'
  BY DEF HeadNotDiscarded
<1>0. /\ retired <= fits /\ head \in Undiscarded /\ headBlob \in Undiscarded /\ loader = NoHead
      /\ \A u \in Thread : pc[u] = "put" => snap[u] \in Undiscarded
  BY DEF HeadNotDiscarded
<1>t. /\ pc \in [Thread -> Label] /\ ret \in [Thread -> {"idle", "row", "judge"}]
      /\ snap \in [Thread -> Version \cup {NoHead}]
      /\ fits \in Nat /\ retired \in Nat
  BY SwitchAssumption DEF SwitchAssumption, TypeOK
<1>n. NoHead \in Undiscarded' /\ Untrained \in Undiscarded'
  BY DEF Undiscarded
<1>1. CASE LoaderRead \/ LoaderApply
  BY <1>0, <1>1 DEF LoaderRead, LoaderApply, NoHead, Pending, Version, Untrained
<1>2. CASE Crash
  <2>1. head' = NoHead /\ loader' = NoHead /\ \A u \in Thread : pc'[u] = "idle"
    BY <1>2 DEF Crash, ConstructedHead, ConstructedLoader
  <2>2. UNCHANGED <<headBlob, fits, retired>> /\ Undiscarded' = Undiscarded
    BY <1>2 DEF Crash, Undiscarded
  <2> QED  BY <1>0, <1>n, <2>1, <2>2 DEF HeadNotDiscarded
<1>3. ASSUME NEW t \in Thread, Step(t) PROVE HeadNotDiscarded'
  <2>u. ASSUME NEW u \in Thread, u # t, pc'[u] = "put" PROVE pc[u] = "put" /\ snap'[u] = snap[u]
    BY <1>3, <2>u, OtherThread
  \* Unless the step discards the head, what is no discarded one stays none.
  <2>k. ASSUME UNCHANGED retired, fits' = fits \/ fits' = fits + 1
        PROVE  retired' <= fits' /\ Undiscarded \subseteq Undiscarded'
    <3>1. retired' = retired /\ retired <= fits'
      BY <1>0, <1>t, <2>k
    <3>2. retired + 1 .. fits \subseteq retired' + 1 .. fits'
      BY <1>t, <2>k
    <3> QED  BY <3>1, <3>2 DEF Undiscarded
  <2>1. CASE EnsureHead(t)
    <3>1. /\ UNCHANGED <<headBlob, loader, fits, retired, snap>> /\ head' \in {head, SelectedHead}
          /\ pc'[t] # "put"
      BY <1>t, <2>1 DEF EnsureHead, Decided, Raise, Return, Goto, frame
    <3> QED  BY <1>0, <1>n, <2>u, <2>k, <3>1 DEF HeadNotDiscarded, SelectedHead
  <2>2. CASE Refit(t)
    <3>1. /\ UNCHANGED <<headBlob, loader, retired, snap>> /\ pc'[t] # "put"
          /\ (fits' = fits /\ head' = head) \/ (fits' = fits + 1 /\ head' = fits')
      BY <1>t, <2>2 DEF Refit, Goto
    <3>2. fits' = fits + 1 => fits' \in Undiscarded'
      BY <1>0, <1>t, <3>1 DEF Undiscarded
    <3> QED  BY <1>0, <2>u, <2>k, <3>1, <3>2 DEF HeadNotDiscarded
  <2>3. CASE PutHead(t)
    <3>1. /\ UNCHANGED <<head, loader, fits, retired, snap>> /\ pc[t] = "put" /\ pc'[t] # "put"
          /\ headBlob' \in {headBlob, snap[t]}
      BY <1>t, <2>3 DEF PutHead, Written, Return, Goto, frame
    <3> QED  BY <1>0, <2>u, <2>k, <3>1 DEF HeadNotDiscarded
  <2>4. CASE RefitHead(t)
    <3>1. /\ head' = NoHead /\ headBlob' = NoHead /\ UNCHANGED <<loader, fits, snap, pc>>
          /\ retired' = fits /\ pc[t] = "idle" /\ "refit_head" \in May[t]
      BY <2>4 DEF RefitHead, Written, frame
    <3>2. \A u \in Thread : pc[u] # "put"
      BY <3>1 DEF Roles, Role, HeadSavedByOwner
    <3> QED  BY <1>0, <1>t, <1>n, <3>1, <3>2 DEF HeadNotDiscarded
  <2>5. CASE SnapshotHead(t)
    <3>1. UNCHANGED <<head, headBlob, loader, fits, retired>> /\ (pc'[t] = "put" => snap'[t] = head)
      BY <1>t, <2>5 DEF SnapshotHead, mlhead, Return, Goto
    <3> QED  BY <1>0, <2>u, <2>k, <2>5, <3>1 DEF HeadNotDiscarded
  <2>6. CASE UNCHANGED mlhead /\ ~SnapshotHead(t)
    <3>1. UNCHANGED <<head, headBlob, loader, fits, retired>> /\ pc'[t] # "put"
      BY <1>3, <2>6, Enters DEF mlhead
    <3> QED  BY <1>0, <2>u, <2>k, <2>6, <3>1 DEF HeadNotDiscarded
  <2> QED  BY <1>3, <2>1, <2>2, <2>3, <2>4, <2>5, <2>6, StepFrame
<1>4. CASE UNCHANGED vars
  BY <1>4 DEF vars, mlhead, frame, Undiscarded, HeadNotDiscarded
<1> QED  BY <1>1, <1>2, <1>3, <1>4 DEF Next

\* When the thread that discards the head is the only one that checkpoints it
\* and no state write is lost, a version refit_head discarded is never the
\* persisted one again (core.py 3415-3418).
THEOREM DiscardsLast ==
    ASSUME HeadSavedByOwner, ~StorageFaults
    PROVE  Spec => []DiscardedHeadStaysDiscarded
<1> DEFINE Inv == IInv /\ Roles /\ HeadNotDiscarded
<1>1. Init => Inv
  <2> SUFFICES ASSUME Init PROVE HeadNotDiscarded
    BY InvInit, RolesInit
  <2> QED  BY DEF Init, ConstructedHead, ConstructedLoader, Undiscarded, HeadNotDiscarded
<1>2. HeadSavedByOwner /\ ~StorageFaults /\ Inv /\ [Next]_vars => Inv'
  BY InvNext, RolesStep, DiscardStep DEF IInv
<1>3. Inv => DiscardedHeadStaysDiscarded
  BY DEF HeadNotDiscarded, Undiscarded, DiscardedHeadStaysDiscarded
<1> QED  BY <1>1, <1>2, <1>3, PTL DEF Spec
=============================================================================
