------------------------ MODULE EvidenceLadder_proofs ------------------------
(***************************************************************************)
(* Proofs about EvidenceLadder, for any cases, gates, verifiers, levels    *)
(* and bounds: typing, what the log says of the truth, what the gates make *)
(* of it, and that the probe foretells them.                               *)
(***************************************************************************)
EXTENDS EvidenceLadder, FiniteSetTheorems, TLAPS

NoneIsNoVerdict == None \notin Verdict

LEMMA Nothings ==
    /\ NoneIsNoVerdict /\ None \notin Label /\ Truth \in Label
    /\ phase_limit \in Phase /\ (SafetyCritical => phase_limit # ML_PRIMARY)
<1>1. NoneIsNoVerdict
  BY GateAssumption DEF GateAssumption, NoneIsNoVerdict, Verdict
<1>2. None \notin Label /\ Truth \in Label
  BY LadderAssumption DEF LadderAssumption, Label
<1>3. phase_limit \in Phase /\ (SafetyCritical => phase_limit # ML_PRIMARY)
  BY ConfigAssumption DEF ConfigAssumption, phase_limit, Phase, RULE, ML_WITH_FALLBACK, ML_PRIMARY
<1> QED  BY <1>1, <1>2, <1>3

-----------------------------------------------------------------------------
(***************************************************************************)
(* The rows.  A row knows how its decision and its shadows were judged:    *)
(* each by its own output, and the shadows of a right decision not at all. *)
(***************************************************************************)
WellJudged(r) ==
    /\ r \in Row
    /\ r.outcome = Judge(r.label)
    /\ r.model_outcome \in {Judge(r.model_output), "unknown", None}
    /\ r.ml_outcome \in {Judge(r.ml_output), "unknown", None}
    /\ r.outcome = "correct" => r.model_outcome = None /\ r.ml_outcome = None

Rows == IsFiniteSet(log) /\ \A e \in log : WellJudged(e.row)

LEMMA ServedType ==
    ASSUME NEW c \in Case, phase \in Phase
    PROVE  Served(c) \in Label
<1>1. /\ c.rule \in Label
      /\ c.model \in Answer /\ c.ml \in Answer
  BY LadderAssumption DEF LadderAssumption
<1>2. Primary(c) \in Label
  BY <1>1 DEF Primary, Decides
<1>3. phase \in {RULE, MODEL_SHADOW, MODEL_PRIMARY, ML_SHADOW, ML_WITH_FALLBACK, ML_PRIMARY}
  BY DEF Phase, RULE, MODEL_SHADOW, MODEL_PRIMARY, ML_SHADOW, ML_WITH_FALLBACK, ML_PRIMARY
<1>4. CASE phase \in {RULE, MODEL_SHADOW}
  BY <1>1, <1>4 DEF Served, RULE, MODEL_SHADOW, MODEL_PRIMARY, ML_SHADOW, ML_WITH_FALLBACK, ML_PRIMARY
<1>5. CASE phase \in {MODEL_PRIMARY, ML_SHADOW}
  BY <1>2, <1>5
     DEF Served, RULE, MODEL_SHADOW, MODEL_PRIMARY, ML_SHADOW, ML_WITH_FALLBACK, ML_PRIMARY
<1>6. CASE phase = ML_WITH_FALLBACK
  BY <1>2, <1>6
     DEF Served, Decides, RULE, MODEL_SHADOW, MODEL_PRIMARY, ML_SHADOW, ML_WITH_FALLBACK, ML_PRIMARY
<1>7. CASE phase = ML_PRIMARY
  BY <1>1, <1>7
     DEF Served, RULE, MODEL_SHADOW, MODEL_PRIMARY, ML_SHADOW, ML_WITH_FALLBACK, ML_PRIMARY
<1> QED  BY <1>3, <1>4, <1>5, <1>6, <1>7

\* The adjudication of a shadow is a judgement of its own output, or nothing.
LEMMA OwnJudges ==
    ASSUME NEW output, NEW label, NEW answer \in Answers
    PROVE  /\ Own(output, label, answer) \in {Judge(output), "unknown", None}
           /\ Own(output, label, answer) \in Verdict \cup {None}
           /\ Judge(label) = "correct" => Own(output, label, answer) = None
<1>1. answer \in {"judges", "abstains", "raises"}
  BY LadderAssumption DEF LadderAssumption
<1> QED  BY <1>1 DEF Own, Judge, Verdict

LEMMA RecordedRow ==
    ASSUME NEW c \in Case, NEW answer \in Answers, phase \in Phase
    PROVE  WellJudged(Recorded(c, answer))
<1> DEFINE r == Recorded(c, answer)
           s == Served(c)
           m == Observed(AsksModel(c), c.model)
           h == Observed(AsksHead, c.ml)
<1>1. s \in Label
  BY ServedType
<1>2. /\ c.rule \in Label
      /\ c.model \in Answer /\ c.ml \in Answer
  BY LadderAssumption DEF LadderAssumption
<1>3. m \in Label \cup {Blank, None} /\ h \in Label \cup {Blank, None}
  BY <1>2 DEF Observed, Answer
<1>4. r = [label |-> s, outcome |-> Judge(s), rule_output |-> c.rule,
           model_output |-> m, ml_output |-> h,
           model_outcome |-> Own(m, s, answer), ml_outcome |-> Own(h, s, answer)]
  BY DEF Recorded
<1> HIDE DEF r, s, m, h
<1>5. Judge(s) \in {"correct", "incorrect"}
  BY DEF Judge
<1>6. /\ Own(m, s, answer) \in Verdict \cup {None}
      /\ Own(h, s, answer) \in Verdict \cup {None}
  BY OwnJudges
<1>7. r \in Row
  BY <1>1, <1>2, <1>3, <1>4, <1>5, <1>6 DEF Row
<1>8. /\ r.outcome = Judge(r.label)
      /\ r.model_outcome \in {Judge(r.model_output), "unknown", None}
      /\ r.ml_outcome \in {Judge(r.ml_output), "unknown", None}
      /\ r.outcome = "correct" => r.model_outcome = None /\ r.ml_outcome = None
  BY <1>4, OwnJudges
<1> QED  BY <1>7, <1>8 DEF WellJudged, r

\* One more record.
LEMMA RowsGrow ==
    ASSUME Rows, log \subseteq [row : Row, nth : 1 .. MaxRows], Cardinality(log) < MaxRows,
           NEW r, WellJudged(r)
    PROVE  /\ Appended(r) \subseteq [row : Row, nth : 1 .. MaxRows]
           /\ IsFiniteSet(Appended(r)) /\ \A e \in Appended(r) : WellJudged(e.row)
<1> DEFINE same == {e \in log : e.row = r}
           new  == [row |-> r, nth |-> Cardinality(same) + 1]
<1>1. Appended(r) = log \cup {new}
  BY DEF Appended
<1>2. IsFiniteSet(log)
  BY DEF Rows
<1>3. same \subseteq log
  OBVIOUS
<1>4. /\ Cardinality(log) \in Nat
      /\ Cardinality(same) \in Nat /\ Cardinality(same) <= Cardinality(log)
  <2> HIDE DEF same
  <2> QED  BY <1>2, <1>3, FS_Subset, FS_CardinalityType
<1>5. MaxRows \in Nat
  BY LadderAssumption DEF LadderAssumption
<1>6. Cardinality(same) + 1 \in 1 .. MaxRows
  <2> HIDE DEF same
  <2> QED  BY <1>4, <1>5
<1> HIDE DEF same
<1>7. new \in [row : Row, nth : 1 .. MaxRows] /\ new.row = r
  BY <1>6 DEF WellJudged
<1>8. IsFiniteSet(log \cup {new})
  BY <1>2, FS_AddElement
<1> HIDE DEF new
<1> QED  BY <1>1, <1>7, <1>8 DEF Rows

-----------------------------------------------------------------------------
(***************************************************************************)
(* Typing.                                                                 *)
(***************************************************************************)
\* Automatic checks and operators move by one rung, inside the ladder.
LEMMA CheckedType ==
    ASSUME TypeOK, NEW rows, Checked(rows)
    PROVE  phase' \in Phase /\ sinceCheck' \in 0 .. Interval /\ sinceChange' \in 0 .. Cooldown
<1>1. Interval \in Nat /\ Cooldown \in Nat
  BY LadderAssumption DEF LadderAssumption
<1>2. Raised(sinceChange) \in 0 .. Cooldown
  BY <1>1 DEF Raised, TypeOK
<1>3. Moved(rows) \in Phase
  <2>1. Drift(rows) => phase - 1 \in Phase
    BY DEF TypeOK, Drift, Phase, RULE, ML_PRIMARY
  <2>2. Passes(rows) => phase + 1 \in Phase
    BY DEF TypeOK, Passes, Refused, Phase, RULE, ML_PRIMARY
  <2> QED  BY <2>1, <2>2 DEF Moved, TypeOK
<1>4. CASE ~AutoOn
  BY <1>4 DEF Checked, TypeOK
<1>5. CASE AutoOn /\ ~Due
  BY <1>1, <1>2, <1>5 DEF Checked, TypeOK
<1>6. CASE AutoOn /\ Due
  <2>1. /\ sinceCheck' = 0 /\ phase' = Moved(rows)
        /\ sinceChange' = IF phase' # phase THEN 0 ELSE Raised(sinceChange)
    BY <1>6 DEF Checked
  <2> QED  BY <1>1, <1>2, <1>3, <2>1
<1> QED  BY <1>4, <1>5, <1>6

Inv == TypeOK /\ Rows

LEMMA InvInit == Init => Inv
<1> SUFFICES ASSUME Init PROVE Inv  OBVIOUS
<1>1. IsFiniteSet({}) 
  BY FS_EmptySet
<1>2. 0 \in 0 .. Interval /\ 0 \in 0 .. Cooldown /\ Cooldown \in 0 .. Cooldown
  BY LadderAssumption DEF LadderAssumption
<1>3. StartingPhase \in Phase
  BY ConfigAssumption DEF ConfigAssumption
<1> QED  BY <1>1, <1>2, <1>3 DEF Init, Inv, TypeOK, Rows

LEMMA InvNext == Inv /\ [Next]_vars => Inv'
<1> SUFFICES ASSUME Inv, [Next]_vars PROVE Inv'  OBVIOUS
<1> USE DEF Inv
<1>c. 0 \in 0 .. Interval /\ 0 \in 0 .. Cooldown /\ Cooldown \in 0 .. Cooldown
  BY LadderAssumption DEF LadderAssumption
<1>1. ASSUME NEW c \in Case, NEW answer \in Answers, Judged(c, answer) PROVE Inv'
  <2>1. WellJudged(Recorded(c, answer))
    BY RecordedRow DEF TypeOK
  <2>2. log' = Appended(Recorded(c, answer)) /\ Cardinality(log) < MaxRows
    BY <1>1 DEF Judged
  <2>3. log' \subseteq [row : Row, nth : 1 .. MaxRows] /\ Rows'
    BY <2>1, <2>2, RowsGrow DEF Rows, TypeOK
  <2>4. phase' \in Phase /\ sinceCheck' \in 0 .. Interval /\ sinceChange' \in 0 .. Cooldown
    BY <1>1, CheckedType DEF Judged
  <2>5. tripped' \in BOOLEAN /\ gate' \in Gates
    BY <1>1, Zenon DEF Judged, Trips, TypeOK
  <2> QED  BY <2>3, <2>4, <2>5 DEF TypeOK
<1>2. ASSUME NEW c \in Case, Unknown(c) PROVE Inv'
  <2>1. phase' \in Phase /\ sinceCheck' \in 0 .. Interval /\ sinceChange' \in 0 .. Cooldown
    BY <1>2, CheckedType DEF Unknown
  <2>2. tripped' \in BOOLEAN /\ gate' \in Gates /\ log' = log
    BY <1>2, Zenon DEF Unknown, Trips, TypeOK
  <2> QED  BY <2>1, <2>2 DEF TypeOK, Rows
<1>3. CASE Advance
  <2>1. phase' \in Phase
    BY <1>3 DEF Advance, Passes, Refused, TypeOK, Phase, RULE, ML_PRIMARY
  <2> QED  BY <1>3, <1>c, <2>1 DEF Advance, TypeOK, Rows
<1>4. CASE Demote
  <2>1. phase' \in Phase
    BY <1>4 DEF Demote, TypeOK, Phase, RULE, ML_PRIMARY
  <2> QED  BY <1>4, <1>c, <2>1 DEF Demote, TypeOK, Rows
<1>5. CASE ResetBreaker
  BY <1>5 DEF ResetBreaker, TypeOK, Rows
<1>6. CASE Restart
  BY <1>6, <1>c, ConfigAssumption DEF Restart, TypeOK, Rows, ConfigAssumption
<1>7. CASE UNCHANGED vars
  BY <1>7 DEF vars, TypeOK, Rows
<1> QED  BY <1>1, <1>2, <1>3, <1>4, <1>5, <1>6, <1>7 DEF Next

\* Whatever is classified, judged and demanded, the switch stays on its ladder
\* and its log of finitely many rows remembers how each was judged.
THEOREM TypeCorrect == Spec => []TypeOK
<1>1. Inv => TypeOK
  BY DEF Inv
<1> QED  BY <1>1, InvInit, InvNext, PTL DEF Spec

-----------------------------------------------------------------------------
(***************************************************************************)
(* What the log says is true.                                              *)
(***************************************************************************)
\* What a row says of a source is so, and a rule is credited where it served.
LEMMA RowIsTrue ==
    ASSUME NEW r, WellJudged(r), NEW f \in Source
    PROVE  /\ Right(r, f) => r[f] = Truth
           /\ Wrong(r, f) => r[f] # Truth
           /\ Right(r, "rule_output") => r.label = r.rule_output
<1>1. NoneIsNoVerdict
  BY Nothings
<1>2. CASE f = "rule_output"
  <2>1. Adjudicated(r, f) = None
    BY <1>2 DEF Adjudicated
  <2> QED  BY <1>1, <1>2, <2>1 DEF NoneIsNoVerdict, WellJudged, Row, Right, Wrong, FromDecision, Judge, Verdict
<1>3. CASE f = "model_output"
  <2>1. Adjudicated(r, f) = r.model_outcome /\ r[f] = r.model_output
    BY <1>3 DEF Adjudicated
  <2>2. Right(r, f) => r[f] = Truth
    BY <1>1, <1>3, <2>1 DEF NoneIsNoVerdict, WellJudged, Right, FromDecision, Judge, Verdict
  <2>3. Wrong(r, f) => r[f] # Truth
    BY <1>1, <1>3, <2>1 DEF NoneIsNoVerdict, WellJudged, Wrong, FromDecision, Judge, Verdict
  <2>4. Right(r, "rule_output") => r.label = r.rule_output
    BY <1>1 DEF NoneIsNoVerdict, Right, FromDecision, Adjudicated, Verdict
  <2> QED  BY <2>2, <2>3, <2>4
<1>4. CASE f = "ml_output"
  <2>1. Adjudicated(r, f) = r.ml_outcome /\ r[f] = r.ml_output
    BY <1>4 DEF Adjudicated
  <2>2. Right(r, f) => r[f] = Truth
    BY <1>1, <1>4, <2>1 DEF NoneIsNoVerdict, WellJudged, Right, FromDecision, Judge, Verdict
  <2>3. Wrong(r, f) => r[f] # Truth
    BY <1>1, <1>4, <2>1 DEF NoneIsNoVerdict, WellJudged, Wrong, FromDecision, Judge, Verdict
  <2>4. Right(r, "rule_output") => r.label = r.rule_output
    BY <1>1 DEF NoneIsNoVerdict, Right, FromDecision, Adjudicated, Verdict
  <2> QED  BY <2>2, <2>3, <2>4
<1> QED  BY <1>2, <1>3, <1>4 DEF Source

\* Of a decision the rule served rightly the row says all there is to know.
LEMMA RowIsWhole ==
    ASSUME NEW r, WellJudged(r), r.label = r.rule_output, r.rule_output = Truth
    PROVE  /\ Right(r, "rule_output")
           /\ r.model_output \notin {Truth, None} => Wrong(r, "model_output")
<1>1. NoneIsNoVerdict /\ None # Truth
  BY Nothings
<1>2. r.outcome = "correct" /\ r.model_outcome = None
  BY DEF WellJudged, Judge
<1>3. Right(r, "rule_output")
  BY <1>1, <1>2 DEF NoneIsNoVerdict, Right, FromDecision, Adjudicated, Verdict
<1>4. ASSUME r.model_output \notin {Truth, None} PROVE Wrong(r, "model_output")
  BY <1>1, <1>2, <1>4 DEF NoneIsNoVerdict, Wrong, FromDecision, Adjudicated, Verdict
<1> QED  BY <1>3, <1>4

\* Part of a finite set is counted by a natural number, no more than the whole.
LEMMA Counts ==
    ASSUME NEW S, IsFiniteSet(S), NEW T, T \subseteq S
    PROVE  IsFiniteSet(T) /\ Cardinality(T) \in Nat /\ Cardinality(S) \in Nat
           /\ Cardinality(T) <= Cardinality(S)
BY FS_Subset, FS_CardinalityType

\* Two shadows found worse than the rule were.
LEMMA FairlyJudged == Rows => ShadowFairlyJudged
<1> SUFFICES ASSUME Rows, NEW f \in {"model_output", "ml_output"}, Assess(log, f)
             PROVE  LET rows == {e \in log : e.row.outcome = "correct"}
                    IN  TrulyWins(rows, "rule_output", f) > TrulyWins(rows, f, "rule_output")
  BY DEF ShadowFairlyJudged
<1> DEFINE rows == {e \in log : e.row.outcome = "correct"}
           seen == Compared(log, f)
<1>1. \A e \in rows : e.row.label = Truth /\ e.row.rule_output # None
  <2>1. None \notin Label
    BY Nothings
  <2> QED  BY <2>1 DEF Rows, WellJudged, Row, Judge
<1>2. None # Truth
  BY Nothings
<1>3. seen = {e \in rows : e.row.rule_output # None /\ e.row[f] # None}
  BY DEF Compared
<1>4. {e \in seen : e.row["rule_output"] = e.row.label /\ e.row[f] # e.row.label}
        = {e \in rows : e.row["rule_output"] = Truth /\ e.row[f] \notin {Truth, None}}
  BY <1>1, <1>2, <1>3
<1>5. {e \in seen : e.row[f] = e.row.label /\ e.row["rule_output"] # e.row.label}
        = {e \in rows : e.row[f] = Truth /\ e.row["rule_output"] \notin {Truth, None}}
  BY <1>1, <1>2, <1>3
<1>6. WinsByLabel(seen, "rule_output", f) > WinsByLabel(seen, f, "rule_output")
  BY DEF Assess
<1> HIDE DEF rows, seen
<1>7. TrulyWins(rows, "rule_output", f) > TrulyWins(rows, f, "rule_output")
  BY <1>4, <1>5, <1>6 DEF WinsByLabel, TrulyWins
<1> QED  BY <1>7 DEF rows

\* A rule that served every row was right in every row that is counted, so it
\* lost none of its accuracy.
LEMMA Blind == Rows => RestartBlind
<1> SUFFICES ASSUME Rows, \A e \in log : e.row.label = e.row.rule_output, NEW right \in 0 .. 2
             PROVE  ~ShouldRestart(log, FALSE, right, 2, 5)
  BY DEF RestartBlind
<1> DEFINE rows == {e \in log : e.row.outcome = "correct" /\ e.row.rule_output # None}
           n    == Cardinality(rows)
<1>1. {e \in rows : e.row.rule_output = e.row.label} = rows
  OBVIOUS
<1>2. n \in Nat
  BY Counts DEF Rows
<1>3. MinPaired \in Nat \ {0}
  BY GateAssumption DEF GateAssumption
<1> HIDE DEF rows
<1>4. ~(n >= MinPaired /\ 100 * (right * n - n * 2) >= 5 * 2 * n)
  <2> HIDE DEF n
  <2>1. right = 0 \/ right = 1 \/ right = 2
    OBVIOUS
  <2> QED  BY <1>2, <1>3, <2>1
<1> QED  BY <1>1, <1>4 DEF ShouldRestart, rows

\* Whoever judges and whatever the switch serves: the log is true of every
\* source, of the rule only where it was served, and of a disabled shadow never,
\* as long as the rule serves.
THEOREM Sound == Spec => []EvidenceIsSound
<1>1. Rows => EvidenceIsTrue /\ RuleCreditedWhereServed
  BY RowIsTrue DEF Rows, EvidenceIsTrue, RuleCreditedWhereServed, Source
<1>2. Inv => EvidenceIsSound
  BY <1>1, FairlyJudged, Blind DEF Inv, EvidenceIsSound
<1> QED  BY <1>2, InvInit, InvNext, PTL DEF Spec

-----------------------------------------------------------------------------
(***************************************************************************)
(* What the gates make of it.                                              *)
(***************************************************************************)
\* The counts of a finite log are natural numbers.
LEMMA GateCounts ==
    ASSUME NEW rows, IsFiniteSet(rows), NEW f, NEW g
    PROVE  /\ Wins(rows, f, g) \in Nat
           /\ Cardinality(Paired(rows, f, g)) \in Nat /\ IsFiniteSet(Paired(rows, f, g))
           /\ RightIn(Paired(rows, f, g), f) \in Nat /\ RightIn(Paired(rows, f, g), g) \in Nat
<1>1. Wins(rows, f, g) \in Nat
  BY Counts DEF Wins
<1> DEFINE P == Paired(rows, f, g)
<1>2. Cardinality(P) \in Nat /\ IsFiniteSet(P)
  BY Counts DEF Paired
<1> HIDE DEF P
<1>3. RightIn(P, f) \in Nat /\ RightIn(P, g) \in Nat
  BY <1>2, Counts DEF RightIn
<1> QED  BY <1>1, <1>2, <1>3 DEF P

\* Nothing beats itself, by the paired test or by a margin.
LEMMA NoneBeatsItself ==
    ASSUME NEW rows, IsFiniteSet(rows), NEW cur, NEW tgt, source_field(cur) = source_field(tgt)
    PROVE  ~McNemar(rows, cur, tgt).target_better /\ ~AccuracyMargin(rows, cur, tgt).target_better
<1> DEFINE f == source_field(cur)
           n == Pairs(rows, cur, tgt)
<1>1. f = source_field(tgt)
  OBVIOUS
<1> HIDE DEF f
<1>2. Wins(rows, f, f) \in Nat
  BY GateCounts
<1>3. ~McNemar(rows, cur, tgt).target_better
  <2>1. ~(Wins(rows, f, f) > Wins(rows, f, f))
    BY <1>2
  <2> QED  BY <1>1, <2>1 DEF McNemar, Decision, Beats, f
<1>4. n \in Nat
  BY <1>1, GateCounts DEF Pairs, f
<1>5. Gain(rows, cur, tgt) = 0
  <2>1. RightIn(Paired(rows, f, f), f) \in Nat
    BY GateCounts
  <2> QED  BY <1>1, <2>1 DEF Gain, f
<1> HIDE DEF n
<1>6. Margin * n >= 0 /\ Margin * n \in Int
  <2>1. Margin \in Nat
    BY GateAssumption DEF GateAssumption
  <2> QED  BY <1>4, <2>1
<1>7. ~(n >= MinPaired /\ 100 * Gain(rows, cur, tgt) > Margin * n)
  BY <1>5, <1>6
<1>8. ~AccuracyMargin(rows, cur, tgt).target_better
  BY <1>7 DEF AccuracyMargin, Decision, n
<1> QED  BY <1>3, <1>8

\* What a switch's gate passes won by the paired test or by a margin, but on the
\* rung where the head only has to keep up.
LEMMA PassedGate ==
    ASSUME gate \in Gates, NEW rows, NEW cur, NEW tgt, Gate(rows, cur, tgt).target_better,
           ~(cur = ML_SHADOW /\ tgt = ML_WITH_FALLBACK)
    PROVE  McNemar(rows, cur, tgt).target_better \/ AccuracyMargin(rows, cur, tgt).target_better
<1>1. gate \in {"v1", "v2", "guarded", "either"}
  BY LadderAssumption DEF LadderAssumption
<1>2. CASE gate = "v1"
  BY <1>2 DEF Gate
<1>3. CASE gate = "v2"
  BY <1>3 DEF Gate, PhaseAware
<1>4. CASE gate = "guarded"
  <2> DEFINE inner == MinVolume(rows, McNemar(rows, cur, tgt))
             parts == <<inner, Latency(Slow, tgt)>>
  <2>1. AllOf(parts).target_better
    BY <1>4 DEF Gate
  <2>2. \A i \in DOMAIN parts : parts[i].target_better
    <3> HIDE DEF parts
    <3> QED  BY <2>1 DEF AllOf, Decision
  <2>3. inner.target_better
    <3> HIDE DEF inner
    <3>1. 1 \in DOMAIN parts /\ parts[1] = inner
      OBVIOUS
    <3> HIDE DEF parts
    <3> QED  BY <2>2, <3>1
  <2> QED  BY <2>3 DEF MinVolume, Decision
<1>5. CASE gate = "either"
  <2> DEFINE margin == AccuracyMargin(rows, cur, tgt)
             parts == <<Manual(rows, cur, tgt), margin>>
  <2>1. AnyOf(parts).target_better
    BY <1>5 DEF Gate
  <2>2. \E i \in DOMAIN parts : parts[i].target_better
    <3> HIDE DEF parts
    <3> QED  BY <2>1 DEF AnyOf, Decision
  <2>3. ~Manual(rows, cur, tgt).target_better
    BY DEF Manual, Decision
  <2>4. margin.target_better
    <3> HIDE DEF margin
    <3>1. \A i \in DOMAIN parts : parts[i] = margin \/ parts[i] = Manual(rows, cur, tgt)
      OBVIOUS
    <3> HIDE DEF parts
    <3> QED  BY <2>2, <2>3, <3>1
  <2> QED  BY <2>4
<1> QED  BY <1>1, <1>2, <1>3, <1>4, <1>5

\* A promotion, told from a restart by its cooldown, is one the gate passed.
LEMMA PromotedByGate ==
    ASSUME Inv, Cooldown # 0, [Next]_vars, Promoted
    PROVE  Passes(log')
<1> USE DEF Inv, Promoted
<1>1. phase \in Int /\ phase' = phase + 1 /\ phase' # phase /\ phase' # phase - 1
  BY DEF TypeOK, Phase, RULE, ML_PRIMARY
<1>2. ASSUME NEW rows, Checked(rows) PROVE Passes(rows)
  <2>1. AutoOn /\ Due
    BY <1>1, <1>2 DEF Checked
  <2>2. phase' = Moved(rows)
    BY <1>2, <2>1 DEF Checked
  <2> QED  BY <1>1, <2>2 DEF Moved
<1>3. ASSUME NEW c \in Case, NEW answer \in Answers, Judged(c, answer) PROVE Passes(log')
  BY <1>2, <1>3 DEF Judged
<1>4. ASSUME NEW c \in Case, Unknown(c) PROVE Passes(log')
  <2>1. Checked(log) /\ log' = log
    BY <1>4 DEF Unknown
  <2> QED  BY <1>2, <2>1
<1>5. CASE Advance
  <2>1. Passes(log) /\ log' = log
    BY <1>5 DEF Advance
  <2> QED  BY <2>1
<1>6. CASE Demote \/ ResetBreaker \/ UNCHANGED vars
  BY <1>1, <1>6 DEF Demote, ResetBreaker, vars
<1>7. CASE Restart
  BY <1>7 DEF Restart
<1> QED  BY <1>3, <1>4, <1>5, <1>6, <1>7 DEF Next

\* For any log, cases, gates and level: no switch is promoted between two phases
\* that serve the same source.  (With no cooldown a restart that starts one rung
\* higher would look like a promotion.)
THEOREM LateralRungs == ASSUME Cooldown # 0 PROVE Spec => LateralRungsHold
<1>1. Inv /\ Inv' /\ [Next]_vars => [Promoted => source_field(phase') # source_field(phase)]_vars
  <2> SUFFICES ASSUME Inv, Inv', [Next]_vars, Promoted,
                      source_field(phase') = source_field(phase)
               PROVE  FALSE
    OBVIOUS
  <2>1. Gate(log', phase, phase + 1).target_better
    BY PromotedByGate DEF Passes
  <2>2. phase' = phase + 1 /\ IsFiniteSet(log') /\ gate \in Gates
    BY DEF Promoted, Inv, Rows, TypeOK
  <2>3. ~(phase = ML_SHADOW /\ phase + 1 = ML_WITH_FALLBACK)
    BY <2>2 DEF source_field, RULE, MODEL_SHADOW, MODEL_PRIMARY, ML_SHADOW, ML_WITH_FALLBACK, ML_PRIMARY
  <2> QED  BY <2>1, <2>2, <2>3, PassedGate, NoneBeatsItself
<1> QED  BY <1>1, InvInit, InvNext, PTL DEF Spec, LateralRungsHold

-----------------------------------------------------------------------------
\* Where the rows are true, a gain in accuracy over the pairs is a lead in the
\* discordant ones.
LEMMA GainIsLead ==
    ASSUME NEW rows, IsFiniteSet(rows), \A e \in rows : WellJudged(e.row),
           NEW f \in Source, NEW g \in Source
    PROVE  RightIn(Paired(rows, f, g), g) - RightIn(Paired(rows, f, g), f)
             = Wins(rows, g, f) - Wins(rows, f, g)
<1> DEFINE P == Paired(rows, f, g)
           A == {e \in P : Right(e.row, g)}
           B == {e \in P : Right(e.row, f)}
<1>1. \A e \in rows : ~(Right(e.row, f) /\ Wrong(e.row, f)) /\ ~(Right(e.row, g) /\ Wrong(e.row, g))
  BY RowIsTrue
<1>2. /\ A \ B = {e \in rows : Right(e.row, g) /\ Wrong(e.row, f)}
      /\ B \ A = {e \in rows : Right(e.row, f) /\ Wrong(e.row, g)}
  BY <1>1 DEF Paired, Known
<1>3. IsFiniteSet(A) /\ IsFiniteSet(B)
  <2>1. IsFiniteSet(P)
    BY GateCounts
  <2> HIDE DEF P
  <2> QED  BY <2>1, Counts
<1>4. RightIn(P, g) = Cardinality(A) /\ RightIn(P, f) = Cardinality(B)
  BY DEF RightIn
<1> HIDE DEF A, B, P
<1>5. Cardinality(A) \in Nat /\ Cardinality(B) \in Nat /\ Cardinality(A \cap B) \in Nat
  BY <1>3, Counts
<1>6. /\ Cardinality(A \ B) = Cardinality(A) - Cardinality(A \cap B)
      /\ Cardinality(B \ A) = Cardinality(B) - Cardinality(B \cap A)
  BY <1>3, FS_Difference
<1>7. B \cap A = A \cap B
  OBVIOUS
<1>8. Cardinality(A) - Cardinality(B) = Cardinality(A \ B) - Cardinality(B \ A)
  <2> DEFINE a == Cardinality(A)  b == Cardinality(B)  ab == Cardinality(A \cap B)
             ax == Cardinality(A \ B)  bx == Cardinality(B \ A)
  <2>1. a \in Nat /\ b \in Nat /\ ab \in Nat /\ ax = a - ab /\ bx = b - ab
    BY <1>5, <1>6, <1>7, Zenon
  <2> HIDE DEF a, b, ab, ax, bx
  <2>2. a - b = ax - bx
    BY <2>1
  <2> QED  BY <2>2 DEF a, b, ax, bx
<1> QED  BY <1>2, <1>4, <1>8 DEF Wins, P

\* For any log the rule served alone: the model is promoted only over a rule it
\* truly beats where they differ.
THEOREM OnTruth == ASSUME Cooldown # 0 PROVE Spec => PromotedOnTruth
<1>1. ASSUME Inv, Inv', [Next]_vars, Promoted, phase = MODEL_SHADOW,
             \A e \in log' : e.row.label = e.row.rule_output
      PROVE  TrulyWins(log', "model_output", "rule_output")
               > TrulyWins(log', "rule_output", "model_output")
  <2> DEFINE rows == log'
             m == "model_output"
             r == "rule_output"
  <2>1. Gate(rows, MODEL_SHADOW, MODEL_PRIMARY).target_better
    BY <1>1, PromotedByGate DEF Passes, MODEL_SHADOW, MODEL_PRIMARY
  <2>2. IsFiniteSet(rows) /\ gate \in Gates /\ \A e \in rows : WellJudged(e.row)
    BY <1>1 DEF Inv, Rows, TypeOK
  <2>3. source_field(MODEL_SHADOW) = r /\ source_field(MODEL_PRIMARY) = m
    BY DEF source_field, RULE, MODEL_SHADOW, MODEL_PRIMARY, ML_SHADOW, ML_WITH_FALLBACK, ML_PRIMARY
  <2>a. \A e \in rows : e.row.label = e.row.rule_output
    BY <1>1
  <2> HIDE DEF rows
  <2>4. Wins(rows, m, r) \in Nat /\ Wins(rows, r, m) \in Nat
    BY <2>2, GateCounts
  <2>5. Wins(rows, m, r) > Wins(rows, r, m)
    <3>1. CASE McNemar(rows, MODEL_SHADOW, MODEL_PRIMARY).target_better
      BY <2>3, <3>1 DEF McNemar, Decision, Beats
    <3>2. CASE AccuracyMargin(rows, MODEL_SHADOW, MODEL_PRIMARY).target_better
      <4> DEFINE n == Pairs(rows, MODEL_SHADOW, MODEL_PRIMARY)
                 gain == Gain(rows, MODEL_SHADOW, MODEL_PRIMARY)
      <4>1. 100 * gain > Margin * n
        BY <3>2 DEF AccuracyMargin, Decision
      <4>2. n \in Nat
        BY <2>2, <2>3, GateCounts DEF Pairs
      <4>3. gain = Wins(rows, m, r) - Wins(rows, r, m)
        BY <2>2, <2>3, GainIsLead DEF Gain, Source
      <4> HIDE DEF n, gain
      <4>4. Margin * n >= 0 /\ Margin * n \in Int
        <5>1. Margin \in Nat
          BY GateAssumption DEF GateAssumption
        <5> QED  BY <4>2, <5>1
      <4> QED  BY <2>4, <4>1, <4>3, <4>4
    <3>3. ~(MODEL_SHADOW = ML_SHADOW)
      BY DEF MODEL_SHADOW, ML_SHADOW
    <3> QED  BY <2>1, <2>2, <3>1, <3>2, <3>3, PassedGate
  \* The pairs the model wins it wins truly; those the rule truly wins are in the log.
  <2>6. Wins(rows, m, r) <= TrulyWins(rows, m, r) /\ TrulyWins(rows, m, r) \in Nat
    <3> DEFINE seen == {e \in rows : Right(e.row, m) /\ Wrong(e.row, r)}
               true == {e \in rows : e.row[m] = Truth /\ e.row[r] \notin {Truth, None}}
    <3>1. seen \subseteq true
      <4>1. ASSUME NEW e \in rows, Right(e.row, m), Wrong(e.row, r)
            PROVE  e.row[m] = Truth /\ e.row[r] \notin {Truth, None}
        <5>1. e.row[m] = Truth /\ e.row[r] # Truth
          BY <2>2, <4>1, RowIsTrue DEF Source
        <5>2. e.row[r] # None
          BY <2>2, Nothings DEF WellJudged, Row
        <5> QED  BY <5>1, <5>2
      <4> QED  BY <4>1
    <3>2. IsFiniteSet(true)
      BY <2>2, Counts
    <3>3. Wins(rows, m, r) = Cardinality(seen) /\ TrulyWins(rows, m, r) = Cardinality(true)
      BY DEF Wins, TrulyWins
    <3> HIDE DEF seen, true
    <3> QED  BY <3>1, <3>2, <3>3, Counts
  <2>7. TrulyWins(rows, r, m) <= Wins(rows, r, m) /\ TrulyWins(rows, r, m) \in Nat
    <3> DEFINE seen == {e \in rows : Right(e.row, r) /\ Wrong(e.row, m)}
               true == {e \in rows : e.row[r] = Truth /\ e.row[m] \notin {Truth, None}}
    <3>1. true \subseteq seen
      BY <2>2, <2>a, RowIsWhole
    <3>2. IsFiniteSet(seen)
      BY <2>2, Counts
    <3>3. Wins(rows, r, m) = Cardinality(seen) /\ TrulyWins(rows, r, m) = Cardinality(true)
      BY DEF Wins, TrulyWins
    <3> HIDE DEF seen, true
    <3> QED  BY <3>1, <3>2, <3>3, Counts
  <2>8. TrulyWins(rows, m, r) > TrulyWins(rows, r, m)
    BY <2>4, <2>5, <2>6, <2>7
  <2> QED  BY <2>8 DEF rows
<1>2. Inv /\ Inv' /\ [Next]_vars =>
        [/\ Promoted /\ phase = MODEL_SHADOW
         /\ \A e \in log' : e.row.label = e.row.rule_output
         => TrulyWins(log', "model_output", "rule_output")
              > TrulyWins(log', "rule_output", "model_output")]_vars
  BY <1>1
<1> QED  BY <1>2, InvInit, InvNext, PTL DEF Spec, PromotedOnTruth

-----------------------------------------------------------------------------
(***************************************************************************)
(* The probe.                                                              *)
(***************************************************************************)
\* A decision is an answer and a count; a composite of two parts reports the
\* count of one of them, or none.
Counted(d) == d.target_better \in BOOLEAN /\ d.paired_sample_size \in Nat

LEMMA SampleType ==
    ASSUME NEW d, NEW e, Counted(d), Counted(e)
    PROVE  Sample(<<d, e>>) \in Nat
<1> DEFINE parts == <<d, e>>
           counted == {i \in DOMAIN parts : parts[i].paired_sample_size > 0}
           first == CHOOSE i \in counted : \A j \in counted : i <= j
<1>1. DOMAIN parts = {1, 2} /\ \A i \in DOMAIN parts : parts[i] = d \/ parts[i] = e
  OBVIOUS
<1>2. CASE counted = {}
  BY <1>2 DEF Sample
<1>3. CASE counted # {}
  <2>1. counted \subseteq {1, 2}
    BY <1>1
  <2>2. \E k \in counted : \A j \in counted : k <= j
    <3> HIDE DEF counted
    <3>1. CASE 1 \in counted
      BY <2>1, <3>1
    <3>2. CASE 1 \notin counted
      <4>1. counted = {2}
        BY <1>3, <2>1, <3>2
      <4> QED  BY <4>1
    <3> QED  BY <3>1, <3>2
  <2>3. first \in counted
    <3> HIDE DEF counted
    <3> QED  BY <2>2
  <2>4. parts[first].paired_sample_size \in Nat
    <3>1. first \in DOMAIN parts
      BY <2>3
    <3> HIDE DEF parts, first
    <3> QED  BY <1>1, <3>1 DEF Counted
  <2>5. Sample(parts) = parts[first].paired_sample_size
    <3> HIDE DEF parts
    <3> QED  BY <1>3 DEF Sample
  <2> QED  BY <2>4, <2>5
<1> QED  BY <1>2, <1>3

LEMMA GateType ==
    ASSUME gate \in Gates, NEW rows, IsFiniteSet(rows), NEW cur, NEW tgt
    PROVE  Counted(Gate(rows, cur, tgt))
<1>1. gate \in {"v1", "v2", "guarded", "either"}
  BY LadderAssumption DEF LadderAssumption
<1>2. Pairs(rows, cur, tgt) \in Nat /\ Cardinality(rows) \in Nat
  BY GateCounts, Counts DEF Pairs
<1>3. /\ Counted(McNemar(rows, cur, tgt)) /\ Counted(CostTolerance(rows, cur, tgt))
      /\ Counted(AccuracyMargin(rows, cur, tgt)) /\ Counted(Manual(rows, cur, tgt))
      /\ Counted(Latency(Slow, tgt))
  BY <1>2 DEF McNemar, CostTolerance, AccuracyMargin, Manual, Latency, Decision, Counted, Beats
<1>4. CASE gate \in {"v1", "v2"}
  BY <1>3, <1>4 DEF Gate, PhaseAware
<1>5. CASE gate = "guarded"
  <2> DEFINE inner == MinVolume(rows, McNemar(rows, cur, tgt))
  <2>1. Counted(inner)
    <3>1. Counted(Decision(FALSE, Cardinality(rows)))
      BY <1>2 DEF Counted, Decision
    <3> QED  BY <1>3, <3>1 DEF MinVolume
  <2> HIDE DEF inner
  <2>2. Sample(<<inner, Latency(Slow, tgt)>>) \in Nat
    BY <1>3, <2>1, SampleType
  <2> DEFINE parts == <<inner, Latency(Slow, tgt)>>
  <2>3. Gate(rows, cur, tgt) = AllOf(parts)
    BY <1>5 DEF Gate, inner
  <2>4. Sample(parts) \in Nat
    BY <2>2
  <2> HIDE DEF parts
  <2> QED  BY <2>3, <2>4 DEF AllOf, Decision, Counted
<1>6. CASE gate = "either"
  <2> DEFINE parts == <<Manual(rows, cur, tgt), AccuracyMargin(rows, cur, tgt)>>
  <2>1. Sample(parts) \in Nat
    BY <1>3, SampleType
  <2>2. Gate(rows, cur, tgt) = AnyOf(parts)
    BY <1>6 DEF Gate
  <2> HIDE DEF parts
  <2> QED  BY <2>1, <2>2 DEF AnyOf, Decision, Counted
<1> QED  BY <1>1, <1>4, <1>5, <1>6

\* For every gate, ceiling and log: readiness() foretells what advance() would
\* do, and a switch said to be short of evidence does not advance.
THEOREM Foretells == Spec => []ReadinessForetells
<1>1. ASSUME Inv PROVE ReadinessForetells
  <2> DEFINE target == next_phase(phase)
             d == Gate(log, phase, phase + 1)
  <2>1. Counted(d)
    BY <1>1, GateType DEF Inv, Rows, TypeOK
  <2> HIDE DEF d
  <2>2. phase \in Int /\ phase <= ML_PRIMARY /\ phase_limit \in Int
    BY <1>1, Nothings DEF Inv, TypeOK, Phase, RULE, ML_PRIMARY
  <2>3. CASE Refused
    <3>1. target = NoPhase \/ target > phase_limit
      BY <2>2, <2>3 DEF Refused, next_phase, NoPhase
    <3>2. readiness = Unready
      BY <3>1 DEF readiness
    <3> QED  BY <2>3, <3>2 DEF ReadinessForetells, Unready, Passes
  <2>4. CASE ~Refused
    <3>1. target = phase + 1 /\ target # NoPhase /\ ~(target > phase_limit)
      BY <1>1, <2>2, <2>4
         DEF Refused, next_phase, NoPhase, Inv, TypeOK, Phase, RULE, ML_PRIMARY
    <3>2. ~(SafetyCritical /\ target = ML_PRIMARY)
      <4>1. phase_limit \in Phase /\ (SafetyCritical => phase_limit # ML_PRIMARY)
        BY Nothings
      <4> HIDE DEF target
      <4> QED  BY <3>1, <4>1 DEF Phase, RULE, ML_PRIMARY
    <3>3. readiness = [would_advance |-> d.target_better, shortfall |-> Short(d.paired_sample_size)]
      BY <3>1, <3>2, Zenon DEF readiness, d
    <3>4. Passes(log) = d.target_better
      <4>1. d.target_better \in BOOLEAN
        BY <2>1 DEF Counted
      <4> QED  BY <2>4, <4>1 DEF Passes, d
    <3>5. Short(d.paired_sample_size) > 0 => ~d.target_better
      <4>1. CASE gate = "v1"
        <5>1. d = McNemar(log, phase, phase + 1)
          BY <4>1 DEF Gate, d
        <5>2. d.target_better => d.paired_sample_size >= MinPaired
          BY <5>1 DEF McNemar, Decision
        <5>3. MinPaired \in Nat /\ d.paired_sample_size \in Nat
          BY <2>1, GateAssumption DEF GateAssumption, Counted
        <5> QED  BY <4>1, <5>2, <5>3 DEF Short, min_paired
      <4>2. CASE gate # "v1"
        BY <2>1, <4>2 DEF Short, min_paired, Counted
      <4> QED  BY <4>1, <4>2
    <3> QED  BY <3>3, <3>4, <3>5 DEF ReadinessForetells
  <2> QED  BY <2>3, <2>4
<1> QED  BY <1>1, InvInit, InvNext, PTL DEF Spec
=============================================================================
