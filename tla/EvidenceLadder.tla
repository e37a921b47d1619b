---------------------------- MODULE EvidenceLadder ----------------------------
(***************************************************************************)
(* Where the evidence comes from: one switch that classifies cases in its  *)
(* current phase (core.py _classify_impl), has its decisions judged and    *)
(* its disagreeing shadows adjudicated (record_verdict), and lets its gate *)
(* and its drift gate move the phase on what the log then says.            *)
(*                                                                         *)
(* LearnedSwitch has the threads, the lock and the failures and takes any  *)
(* answer of a gate; here one thread runs, nothing fails but classifiers   *)
(* and verifiers, and the answers are the real ones, from GateLogic.  A    *)
(* case knows the truth, which no part of the code under test sees but     *)
(* through an honest verdict.                                              *)
(***************************************************************************)
EXTENDS GateLogic, SwitchConfig

CONSTANTS
    Truth, Mistake,  \* the labels: the right one of every case, and a wrong one
    Blank,           \* a label that is empty or white space
    Case,            \* the inputs: what each layer would say of them
    Gates,           \* what config.gate may be: a default set, or a composite
    Answers,         \* how the verifier meets an adjudication
    Slow,            \* the phases a latency gate refuses
    HasModel, HasVerifier, Adjudicate, AutoAdvance, AutoDemote,
    Interval, Cooldown,
    MaxRows          \* bound: rows of the log that carry a verdict

Label  == {Truth, Mistake}
Answer == [says : Label \cup {Blank, None}, sure : BOOLEAN]

ASSUME LadderAssumption ==
    /\ Case \subseteq [rule : Label, model : Answer, ml : Answer]
    /\ Gates \subseteq {"v1", "v2", "guarded", "either"}
    /\ Answers \subseteq {"judges", "abstains", "raises"}
    /\ Slow \subseteq Phase
    /\ {HasModel, HasVerifier, Adjudicate, AutoAdvance, AutoDemote} \subseteq BOOLEAN
    /\ Interval \in Nat /\ Cooldown \in Nat /\ MaxRows \in Nat
    /\ Truth # Mistake /\ {Blank, None} \cap Label = {}

VARIABLES gate, phase, log, tripped, sinceCheck, sinceChange

vars == <<gate, phase, log, tripped, sinceCheck, sinceChange>>

Verdict == {"correct", "incorrect", "unknown"}
Row == [label : Label, outcome : {"correct", "incorrect"}, rule_output : Label,
        model_output : Label \cup {Blank, None}, ml_output : Label \cup {Blank, None},
        model_outcome : Verdict \cup {None}, ml_outcome : Verdict \cup {None}]
-----------------------------------------------------------------------------
(* _classify_impl *)

\* A real label, given with confidence at or above confidence_threshold.
Decides(a) == a.says \in Label /\ a.sure

\* _phase_primary_decision, and MODEL_PRIMARY itself: the model if it decides.
Primary(c) == IF HasModel /\ Decides(c.model) THEN c.model.says ELSE c.rule

\* MODEL_SHADOW and MODEL_PRIMARY cannot serve without a model.
Unservable == phase \in {MODEL_SHADOW, MODEL_PRIMARY} /\ ~HasModel

AsksModel(c) ==
    HasModel /\ \/ phase \in {MODEL_SHADOW, MODEL_PRIMARY, ML_SHADOW}
                \/ phase = ML_WITH_FALLBACK /\ ~Decides(c.ml)
AsksHead == phase \in {ML_SHADOW, ML_WITH_FALLBACK} \/ (phase = ML_PRIMARY /\ ~tripped)

\* ML_PRIMARY serves whatever real label the head gives, however unsure.
Served(c) ==
    CASE phase \in {RULE, MODEL_SHADOW}        -> c.rule
      [] phase \in {MODEL_PRIMARY, ML_SHADOW}  -> Primary(c)
      [] phase = ML_WITH_FALLBACK              -> IF Decides(c.ml) THEN c.ml.says ELSE Primary(c)
      [] phase = ML_PRIMARY                    -> IF ~tripped /\ c.ml.says \in Label
                                                  THEN c.ml.says ELSE c.rule

Observed(asked, a) == IF asked THEN a.says ELSE None
Trips(c) == tripped \/ (phase = ML_PRIMARY /\ c.ml.says = None)

(* record_verdict *)

Judge(label) == IF label = Truth THEN "correct" ELSE "incorrect"

\* Mutant: the decision is judged once more instead of the layer's output.
OwnDecision(output, label, answer) ==
    IF /\ Adjudicate /\ HasVerifier /\ Judge(label) = "incorrect"
       /\ output # None /\ output # label
    THEN CASE answer = "judges" -> Judge(label)
           [] answer = "abstains" -> "unknown"
           [] answer = "raises" -> None
    ELSE None
\* The adjudication of one shadow layer: its own output, judged, when it
\* disagreed with a decision that was wrong.  A verifier may also abstain, or
\* raise.
Own(output, label, answer) ==
    IF /\ Adjudicate /\ HasVerifier /\ Judge(label) = "incorrect"
       /\ output # None /\ output # label
    THEN CASE answer = "judges" -> Judge(output)
           [] answer = "abstains" -> "unknown"
           [] answer = "raises" -> None
    ELSE None
Recorded(c, answer) ==
    LET m == Observed(AsksModel(c), c.model)
        h == Observed(AsksHead, c.ml)
    IN  [label |-> Served(c), outcome |-> Judge(Served(c)), rule_output |-> c.rule,
         model_output |-> m, ml_output |-> h,
         model_outcome |-> Own(m, Served(c), answer), ml_outcome |-> Own(h, Served(c), answer)]

Appended(row) ==
    log \cup {[row |-> row, nth |-> Cardinality({e \in log : e.row = row}) + 1]}

(* The gates of this switch *)

Gate(rows, cur, tgt) ==
    CASE gate = "v1"      -> McNemar(rows, cur, tgt)
      [] gate = "v2"      -> PhaseAware(rows, cur, tgt)
      [] gate = "guarded" -> AllOf(<<MinVolume(rows, McNemar(rows, cur, tgt)),
                                    Latency(Slow, tgt)>>)
      [] gate = "either"  -> AnyOf(<<Manual(rows, cur, tgt), AccuracyMargin(rows, cur, tgt)>>)

\* Every default set has McNemar as its drift gate, against the rule.
Drift(rows) == phase # RULE /\ McNemar(rows, phase, RULE).target_better

Refused == phase = ML_PRIMARY \/ phase + 1 > phase_limit
Passes(rows) == ~Refused /\ Gate(rows, phase, phase + 1).target_better

\* min_paired of config.gate; a gate that wraps others has none.
min_paired == IF gate = "v1" THEN MinPaired ELSE 0

Unready == [would_advance |-> FALSE, shortfall |-> 0]
Short(n) == IF min_paired > n THEN min_paired - n ELSE 0

\* Mutant: enough evidence is taken for a favourable answer.
readiness_of_enough ==
    LET target == next_phase(phase)
    IN  IF target = NoPhase \/ target > phase_limit \/ (SafetyCritical /\ target = ML_PRIMARY)
        THEN Unready
        ELSE LET d == Gate(log, phase, target)
             IN  [would_advance |-> d.paired_sample_size >= MinPaired,
                  shortfall |-> Short(d.paired_sample_size)]
\* readiness(): what the gate would say now, and how many pairs it still lacks.
readiness ==
    LET target == next_phase(phase)
    IN  IF target = NoPhase \/ target > phase_limit \/ (SafetyCritical /\ target = ML_PRIMARY)
        THEN Unready
        ELSE LET d == Gate(log, phase, target)
             IN  [would_advance |-> d.target_better, shortfall |-> Short(d.paired_sample_size)]

AutoOn == AutoAdvance \/ AutoDemote
Raised(n) == IF n < Cooldown THEN n + 1 ELSE n
Due == AutoOn /\ sinceCheck + 1 >= Interval /\ Raised(sinceChange) >= Cooldown

\* Drift is asked first, and a demotion ends the check.
Moved(rows) ==
    IF AutoDemote /\ Drift(rows) THEN phase - 1
    ELSE IF AutoAdvance /\ Passes(rows) THEN phase + 1
    ELSE phase
\* The counters and the phase after one more record.
Checked(rows) ==
    IF ~AutoOn THEN UNCHANGED <<phase, sinceCheck, sinceChange>>
    ELSE IF ~Due THEN /\ sinceCheck' = IF sinceCheck < Interval THEN sinceCheck + 1 ELSE sinceCheck
                      /\ sinceChange' = Raised(sinceChange)
                      /\ UNCHANGED phase
    ELSE /\ sinceCheck' = 0
         /\ phase' = Moved(rows)
         /\ sinceChange' = IF phase' # phase THEN 0 ELSE Raised(sinceChange)
-----------------------------------------------------------------------------
Init ==
    /\ gate \in Gates
    /\ phase = StartingPhase
    /\ log = {}
    /\ tripped = FALSE
    /\ sinceCheck = 0
    /\ sinceChange = Cooldown

\* A case is classified and its decision judged, by the verifier or by whoever
\* holds the result.
Judged(c, answer) ==
    /\ ~Unservable
    /\ Cardinality(log) < MaxRows
    /\ log' = Appended(Recorded(c, answer))
    /\ tripped' = Trips(c)
    /\ Checked(log')
    /\ UNCHANGED gate

\* A verdict of UNKNOWN says nothing of any source, so its row is left out of the
\* log, but it counts as a record.
Unknown(c) ==
    /\ ~Unservable
    /\ tripped' = Trips(c)
    /\ Checked(log)
    /\ UNCHANGED <<gate, log>>

\* advance(), called by the operator.
Advance ==
    /\ Passes(log)
    /\ phase' = phase + 1
    /\ sinceChange' = 0
    /\ UNCHANGED <<gate, log, tripped, sinceCheck>>

Demote ==
    /\ phase # RULE
    /\ phase' = phase - 1
    /\ sinceChange' = 0
    /\ UNCHANGED <<gate, log, tripped, sinceCheck>>

ResetBreaker ==
    /\ tripped' = FALSE
    /\ UNCHANGED <<gate, phase, log, sinceCheck, sinceChange>>

\* The process starts again over the same log, with the breaker it persisted.
Restart ==
    /\ phase' = StartingPhase
    /\ sinceCheck' = 0
    /\ sinceChange' = Cooldown
    /\ UNCHANGED <<gate, log, tripped>>

Next ==
    \/ \E c \in Case, answer \in Answers : Judged(c, answer)
    \/ \E c \in Case : Unknown(c)
    \/ Advance \/ Demote \/ ResetBreaker \/ Restart

Spec == Init /\ [][Next]_vars
-----------------------------------------------------------------------------
\* Everything stays in range.
TypeOK ==
    /\ gate \in Gates
    /\ phase \in Phase
    /\ log \subseteq [row : Row, nth : 1 .. MaxRows]
    /\ tripped \in BOOLEAN
    /\ sinceCheck \in 0 .. Interval /\ sinceChange \in 0 .. Cooldown

\* With honest verdicts, what the log says of a source is true of it: being
\* different from a wrong decision is never taken for being right (gates.py
\* 143-148, and the adjudicated verdict judges the layer's own output, core.py
\* 1763-1767).
EvidenceIsTrue ==
    \A e \in log, f \in Source :
        /\ Right(e.row, f) => e.row[f] = Truth
        /\ Wrong(e.row, f) => e.row[f] # Truth

\* The rule is given credit only where its label was served: shadows are
\* adjudicated, the rule is not (core.py 1776).  A drift gate therefore cannot
\* see the rule beat a decision-maker on the decisions that one served.
RuleCreditedWhereServed ==
    \A e \in log : Right(e.row, "rule_output") => e.row.label = e.row.rule_output

\* A gate that asks for a win never moves a switch between two phases that
\* serve the same source (gates.py 212-226): its log cannot tell them apart.
Promoted == phase' = phase + 1 /\ sinceChange' = 0
LateralRungsHold ==
    [][Promoted => source_field(phase') # source_field(phase)]_vars

TrulyWins(rows, g, f) ==
    Cardinality({e \in rows : e.row[g] = Truth /\ e.row[f] \notin {Truth, None}})
\* While the rule has served every decision of the log, a switch is promoted to
\* the model only if the model truly was right more often where they differed
\* (gates.py 258-260).
PromotedOnTruth ==
    [][/\ Promoted /\ phase = MODEL_SHADOW
       /\ \A e \in log' : e.row.label = e.row.rule_output
       => TrulyWins(log', "model_output", "rule_output")
            > TrulyWins(log', "rule_output", "model_output")]_vars

\* The probe keeps its word: readiness() foretells what advance() would do at
\* this moment, whatever the gate, and a switch said to be short of evidence
\* does not advance (core.py 3263-3325).
ReadinessForetells ==
    LET r == readiness
    IN  r.would_advance = Passes(log) /\ (r.shortfall > 0 => ~r.would_advance)

\* A shadow found worse than the rule was truly right less often than it on
\* the decisions that turned out correct, which are all that is counted
\* (gates.py 745-785).
ShadowFairlyJudged ==
    LET rows == {e \in log : e.row.outcome = "correct"}
    IN  \A f \in {"model_output", "ml_output"} :
            Assess(log, f) => TrulyWins(rows, "rule_output", f) > TrulyWins(rows, f, "rule_output")

\* Under rows that the rule served, the accuracy test that is to bring a
\* disabled shadow back never does (gates.py 668-743): a row is counted when
\* its decision was correct, and the decision was the rule's.
RestartBlind ==
    (\A e \in log : e.row.label = e.row.rule_output)
        => \A right \in 0 .. 2 : ~ShouldRestart(log, FALSE, right, 2, 5)

\* What the gates read in the log is true: of every source, of the rule only
\* where it was served, and of a disabled shadow never, as long as the rule
\* serves (gates.py 140-183, 668-785).
EvidenceIsSound == TypeOK /\ EvidenceIsTrue /\ RuleCreditedWhereServed
                   /\ ShadowFairlyJudged /\ RestartBlind
=============================================================================
