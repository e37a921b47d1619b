------------------------------- MODULE GateLogic -------------------------------
(***************************************************************************)
(* gates.py: what the outcome log tells about two phases, and what each    *)
(* gate answers from it.  A gate decides from the records alone, so it is  *)
(* an operator on the log; a gate that wraps others takes their decisions. *)
(*                                                                         *)
(* A log is a set of rows [row, nth]: gates count rows and never look at   *)
(* their order, and nth tells apart the repetitions of one row.            *)
(***************************************************************************)
EXTENDS Phases, FiniteSets, PairedTest

CONSTANTS None,       \* an output nobody produced, a verdict nobody gave
          Num, Den,   \* alpha of the gates
          DropNum, DropDen, \* alpha of the shadow assessment
          MinPaired,  \* min_paired
          MinRecords, \* min_records of a volume gate
          Margin      \* margin, in hundredths

ASSUME GateAssumption ==
    /\ Num \in Nat /\ Den \in Nat /\ 0 < Num /\ Num < Den
    /\ DropNum \in Nat /\ DropDen \in Nat /\ 0 < DropNum /\ DropNum < DropDen
    /\ MinPaired \in Nat \ {0} /\ MinRecords \in Nat \ {0} /\ Margin \in 0 .. 99
    /\ None \notin {"correct", "incorrect", "unknown"}

Source == {"rule_output", "model_output", "ml_output"}

\* Mutant: the head is compared from its shadow phase on.
source_field_early(p) ==
    CASE p \in {RULE, MODEL_SHADOW}                     -> "rule_output"
      [] p = MODEL_PRIMARY                              -> "model_output"
      [] p \in {ML_SHADOW, ML_WITH_FALLBACK, ML_PRIMARY} -> "ml_output"
\* Whose prediction a phase serves.
source_field(p) ==
    CASE p \in {RULE, MODEL_SHADOW}           -> "rule_output"
      [] p \in {MODEL_PRIMARY, ML_SHADOW}     -> "model_output"
      [] p \in {ML_WITH_FALLBACK, ML_PRIMARY} -> "ml_output"

(* The evidence *)

\* The verdict a shadow layer was given on its own output.
Adjudicated(r, f) ==
    CASE f = "model_output" -> r.model_outcome
      [] f = "ml_output"    -> r.ml_outcome
      [] OTHER              -> None

FromDecision(r, f) == Adjudicated(r, f) \notin {"correct", "incorrect"} /\ r[f] # None

\* _source_correct_for, True, then False; a row that is neither says nothing of
\* the source.
Right(r, f) ==
    \/ Adjudicated(r, f) = "correct"
    \/ FromDecision(r, f) /\ r.outcome = "correct" /\ r[f] = r.label
Wrong(r, f) ==
    \/ Adjudicated(r, f) = "incorrect"
    \/ FromDecision(r, f) /\ r.outcome = "correct" /\ r[f] # r.label
    \/ FromDecision(r, f) /\ r.outcome = "incorrect" /\ r[f] = r.label

Known(r, f) == Right(r, f) \/ Wrong(r, f)

Paired(log, f, g)    == {e \in log : Known(e.row, f) /\ Known(e.row, g)}
RightIn(rows, f)     == Cardinality({e \in rows : Right(e.row, f)})
\* The discordant pairs g wins over f.
Wins(log, g, f)      == Cardinality({e \in log : Right(e.row, g) /\ Wrong(e.row, f)})

(* The gates *)

Decision(better, n) == [target_better |-> better, paired_sample_size |-> n]
Pairs(log, cur, tgt) == Cardinality(Paired(log, source_field(cur), source_field(tgt)))

\* Mutant: a significant imbalance either way.
BeatsEitherWay(log, g, f, num, den) ==
    Significant(Wins(log, g, f), Wins(log, f, g), num, den)
\* One direction of the paired test, as McNemarGate and the shadow assessment ask it.
Beats(log, g, f, num, den) ==
    /\ Wins(log, g, f) > Wins(log, f, g)
    /\ Significant(Wins(log, g, f), Wins(log, f, g), num, den)

McNemar(log, cur, tgt) ==
    Decision(/\ Pairs(log, cur, tgt) >= MinPaired
             /\ Beats(log, source_field(tgt), source_field(cur), Num, Den),
             Pairs(log, cur, tgt))

\* Accuracies share the denominator n, so a difference of rates is compared
\* as a difference of counts.
Gain(log, cur, tgt) ==
    LET rows == Paired(log, source_field(cur), source_field(tgt))
    IN  RightIn(rows, source_field(tgt)) - RightIn(rows, source_field(cur))

AccuracyMargin(log, cur, tgt) ==
    LET n == Pairs(log, cur, tgt)
    IN  Decision(n >= MinPaired /\ 100 * Gain(log, cur, tgt) > Margin * n, n)

CostTolerance(log, cur, tgt) ==
    LET n == Pairs(log, cur, tgt)
    IN  Decision(n >= MinPaired /\ 100 * Gain(log, cur, tgt) >= -Margin * n, n)

Manual(log, cur, tgt) == Decision(FALSE, 0)

\* slow is the set of phases whose measured latency breaks the objective; a
\* phase nobody measured is allowed.
Latency(slow, tgt) == Decision(tgt \notin slow, 0)

MinVolume(log, inner) ==
    IF Cardinality(log) < MinRecords THEN Decision(FALSE, Cardinality(log)) ELSE inner

\* The composite reports the sample of the first part that has one.
Sample(parts) ==
    LET counted == {i \in DOMAIN parts : parts[i].paired_sample_size > 0}
    IN  IF counted = {} THEN 0
        ELSE parts[CHOOSE i \in counted : \A j \in counted : i <= j].paired_sample_size

AllOf(parts) == Decision(\A i \in DOMAIN parts : parts[i].target_better, Sample(parts))
AnyOf(parts) == Decision(\E i \in DOMAIN parts : parts[i].target_better, Sample(parts))

\* Default set v2: superiority everywhere but from the model to the head, which
\* is cheaper and needs only to keep up.
PhaseAware(log, cur, tgt) ==
    IF cur = ML_SHADOW /\ tgt = ML_WITH_FALLBACK
    THEN CostTolerance(log, cur, tgt)
    ELSE McNemar(log, cur, tgt)

(* Turning a shadow off, and on again *)

\* assess reads the rows with a correct outcome only, and compares labels.
Compared(log, shadow) ==
    {e \in log : e.row.outcome = "correct" /\ e.row.rule_output # None /\ e.row[shadow] # None}
WinsByLabel(rows, g, f) ==
    Cardinality({e \in rows : e.row[g] = e.row.label /\ e.row[f] # e.row.label})

Assess(log, shadow) ==
    LET rows == Compared(log, shadow)
        rule_wins   == WinsByLabel(rows, "rule_output", shadow)
        shadow_wins == WinsByLabel(rows, shadow, "rule_output")
    IN  /\ Cardinality(rows) >= MinPaired
        /\ rule_wins > shadow_wins
        /\ Significant(rule_wins, shadow_wins, DropNum, DropDen)

\* should_restart: the rule was edited, or it lost at least drop (in
\* hundredths) of the accuracy it had when the shadow was turned off, right
\* out of judged rows then.
ShouldRestart(log, edited, right, judged, drop) ==
    LET rows == {e \in log : e.row.outcome = "correct" /\ e.row.rule_output # None}
        now  == Cardinality({e \in rows : e.row.rule_output = e.row.label})
        n    == Cardinality(rows)
    IN  \/ edited
        \/ /\ judged > 0 /\ n >= MinPaired
           /\ 100 * (right * n - now * judged) >= drop * judged * n
=============================================================================
