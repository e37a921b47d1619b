----------------------------- MODULE TierPolicy -----------------------------
(***************************************************************************)
(* The AGA policy (aga.py): which tier a stream should end on, given what  *)
(* its tiers were measured to do, and from how many training outcomes on   *)
(* classical ML ties with the language model.                              *)
(*                                                                         *)
(* Accuracies are 0..Best steps.  The band within which a difference is    *)
(* noise is a number of steps too: Epsilon, or the Wilson half-width of    *)
(* the sample where that is wider.  Costs in labels, which only break      *)
(* ties between tiers equal in everything else, are left out.              *)
(***************************************************************************)
EXTENDS Naturals, Sequences, FiniteSetsExt

CONSTANTS
  Best,        \* accuracies are 0..Best
  Epsilon,     \* epsilon, in steps
  Bands,       \* widths considered of the noise band, none below Epsilon
  MaxPoints    \* bound: points of the ML curve

\* What the constants may be.
TierAssumption ==
  /\ Best \in Nat /\ Epsilon \in Nat /\ MaxPoints \in Nat
  /\ Bands \subseteq {b \in Nat : b >= Epsilon}

Tier == {"rule", "ml", "model_fewshot", "model_zeroshot"}
Models == {"model_fewshot", "model_zeroshot"}

\* _OPERATING_RANK.
Rank(tier) == CASE tier = "rule" -> 0 [] tier = "ml" -> 1 [] tier \in Models -> 2

VARIABLES
  measured,    \* the tiers measured
  accuracy,    \* what they scored
  allowed,     \* those feasible for the modality, and within the latency SLO
  band,        \* the noise band
  curve,       \* ML's accuracy after each round of training
  chosen       \* what oracle_terminal says, or "none"

vars == <<measured, accuracy, allowed, band, curve, chosen>>

Init ==
  /\ measured = {} /\ accuracy = [t \in Tier |-> 0] /\ allowed = {}
  /\ band \in Bands /\ curve = <<>> /\ chosen = "none"

Scores(t, a) ==
  /\ measured' = measured \cup {t} /\ accuracy' = [accuracy EXCEPT ![t] = a]
  /\ allowed' \in {allowed, allowed \cup {t}}

Measure ==
  /\ chosen = "none"
  /\ \E t \in Tier \ (measured \cup {"ml"}), a \in 0..Best : Scores(t, a)
  /\ UNCHANGED <<band, curve, chosen>>

\* A round of training: what ML scores is the last point of its curve.
Train ==
  /\ chosen = "none" /\ Len(curve) < MaxPoints
  /\ \E a \in 0..Best : Scores("ml", a) /\ curve' = Append(curve, a)
  /\ UNCHANGED <<band, chosen>>

\* The hard constraints, unless they leave nothing.
Candidates == IF allowed = {} THEN measured ELSE allowed

Top(S) == Max({accuracy[t] : t \in S})

InBand == {t \in Candidates : accuracy[t] + band >= Top(Candidates)}

\* Mutant: accuracy first.
BeforeByAccuracy(t, u) ==
  accuracy[t] > accuracy[u] \/ (accuracy[t] = accuracy[u] /\ Rank(t) < Rank(u))
\* The sort key of the band: operating rank, then accuracy.
Before(t, u) ==
  Rank(t) < Rank(u) \/ (Rank(t) = Rank(u) /\ accuracy[t] > accuracy[u])

\* oracle_terminal.
Decide ==
  /\ chosen = "none" /\ measured # {}
  /\ \E t \in InBand : (\A u \in InBand : ~Before(u, t)) /\ chosen' = t
  /\ UNCHANGED <<measured, accuracy, allowed, band, curve>>

Next == Measure \/ Train \/ Decide

Spec == Init /\ [][Next]_vars

\* crossover_outcomes looks for the first of these points.
Crossovers(model) == {n \in DOMAIN curve : curve[n] + Epsilon >= model}
-----------------------------------------------------------------------------
\* Everything stays in range.
TypeOK ==
  /\ measured \subseteq Tier /\ allowed \subseteq measured /\ accuracy \in [Tier -> 0..Best]
  /\ band \in Bands /\ curve \in Seq(0..Best) /\ chosen \in Tier \cup {"none"}

\* A tier is chosen over a cheaper one that meets the constraints only when it
\* scored better, and the language model only when it did so by more than noise
\* (aga.py 115-118: "The LLM wins only when it is significantly better").
CostIsEarned ==
  \A t \in allowed :
    chosen # "none" /\ Rank(t) < Rank(chosen) =>
      /\ chosen \in allowed
      /\ accuracy[chosen] > accuracy[t]
      /\ chosen \in Models => accuracy[chosen] > accuracy[t] + band

\* Choice and crossover agree: where the noise band is Epsilon, a language model
\* that ML never tied with on its curve does not lose the stream to ML
\* (aga.py 164-166: no crossover is "the signal that AGA should stay on MODEL").
NoCrossoverNoML ==
  \A m \in Models \cap allowed :
    band = Epsilon /\ chosen = "ml" /\ Crossovers(accuracy[m]) = {} => "ml" \notin allowed
=============================================================================
