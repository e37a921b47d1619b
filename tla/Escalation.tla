----------------------------- MODULE Escalation -----------------------------
(***************************************************************************)
(* Confidence-gated escalation (escalation.py): a threshold is calibrated  *)
(* on held-out data, a gate is built with it, and each request is answered *)
(* by the local head or, where that is not sure enough, by a stronger      *)
(* model that may fail.  A long-running deployment recalibrates as it goes.*)
(*                                                                         *)
(* Confidences are the even numbers up to 2 * Full, which is certainty: the *)
(* 1e-9 that the code adds to escalate everything is then 1, less than any *)
(* difference between two of them.                                         *)
(***************************************************************************)
EXTENDS Integers, FiniteSets, SequencesExt

CONSTANTS
  Full,        \* confidences are 0..Full
  MaxExamples, \* bound: held-out examples
  Floors,      \* accuracy floors considered, in percent
  MinKept,     \* values of min_kept considered
  Requests     \* bound: requests answered by one gate

\* What the constants may be.
EscalationAssumption ==
  /\ Full \in Nat \ {0} /\ MaxExamples \in Nat \ {0}
  /\ Floors \subseteq 0..100 /\ MinKept \subseteq Nat /\ Requests \in Nat

Confidence == {2 * c : c \in 0..Full}
Example == [conf : Confidence, ok : BOOLEAN]

VARIABLES
  examples,    \* the held-out data
  floor,       \* accuracy_floor
  minKept,     \* min_kept
  tau,         \* the threshold that calibrate_threshold returned
  gate,        \* "none", "built", or "refused" by ConfidenceGate
  served,      \* the requests answered: confidence, and the source of the answer
  hinted       \* requests for which the operator was told of the fallback

vars == <<examples, floor, minKept, tau, gate, served, hinted>>

NoTau == 0 - 1

Init ==
  /\ examples = <<>> /\ floor \in Floors /\ minKept \in MinKept
  /\ tau = NoTau /\ gate = "none" /\ served = <<>> /\ hinted = {}

\* An example is held out.
HoldOut ==
  /\ gate = "none" /\ tau = NoTau /\ Len(examples) < MaxExamples
  /\ \E e \in Example : examples' = Append(examples, e)
  /\ UNCHANGED <<floor, minKept, tau, gate, served, hinted>>

Confidences == {examples[i].conf : i \in DOMAIN examples}

\* Mutant: an example as sure as the threshold is escalated.
KeptAbove(t) == {i \in DOMAIN examples : examples[i].conf > t}

\* The examples a threshold would leave to the local head.
Kept(t) == {i \in DOMAIN examples : examples[i].conf >= t}

Right(kept) == {i \in kept : examples[i].ok}

Meets(kept) == /\ Cardinality(kept) >= minKept /\ kept # {}
               /\ 100 * Cardinality(Right(kept)) >= floor * Cardinality(kept)

Least(S) == CHOOSE s \in S : \A r \in S : s <= r
Greatest(S) == CHOOSE s \in S : \A r \in S : r <= s

\* calibrate_threshold: the lowest observed confidence that will do.
Calibrated ==
  LET good == {t \in Confidences : Meets(Kept(t))}
  IN IF good # {} THEN Least(good) ELSE Greatest(Confidences) + 1

Calibrate ==
  /\ gate = "none" /\ tau = NoTau /\ examples # <<>>
  /\ tau' = Calibrated
  /\ UNCHANGED <<examples, floor, minKept, gate, served, hinted>>

\* ConfidenceGate refuses a threshold outside [0, 1].
Build ==
  /\ gate = "none" /\ tau # NoTau
  /\ gate' = IF tau \in 0..(2 * Full) THEN "built" ELSE "refused"
  /\ UNCHANGED <<examples, floor, minKept, tau, served, hinted>>

\* ConfidenceGate.decide.
Escalates(conf) == conf < tau

\* resolve_escalation: the answer, given what the stronger model does when it
\* is asked ("unset": the caller has none).
Source(conf, call) ==
  IF ~Escalates(conf) \/ call = "unset" THEN "local"
  ELSE IF call = "raises" THEN "local_fallback"
  ELSE "escalated"

Serve ==
  /\ gate = "built" /\ Len(served) < Requests
  /\ \E conf \in Confidence, call \in {"unset", "answers", "raises"}, told \in BOOLEAN :
       /\ served' = Append(served, [conf |-> conf, source |-> Source(conf, call)])
       /\ hinted' = IF Source(conf, call) = "local_fallback" /\ told
                    THEN hinted \cup {Len(served) + 1} ELSE hinted
  /\ UNCHANGED <<examples, floor, minKept, tau, gate>>

\* The deployment recalibrates, on new data, with another gate.
Recalibrate ==
  /\ gate # "none"
  /\ examples' = <<>> /\ tau' = NoTau /\ gate' = "none" /\ served' = <<>> /\ hinted' = {}
  /\ UNCHANGED <<floor, minKept>>

Next == HoldOut \/ Calibrate \/ Build \/ Serve \/ Recalibrate

Spec == Init /\ [][Next]_vars

-----------------------------------------------------------------------------
\* Everything stays in range.
TypeOK ==
  /\ examples \in BoundedSeq(Example, MaxExamples) /\ floor \in Floors /\ minKept \in MinKept
  /\ tau \in -1..(2 * Full + 1) /\ gate \in {"none", "built", "refused"}
  /\ \A i \in DOMAIN served :
       served[i] \in [conf : Confidence, source : {"local", "local_fallback", "escalated"}]
  /\ hinted \subseteq DOMAIN served

\* Replaying the held-out examples through the gate that was calibrated on
\* them: what stays local meets the floor, or nothing does.
GateMeetsFloor ==
  gate = "built" =>
    LET local == {i \in DOMAIN examples : ~Escalates(examples[i].conf)}
    IN local = {} \/ Meets(local)

\* No gate that meets the floor escalates less: any lower threshold leaves
\* other examples to the local head only at the price of the floor.
GateIsCheapest ==
  gate = "built" =>
    \A t \in 0..(2 * Full) :
      LET local == {i \in DOMAIN examples : examples[i].conf >= t}
      IN Meets(local) =>
           Cardinality(local) <= Cardinality({i \in DOMAIN examples : ~Escalates(examples[i].conf)})

\* The gate refuses the threshold it was given only where no threshold meets
\* the floor and the head was wrong while it was certain: "escalate
\* everything" is then above 1, and the constructor raises.
RefusedOnlyWhenCertain ==
  gate = "refused" => /\ 2 * Full \in Confidences
                      /\ \A t \in 0..(2 * Full) : ~Meets({i \in DOMAIN examples : examples[i].conf >= t})
=============================================================================
