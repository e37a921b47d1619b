--------------------------- MODULE CandidateTrials ---------------------------
(***************************************************************************)
(* autoresearch.py: the harness that runs candidates beside a live switch, *)
(* and the tournament that runs them against each other.                   *)
(*                                                                         *)
(* Both are synchronous objects, so what happens in between is what the    *)
(* code they call does: a candidate that raises, a KeyboardInterrupt in    *)
(* the middle of an observation, and a promotion callback that comes back  *)
(* to the harness while it is evaluating.  The switch, the candidates and  *)
(* the truth oracle are the user's: each is right or wrong on an input.    *)
(* A harness and a tournament share nothing, so a behaviour uses one.      *)
(***************************************************************************)
EXTENDS PairedTest, FiniteSets, SequencesExt

CONSTANTS
  Name,        \* candidates of the harness
  Entrant,     \* the tournament's candidates, in registration order
  Num, Den,    \* alpha = Num / Den
  MaxInputs,   \* bound: inputs shown, to the harness and the tournament
  MaxRegisters \* bound: registrations

ASSUME TrialsAssumption ==
  /\ Num \in Nat /\ Den \in Nat /\ 0 < Num /\ Num < Den
  /\ Entrant \in Seq(STRING) /\ Len(Entrant) >= 2
  /\ MaxInputs \in Nat /\ MaxRegisters \in Nat

Prediction == {"right", "wrong", "none"}   \* none: the candidate raised
Entrants == {Entrant[n] : n \in DOMAIN Entrant}

VARIABLES
  registry,    \* the harness's candidates, in registration order
  obs,         \* per registered candidate: its paired observations
  recommended, \* _already_recommended
  announced,   \* history: promotions announced since the registration
  stack,       \* the candidates whose promotion callbacks are running
  walk,        \* evaluate_all: the candidates it has not come to
  size,        \* evaluate_all: the registry's size when it started, 0: none
  left,        \* evaluate_all: how many names the walk may still yield
  marks,       \* per entrant: right or not, one per input it saw
  predictions, \* the tournament's predictions, one function per input
  inputs,      \* inputs shown so far
  registers,   \* registrations so far
  interrupted  \* history: an observation of the tournament was interrupted

harness == <<registry, obs, recommended, announced, stack, walk, size, left>>
tournament == <<marks, predictions, interrupted>>
vars == <<harness, tournament, inputs, registers>>

Registered == {registry[n] : n \in DOMAIN registry}
Times(s, P(_)) == Cardinality({n \in DOMAIN s : P(s[n])})

Init ==
  /\ registry = <<>> /\ obs = [x \in Name |-> <<>>]
  /\ recommended = {} /\ announced = [x \in Name |-> 0]
  /\ stack = <<>> /\ walk = {} /\ size = 0 /\ left = 0
  /\ marks = [e \in Entrants |-> <<>>]
  /\ predictions = <<>>
  /\ inputs = 0 /\ registers = 0 /\ interrupted = FALSE

-----------------------------------------------------------------------------
(***************************************************************************)
(* CandidateHarness.                                                       *)
(***************************************************************************)

\* The loop's own code is running, or a callback is: either may call the
\* harness.  Between two candidates evaluate_all calls nobody.
UserTurn == size = 0 \/ stack # <<>>

\* register.
Register(x) ==
  /\ UserTurn /\ x \notin Registered /\ registers < MaxRegisters
  /\ inputs > 0 => registers > 0
  /\ registers' = registers + 1
  /\ registry' = Append(registry, x)
  /\ walk' = IF size > 0 THEN walk \cup {x} ELSE walk
  /\ obs' = [obs EXCEPT ![x] = <<>>]
  /\ announced' = [announced EXCEPT ![x] = 0]
  /\ UNCHANGED <<recommended, stack, size, left, tournament, inputs>>

\* A name leaves the dictionary; those after it keep their order.
Leaves(x) ==
  /\ \E n \in DOMAIN registry : registry[n] = x /\ registry' = RemoveAt(registry, n)
  /\ walk' = walk \ {x}

\* unregister: observations and recommendation go with the name.
Unregister(x) ==
  /\ UserTurn /\ x \in Registered
  /\ Leaves(x)
  /\ obs' = [obs EXCEPT ![x] = <<>>]
  /\ recommended' = recommended \ {x}
  /\ UNCHANGED <<announced, stack, size, left, tournament, inputs, registers>>

\* observe: production, truth and every candidate on one input; a candidate
\* that raises is wrong.  An interrupt stops after the first k candidates.
Observe ==
  /\ UserTurn /\ inputs < MaxInputs /\ registry # <<>>
  /\ inputs' = inputs + 1
  /\ \E prod \in BOOLEAN, right \in SUBSET Registered, k \in 1..Len(registry) :
       obs' = [x \in Name |->
                 IF \E n \in 1..k : registry[n] = x
                 THEN Append(obs[x], [prod |-> prod, cand |-> x \in right])
                 ELSE obs[x]]
  /\ UNCHANGED <<registry, recommended, announced, stack, walk, size, left, tournament, registers>>

Wins(x) == Times(obs[x], LAMBDA o : o.cand /\ ~o.prod)
Losses(x) == Times(obs[x], LAMBDA o : o.prod /\ ~o.cand)
RightOnes(x) == Times(obs[x], LAMBDA o : o.cand)
ProdRight(x) == Times(obs[x], LAMBDA o : o.prod)

\* recommend_promote: significant, and more often right than production.
Recommends(x) ==
  /\ Significant(Wins(x), Losses(x), Num, Den)
  /\ RightOnes(x) > ProdRight(x)

\* Mutant: a candidate that was announced is not remembered.
EvaluateForgets(x) ==
  /\ UNCHANGED recommended
  /\ IF Recommends(x) /\ x \notin recommended
     THEN /\ announced' = [announced EXCEPT ![x] = @ + 1]
          /\ stack' = Append(stack, x)
     ELSE UNCHANGED <<announced, stack>>

\* evaluate: the first time a candidate is recommended it is remembered, and
\* then its callback runs.
Evaluate(x) ==
  IF Recommends(x) /\ x \notin recommended
  THEN /\ recommended' = recommended \cup {x}
       /\ announced' = [announced EXCEPT ![x] = @ + 1]
       /\ stack' = Append(stack, x)
  ELSE UNCHANGED <<recommended, announced, stack>>

EvaluateOne(x) ==
  /\ UserTurn /\ x \in Registered
  /\ Evaluate(x)
  /\ UNCHANGED <<registry, obs, walk, size, left, tournament, inputs, registers>>

\* The callback returns, or raises what evaluate absorbs.
Return ==
  /\ stack # <<>>
  /\ stack' = SubSeq(stack, 1, Len(stack) - 1)
  /\ UNCHANGED <<registry, obs, recommended, announced, walk, size, left, tournament,
                 inputs, registers>>

\* A KeyboardInterrupt in a callback goes through everything.
Interrupt ==
  /\ stack # <<>>
  /\ stack' = <<>> /\ walk' = {} /\ size' = 0 /\ left' = 0
  /\ UNCHANGED <<registry, obs, recommended, announced, tournament, inputs, registers>>

\* evaluate_all walks the live registry, which must keep its size: a callback
\* that unregisters its candidate ends the walk in a RuntimeError, as does a
\* name more than the walk began with, and the reports made so far are gone.
EvaluateAll ==
  /\ size = 0 /\ stack = <<>> /\ registry # <<>>
  /\ walk' = Registered /\ size' = Len(registry) /\ left' = Len(registry)
  /\ UNCHANGED <<registry, obs, recommended, announced, stack, tournament,
                 inputs, registers>>

Walk ==
  /\ size > 0 /\ stack = <<>>
  /\ IF Len(registry) # size \/ walk = {} \/ left = 0
     THEN /\ walk' = {} /\ size' = 0 /\ left' = 0
          /\ UNCHANGED <<recommended, announced, stack>>
     ELSE \E n \in DOMAIN registry :
            /\ registry[n] \in walk /\ \A m \in 1..(n - 1) : registry[m] \notin walk
            /\ Evaluate(registry[n])
            /\ walk' = walk \ {registry[n]} /\ left' = left - 1
            /\ UNCHANGED size
  /\ UNCHANGED <<registry, obs, tournament, inputs, registers>>

-----------------------------------------------------------------------------
(***************************************************************************)
(* Tournament.                                                             *)
(***************************************************************************)

\* observe: every entrant on one input, or the first k of them before an
\* interrupt, which leaves their marks and nothing else.
Show ==
  /\ registers = 0 /\ inputs < MaxInputs /\ inputs' = inputs + 1
  /\ \E p \in [Entrants -> Prediction], k \in 1..Len(Entrant) :
       /\ marks' = [e \in Entrants |->
                      IF \E n \in 1..k : Entrant[n] = e
                      THEN Append(marks[e], p[e] = "right") ELSE marks[e]]
       /\ IF k = Len(Entrant)
          THEN predictions' = Append(predictions, p) /\ UNCHANGED interrupted
          ELSE interrupted' = TRUE /\ UNCHANGED predictions
  /\ UNCHANGED <<harness, registers>>

Counted == Len(predictions)

\* evaluate: pairs are by position in the entrants' marks, up to _n_observed;
\* accuracy counts all of an entrant's marks.
Better(e, f) == Cardinality({n \in 1..Counted : marks[e][n] /\ ~marks[f][n]})
RightMarks(e) == Times(marks[e], LAMBDA m : m)

Beats(e, f) ==
  /\ Significant(Better(e, f), Better(f, e), Num, Den)
  /\ RightMarks(e) > RightMarks(f)

Unanimous ==
  /\ predictions # <<>>
  /\ \A n \in DOMAIN predictions : \A e, f \in Entrants : predictions[n][e] = predictions[n][f]

Sweeps(e) == \A f \in Entrants \ {e} : Beats(e, f)

\* The winners: the first registered of a unanimous field, else who beats
\* every other, else nobody.
Winners == IF Unanimous THEN {Entrant[1]} ELSE {e \in Entrants : Sweeps(e)}

-----------------------------------------------------------------------------
Next ==
  \/ \E x \in Name : Register(x) \/ Unregister(x) \/ EvaluateOne(x)
  \/ Observe \/ Return \/ Interrupt \/ EvaluateAll \/ Walk
  \/ Show

Spec == Init /\ [][Next]_vars

-----------------------------------------------------------------------------
\* Everything stays in range, no name is registered twice, and the names
\* recommended or still to be walked are registered ones.
TypeOK ==
  /\ registry \in Seq(Name) /\ IsInjective(registry)
  /\ recommended \subseteq Registered /\ walk \subseteq Registered
  /\ \A x \in Name : obs[x] \in Seq([prod : BOOLEAN, cand : BOOLEAN])
  /\ \A e \in Entrants : marks[e] \in Seq(BOOLEAN)
  /\ announced \in [Name -> Nat] /\ size \in Nat /\ left \in 0..size
  /\ inputs \in 0..MaxInputs /\ registers \in 0..MaxRegisters

\* The promotion of a candidate is announced at most once while it stays
\* registered, whatever its callback calls: the harness, evaluate_all over
\* a registry the callback changes, or an interrupt out of it.
AnnouncedOnce == \A x \in Name : announced[x] <= 1

\* No candidate is recommended that lost to production on as many inputs as
\* it won: the two-sided test alone would recommend a much worse one.
NeverPromotesWorse ==
  \A x \in Registered : Recommends(x) => Wins(x) > Losses(x)

\* The tournament has at most one winner, and one that won by beating the
\* others was really right more often than each of them on the inputs shown,
\* unless an interrupted observation shifted some entrants' marks.
WinnerIsBest ==
  /\ Cardinality(Winners) <= 1
  /\ (~interrupted /\ ~Unanimous) =>
       \A e \in Winners : \A f \in Entrants \ {e} :
         Times(predictions, LAMBDA p : p[e] = "right") > Times(predictions, LAMBDA p : p[f] = "right")
=============================================================================
