------------------------------- MODULE MLHeads -------------------------------
(***************************************************************************)
(* The trained heads of ml.py and their use by a switch.  What changes a   *)
(* head (refit, the background load) and what copies it (a checkpoint) is  *)
(* done under the switch's _head_lock; predict takes no lock and reads the *)
(* head's attributes one after another.  Every such read, and every        *)
(* attribute a fit or a load assigns, is a step.                           *)
(*                                                                         *)
(* scikit-learn is outside the repository: an estimator fitted on rows of  *)
(* two labels or more answers with any of its classes, which it keeps in   *)
(* sorted order.  Features and probabilities are left out; a record is its *)
(* label and whether its outcome was correct.                              *)
(***************************************************************************)
EXTENDS Integers, FiniteSets

CONSTANTS
  Predictor,   \* threads that classify
  Keeper,      \* threads that refit, load and checkpoint the head
  Kinds,       \* the heads considered
  Label,       \* labels, numbered in their sorted order
  MinOutcomes, \* min_outcomes
  MaxRows,     \* bound: records in the outcome log
  MaxFits      \* bound: fits that learn something

\* "logreg": SklearnTextHead and TfidfHeadBase; "svc": TfidfLinearSVCHead;
\* "image": ImagePixelLogRegHead.
\* What the constants may be.
HeadsAssumption ==
  /\ Kinds \subseteq {"logreg", "svc", "image"} /\ Kinds # {}
  /\ Label \subseteq Nat /\ IsFiniteSet(Label) /\ 0 \notin Label
  /\ MinOutcomes \in Nat /\ MaxRows \in Nat /\ MaxFits \in Nat

\* A trained estimator: the fit that made it, and its classes_.
Model == [fit : 1..MaxFits, classes : (SUBSET Label) \ {{}}]
Untrained == [fit |-> 0, classes |-> {}]

VARIABLES
  kind,        \* the class of this head
  rows,        \* records in the log
  learnable,   \* labels of the records with outcome "correct"
  mistaken,    \* labels of the others
  pipeline,    \* _pipeline, or the image head's _classifier
  classes,     \* the image head's _classes
  version,     \* the fit that _version names
  fits,        \* fits that learned something so far
  blob,        \* the head's checkpoint in storage
  task,        \* per keeper: what it is doing
  carried,     \* per keeper: the state it installs or saves
  pc,          \* per predictor: the next read of predict
  index,       \* per predictor: the position its scores chose
  own,         \* history: the label the model that scored would answer
  answer,      \* per predictor: the label returned; None and Raised are none
  quiet        \* history: no install was under way since predict began

log == <<rows, learnable, mistaken>>
head == <<pipeline, classes, version>>
keepers == <<fits, blob, task, carried>>
predictors == <<pc, index, own, answer>>
vars == <<kind, log, head, keepers, predictors, quiet>>

None == 0                \* the untrained head's empty label
Raised == 0 - 1          \* predict raised

Fresh == [model |-> Untrained, classes |-> {}, version |-> 0]

Init ==
  /\ kind \in Kinds /\ rows = 0 /\ learnable = {} /\ mistaken = {}
  /\ pipeline = Untrained /\ classes = {} /\ version = 0
  /\ fits = 0 /\ blob = Fresh
  /\ task = [k \in Keeper |-> "idle"] /\ carried = [k \in Keeper |-> Fresh]
  /\ pc = [t \in Predictor |-> "idle"] /\ index = [t \in Predictor |-> 0]
  /\ own = [t \in Predictor |-> None] /\ answer = [t \in Predictor |-> None]
  /\ quiet = [t \in Predictor |-> TRUE]

\* A verdict is recorded.
Log ==
  /\ rows < MaxRows /\ rows' = rows + 1
  /\ \E l \in Label :
       \/ learnable' = learnable \cup {l} /\ UNCHANGED mistaken
       \/ mistaken' = mistaken \cup {l} /\ UNCHANGED learnable
  /\ UNCHANGED <<kind, head, keepers, predictors, quiet>>

-----------------------------------------------------------------------------
(***************************************************************************)
(* The keepers.  One of them at a time holds _head_lock.                   *)
(***************************************************************************)
Unlocked == \A k \in Keeper : task[k] \notin {"model", "classes", "version"}

Mono(model) == Cardinality(model.classes) = 1

\* The labels a fit trains on.
Targets == learnable

\* A fit learns nothing from fewer than min_outcomes records of any outcome,
\* or none that is correct; the image head needs two labels to learn from.
Learns ==
  /\ rows >= MinOutcomes /\ Targets # {}
  /\ kind = "image" => Cardinality(Targets) > 1

\* refit: the estimator is fitted under the lock, and then installed.
Fit(k) ==
  /\ task[k] = "idle" /\ Unlocked /\ fits < MaxFits /\ Learns
  /\ fits' = fits + 1
  /\ carried' = [carried EXCEPT ![k] =
       [model |-> [fit |-> fits + 1, classes |-> Targets],
        classes |-> IF kind = "image" THEN Targets ELSE {}, version |-> fits + 1]]
  /\ task' = [task EXCEPT ![k] = "model"]
  /\ UNCHANGED <<kind, log, head, blob, predictors, quiet>>

\* _load_head_state: the blob is read before the lock is taken.
ReadBlob(k) ==
  /\ task[k] = "idle" /\ blob # Fresh
  /\ carried' = [carried EXCEPT ![k] = blob]
  /\ task' = [task EXCEPT ![k] = "load"]
  /\ UNCHANGED <<kind, log, head, fits, blob, predictors, quiet>>

Load(k) ==
  /\ task[k] = "load" /\ Unlocked
  /\ task' = [task EXCEPT ![k] = "model"]
  /\ UNCHANGED <<kind, log, head, fits, blob, carried, predictors, quiet>>

\* fit and load_state assign the attributes one after another; a predict
\* under way may have read any of them already.
InstallModel(k) ==
  /\ task[k] = "model"
  /\ pipeline' = carried[k].model
  /\ quiet' = [t \in Predictor |-> FALSE]
  /\ task' = [task EXCEPT ![k] = IF kind = "image" THEN "classes" ELSE "version"]
  /\ UNCHANGED <<kind, log, classes, version, fits, blob, carried, predictors>>

InstallClasses(k) ==
  /\ task[k] = "classes"
  /\ classes' = carried[k].classes
  /\ quiet' = [t \in Predictor |-> FALSE]
  /\ task' = [task EXCEPT ![k] = "version"]
  /\ UNCHANGED <<kind, log, pipeline, version, fits, blob, carried, predictors>>

\* The lock is released with the version in place.
InstallVersion(k) ==
  /\ task[k] = "version"
  /\ version' = carried[k].version
  /\ task' = [task EXCEPT ![k] = "idle"] /\ carried' = [carried EXCEPT ![k] = Fresh]
  /\ UNCHANGED <<kind, log, pipeline, classes, fits, blob, predictors, quiet>>

\* Mutant: the bytes are taken without the lock.
TakeBytesUnlocked(k) ==
  /\ task[k] = "idle"
  /\ carried' = [carried EXCEPT ![k] =
       [model |-> pipeline, classes |-> classes, version |-> version]]
  /\ task' = [task EXCEPT ![k] = "put"]
  /\ UNCHANGED <<kind, log, head, fits, blob, predictors, quiet>>

\* _save_head_state: state_bytes under the lock, the write after it.
TakeBytes(k) ==
  /\ task[k] = "idle" /\ Unlocked
  /\ carried' = [carried EXCEPT ![k] =
       [model |-> pipeline, classes |-> classes, version |-> version]]
  /\ task' = [task EXCEPT ![k] = "put"]
  /\ UNCHANGED <<kind, log, head, fits, blob, predictors, quiet>>

PutBytes(k) ==
  /\ task[k] = "put"
  /\ blob' = carried[k]
  /\ task' = [task EXCEPT ![k] = "idle"] /\ carried' = [carried EXCEPT ![k] = Fresh]
  /\ UNCHANGED <<kind, log, head, fits, predictors, quiet>>

-----------------------------------------------------------------------------
(***************************************************************************)
(* predict.                                                                *)
(***************************************************************************)
Position(c, set) == Cardinality({d \in set : d <= c})
Nth(n, set) == CHOOSE c \in set : Position(c, set) = n

Answers(t, a) == pc' = [pc EXCEPT ![t] = "answered"] /\ answer' = [answer EXCEPT ![t] = a]
Goes(t, l) == pc' = [pc EXCEPT ![t] = l] /\ UNCHANGED answer

\* "if self._pipeline is None".
Begin(t) ==
  /\ pc[t] = "idle"
  /\ IF pipeline = Untrained THEN Answers(t, None)
     ELSE Goes(t, IF kind = "image" THEN "score" ELSE "type")
  /\ quiet' = [quiet EXCEPT ![t] = \A k \in Keeper : task[k] # "classes"]
  /\ UNCHANGED <<kind, log, head, keepers, index, own>>

\* "isinstance(self._pipeline, _MonoclassPredictor)".
TestMono(t) ==
  /\ pc[t] = "type"
  /\ Goes(t, IF Mono(pipeline) THEN "label" ELSE "score")
  /\ UNCHANGED <<kind, log, head, keepers, index, own, quiet>>

\* "self._pipeline._label": only a constant predictor has one.
ReadLabel(t) ==
  /\ pc[t] = "label"
  /\ Answers(t, IF Mono(pipeline) THEN Nth(1, pipeline.classes) ELSE Raised)
  /\ own' = [own EXCEPT ![t] = IF Mono(pipeline) THEN Nth(1, pipeline.classes) ELSE @]
  /\ UNCHANGED <<kind, log, head, keepers, index, quiet>>

\* Where the score of class c is found.  The linear SVM decides between two
\* classes, and a constant predictor for its only one, by one number: the
\* positive side is the second class.
IndexOf(c) == IF kind = "svc" /\ Mono(pipeline) THEN 2 ELSE Position(c, pipeline.classes)

\* "self._pipeline.predict_proba(...)", or decision_function.
Score(t) ==
  /\ pc[t] = "score"
  /\ IF pipeline = Untrained
     THEN Answers(t, Raised) /\ UNCHANGED <<index, own>>
     ELSE /\ \E c \in pipeline.classes :
               index' = [index EXCEPT ![t] = IndexOf(c)] /\ own' = [own EXCEPT ![t] = c]
          /\ Goes(t, "name")
  /\ UNCHANGED <<kind, log, head, keepers, quiet>>

\* "list(self._pipeline.classes_)[idx]", or "self._classes[idx]".
Names == IF kind = "image" THEN classes ELSE pipeline.classes

NameAnswer(t) ==
  /\ pc[t] = "name"
  /\ Answers(t, IF index[t] \in 1..Cardinality(Names) THEN Nth(index[t], Names) ELSE Raised)
  /\ UNCHANGED <<kind, log, head, keepers, index, own, quiet>>

Return(t) ==
  /\ pc[t] = "answered"
  /\ pc' = [pc EXCEPT ![t] = "idle"] /\ index' = [index EXCEPT ![t] = 0]
  /\ own' = [own EXCEPT ![t] = None] /\ answer' = [answer EXCEPT ![t] = None]
  /\ UNCHANGED <<kind, log, head, keepers, quiet>>

Next ==
  \/ Log
  \/ \E k \in Keeper :
       \/ Fit(k) \/ ReadBlob(k) \/ Load(k)
       \/ InstallModel(k) \/ InstallClasses(k) \/ InstallVersion(k)
       \/ TakeBytes(k) \/ PutBytes(k)
  \/ \E t \in Predictor :
       \/ Begin(t) \/ TestMono(t) \/ ReadLabel(t) \/ Score(t) \/ NameAnswer(t) \/ Return(t)

Spec == Init /\ [][Next]_vars

-----------------------------------------------------------------------------
State == [model : Model \cup {Untrained}, classes : SUBSET Label, version : 0..MaxFits]

\* Everything stays in range, and one keeper at most holds the lock.
TypeOK ==
  /\ kind \in Kinds /\ rows \in 0..MaxRows
  /\ learnable \subseteq Label /\ mistaken \subseteq Label
  /\ [model |-> pipeline, classes |-> classes, version |-> version] \in State
  /\ fits \in 0..MaxFits /\ blob \in State
  /\ task \in [Keeper -> {"idle", "load", "model", "classes", "version", "put"}]
  /\ carried \in [Keeper -> State]
  /\ pc \in [Predictor -> {"idle", "type", "label", "score", "name", "answered"}]
  /\ index \in [Predictor -> Nat] /\ own \in [Predictor -> Label \cup {None}]
  /\ answer \in [Predictor -> Label \cup {None, Raised}] /\ quiet \in [Predictor -> BOOLEAN]
  /\ \A k, l \in Keeper :
       {task[k], task[l]} \subseteq {"model", "classes", "version"} => k = l

\* A predict during which no fit or load installs anything returns what the
\* model it asked answers, and does not raise.  (One that was overtaken may
\* pair the position chosen by one model with the classes of another.)
QuietAnswerIsOwn ==
  \A t \in Predictor : pc[t] = "answered" /\ quiet[t] => answer[t] = own[t]

\* However predict and the keepers interleave, and whatever a checkpoint
\* brought back, a head answers only with labels that were right at least
\* once: it mixes models up, but it invents no label and learns no mistake.
NeverAnswersAMistake ==
  \A t \in Predictor : answer[t] \in Label => answer[t] \in learnable

\* A checkpoint is one model with its own classes and its own version, and
\* so is the head whenever nobody holds the lock.
CheckpointIsWhole ==
  LET Whole(s) == /\ s.version = s.model.fit
                  /\ kind = "image" => s.classes = s.model.classes
  IN /\ Whole(blob)
     /\ Unlocked => Whole([model |-> pipeline, classes |-> classes, version |-> version])
=============================================================================
