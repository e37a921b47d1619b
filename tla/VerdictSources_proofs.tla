------------------------ MODULE VerdictSources_proofs ------------------------
(***************************************************************************)
(* Proofs about VerdictSources, for any callers, inputs, labels, committee *)
(* and bounds: typing, the skew of the reviewer's queues, the verdicts     *)
(* recorded until two waits cross, what a committee's verdict takes, and   *)
(* that a recorded verdict was earned from the source that gave it.        *)
(***************************************************************************)
EXTENDS VerdictSources, FiniteSetTheorems, TLAPS

\* Any case deserves one of the two verdicts, and not the other.
LEMMA DeservedType ==
    ASSUME NEW case
    PROVE  /\ Deserved(case) \in Verdict \ {"unknown"}
           /\ Opposite(Deserved(case)) \in Verdict \ {"unknown", Deserved(case)}
BY DEF Deserved, Opposite, Verdict

\* A sequence stays one of its kind when an element is added or its head taken.
LEMMA QueueType ==
    ASSUME NEW S, NEW s \in Seq(S)
    PROVE  /\ Len(s) \in Nat
           /\ \A e \in S : Append(s, e) \in Seq(S) /\ Len(Append(s, e)) = Len(s) + 1
           /\ s # <<>> => /\ Head(s) \in S /\ Tail(s) \in Seq(S)
                          /\ Len(Tail(s)) = Len(s) - 1
OBVIOUS

\* What is in a sequence that got longer is the new element or was in it.
LEMMA Grown ==
    ASSUME NEW S, NEW s \in Seq(S), NEW e \in S, NEW n \in DOMAIN Append(s, e)
    PROVE  Append(s, e)[n] = e \/ (n \in DOMAIN s /\ Append(s, e)[n] = s[n])
<1>1. DOMAIN s = 1..Len(s) /\ Len(s) \in Nat
  OBVIOUS
<1>2. DOMAIN Append(s, e) = 1..(Len(s) + 1)
  OBVIOUS
<1>3. Append(s, e)[Len(s) + 1] = e /\ \A m \in 1..Len(s) : Append(s, e)[m] = s[m]
  OBVIOUS
<1> QED  BY <1>1, <1>2, <1>3

\* Aggregation makes a verdict of ballots.
LEMMA AggregateType ==
    ASSUME NEW mode, NEW b \in [1..Judges -> Verdict]
    PROVE  Aggregate(mode, b) \in Verdict
<1>1. b[1] \in Verdict
  BY SourcesAssumption DEF SourcesAssumption
<1> QED  BY <1>1 DEF Aggregate, Unanimous, Majority, Verdict

LEMMA TypeInit == Init => TypeOK
<1> SUFFICES ASSUME Init PROVE TypeOK  OBVIOUS
<1>1. Idle \in Job
  BY DEF Idle, Job, Verdict
<1>2. 0 \in 0..MaxDrift /\ 0 \in 0..(MaxCalls + 1)
  BY SourcesAssumption DEF SourcesAssumption
<1>3. log \in Seq(LogRow) /\ pending \in Seq(Case) /\ verdicts \in Seq(Reply)
  BY DEF Init
<1>4. pc \in [Caller -> {"idle", "classified", "ask", "waiting", "raised", "record"}]
      /\ job \in [Caller -> Job] /\ \A c \in Caller : pc[c] = "idle"
  BY <1>1 DEF Init
<1> QED  BY <1>2, <1>3, <1>4 DEF Init, TypeOK

\* What the callers do keeps the types.
LEMMA TypeCall ==
    ASSUME TypeOK, NEW c \in Caller, NEW i \in Input, NEW b \in Batches, Classify(c, i, b)
    PROVE  TypeOK'
<1> USE DEF TypeOK, switch, human
<1>1. job[c] \in Job /\ decides[i] \in Label /\ b \in Source \cup {NoSource}
  BY SourcesAssumption DEF SourcesAssumption
<1> DEFINE new == [Idle EXCEPT !.case = [input |-> i, label |-> decides[i]], !.batch = b]
<1>2. new \in Job /\ new.case \in Case
  BY <1>1 DEF Idle, Job, Case, Verdict
<1>3. job' \in [Caller -> Job] /\ \A d \in Caller : job'[d] = IF d = c THEN new ELSE job[d]
  <2> HIDE DEF new
  <2>1. job' = [job EXCEPT ![c] = new]
    BY DEF Classify, new
  <2> QED  BY <1>2, <2>1
<1>4. calls' \in 0..(MaxCalls + 1)
  BY SourcesAssumption DEF Classify, SourcesAssumption
<1> HIDE DEF new
<1> QED  BY <1>2, <1>3, <1>4 DEF Classify

\* The inline part, the batch's part and the row of a call.
LEMMA TypeAsk ==
    ASSUME TypeOK, NEW c \in Caller, NEW s \in Source, NEW stage \in {"inline", "batch"},
           Ask(c, s, stage), pc[c] # "idle",
           UNCHANGED <<switch, human, past>>, log' \in Seq(LogRow)
    PROVE  TypeOK'
<1> USE DEF TypeOK, switch, human, past
<1>1. job[c] \in Job
  OBVIOUS
<1>2. job' = [job EXCEPT ![c] = [job[c] EXCEPT !.by = s, !.stage = stage]]
  BY DEF Ask
<1>3. [job[c] EXCEPT !.by = s, !.stage = stage] \in Job
  BY <1>1 DEF Job
<1>4. job' \in [Caller -> Job]
  BY <1>2, <1>3
<1>5. s # NoSource
  BY SourcesAssumption DEF SourcesAssumption
<1>6. \A d \in Caller : job'[d].case = job[d].case
  BY <1>1, <1>2 DEF Job
<1>7. \A d \in Caller : job'[d].by = IF d = c THEN s ELSE job[d].by
  BY <1>1, <1>2 DEF Job
<1> QED  BY <1>4, <1>5, <1>6, <1>7 DEF Ask

LEMMA TypeDone ==
    ASSUME TypeOK, NEW c \in Caller, Done(c),
           UNCHANGED <<switch, human, past>>, log' \in Seq(LogRow)
    PROVE  TypeOK'
<1> USE DEF TypeOK, switch, human, past
<1>1. Idle \in Job
  BY DEF Idle, Job, Verdict
<1> QED  BY <1>1 DEF Done

LEMMA TypeProceed ==
    ASSUME TypeOK, NEW c \in Caller, Proceed(c), pc[c] # "idle",
           UNCHANGED <<switch, human, past>>, log' \in Seq(LogRow)
    PROVE  TypeOK'
<1>1. CASE job[c].batch = NoSource
  BY <1>1, TypeDone DEF Proceed
<1>2. CASE job[c].batch # NoSource
  <2>1. job[c].batch \in Source
    BY <1>2 DEF TypeOK, Job
  <2> QED  BY <1>2, <2>1, TypeAsk DEF Proceed
<1> QED  BY <1>1, <1>2

\* A row about the case in hand is a row of the log.
LEMMA RowType ==
    ASSUME TypeOK, NEW c \in Caller, pc[c] # "idle",
           NEW outcome \in Verdict, NEW source \in Source \cup {"auto", "review"}
    PROVE  Append(log, Row(job[c].case, outcome, source)) \in Seq(LogRow)
<1>1. job[c].case \in Case
  BY DEF TypeOK
<1>2. Row(job[c].case, outcome, source) \in LogRow
  BY <1>1 DEF Row, Case, LogRow
<1>3. log \in Seq(LogRow)
  BY DEF TypeOK
<1> QED  BY <1>2, <1>3, QueueType

\* What follows classify keeps the types.
LEMMA TypeFollow ==
    ASSUME TypeOK, NEW c \in Caller,
           Verify(c) \/ Unverified(c) \/ CountFailed(c) \/ Record(c)
    PROVE  TypeOK'
<1>1. CASE Verify(c)
  <2>1. verifier \in Source
    BY <1>1, SourcesAssumption DEF Verify, TypeOK, SourcesAssumption
  <2>2. log' \in Seq(LogRow)
    BY <1>1 DEF Verify, TypeOK
  <2> QED  BY <1>1, <2>1, <2>2, TypeAsk DEF Verify
<1>2. CASE Unverified(c)
  <2>1. pc[c] # "idle"
    BY <1>2 DEF Unverified
  <2>2. log' \in Seq(LogRow)
    BY <1>2, <2>1, RowType DEF Unverified, Verdict
  <2> QED  BY <1>2, <2>1, <2>2, TypeProceed DEF Unverified
<1>3. CASE CountFailed(c)
  <2>1. log' \in Seq(LogRow)
    BY <1>3 DEF CountFailed, TypeOK
  <2> QED  BY <1>3, <2>1, TypeDone DEF CountFailed
<1>4. CASE Record(c)
  <2>1. pc[c] = "record"
    BY <1>4 DEF Record
  <2>2. job[c].verdict \in Verdict /\ job[c].by \in Source \cup {"review"}
    BY <2>1 DEF TypeOK, Job
  <2>3. log' \in Seq(LogRow)
    BY <1>4, <2>1, <2>2, RowType DEF Record
  <2> QED  BY <1>4, <2>1, <2>3, TypeProceed, TypeDone DEF Record
<1> QED  BY <1>1, <1>2, <1>3, <1>4

\* A verdict that reached its caller.
LEMMA TypeHeard ==
    ASSUME TypeOK, NEW c \in Caller, NEW v \in Verdict, Heard(c, v), pc[c] \in {"ask", "waiting"},
           pending' \in Seq(Case), verdicts' \in Seq(Reply), late' \in Nat, crossed' \in BOOLEAN,
           UNCHANGED <<switch, log, reviewing, calls>>
    PROVE  TypeOK'
<1> USE DEF TypeOK, switch
<1>1. [job[c] EXCEPT !.verdict = v] \in Job
      /\ [job[c] EXCEPT !.verdict = v].case = job[c].case
      /\ [job[c] EXCEPT !.verdict = v].by = job[c].by
  BY DEF Job
<1>2. job' = [job EXCEPT ![c] = [job[c] EXCEPT !.verdict = v]]
  BY DEF Heard
<1>3. job' \in [Caller -> Job]
      /\ \A d \in Caller : job'[d].case = job[d].case /\ job'[d].by = job[d].by
  BY <1>1, <1>2
<1>4. pc' = [pc EXCEPT ![c] = "record"]
  BY DEF Heard
<1> QED  BY <1>3, <1>4

\* What the sources do keeps the types.
LEMMA TypeSource ==
    ASSUME TypeOK, NEW c \in Caller,
           AskCommittee(c) \/ AskSystem(c) \/ Push(c) \/ Pop(c) \/ Timeout(c)
    PROVE  TypeOK'
<1> USE DEF human, past
<1>1. CASE AskCommittee(c)
  <2>1. PICK b \in Polls(job[c].case) :
          job' = [job EXCEPT ![c].ballots = b, ![c].verdict = Aggregate(job[c].by, b)]
    BY <1>1 DEF AskCommittee
  <2>2. b \in [1..Judges -> Verdict] /\ Aggregate(job[c].by, b) \in Verdict
    BY AggregateType DEF Polls
  <2> DEFINE new == [job[c] EXCEPT !.ballots = b, !.verdict = Aggregate(job[c].by, b)]
  <2>3. new \in Job /\ new.case = job[c].case /\ new.by = job[c].by
    BY <2>2 DEF TypeOK, Job
  <2>4. job' = [job EXCEPT ![c] = new]
    BY <2>1
  <2> HIDE DEF new
  <2>5. job' \in [Caller -> Job]
        /\ \A d \in Caller : job'[d].case = job[d].case /\ job'[d].by = job[d].by
    BY <2>3, <2>4 DEF TypeOK
  <2> QED  BY <1>1, <2>5 DEF AskCommittee, TypeOK, switch
<1>2. CASE AskSystem(c)
  <2>1. PICK v \in WebhookAnswers(job[c].case) \cup CallableAnswers(job[c].case) :
          IF v = "raise" THEN pc' = [pc EXCEPT ![c] = "raised"] /\ UNCHANGED job ELSE Heard(c, v)
    BY <1>2 DEF AskSystem
  <2>2. v \in Verdict \cup {"raise"}
    BY DeservedType DEF WebhookAnswers, CallableAnswers, Verdict
  <2>3. CASE v = "raise"
    BY <1>2, <2>1, <2>3 DEF AskSystem, TypeOK, switch
  <2>4. CASE v # "raise"
    <3>1. pending' \in Seq(Case) /\ verdicts' \in Seq(Reply) /\ late' \in Nat
          /\ crossed' \in BOOLEAN
      BY <1>2 DEF AskSystem, TypeOK
    <3> QED  BY <1>2, <2>1, <2>2, <2>4, <3>1, TypeHeard DEF AskSystem
  <2> QED  BY <2>3, <2>4
<1>3. CASE Push(c)
  <2>1. job[c].case \in Case
    BY <1>3 DEF Push, TypeOK
  <2>2. pending' \in Seq(Case)
    BY <1>3, <2>1, QueueType DEF Push, TypeOK
  <2> QED  BY <1>3, <2>2 DEF Push, TypeOK, switch
<1>4. CASE Pop(c)
  <2>1. verdicts' \in Seq(Reply)
    BY <1>4, QueueType DEF Pop, TypeOK
  <2>2. pending' \in Seq(Case) /\ late' \in Nat /\ crossed' \in BOOLEAN
    BY <1>4 DEF Pop, TypeOK
  <2>3. PICK v \in Verdict : Heard(c, v)
    BY <1>4 DEF Pop, Verdict
  <2> QED  BY <1>4, <2>1, <2>2, <2>3, TypeHeard DEF Pop
<1>5. CASE Timeout(c)
  <2>1. pending' \in Seq(Case) /\ verdicts' \in Seq(Reply) /\ late' \in Nat
        /\ crossed' \in BOOLEAN
    BY <1>5 DEF Timeout, TypeOK
  <2>2. "unknown" \in Verdict /\ Heard(c, "unknown")
    BY <1>5 DEF Timeout, Verdict
  <2> QED  BY <1>5, <2>1, <2>2, TypeHeard DEF Timeout
<1> QED  BY <1>1, <1>2, <1>3, <1>4, <1>5

\* So do the reviewer, the reviews applied to the log and the switch's drift.
LEMMA TypeReview ==
    ASSUME TypeOK, NEW c \in Caller, NEW case \in Exported, ApplyReview(c, case)
    PROVE  TypeOK'
<1> USE DEF TypeOK, switch, human
<1>1. PICK n \in Reviewed(case.input) :
        job' = [job EXCEPT ![c] =
          [Idle EXCEPT !.case = [input |-> case.input, label |-> log[n].label],
                       !.by = "review", !.stage = "review", !.verdict = Deserved(case)]]
  BY DEF ApplyReview
<1>2. case.input \in Input /\ log[n].label \in Label
  <2>1. \A m \in DOMAIN log : log[m] \in LogRow
    OBVIOUS
  <2>2. PICK m \in DOMAIN log : case = [input |-> log[m].input, label |-> log[m].label]
    BY DEF Exported
  <2>3. n \in DOMAIN log
    BY DEF Reviewed, Unknowns
  <2> QED  BY <2>1, <2>2, <2>3 DEF LogRow
<1> DEFINE new == [Idle EXCEPT !.case = [input |-> case.input, label |-> log[n].label],
                               !.by = "review", !.stage = "review", !.verdict = Deserved(case)]
<1>3. new \in Job /\ new.case \in Case /\ new.by = "review"
  BY <1>2, DeservedType DEF Idle, Job, Case
<1> HIDE DEF new
<1>4. job' = [job EXCEPT ![c] = new]
  BY <1>1 DEF new
<1>5. job' \in [Caller -> Job]
      /\ \A d \in Caller : job'[d] = IF d = c THEN new ELSE job[d]
  BY <1>3, <1>4
<1>6. calls' \in 0..(MaxCalls + 1)
  BY SourcesAssumption DEF ApplyReview, SourcesAssumption
<1>7. "review" # NoSource
  BY SourcesAssumption DEF SourcesAssumption
<1> QED  BY <1>3, <1>5, <1>6, <1>7 DEF ApplyReview

\* What the reviewer hands in is a reply, and an honest one.
LEMMA AnswerType ==
    ASSUME TypeOK, Answer
    PROVE  \E reply \in Reply : /\ verdicts' = Append(verdicts, reply)
                                /\ reply.about = reviewing
                                /\ reply.says \in {Deserved(reviewing), "not a verdict"}
<1>1. PICK says \in {Deserved(reviewing), "not a verdict"} :
        verdicts' = Append(verdicts, [about |-> reviewing, says |-> says])
  BY DEF Answer
<1>2. [about |-> reviewing, says |-> says] \in Reply
  BY DeservedType DEF Answer, Reply, TypeOK
<1> WITNESS [about |-> reviewing, says |-> says] \in Reply
<1> QED  BY <1>1

LEMMA TypeOther ==
    ASSUME TypeOK, Take \/ Answer \/ \E i \in Input : Drift(i)
    PROVE  TypeOK'
<1> USE DEF TypeOK, switch, past
<1>1. CASE Take
  <2>1. pending' \in Seq(Case) /\ reviewing' \in Case
    BY <1>1, QueueType DEF Take
  <2> QED  BY <1>1, <2>1 DEF Take
<1>2. CASE Answer
  <2>1. verdicts' \in Seq(Reply)
    BY <1>2, AnswerType, QueueType
  <2> QED  BY <1>2, <2>1 DEF Answer
<1>3. CASE \E i \in Input : Drift(i)
  <2>1. drifted' \in 0..MaxDrift /\ decides' \in [Input -> Label]
    BY <1>3, SourcesAssumption DEF Drift, SourcesAssumption
  <2> QED  BY <1>3, <2>1 DEF Drift, human
<1> QED  BY <1>1, <1>2, <1>3

LEMMA TypeNext == TypeOK /\ [Next]_vars => TypeOK'
<1> SUFFICES ASSUME TypeOK, [Next]_vars PROVE TypeOK'  OBVIOUS
<1>1. CASE UNCHANGED vars
  BY <1>1 DEF vars, TypeOK
<1>2. ASSUME NEW c \in Caller, Step(c) PROVE TypeOK'
  BY <1>2, TypeCall, TypeFollow, TypeSource, TypeReview DEF Step
<1> QED  BY <1>1, <1>2, TypeOther DEF Next

\* Callers, queues and rows hold what they should, whatever is called.
THEOREM TypeCorrect == Spec => []TypeOK
<1> QED  BY TypeInit, TypeNext, PTL DEF Spec

-----------------------------------------------------------------------------
\* The steps that touch neither the queues, nor the set of callers waiting for
\* the reviewer, nor what is known about them.
Aside ==
    UNCHANGED <<human, late, crossed>> /\ Waiting' = Waiting
    /\ \A c \in Waiting : job'[c] = job[c]

LEMMA Asides ==
    ASSUME TypeOK, NEW c \in Caller,
           \/ \E i \in Input, b \in Batches : Classify(c, i, b)
           \/ Verify(c) \/ Unverified(c) \/ CountFailed(c) \/ Record(c)
           \/ AskCommittee(c) \/ AskSystem(c)
           \/ \E case \in Exported : ApplyReview(c, case)
    PROVE  Aside
<1>1. pc[c] # "waiting" /\ UNCHANGED <<human, late, crossed>>
  BY DEF Classify, Verify, Unverified, CountFailed, Record, AskCommittee, AskSystem,
         ApplyReview, human, past
<1>2. /\ \A d \in Caller \ {c} : pc'[d] = pc[d] /\ job'[d] = job[d]
      /\ pc'[c] # "waiting"
  <2> USE DEF TypeOK
  <2>1. CASE \E i \in Input, b \in Batches : Classify(c, i, b)
    BY <2>1 DEF Classify
  <2>2. CASE Verify(c)
    BY <2>2 DEF Verify, Ask
  <2>3. CASE Unverified(c)
    BY <2>3 DEF Unverified, Proceed, Done, Ask
  <2>4. CASE CountFailed(c)
    BY <2>4 DEF CountFailed, Done
  <2>5. CASE Record(c)
    BY <2>5 DEF Record, Proceed, Done, Ask
  <2>6. CASE AskCommittee(c)
    BY <2>6 DEF AskCommittee
  <2>7. CASE AskSystem(c)
    BY <2>7 DEF AskSystem, Heard
  <2>8. CASE \E case \in Exported : ApplyReview(c, case)
    BY <2>8 DEF ApplyReview
  <2> QED  BY <2>1, <2>2, <2>3, <2>4, <2>5, <2>6, <2>7, <2>8
<1>3. Waiting' = Waiting
  BY <1>1, <1>2 DEF Waiting
<1> QED  BY <1>1, <1>2, <1>3 DEF Aside, Waiting

\* The three steps of a caller that waits for the reviewer.
LEMMA Joins ==
    ASSUME TypeOK, NEW c \in Caller, Push(c)
    PROVE  c \notin Waiting /\ Waiting' = Waiting \cup {c}
BY DEF Push, TypeOK, Waiting

LEMMA Leaves ==
    ASSUME TypeOK, NEW c \in Caller, Pop(c) \/ Timeout(c)
    PROVE  /\ c \in Waiting /\ Waiting' = Waiting \ {c}
           /\ \A d \in Waiting' : job'[d] = job[d]
BY DEF Pop, Timeout, Heard, TypeOK, Waiting

LEMMA SkewNext == TypeOK /\ SkewIsForever /\ [Next]_vars => SkewIsForever'
<1> SUFFICES ASSUME TypeOK, SkewIsForever, [Next]_vars PROVE SkewIsForever'  OBVIOUS
<1> DEFINE held == IF reviewing = Nothing THEN 0 ELSE 1
           waiters == Cardinality(Waiting)
<1>1. IsFiniteSet(Waiting) /\ waiters \in Nat
  BY SourcesAssumption, FS_Subset, FS_CardinalityType DEF SourcesAssumption, Waiting
<1>2. Len(pending) \in Nat /\ Len(verdicts) \in Nat /\ late \in Nat
  BY DEF TypeOK
<1>3. Len(pending) + Len(verdicts) + held = waiters + late
  BY DEF SkewIsForever
<1>4. ASSUME Aside PROVE SkewIsForever'
  BY <1>4 DEF Aside, human, SkewIsForever
<1>5. ASSUME NEW c \in Caller, Push(c) PROVE SkewIsForever'
  <2>1. Cardinality(Waiting') = waiters + 1
    BY <1>1, <1>5, Joins, FS_AddElement
  <2>2. Len(pending') = Len(pending) + 1
    BY <1>5, QueueType DEF Push, TypeOK
  <2>3. UNCHANGED <<verdicts, reviewing, late>>
    BY <1>5 DEF Push
  <2> QED  BY <1>1, <1>2, <1>3, <2>1, <2>2, <2>3 DEF SkewIsForever
<1>6. ASSUME NEW c \in Caller, Pop(c) PROVE SkewIsForever'
  <2>1. Cardinality(Waiting') = waiters - 1
    BY <1>1, <1>6, Leaves, FS_RemoveElement
  <2>2. Len(verdicts') = Len(verdicts) - 1
    BY <1>6, QueueType DEF Pop, TypeOK
  <2>3. UNCHANGED <<pending, reviewing, late>>
    BY <1>6 DEF Pop, past
  <2> QED  BY <1>1, <1>2, <1>3, <2>1, <2>2, <2>3 DEF SkewIsForever
<1>7. ASSUME NEW c \in Caller, Timeout(c) PROVE SkewIsForever'
  <2>1. Cardinality(Waiting') = waiters - 1
    BY <1>1, <1>7, Leaves, FS_RemoveElement
  <2>2. late' = late + 1 /\ UNCHANGED <<pending, verdicts, reviewing>>
    BY <1>7 DEF Timeout, human
  <2> QED  BY <1>1, <1>2, <1>3, <2>1, <2>2 DEF SkewIsForever
<1>8. CASE Take
  <2>1. reviewing = Nothing /\ reviewing' # Nothing
    BY <1>8, QueueType, SourcesAssumption DEF Take, TypeOK, SourcesAssumption
  <2>2. Len(pending') = Len(pending) - 1
    BY <1>8, QueueType DEF Take, TypeOK
  <2>3. UNCHANGED <<verdicts, late>> /\ Waiting' = Waiting
    BY <1>8 DEF Take, past, Waiting
  <2> QED  BY <1>1, <1>2, <1>3, <2>1, <2>2, <2>3 DEF SkewIsForever
<1>9. CASE Answer
  <2>1. \E reply \in Reply : verdicts' = Append(verdicts, reply)
    BY <1>9, AnswerType
  <2>2. Len(verdicts') = Len(verdicts) + 1
    BY <2>1, QueueType DEF TypeOK
  <2>3. reviewing # Nothing /\ reviewing' = Nothing /\ UNCHANGED <<pending, late>>
        /\ Waiting' = Waiting
    BY <1>9 DEF Answer, past, Waiting
  <2> QED  BY <1>1, <1>2, <1>3, <2>2, <2>3 DEF SkewIsForever
<1>10. CASE \E i \in Input : Drift(i)
  BY <1>10 DEF Drift, human, past, Waiting, SkewIsForever
<1>11. CASE UNCHANGED vars
  BY <1>11 DEF vars, human, past, Waiting, SkewIsForever
<1>12. ASSUME NEW c \in Caller, Step(c) PROVE SkewIsForever'
  BY <1>4, <1>5, <1>6, <1>7, <1>12, Asides DEF Step
<1> QED  BY <1>8, <1>9, <1>10, <1>11, <1>12 DEF Next

\* For every number of callers: what the reviewer still owes is one answer
\* for every caller that waits and one for every wait that ever timed out.
THEOREM SkewNeverHeals == Spec => []SkewIsForever
<1>1. Init => SkewIsForever
  <2> SUFFICES ASSUME Init PROVE SkewIsForever  OBVIOUS
  <2>1. Waiting = {}
    BY DEF Init, Waiting
  <2> QED  BY <2>1, FS_EmptySet DEF Init, SkewIsForever
<1> QED  BY <1>1, SkewNext, TypeCorrect, PTL DEF Spec

-----------------------------------------------------------------------------
\* What is known of the reviewer's queues while no two waits have crossed: one
\* caller at most waits, everything in the queues is about its case, answers
\* are honest, and so is the verdict of a caller that got one.
Honest ==
    \A n \in DOMAIN verdicts :
        verdicts[n].says \in {Deserved(verdicts[n].about), "not a verdict"}

OneAtATime ==
    /\ late = 0
    /\ \A c, d \in Waiting : c = d
    /\ \A c \in Waiting :
         /\ \A n \in DOMAIN pending : pending[n] = job[c].case
         /\ reviewing # Nothing => reviewing = job[c].case
         /\ \A n \in DOMAIN verdicts : verdicts[n].about = job[c].case

Recording ==
    \A c \in Caller :
        pc[c] = "record" /\ job[c].by = "human" =>
            job[c].verdict \in {"unknown", Deserved(job[c].case)}

Uncrossed == Honest /\ (~crossed => OneAtATime /\ Recording)

UInv == TypeOK /\ SkewIsForever /\ Uncrossed /\ VerdictsMatchUntilCrossed

\* Nobody waiting and no wait timed out: the queues are empty.
LEMMA EmptyQueues ==
    ASSUME TypeOK, SkewIsForever, Waiting = {}, late = 0
    PROVE  pending = <<>> /\ verdicts = <<>> /\ reviewing = Nothing
<1>1. Len(pending) + Len(verdicts) + (IF reviewing = Nothing THEN 0 ELSE 1) = 0
  BY FS_EmptySet DEF SkewIsForever
<1>2. Len(pending) \in Nat /\ Len(verdicts) \in Nat
  BY DEF TypeOK
<1>3. Len(pending) = 0 /\ Len(verdicts) = 0 /\ reviewing = Nothing
  BY <1>1, <1>2
<1> QED  BY <1>3 DEF TypeOK

\* Asking, waiting and answering keep the queues about the waiting case.
LEMMA AsideUncrossed ==
    ASSUME UInv, Aside
    PROVE  Honest' /\ (~crossed' => OneAtATime')
<1>1. UNCHANGED <<pending, reviewing, verdicts, late, crossed>> /\ Waiting' = Waiting
      /\ \A c \in Waiting : job'[c] = job[c]
  BY DEF Aside, human
<1>2. Honest'
  BY <1>1 DEF UInv, Uncrossed, Honest
<1>3. ASSUME OneAtATime PROVE OneAtATime'
  BY <1>1, <1>3 DEF OneAtATime
<1> QED  BY <1>1, <1>2, <1>3 DEF UInv, Uncrossed

LEMMA PushUncrossed ==
    ASSUME UInv, NEW c \in Caller, Push(c)
    PROVE  Honest' /\ (~crossed' => OneAtATime')
<1>1. Honest'
  BY DEF UInv, Uncrossed, Honest, Push
<1>2. SUFFICES ASSUME ~crossed' PROVE OneAtATime'
  BY <1>1
<1>3. ~crossed /\ Waiting = {} /\ late = 0
  BY <1>2 DEF Push, UInv, Uncrossed, OneAtATime
<1>4. pending = <<>> /\ verdicts = <<>> /\ reviewing = Nothing
  BY <1>3, EmptyQueues DEF UInv
<1>5. Waiting' = {c} /\ job' = job
  BY <1>3, Joins DEF UInv, Push
<1>6. pending' = <<job[c].case>> /\ verdicts' = <<>> /\ reviewing' = Nothing /\ late' = 0
  BY <1>3, <1>4 DEF Push
<1> QED  BY <1>5, <1>6 DEF OneAtATime

LEMMA PopUncrossed ==
    ASSUME UInv, NEW c \in Caller, Pop(c)
    PROVE  Honest' /\ (~crossed' => OneAtATime')
<1>1. verdicts \in Seq(Reply) /\ verdicts # <<>> /\ verdicts' = Tail(verdicts)
      /\ UNCHANGED <<late, crossed>>
  BY DEF Pop, UInv, TypeOK, past
<1>2. \A n \in DOMAIN verdicts' : n + 1 \in DOMAIN verdicts /\ verdicts'[n] = verdicts[n + 1]
  BY <1>1
<1>3. Honest'
  BY <1>2 DEF UInv, Uncrossed, Honest
<1>4. ~crossed => Waiting' = {}
  BY Leaves DEF UInv, Uncrossed, OneAtATime
<1> QED  BY <1>1, <1>3, <1>4 DEF OneAtATime, UInv, Uncrossed

LEMMA TakeUncrossed ==
    ASSUME UInv, Take
    PROVE  Honest' /\ (~crossed' => OneAtATime')
<1>1. pending \in Seq(Case) /\ pending # <<>> /\ pending' = Tail(pending)
      /\ reviewing' = Head(pending)
      /\ UNCHANGED <<late, crossed, verdicts, job>> /\ Waiting' = Waiting
  BY DEF Take, UInv, TypeOK, past, Waiting
<1>2. \A n \in DOMAIN pending' : n + 1 \in DOMAIN pending /\ pending'[n] = pending[n + 1]
  BY <1>1
<1>3. 1 \in DOMAIN pending /\ reviewing' = pending[1]
  BY <1>1
<1>4. Honest'
  BY <1>1 DEF UInv, Uncrossed, Honest
<1> QED  BY <1>1, <1>2, <1>3, <1>4 DEF OneAtATime, UInv, Uncrossed

LEMMA AnswerUncrossed ==
    ASSUME UInv, Answer
    PROVE  Honest' /\ (~crossed' => OneAtATime')
<1>1. PICK reply \in Reply : /\ verdicts' = Append(verdicts, reply)
                             /\ reply.about = reviewing
                             /\ reply.says \in {Deserved(reviewing), "not a verdict"}
  BY AnswerType DEF UInv
<1>2. verdicts \in Seq(Reply) /\ reviewing # Nothing /\ reviewing' = Nothing
      /\ UNCHANGED <<late, crossed, pending, job>> /\ Waiting' = Waiting
  BY DEF Answer, UInv, TypeOK, past, Waiting
<1>3. \A n \in DOMAIN verdicts' :
        verdicts'[n] = reply \/ (n \in DOMAIN verdicts /\ verdicts'[n] = verdicts[n])
  <2>1. \A n \in DOMAIN Append(verdicts, reply) :
          \/ Append(verdicts, reply)[n] = reply
          \/ n \in DOMAIN verdicts /\ Append(verdicts, reply)[n] = verdicts[n]
    <3>1. verdicts \in Seq(Reply) /\ reply \in Reply
      BY <1>2
    <3> QED  BY <3>1, Grown
  <2>2. verdicts' = Append(verdicts, reply)
    BY <1>1
  <2> QED  BY <2>1, <2>2, Zenon
<1>4. Honest'
  BY <1>1, <1>3 DEF UInv, Uncrossed, Honest
<1>5. ASSUME OneAtATime PROVE OneAtATime'
  <2>1. \A c \in Waiting : reply.about = job[c].case
    BY <1>1, <1>2, <1>5 DEF OneAtATime
  <2> QED  BY <1>2, <1>3, <1>5, <2>1 DEF OneAtATime
<1> QED  BY <1>2, <1>4, <1>5 DEF UInv, Uncrossed

\* A caller's step leaves the others where they are.
LEMMA Own ==
    ASSUME TypeOK, NEW c \in Caller, Step(c), NEW d \in Caller \ {c}
    PROVE  pc'[d] = pc[d] /\ job'[d] = job[d]
<1> USE DEF TypeOK
<1>1. CASE \E i \in Input, b \in Batches : Classify(c, i, b)
  BY <1>1 DEF Classify
<1>2. CASE Verify(c) \/ Unverified(c) \/ CountFailed(c) \/ Record(c)
  BY <1>2 DEF Verify, Unverified, CountFailed, Record, Proceed, Done, Ask
<1>3. CASE AskCommittee(c) \/ AskSystem(c)
  BY <1>3 DEF AskCommittee, AskSystem, Heard
<1>4. CASE Push(c) \/ Pop(c) \/ Timeout(c)
  BY <1>4 DEF Push, Pop, Timeout, Heard
<1>5. CASE \E case \in Exported : ApplyReview(c, case)
  BY <1>5 DEF ApplyReview
<1> QED  BY <1>1, <1>2, <1>3, <1>4, <1>5 DEF Step

\* Waits that have crossed stay so.
LEMMA StaysCrossed ==
    ASSUME [Next]_vars, crossed \in BOOLEAN, ~crossed'
    PROVE  ~crossed
<1>1. ASSUME NEW c \in Caller, Step(c) PROVE ~crossed
  <2>1. CASE Push(c) \/ Pop(c) \/ Timeout(c)
    BY <2>1 DEF Push, Pop, Timeout, past
  <2>2. CASE Verify(c) \/ Unverified(c) \/ CountFailed(c) \/ Record(c)
             \/ AskCommittee(c) \/ AskSystem(c)
    BY <2>2 DEF Verify, Unverified, CountFailed, Record, AskCommittee, AskSystem, past
  <2>3. CASE \E i \in Input, b \in Batches : Classify(c, i, b)
    BY <2>3 DEF Classify
  <2>4. CASE \E case \in Exported : ApplyReview(c, case)
    BY <2>4 DEF ApplyReview
  <2> QED  BY <1>1, <2>1, <2>2, <2>3, <2>4 DEF Step
<1>2. CASE Take \/ Answer \/ \E i \in Input : Drift(i)
  BY <1>2 DEF Take, Answer, Drift, past
<1>3. CASE UNCHANGED vars
  BY <1>3 DEF vars
<1> QED  BY <1>1, <1>2, <1>3 DEF Next

\* Of the steps that lead a caller to its row, with the reviewer's name on it,
\* only the honest answer to its own question leaves the waits uncrossed.
LEMMA RecordingNext ==
    ASSUME UInv, [Next]_vars, ~crossed'
    PROVE  Recording'
<1>1. ~crossed /\ Recording /\ OneAtATime /\ Honest
  BY StaysCrossed DEF UInv, Uncrossed, TypeOK
<1>2. CASE UNCHANGED vars \/ Take \/ Answer \/ \E i \in Input : Drift(i)
  BY <1>1, <1>2 DEF vars, Take, Answer, Drift, Recording
<1>3. ASSUME NEW c \in Caller, Step(c) PROVE Recording'
  <2>1. ASSUME NEW d \in Caller \ {c}, pc'[d] = "record", job'[d].by = "human"
        PROVE  job'[d].verdict \in {"unknown", Deserved(job'[d].case)}
    <3>1. pc'[d] = pc[d] /\ job'[d] = job[d]
      BY <1>3, Own DEF UInv
    <3> QED  BY <1>1, <2>1, <3>1 DEF Recording
  <2>2. ASSUME pc'[c] = "record", job'[c].by = "human"
        PROVE  job'[c].verdict \in {"unknown", Deserved(job'[c].case)}
    <3>1. CASE \E i \in Input, b \in Batches : Classify(c, i, b)
      BY <2>2, <3>1 DEF Classify, UInv, TypeOK
    <3>2. CASE Verify(c) \/ Unverified(c) \/ CountFailed(c) \/ Record(c)
      BY <2>2, <3>2 DEF Verify, Unverified, CountFailed, Record, Proceed, Done, Ask, UInv, TypeOK
    <3>3. CASE AskCommittee(c)
      <4>1. job'[c].by = job[c].by /\ job[c].by \in Committee
        BY <3>3 DEF AskCommittee, UInv, TypeOK, Job
      <4> QED  BY <2>2, <4>1 DEF Committee
    <3>4. CASE AskSystem(c)
      <4>1. job'[c].by = job[c].by /\ job[c].by \in {"webhook", "callable"}
        BY <3>4 DEF AskSystem, Heard, UInv, TypeOK, Job
      <4> QED  BY <2>2, <4>1
    <3>5. CASE Push(c)
      BY <2>2, <3>5 DEF Push, UInv, TypeOK
    <3>6. CASE Timeout(c)
      BY <3>6 DEF Timeout
    <3>7. CASE Pop(c)
      <4>1. verdicts \in Seq(Reply) /\ verdicts # <<>>
        BY <3>7 DEF Pop, UInv, TypeOK
      <4>2. 1 \in DOMAIN verdicts /\ Head(verdicts) = verdicts[1]
        BY <4>1
      <4>3. c \in Waiting
        BY <3>7 DEF Pop, Waiting
      <4>4. Head(verdicts).says \in {Deserved(job[c].case), "not a verdict"}
        BY <1>1, <4>2, <4>3 DEF OneAtATime, Honest
      <4>5. job'[c].verdict = (IF Head(verdicts).says \in Verdict THEN Head(verdicts).says
                                                               ELSE "unknown")
            /\ job'[c].case = job[c].case
        BY <3>7 DEF Pop, Heard, UInv, TypeOK, Job
      <4> QED  BY <4>4, <4>5, DeservedType DEF Verdict
    <3>8. CASE \E case \in Exported : ApplyReview(c, case)
      <4>1. job'[c].by = "review"
        BY <3>8 DEF ApplyReview, Idle, UInv, TypeOK
      <4> QED  BY <2>2, <4>1
    <3> QED  BY <1>3, <3>1, <3>2, <3>3, <3>4, <3>5, <3>6, <3>7, <3>8 DEF Step
  <2> QED  BY <2>1, <2>2 DEF Recording
<1> QED  BY <1>2, <1>3 DEF Next

\* A row tells of the reviewer what the case in hand deserved.
LEMMA MatchNext ==
    ASSUME UInv, [Next]_vars, ~crossed'
    PROVE  VerdictsMatchUntilCrossed'
<1> DEFINE Right(row) ==
      row.source = "human" =>
        row.outcome \in {"unknown", Deserved([input |-> row.input, label |-> row.label])}
<1>1. ~crossed /\ Recording
  BY StaysCrossed DEF UInv, Uncrossed, TypeOK
<1>2. \A n \in DOMAIN log : Right(log[n])
  BY <1>1 DEF UInv, VerdictsMatchUntilCrossed
<1>3. ASSUME NEW row \in LogRow, log' = Append(log, row), Right(row)
      PROVE  VerdictsMatchUntilCrossed'
  <2>1. log \in Seq(LogRow)
    BY DEF UInv, TypeOK
  <2>2. \A n \in DOMAIN log' : Right(log'[n])
    BY <1>2, <1>3, <2>1, Grown
  <2> QED  BY <2>2 DEF VerdictsMatchUntilCrossed
<1>4. ASSUME log' = log PROVE VerdictsMatchUntilCrossed'
  BY <1>2, <1>4 DEF VerdictsMatchUntilCrossed
<1>5. ASSUME NEW c \in Caller, Unverified(c) PROVE VerdictsMatchUntilCrossed'
  <2>1. job[c].case \in Case
    BY <1>5 DEF Unverified, UInv, TypeOK
  <2>2. Row(job[c].case, "unknown", "auto") \in LogRow
    BY <2>1 DEF Row, LogRow, Case, Verdict
  <2>3. Right(Row(job[c].case, "unknown", "auto"))
    BY DEF Row
  <2> QED  BY <1>3, <1>5, <2>2, <2>3 DEF Unverified
<1>6. ASSUME NEW c \in Caller, Record(c) PROVE VerdictsMatchUntilCrossed'
  <2>1. job[c].case \in Case /\ job[c].verdict \in Verdict /\ job[c].by \in Source \cup {"review"}
    BY <1>6 DEF Record, UInv, TypeOK, Job
  <2> DEFINE row == Row(job[c].case, job[c].verdict, job[c].by)
  <2>2. row \in LogRow
    BY <2>1 DEF Row, LogRow, Case
  <2>3. Right(row)
    <3>1. job[c].by = "human" => job[c].verdict \in {"unknown", Deserved(job[c].case)}
      BY <1>1, <1>6 DEF Record, Recording
    <3>2. Deserved([input |-> row.input, label |-> row.label]) = Deserved(job[c].case)
      BY DEF Row, Deserved
    <3> QED  BY <3>1, <3>2 DEF Row
  <2> QED  BY <1>3, <1>6, <2>2, <2>3 DEF Record
<1>7. CASE \E c \in Caller : \/ \E i \in Input, b \in Batches : Classify(c, i, b)
                             \/ Verify(c) \/ CountFailed(c) \/ AskCommittee(c) \/ AskSystem(c)
                             \/ Push(c) \/ Pop(c) \/ Timeout(c)
                             \/ \E case \in Exported : ApplyReview(c, case)
  <2>1. log' = log
    BY <1>7 DEF Classify, Verify, CountFailed, AskCommittee, AskSystem, Push, Pop, Timeout,
                ApplyReview
  <2> QED  BY <1>4, <2>1
<1>8. CASE UNCHANGED vars \/ Take \/ Answer \/ \E i \in Input : Drift(i)
  BY <1>4, <1>8 DEF vars, Take, Answer, Drift
<1> QED  BY <1>5, <1>6, <1>7, <1>8 DEF Next, Step

LEMMA UncrossedNext == UInv /\ [Next]_vars => UInv'
<1> SUFFICES ASSUME UInv, [Next]_vars PROVE UInv'  OBVIOUS
<1>1. TypeOK' /\ SkewIsForever'
  BY TypeNext, SkewNext DEF UInv
<1>2. Honest' /\ (~crossed' => OneAtATime')
  <2>1. ASSUME NEW c \in Caller, Step(c) PROVE Honest' /\ (~crossed' => OneAtATime')
    <3>1. CASE Push(c)
      BY <3>1, PushUncrossed
    <3>2. CASE Pop(c)
      BY <3>2, PopUncrossed
    <3>3. CASE Timeout(c)
      BY <3>3 DEF Timeout, human, UInv, Uncrossed, Honest
    <3> QED  BY <2>1, <3>1, <3>2, <3>3, Asides, AsideUncrossed DEF Step, UInv
  <2>2. CASE Take \/ Answer
    BY <2>2, TakeUncrossed, AnswerUncrossed
  <2>3. CASE UNCHANGED vars \/ \E i \in Input : Drift(i)
    <3>1. Aside
      BY <2>3 DEF vars, Drift, human, past, Aside, Waiting
    <3> QED  BY <3>1, AsideUncrossed
  <2> QED  BY <2>1, <2>2, <2>3 DEF Next
<1>3. ~crossed' => Recording' /\ VerdictsMatchUntilCrossed'
  BY RecordingNext, MatchNext
<1>4. VerdictsMatchUntilCrossed'
  BY <1>3 DEF VerdictsMatchUntilCrossed
<1> QED  BY <1>1, <1>2, <1>3, <1>4 DEF UInv, Uncrossed

\* Until two callers wait for the reviewer at once or a wait times out, every
\* verdict on record as the reviewer's is the one its case deserved.
THEOREM MatchUntilCrossed == Spec => []VerdictsMatchUntilCrossed
<1>1. Init => UInv
  <2> SUFFICES ASSUME Init PROVE UInv  OBVIOUS
  <2>1. Waiting = {}
    BY DEF Init, Waiting
  <2>2. SkewIsForever
    BY <2>1, FS_EmptySet DEF Init, SkewIsForever
  <2>3. Honest /\ OneAtATime /\ VerdictsMatchUntilCrossed
    BY <2>1 DEF Init, Honest, OneAtATime, VerdictsMatchUntilCrossed
  <2>4. Recording
    BY DEF Init, Recording
  <2> QED  BY TypeInit, <2>2, <2>3, <2>4 DEF UInv, Uncrossed
<1>2. UInv => VerdictsMatchUntilCrossed
  BY DEF UInv
<1> QED  BY <1>1, <1>2, UncrossedNext, PTL DEF Spec

-----------------------------------------------------------------------------
\* A caller about to record a committee's verdict holds the ballots it was
\* made of.
Counted ==
    \A c \in Caller :
        pc[c] = "record" /\ job[c].by \in Committee =>
            /\ job[c].ballots \in [1..Judges -> Verdict]
            /\ job[c].verdict = Aggregate(job[c].by, job[c].ballots)

\* Only the reviewer is waited for.
WaitsForHuman == \A c \in Waiting : job[c].by = "human"

LEMMA WaitsNext == TypeOK /\ WaitsForHuman /\ [Next]_vars => WaitsForHuman'
<1> SUFFICES ASSUME TypeOK, WaitsForHuman, [Next]_vars PROVE WaitsForHuman'  OBVIOUS
<1>1. CASE UNCHANGED vars \/ Take \/ Answer \/ \E i \in Input : Drift(i)
  BY <1>1 DEF vars, Take, Answer, Drift, Waiting, WaitsForHuman
<1>2. ASSUME NEW c \in Caller, Step(c) PROVE WaitsForHuman'
  <2>1. CASE Push(c)
    <3>1. job[c].by = "human" /\ job' = job
      BY <2>1 DEF Push
    <3> QED  BY <2>1, <3>1, Joins DEF WaitsForHuman
  <2>2. CASE Pop(c) \/ Timeout(c)
    BY <2>2, Leaves DEF WaitsForHuman
  <2>3. CASE Aside
    BY <2>3 DEF Aside, WaitsForHuman
  <2> QED  BY <1>2, <2>1, <2>2, <2>3, Asides DEF Step
<1> QED  BY <1>1, <1>2 DEF Next

LEMMA CountedNext == TypeOK /\ WaitsForHuman /\ Counted /\ [Next]_vars => Counted'
<1> SUFFICES ASSUME TypeOK, WaitsForHuman, Counted, [Next]_vars PROVE Counted'  OBVIOUS
<1>1. CASE UNCHANGED vars \/ Take \/ Answer \/ \E i \in Input : Drift(i)
  BY <1>1 DEF vars, Take, Answer, Drift, Counted
<1>2. ASSUME NEW c \in Caller, Step(c) PROVE Counted'
  <2>1. ASSUME NEW d \in Caller \ {c}, pc'[d] = "record", job'[d].by \in Committee
        PROVE  /\ job'[d].ballots \in [1..Judges -> Verdict]
               /\ job'[d].verdict = Aggregate(job'[d].by, job'[d].ballots)
    <3>1. pc'[d] = pc[d] /\ job'[d] = job[d]
      BY <1>2, Own
    <3> QED  BY <2>1, <3>1 DEF Counted
  <2>2. ASSUME pc'[c] = "record", job'[c].by \in Committee
        PROVE  /\ job'[c].ballots \in [1..Judges -> Verdict]
               /\ job'[c].verdict = Aggregate(job'[c].by, job'[c].ballots)
    <3>1. CASE AskCommittee(c)
      <4>1. PICK b \in Polls(job[c].case) :
              job' = [job EXCEPT ![c].ballots = b, ![c].verdict = Aggregate(job[c].by, b)]
        BY <3>1 DEF AskCommittee
      <4>2. /\ job'[c].by = job[c].by /\ job'[c].ballots = b
            /\ job'[c].verdict = Aggregate(job[c].by, b)
        BY <4>1 DEF TypeOK, Job
      <4>3. b \in [1..Judges -> Verdict]
        BY DEF Polls
      <4> QED  BY <4>2, <4>3
    <3>2. CASE \E i \in Input, b \in Batches : Classify(c, i, b)
      BY <2>2, <3>2 DEF Classify, TypeOK
    <3>3. CASE Verify(c) \/ Unverified(c) \/ CountFailed(c) \/ Record(c)
      BY <2>2, <3>3 DEF Verify, Unverified, CountFailed, Record, Proceed, Done, Ask, TypeOK
    <3>4. CASE AskSystem(c)
      <4>1. job'[c].by = job[c].by /\ job[c].by \in {"webhook", "callable"}
        BY <3>4 DEF AskSystem, Heard, TypeOK, Job
      <4> QED  BY <2>2, <4>1 DEF Committee
    <3>5. CASE Push(c)
      BY <2>2, <3>5 DEF Push, TypeOK
    <3>6. CASE Pop(c) \/ Timeout(c)
      <4>1. c \in Waiting
        BY <3>6, Leaves
      <4>2. job'[c].by = job[c].by /\ job'[c].ballots = job[c].ballots
        BY <3>6 DEF Pop, Timeout, Heard, TypeOK, Job
      <4>3. job[c].by = "human"
        BY <4>1 DEF WaitsForHuman
      <4> QED  BY <2>2, <4>2, <4>3 DEF Committee
    <3>7. CASE \E case \in Exported : ApplyReview(c, case)
      <4>1. job'[c].by = "review"
        BY <3>7 DEF ApplyReview, Idle, TypeOK
      <4> QED  BY <2>2, <4>1 DEF Committee
    <3> QED  BY <1>2, <3>1, <3>2, <3>3, <3>4, <3>5, <3>6, <3>7 DEF Step
  <2> QED  BY <2>1, <2>2 DEF Counted
<1> QED  BY <1>1, <1>2 DEF Next

\* Ballots that aggregate to a wrong verdict outnumber the right ones, and are
\* all there are when the committee must be unanimous.
LEMMA WrongVerdict ==
    ASSUME NEW mode \in Committee, NEW b \in [1..Judges -> Verdict],
           NEW right \in {"correct", "incorrect"}, Aggregate(mode, b) = Opposite(right)
    PROVE  /\ Votes(b, Opposite(right)) > Votes(b, right)
           /\ mode = "unanimous" => Votes(b, Opposite(right)) = Judges
<1>1. Opposite(right) \in {"correct", "incorrect"} \ {right}
  BY DEF Opposite
<1>2. CASE mode # "unanimous"
  <2>1. Majority(b) = Opposite(right)
    BY <1>2 DEF Aggregate
  <2> QED  BY <1>1, <1>2, <2>1 DEF Majority
<1>3. CASE mode = "unanimous"
  <2>1. Judges \in Nat /\ Judges > 0
    BY SourcesAssumption DEF SourcesAssumption
  <2>2. \A n \in 1..Judges : b[n] = Opposite(right)
    BY <1>1, <1>3, <2>1 DEF Aggregate, Unanimous
  <2>3. {n \in DOMAIN b : b[n] = Opposite(right)} = 1..Judges
        /\ {n \in DOMAIN b : b[n] = right} = {}
    BY <1>1, <2>2
  <2>4. Cardinality(1..Judges) = Judges
    BY <2>1, FS_Interval
  <2>5. Votes(b, Opposite(right)) = Judges /\ Votes(b, right) = 0
    BY <2>3, <2>4, FS_EmptySet DEF Votes
  <2> QED  BY <2>1, <2>5
<1> QED  BY <1>2, <1>3

\* For every committee and every set of liars: it takes more wrong ballots
\* than right ones to record a wrong verdict, whoever abstains.
THEOREM CommitteeNeedsMajority == Spec => []MinorityNeverRules
<1>1. Init => Counted /\ WaitsForHuman
  BY DEF Init, Counted, Waiting, WaitsForHuman
<1>2. TypeOK /\ Counted => MinorityNeverRules
  <2> SUFFICES ASSUME TypeOK, Counted, NEW c \in Caller,
                      pc[c] = "record", job[c].by \in Committee,
                      job[c].verdict = Opposite(Deserved(job[c].case))
               PROVE  LET wrong == Votes(job[c].ballots, job[c].verdict)
                      IN /\ wrong > Votes(job[c].ballots, Deserved(job[c].case))
                         /\ job[c].by = "unanimous" => wrong = Judges
    BY DEF MinorityNeverRules
  <2>1. Deserved(job[c].case) \in {"correct", "incorrect"}
    BY DEF Deserved
  <2>2. /\ job[c].ballots \in [1..Judges -> Verdict]
        /\ Aggregate(job[c].by, job[c].ballots) = Opposite(Deserved(job[c].case))
    BY DEF Counted
  <2> QED  BY <2>1, <2>2, WrongVerdict
<1> QED  BY <1>1, <1>2, CountedNext, WaitsNext, TypeCorrect, PTL DEF Spec

-----------------------------------------------------------------------------
(***************************************************************************)
(* The review loop.                                                        *)
(***************************************************************************)
\* The rows hold UNKNOWN outcomes of the input under two labels.
TwoLabels(rows, i) ==
    \E m, k \in DOMAIN rows :
        /\ rows[m].outcome = "unknown" /\ rows[m].input = i
        /\ rows[k].outcome = "unknown" /\ rows[k].input = i
        /\ rows[m].label # rows[k].label

\* What a review says of a case: the truth, or it had two labels to choose from.
Fair(rows, case, verdict) == verdict = Deserved(case) \/ TwoLabels(rows, case.input)
CaseOf(row) == [input |-> row.input, label |-> row.label]

\* So speak the caller about to record a review, and the rows reviews made.
Foretold ==
    \A c \in Caller :
        pc[c] = "record" /\ job[c].by = "review" => Fair(log, job[c].case, job[c].verdict)
Reviews ==
    \A n \in DOMAIN log :
        log[n].source = "review" => Fair(log, CaseOf(log[n]), log[n].outcome)

\* What the log held it holds after one more row.
LEMMA FairStays ==
    ASSUME NEW S, NEW rows \in Seq(S), NEW row \in S, NEW case, NEW v, Fair(rows, case, v)
    PROVE  Fair(Append(rows, row), case, v)
<1>1. \A n \in DOMAIN rows : n \in DOMAIN Append(rows, row) /\ Append(rows, row)[n] = rows[n]
  OBVIOUS
<1>2. CASE v = Deserved(case)
  BY <1>2 DEF Fair
<1>3. CASE TwoLabels(rows, case.input)
  <2>1. PICK m, k \in DOMAIN rows :
          /\ rows[m].outcome = "unknown" /\ rows[m].input = case.input
          /\ rows[k].outcome = "unknown" /\ rows[k].input = case.input
          /\ rows[m].label # rows[k].label
    BY <1>3 DEF TwoLabels
  <2> HIDE DEF Fair
  <2> DEFINE new == Append(rows, row)
  <2>2. /\ m \in DOMAIN new /\ new[m] = rows[m]
        /\ k \in DOMAIN new /\ new[k] = rows[k]
    BY <1>1, <2>1
  <2> HIDE DEF new
  <2>3. TwoLabels(new, case.input)
    BY <2>1, <2>2 DEF TwoLabels
  <2> QED  BY <2>3 DEF Fair, new
<1> QED  BY <1>2, <1>3 DEF Fair

\* A review of a case the log still holds with its label alone is about the row
\* it finds.
LEMMA ReviewFinds ==
    ASSUME TypeOK, NEW c \in Caller, NEW case \in Exported, ApplyReview(c, case)
    PROVE  Fair(log, job'[c].case, job'[c].verdict) /\ log' = log
<1>1. \E n \in Reviewed(case.input) :
        job' = [job EXCEPT ![c] =
          [Idle EXCEPT !.case = [input |-> case.input, label |-> log[n].label],
                       !.by = "review", !.stage = "review", !.verdict = Deserved(case)]]
  BY Zenon DEF ApplyReview
<1>2. PICK n \in Reviewed(case.input) :
        job' = [job EXCEPT ![c] =
          [Idle EXCEPT !.case = [input |-> case.input, label |-> log[n].label],
                       !.by = "review", !.stage = "review", !.verdict = Deserved(case)]]
  BY <1>1, Zenon
<1>3. /\ job'[c].verdict = Deserved(case)
      /\ job'[c].case = [input |-> case.input, label |-> log[n].label]
  BY <1>2 DEF Idle, TypeOK
<1>4. PICK m \in DOMAIN log : /\ log[m].outcome = "unknown"
                              /\ case = [input |-> log[m].input, label |-> log[m].label]
  BY DEF Exported
<1>5. /\ n \in DOMAIN log /\ log[n].outcome = "unknown" /\ log[n].input = case.input
      /\ case.label = log[m].label /\ case.input = log[m].input
  BY <1>4 DEF Unknowns, Reviewed
<1>6. CASE log[n].label = case.label
  <2>1. job'[c].case.label = case.label /\ job'[c].case.input = case.input
    BY <1>3, <1>6
  <2> QED  BY <1>3, <2>1 DEF Deserved, Fair, ApplyReview
<1>7. CASE log[n].label # case.label
  <2>1. TwoLabels(log, case.input)
    BY <1>4, <1>5, <1>7 DEF TwoLabels
  <2> QED  BY <1>3, <2>1 DEF Fair, ApplyReview
<1> QED  BY <1>6, <1>7

\* A caller's step leaves the log alone or adds a row, fair when it is a review's.
LEMMA RowsAreFair ==
    ASSUME TypeOK, Foretold, NEW c \in Caller, Step(c)
    PROVE  \/ log' = log
           \/ \E row \in LogRow :
                /\ log' = Append(log, row)
                /\ row.source = "review" => Fair(log, CaseOf(row), row.outcome)
<1>1. CASE Unverified(c)
  <2> DEFINE row == Row(job[c].case, "unknown", "auto")
  <2>1. log' = Append(log, row) /\ row.source # "review"
    BY <1>1 DEF Unverified, Row
  <2>2. job[c].case \in Case
    BY <1>1 DEF Unverified, TypeOK
  <2>3. row \in LogRow
    BY <2>2 DEF Row, LogRow, Case, Verdict
  <2> QED  BY <2>1, <2>3
<1>2. CASE Record(c)
  <2> DEFINE row == Row(job[c].case, job[c].verdict, job[c].by)
  <2>1. log' = Append(log, row) /\ pc[c] = "record"
    BY <1>2 DEF Record
  <2>2. job[c].case \in Case /\ job[c].verdict \in Verdict /\ job[c].by \in Source \cup {"review"}
    BY <2>1 DEF TypeOK, Job
  <2>3. row \in LogRow
    BY <2>2 DEF Row, LogRow, Case
  <2>4. /\ row.source = job[c].by /\ row.outcome = job[c].verdict
        /\ CaseOf(row) = job[c].case
    BY <2>2 DEF Row, CaseOf, Case
  <2> HIDE DEF row
  <2>5. row.source = "review" => Fair(log, CaseOf(row), row.outcome)
    BY <2>1, <2>4 DEF Foretold
  <2> QED  BY <2>1, <2>3, <2>5
<1>3. CASE \E i \in Input, b \in Batches : Classify(c, i, b)
  BY <1>3 DEF Classify
<1>4. CASE Verify(c) \/ CountFailed(c)
  BY <1>4 DEF Verify, CountFailed
<1>5. CASE AskCommittee(c)
  BY <1>5 DEF AskCommittee
<1>6. CASE AskSystem(c)
  BY <1>6 DEF AskSystem
<1>7. CASE Push(c) \/ Pop(c) \/ Timeout(c)
  BY <1>7 DEF Push, Pop, Timeout, human
<1>8. CASE \E case \in Exported : ApplyReview(c, case)
  BY <1>8 DEF ApplyReview
<1> QED  BY <1>1, <1>2, <1>3, <1>4, <1>5, <1>6, <1>7, <1>8 DEF Step

LEMMA ReviewNext ==
    TypeOK /\ WaitsForHuman /\ Foretold /\ Reviews /\ [Next]_vars => Foretold' /\ Reviews'
<1> SUFFICES ASSUME TypeOK, WaitsForHuman, Foretold, Reviews, [Next]_vars
             PROVE  Foretold' /\ Reviews'
  OBVIOUS
<1>l. log \in Seq(LogRow)
  BY DEF TypeOK
<1>1. CASE UNCHANGED vars \/ Take \/ Answer \/ \E i \in Input : Drift(i)
  <2>1. CASE UNCHANGED vars
    BY <2>1 DEF vars, Foretold, Reviews
  <2>2. CASE Take \/ Answer
    <3>1. log' = log
      BY <2>2, Zenon DEF Take, Answer
    <3>2. pc' = pc
      BY <2>2, Zenon DEF Take, Answer
    <3>3. job' = job
      BY <2>2, Zenon DEF Take, Answer
    <3> QED  BY <3>1, <3>2, <3>3 DEF Foretold, Reviews
  <2>3. CASE \E i \in Input : Drift(i)
    BY <2>3 DEF Drift, Foretold, Reviews
  <2> QED  BY <1>1, <2>1, <2>2, <2>3
<1>2. ASSUME NEW c \in Caller, Step(c) PROVE Foretold' /\ Reviews'
  <2>1. \/ log' = log
        \/ \E row \in LogRow :
             /\ log' = Append(log, row)
             /\ row.source = "review" => Fair(log, CaseOf(row), row.outcome)
    BY <1>2, RowsAreFair
  <2>2. \A case, v : Fair(log, case, v) => Fair(log', case, v)
    <3>1. CASE log' = log
      BY <3>1
    <3>2. CASE \E row \in LogRow : log' = Append(log, row)
      BY <1>l, <3>2, FairStays
    <3> QED  BY <2>1, <3>1, <3>2
  <2>3. Reviews'
    <3>1. CASE log' = log
      BY <3>1 DEF Reviews
    <3>2. CASE log' # log
      <4>1. PICK row \in LogRow :
              /\ log' = Append(log, row)
              /\ row.source = "review" => Fair(log, CaseOf(row), row.outcome)
        BY <2>1, <3>2
      <4>2. ASSUME NEW n \in DOMAIN log', log'[n].source = "review"
            PROVE  Fair(log', CaseOf(log'[n]), log'[n].outcome)
        <5>1. log'[n] = row \/ (n \in DOMAIN log /\ log'[n] = log[n])
          BY <1>l, <4>1, Grown
        <5>2. Fair(log, CaseOf(log'[n]), log'[n].outcome)
          BY <4>1, <4>2, <5>1 DEF Reviews
        <5> QED  BY <2>2, <5>2
      <4> QED  BY <4>2 DEF Reviews
    <3> QED  BY <3>1, <3>2
  <2>4. ASSUME NEW d \in Caller, pc'[d] = "record", job'[d].by = "review"
        PROVE  Fair(log', job'[d].case, job'[d].verdict)
    <3>1. CASE d # c
      <4>1. pc'[d] = pc[d] /\ job'[d] = job[d]
        BY <1>2, <3>1, Own
      <4>2. Fair(log, job'[d].case, job'[d].verdict)
        BY <2>4, <4>1 DEF Foretold
      <4> QED  BY <2>2, <4>2
    <3>2. CASE d = c
      <4>1. CASE \E case \in Exported : ApplyReview(c, case)
        BY <3>2, <4>1, ReviewFinds
      <4>2. CASE \E i \in Input, b \in Batches : Classify(c, i, b)
        BY <2>4, <3>2, <4>2 DEF Classify, TypeOK
      <4>3. CASE Verify(c) \/ Unverified(c) \/ CountFailed(c) \/ Record(c)
        BY <2>4, <3>2, <4>3 DEF Verify, Unverified, CountFailed, Record, Proceed, Done, Ask, TypeOK
      <4>4. CASE AskCommittee(c)
        <5>1. PICK b \in Polls(job[c].case) :
                job' = [job EXCEPT ![c].ballots = b, ![c].verdict = Aggregate(job[c].by, b)]
          BY <4>4 DEF AskCommittee
        <5>2. job'[c].by = job[c].by /\ job[c].by \in Committee
          BY <4>4, <5>1 DEF AskCommittee, TypeOK, Job
        <5> QED  BY <2>4, <3>2, <5>2 DEF Committee
      <4>5. CASE AskSystem(c)
        <5>1. job'[c].by = job[c].by /\ job[c].by \in {"webhook", "callable"}
          BY <4>5 DEF AskSystem, Heard, TypeOK, Job
        <5> QED  BY <2>4, <3>2, <5>1
      <4>6. CASE Push(c)
        BY <2>4, <3>2, <4>6 DEF Push, TypeOK
      <4>7. CASE Pop(c) \/ Timeout(c)
        <5>1. c \in Waiting
          BY <4>7, Leaves
        <5>2. job'[c].by = job[c].by
          BY <4>7 DEF Pop, Timeout, Heard, TypeOK, Job
        <5> QED  BY <2>4, <3>2, <5>1, <5>2 DEF WaitsForHuman
      <4> QED  BY <1>2, <4>1, <4>2, <4>3, <4>4, <4>5, <4>6, <4>7 DEF Step
    <3> QED  BY <3>1, <3>2
  <2> QED  BY <2>3, <2>4 DEF Foretold
<1> QED  BY <1>1, <1>2 DEF Next

\* The labels of a log are finitely many, so two of them count as more than one.
LEMMA TwoAreMany ==
    ASSUME TypeOK, NEW i, TwoLabels(log, i)
    PROVE  Cardinality({log[m].label : m \in Unknowns(i)}) > 1
<1> DEFINE U == Unknowns(i)
           L == {log[m].label : m \in U}
<1>1. IsFiniteSet(DOMAIN log)
  <2>1. DOMAIN log = 1..Len(log) /\ Len(log) \in Nat
    BY DEF TypeOK
  <2> QED  BY <2>1, FS_Interval
<1>2. IsFiniteSet(U)
  BY <1>1, FS_Subset DEF Unknowns
<1>3. PICK x \in L, y \in L : x # y
  BY DEF TwoLabels, Unknowns
<1> HIDE DEF U
<1>4. IsFiniteSet(L)
  <2> DEFINE f == [m \in U |-> log[m].label]
  <2>1. f \in Surjection(U, L)
    BY DEF Surjection
  <2> HIDE DEF L, f
  <2> QED  BY <1>2, <2>1, FS_Surjection
<1> HIDE DEF L
<1>5. {x, y} \subseteq L /\ IsFiniteSet({x, y}) /\ Cardinality({x, y}) = 2
  <2>1. IsFiniteSet({x}) /\ Cardinality({x}) = 1 /\ y \notin {x}
    BY <1>3, FS_Singleton
  <2>2. IsFiniteSet({x} \cup {y}) /\ Cardinality({x} \cup {y}) = 2
    BY <2>1, FS_AddElement
  <2>3. {x} \cup {y} = {x, y}
    OBVIOUS
  <2> QED  BY <1>3, <2>2, <2>3
<1>6. Cardinality({x, y}) <= Cardinality(L) /\ Cardinality(L) \in Nat
  BY <1>4, <1>5, FS_Subset, FS_CardinalityType
<1>7. Cardinality(L) > 1
  BY <1>5, <1>6
<1> QED  BY <1>7 DEF L, U

\* Whoever drifts, reviews and records meanwhile: a committee's verdict is its
\* majority's, and a review is recorded for the label it judged, unless the log
\* holds UNKNOWN rows of the input with two labels.
THEOREM Earned == Spec => []VerdictsAreEarned
<1>1. Init => Foretold /\ Reviews /\ WaitsForHuman
  BY DEF Init, Foretold, Reviews, Waiting, WaitsForHuman
<1>2. TypeOK /\ Reviews => ReviewHitsItsLabel
  BY TwoAreMany DEF Reviews, ReviewHitsItsLabel, Fair, CaseOf
<1>3. Spec => []ReviewHitsItsLabel
  BY <1>1, <1>2, ReviewNext, WaitsNext, TypeCorrect, PTL DEF Spec
<1>4. MinorityNeverRules /\ ReviewHitsItsLabel => VerdictsAreEarned
  BY DEF VerdictsAreEarned
<1> QED  BY <1>3, <1>4, CommitteeNeedsMajority, PTL
=============================================================================
