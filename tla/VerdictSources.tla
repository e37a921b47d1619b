--------------------------- MODULE VerdictSources ---------------------------
(***************************************************************************)
(* Where the verdicts in a switch's outcome log come from                  *)
(* (src/postrule/verdicts.py and its callers in core.py): a reviewer       *)
(* behind two queues, a committee of language-model judges, an external    *)
(* system asked over HTTP, a user's callable; asked inline by a configured *)
(* verifier, by a batch over a source, or later through export_for_review  *)
(* and apply_reviews.                                                      *)
(*                                                                         *)
(* A case is an input with the label it was given.  The verdict a case     *)
(* deserves is fixed by Truth, so that a row of the log can be judged.     *)
(* Callers are threads; a coroutine is one too, because the only thing     *)
(* that happens between its awaits is what happens between a thread's      *)
(* steps.  The reviewer, the judges and the external system are code       *)
(* outside the repository: the reviewer answers the cases in the order     *)
(* they were queued and honestly, or says nothing useful.                  *)
(***************************************************************************)
EXTENDS Naturals, FiniteSets, Sequences

CONSTANTS
  Caller,      \* threads or coroutines using the switch
  Input,       \* inputs
  Label,       \* the labels they may be given
  Truth,       \* Truth[i]: the right label of input i
  Judges,      \* number of judges on the committee
  Liar,        \* the judges, by number, that may answer wrongly
  Verifiers,   \* the values of config.verifier considered
  Batches,     \* the sources batches are run over, and NoSource: a lone call
  NoSource,    \* stands for no source
  MaxCalls,    \* bound: calls of classify and inputs of batches; one review more
  MaxDrift     \* bound: inputs the switch starts to decide differently

\* The two committees differ in how they aggregate: JudgeCommittee's mode.
Committee == {"majority", "unanimous"}
Source == Committee \cup {"human", "webhook", "callable"}
Verdict == {"correct", "incorrect", "unknown"}
Case == [input : Input, label : Label]
Nothing == [input |-> "none", label |-> "none"]

ASSUME SourcesAssumption ==
  /\ IsFiniteSet(Caller) /\ Truth \in [Input -> Label]
  /\ Judges \in Nat \ {0, 1} /\ Liar \subseteq 1..Judges
  /\ MaxCalls \in Nat /\ MaxDrift \in Nat
  /\ NoSource \notin Source \cup {"review"} /\ Verifiers \cup Batches \subseteq Source \cup {NoSource}
  /\ Nothing \notin Case

VARIABLES
  verifier,    \* config.verifier
  decides,     \* what the switch now decides on each input
  drifted,     \* how often that changed
  log,         \* the outcome log
  pending,     \* HumanReviewerSource._pending
  reviewing,   \* the case the reviewer has in hand
  verdicts,    \* HumanReviewerSource._verdicts, with the case each is about
  pc, job,     \* per caller: where it is, and what it is doing
  calls,       \* calls begun
  late,        \* history: waits for the reviewer that timed out
  crossed      \* history: two callers waited at once, or one timed out

vars == <<verifier, decides, drifted, log, pending, reviewing, verdicts,
          pc, job, calls, late, crossed>>
human == <<pending, reviewing, verdicts>>
switch == <<verifier, decides, drifted>>
past == <<calls, late, crossed>>

Deserved(case) == IF case.label = Truth[case.input] THEN "correct" ELSE "incorrect"
Opposite(v) == IF v = "correct" THEN "incorrect" ELSE "correct"

-----------------------------------------------------------------------------
(***************************************************************************)
(* The committee.  Its judges are asked in order, or together and gathered *)
(* in the order of the committee; an outage is an UNKNOWN ballot.          *)
(***************************************************************************)

\* What judge n may answer: an honest one what the case deserves, any of
\* them nothing useful (an outage, a label that is none of the three).
Ballots(n, case) ==
  {Deserved(case), "unknown"} \cup
  (IF n \in Liar THEN {Opposite(Deserved(case))} ELSE {})

Polls(case) ==
  {b \in [1..Judges -> Verdict] : \A n \in 1..Judges : b[n] \in Ballots(n, case)}

Votes(ballots, v) == Cardinality({n \in DOMAIN ballots : ballots[n] = v})

Unanimous(ballots) ==
  IF \A n \in DOMAIN ballots : ballots[n] = ballots[1] THEN ballots[1] ELSE "unknown"

\* Mutant: a tie goes to the verdict counted first.
MajorityFirstWinner(ballots) ==
  CASE Votes(ballots, "correct") > Votes(ballots, "incorrect") -> "correct"
    [] Votes(ballots, "correct") < Votes(ballots, "incorrect") -> "incorrect"
    [] OTHER -> ballots[1]

\* UNKNOWN is no contender; a tie of the contenders is UNKNOWN.
Majority(ballots) ==
  CASE Votes(ballots, "correct") > Votes(ballots, "incorrect") -> "correct"
    [] Votes(ballots, "correct") < Votes(ballots, "incorrect") -> "incorrect"
    [] OTHER -> "unknown"

Aggregate(mode, ballots) ==
  IF mode = "unanimous" THEN Unanimous(ballots) ELSE Majority(ballots)

-----------------------------------------------------------------------------
Idle == [case |-> Nothing, by |-> NoSource, batch |-> NoSource,
         stage |-> "inline", verdict |-> "unknown", ballots |-> <<>>]

Init ==
  /\ verifier \in Verifiers
  /\ decides \in [Input -> Label]
  /\ drifted = 0
  /\ log = <<>>
  /\ pending = <<>> /\ reviewing = Nothing /\ verdicts = <<>>
  /\ pc = [c \in Caller |-> "idle"]
  /\ job = [c \in Caller |-> Idle]
  /\ calls = 0 /\ late = 0 /\ crossed = FALSE

Waiting == {c \in Caller : pc[c] = "waiting"}

Row(case, outcome, source) ==
  [input |-> case.input, label |-> case.label, outcome |-> outcome, source |-> source]

\* Caller c goes on to ask source s, on behalf of the call or of its batch.
Ask(c, s, stage) ==
  /\ pc' = [pc EXCEPT ![c] = "ask"]
  /\ job' = [job EXCEPT ![c].by = s, ![c].stage = stage]

Done(c) == pc' = [pc EXCEPT ![c] = "idle"] /\ job' = [job EXCEPT ![c] = Idle]

\* What follows the inline part of a call: its batch asks its own source
\* about the label, a lone call is over.
Proceed(c) ==
  IF job[c].batch = NoSource THEN Done(c) ELSE Ask(c, job[c].batch, "batch")

-----------------------------------------------------------------------------
(***************************************************************************)
(* The callers.                                                            *)
(***************************************************************************)

\* classify(i), alone (batch = NoSource) or as one step of a batch over a
\* source.  The decision is taken here; everything below is about it.
Classify(c, i, batch) ==
  /\ pc[c] = "idle" /\ calls < MaxCalls
  /\ calls' = calls + 1
  /\ pc' = [pc EXCEPT ![c] = "classified"]
  /\ job' = [job EXCEPT ![c] =
              [Idle EXCEPT !.case = [input |-> i, label |-> decides[i]],
                           !.batch = batch]]
  /\ UNCHANGED <<switch, log, human, late, crossed>>

\* _maybe_run_verifier: the configured verifier is asked about this call.
Verify(c) ==
  /\ pc[c] = "classified" /\ verifier # NoSource
  /\ Ask(c, verifier, "inline")
  /\ UNCHANGED <<switch, log, human, past>>

\* No verifier, or not sampled, or it raised: the call is logged UNKNOWN.
Unverified(c) ==
  /\ pc[c] = "classified" \/ (pc[c] = "raised" /\ job[c].stage = "inline")
  /\ log' = Append(log, Row(job[c].case, "unknown", "auto"))
  /\ Proceed(c)
  /\ UNCHANGED <<switch, human, past>>

\* A batch counts the input failed when its source raised, and goes on.
CountFailed(c) ==
  /\ pc[c] = "raised" /\ job[c].stage = "batch"
  /\ Done(c)
  /\ UNCHANGED <<switch, log, human, past>>

\* Mutant: the row carries what the switch decides when the verdict arrives.
RecordRedecided(c) ==
  /\ pc[c] = "record"
  /\ log' = Append(log, Row([job[c].case EXCEPT !.label = decides[job[c].case.input]], job[c].verdict, job[c].by))
  /\ IF job[c].stage = "inline" THEN Proceed(c) ELSE Done(c)
  /\ UNCHANGED <<switch, human, past>>

\* record_verdict.  An inline verdict does not spare the batch its own: the
\* log then holds two verdicts on the case.
Record(c) ==
  /\ pc[c] = "record"
  /\ log' = Append(log, Row(job[c].case, job[c].verdict, job[c].by))
  /\ IF job[c].stage = "inline" THEN Proceed(c) ELSE Done(c)
  /\ UNCHANGED <<switch, human, past>>

-----------------------------------------------------------------------------
(***************************************************************************)
(* The sources.                                                            *)
(***************************************************************************)

\* The verdict v reached caller c.
Heard(c, v) ==
  /\ pc' = [pc EXCEPT ![c] = "record"]
  /\ job' = [job EXCEPT ![c].verdict = v]

\* JudgeCommittee.judge and ajudge.
AskCommittee(c) ==
  /\ pc[c] = "ask" /\ job[c].by \in Committee
  /\ \E b \in Polls(job[c].case) :
       job' = [job EXCEPT ![c].ballots = b, ![c].verdict = Aggregate(job[c].by, b)]
  /\ pc' = [pc EXCEPT ![c] = "record"]
  /\ UNCHANGED <<switch, log, human, past>>

\* WebhookVerdictSource.judge: the external system's answer, or UNKNOWN for
\* every failure to get one that can be read.
WebhookAnswers(case) == {Deserved(case), "unknown"}

\* CallableVerdictSource.judge: a verdict, or an exception (the user's own,
\* or TypeError when the callable returns no Verdict).
CallableAnswers(case) == {Deserved(case), "unknown", "raise"}

AskSystem(c) ==
  /\ pc[c] = "ask" /\ job[c].by \in {"webhook", "callable"}
  /\ \E v \in IF job[c].by = "webhook" THEN WebhookAnswers(job[c].case)
                                       ELSE CallableAnswers(job[c].case) :
       IF v = "raise" THEN pc' = [pc EXCEPT ![c] = "raised"] /\ UNCHANGED job
                      ELSE Heard(c, v)
  /\ UNCHANGED <<switch, log, human, past>>

\* HumanReviewerSource.judge, the first half: _push.
Push(c) ==
  /\ pc[c] = "ask" /\ job[c].by = "human"
  /\ pending' = Append(pending, job[c].case)
  /\ pc' = [pc EXCEPT ![c] = "waiting"]
  /\ crossed' = (crossed \/ Waiting # {})
  /\ UNCHANGED <<switch, log, reviewing, verdicts, job, calls, late>>

\* The second half: _pop_verdict takes the oldest answer there is; one that
\* is no Verdict nor the name of one is UNKNOWN.
Pop(c) ==
  /\ pc[c] = "waiting" /\ verdicts # <<>>
  /\ Heard(c, IF Head(verdicts).says \in Verdict THEN Head(verdicts).says ELSE "unknown")
  /\ verdicts' = Tail(verdicts)
  /\ UNCHANGED <<switch, log, pending, reviewing, past>>

\* Mutant: a call that times out takes its question back.
TimeoutWithdraws(c) ==
  /\ pc[c] = "waiting" /\ verdicts = <<>>
  /\ Heard(c, "unknown")
  /\ pending' = SelectSeq(pending, LAMBDA q : q # job[c].case)
  /\ late' = late + 1 /\ crossed' = TRUE
  /\ UNCHANGED <<switch, log, reviewing, verdicts, calls>>

\* The wait ran out with the queue still empty.  The question stays queued.
Timeout(c) ==
  /\ pc[c] = "waiting" /\ verdicts = <<>>
  /\ Heard(c, "unknown")
  /\ late' = late + 1 /\ crossed' = TRUE
  /\ UNCHANGED <<switch, log, human, calls>>

-----------------------------------------------------------------------------
(***************************************************************************)
(* The reviewer, who takes a case, and answers it.                         *)
(***************************************************************************)
Take ==
  /\ reviewing = Nothing /\ pending # <<>>
  /\ reviewing' = Head(pending) /\ pending' = Tail(pending)
  /\ UNCHANGED <<switch, log, verdicts, pc, job, past>>

Answer ==
  /\ reviewing # Nothing
  /\ \E says \in {Deserved(reviewing), "not a verdict"} :
       verdicts' = Append(verdicts, [about |-> reviewing, says |-> says])
  /\ reviewing' = Nothing
  /\ UNCHANGED <<switch, log, pending, pc, job, past>>

-----------------------------------------------------------------------------
(***************************************************************************)
(* The review loop over the log.                                           *)
(***************************************************************************)
Unknowns(i) == {n \in DOMAIN log : log[n].outcome = "unknown" /\ log[n].input = i}

\* export_for_review: the cases of all UNKNOWN rows, judged since or not.
\* The log only grows, so a case exported at any time is one of these.
Exported == {[input |-> log[n].input, label |-> log[n].label] :
               n \in {m \in DOMAIN log : log[m].outcome = "unknown"}}

\* by_hash: the last UNKNOWN row of the input; the label judged is not
\* compared with the row's.
Reviewed(i) == {n \in Unknowns(i) : \A m \in Unknowns(i) : m <= n}

\* apply_reviews: what a reviewer found out about an exported case is
\* recorded against the row found for its input.
ApplyReview(c, case) ==
  /\ pc[c] = "idle" /\ calls <= MaxCalls /\ case \in Exported
  /\ calls' = calls + 1
  /\ pc' = [pc EXCEPT ![c] = "record"]
  /\ \E n \in Reviewed(case.input) :
       job' = [job EXCEPT ![c] =
         [Idle EXCEPT !.case = [input |-> case.input, label |-> log[n].label],
                      !.by = "review", !.stage = "review", !.verdict = Deserved(case)]]
  /\ UNCHANGED <<switch, log, human, late, crossed>>

\* The switch comes to decide input i differently (a phase move, a new head).
Drift(i) ==
  /\ drifted < MaxDrift
  /\ drifted' = drifted + 1
  /\ \E l \in Label \ {decides[i]} : decides' = [decides EXCEPT ![i] = l]
  /\ UNCHANGED <<verifier, log, human, pc, job, past>>

-----------------------------------------------------------------------------
Step(c) ==
  \/ \E i \in Input, b \in Batches : Classify(c, i, b)
  \/ Verify(c) \/ Unverified(c) \/ CountFailed(c) \/ Record(c)
  \/ AskCommittee(c) \/ AskSystem(c)
  \/ Push(c) \/ Pop(c) \/ Timeout(c)
  \/ \E case \in Exported : ApplyReview(c, case)

Next ==
  \/ \E c \in Caller : Step(c)
  \/ Take \/ Answer
  \/ \E i \in Input : Drift(i)

Spec == Init /\ [][Next]_vars

-----------------------------------------------------------------------------
LogRow == [input : Input, label : Label, outcome : Verdict,
           source : Source \cup {"auto", "review"}]
Reply == [about : Case, says : Verdict \cup {"not a verdict"}]
Job == [case : Case \cup {Nothing}, by : Source \cup {"review", NoSource},
        batch : Source \cup {NoSource}, stage : {"inline", "batch", "review"},
        verdict : Verdict, ballots : [1..Judges -> Verdict] \cup {<<>>}]

\* Everything stays in range: a caller is recording, asking or waiting only
\* about a case, with a source to name in the row.
TypeOK ==
  /\ verifier \in Verifiers /\ decides \in [Input -> Label] /\ drifted \in 0..MaxDrift
  /\ log \in Seq(LogRow)
  /\ pending \in Seq(Case) /\ reviewing \in Case \cup {Nothing}
  /\ verdicts \in Seq(Reply)
  /\ pc \in [Caller -> {"idle", "classified", "ask", "waiting", "raised", "record"}]
  /\ job \in [Caller -> Job]
  /\ \A c \in Caller :
       /\ pc[c] # "idle" => job[c].case \in Case
       /\ pc[c] \in {"ask", "waiting", "record"} => job[c].by # NoSource
  /\ calls \in 0..(MaxCalls + 1) /\ late \in Nat /\ crossed \in BOOLEAN

\* The two queues carry no name of the case an answer is about: the answers
\* still owed are those of the callers waiting and one more for every wait
\* that ever timed out.  Nothing brings the queues back into step, so after
\* a timeout the next caller finds an answer that was meant for another.
SkewIsForever ==
  Len(pending) + Len(verdicts) + (IF reviewing = Nothing THEN 0 ELSE 1)
    = Cardinality(Waiting) + late

\* As long as no two callers waited at once and no wait timed out, what is
\* recorded of a reviewed case is what that case deserves.
VerdictsMatchUntilCrossed ==
  ~crossed =>
    \A n \in DOMAIN log :
      log[n].source = "human" =>
        log[n].outcome \in {"unknown",
                            Deserved([input |-> log[n].input, label |-> log[n].label])}

\* A committee's wrong verdict needs more judges that lied than judges that
\* answered honestly, and under "unanimous" every judge: an outage never
\* hands a minority the verdict, and no tie is broken.
MinorityNeverRules ==
  \A c \in Caller :
    (pc[c] = "record" /\ job[c].by \in Committee
       /\ job[c].verdict = Opposite(Deserved(job[c].case))) =>
      LET wrong == Votes(job[c].ballots, job[c].verdict)
      IN /\ wrong > Votes(job[c].ballots, Deserved(job[c].case))
         /\ job[c].by = "unanimous" => wrong = Judges

\* A review is recorded against the input alone.  The row it makes tells
\* the truth unless the log holds UNKNOWN rows of that input with two
\* labels, left by the switch coming to decide the input differently.
ReviewHitsItsLabel ==
  \A n \in DOMAIN log :
    log[n].source = "review" =>
      \/ log[n].outcome = Deserved([input |-> log[n].input, label |-> log[n].label])
      \/ Cardinality({log[m].label : m \in Unknowns(log[n].input)}) > 1

\* No verdict is recorded for a committee's or a reviewer's that it did not
\* give: a minority never rules, and a review stands by the label it judged
\* (verdicts.py 411-438, core.py 2356-2405).
VerdictsAreEarned == MinorityNeverRules /\ ReviewHitsItsLabel
=============================================================================
