---------------------------- MODULE VerifierSetup ----------------------------
(***************************************************************************)
(* How a switch gets its verifier: default_verifier (verdicts.py), the     *)
(* cache of downloaded models behind it (bundled.py), and the checks that  *)
(* keep a model from judging itself (verdicts.py, core.py).                *)
(*                                                                         *)
(* Processes share the cache directory and nothing else: ensure_model      *)
(* downloads straight into the file it will use and takes no lock.  The    *)
(* download is urllib's, outside the repository: it opens the file anew    *)
(* and writes its blocks in order, at its own place in the file, and may   *)
(* fail at any block.  Which services answer, which keys are set and which *)
(* packages are installed is a constant.                                   *)
(***************************************************************************)
EXTENDS Naturals, FiniteSets

CONSTANTS
  Process,     \* processes that set up a switch
  Prefer,      \* values of prefer considered
  Worlds,      \* sets of what is available: "local", "openai", "anthropic"
               \*   (Ollama reachable, or key and package), "llama_cpp", "online"
  Blocks,      \* blocks of the model file
  MaxFaults    \* bound: failed downloads and killed processes

\* What the constants may be.
SetupAssumption ==
  /\ Prefer \subseteq {"bundled", "local", "openai", "anthropic", "auto"}
  /\ Worlds \subseteq SUBSET {"local", "openai", "anthropic", "llama_cpp", "online"}
  /\ Blocks \in Nat \ {0} /\ MaxFaults \in Nat

VARIABLES
  world, prefer,  \* what is available, and what the callers ask for
  linked,      \* the model file exists
  written,     \* the blocks of it that hold their bytes
  size,        \* its length, in blocks
  pc,          \* per process: the step of default_verifier
  next,        \* per process: the next block to write
  mine,        \* per process: the file it downloads into still has the name
  judge,       \* per process: the verifier it got
  model,       \* per process: the classifier's model
  faults,      \* downloads failed and processes killed so far
  overlap      \* history: one found no model while another was fetching it

vars == <<world, prefer, linked, written, size, pc, next, mine, judge, model, faults, overlap>>
cache == <<linked, written, size>>
facts == <<world, prefer>>

Judges == {"bundled", "local", "openai", "anthropic"}
None == "none"

Init ==
  /\ world \in Worlds /\ prefer \in Prefer
  /\ linked = FALSE /\ written = {} /\ size = 0
  /\ pc = [p \in Process |-> "idle"] /\ next = [p \in Process |-> 1]
  /\ mine = [p \in Process |-> FALSE]
  /\ judge = [p \in Process |-> None] /\ model = [p \in Process |-> None]
  /\ faults = 0 /\ overlap = FALSE

Goto(p, l) == pc' = [pc EXCEPT ![p] = l]

-----------------------------------------------------------------------------
(***************************************************************************)
(* The model file.                                                         *)
(***************************************************************************)

\* Mutant: any non-empty file will do, as for models of unknown size.
AcceptsNonEmpty == linked /\ size > 0

\* is_cached: the length is compared, the content is not.
Accepts == linked /\ size = Blocks

\* "if is_cached(role): return", else the download, if there may be one.
Ensure(p) ==
  /\ pc[p] = "ensure"
  /\ Goto(p, IF Accepts THEN "load" ELSE IF "online" \in world THEN "open" ELSE "local")
  /\ overlap' = (overlap \/ \E q \in Process : pc[q] \in {"open", "block"})
  /\ UNCHANGED <<facts, cache, next, mine, judge, model, faults>>

\* urlretrieve opens the file for writing: it is empty again, whoever else
\* was filling it or using it.
Open(p) ==
  /\ pc[p] = "open"
  /\ linked' = TRUE /\ written' = {} /\ size' = 0
  /\ next' = [next EXCEPT ![p] = 1] /\ mine' = [mine EXCEPT ![p] = TRUE]
  /\ Goto(p, "block")
  /\ UNCHANGED <<facts, judge, model, faults, overlap>>

\* A block lands at its own place: where the file was emptied meanwhile the
\* blocks before it are a hole.
Block(p) ==
  /\ pc[p] = "block"
  /\ IF mine[p]
     THEN written' = written \cup {next[p]} /\ size' = IF size < next[p] THEN next[p] ELSE size
     ELSE UNCHANGED <<written, size>>
  /\ next' = [next EXCEPT ![p] = @ + 1]
  /\ Goto(p, IF next[p] = Blocks THEN "load" ELSE "block")
  /\ UNCHANGED <<facts, linked, mine, judge, model, faults, overlap>>

\* "if target.exists(): target.unlink()", whoever is writing it.
CleanUp ==
  /\ linked' = FALSE /\ written' = {} /\ size' = 0
  /\ mine' = [p \in Process |-> FALSE]

\* The connection breaks: default_verifier tries the next candidate.
Break(p) ==
  /\ pc[p] = "block" /\ faults < MaxFaults /\ faults' = faults + 1
  /\ CleanUp
  /\ Goto(p, "local")
  /\ UNCHANGED <<facts, next, judge, model, overlap>>

\* Only now is llama_cpp imported.
Load(p) ==
  /\ pc[p] = "load"
  /\ IF "llama_cpp" \in world
     THEN judge' = [judge EXCEPT ![p] = "bundled"] /\ Goto(p, "judged")
     ELSE UNCHANGED judge /\ Goto(p, "local")
  /\ UNCHANGED <<facts, cache, next, mine, model, faults, overlap>>

-----------------------------------------------------------------------------
(***************************************************************************)
(* default_verifier: the first candidate that works and was asked for.     *)
(***************************************************************************)

\* prefer names the candidate, or leaves the choice open.
Wanted(candidate) == prefer \in {candidate, "auto"}

Call(p) ==
  /\ pc[p] = "idle"
  /\ Goto(p, IF Wanted("bundled") THEN "ensure" ELSE "local")
  /\ UNCHANGED <<facts, cache, next, mine, judge, model, faults, overlap>>

\* "if prefer == ...: raise NoVerifierAvailableError".
StopsAfter(candidate) == prefer = candidate

\* What happens at a candidate: it is used, it was the only one, or the next.
Try(p, candidate, following) ==
  IF Wanted(candidate) /\ candidate \in world
  THEN judge' = [judge EXCEPT ![p] = candidate] /\ Goto(p, "judged")
  ELSE UNCHANGED judge /\ Goto(p, following)

Local(p) ==
  /\ pc[p] = "local"
  /\ IF StopsAfter("bundled") THEN Goto(p, "failed") /\ UNCHANGED judge
     ELSE Try(p, "local",
              IF StopsAfter("local") THEN "failed" ELSE "openai")
  /\ UNCHANGED <<facts, cache, next, mine, model, faults, overlap>>

Cloud(p) ==
  /\ \/ pc[p] = "openai" /\ Try(p, "openai", "anthropic")
     \/ pc[p] = "anthropic" /\ Try(p, "anthropic", "failed")
  /\ UNCHANGED <<facts, cache, next, mine, model, faults, overlap>>

\* _same_model: the class and the model string, which differ between two
\* adapters of the same weights.
SameModel(m, j) == m = j

\* The switch is constructed with a classifier, and refuses one that judges
\* itself; the caller then has no switch.
Construct(p) ==
  /\ pc[p] = "judged"
  /\ \E m \in Judges \cup {None} :
       IF SameModel(m, judge[p]) THEN Goto(p, "failed") /\ UNCHANGED model
       ELSE Goto(p, "ready") /\ model' = [model EXCEPT ![p] = m]
  /\ UNCHANGED <<facts, cache, next, mine, judge, faults, overlap>>

\* The process ends and another starts; the cache stays.
Restarted(p) ==
  /\ Goto(p, "idle") /\ next' = [next EXCEPT ![p] = 1] /\ mine' = [mine EXCEPT ![p] = FALSE]
  /\ judge' = [judge EXCEPT ![p] = None] /\ model' = [model EXCEPT ![p] = None]
  /\ UNCHANGED <<facts, cache, overlap>>

End(p) == pc[p] \in {"ready", "failed"} /\ Restarted(p) /\ UNCHANGED faults

Kill(p) ==
  /\ pc[p] \notin {"idle", "ready", "failed"} /\ faults < MaxFaults /\ faults' = faults + 1
  /\ Restarted(p)

Next ==
  \E p \in Process :
    \/ Call(p) \/ Ensure(p) \/ Open(p) \/ Block(p) \/ Break(p) \/ Load(p)
    \/ Local(p) \/ Cloud(p) \/ Construct(p) \/ End(p) \/ Kill(p)

Spec == Init /\ [][Next]_vars

-----------------------------------------------------------------------------
\* Everything stays in range.
TypeOK ==
  /\ world \in Worlds /\ prefer \in Prefer
  /\ linked \in BOOLEAN /\ written \subseteq 1..Blocks /\ size \in 0..Blocks
  /\ pc \in [Process -> {"idle", "ensure", "open", "block", "load", "local", "openai",
                         "anthropic", "judged", "ready", "failed"}]
  /\ next \in [Process -> 1..(Blocks + 1)] /\ mine \in [Process -> BOOLEAN]
  /\ judge \in [Process -> Judges \cup {None}] /\ model \in [Process -> Judges \cup {None}]
  /\ faults \in 0..MaxFaults /\ overlap \in BOOLEAN

\* A bundled judge is loaded from a whole file, however many downloads were
\* killed or broke before, unless a process ever asked during a download.  (Then the
\* file may have its full length and a hole in it, and nothing checks it
\* again.)
LoadedModelIsWhole ==
  \A p \in Process : pc[p] = "load" /\ ~overlap => linked /\ written = 1..Blocks

\* A verifier is never another one than was asked for: nobody who did not ask
\* for the cloud gets a cloud verifier, whatever fails on the way.
NoSurpriseCloud ==
  \A p \in Process :
    judge[p] \in {"openai", "anthropic"} => prefer \in {judge[p], "auto"}
=============================================================================
