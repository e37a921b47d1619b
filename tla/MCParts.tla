------------------------------- MODULE MCParts -------------------------------
(***************************************************************************)
(* The parts of Postrule that keep state of their own and meet the switch  *)
(* only through a call and its result, and one specification that behaves  *)
(* as one of them, chosen at the start.  The constants have their values   *)
(* in Parts.cfg; where two parts have a variable of one name, it has the   *)
(* part's name before it here.                                             *)
(***************************************************************************)
EXTENDS CandidateTrials, TLC

CONSTANTS
  \* the lock: storages and their threads, threads of theirs being told apart
  A, B, a1, a2, b1, Storage, StorageThread, Of, Closing, Fds, MaxDirs, Nobody,
  \* threads or processes that share a store, a head, a queue, a model file, a
  \* generated file, or overlap in the serving verbs
  Process,
  Backends, Keys, MaxEntries, MaxFaults,                     \* stores
  Verbs, MaxCalls,                                           \* serving verbs
  Predictor, Kinds, Label, MinOutcomes, MaxRows, MaxFits,    \* heads
  BatchSize, MaxEvents, MaxPosts, MaxKills, MaxPublished,    \* insights
  Prefer, Worlds, Blocks, MaxSetupFaults,                    \* verifier set-up
  MaxSource, Commented, MaxHands,                            \* generated files
  Full, MaxExamples, Floors, MinKept, Requests,              \* escalation
  Best, Epsilon, Bands, MaxPoints                            \* tiers

VARIABLES
  part,
  dir, dirs, fingerprint, lockFile, locks, closed, cached, lockEntries, owner, lockPc,
  shared, fd, entry, lockCut,
  backend, key, stored, temp, table, nextId, storesPc, hand, read, handle,
  storesEntries, done, storesFaults, storesOverlap, failed,
  config, calls, callsPc, job, callsLog, orphans, callsFaults, excused, over,
  kind, rows, learnable, mistaken, pipeline, classes, version, fits, blob, task,
  carried, headsPc, index, own, answer, quiet,
  enrolment, queue, collected, cache, fresh, published, cloudPc, cloudLinked, got,
  doc, events, kills, posts, raced, cloudCut,
  world, prefer, setupLinked, written, setupSize, setupPc, next, mine, judge, model,
  setupFaults, setupOverlap,
  source, refreshFile, refreshPc, seen, status, hands, stale, lost,
  examples, floor, minKept, tau, gate, served, hinted,
  measured, accuracy, allowed, band, curve, chosen

\* The tournament's entrants.
XYZ == <<"x", "y", "z">>

\* Storage A has two threads, storage B one.
OwnProcess == a1 :> A @@ a2 :> A @@ b1 :> B
Symmetry == Permutations({a1, a2})

\* What a machine can have: the network and llama_cpp, a local server, keys.
SomeWorlds ==
  {{"online", "llama_cpp"}, {"online", "local"}, {"openai", "anthropic"}, {"anthropic"}}

\* The lock of segments and rotation: a storage with two threads, closed at
\* some point, and another one on the same directory.
Lock == INSTANCE FileLock WITH
  Process <- Storage, Thread <- StorageThread, None <- Nobody,
  file <- lockFile, entries <- lockEntries, pc <- lockPc, cut <- lockCut

\* State blobs and outcome tables: two writers of one key.
Stores == INSTANCE SharedStores WITH
  pc <- storesPc, entries <- storesEntries, faults <- storesFaults, overlap <- storesOverlap

\* The serving verbs: two callers, one refusal, cancellation or exit.
Calls == INSTANCE ServedCalls WITH
  Caller <- Process, pc <- callsPc, log <- callsLog, faults <- callsFaults

\* An ML head: one thread predicts, two fit, load and checkpoint.
Heads == INSTANCE MLHeads WITH Keeper <- Process, pc <- headsPc

\* Insights: two threads, batches of one, so that three events leave a tail
\* for a flush to write while the other thread appends, flushes or dies.
Cloud == INSTANCE Insights WITH
  Thread <- Process, pc <- cloudPc, linked <- cloudLinked, cut <- cloudCut

\* A switch's verifier: two processes, one model file of two blocks.
Setup == INSTANCE VerifierSetup WITH
  MaxFaults <- MaxSetupFaults, linked <- setupLinked, size <- setupSize, pc <- setupPc,
  faults <- setupFaults, overlap <- setupOverlap

\* Generated modules: two tools and an editor; version 2's body begins with a
\* comment.
Refresh == INSTANCE GeneratedFiles WITH Tool <- Process, file <- refreshFile, pc <- refreshPc

\* Escalation: up to four held-out examples at three levels of confidence.
Hybrid == INSTANCE Escalation

\* The choice of a tier: four levels of accuracy, a curve of two points.
Tiers == INSTANCE TierPolicy

ASSUME PartsAssumption ==
  /\ Lock!LockAssumption /\ Stores!StoresAssumption /\ Calls!CallsAssumption
  /\ Heads!HeadsAssumption
  /\ Cloud!InsightsAssumption /\ Setup!SetupAssumption /\ Hybrid!EscalationAssumption
  /\ Refresh!GeneratedAssumption /\ Tiers!TierAssumption

-----------------------------------------------------------------------------
lockVars == <<dir, dirs, fingerprint, lockFile, locks, closed, cached, lockEntries,
    owner, lockPc, shared, fd, entry, lockCut>>
storesVars == <<backend, key, stored, temp, table, nextId, storesPc, hand, read,
    handle, storesEntries, done, storesFaults, storesOverlap, failed>>
callsVars == <<config, calls, callsPc, job, callsLog, orphans, callsFaults,
    excused, over>>
headsVars == <<kind, rows, learnable, mistaken, pipeline, classes, version, fits,
    blob, task, carried, headsPc, index, own, answer, quiet>>
cloudVars == <<enrolment, queue, collected, cache, fresh, published, cloudPc,
    cloudLinked, got, doc, events, kills, posts, raced, cloudCut>>
setupVars == <<world, prefer, setupLinked, written, setupSize, setupPc, next, mine,
    judge, model, setupFaults, setupOverlap>>
refreshVars == <<source, refreshFile, refreshPc, seen, status, hands, stale, lost>>
hybridVars == <<examples, floor, minKept, tau, gate, served, hinted>>
tiersVars == <<measured, accuracy, allowed, band, curve, chosen>>

\* The variables of a part that was not chosen stay at 0.
NoLock ==
  /\ dir = 0 /\ dirs = 0 /\ fingerprint = 0 /\ lockFile = 0 /\ locks = 0 /\ closed = 0
  /\ cached = 0 /\ lockEntries = 0 /\ owner = 0 /\ lockPc = 0 /\ shared = 0 /\ fd = 0
  /\ entry = 0 /\ lockCut = 0
NoStores ==
  /\ backend = 0 /\ key = 0 /\ stored = 0 /\ temp = 0 /\ table = 0 /\ nextId = 0
  /\ storesPc = 0 /\ hand = 0 /\ read = 0 /\ handle = 0 /\ storesEntries = 0 /\ done = 0
  /\ storesFaults = 0 /\ storesOverlap = 0 /\ failed = 0
NoCalls ==
  /\ config = 0 /\ calls = 0 /\ callsPc = 0 /\ job = 0 /\ callsLog = 0 /\ orphans = 0
  /\ callsFaults = 0 /\ excused = 0 /\ over = 0
NoHeads ==
  /\ kind = 0 /\ rows = 0 /\ learnable = 0 /\ mistaken = 0 /\ pipeline = 0 /\ classes = 0
  /\ version = 0 /\ fits = 0 /\ blob = 0 /\ task = 0 /\ carried = 0 /\ headsPc = 0
  /\ index = 0 /\ own = 0 /\ answer = 0 /\ quiet = 0
NoCloud ==
  /\ enrolment = 0 /\ queue = 0 /\ collected = 0 /\ cache = 0 /\ fresh = 0 /\ published = 0
  /\ cloudPc = 0 /\ cloudLinked = 0 /\ got = 0 /\ doc = 0 /\ events = 0 /\ kills = 0
  /\ posts = 0 /\ raced = 0 /\ cloudCut = 0
NoSetup ==
  /\ world = 0 /\ prefer = 0 /\ setupLinked = 0 /\ written = 0 /\ setupSize = 0
  /\ setupPc = 0 /\ next = 0 /\ mine = 0 /\ judge = 0 /\ model = 0 /\ setupFaults = 0
  /\ setupOverlap = 0
NoRefresh ==
  /\ source = 0 /\ refreshFile = 0 /\ refreshPc = 0 /\ seen = 0 /\ status = 0 /\ hands = 0
  /\ stale = 0 /\ lost = 0
NoHybrid ==
  /\ examples = 0 /\ floor = 0 /\ minKept = 0 /\ tau = 0 /\ gate = 0 /\ served = 0
  /\ hinted = 0
NoTiers ==
  /\ measured = 0 /\ accuracy = 0 /\ allowed = 0 /\ band = 0 /\ curve = 0 /\ chosen = 0

PartsInit ==
  /\ part \in {"trials", "lock", "stores", "calls", "head", "insights", "verifier",
              "generated", "escalation", "tiers"}
  /\ Init
  /\ IF part = "lock" THEN Lock!Init ELSE NoLock
  /\ IF part = "stores" THEN Stores!Init ELSE NoStores
  /\ IF part = "calls" THEN Calls!Init ELSE NoCalls
  /\ IF part = "head" THEN Heads!Init ELSE NoHeads
  /\ IF part = "insights" THEN Cloud!Init ELSE NoCloud
  /\ IF part = "verifier" THEN Setup!Init ELSE NoSetup
  /\ IF part = "generated" THEN Refresh!Init ELSE NoRefresh
  /\ IF part = "escalation" THEN Hybrid!Init ELSE NoHybrid
  /\ IF part = "tiers" THEN Tiers!Init ELSE NoTiers

PartsNext ==
  \/ /\ part = "trials" /\ Next
     /\ UNCHANGED <<part, lockVars, storesVars, callsVars, headsVars, cloudVars,
                    setupVars, refreshVars, hybridVars, tiersVars>>
  \/ /\ part = "lock" /\ Lock!Next
     /\ UNCHANGED <<part, vars, storesVars, callsVars, headsVars, cloudVars,
                    setupVars, refreshVars, hybridVars, tiersVars>>
  \/ /\ part = "stores" /\ Stores!Next
     /\ UNCHANGED <<part, vars, lockVars, callsVars, headsVars, cloudVars,
                    setupVars, refreshVars, hybridVars, tiersVars>>
  \/ /\ part = "calls" /\ Calls!Next
     /\ UNCHANGED <<part, vars, lockVars, storesVars, headsVars, cloudVars,
                    setupVars, refreshVars, hybridVars, tiersVars>>
  \/ /\ part = "head" /\ Heads!Next
     /\ UNCHANGED <<part, vars, lockVars, storesVars, callsVars, cloudVars,
                    setupVars, refreshVars, hybridVars, tiersVars>>
  \/ /\ part = "insights" /\ Cloud!Next
     /\ UNCHANGED <<part, vars, lockVars, storesVars, callsVars, headsVars,
                    setupVars, refreshVars, hybridVars, tiersVars>>
  \/ /\ part = "verifier" /\ Setup!Next
     /\ UNCHANGED <<part, vars, lockVars, storesVars, callsVars, headsVars,
                    cloudVars, refreshVars, hybridVars, tiersVars>>
  \/ /\ part = "generated" /\ Refresh!Next
     /\ UNCHANGED <<part, vars, lockVars, storesVars, callsVars, headsVars,
                    cloudVars, setupVars, hybridVars, tiersVars>>
  \/ /\ part = "escalation" /\ Hybrid!Next
     /\ UNCHANGED <<part, vars, lockVars, storesVars, callsVars, headsVars,
                    cloudVars, setupVars, refreshVars, tiersVars>>
  \/ /\ part = "tiers" /\ Tiers!Next
     /\ UNCHANGED <<part, vars, lockVars, storesVars, callsVars, headsVars,
                    cloudVars, setupVars, refreshVars, hybridVars>>

parts == <<part, vars, lockVars, storesVars, callsVars, headsVars, cloudVars,
           setupVars, refreshVars, hybridVars, tiersVars>>

PartsSpec == PartsInit /\ [][PartsNext]_parts

-----------------------------------------------------------------------------
\* The lock that appends and rotations take excludes, between threads and
\* between processes, unless the directory was replaced or a storage closed
\* under its users; and nothing stays locked that nobody is about to unlock
\* (storage.py 300-410, 687-740).
LockExcludes == part = "lock" => Lock!TypeOK /\ Lock!Excludes /\ Lock!NothingLeftLocked

\* A process killed or failing at any step of a put leaves the blob whole, no
\* lifecycle event is lost unless a write failed or two overlapped, and in
\* SQLite the log only grows at its end (storage.py 1084-1095, core.py
\* 2638-2670).
StoresKeepWhatTheyTook ==
  /\ [](part = "stores" => Stores!TypeOK /\ Stores!BlobIsWhole /\ Stores!LedgerKeepsEvents)
  /\ [][part = "stores" => Stores!GrowsAtItsEnd]_parts

\* Whatever callers overlap, fail or are cancelled: a row carries its own
\* call's observations, an action that ran is on record, and a verdict takes
\* the place of the call's UNKNOWN row (core.py 1225-1425).
CallsAreOnRecord ==
  part = "calls" => /\ Calls!TypeOK /\ Calls!ShadowsAreOwn
                    /\ Calls!ActionIsOnRecord /\ Calls!VerdictSupersedes

\* A head nobody is installing answers as the model it asked, no head ever
\* answers a label that was never right, and a checkpoint is one whole model
\* (ml.py 145-207, 414-466).
HeadIsOneModel ==
  part = "head" => /\ Heads!TypeOK
                   /\ Heads!QuietAnswerIsOwn
                   /\ Heads!NeverAnswersAMistake
                   /\ Heads!CheckpointIsWhole

\* Where flushes and appends do not overlap and no flush dies after its post,
\* every event reaches the collector once and in order; the defaults in force
\* are a whole published document (insights/events.py 146-276,
\* insights/tuned_defaults.py 220-294).
EventsReachTheCollector ==
  part = "insights" => /\ Cloud!TypeOK
                       /\ Cloud!LossNeedsOverlap
                       /\ Cloud!DuplicateNeedsCut
                       /\ Cloud!LoadedIsPublished

\* The bundled judge is loaded from a whole file unless a process came during
\* a download, and nobody gets a cloud verifier who did not ask for one
\* (bundled.py 145-206, verdicts.py 609-690).
VerifierIsAsAsked ==
  part = "verifier" => Setup!TypeOK /\ Setup!LoadedModelIsWhole /\ Setup!NoSurpriseCloud

\* Regenerating where detect_drift advises it destroys no edit made before it
\* read the file, and "up to date" is said of current, unedited bodies alone
\* (refresh.py 110-133, 236-267).
GeneratedFilesAreSafe ==
  part = "generated" => Refresh!TypeOK /\ Refresh!EditsSurvive /\ Refresh!UpToDateIsCurrent

\* The calibrated gate meets its accuracy floor on the held-out examples,
\* escalates no more than it must, and refuses its own threshold only where no
\* threshold would do (escalation.py 56-140).
GateIsCalibrated ==
  part = "escalation" => /\ Hybrid!TypeOK
                         /\ Hybrid!GateMeetsFloor
                         /\ Hybrid!GateIsCheapest
                         /\ Hybrid!RefusedOnlyWhenCertain

\* A dearer tier has earned its cost, and the terminal choice agrees with the
\* crossover (aga.py 110-173).
TierEarnsItsCost ==
  part = "tiers" => Tiers!TypeOK /\ Tiers!CostIsEarned /\ Tiers!NoCrossoverNoML

\* A candidate's promotion is announced once, never for one that lost to
\* production, and the tournament's winner was right more often than the
\* others (autoresearch.py 279-334, 514-629).
PromotionsAreEarned ==
  part = "trials" => TypeOK /\ AnnouncedOnce /\ NeverPromotesWorse /\ WinnerIsBest
=============================================================================
