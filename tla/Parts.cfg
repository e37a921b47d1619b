SPECIFICATION PartsSpec
CONSTANTS
  A = A  B = B  a1 = a1  a2 = a2  b1 = b1
  Storage = {A, B}
  StorageThread = {a1, a2, b1}
  Of <- OwnProcess
  Closing = {A}
  Fds = 3
  MaxDirs = 2
  Nobody = Nobody
  Process = {p1, p2}
  Backends = {"file", "sqlite", "postgres"}
  Keys = {"head", "ledger"}
  MaxEntries = 3
  MaxFaults = 1
  Verbs = {"classify", "dispatch", "aclassify", "verdict_for"}
  MaxCalls = 2
  Predictor = {p0}
  Kinds = {"logreg", "svc", "image"}
  Label = {1, 2, 3}
  MinOutcomes = 2
  MaxRows = 3
  MaxFits = 2
  BatchSize = 1
  MaxEvents = 3
  MaxPosts = 2
  MaxKills = 1
  MaxPublished = 2
  Prefer = {"bundled", "local", "openai", "auto"}
  Worlds <- SomeWorlds
  Blocks = 2
  MaxSetupFaults = 2
  MaxSource = 2
  Commented = {2}
  MaxHands = 2
  Full = 2
  MaxExamples = 4
  Floors = {0, 50, 67, 100}
  MinKept = {1, 2}
  Requests = 1
  Best = 3
  Epsilon = 1
  Bands = {1, 2}
  MaxPoints = 2
  Name = {p1, p2}
  Entrant <- XYZ
  Num = 3
  Den = 5
  MaxInputs = 3
  MaxRegisters = 4
INVARIANT LockExcludes
PROPERTY StoresKeepWhatTheyTook
INVARIANT CallsAreOnRecord
INVARIANT HeadIsOneModel
INVARIANT EventsReachTheCollector
INVARIANT VerifierIsAsAsked
INVARIANT GeneratedFilesAreSafe
 
INVARIANT TierEarnsItsCost
INVARIANT PromotionsAreEarned
SYMMETRY Symmetry
CHECK_DEADLOCK FALSE
