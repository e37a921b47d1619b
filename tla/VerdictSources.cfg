SPECIFICATION Spec
CONSTANTS
  Caller = {c1, c2}
  Input = {i1}
  Label = {right, wrong}
  Truth <- MCTruth
  Judges = 3
  Liar <- MCLiar
  Verifiers <- MCVerifiers
  Batches <- MCBatches
  NoSource = NoSource
  MaxCalls = 2
  MaxDrift = 1
CHECK_DEADLOCK FALSE
 
INVARIANT VerdictsMatchUntilCrossed
 
