CONSTANTS
  A = A
  B = B
  F = F
  M = M
  NoKey = NoKey
  NoProof = NoProof
  Blocks = {1, 2, 3, 4, 5, 6, 7, 8, 9, 10}
  Genesis = 1
  Common = 7
  Chain <- MCChain
  Nodes = {B, F}
  Accounts = {A, B, M}
  KeyOf <- MCKeyOf
  Ballots <- MCBallots
  Elected <- MCElected
  Owner <- MCOwner
  Halted = {1}
  Skewed <- MCSkewed
  Step = 3
  EpochLength = 4
  Burial = 1
  Beta = 2
  MaxCatchupTargets = 2
  MaxRestarts = 1
SPECIFICATION FairSyncSpec
INVARIANT
  CountedVotesInCommittee
PROPERTY
  EveryNodeFinalises
  ImplementsGadget
CHECK_DEADLOCK FALSE
