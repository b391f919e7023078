CONSTANTS
  N1 = N1
  N2 = N2
  O1 = O1
  O2 = O2
  O3 = O3
  NoKey = NoKey
  Blocks = {1, 2, 3, 4, 6}
  Genesis = 1
  Common = 2
  Chain <- MCChain
  Nodes = {N1, N2}
  Accounts = {N1, N2, O1, O2}
  KeyOf <- MCKeyOf
  Ballots <- MCBallots2
  Elected <- MCElectedAtFork
  Owner <- MCOwner
  Halted = {2}
  Skewed <- MCSkewed
  Step = 1
  EpochLength = 1
  Burial = 0
  Beta = 2
SYMMETRY Symmetry
SPECIFICATION Spec
INVARIANTS
  HeldVotesGenuine
  ConflictHasDoubleVoter
  AgreementUnlessRevoted
  WatermarkBehindFinality
CHECK_DEADLOCK FALSE
