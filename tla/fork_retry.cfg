CONSTANTS
  N1 = N1
  N2 = N2
  O1 = O1
  O2 = O2
  O3 = O3
  NoKey = NoKey
  Blocks = {1, 2, 3, 4, 5, 6}
  Genesis = 1
  Common = 3
  Chain <- MCChain
  Nodes = {N1}
  Accounts = {N1, O1, O2, O3}
  KeyOf <- MCKeyOf
  Ballots <- MCBallots3
  Elected <- MCElected
  Owner <- MCOwner
  Halted = {}
  Skewed = {}
  Step = 2
  EpochLength = 100
  Burial = 0
  Beta = 2
SPECIFICATION Spec
INVARIANT StoredProofsVerify
CHECK_DEADLOCK FALSE
