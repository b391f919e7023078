CONSTANTS
  N1 = N1
  N2 = N2
  O1 = O1
  O2 = O2
  O3 = O3
  NoKey = NoKey
  Blocks = {1, 2, 3, 4, 5, 6}
  Genesis = 1
  Common = 2
  Chain <- MCChain
  Nodes = {N1, N2}
  Accounts = {N1, N2}
  KeyOf <- MCKeyOf
  Ballots <- MCNoBallots
  Elected <- MCElected
  Owner <- MCOwner
  Halted = {}
  Skewed = {}
  Step = 2
  EpochLength = 100
  Burial = 0
  Beta = 4
SPECIFICATION Spec
INVARIANT Agreement
CHECK_DEADLOCK FALSE
