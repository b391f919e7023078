\* Two of four upgrade, three renew, four in a disaster.
CONSTANTS
  Accounts = {1, 2, 3, 4, 5}
  None = None
  Seats = {1, 2, 3, 4}
  CustodySeat = 4
  Threshold = 2
  RenewalThreshold = 3
  DisasterThreshold = 4
  Codes = {c}
  Deployable = {c}
  Manifesto = truth
  Manifestos = {truth, lie}
  VoteKeyed = {1, 5}
  ElectorateTau = 2
  Societies <- MCSocieties
  InitialLife = 3
  ObjectionWindow = 1
  EpochLength = 2
  DisasterEpochs = 1
  MaxBlock = 5
  MaxCalls = 6
SPECIFICATION Spec
INVARIANT CodeHasQuorum
PROPERTY RenewalAtTheEnd
CHECK_DEADLOCK FALSE
