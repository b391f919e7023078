\* Two eras of one block; a budget epoch of two blocks.
CONSTANTS
  F = F
  A = A
  B = B
  None = None
  Accounts = {F, A, B}
  Founders = {F}
  GenesisBalances <- MCGenesis
  Reputed = {}
  HlqCurve <- MCHlqCurve
  SovCurve <- MCSovCurve
  ServiceCapK = 2
  FeeBurnBps = 5000
  HostingShareBps = 5000
  EraLength = 1
  FeelessEpochBlocks = 2
  FeelessCeiling = 3
  MaxFeelessPerBlock = 2
  AllowanceFloor = 1
  ReputedBonus = 1
  AllowanceCap = 2
  Fees = {1, 2}
  RefTimes = {2}
  Amounts = {1}
  Services <- MCServices
  Hostings <- MCHostings
  MaxExtrinsics = 3
  MaxBlock = 3
SPECIFICATION Spec
INVARIANTS
  ReferencesBalanced
  FeelessRationed
PROPERTIES
  ImplementsLedger
  BornMasksKeepNonce
  FoundersEarnNothing
CHECK_DEADLOCK FALSE
