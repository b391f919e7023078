\* Every block ends an epoch.
CONSTANTS
  Masks = {1, 2, 3, 4}
  None = None
  StorageOrder <- MCOrder
  Grants <- MCGrants
  Settled <- MCSettled
  Service <- MCService
  ServiceEvidenceRate = 8
  EpochLength = 1
  RetentionNum = 1
  RetentionDen = 2
  SponsorLiability = 25
  MaxVouches = 2
  VouchQuotaK = 3
  AttestBudget = 2
  AttestFloorMinFp = 1
  AttestStakeMultiplier = 1
  DefaultProbationWindow = 0
  AttestPairDecayMax = 3
  RequiredEpochs = 2
  MaxBands = 2
  SweepPerEpoch = 5
  MaxBlock = 5
  Scale = 1000
  Iterations = 4
  PoissonAnchor = 1000
  MaxSeats = 8
  Floor = 4
  Attesters = {2}
  Vouchers = {4}
  Beneficiaries = {1, 3}
  Culprits = {1}
  CallSuits = {"technical"}
  Amounts = {64}
  FraudLosses = {64}
  Depths = {2}
  Windows = {2}
  MaxCalls = 3
SPECIFICATION SpecEpochs
INVARIANTS
  PairFabricationBounded
  EvidenceIsDisputable
  BandsTrackHalts
  CommitteeViable
PROPERTIES
  StandingIsEarned
  SponsorsKeepHalf
CHECK_DEADLOCK FALSE
