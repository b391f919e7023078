\* No epoch ends; the records 5 and 7 are the defendant's.
CONSTANTS
  Masks = {1, 2, 3, 4, 5}
  None = None
  StorageOrder <- MCOrder
  Grants <- MCGrants
  Settled <- MCSettled
  Service <- MCService
  ServiceEvidenceRate = 1
  EpochLength = 100
  RetentionNum = 1
  RetentionDen = 2
  SponsorLiability = 25
  MaxVouches = 2
  VouchQuotaK = 3
  AttestBudget = 2
  AttestFloorMinFp = 1
  AttestStakeMultiplier = 1
  DefaultProbationWindow = 0
  AttestPairDecayMax = 3
  RequiredEpochs = 2
  MaxBands = 1
  SweepPerEpoch = 5
  MaxBlock = 6
  Scale = 1000
  Iterations = 2
  PoissonAnchor = 1000
  MaxSeats = 6
  Floor = 2
  JurySize = 2
  MaxJury = 2
  MaxInterested = 3
  MaxCaseEvidence = 1
  GuiltThreshold = 67
  VoteQuorum = 50
  Depth2Weight = 50
  VotingWindow = 1
  JuryDrawDelay = 2
  InterestCooling = 1
  MaxDrawsPerBlock = 1
  DrawSearch = 2
  MaxGuiltyMarks = 1
  Redraws = 1
  VrfValues = {0, 700}
  Plaintiffs = {1}
  Defendants = {2}
  Tied = {{5}}
  Evidences = {{}, {5}}
  Losses = {16}
  Closers = {1, 3}
  Committers = {{}}
  Ties <- MCTies
  MaxCases = 2
  MaxTies = 1
SPECIFICATION Spec
INVARIANTS
  AwaitingIsQueued
  DocketInOrder
  RectifiedOnce
PROPERTIES
  PartiesCannotTurnTheTally
  SeatedJurorsCanVote
CHECK_DEADLOCK FALSE
