\* Three eras of two epochs; an epoch, a day and a committee last a block.
CONSTANTS
  A = A
  B = B
  K = K
  L = L
  None = None
  Accounts = {A, B}
  Keys = {A, B, K, L}
  GenesisKeys <- MCGenesisKeys
  Elected <- MCElected
  Ballots <- MCBallots
  EpochLength = 1
  EraLength = 2
  CommitteeEpochLength = 1
  MaxVotesChecked = 4
  Precedes <- MCPrecedes
  MaxCommittee = 2
  Stores <- MCStores
  MaxHeightsPerRecord = 2
  MaxStreak = 2
  DayLength = 1
  MinStreakDays = 1
  MaxGapDays = 0
  MaxBeatAge = 2
  MaxHostsPerEra = 1
  ServiceEvidenceRate = 1
  MaxCalls = 3
  MaxBlock = 6
SPECIFICATION Spec
INVARIANTS
  CreditedOnce
  ServiceConserved
  EvidenceMatchesService
  StreakIsEndurance
  HostedDaysEarned
  HostDaysConserved
  MapsInverse
PROPERTIES
  HonestRecordsWhole
CHECK_DEADLOCK FALSE
