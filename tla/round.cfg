\* Two founders and their nodes, two epochs; two hashes; committees of 1, 2, 4
\* and 5 members that change between rounds.
CONSTANTS
  Hashes = {1, 2}
  Beta = 4
  Sizes = {1, 2, 4, 5}
  MaxStreak = 6
  P = P
  Q = Q
  SessionKey = SessionKey
  Nobody = Nobody
  Masks = {P, Q}
  Keys = {P, Q, SessionKey}
  Nodes = {1, 2}
  KeyOf <- MCKeyOf
  SealsAlone = {}
  BuiltFor <- MCBuiltFor
  Spec0 = 2
  Registers <- MCRegisters
  GenesisRegister <- MCGenesisRegister
  GenesisHot <- MCGenesisHot
  HotKeys = {SessionKey}
  EpochBlocks = 2
  Channel = 1
  MaxBlocks = 4
SPECIFICATION SpecHeight
PROPERTIES
  DecidesOnUnbrokenStreak
  ImplementsSnowballNode
INVARIANTS
  OneMaskPerSlot
