\* Three epochs of two blocks and the start of a fourth.
CONSTANTS
  P = P
  Q = Q
  None = None
  Accounts = {P, Q}
  Secrets = {1, 2, 3}
  Digests = {11, 12, 13}
  H <- MCH
  TooLong = {3}
  EpochLength = 2
  MaxBlock = 6
SYMMETRY Symmetry
SPECIFICATION SpecBeacon
INVARIANT ActiveKeysLocked
PROPERTY ImplementsBeaconState
CHECK_DEADLOCK FALSE
