CONSTANTS
  Masks = {a, b, c}
  None = None
  Keys = {k}
  Handle <- MCHandle
  MaxPerMask = 1
  MaxOpenDealsPerMask = 1
  DealTtl = 1
  MaxParties = 3
  MaxOpenPerMask = 1
  MaxPactTtl = 1
  MaxNewsPerMask = 1
  MaxThreadDepth = 1
  MaxBlock = 3
  MaxCalls = 5
SPECIFICATION Spec
INVARIANT BooksBalance
PROPERTY AgreementsKept
CHECK_DEADLOCK FALSE
