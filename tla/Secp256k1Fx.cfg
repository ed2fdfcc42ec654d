SPECIFICATION FxSpec
CONSTANTS
  Key = {1, 2, 3}
  UnsignedTx = {1, 2}
  Calls <- MCCalls
  MaxTime = 2
INVARIANT Authorized
PROPERTIES AcceptanceFinal RejectionFinal
