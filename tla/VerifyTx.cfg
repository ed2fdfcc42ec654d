SPECIFICATION Spec
CONSTANTS
  Asset = {0, 1, 2}
  MaxAmount = 3
  Amounts = {0, 1, 3}
  FeeAsset = 1
  Txs <- MCTxs
INVARIANTS NoInflation AcceptedIsSound RejectedIsFaulty AcceptedIsCanonical
PROPERTY RejectionSticks
