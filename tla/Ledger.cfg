SPECIFICATION Spec
CONSTANTS
  Key = {1, 2, 3}
  Body <- MCBodies
  MaxTime = 1
  LargePayload = {9}
  Asset = {1, 2, 3, 4}
  FeeAsset = 1
  TxFee = 1
  MaxAmount = 9
  NetworkID = 1
  ChainID = 1
  MaxMemoSize = 1
  MaxIndices = 100
  GenesisID = 0
  Genesis <- MCGenesis
  Txs <- MCTxs
INVARIANTS SpentOnce SupplyConserved RightsKept TokensAccounted
PROPERTY OwnersConsent
