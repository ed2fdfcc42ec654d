SPECIFICATION FairSpec
CONSTANTS
  UTXO = {1, 2, 3, 4}
  Addr = {1, 2, 3}
  Owners <- MCOwners
  Wanted = {1, 2}
  Limits = {1, 2, 5}
  Amount <- MCAmount
  MaxAmount = 5
  MaxChanges = 6
INVARIANTS ScanComplete PagesSucceed BalanceExact
PROPERTIES PageSound ScanEnds
