SPECIFICATION Spec
CONSTANTS
  Key = {1, 2, 3, 4}
  BadKey = {4}
  LevelOf <- MCLevelOf
  Tx = {1, 2}
  Spends <- MCSpends
  Attests <- MCAttests
  CacheSize = 2
  MaxTime = 1
  Verifier = {v1, v2}
SYMMETRY Symmetry
INVARIANT AttestationsApart
