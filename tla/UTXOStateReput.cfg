SPECIFICATION Spec
CONSTANTS
  UTXO = {1, 2, 3}
  Addr <- MCAddr
  Owners <- MCOwners
  Empty = 0
  Limits = {1, 3}
  CacheSize = 2
  TrackChecksum = TRUE
  Reput = TRUE
INVARIANT ChecksumCurrent
