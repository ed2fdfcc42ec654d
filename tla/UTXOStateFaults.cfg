SPECIFICATION FaultSpec
CONSTANTS
  UTXO = {1, 2, 3}
  Addr <- MCAddr
  Owners <- MCOwners
  Empty = 0
  Limits = {1}
  CacheSize = 2
  TrackChecksum = TRUE
  Reput = TRUE
INVARIANTS CacheCoherentUnlessTainted IndexCompleteUnlessTorn ChecksumCurrentUnlessTainted
