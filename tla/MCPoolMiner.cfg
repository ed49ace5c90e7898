SPECIFICATION MinerSpec
CONSTANTS
  Threads = 2
  NONCES = 10
  Hashes = {1, 2}
  TS_WINDOW = 0
  NoWork = NoWork
  MaxIndex = 2
  MaxTime = 1
  MaxHashes = 2
INVARIANTS MinerTypeOK NoneIsDuplicate
PROPERTIES StaleOnOldHeightsOnly ThreadsFollow
CHECK_DEADLOCK FALSE
