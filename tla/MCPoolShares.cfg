SPECIFICATION SharesSpec
CONSTANTS
  w1 = w1
  h1 = h1
  h2 = h2
  Workers = {w1}
  ShareNonces = {1}
  WeakNonces = {2}
  Handlers = {h1, h2}
  Difficulties = {3, 4}
  Mix <- MCMix
  SHARE_DIFF_OFFSET = 4
  MIN_SHARE_DIFFICULTY = 4
  MAX_SHARE_DIFFICULTY = 62
  BUCKET_TTL = 2
  TS_WINDOW = 2
  MAX_DELAY = 1
  MaxBlocks = 1
  MaxTime = 6
  MaxRequests = 4
INVARIANT CreditedOnceUnlessAhead
SYMMETRY Interchangeable
CHECK_DEADLOCK FALSE
