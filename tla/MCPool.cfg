SPECIFICATION FairSpec
CONSTANTS
  m1 = m1
  m2 = m2
  h1 = h1
  h2 = h2
  Miners = {m1, m2}
  Solutions <- MCSolutions
  BlockNonces = {2}
  Handlers = {h1, h2}
  TESTNET_REWARD = 300
  POOL_FEE_PERMILLE = 10
  TX_FEE = 1
  MaxTips = 2
  MaxWrites = 2
  MaxRestarts = 1
  MaxRequests = 2
INVARIANTS TypeOK RoundIsOfTemplate PayoutsWithinReward
PROPERTIES FoundBlocksAreSubmitted TemplateCatchesUp
CHECK_DEADLOCK FALSE
