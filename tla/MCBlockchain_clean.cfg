SPECIFICATION CleanSpec
CONSTANTS
  dev = dev
  m1 = m1
  m2 = m2
  Accounts <- MCAccounts
  Premine = dev
  PREMINE_BALANCE = 20
  MAX_U64 = 1000
  Blocks <- Tree
  Genesis <- MCGenesis
  NoBlock = NoBlock
  NoFile = NoFile
  Hashes <- MCHashes
  MaxHeight = 6
  Checkpoints <- NoCheckpoints
  DAA_WINDOW = 2
  TARGET_BLOCK_MS = 4
  TESTNET_DIFFICULTY = 3
  MAX_DIFFICULTY = 5
  TESTNET_REWARD = 5
INVARIANTS TypeOK DifficultyCanonical LedgerIsReplay
PROPERTY ImplementsChainLog
