SPECIFICATION CrashSpec
CONSTANTS
  dev = dev
  m1 = m1
  m2 = m2
  Accounts <- MCAccounts
  Premine = dev
  PREMINE_BALANCE = 20
  MAX_U64 = 1000
  Blocks <- BadTree
  Genesis <- MCGenesis
  NoBlock = NoBlock
  NoFile = NoFile
  Hashes <- MCHashes
  MaxHeight = 3
  Checkpoints <- OneCheckpoint
  DAA_WINDOW = 2
  TARGET_BLOCK_MS = 4
  TESTNET_DIFFICULTY = 3
  MAX_DIFFICULTY = 6
  TESTNET_REWARD = 5
INVARIANTS LinkedHistory CheckpointsHold
PROPERTY NeverBelowCheckpoint
CONSTRAINT BalancesBounded
