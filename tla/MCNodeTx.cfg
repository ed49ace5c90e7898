SPECIFICATION Spec
CONSTANTS
  alice = alice
  bob = bob
  c = c
  p1 = p1
  p2 = p2
  Accounts = {alice, bob}
  Premine = alice
  PREMINE_BALANCE = 20
  MAX_U64 = 1000
  Txs <- MCTxs
  Forged <- MCForged
  Peers = {p1, p2}
  Clients = {c}
  NoTask = NoTask
  MaxHeight = 2
  MaxBlockTxs = 2
  MaxEvents = 5
INVARIANTS TypeOK AckedIsDebited OneOfConflictIsAcked
SYMMETRY Interchangeable
CHECK_DEADLOCK FALSE
