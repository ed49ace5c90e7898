SPECIFICATION Spec
CONSTANTS
  t1 = t1
  t2 = t2
  k1 = k1
  p1 = p1
  p2 = p2
  p3 = p3
  NoTx = NoTx
  Txs = {t1, t2}
  Keys = {k1}
  KeyOf <- MCKeyOf
  Peers = {p1, p2, p3}
  TIMEOUT = 1
  MaxTime = 2
  MaxPeers = 4
INVARIANTS TypeOK FinalByQuorum PendingIsOpen
PROPERTIES RejectedIsTerminal
SYMMETRY Interchangeable
