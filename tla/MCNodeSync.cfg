SPECIFICATION FairSpec
CONSTANTS
  p1 = p1
  p2 = p2
  NoPeer = NoPeer
  Peers = {p1, p2}
  Labels = {1, 2}
  OurChain <- MCOurChain
  PeerChains <- MCPeerChains
  Unappliable <- MCUnappliable
  Silent = {p1}
  Checkpoints = {}
  IBD_CHUNK_SIZE = 3
  REORG_LIMIT = 1
  DEEP_LEAD = 1
  ANCHOR_LEAD = 2
  RECOVERY_LEAD = 4
  YOUNG_HEIGHT = 3
  ANNOUNCED_LEAD = 4
  MaxHeight = 5
  MaxEvents = 2
INVARIANTS TypeOK SlotHolderIsConnected
PROPERTIES SlotIsTemporary ChainOnlyImproves
CHECK_DEADLOCK FALSE
