SPECIFICATION Spec
CONSTANTS
  a1 = a1
  a2 = a2
  ipA = ipA
  t1 = t1
  t2 = t2
  NoAddr = NoAddr
  Addrs = {a1, a2}
  IPs = {ipA}
  IpOf <- MCIpOf
  Tasks = {t1, t2}
  self = self
  Seeds = {a1, self}
  Announced = {a2}
  OwnAddrs = {self}
  FEW_OUTBOUND = 1
  MAX_OUTBOUND = 1
  MAX_INBOUND = 1
  MAX_CONNECTIONS_PER_IP = 2
  MAX_CONN_RATE_PER_MINUTE = 1
  RATE_WINDOW = 1
  BAN_DURATION = 1
  SCORE_BAN_THRESHOLD <- MinusTwo
  Penalties = {3}
  MaxTime = 2
INVARIANTS TypeOK CountsExact LimitsHold AttemptsBounded
PROPERTY OrphansAreReaped
CHECK_DEADLOCK FALSE
