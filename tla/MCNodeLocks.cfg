SPECIFICATION LocksSpec
CONSTANTS
  t1 = t1
  t2 = t2
  t3 = t3
  Tasks = {t1, t2, t3}
INVARIANT CirclesAreOutOfOrder
SYMMETRY Interchangeable
CHECK_DEADLOCK FALSE
