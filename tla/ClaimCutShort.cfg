CONSTANTS
  tA = tA  tB = tB  x1 = x1  x2 = x2  c1 = c1  c2 = c2  c3 = c3
  NoTx = NoTx  NoPay = NoPay  Free = Free
  Tokens = {tA}
  Amounts = {1}
  Txs = {x1}
  Claims = {c1, c2}
  UNCLAIMED_LIFETIME = 1
  ORDER_LIFETIME = 2
  CLOCK_SLACK = 0
  LAPSED_KEPT = 6
  LAPSED_PRUNE_EVERY = 3
  MAX_OPEN_ORDERS = 2
  MAX_OPEN_PER_ACCOUNT = 2
  MAX_HELD_ORDERS = 1
  MAX_CLAIM_TRIES = 2
  Faults = {"crash"}
  MaxFaults = 1
  MaxOrders = 2
  MaxQuotes = 1
  MaxTime = 4
  Delay = 1
  HandWithin = 0
SPECIFICATION Spec
CHECK_DEADLOCK FALSE
INVARIANTS AlreadyMeansCredited
