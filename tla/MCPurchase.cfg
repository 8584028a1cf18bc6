CONSTANTS
  Procs = {p1, p2}
  Keys = {k1, k2}
  MaxStock = 1
  Money = 1
  MaxDeliveries = 2
  MaxRequests = 0
  Nobody = Nobody
  NoKey = NoKey
  Deployments = {TRUE}
SPECIFICATION Spec
INVARIANT GoodsSound StandingWasSettled 
PROPERTY OnlyOrderPaidJumps
CHECK_DEADLOCK FALSE
