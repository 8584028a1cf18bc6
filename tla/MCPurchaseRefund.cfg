CONSTANTS
  Procs = {p1}
  Keys = {k1}
  MaxStock = 2
  Money = 3
  MaxDeliveries = 2
  MaxRequests = 3
  Nobody = Nobody
  NoKey = NoKey
  Deployments = {TRUE, FALSE}
SPECIFICATION FairSpec
INVARIANT OneActiveRefund BalanceExplained
 
CHECK_DEADLOCK FALSE
