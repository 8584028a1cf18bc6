CONSTANTS
  ua = ua
  ub = ub
  k1 = k1
  k2 = k2
  k3 = k3
  Users = {ua, ub}
  Keys = {k1, k2, k3}
  NoKey = NoKey
  Procs = {p1, p2}
  NoProc = NoProc
  MaxMoney = 2
  Calls <- LedgerCalls
SPECIFICATION FairSpec
INVARIANT WalletSafe KeyPostedOnce SideRecordsFollowRows
PROPERTY PromiseKept CallsReturn
