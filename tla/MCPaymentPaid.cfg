CONSTANTS
  Procs = {p1, p2}
  Providers = {"stripe", "blockchain", "wallet"}
  Txids = {t1}
  MaxHooks = 2
  MaxRefunds = 1
  MaxFaults = 0
SPECIFICATION Spec
PROPERTY PaidOrderStays
CHECK_DEADLOCK FALSE
