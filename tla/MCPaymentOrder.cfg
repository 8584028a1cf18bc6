CONSTANTS
  Procs = {p1, p2}
  Providers = {"stripe", "blockchain", "wallet"}
  Txids = {t1}
  MaxHooks = 3
  MaxRefunds = 1
  MaxFaults = 1
SPECIFICATION FairSpec
INVARIANT  AnsweredWasApplied
PROPERTY FreshWritesKeepToDiagram CapturedIsPaidUnlessClosed
CHECK_DEADLOCK FALSE
