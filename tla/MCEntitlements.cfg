CONSTANTS
  Procs = {p1, p2}
  Keys = {k1, k2}
  Amounts = {1, 2}
  PlanDays = 1
  Funds = 3
  MaxCalls <- Calls
  MaxOrders = 2
  MaxTries <- Tries
  MaxTime = 1
  Offers <- Groups
  LastRow = 2
  Unfit = {2}
  PageSize = 1
  LegacyEnd = 1
  MaxRuns <- Runs
SPECIFICATION LSpec
INVARIANT BooksBalance   
 
CHECK_DEADLOCK FALSE
