CONSTANTS
  ua = ua
  k1 = k1
  k2 = k2
  k3 = k3
  Users = {ua}
  Keys = {k1, k2, k3}
  NoKey = NoKey
  Procs = {p1}
  NoProc = NoProc
  NoRead = NoRead
  MaxMoney = 3
  Calls <- ReadCalls
SPECIFICATION RSpec
INVARIANT  AlarmsReportHistory
