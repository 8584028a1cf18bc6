CONSTANTS
  Procs = {p1, p2}
  Viewers = {"owner", "fan"}
  Products = {x1, x2}
  MaxCalls <- Requests
  MaxMinutes = 1
  Scenes <- Episodes
  NoProc = NoProc
SPECIFICATION Spec
INVARIANT LiveSound GhostsNeedOverlap
PROPERTY ChatEndsWithStream
CHECK_DEADLOCK FALSE
