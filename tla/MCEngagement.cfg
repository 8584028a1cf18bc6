CONSTANTS
  Handlers = {p1, p2}
  Threads = {p1, p2}
  Users = {u1, u2, u3}
  MaxMade <- Requests
  MaxMinutes = 1
  Topics <- Groups
  Fields = {f1, f2}
  Messages = {m1, m2}
  MaxEdits = 2
  MaxSends = 3
SPECIFICATION MCSpec
SYMMETRY Alike
INVARIANT EngagementSound 
PROPERTY DeletedStaysDeleted
CHECK_DEADLOCK FALSE
