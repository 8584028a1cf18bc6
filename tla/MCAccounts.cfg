SYMMETRY Symmetry
CONSTANTS
  Procs = {p1, p2}
  MaxCalls = 4
  Values = {1, 2}
  Deployments = {TRUE, FALSE}
  s1 = s1
  s2 = s2
  Slugs = {s1, s2}
  Products = {x1, x2}
  MaxAddresses = 3
  MaxShopCalls = 7
  Menus <- Workloads
  Nobody = Nobody
SPECIFICATION ShopSpec
INVARIANT AccountSound DeskSound OneDefaultUnlessOverlapping
PROPERTY RetiredStaysRetired 
CHECK_DEADLOCK FALSE
