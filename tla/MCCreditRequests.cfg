CONSTANTS
  ra = ra
  rb = rb
  ca = ca
  Redeems = {ra, rb}
  Recharges = {ca}
  RedeemAmount <- RedeemAmounts
  RechargeAmount <- RechargeAmounts
  Procs = {p1, p2}
  LastDay = 3
  MaxCrashes = 1
SPECIFICATION FairSpec
INVARIANT  RewardsSound
 
CHECK_DEADLOCK FALSE
