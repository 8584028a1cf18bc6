CONSTANTS
  h1 = h1
  h2 = h2
  Events = {e1, e2}
  Handlers <- TwoHandlers
  Dispatchers = {d1, d2}
  Once = {}
  Nobody = Nobody
  BatchSize = 2
  MaxRetries = 2
  MaxRows = 3
  MaxCrashes = 1
SPECIFICATION FairSpec
INVARIANT DeliverySound GivenUpIsKept
PROPERTY EmittedSettlesOrStrands
