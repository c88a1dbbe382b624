SPECIFICATION MCSpec
CONSTANTS
  r1 = r1  r2 = r2  r3 = r3
  data = data  form = form
  s1 = s1  s2 = s2
  alice = alice  bob = bob
  lower = lower  upper = upper
  cron = cron  hand = hand
  Requests = {r1, r3}
  Resources = {data, form}
  ResourceOf <- MCResourceOf
  Chains = {"stellar"}
  Serials = {s1, s2}
  Payments <- MCPayments
  NoPayment = NoPayment
  Spellings = {lower, upper}
  Canonical = lower
  HonestFacilitator = FALSE
  DurableRecord = TRUE
  MaxRestarts = 1
  Runs = {cron, hand}
  ByHand = {hand}
  PLACES = 2
  PAGE = 2
  SCAN = 2
  WINDOW = 2
  CREATED = 2
  Settings = {0, 2}
  MaxLedger = 5
  MaxFailures = 1
INVARIANTS ReleasedOnSettlement LossIsReported
PROPERTY CatchesUp
CHECK_DEADLOCK FALSE
