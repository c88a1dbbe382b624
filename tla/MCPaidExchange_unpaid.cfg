SPECIFICATION ExchangeSpec
CONSTANTS
  r1 = r1  r2 = r2  r3 = r3
  data = data  form = form
  s1 = s1  s2 = s2
  alice = alice
  lower = lower  upper = upper
  Requests = {r1, r2}
  Calls = {r1}
  Resources = {data, form}
  ResourceOf <- MCResourceOf
  Chains = {"stellar", "solana"}
  Serials = {s1, s2}
  Payments <- MCPayments
  NoPayment = NoPayment
  Spellings = {lower, upper}
  Canonical = lower
  Preference <- MCPreference
  HonestFacilitator = TRUE
  DurableRecord = FALSE
  MaxRestarts = 1
INVARIANT NotThroughIsUnpaid
CHECK_DEADLOCK FALSE
