SPECIFICATION MCSpec
CONSTANTS
  laptop = laptop  phone = phone
  Tabs = {t1, t2}
  Devices = {laptop, phone}
  Counting = {laptop}
  Repeats = {again}
  LIFETIME = 1
  NoAnswer = NoAnswer
  NoList = NoList
  MaxChallenges = 2
  windowMs = 2
  max = 2
  MAX_TRACKED_CALLERS = 1
  Callers = {alice, bob}
  MaxRequests = 6
  MaxClock = 5
INVARIANTS SessionsWereEarned OwnerNotLockedOut RefusedOnlyOverTheLimit AtMostTwiceTheLimit StoresAgree
PROPERTY EveryAttemptEnds
CHECK_DEADLOCK FALSE
