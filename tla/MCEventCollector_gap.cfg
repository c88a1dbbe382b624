SPECIFICATION CollectorSpec
CONSTANTS
  cron = cron
  Runs = {cron}
  ByHand = {}
  PLACES = 3
  PAGE = 2
  SCAN = 2
  WINDOW = 2
  CREATED = 2
  Settings = {2}
  MaxLedger = 5
  MaxFailures = 0
INVARIANT GapsWereUnread
CHECK_DEADLOCK FALSE
