SPECIFICATION MCSpec
CONSTANTS
  tab = tab  again = again  reader = reader  one = one  other = other
  BASE = 4
  WIDTH = 2
  CURVE_ORDER = 13
  Tabs = {tab}
  Repeats = {again}
  Servers = {one, other}
  Readers = {reader}
  Fields = {"merchant"}
  CACHE_MS = 1
  MAX_READ = 1
  VALIDITY = 1
  Actions <- MCActions
  SignatureOf <- MCSignatureOf
  NoCall = NoCall
  Nothing = Nothing
  MaxCalls = 2
  Enabled = {"stellar", "solana"}
  MERCHANT_PUBKEY = TRUE
  FirstAccounts <- MCFirstAccounts
  Texts <- MCTexts
  STELLAR_UNIT = 2
  SOLANA_UNIT = 1
  Unknown = Unknown
  Together = 2
  Surprises = 3
INVARIANTS ControlsAreOffered
CHECK_DEADLOCK FALSE
