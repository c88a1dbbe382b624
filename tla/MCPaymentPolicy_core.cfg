SPECIFICATION Spec
CONSTANTS
  MAX_CHALLENGE_LIFETIME = 2
  MAX_TRACKED_PAYMENTS = 3
  ZeroNonce = ZeroNonce
  ZeroHash = ZeroHash
  n1 = n1  n2 = n2  n3 = n3
  m1 = m1  m2 = m2
  a1 = a1  a2 = a2
  usdc = usdc  other = other
  shop = shop  rival = rival  me = me
  This = me
  NoSigner = NoSigner
  Nonces <- MCNonces
  Asset = usdc
  Addresses = {shop, rival, me}
  Merchants = {m1}
  Agents = {a1}
  Tokens = {usdc}
  Challenges <- CoreChallenges
  Batches <- OneTransfer
  Configs <- CoreConfigs
  Deposits = {6}
  MaxFunded <- SixUnits
  MaxTime = 6
INVARIANTS TypeOK RecentPaymentsHeld ForgottenHaveExpired ChallengePaidOnce CountCeiling TotalCeiling FreeSlotUnderLimit
PROPERTY KeepsMandate
CHECK_DEADLOCK FALSE
