SPECIFICATION Spec
CONSTANTS
  MAX_CHALLENGE_LIFETIME = 2
  MAX_TRACKED_PAYMENTS = 3
  ZeroNonce = ZeroNonce
  ZeroHash = ZeroHash
  n1 = n1  n2 = n2  n3 = n3
  m1 = m1  m2 = m2
  a1 = a1  a2 = a2
  usdc = usdc  other = other
  shop = shop  rival = rival  me = me
  This = me
  NoSigner = NoSigner
  Nonces <- MCNonces
  Asset = usdc
  Addresses = {shop, rival, me}
  Merchants = {m1, m2}
  Agents = {a1, a2}
  Tokens = {usdc, other}
  Challenges <- FundsChallenges
  Batches <- DishonestBatches
  Configs <- FundsConfigs
  Deposits = {2}
  MaxFunded <- TwoEach
  MaxTime = 3
INVARIANTS PaidAgainOnlyAsItExpires FundsAccountedFor ProofsTellTheTruth StopCanBeAnnounced
CHECK_DEADLOCK FALSE
