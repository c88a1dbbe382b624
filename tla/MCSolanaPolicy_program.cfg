SPECIFICATION MCSpec
CONSTANTS
  MAX_CHALLENGE_LIFETIME = 2
  MAX_TRACKED_PAYMENTS = 3
  MAX_OWNER_VALIDITY = 2
  MAX_MERCHANTS = 2
  ZeroNonce = ZeroNonce
  ZeroHash = ZeroHash
  n1 = n1  n2 = n2
  m1 = m1  m2 = m2
  a1 = a1
  shop = shop
  data = data  form = form
  b1 = b1  b2 = b2
  r1 = r1  r2 = r2
  This = This
  NoSigner = NoSigner
  NoArg = NoArg
  Merchants = {m1, m2}
  Agents = {a1}
  Addresses = {shop, This}
  Nonces = {n1, n2}
  Digests = {data, form}
  Requests = {r1, r2}
  DigestOf <- MCDigestOf
  Shop = m1
  FeePayer = shop
  ShopAddress = shop
  Price = 1
  Blockhashes = {b1, b2}
  NoTransaction = NoTransaction
  Challenges <- MCChallenges
  Forged <- MCForged
  Configs <- MCConfigs
  Layouts <- MCLayouts
  Signings <- MCSignings
  Deposits = {3}
  MaxSigned = 3
  MaxFunded = 3
  MaxTime = 4
INVARIANTS CallsWereSigned PaymentsWereSigned MerchantsAreTheOwners FundsAccountedFor SettledIsPaid AnswersAreRead
PROPERTY KeepsMandate
SYMMETRY Alike
CHECK_DEADLOCK FALSE
