SPECIFICATION Spec
CONSTANTS
  h1 = h1  h2 = h2  token = token  alice = alice  bob = bob
  None = None
  Handlers = {h1, h2}
  Tokens = {token}
  Accounts = {alice, bob}
  Versions = {0, 1}
  Minimums = {0, 2}
  DevAccount <- MCAccount
  JwtAccount <- MCAccount
  Configurations <- MCConfigurations
  Lasting = {}
  Expiry <- MCExpiry
  Leeway = 0
  MaxClock = 1
  MaxWrites = 2
SYMMETRY MCSymmetry
INVARIANTS TypeOK ServedVouched RefusedHonestly CacheTrue
