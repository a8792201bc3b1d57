SPECIFICATION Spec
CONSTANTS
  k1 = k1
  k2 = k2
  a = a
  b = b
  x = x
  y = y
  Keys = {k1, k2}
  Requests = {r1, r2}
  Contents = {a, b}
  Announced <- TwoKeys
  Foreign = {}
  Oversize = {}
  HasBundle = FALSE
  MaxDownloads = 1
  MaxVerified = 1
  MaxFiles = 1
  MaxCrashes = 1
  Nobody = Nobody
  NoFile = NoFile
  NoEntry = NoEntry
  Partial = Partial
  Short = Short
  Unused = Unused
INVARIANTS
  CacheDurable
  TempsOwned
  PermitsConserved
PROPERTIES
  ImplementsArchiveCache
  RequestEnds
