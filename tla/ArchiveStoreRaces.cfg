SPECIFICATION Spec
CONSTANTS
  k1 = k1
  k2 = k2
  a = a
  b = b
  x = x
  y = y
  Keys = {k1}
  Requests = {r1, r2}
  Contents = {a, b, x, y}
  Announced <- OneKey
  Foreign = {x, y}
  Oversize = {y}
  HasBundle = TRUE
  MaxDownloads = 1
  MaxVerified = 1
  MaxFiles = 2
  MaxCrashes = 0
  Nobody = Nobody
  NoFile = NoFile
  NoEntry = NoEntry
  Partial = Partial
  Short = Short
  Unused = Unused
SYMMETRY RequestSymmetry
INVARIANTS
  ReturnedFileVerified
  MemoSound
  ServedBytesAnnounced
  NoRedundantDownload
PROPERTIES
  ImplementsArchiveCache
