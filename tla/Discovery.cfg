SPECIFICATION Spec
CONSTANTS
  None = None
  Callers = {c1, c2}
  Hosts = {h}
  Origins = {o1, o2}
  Ttl = 3
  Backoff = 2
  Timeout = 1
  MaxNow = 7
  MaxMoves = 1
  MaxDrops = 1
  MaxRedirects = 2
INVARIANT RequestsConfined
PROPERTIES DiscoverySpaced OriginKept MoveFollowed DiscoverEnds
