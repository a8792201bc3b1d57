SPECIFICATION Spec
CONSTANTS
  c1 = c1  c2 = c2  p1 = p1  p2 = p2  v1 = v1  v2 = v2  linux = linux  darwin = darwin
  Nobody = Nobody  None = None  Junk = Junk
  Callers = {c1, c2}
  Providers = {p1}
  Versions = {v1}
  Platforms = {linux}
  Listings <- OneListing
  Freshness = 1
  Backoff = 1
  MaxFailures = 1
  MaxNow = 0
  MaxDisconnects = 1
  MaxRestarts = 0
  MaxFaults = 1
  FirstRun = TRUE
  Operations = {"version", "sync"}
PROPERTIES CallEnds
