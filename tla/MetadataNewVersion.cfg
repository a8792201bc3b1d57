SPECIFICATION Spec
CONSTANTS
  c1 = c1  c2 = c2  p1 = p1  p2 = p2  v1 = v1  v2 = v2  linux = linux  darwin = darwin
  Nobody = Nobody  None = None  Junk = Junk
  Callers = {c1, c2}
  Providers = {p1}
  Versions = {v1, v2}
  Platforms = {linux}
  Listings <- OneListing
  Freshness = 2
  Backoff = 1
  MaxFailures = 1
  MaxNow = 2
  MaxFaults = 0
  MaxDisconnects = 0
  MaxRestarts = 0
  FirstRun = TRUE
  Operations = {"version"}
PROPERTIES NewVersionFound
