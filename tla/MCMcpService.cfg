SPECIFICATION Spec
CONSTANTS
  r1 = r1
  r2 = r2
  h1 = h1
  Sessions = {s1, s2, s3}
  Calls = {c1, c2, c3}
  None = None
  References = {r1, r2}
  Hashes = {h1, h2}
  RefOf <- OneReference
  Requests <- MixedRequests
  ConfiguredPolicy = 2
  AllowedSources = {"git", "process"}
  ProcessEnabled = FALSE
  MaxConcurrent = 2
  MaxStates = 2
  MaxAudits = 1
SYMMETRY Symmetry
INVARIANTS CachesBounded SlotsMatchCalls
PROPERTIES StateKept
