SPECIFICATION FairSpec
CONSTANTS
  Lines = {a, b, d}
  BadLines = {}
  DriftLines = {d}
  Limit = 2
  Fences = {f1, f2}
  NoFence = NoFence
  Procs = {p}
  MaxAttempts = 2
  SourceConfigs = {"ready", "disabled"}
  Edits = {"append", "truncate", "replace"}
  MaxLen = 2
  MaxEdits = 4
  MaxFaults = 1
INVARIANTS NoRejectedLineStored QuarantineMatchesOutcome
PROPERTY EventuallyCaughtUp
