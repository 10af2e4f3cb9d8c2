SPECIFICATION Spec
CONSTANTS
  first = first
  child = child
  late = late
  unturned = unturned
  orphan = orphan
  Lines = {first, unturned, orphan}
  BadLines = {}
  DriftLines = {}
  Limit = 2
  Fences = {f1, f2}
  NoFence = NoFence
  Attributes <- LineAttributesOf
  SourceKind = "codex_jsonl"
  Project = "project"
  None = None
  Identities = {src}
  VersionIDs = {v1, v2}
  States = {"enabled", "disabled"}
  MaxTime = 1
  Open = Open
  MaxLen = 2
  MaxBuilt = 2
  MaxBytes = 4
  Reserve = 1
  MaxGrowth = 3
  MaxTail = 1
  RefLimit = 1
INVARIANT IncompleteLineageCommits
