SPECIFICATION Spec
CONSTANTS
  Lines = {a, b, x}
  BadLines = {x}
  DriftLines = {}
  Limit = 1
  Fences = {f1, f2, f3}
  NoFence = NoFence
  Procs = {p, q}
  MaxAttempts = 1
  SourceConfigs = {"ready", "unsupported"}
  Edits = {"append", "truncate", "replace"}
  MaxLen = 2
  MaxEdits = 2
  MaxFaults = 1
SYMMETRY Symmetry
INVARIANTS ReadsNotTorn EvidenceCoversCursor NoRejectedLineStored
PROPERTIES CursorMovesForward ImplementsEvidenceLog
