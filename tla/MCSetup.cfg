SPECIFICATION Spec
CONSTANTS
  Options = {a, b}
  UserActs = {"modify", "delete", "create", "register"}
  MaxEdits = 2
  MaxFaults = 3
INVARIANTS NoDeadEnd
PROPERTIES UserFilesKept FailedInstallUndone OutcomesTrue
