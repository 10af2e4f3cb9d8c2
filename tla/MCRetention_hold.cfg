SPECIFICATION Spec
CONSTANTS
  e2 = e2
  e3 = e3
  c1 = c1
  c2 = c2
  s1 = s1
  s2 = s2
  t1 = t1
  t2 = t2
  w1 = w1
  Evidence = {e1, e2}
  Policies = {c1}
  PolicyOf <- OnePolicy
  SessionOf <- TwoSessions
  TaskOf <- TwoTasks
  Turned <- InTurns
  Revisions = {r1}
  WindowOf <- OneWindow
  Admins = {p}
  Revisited = TRUE
  DefaultKeep = 1
  BatchLimit = 1
  MaxAttempts = 2
  MaxTime = 1
  MaxWrites = 2
  MaxFaults = 0
PROPERTY LegalHoldWins
