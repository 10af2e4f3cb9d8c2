SPECIFICATION FairSpec
CONSTANTS
  e2 = e2
  e3 = e3
  c1 = c1
  c2 = c2
  s1 = s1
  s2 = s2
  t1 = t1
  t2 = t2
  w1 = w1
  Evidence = {e1, e2, e3}
  Policies = {c1, c2}
  PolicyOf <- TwoPolicies
  SessionOf <- TwoSessions
  TaskOf <- TwoTasks
  Turned <- InTurns
  Revisions = {r1}
  WindowOf <- OneWindow
  Admins = {p}
  Revisited = FALSE
  DefaultKeep = 1
  BatchLimit = 2
  MaxAttempts = 2
  MaxTime = 1
  MaxWrites = 4
  MaxFaults = 0
INVARIANTS RevisionsHaveEvidence LineageMatchesEvidence
PROPERTIES EventuallyPurged RevisionsOutliveEvidence
