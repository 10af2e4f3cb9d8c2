CONSTANTS
  None = None
  Open = Open
  Identities = {"P", "Q", "A"}
  VersionIDs = {"V"}
  States = {"s1", "s2"}
  FirstState = "s1"
  MaxTime = 70
  Work <- Kinds
  ProjectOf <- Projects
  SourceOf <- Sources
  FirstIDs <- First
  Histories <- Relapse
  Arrivals <- Late
  Requests <- Asked
  Duration = 2
  ChangeTimes <- Changes
  FeedbackTimes = {62, 63}
  Cooldown = 2
  RecommendationIDs <- IDs
  MaxLate = 1
  MaxRevisions = 2
SPECIFICATION Spec
INVARIANT
  WorsenedIsWorse
CHECK_DEADLOCK FALSE
