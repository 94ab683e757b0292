CONSTANTS
  p1 = p1
  t1 = t1
  r1 = r1
  r2 = r2
  c1 = c1
  c2 = c2
  j1 = j1
  Projects = {p1}
  Topics = {t1}
  Jobs = {j1}
  Replicas = {r1, r2}
  Callers = {c1, c2}
  AdminTargets = {"pending", "review_pending", "published"}
  MaxAttempts = 2
  MaxStalled = 1
  MaxFaults = 1
  ProjectOf <- OneTopic
  TopicOf <- SameTopic
  HomeOf <- AllOnFirst
  NoReplica = NoReplica
  NoJob = NoJob
  Unborn = Unborn
  Deleted = Deleted
CHECK_DEADLOCK FALSE
SPECIFICATION HistorySpec
SYMMETRY CallersAlike
INVARIANTS
  ContentBehindStatus
  UnqueuedIsAttended
  Provenance
PROPERTIES
  ImplementsProvenance
