CONSTANTS
  p1 = p1
  t1 = t1
  r1 = r1
  r2 = r2
  c1 = c1
  c2 = c2
  j1 = j1
  j2 = j2
  j3 = j3
  Projects = {p1}
  Topics = {t1}
  Jobs = {j1, j2}
  Replicas = {r1, r2}
  Callers = {c1}
  AdminTargets = {"review_pending"}
  MaxStalled = 1
  MaxAttempts = 2
  MaxFaults = 1
  ProjectOf <- OneTopic
  TopicOf <- SameTopic
  HomeOf <- AllOnFirst
  NoReplica = NoReplica
  NoJob = NoJob
  Unborn = Unborn
  Deleted = Deleted
CHECK_DEADLOCK FALSE
SPECIFICATION FairSpec
PROPERTIES
  QueueDrains
  JobSettles
