CONSTANTS
  p1 = p1
  t1 = t1
  r1 = r1
  r2 = r2
  c1 = c1
  c2 = c2
  j1 = j1
  j2 = j2
  j3 = j3
  Projects = {p1}
  Topics = {t1}
  Jobs = {j1, j2, j3}
  Replicas = {r1, r2}
  Callers = {c1, c2}
  AdminTargets = {"posted_to_wordpress", "review_pending", "published"}
  MaxStalled = 0
  MaxAttempts = 1
  MaxFaults = 0
  ProjectOf <- OneTopic
  TopicOf <- SameTopic
  HomeOf <- AllOnFirst
  NoReplica = NoReplica
  NoJob = NoJob
  Unborn = Unborn
  Deleted = Deleted
CHECK_DEADLOCK FALSE
SPECIFICATION Spec
SYMMETRY Alike
INVARIANT
  LiveJobsBounded
