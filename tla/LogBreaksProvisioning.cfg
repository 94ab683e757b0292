CONSTANTS
  p1 = p1
  p2 = p2
  r1 = r1
  r2 = r2
  c1 = c1
  c2 = c2
  i1 = i1
  i2 = i2
  Projects = {p1, p2}
  Installations = {i1}
  Callers = {c1}
  Replicas = {r1}
  Inputs <- MovingInputs
  HomeOf <- OnFirst
  AdminTargets = {"failed"}
  MaxFaults = 1
  Keep = Keep
  Unborn = Unborn
  Deleted = Deleted
  NoInstallation = NoInstallation
CHECK_DEADLOCK FALSE
SPECIFICATION Spec
PROPERTY
  TransitionsLegal
