----------------------------- MODULE MCProvisioning -----------------------------
(***************************************************************************)
(* Instances of Provisioning for TLC.  A row created from Complete can be  *)
(* provisioned until it is moved to the method whose user name it lacks;   *)
(* one created from MoveToSoftaculous cannot until it becomes manual.      *)
(***************************************************************************)
EXTENDS Provisioning

CONSTANTS p1, p2, r1, r2, c1, c2, i1, i2

Body(project, method, set, clear) ==
  [project |-> project, method |-> method, set |-> set, clear |-> clear]

Complete == Body(p1, "manual", {"wpSiteUrl"}, {})
MoveToSoftaculous == Body(p2, "softaculous_api", {}, {})
MoveProject == Body(p2, Keep, {"wpSiteUrl"}, {})

TwoInputs == {Complete, MoveToSoftaculous}
MovingInputs == {Complete, MoveProject}

OnFirst == [c \in Callers |-> r1]
OneEach == [c \in Callers |-> IF c = c1 THEN r1 ELSE r2]
================================================================================
