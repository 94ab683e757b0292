-------------------------------- MODULE MCPanel --------------------------------
(* A small instance of Panel: a tab, and scripts beside it. *)
EXTENDS Panel

CONSTANTS t1, f1, f2, s1, da, db, k1, k2

Sent(scope, admin, system) == [scope |-> scope, admin |-> admin, system |-> system]
Human == Sent("none", k1, Unset)
Asking(op, fields, arg, headers) ==
  [op |-> op, fields |-> fields, arg |-> arg, headers |-> headers]

\* A tab whose form sends up to two requests, the second maybe before the answer to
\* the first, or one.
TwoFetches == [t \in Tabs |-> {f1, f2}]
OneFetch == [t \in Tabs |-> {f1}]
MCDomains == {da, db}

Creates(ds) == {Asking("create", {"project"}, d, Human) : d \in ds}
ScriptAsks ==
  {Asking("update", {"project"}, da, Sent("system", Unset, k2)),
   Asking("remove", {}, NoArg, Human),
   Asking("connect", {}, "connected", Sent("system", k1, k1)),
   Asking("update", {"project"}, NoArg, Human),
   Asking("update", {"status"}, NoArg, Human)}

MCAsks == [c \in Clients |-> CASE c = f1 -> Creates({da})
                               [] c = f2 -> Creates({da, db})
                               [] c = s1 -> ScriptAsks]
OneRequest == [c \in Clients |-> 1]
================================================================================
