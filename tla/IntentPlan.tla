----------------------------- MODULE IntentPlan -----------------------------
(***************************************************************************)
(* _plan of ir/compiler.py: the graph of actions that the deterministic    *)
(* compiler makes of a request. Only two bits of the text decide its       *)
(* shape: whether it asks for a fix and whether it mentions tests.         *)
(***************************************************************************)

ALLOWED_PERMISSIONS == {"READ", "WRITE", "EXECUTE", "NETWORK", "SECRETS", "GIT"}
ALLOWED_ROLES ==
  {"architect", "researcher", "coder", "debugger", "tester", "security", "docs"}

InspectActions == {"inspect", "locate", "analyze"}
FixActions     == {"candidate", "apply_isolated"}
TestActions    == {"focused_tests", "repair", "retest"}
EndActions     == {"verify", "report"}
ActionName     == InspectActions \cup FixActions \cup TestActions \cup EndActions

PlanIds(fix, test) ==
  InspectActions \cup EndActions
    \cup (IF fix THEN FixActions ELSE {})
    \cup (IF fix \/ test THEN TestActions ELSE {})

\* mutant: nothing waits for the second run of the tests.
PlanDepsEager(fix, test) ==
  [a \in PlanIds(fix, test) |->
    CASE a = "inspect" -> {}
      [] a = "locate" -> {"inspect"}
      [] a = "analyze" -> {"locate"}
      [] a = "candidate" -> {"analyze"}
      [] a = "apply_isolated" -> {"candidate"}
      [] a = "focused_tests" -> IF fix THEN {"apply_isolated"} ELSE {"analyze"}
      [] a \in {"repair", "retest"} -> {"focused_tests"}
      [] a = "verify" -> IF fix \/ test THEN {"focused_tests"} ELSE {"analyze"}
      [] a = "report" -> {"verify"}]

\* What an action depends on: each on the one planned before it.
PlanDeps(fix, test) ==
  [a \in PlanIds(fix, test) |->
    CASE a = "inspect" -> {}
      [] a = "locate" -> {"inspect"}
      [] a = "analyze" -> {"locate"}
      [] a = "candidate" -> {"analyze"}
      [] a = "apply_isolated" -> {"candidate"}
      [] a = "focused_tests" -> IF fix THEN {"apply_isolated"} ELSE {"analyze"}
      [] a = "repair" -> {"focused_tests"}
      [] a = "retest" -> {"repair"}
      [] a = "verify" -> IF fix \/ test THEN {"retest"} ELSE {"analyze"}
      [] a = "report" -> {"verify"}]

Agent(a) ==
  CASE a \in {"inspect", "locate"} -> "researcher"
    [] a = "analyze" -> "architect"
    [] a \in FixActions -> "coder"
    [] a \in {"focused_tests", "retest"} -> "tester"
    [] a = "repair" -> "debugger"
    [] a = "verify" -> "security"
    [] a = "report" -> "docs"

Permission(a) ==
  CASE a \in InspectActions \cup EndActions -> "READ"
    [] a \in FixActions \cup {"repair"} -> "WRITE"
    [] a \in {"focused_tests", "retest"} -> "EXECUTE"

\* The fields that validate looks at before the graph.
FieldsOk(fix, test) ==
  \A a \in PlanIds(fix, test) :
    Agent(a) \in ALLOWED_ROLES /\ Permission(a) \in ALLOWED_PERMISSIONS

Plan(fix, test) ==
  [ids |-> PlanIds(fix, test), fieldsOk |-> FieldsOk(fix, test),
   deps |-> PlanDeps(fix, test)]
=============================================================================
