----------------------------- MODULE AgentLoop -----------------------------
(***************************************************************************)
(* The bounded loop of agents/loop.py between a model and the tools, under *)
(* the contracts of agents/roles.py, and Runtime._agent, which opens one   *)
(* such loop per attempt. What the model answers is left open: it is not   *)
(* trusted. Another thread may set the cancel token between any two steps. *)
(***************************************************************************)
EXTENDS Naturals

CONSTANTS
  Asked,     \* values of AgentLoop(role=...), known or not
  MaxIters,  \* AgentLoop.max_iters, Runtime.max_iterations
  MaxHeal    \* Runtime.max_heal

LimitAssumption == MaxIters \in Nat \ {0} /\ MaxHeal \in Nat \ {0}

\* The tools of build_tools. Its entry "finish" is never looked up: the loop
\* ends on that type before.
ReadTools == {"inspect_repository", "list_files", "search_code", "read_file",
              "search_symbols", "read_symbol", "inspect_dependencies", "inspect_tests"}
ExecTools == {"run_tests", "run_python"}
GitTools  == {"git_status", "git_diff"}
Tool      == ReadTools \cup ExecTools \cup GitTools \cup {"apply_patch"}

Permissions(t) ==
  CASE t \in ReadTools -> {"READ"}
    [] t \in ExecTools -> {"EXECUTE"}
    [] t \in GitTools -> {"GIT", "READ"}
    [] t = "apply_patch" -> {"WRITE"}

RequiresArgs == {"search_code", "read_file", "read_symbol", "apply_patch", "run_python"}

DANGEROUS == {"SECRETS", "NETWORK"}

Contract(permissions, tools) == [permissions |-> permissions, tools |-> tools]

ROLES ==
  [architect |-> Contract({"READ"},
     {"inspect_repository", "inspect_dependencies", "list_files", "search_symbols"}),
   researcher |-> Contract({"READ"},
     ReadTools \ {"inspect_dependencies"}),
   coder |-> Contract({"READ", "WRITE"},
     {"read_file", "search_code", "list_files", "apply_patch", "search_symbols"}),
   debugger |-> Contract({"READ", "WRITE", "EXECUTE"},
     {"read_file", "search_code", "apply_patch", "run_tests", "run_python",
      "inspect_tests", "inspect_repository", "list_files"}),
   tester |-> Contract({"READ", "EXECUTE"},
     {"inspect_tests", "run_tests", "read_file"}),
   security |-> Contract({"READ"},
     {"read_file", "inspect_repository", "list_files"}),
   docs |-> Contract({"READ"},
     {"read_file", "inspect_repository"})]

\* What the model may answer, as far as the loop distinguishes it; full tells
\* whether the required arguments are there.
Answer ==
  [type : Tool \cup {"finish", "malformed", "unknown"}, full : {TRUE}]
    \cup [type : RequiresArgs, full : {FALSE}]

VARIABLES
  asked,    \* the role asked for
  pc,       \* where the worker is; "out": no agent is open
  i,        \* iterations of the open loop
  answer,   \* what the model said last
  token,    \* the cancel token
  heal, ran, testsOk,   \* ctx["heal_used"], _agent_ran, ctx["tests_ok"]
  calls,    \* history: calls of the model, counted up to CallCap
  late      \* history: calls of model, tools and tests begun after the token,
            \* counted up to 2

agent   == <<heal, ran, testsOk>>
history == <<calls, late>>
vars    == <<asked, pc, i, answer, token, agent, history>>

Init ==
  /\ asked \in Asked /\ pc = "out" /\ i = 0
  /\ answer = [type |-> "malformed", full |-> TRUE]
  /\ token = FALSE /\ heal = 0 /\ ran = FALSE /\ testsOk = FALSE
  /\ calls = 0 /\ late = 0

Role == IF asked \in DOMAIN ROLES THEN ROLES[asked] ELSE ROLES["debugger"]

\* mutant: the role's list of tools is not consulted.
RoleAllowsPerm(role, tool, perm) == perm \in role.permissions

RoleAllows(role, tool, perm) == tool \in role.tools /\ perm \in role.permissions

\* Bound: the histories count no further than the properties look.
CallCap == MaxHeal * MaxIters + 1

Goto(p)   == pc' = p
Begin     == late' = IF token /\ late < 2 THEN late + 1 ELSE late
NextRound == i' = i + 1 /\ Goto("top")
-----------------------------------------------------------------------------
(* _agent up to the loop. Its early returns change nothing.                *)

\* mutant: attempts are not counted.
EnterUncounted ==
  /\ pc = "out" /\ ~token
  /\ ~(ran /\ testsOk) /\ ~(heal >= MaxHeal /\ ran)
  /\ ran' = TRUE /\ i' = 0 /\ Goto("top")
  /\ UNCHANGED <<asked, answer, token, heal, testsOk, history>>

Enter ==
  /\ pc = "out" /\ ~token
  /\ ~(ran /\ testsOk) /\ ~(heal >= MaxHeal /\ ran)
  /\ heal' = heal + 1 /\ ran' = TRUE
  /\ i' = 0 /\ Goto("top")
  /\ UNCHANGED <<asked, answer, token, testsOk, history>>
-----------------------------------------------------------------------------
(* AgentLoop.run.                                                          *)

\* The head of the loop: limit, then token. A cancelled loop makes _agent raise.
Top ==
  /\ pc = "top"
  /\ Goto(IF i = MaxIters THEN "after" ELSE IF token THEN "out" ELSE "ask")
  /\ UNCHANGED <<asked, i, answer, token, agent, history>>

Ask ==
  /\ pc = "ask"
  /\ calls' = IF calls < CallCap THEN calls + 1 ELSE calls
  /\ Begin /\ Goto("model")
  /\ UNCHANGED <<asked, i, answer, token, agent>>

ModelAnswers(a) ==
  /\ pc = "model"
  /\ answer' = a /\ Goto("screen")
  /\ UNCHANGED <<asked, i, token, agent, history>>

\* A provider that cannot be reached raises out of _agent.
ModelRaises ==
  /\ pc = "model"
  /\ Goto("out")
  /\ UNCHANGED <<asked, i, answer, token, agent, history>>

\* A known tool with its arguments.
Runnable == answer.type \in Tool /\ answer.full

\* perm is whatever next(iter(...)) yields of the tool's permissions.
Permitted(perm) == perm \notin DANGEROUS /\ RoleAllows(Role, answer.type, perm)

\* mutant: a refused answer does not use up an iteration.
RefuseFree(perm) ==
  /\ pc = "screen" /\ answer.type # "finish"
  /\ Runnable => perm \in Permissions(answer.type) /\ ~Permitted(perm)
  /\ Goto("top")
  /\ UNCHANGED <<asked, i, answer, token, agent, history>>

\* No JSON, an unknown tool, missing arguments, or not permitted: the model is
\* told so and asked again.
Refuse(perm) ==
  /\ pc = "screen" /\ answer.type # "finish"
  /\ Runnable => perm \in Permissions(answer.type) /\ ~Permitted(perm)
  /\ NextRound
  /\ UNCHANGED <<asked, answer, token, agent, history>>

Finish ==
  /\ pc = "screen" /\ answer.type = "finish"
  /\ Goto("after")
  /\ UNCHANGED <<asked, i, answer, token, agent, history>>

Admit(perm) ==
  /\ pc = "screen" /\ Runnable
  /\ perm \in Permissions(answer.type) /\ Permitted(perm)
  /\ Goto("check")
  /\ UNCHANGED <<asked, i, answer, token, agent, history>>

\* mutant: the token is not looked at between the model and the tool.
CheckNothing ==
  /\ pc = "check"
  /\ Goto("tool")
  /\ UNCHANGED <<asked, i, answer, token, agent, history>>

\* The token again: the model may have taken long.
Check ==
  /\ pc = "check"
  /\ Goto(IF token THEN "out" ELSE "tool")
  /\ UNCHANGED <<asked, i, answer, token, agent, history>>

ToolBegins ==
  /\ pc = "tool"
  /\ Begin /\ Goto("running")
  /\ UNCHANGED <<asked, i, answer, token, agent, calls>>

\* With a result or, caught, an exception. No time limit is enforced.
ToolEnds ==
  /\ pc = "running"
  /\ NextRound
  /\ UNCHANGED <<asked, answer, token, agent, history>>
-----------------------------------------------------------------------------
(* The rest of _agent, and what happens around it.                         *)

\* The loop returned without noticing a cancellation.
After ==
  /\ pc = "after"
  /\ Goto(IF token THEN "out" ELSE "tests")
  /\ UNCHANGED <<asked, i, answer, token, agent, history>>

TestsBegin ==
  /\ pc = "tests"
  /\ Begin /\ Goto("testing")
  /\ UNCHANGED <<asked, i, answer, token, agent, calls>>

TestsEnd(ok) ==
  /\ pc = "testing"
  /\ testsOk' = ok /\ Goto("out")
  /\ UNCHANGED <<asked, i, answer, token, heal, ran, history>>

\* Cancelled, timed out, or pytest could not be started.
TestsRaise ==
  /\ pc = "testing"
  /\ Goto("out")
  /\ UNCHANGED <<asked, i, answer, token, agent, history>>

\* A run_tests task of the plan, between two agents.
RunTests(ok) ==
  /\ pc = "out" /\ ~token
  /\ testsOk' = ok
  /\ UNCHANGED <<asked, pc, i, answer, token, heal, ran, history>>

SetToken ==
  /\ ~token
  /\ token' = TRUE
  /\ UNCHANGED <<asked, pc, i, answer, agent, history>>

\* Inside run_pytest, called by the tool or by _agent.
InPytest == pc = "testing" \/ (pc = "running" /\ answer.type = "run_tests")

OtherStep ==
  \/ Top \/ Ask \/ ModelRaises \/ Finish \/ Check
  \/ \E a \in Answer : ModelAnswers(a)
  \/ \E p \in {"READ", "WRITE", "EXECUTE", "GIT"} : Refuse(p) \/ Admit(p)
  \/ ToolBegins \/ (ToolEnds /\ ~InPytest)
  \/ After \/ TestsBegin

PytestReturns ==
  \/ ToolEnds /\ InPytest
  \/ TestsRaise
  \/ \E ok \in BOOLEAN : TestsEnd(ok)

Next ==
  \/ Enter \/ SetToken \/ OtherStep \/ PytestReturns
  \/ \E ok \in BOOLEAN : RunTests(ok)

Spec == Init /\ [][Next]_vars

\* Requests to providers have timeouts, run_python too; the other tools wait for
\* nothing. run_pytest is owed nothing: what the tests print is read without a
\* limit, and a process they left behind may hold the pipe open (exec.py:107).
\* What _agent emits before and after the loop is part of Enter and TestsEnd, which
\* are owed nothing either: a client may hold it up (EventStream).
FairSpec == Spec /\ WF_vars(OtherStep)
-----------------------------------------------------------------------------
(* Properties.                                                             *)

Pc == {"out", "top", "ask", "model", "screen", "check", "tool", "running",
       "after", "tests", "testing"}

(* Types; iterations and attempts stay within their limits.                *)
TypeOK ==
  /\ asked \in Asked /\ pc \in Pc
  /\ i \in 0 .. MaxIters
  /\ answer \in Answer
  /\ token \in BOOLEAN /\ ran \in BOOLEAN /\ testsOk \in BOOLEAN
  /\ heal \in 0 .. MaxHeal
  /\ calls \in 0 .. CallCap /\ late \in 0 .. 2

(* "Permissions never escalate from a model proposal" (roles.py:1): every  *)
(* permission of every tool that runs is one of the role's, although the   *)
(* loop looks at one of the tool's permissions only (loop.py:71).          *)
PermissionsNeverEscalate ==
  pc = "running" => Permissions(answer.type) \subseteq Role.permissions

(* A task makes at most max_heal * max_iters calls of the model, however   *)
(* its attempts end: finished, out of iterations, by an exception of the   *)
(* provider, by failing tests.                                             *)
CallBudget == calls <= MaxHeal * MaxIters

(* After the token is set at most one more thing is begun: a call of the   *)
(* model, a tool or the tests. The two checks of the loop and the one      *)
(* after it leave room for one race, not for two.                          *)
AtMostOneLateStep == late <= 1

(* An agent that was opened comes to an end, whatever the model answers,   *)
(* unless it waits for tests that never let go of their pipe.              *)
AgentEnds == []<>(pc = "out") \/ <>[]InPytest
=============================================================================
