------------------------------ MODULE Pipeline ------------------------------
(***************************************************************************)
(* What Runtime._handle makes of the tasks of a plan, and what execute     *)
(* concludes from it: the handlers of one intent share the workspace and   *)
(* ctx, and the engine runs them under the plan's graph. The engine is     *)
(* taken for what it promises (TaskGraph, which Kernel implements): any    *)
(* number of retries, but never against the dependencies.                  *)
(***************************************************************************)
EXTENDS IntentPlan, Naturals

CONSTANTS
  MaxHeal,  \* Runtime.max_heal
  MaxTree   \* bound: versions of the workspace

ASSUME PipelineAssumption == MaxHeal \in Nat \ {0} /\ MaxTree \in Nat \ {0}

VARIABLES
  fix, test,  \* what the request asks for
  deps,       \* the graph of the plan
  status,     \* of the tasks, as TaskGraph has it
  stage,      \* where the running handler is: "none", "begun", "open" while an
              \* agent or the tests are at work in the workspace, "known" when
              \* their result is in ctx, the diff not yet
  tree,       \* the content of the workspace: a new number for every change
  heals,      \* ctx["heal_used"]
  ran,        \* Runtime._agent_ran
  testsOk,    \* ctx["tests_ok"]; None before the first run
  verifyOk,   \* ctx["verify_ok"]; absent is FALSE
  diff,       \* the content that ctx["diff"] describes
  tested,     \* history: the last test run that ended, its content and result
  audited,    \* history: the last audit, its content and result
  outcome     \* what execute concludes

ctx  == <<heals, ran, testsOk, verifyOk, diff, tested, audited>>
plan == <<fix, test, deps>>
pipeline == <<plan, status, stage, tree, ctx, outcome>>

Engine == INSTANCE TaskGraph WITH Task <- ActionName

Planned   == PlanIds(fix, test)
Never == [tree |-> 0, ok |-> FALSE]

PipelineInit ==
  /\ fix \in BOOLEAN /\ test \in BOOLEAN
  /\ deps = [a \in ActionName |-> IF a \in Planned THEN PlanDeps(fix, test)[a] ELSE {}]
  /\ status = [a \in ActionName |-> "waiting"]
  /\ stage = "none" /\ tree = 1
  /\ heals = 0 /\ ran = FALSE /\ testsOk = "None" /\ verifyOk = FALSE
  /\ diff = 0 /\ tested = Never /\ audited = Never /\ outcome = "none"

\* The kinds of actions _handle tells apart.
AgentTask == {"candidate", "apply_isolated", "repair"}
TestTask  == {"focused_tests", "retest"}
\* propose_patch is not destructive for the engine.
Destructive == {"apply_isolated", "repair"}

Running(a) == status[a] = "running"
-----------------------------------------------------------------------------
(* A handler begins and ends.                                              *)

\* No plan has two tasks that may run at the same time.
Begin(a) ==
  /\ a \in Planned /\ stage = "none" /\ outcome = "none"
  /\ Engine!Begin(a)
  /\ stage' = IF a \in TestTask THEN "open" ELSE "begun"
  /\ UNCHANGED <<plan, tree, ctx, outcome>>

Finish(a) == Engine!Complete(a) /\ stage' = "none"
Fail(a)   == Engine!GiveUp({a}) /\ stage' = "none"

\* A handler that raised or reported failed is retried or given up.
Requeue(a) ==
  /\ stage' = "none"
  /\ Engine!GiveUp({a}) \/ (a \notin Destructive /\ Engine!ComeBack(a))

\* Any call of a handler may raise; a timeout of the tests or a cancel does.
\* What was written into the workspace and ctx before remains.
Raise(a) ==
  /\ Running(a) /\ Requeue(a)
  /\ UNCHANGED <<plan, tree, ctx, outcome>>

\* inspect_repo, search_code, analyze_deps and report leave ctx alone, but
\* for the code graph. report says ok = False without failing.
Plain(a) ==
  /\ Running(a) /\ a \notin AgentTask \cup TestTask \cup {"verify"}
  /\ Finish(a)
  /\ UNCHANGED <<plan, tree, ctx, outcome>>
-----------------------------------------------------------------------------
(* _agent.                                                                 *)

AlreadyVerified == ran /\ testsOk = "True"

HealsSpent == heals >= MaxHeal /\ ran

Skip(a) ==
  /\ Running(a) /\ a \in AgentTask /\ stage = "begun" /\ AlreadyVerified
  /\ Finish(a)
  /\ UNCHANGED <<plan, tree, ctx, outcome>>

HealLimit(a) ==
  /\ Running(a) /\ a \in AgentTask /\ stage = "begun" /\ ~AlreadyVerified
  /\ HealsSpent
  /\ Requeue(a)
  /\ UNCHANGED <<plan, tree, ctx, outcome>>

OpenAgent(a) ==
  /\ Running(a) /\ a \in AgentTask /\ stage = "begun" /\ ~AlreadyVerified
  /\ ~HealsSpent
  /\ heals' = heals + 1 /\ ran' = TRUE
  /\ stage' = "open"
  /\ UNCHANGED <<plan, status, tree, testsOk, verifyOk, diff, tested, audited, outcome>>

\* The agent's tools, and the tests themselves, write into the workspace.
Write ==
  /\ stage = "open" /\ tree < MaxTree
  /\ tree' = tree + 1
  /\ UNCHANGED <<plan, status, stage, ctx, outcome>>
-----------------------------------------------------------------------------
(* run_tests, the end of _agent, verify.                                   *)

\* mutant: a failing run does not take back an earlier success.
TestsStick ==
  /\ stage = "open"
  /\ \E ok \in BOOLEAN :
       /\ testsOk' = IF ok \/ testsOk = "True" THEN "True" ELSE "False"
       /\ tested' = [tree |-> tree, ok |-> ok]
  /\ stage' = "known"
  /\ UNCHANGED <<plan, status, tree, heals, ran, verifyOk, diff, audited, outcome>>

\* run_pytest has returned. The same tree may pass once and fail once.
Tests ==
  /\ stage = "open"
  /\ \E ok \in BOOLEAN :
       /\ testsOk' = IF ok THEN "True" ELSE "False"
       /\ tested' = [tree |-> tree, ok |-> ok]
  /\ stage' = "known"
  /\ UNCHANGED <<plan, status, tree, heals, ran, verifyOk, diff, audited, outcome>>

\* The audit of every Python file; whether it is clean is the text's business.
Verify ==
  /\ Running("verify") /\ stage = "begun"
  /\ \E clean \in BOOLEAN :
       /\ audited' = [tree |-> tree, ok |-> clean]
       /\ verifyOk' = (testsOk = "True" /\ clean)
  /\ stage' = "known"
  /\ UNCHANGED <<plan, status, tree, heals, ran, testsOk, diff, tested, outcome>>

\* candidate.diff() and the answer. Only verify can answer that it failed,
\* which the engine does not retry.
Conclude(a) ==
  /\ Running(a) /\ stage = "known"
  /\ diff' = tree
  /\ IF a = "verify" /\ ~verifyOk THEN Fail(a) ELSE Finish(a)
  /\ UNCHANGED <<plan, tree, heals, ran, testsOk, verifyOk, tested, audited, outcome>>

\* run_to_idle has returned, because nothing can run or because it gave up.
Decide ==
  /\ stage = "none" /\ outcome = "none"
  /\ outcome' = IF status["report"] = "done" /\ verifyOk THEN "success" ELSE "failure"
  /\ UNCHANGED <<plan, status, stage, tree, ctx>>

PipelineNext ==
  \/ \E a \in ActionName :
       Begin(a) \/ Raise(a) \/ Plain(a) \/ Skip(a) \/ HealLimit(a) \/ OpenAgent(a) \/ Conclude(a)
  \/ Write \/ Tests \/ Verify \/ Decide

PipelineSpec == PipelineInit /\ [][PipelineNext]_pipeline
-----------------------------------------------------------------------------
(* Properties.                                                             *)

(* Types; no more agents are opened than max_heal allows, over all tasks   *)
(* and retries; a handler is running exactly when the stage says so.       *)
PipelineTypeOK ==
  /\ fix \in BOOLEAN /\ test \in BOOLEAN
  /\ status \in [ActionName -> {"waiting", "running", "done", "dead"}]
  /\ stage \in {"none", "begun", "open", "known"}
  /\ stage = "none" <=> \A a \in ActionName : ~Running(a)
  /\ tree \in 1 .. MaxTree /\ diff \in 0 .. tree
  /\ heals \in 0 .. MaxHeal /\ ran \in BOOLEAN
  /\ testsOk \in {"None", "True", "False"} /\ verifyOk \in BOOLEAN
  /\ tested \in [tree : 0 .. tree, ok : BOOLEAN]
  /\ audited \in [tree : 0 .. tree, ok : BOOLEAN]
  /\ outcome \in {"none", "success", "failure"}

(* "tests_must_pass", "security_audit_clean" (ir/compiler.py:58): what is   *)
(* offered is, to the last change, the tree on which the last tests ran    *)
(* and passed, the tree the audit saw and the tree whose difference is     *)
(* reported, whatever agents, retries and failed handlers left in ctx. A   *)
(* request for neither a fix nor tests runs none, and cannot succeed.      *)
SuccessIsEarned ==
  outcome = "success" =>
    /\ tested = [tree |-> tree, ok |-> TRUE]
    /\ audited = [tree |-> tree, ok |-> TRUE]
    /\ diff = tree
    /\ fix \/ test

(* Once the tree a verification passed is known, it is not changed: report *)
(* and everything after it only read.                                      *)
VerifiedStaysPut ==
  [][status["verify"] = "done" => UNCHANGED <<tree, testsOk, verifyOk, diff>>]_pipeline
=============================================================================
