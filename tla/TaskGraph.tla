----------------------------- MODULE TaskGraph -----------------------------
(***************************************************************************)
(* What the task engine promises: tasks of a dependency graph are begun    *)
(* only when everything they depend on is done, what is done stays done    *)
(* and what was given up stays given up. A running task may come back to   *)
(* wait (a retry, an approval).                                            *)
(***************************************************************************)
CONSTANT Task

VARIABLES
  deps,    \* deps[t]: the tasks t depends on
  status   \* "waiting", "running", "done" or "dead"

vars == <<deps, status>>

Init ==
  /\ deps \in [Task -> SUBSET Task]
  /\ status = [t \in Task |-> "waiting"]

Begin(t) ==
  /\ status[t] = "waiting"
  /\ \A d \in deps[t] : status[d] = "done"
  /\ status' = [status EXCEPT ![t] = "running"]

Complete(t) ==
  /\ status[t] = "running"
  /\ status' = [status EXCEPT ![t] = "done"]

ComeBack(t) ==
  /\ status[t] = "running"
  /\ status' = [status EXCEPT ![t] = "waiting"]

\* A failure gives up one task, a cancellation a task and its dependents.
GiveUp(S) ==
  /\ \A t \in S : status[t] \in {"waiting", "running"}
  /\ status' = [t \in Task |-> IF t \in S THEN "dead" ELSE status[t]]

Next ==
  /\ UNCHANGED deps
  /\ \/ \E t \in Task : Begin(t) \/ Complete(t) \/ ComeBack(t)
     \/ \E S \in SUBSET Task : GiveUp(S)

Spec == Init /\ [][Next]_vars
=============================================================================
