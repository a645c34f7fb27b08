---------------------------- MODULE RuntimeLife ----------------------------
(* Runtime implements TaskLife, if requests come after start_task has       *)
(* answered (~EarlyCalls): an early reject would be overwritten.           *)
EXTENDS Runtime

PhaseOf == [s \in RuntimeState |->
  CASE s \in {"CREATED", "RUNNING", "VERIFYING"} -> "working"
    [] s = "CANCEL_REQUESTED" -> "cancelling"
    [] s \in {"VERIFIED", "WAITING_FOR_APPROVAL"} -> "offered"
    [] s = "READY_FOR_PROMOTION" -> "ready"
    [] s \in LOCKED_STATES -> "closed"
    [] s = "FAILED" -> "failed"]

Life == INSTANCE TaskLife WITH
  phase <- PhaseOf[state], verified <- verifyOk, approved <- approved,
  cancelled <- cancelDone, rejected <- rejectDone

(* Whatever the worker, the requests and the user do at the same time, the *)
(* task lives as TaskLife says: offered once and after the audit, ready    *)
(* only with a human's approval, never after a cancel was answered.        *)
ImplementsTaskLife == Life!Spec
=============================================================================
