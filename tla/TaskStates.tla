----------------------------- MODULE TaskStates -----------------------------
(***************************************************************************)
(* The task states of kernel/states.py and the table LEGAL of transitions  *)
(* that Task.transit (kernel/task.py) enforces on the object in memory.    *)
(***************************************************************************)

TaskState ==
  {"CREATED", "PLANNED", "READY", "RUNNING", "WAITING",
   "WAITING_FOR_APPROVAL", "BLOCKED", "FAILED", "RETRYING", "VERIFYING",
   "COMPLETED", "CANCELLED"}

\* As pairs; nothing leaves COMPLETED or CANCELLED.
LEGAL ==
       ({"CREATED"} \X {"PLANNED", "CANCELLED"})
  \cup ({"PLANNED"} \X {"READY", "BLOCKED", "CANCELLED"})
  \cup ({"READY"} \X {"RUNNING", "CANCELLED", "BLOCKED"})
  \cup ({"RUNNING"} \X {"WAITING", "WAITING_FOR_APPROVAL", "BLOCKED", "FAILED",
                        "VERIFYING", "COMPLETED", "CANCELLED"})
  \cup ({"WAITING"} \X {"READY", "CANCELLED", "FAILED"})
  \cup ({"WAITING_FOR_APPROVAL"} \X {"RUNNING", "READY", "CANCELLED", "FAILED"})
  \cup ({"BLOCKED"} \X {"READY", "CANCELLED", "FAILED"})
  \cup ({"FAILED"} \X {"RETRYING", "CANCELLED"})
  \cup ({"RETRYING"} \X {"READY", "RUNNING", "FAILED", "CANCELLED"})
  \cup ({"VERIFYING"} \X {"COMPLETED", "FAILED", "CANCELLED"})

\* can_transition; require raises TransitionError when it is false.
CanTransition(src, dst) == <<src, dst>> \in LEGAL

\* An answer takes the object through up to three transits before it is
\* saved once (RUNNING -> FAILED -> RETRYING -> READY).
Reaches(src, dst) ==
  \/ CanTransition(src, dst)
  \/ \E mid \in TaskState : CanTransition(src, mid) /\ CanTransition(mid, dst)
  \/ \E mid1, mid2 \in TaskState :
       CanTransition(src, mid1) /\ CanTransition(mid1, mid2) /\ CanTransition(mid2, dst)

\* The states submit_intent's callers and run_to_idle treat as final.
Terminal == {"COMPLETED", "FAILED", "CANCELLED"}
=============================================================================
