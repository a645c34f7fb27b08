------------------------------ MODULE TaskLife ------------------------------
(***************************************************************************)
(* What the service promises about the life of a task, without threads,    *)
(* locks or files: work is offered to a human after it was verified, made  *)
(* ready for promotion only with a human's approval, and never offered or  *)
(* made ready once it has been withdrawn. Runtime implements this.         *)
(***************************************************************************)

VARIABLES
  phase,     \* "working", "cancelling", "offered", "ready", "closed", "failed"
  verified,  \* the audit has passed
  approved,  \* by a human
  cancelled, \* a cancel has been answered
  rejected   \* a reject has been answered

life == <<phase, verified, approved, cancelled, rejected>>

Phase == {"working", "cancelling", "offered", "ready", "closed", "failed"}

Init ==
  /\ phase = "working" /\ verified = FALSE /\ approved = FALSE
  /\ cancelled = FALSE /\ rejected = FALSE

Verify ==
  /\ phase \notin {"offered", "ready"} /\ ~approved
  /\ verified' \in BOOLEAN
  /\ UNCHANGED <<phase, approved, cancelled, rejected>>

Offer ==
  /\ phase = "working" /\ verified /\ ~approved /\ ~cancelled /\ ~rejected
  /\ phase' = "offered"
  /\ UNCHANGED <<verified, approved, cancelled, rejected>>

\* The mark may be late: the task may have been withdrawn since it was asked.
Approve ==
  /\ verified /\ phase # "working"
  /\ approved' = TRUE
  /\ UNCHANGED <<phase, verified, cancelled, rejected>>

\* From "failed", too: a failure of the worker's own answer is no refusal.
MakeReady ==
  /\ phase \in {"offered", "failed"} /\ verified /\ approved /\ ~cancelled
  /\ phase' = "ready"
  /\ UNCHANGED <<verified, approved, cancelled, rejected>>

\* A cancel is answered: what was offered is closed at once; so may be what
\* failed since the cancel found it offered.
Cancel ==
  /\ cancelled' = TRUE
  /\ phase' \in CASE phase \in {"offered", "ready", "closed"} -> {"closed"}
                  [] phase = "failed" -> {"cancelling", "closed"}
                  [] OTHER -> {"cancelling"}
  /\ UNCHANGED <<verified, approved, rejected>>

\* A reject is answered.
Reject ==
  /\ rejected' = TRUE /\ phase' = "closed"
  /\ UNCHANGED <<verified, approved, cancelled>>

\* Cancelled by the worker, or the origin was found changed.
Close ==
  /\ phase # "closed" /\ phase' = "closed"
  /\ UNCHANGED <<verified, approved, cancelled, rejected>>

\* The worker fails, or dies with an exception, which undoes a withdrawal.
Break ==
  /\ phase' = "failed"
  /\ UNCHANGED <<verified, approved, cancelled, rejected>>

Next ==
  \/ Verify \/ Offer \/ Approve \/ MakeReady
  \/ Cancel \/ Reject \/ Close \/ Break

Spec == Init /\ [][Next]_life
=============================================================================
