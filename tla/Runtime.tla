------------------------------ MODULE Runtime ------------------------------
(***************************************************************************)
(* The life of one task in the service: runtime.py with candidate.py,      *)
(* cancel.py and the thread that service.py starts for it.                 *)
(*                                                                         *)
(* The worker thread runs execute: it snapshots the origin tree into an    *)
(* isolated workspace, lets the kernel work on it, verifies it and waits   *)
(* for approval. Meanwhile every HTTP request has a thread of its own, in  *)
(* which cancel, approve, reject and prepare_promotion run, and the user   *)
(* edits the origin. Only _set_state and the second half of request_cancel *)
(* hold _state_lock; all other reads and writes are unprotected, and each  *)
(* step below is a stretch of code with at most one of them that others    *)
(* can observe.                                                            *)
(***************************************************************************)
CONSTANTS
  Client,           \* request threads
  WaitForApproval,  \* Runtime(wait_for_approval=...), TRUE in the service
  EarlyCalls,       \* TRUE: requests may come before _start has answered
  MayStall,         \* TRUE: clients of the event stream may stop reading
  Content           \* what the origin may hold: the user may restore what was there

ASSUME FlagAssumption == {WaitForApproval, EarlyCalls, MayStall} \subseteq BOOLEAN
ASSUME ContentAssumption == 0 \notin Content

SUCCESS_STATES == {"VERIFIED", "WAITING_FOR_APPROVAL", "READY_FOR_PROMOTION"}
LOCKED_STATES  == {"CANCELLED", "DISCARDED", "PROMOTION_REJECTED"}
RuntimeState   == SUCCESS_STATES \cup LOCKED_STATES
                  \cup {"CREATED", "RUNNING", "VERIFYING", "CANCEL_REQUESTED", "FAILED"}

\* Candidate.state; BASELINED is passed before anyone can see the candidate.
CandidateState ==
  {"ORIGIN_DISCOVERED", "SNAPSHOTTED", "RUNNING", "VERIFYING",
   "VERIFIED", "WAITING_FOR_APPROVAL", "READY_FOR_PROMOTION", "FAILED",
   "CANCELLED", "DISCARDED", "PROMOTION_REJECTED"}

VARIABLES
  state,       \* Runtime.state
  token,       \* Runtime.cancel_token
  origin,      \* content of the user's repository
  base,        \* Candidate.origin_hash: the content that was hashed, 0 before
  ws,          \* the workspace: "absent", "copy" of the origin, "partial" (copied or
               \* removed half-way), or "empty" (made anew without a file of the origin)
  copied,      \* content of the origin when it was copied, 0 before
  cand,        \* Runtime.candidate is not None
  cst,         \* Candidate.state
  discarded, approved,   \* Candidate.discarded, Candidate.approved_by = "human"
  testsOk, verifyOk,     \* ctx["tests_ok"], ctx["verify_ok"]
  reported,    \* the report task is COMPLETED
  wpc,         \* where the worker (and _start before it) is
  cpc,         \* where each request thread is
  cancelDone,  \* history: a request_cancel has returned
  rejectDone,  \* history: a reject has returned
  undone,      \* history: the copy was of another content than was hashed, and an
               \* edit has restored the latter
  torn,        \* history: a request's rmtree raised and left half of the copy
  stalled      \* a client of the event stream does not read: emit waits for it

candidate == <<base, copied, ws, cand, cst, discarded, approved>>
context   == <<testsOk, verifyOk, reported>>
done      == <<cancelDone, rejectDone, undone, torn>>
task      == <<state, token, origin, candidate, context, wpc, cpc, done>>
vars      == <<task, stalled>>

Init ==
  /\ state = "CREATED" /\ token = FALSE
  /\ origin \in Content /\ base = 0 /\ copied = 0 /\ ws = "absent"
  /\ cand = FALSE /\ cst = "ORIGIN_DISCOVERED"
  /\ discarded = FALSE /\ approved = FALSE
  /\ testsOk = FALSE /\ verifyOk = FALSE /\ reported = FALSE
  /\ wpc = "registered"
  /\ cpc = [c \in Client |-> "idle"]
  /\ cancelDone = FALSE /\ rejectDone = FALSE
  /\ undone = FALSE /\ torn = FALSE /\ stalled = FALSE

-----------------------------------------------------------------------------
(* Shared operations.                                                      *)

\* request_cancel is inside its locked section.
Held == \E c \in Client : cpc[c] = "cancel_rm"

\* mutants: a locked state is overwritten; the token is not looked at.
SetToUnlocked(new) ==
  IF token /\ new \in SUCCESS_STATES \cup {"RUNNING", "VERIFYING", "CREATED"}
  THEN "CANCELLED" ELSE new
SetToBlindly(new) == IF state \in LOCKED_STATES THEN state ELSE new

\* _set_state: what it makes of the state.
SetTo(new) ==
  IF state \in LOCKED_STATES THEN state
  ELSE IF token /\ new \in SUCCESS_STATES \cup {"RUNNING", "VERIFYING", "CREATED"}
       THEN "CANCELLED"
  ELSE new

SetState(new) == ~Held /\ state' = SetTo(new)

\* discard, after its rmtree or when there is nothing to remove.
MarkDiscarded == discarded' = TRUE /\ cst' = "DISCARDED"

\* Sandbox(root) creates the directory it is given.
Mkdir == ws' = IF ws = "absent" THEN "empty" ELSE ws

\* pytest finds no test, and fails, where only the directory was made. What it
\* writes at its end makes the directory anew if it was removed meanwhile.
RunTests ==
  /\ testsOk' \in {r \in BOOLEAN : r => ws # "empty"} \cup {testsOk}
  /\ ws' = ws \/ Mkdir

\* rmtree on its way; it may be slower than others that remove or write there.
RemoveSome == ws = "copy" /\ ws' = "partial"

WorkerGoes(to) == wpc' = to /\ UNCHANGED cpc
ClientGoes(c, to) == cpc' = [cpc EXCEPT ![c] = to] /\ UNCHANGED wpc

\* An exception leaves execute; run() in _start writes the state unlocked.
WorkerFails == state' = "FAILED" /\ WorkerGoes("dead")

-----------------------------------------------------------------------------
(* The worker: _start, then execute.                                       *)

\* The record is in the registry already; this write takes no lock.
StartThread ==
  /\ wpc = "registered"
  /\ state' = "RUNNING"
  /\ WorkerGoes("start")
  /\ UNCHANGED <<token, origin, candidate, context, done>>

\* The source is untrusted.
Refuse ==
  /\ wpc = "start"
  /\ SetState("FAILED")
  /\ WorkerGoes("end")
  /\ UNCHANGED <<token, origin, candidate, context, done>>

Begin ==
  /\ wpc = "start"
  /\ WorkerGoes(IF token THEN "cancel" ELSE "hash")
  /\ UNCHANGED <<state, token, origin, candidate, context, done>>

\* The source does not compile, or the origin cannot be hashed or copied.
SnapshotRaises ==
  /\ wpc \in {"hash", "copy"}
  /\ ws' \in IF wpc = "copy" THEN {ws, "partial"} ELSE {ws}
  /\ WorkerFails
  /\ UNCHANGED <<token, origin, base, copied, cand, cst, discarded, approved, context, done>>

\* snapshot hashes the origin first and copies it later.
HashOrigin ==
  /\ wpc = "hash"
  /\ base' = origin
  /\ WorkerGoes("copy")
  /\ UNCHANGED <<state, token, origin, copied, ws, cand, cst, discarded, approved, context, done>>

CopyOrigin ==
  /\ wpc = "copy"
  /\ ws' = "copy" /\ copied' = origin
  /\ cand' = TRUE /\ cst' = "SNAPSHOTTED"
  /\ WorkerGoes("running")
  /\ UNCHANGED <<state, token, origin, base, discarded, approved, context, done>>

SetRunning ==
  /\ wpc = "running"
  /\ SetState("RUNNING")
  /\ WorkerGoes(IF state' = "RUNNING" THEN "mark" ELSE "cancel")
  /\ UNCHANGED <<token, origin, candidate, context, done>>

MarkRunning ==
  /\ wpc = "mark"
  /\ cst' = "RUNNING"
  /\ WorkerGoes("work")
  /\ UNCHANGED <<state, token, origin, base, copied, ws, cand, discarded, approved, context, done>>

\* A run_tests task, or an agent's turn, which ends with the tests too.
TestsBegin ==
  /\ wpc = "work" /\ ~token
  /\ Mkdir
  /\ WorkerGoes("testing")
  /\ UNCHANGED <<state, token, origin, base, copied, cand, cst, discarded, approved, context, done>>

\* The tests finish, or (unchanged) are stopped, time out or raise. They need not
\* end: run_pytest may read for ever from a process that they left behind.
TestsEnd ==
  /\ wpc = "testing"
  /\ RunTests
  /\ WorkerGoes("work")
  /\ UNCHANGED <<state, token, origin, base, copied, cand, cst, discarded, approved,
                 verifyOk, reported, done>>

VerifyBegin ==
  /\ wpc = "work" /\ ~token
  /\ cst' = "VERIFYING"
  /\ WorkerGoes("verify")
  /\ UNCHANGED <<state, token, origin, base, copied, ws, cand, discarded, approved, context, done>>

\* What _set_state answers is not looked at.
SetVerifying ==
  /\ wpc = "verify"
  /\ SetState("VERIFYING")
  /\ WorkerGoes("audit")
  /\ UNCHANGED <<token, origin, candidate, context, done>>

\* Findings that block overrule the tests. A verify that raises is retried.
Audit ==
  /\ wpc = "audit"
  /\ \/ /\ verifyOk' \in {r \in BOOLEAN : r => testsOk}
        /\ WorkerGoes(IF verifyOk' THEN "report" ELSE "after")
     \/ WorkerGoes("work") /\ UNCHANGED verifyOk
  /\ UNCHANGED <<state, token, origin, candidate, testsOk, reported, done>>

\* Not after the deadline, nor under a token.
Report ==
  /\ wpc = "report"
  /\ reported' \in {r \in BOOLEAN : r => ~token}
  /\ WorkerGoes("after")
  /\ UNCHANGED <<state, token, origin, candidate, testsOk, verifyOk, done>>

\* The kernel stops before report: a task failed, the deadline passed, or
\* the token was set.
WorkStops ==
  /\ wpc = "work"
  /\ WorkerGoes("after")
  /\ UNCHANGED <<state, token, origin, candidate, context, done>>

\* What is not Cancelled leaves run_to_idle: Kernel's Escape, between any two tasks.
WorkRaises ==
  /\ wpc \in {"work", "report", "after"}
  /\ WorkerFails
  /\ UNCHANGED <<token, origin, candidate, context, done>>

\* mutant: the token is not looked at once more after the run.
AfterUnchecked ==
  /\ wpc = "after"
  /\ WorkerGoes(IF reported /\ verifyOk THEN "accept" ELSE "fail")
  /\ UNCHANGED <<state, token, origin, candidate, context, done>>

AfterRun ==
  /\ wpc = "after"
  /\ WorkerGoes(IF token THEN "cancel"
                ELSE IF reported /\ verifyOk THEN "accept" ELSE "fail")
  /\ UNCHANGED <<state, token, origin, candidate, context, done>>

Fail ==
  /\ wpc = "fail"
  /\ cst' = "FAILED"
  /\ WorkerGoes("fail_check")
  /\ UNCHANGED <<state, token, origin, base, copied, ws, cand, discarded, approved, context, done>>

SetFailed ==
  /\ wpc = "fail_set"
  /\ SetState("FAILED")
  /\ WorkerGoes("not_ok")
  /\ UNCHANGED <<token, origin, candidate, context, done>>

\* mutant: the candidate is not marked before the state is published.
AcceptUnmarked ==
  /\ wpc = "accept"
  /\ WorkerGoes("publish")
  /\ UNCHANGED <<state, token, origin, candidate, context, done>>

\* accept_isolated and the two assignments that follow it.
Accept ==
  /\ wpc = "accept"
  /\ cst' = IF WaitForApproval THEN "WAITING_FOR_APPROVAL" ELSE "VERIFIED"
  /\ WorkerGoes("publish")
  /\ UNCHANGED <<state, token, origin, base, copied, ws, cand, discarded, approved, context, done>>

Final == IF WaitForApproval THEN "WAITING_FOR_APPROVAL" ELSE "VERIFIED"

Publish ==
  /\ wpc = "publish"
  /\ SetState(Final)
  /\ WorkerGoes(IF state' = Final THEN "answer" ELSE "cancel")
  /\ UNCHANGED <<token, origin, candidate, context, done>>

\* _result, with ok = True or not, reads the state again, without the lock.
Answer ==
  /\ wpc \in {"answer", "not_ok"}
  /\ WorkerGoes("end")
  /\ UNCHANGED <<state, token, origin, candidate, context, done>>

\* _result hashes the origin while the user edits it, and reads the files of the
\* workspace while others write or remove them: one of them may have vanished.
AnswerRaises ==
  /\ wpc \in {"answer", "not_ok"} /\ cand
  /\ WorkerFails
  /\ UNCHANGED <<token, origin, candidate, context, done>>

\* mutant: a cancelled worker leaves its workspace.
CancelledKeeps ==
  /\ wpc = "cancel"
  /\ WorkerGoes("cancel_set")
  /\ UNCHANGED <<state, token, origin, candidate, context, done>>

\* _cancelled_result
CancelledResult ==
  /\ wpc = "cancel"
  /\ IF cand /\ ws # "absent" /\ ~discarded
     THEN cst' = "CANCELLED" /\ WorkerGoes("cancel_check")
     ELSE UNCHANGED cst /\ WorkerGoes("cancel_set")
  /\ UNCHANGED <<state, token, origin, base, copied, ws, cand, discarded, approved, context, done>>

SetCancelled ==
  /\ wpc = "cancel_set"
  /\ SetState("CANCELLED")
  /\ WorkerGoes("not_ok")
  /\ UNCHANGED <<token, origin, candidate, context, done>>

\* discard, called by the worker: exists(), then rmtree, file by file, which may
\* raise at any of them.
WorkerDiscards(check, rm, then) ==
  \/ /\ wpc = check /\ ws # "absent"
     /\ WorkerGoes(rm)
     /\ UNCHANGED <<state, token, origin, candidate, context, done>>
  \/ /\ wpc = check /\ ws = "absent"
     /\ MarkDiscarded
     /\ WorkerGoes(then)
     /\ UNCHANGED <<state, token, origin, base, copied, ws, cand, approved, context, done>>
  \/ /\ wpc = rm /\ RemoveSome
     /\ UNCHANGED <<state, token, origin, base, copied, cand, cst, discarded, approved,
                    context, wpc, cpc, done>>
  \/ /\ wpc = rm /\ ws # "absent"
     /\ ws' = "absent" /\ MarkDiscarded
     /\ WorkerGoes(then)
     /\ UNCHANGED <<state, token, origin, base, copied, cand, approved, context, done>>
  \/ /\ wpc = rm
     /\ WorkerFails
     /\ UNCHANGED <<token, origin, candidate, context, done>>

-----------------------------------------------------------------------------
(* Requests. Each runs in a thread of the HTTP server.                     *)

MayCall(c) == cpc[c] = "idle" /\ (EarlyCalls \/ wpc # "registered")

\* mutant: only the state is cancelled, not the token.
CancelNoToken(c) ==
  /\ MayCall(c)
  /\ ClientGoes(c, "cancel")
  /\ UNCHANGED <<state, token, origin, candidate, context, done>>

\* request_cancel: first the token, outside the lock.
CancelToken(c) ==
  /\ MayCall(c)
  /\ token' = TRUE
  /\ ClientGoes(c, "cancel")
  /\ UNCHANGED <<state, origin, candidate, context, done>>

\* The locked part, when there is nothing to remove.
CancelState(c) ==
  /\ cpc[c] = "cancel" /\ ~Held
  /\ ~(state \in SUCCESS_STATES /\ cand /\ ~discarded /\ ws # "absent")
  /\ state' = IF state \in SUCCESS_STATES THEN "CANCELLED"
              ELSE IF state \in LOCKED_STATES THEN state
              ELSE "CANCEL_REQUESTED"
  /\ IF state \in SUCCESS_STATES /\ cand /\ ~discarded
     THEN MarkDiscarded ELSE UNCHANGED <<discarded, cst>>
  /\ cancelDone' = TRUE
  /\ ClientGoes(c, "idle")
  /\ UNCHANGED <<token, origin, base, copied, ws, cand, approved, context, rejectDone, undone, torn>>

\* The locked part, up to the rmtree of discard; the lock stays held.
CancelLock(c) ==
  /\ cpc[c] = "cancel" /\ ~Held
  /\ state \in SUCCESS_STATES /\ cand /\ ~discarded /\ ws # "absent"
  /\ ClientGoes(c, "cancel_rm")
  /\ UNCHANGED <<state, token, origin, candidate, context, done>>

CancelRemove(c) ==
  /\ cpc[c] = "cancel_rm" /\ ws # "absent"
  /\ ws' = "absent" /\ MarkDiscarded
  /\ state' = "CANCELLED"
  /\ cancelDone' = TRUE
  /\ ClientGoes(c, "idle")
  /\ UNCHANGED <<token, origin, base, copied, cand, approved, context, rejectDone, undone, torn>>

\* rmtree has removed some of the files.
RemovePart(c) ==
  /\ cpc[c] \in {"cancel_rm", "reject_rm"} /\ RemoveSome
  /\ UNCHANGED <<state, token, origin, base, copied, cand, cst, discarded, approved, context,
                 wpc, cpc, done>>

\* mutant: the lock is not given back.
RemoveHangs(c) ==
  /\ cpc[c] = "reject_rm"
  /\ torn' = (torn \/ ws = "partial")
  /\ ClientGoes(c, "idle")
  /\ UNCHANGED <<state, token, origin, candidate, context, cancelDone, rejectDone, undone>>

\* rmtree raises out of the request: the directory or one of its files is already
\* gone, a new one came, or it may not be removed.
RemoveRaises(c) ==
  /\ cpc[c] \in {"cancel_rm", "reject_rm"}
  /\ torn' = (torn \/ ws = "partial")
  /\ ClientGoes(c, "idle")
  /\ UNCHANGED <<state, token, origin, candidate, context, cancelDone, rejectDone, undone>>

\* approve, by a human: the checks, then the mark.
ApproveCheck(c) ==
  /\ MayCall(c)
  /\ state = "WAITING_FOR_APPROVAL" /\ ~token
  /\ ClientGoes(c, "approve")
  /\ UNCHANGED <<state, token, origin, candidate, context, done>>

ApproveMark(c) ==
  /\ cpc[c] = "approve"
  /\ approved' = (approved \/ cand)
  /\ ClientGoes(c, "promote")
  /\ UNCHANGED <<state, token, origin, base, copied, ws, cand, cst, discarded, context, done>>

\* prepare_promotion has a path of its own, too.
PromoteCall(c) ==
  /\ MayCall(c)
  /\ ClientGoes(c, "promote")
  /\ UNCHANGED <<state, token, origin, candidate, context, done>>

PromoteBegin(c) ==
  /\ cpc[c] = "promote"
  /\ ClientGoes(c, IF token \/ ~cand \/ ws = "absent" THEN "idle" ELSE "promote_state")
  /\ UNCHANGED <<state, token, origin, candidate, context, done>>

PromoteState(c) ==
  /\ cpc[c] = "promote_state"
  /\ ClientGoes(c, IF cst \in SUCCESS_STATES THEN "promote_origin" ELSE "idle")
  /\ UNCHANGED <<state, token, origin, candidate, context, done>>

\* mutant: a changed origin is not noticed.
PromoteStale(c) ==
  /\ cpc[c] = "promote_origin"
  /\ IF approved THEN ClientGoes(c, "promote_tests") /\ Mkdir
     ELSE ClientGoes(c, "idle") /\ UNCHANGED ws
  /\ UNCHANGED <<state, token, origin, base, copied, cand, cst, discarded, approved, context, done>>

\* origin_matches_baseline, then the approval, then the Sandbox. Without an
\* approval, or when hashing raises, the request ends.
PromoteOrigin(c) ==
  /\ cpc[c] = "promote_origin"
  /\ \/ /\ origin # base
        /\ cst' = "PROMOTION_REJECTED"
        /\ ClientGoes(c, "promote_stale") /\ UNCHANGED ws
     \/ ClientGoes(c, "idle") /\ UNCHANGED <<cst, ws>>
     \/ /\ origin = base /\ approved
        /\ Mkdir
        /\ ClientGoes(c, "promote_tests") /\ UNCHANGED cst
  /\ UNCHANGED <<state, token, origin, base, copied, cand, discarded, approved, context, done>>

SetStale(c) ==
  /\ cpc[c] = "promote_stale"
  /\ SetState("PROMOTION_REJECTED")
  /\ ClientGoes(c, "idle")
  /\ UNCHANGED <<token, origin, candidate, context, done>>

\* The tests and the security audit; both may end the request, and the tests,
\* like the worker's, may never end.
PromoteTests(c) ==
  /\ cpc[c] = "promote_tests"
  /\ RunTests
  /\ \/ ClientGoes(c, "idle")
     \/ ws # "empty" /\ testsOk' /\ ClientGoes(c, "promote_mark")
  /\ UNCHANGED <<state, token, origin, base, copied, cand, cst, discarded, approved,
                 verifyOk, reported, done>>

PromoteMark(c) ==
  /\ cpc[c] = "promote_mark"
  /\ cst' = "READY_FOR_PROMOTION"
  /\ ClientGoes(c, "promote_set")
  /\ UNCHANGED <<state, token, origin, base, copied, ws, cand, discarded, approved, context, done>>

\* What _set_state answers is not looked at: the answer is always ok.
SetReady(c) ==
  /\ cpc[c] = "promote_set"
  /\ SetState("READY_FOR_PROMOTION")
  /\ ClientGoes(c, "idle")
  /\ UNCHANGED <<token, origin, candidate, context, done>>

\* mutant: discard is called though there is no candidate.
RejectUnchecked(c) ==
  /\ MayCall(c)
  /\ IF ws # "absent"
     THEN ClientGoes(c, "reject_rm") /\ UNCHANGED <<discarded, cst>>
     ELSE ClientGoes(c, "reject_set") /\ MarkDiscarded
  /\ UNCHANGED <<state, token, origin, base, copied, ws, cand, approved, context, done>>

\* reject: discard takes exists() and rmtree as two steps.
Reject(c) ==
  /\ MayCall(c)
  /\ IF cand /\ ws # "absent" THEN ClientGoes(c, "reject_rm")
     ELSE ClientGoes(c, "reject_set")
  /\ IF cand /\ ws = "absent" THEN MarkDiscarded ELSE UNCHANGED <<discarded, cst>>
  /\ UNCHANGED <<state, token, origin, base, copied, ws, cand, approved, context, done>>

RejectRemove(c) ==
  /\ cpc[c] = "reject_rm" /\ ws # "absent"
  /\ ws' = "absent" /\ MarkDiscarded
  /\ ClientGoes(c, "reject_set")
  /\ UNCHANGED <<state, token, origin, base, copied, cand, approved, context, done>>

RejectSet(c) ==
  /\ cpc[c] = "reject_set"
  /\ SetState("DISCARDED")
  /\ rejectDone' = TRUE
  /\ ClientGoes(c, "idle")
  /\ UNCHANGED <<token, origin, candidate, context, cancelDone, undone, torn>>

\* The user goes on editing the repository; an edit may restore what was there.
EditOrigin ==
  /\ origin' \in Content \ {origin}
  /\ undone' = (undone \/ (origin' = base /\ copied \notin {0, base}))
  /\ UNCHANGED <<state, token, candidate, context, wpc, cpc, cancelDone, rejectDone, torn>>

-----------------------------------------------------------------------------
(* The specification.                                                      *)

WorkerStep ==
  \/ StartThread \/ Refuse \/ Begin \/ SnapshotRaises \/ HashOrigin \/ CopyOrigin
  \/ SetRunning \/ MarkRunning
  \/ TestsBegin \/ VerifyBegin \/ SetVerifying \/ Audit \/ Report
  \/ WorkStops \/ WorkRaises \/ AfterRun
  \/ Fail \/ WorkerDiscards("fail_check", "fail_rm", "fail_set") \/ SetFailed
  \/ Accept \/ Publish \/ Answer \/ AnswerRaises
  \/ CancelledResult \/ WorkerDiscards("cancel_check", "cancel_rm", "cancel_set")
  \/ SetCancelled

\* A request arrives.
Request(c) == CancelToken(c) \/ ApproveCheck(c) \/ PromoteCall(c) \/ Reject(c)

\* A request goes on.
RequestStep(c) ==
  \/ CancelState(c) \/ CancelLock(c) \/ CancelRemove(c) \/ RemovePart(c) \/ RemoveRaises(c)
  \/ ApproveMark(c) \/ PromoteBegin(c) \/ PromoteState(c) \/ PromoteOrigin(c)
  \/ SetStale(c) \/ PromoteMark(c) \/ SetReady(c)
  \/ RejectRemove(c) \/ RejectSet(c)

TaskStep ==
  \/ WorkerStep \/ TestsEnd
  \/ \E c \in Client : Request(c) \/ RequestStep(c) \/ PromoteTests(c)
  \/ EditOrigin

\* A client of the event stream stops reading, or goes on.
Stall == MayStall /\ stalled' = ~stalled

Next == (TaskStep /\ UNCHANGED stalled) \/ (Stall /\ UNCHANGED task)

Spec == Init /\ [][Next]_vars

(* Threads are scheduled, and who waits for the lock gets it when it is    *)
(* free again and again. Tests need not end, nothing makes a request       *)
(* arrive or the user edit, and while a client stalls any step may wait:   *)
(* nearly all of them emit.                                                *)
Fairness ==
  /\ SF_vars(~stalled /\ WorkerStep /\ UNCHANGED stalled)
  /\ \A c \in Client : SF_vars(~stalled /\ RequestStep(c) /\ UNCHANGED stalled)

FairSpec == Spec /\ Fairness

-----------------------------------------------------------------------------
(* Properties.                                                             *)

(* Types; and a candidate is marked only after it was made.                *)
TypeOK ==
  /\ state \in RuntimeState /\ token \in BOOLEAN
  /\ origin \in Content /\ {base, copied} \subseteq Content \cup {0}
  /\ ws \in {"absent", "copy", "partial", "empty"}
  /\ cst \in CandidateState
  /\ {cand, discarded, approved, testsOk, verifyOk, reported} \subseteq BOOLEAN
  /\ wpc \in {"registered", "start", "hash", "copy", "running", "mark", "work",
              "testing", "verify", "audit", "report", "after", "accept", "publish",
              "answer", "fail", "fail_check", "fail_rm", "fail_set",
              "cancel", "cancel_check", "cancel_rm", "cancel_set", "not_ok", "end", "dead"}
  /\ cpc \in [Client -> {"idle", "cancel", "cancel_rm", "approve", "promote",
                         "promote_state", "promote_origin", "promote_stale",
                         "promote_tests", "promote_mark", "promote_set",
                         "reject_rm", "reject_set"}]
  /\ {cancelDone, rejectDone, undone, torn, stalled} \subseteq BOOLEAN
  /\ discarded \/ approved => cand

(* Once request_cancel has returned, the task is never again in a success  *)
(* state, whatever the worker, an approval or a promotion were doing at    *)
(* that moment (_set_state, request_cancel).                               *)
CancelWins == cancelDone => state \notin SUCCESS_STATES

(* Once reject has returned, the worker, which is not told and may still   *)
(* be running, never offers the task as verified or waiting (reject).      *)
RejectedNeverOffered ==
  rejectDone => state \notin {"VERIFIED", "WAITING_FOR_APPROVAL"}

(* A step never takes a task from CANCELLED, DISCARDED or                  *)
(* PROMOTION_REJECTED to a success state (LOCKED_STATES); the unlocked     *)
(* write in _start is the reason that this is not obvious.                 *)
LockedNeverSucceeds ==
  [][(state \in LOCKED_STATES) => (state' \notin SUCCESS_STATES)]_vars

\* Somebody takes the task back or has done so.
Withdrawn == token \/ rejectDone \/ \E c \in Client : cpc[c] = "reject_set"

(* _result and http_result decide that a task is a success and read its    *)
(* state afterwards, without the lock: what they tell in between turns     *)
(* false only because somebody withdrew the task, its promotion was found  *)
(* stale, or the worker's own answer raised.                               *)
SuccessOnlyWithdrawn ==
  [][(state \in SUCCESS_STATES /\ state' \notin SUCCESS_STATES) =>
       \/ Withdrawn
       \/ state' = "PROMOTION_REJECTED"
       \/ wpc = "answer" /\ state' = "FAILED"]_vars

(* What is READY_FOR_PROMOTION was approved by a human and verified by the *)
(* worker, and its workspace was made from the tree that was hashed, even  *)
(* if the user edited the origin between the hash and the copy, unless an  *)
(* edit restored what was hashed (snapshot, prepare_promotion).            *)
ReadyIsVetted ==
  state = "READY_FOR_PROMOTION" =>
    approved /\ verifyOk /\ (ws = "copy" => copied = base \/ undone)

Quiet == \A c \in Client : cpc[c] = "idle"
Ended == wpc \in {"end", "dead"}

(* When no request is under way, a task that waits for approval still has  *)
(* its whole workspace, whatever requests came before; so does one that is *)
(* ready, unless it was rejected. Only a request whose rmtree raised with  *)
(* half of the files removed takes it away (discard); and only where the   *)
(* worker's exception wrote FAILED over a refused promotion may another    *)
(* promotion make ready what the first has marked.                         *)
OfferedIsThere ==
  Quiet /\ (state = "WAITING_FOR_APPROVAL"
            \/ (state = "READY_FOR_PROMOTION" /\ ~rejectDone)) =>
    /\ ws = "copy" \/ torn
    /\ ~discarded
    /\ cst \in SUCCESS_STATES \/ wpc = "dead"

(* When the worker is through and no request is under way, a cancelled     *)
(* task has left no workspace behind, unless it had been approved (a       *)
(* promotion makes the directory anew) or rejected (RejectDiscards).       *)
CancelDiscards ==
  Quiet /\ Ended /\ state = "CANCELLED" /\ ~approved /\ ~rejectDone => ws = "absent"

(* Every request is answered, also when rmtree raises under the lock or    *)
(* another thread holds it (request_cancel, reject, prepare_promotion),    *)
(* unless its tests never end or a stalled client holds up an event.       *)
RequestsEnd ==
  <>[]~stalled =>
    \A c \in Client : []<>(cpc[c] = "idle") \/ <>[](cpc[c] = "promote_tests")

(* A token set while the kernel works ends the task in a locked state: it  *)
(* is not overlooked, and turned into a failure only by an exception       *)
(* (execute).                                                              *)
TokenStopsWork ==
  <>[]~stalled => ((token /\ wpc = "work") ~> (state \in LOCKED_STATES \/ wpc = "dead"))

(* "If the origin tree hash changed after snapshot, promotion is rejected."*)
StaleNeverReady ==
  [][state' = "READY_FOR_PROMOTION" /\ state # state' => origin = base]_vars

(* A task that was cancelled comes to rest as CANCELLED (or was already    *)
(* discarded, rejected or failed), unless its tests never end.             *)
CancelSettles == cancelDone ~> (state \in LOCKED_STATES \cup {"FAILED"} \/ wpc = "testing")

(* A rejected candidate is discarded: nothing is left of its workspace     *)
(* when the worker and all requests are through (reject, discard).         *)
RejectDiscards == Quiet /\ Ended /\ rejectDone /\ cand => ws = "absent"
=============================================================================
