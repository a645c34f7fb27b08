--------------------------- MODULE RuntimeProofs ---------------------------
(***************************************************************************)
(* Proofs about Runtime, for every number of request threads, every        *)
(* content of the origin and any number of edits.                          *)
(***************************************************************************)
EXTENDS RuntimeLife, TLAPS

\* The tests need not end, so they are not among the fair steps.
Worker      == WorkerStep \/ TestsEnd
Requests(c) == Request(c) \/ RequestStep(c) \/ PromoteTests(c)

LEMMA NextCases ==
  ASSUME [Next]_vars
  PROVE  \/ Worker \/ (\E c \in Client : Requests(c)) \/ EditOrigin
         \/ UNCHANGED task
BY DEF Next, vars, TaskStep, Worker, Requests

Unmade == {"registered", "start", "hash", "copy"}
Made ==
  {"running", "mark", "work", "testing", "verify", "audit", "report", "after",
   "accept", "publish", "answer", "fail", "fail_check", "fail_rm", "fail_set",
   "cancel_check", "cancel_rm"}

(* The candidate is made between two places of the worker, and whoever is  *)
(* about to remove its workspace has seen it.                              *)
CandInv ==
  /\ wpc \in Unmade => ~cand
  /\ wpc \in Made => cand
  /\ \A c \in Client : cpc[c] \in {"cancel_rm", "reject_rm"} => cand

TypeInv == TypeOK /\ CandInv

LEMMA InitType == Init => TypeInv
<1> SUFFICES ASSUME Init PROVE TypeInv
  OBVIOUS
<1>1. /\ state \in RuntimeState /\ cst \in CandidateState
      /\ {cand, discarded, approved, testsOk, verifyOk, reported} \subseteq BOOLEAN
  BY DEF Init, RuntimeState, CandidateState
<1>2. CandInv
  BY DEF Init, CandInv, Unmade, Made
<1> QED
  BY <1>1, <1>2 DEF Init, TypeInv, TypeOK

(* _set_state writes one of the runtime's states.                          *)
LEMMA SetStateType ==
  ASSUME state \in RuntimeState, NEW new \in RuntimeState, SetState(new)
  PROVE  state' \in RuntimeState
BY DEF SetState, SetTo, RuntimeState, SUCCESS_STATES, LOCKED_STATES

LEMMA WorkerType == ASSUME TypeInv, Worker, stalled' \in BOOLEAN PROVE TypeInv'
<1> USE DEF TypeInv, TypeOK, CandInv, WorkerGoes, candidate, context, done, Unmade, Made
<1>1. CASE StartThread
  BY <1>1 DEF StartThread, RuntimeState
<1>2. CASE Refuse
  BY <1>2, SetStateType DEF Refuse, RuntimeState
<1>3. CASE Begin
  BY <1>3 DEF Begin
<1>4. CASE SnapshotRaises
  BY <1>4 DEF SnapshotRaises, WorkerFails, RuntimeState
<1>5. CASE HashOrigin
  BY <1>5 DEF HashOrigin
<1>6. CASE CopyOrigin
  BY <1>6 DEF CopyOrigin, CandidateState
<1>7. CASE SetRunning
  BY <1>7, SetStateType DEF SetRunning, RuntimeState
<1>8. CASE MarkRunning
  BY <1>8 DEF MarkRunning, CandidateState
<1>9. CASE TestsBegin
  BY <1>9 DEF TestsBegin, Mkdir
<1>10. CASE TestsEnd
  BY <1>10 DEF TestsEnd, RunTests, Mkdir
<1>11. CASE VerifyBegin
  BY <1>11 DEF VerifyBegin, CandidateState
<1>12. CASE SetVerifying
  BY <1>12, SetStateType DEF SetVerifying, RuntimeState
<1>13. CASE Audit
  BY <1>13 DEF Audit
<1>14. CASE Report
  BY <1>14 DEF Report
<1>15. CASE WorkStops
  BY <1>15 DEF WorkStops
<1>16. CASE WorkRaises \/ AfterRun
  BY <1>16 DEF WorkRaises, AfterRun, WorkerFails, RuntimeState
<1>17. CASE Fail
  BY <1>17 DEF Fail, CandidateState
<1>18. CASE SetFailed
  BY <1>18, SetStateType DEF SetFailed, RuntimeState
<1>19. CASE Accept
  BY <1>19 DEF Accept, CandidateState
<1>20. CASE Publish
  BY <1>20, SetStateType DEF Publish, Final, RuntimeState, SUCCESS_STATES
<1>21. CASE Answer
  BY <1>21 DEF Answer
<1>22. CASE AnswerRaises
  BY <1>22 DEF AnswerRaises, WorkerFails, RuntimeState
<1>23. CASE CancelledResult
  BY <1>23 DEF CancelledResult, CandidateState
<1>24. CASE SetCancelled
  BY <1>24, SetStateType DEF SetCancelled, RuntimeState, LOCKED_STATES
<1>25. CASE WorkerDiscards("fail_check", "fail_rm", "fail_set")
  BY <1>25 DEF WorkerDiscards, RemoveSome, WorkerFails, MarkDiscarded, CandidateState, RuntimeState
<1>26. CASE WorkerDiscards("cancel_check", "cancel_rm", "cancel_set")
  BY <1>26 DEF WorkerDiscards, RemoveSome, WorkerFails, MarkDiscarded, CandidateState, RuntimeState
<1> QED
  BY <1>1, <1>2, <1>3, <1>4, <1>5, <1>6, <1>7, <1>8, <1>9, <1>10, <1>11, <1>12,
     <1>13, <1>14, <1>15, <1>16, <1>17, <1>18, <1>19, <1>20, <1>21, <1>22, <1>23,
     <1>24, <1>25, <1>26 DEF Worker, WorkerStep

LEMMA ClientType ==
  ASSUME TypeInv, stalled' \in BOOLEAN, NEW c \in Client, Requests(c)
  PROVE  TypeInv'
<1> USE DEF TypeInv, TypeOK, CandInv, ClientGoes, MayCall, candidate, context, done,
            Unmade, Made
<1>1. CASE CancelToken(c)
  BY <1>1 DEF CancelToken
<1>2. CASE CancelState(c)
  <2>1. state' \in RuntimeState
    BY <1>2 DEF CancelState, RuntimeState, LOCKED_STATES
  <2>2. cst' \in CandidateState /\ discarded' \in BOOLEAN /\ (discarded' => discarded \/ cand)
    BY <1>2 DEF CancelState, MarkDiscarded, CandidateState
  <2>3. cpc' = [cpc EXCEPT ![c] = "idle"]
    BY <1>2 DEF CancelState
  <2> QED
    BY <1>2, <2>1, <2>2, <2>3 DEF CancelState
<1>3. CASE CancelLock(c)
  BY <1>3 DEF CancelLock
<1>4. CASE CancelRemove(c)
  BY <1>4 DEF CancelRemove, MarkDiscarded, RuntimeState, LOCKED_STATES, CandidateState
<1>5. CASE RemovePart(c) \/ RemoveRaises(c)
  BY <1>5 DEF RemovePart, RemoveSome, RemoveRaises
<1>6. CASE ApproveCheck(c)
  BY <1>6 DEF ApproveCheck
<1>7. CASE ApproveMark(c)
  BY <1>7 DEF ApproveMark
<1>8. CASE PromoteCall(c)
  BY <1>8 DEF PromoteCall
<1>9. CASE PromoteBegin(c)
  BY <1>9 DEF PromoteBegin
<1>10. CASE PromoteState(c)
  BY <1>10 DEF PromoteState
<1>11. CASE PromoteOrigin(c)
  BY <1>11 DEF PromoteOrigin, Mkdir, CandidateState
<1>12. CASE SetStale(c)
  BY <1>12, SetStateType DEF SetStale, RuntimeState, LOCKED_STATES
<1>13. CASE PromoteTests(c)
  BY <1>13 DEF PromoteTests, RunTests, Mkdir
<1>14. CASE PromoteMark(c)
  BY <1>14 DEF PromoteMark, CandidateState
<1>15. CASE SetReady(c)
  BY <1>15, SetStateType DEF SetReady, RuntimeState, SUCCESS_STATES
<1>16. CASE Reject(c)
  <2>1. cst' \in CandidateState /\ discarded' \in BOOLEAN /\ (discarded' => discarded \/ cand)
    BY <1>16 DEF Reject, MarkDiscarded, CandidateState
  <2>2. PICK p \in {"reject_rm", "reject_set"} :
          cpc' = [cpc EXCEPT ![c] = p] /\ (p = "reject_rm" => cand)
    BY <1>16 DEF Reject
  <2> QED
    BY <1>16, <2>1, <2>2 DEF Reject
<1>17. CASE RejectRemove(c)
  BY <1>17 DEF RejectRemove, MarkDiscarded, CandidateState
<1>18. CASE RejectSet(c)
  BY <1>18, SetStateType DEF RejectSet, RuntimeState, LOCKED_STATES
<1> QED
  BY <1>1, <1>2, <1>3, <1>4, <1>5, <1>6, <1>7, <1>8, <1>9, <1>10, <1>11, <1>12,
     <1>13, <1>14, <1>15, <1>16, <1>17, <1>18 DEF Requests, Request, RequestStep

LEMMA NextType == TypeInv /\ [Next]_vars => TypeInv'
<1> SUFFICES ASSUME TypeInv, [Next]_vars PROVE TypeInv'
  OBVIOUS
<1>0. stalled' \in BOOLEAN
  BY DEF TypeInv, TypeOK, Next, Stall, vars
<1>1. CASE Worker
  BY <1>0, <1>1, WorkerType
<1>2. CASE \E c \in Client : Requests(c)
  BY <1>0, <1>2, ClientType
<1>3. CASE EditOrigin
  BY <1>0, <1>3 DEF EditOrigin, TypeInv, TypeOK, CandInv, candidate, context
<1>4. CASE UNCHANGED task
  BY <1>0, <1>4 DEF task, candidate, context, done, TypeInv, TypeOK, CandInv
<1> QED
  BY <1>1, <1>2, <1>3, <1>4, NextCases

(* Every reachable state is well typed; in particular a candidate is never *)
(* marked discarded or approved before it was made.                        *)
THEOREM TypeCorrect == Spec => []TypeOK
<1>1. TypeInv => TypeOK
  BY DEF TypeInv
<1> QED
  BY <1>1, InitType, NextType, PTL DEF Spec

-----------------------------------------------------------------------------
(* Cancellation.                                                           *)

(* The token is set before request_cancel takes the lock.                  *)
CancelInv ==
  /\ \A c \in Client : cpc[c] \in {"cancel", "cancel_rm"} => token
  /\ cancelDone => token
  /\ CancelWins

(* The one place where a state is chosen: under a set token _set_state     *)
(* never writes a success, and a locked state it leaves alone.             *)
LEMMA SetStateGuards ==
  ASSUME NEW new, SetState(new)
  PROVE  /\ state \in LOCKED_STATES => state' = state
         /\ state' \in {new, state, "CANCELLED"}
         /\ token /\ state \notin SUCCESS_STATES => state' \notin SUCCESS_STATES
BY DEF SetState, SetTo, LOCKED_STATES, SUCCESS_STATES

(* Whatever the worker writes, it is no success under a set token.         *)
LEMMA WorkerState ==
  ASSUME Worker
  PROVE  /\ token' = token /\ UNCHANGED <<cpc, done>>
         /\ \/ state' = state \/ state' \in {"RUNNING", "FAILED"}
            \/ \E new \in RuntimeState : SetState(new)
<1> USE DEF WorkerGoes, WorkerFails, RuntimeState, SUCCESS_STATES, LOCKED_STATES, done
<1>1. CASE StartThread \/ Refuse \/ Begin \/ SnapshotRaises \/ HashOrigin \/ CopyOrigin
  BY <1>1 DEF StartThread, Refuse, Begin, SnapshotRaises, HashOrigin, CopyOrigin
<1>2. CASE SetRunning \/ MarkRunning \/ TestsBegin \/ TestsEnd \/ VerifyBegin \/ SetVerifying
  BY <1>2 DEF SetRunning, MarkRunning, TestsBegin, TestsEnd, VerifyBegin, SetVerifying
<1>3. CASE Audit \/ Report \/ WorkStops \/ WorkRaises \/ AfterRun \/ Fail \/ SetFailed \/ Accept
  BY <1>3 DEF Audit, Report, WorkStops, WorkRaises, AfterRun, Fail, SetFailed, Accept
<1>4. CASE Publish \/ Answer \/ AnswerRaises \/ CancelledResult \/ SetCancelled
  BY <1>4 DEF Publish, Final, Answer, AnswerRaises, CancelledResult, SetCancelled
<1>5. CASE \/ WorkerDiscards("fail_check", "fail_rm", "fail_set")
           \/ WorkerDiscards("cancel_check", "cancel_rm", "cancel_set")
  BY <1>5 DEF WorkerDiscards
<1> QED
  BY <1>1, <1>2, <1>3, <1>4, <1>5 DEF Worker, WorkerStep

(* Whatever a request writes, it is no success under a set token, and no   *)
(* success in place of a locked state.                                     *)
LEMMA ClientState ==
  ASSUME NEW c \in Client, Requests(c)
  PROVE  /\ wpc' = wpc /\ (token => token')
         /\ \/ state' = state
            \/ state' \in LOCKED_STATES
            \/ state' = "CANCEL_REQUESTED" /\ state \notin LOCKED_STATES
            \/ token' = token /\ \E new \in RuntimeState : SetState(new)
<1> USE DEF ClientGoes, RuntimeState, SUCCESS_STATES, LOCKED_STATES
<1>1. CASE CancelToken(c) \/ CancelState(c) \/ CancelLock(c) \/ CancelRemove(c) \/ RemovePart(c) \/ RemoveRaises(c)
  BY <1>1 DEF CancelToken, CancelState, CancelLock, CancelRemove, RemovePart, RemoveRaises
<1>2. CASE ApproveCheck(c) \/ ApproveMark(c) \/ PromoteCall(c) \/ PromoteBegin(c) \/ PromoteState(c)
  BY <1>2 DEF ApproveCheck, ApproveMark, PromoteCall, PromoteBegin, PromoteState
<1>3. CASE PromoteOrigin(c) \/ SetStale(c) \/ PromoteTests(c) \/ PromoteMark(c) \/ SetReady(c)
  BY <1>3 DEF PromoteOrigin, SetStale, PromoteTests, PromoteMark, SetReady
<1>4. CASE Reject(c) \/ RejectRemove(c) \/ RejectSet(c)
  BY <1>4 DEF Reject, RejectRemove, RejectSet
<1> QED
  BY <1>1, <1>2, <1>3, <1>4 DEF Requests, Request, RequestStep

(* A step never takes a locked state to a success, for any number of       *)
(* request threads, the unlocked writes of _start included.                *)
THEOREM LockedIsFinal == Spec => LockedNeverSucceeds
<1> DEFINE Kept == (state \in LOCKED_STATES) => (state' \notin SUCCESS_STATES)
<1>1. [Next]_vars => [Kept]_vars
  <2> SUFFICES ASSUME Next, state \in LOCKED_STATES PROVE state' \notin SUCCESS_STATES
    OBVIOUS
  <2> USE DEF LOCKED_STATES, SUCCESS_STATES
  <2>1. CASE Worker
    BY <2>1, WorkerState, SetStateGuards
  <2>2. CASE \E c \in Client : Requests(c)
    BY <2>2, ClientState, SetStateGuards
  <2>3. CASE EditOrigin
    BY <2>3 DEF EditOrigin
  <2>4. CASE UNCHANGED task
    BY <2>4 DEF task
  <2> QED
    BY <2>1, <2>2, <2>3, <2>4, NextCases
<1> QED
  BY <1>1, PTL DEF Spec, LockedNeverSucceeds

LEMMA CancelWorker == ASSUME CancelInv, Worker PROVE CancelInv'
BY WorkerState, SetStateGuards DEF CancelInv, CancelWins, done, SUCCESS_STATES

LEMMA CancelClient ==
  ASSUME TypeOK, CancelInv, NEW c \in Client, Requests(c)
  PROVE  CancelInv'
<1> USE DEF CancelInv, CancelWins, ClientGoes, done
<1>1. CASE CancelToken(c)
  BY <1>1 DEF CancelToken, TypeOK
<1>2. CASE CancelState(c)
  BY <1>2 DEF CancelState, TypeOK, SUCCESS_STATES, LOCKED_STATES
<1>3. CASE CancelLock(c)
  BY <1>3 DEF CancelLock, TypeOK
<1>4. CASE CancelRemove(c)
  BY <1>4 DEF CancelRemove, TypeOK, SUCCESS_STATES
<1>5. CASE ~(CancelToken(c) \/ CancelState(c) \/ CancelLock(c) \/ CancelRemove(c))
  <2>1. \A d \in Client : cpc'[d] \in {"cancel", "cancel_rm"} => cpc[d] = cpc'[d]
    BY <1>5 DEF Requests, Request, RequestStep, TypeOK, RemovePart, RemoveRaises, ApproveCheck, ApproveMark,
      PromoteCall, PromoteBegin, PromoteState, PromoteOrigin, SetStale, PromoteTests,
      PromoteMark, SetReady, Reject, RejectRemove, RejectSet
  <2>2. cancelDone' = cancelDone /\ token' = token
    BY <1>5 DEF Requests, Request, RequestStep, RemovePart, RemoveRaises, ApproveCheck, ApproveMark,
      PromoteCall, PromoteBegin, PromoteState, PromoteOrigin, SetStale, PromoteTests,
      PromoteMark, SetReady, Reject, RejectRemove, RejectSet
  <2>3. token /\ state \notin SUCCESS_STATES => state' \notin SUCCESS_STATES
    BY ClientState, SetStateGuards DEF SUCCESS_STATES, LOCKED_STATES
  <2> QED
    BY <2>1, <2>2, <2>3
<1> QED
  BY <1>1, <1>2, <1>3, <1>4, <1>5

LEMMA CancelHolds == Spec => []CancelInv
<1>1. Init => CancelInv
  BY DEF Init, CancelInv, CancelWins
<1>2. TypeOK /\ CancelInv /\ [Next]_vars => CancelInv'
  <2> SUFFICES ASSUME TypeOK, CancelInv, [Next]_vars PROVE CancelInv'
    OBVIOUS
  <2>1. CASE Worker
    BY <2>1, CancelWorker
  <2>2. CASE \E c \in Client : Requests(c)
    BY <2>2, CancelClient
  <2>3. CASE EditOrigin \/ UNCHANGED task
    BY <2>3 DEF EditOrigin, task, done, CancelInv, CancelWins
  <2> QED
    BY <2>1, <2>2, <2>3, NextCases
<1> QED
  BY <1>1, <1>2, TypeCorrect, PTL DEF Spec

(* Once request_cancel has returned, no worker, approval or promotion      *)
(* makes the task a success again, whatever it was doing at that moment.   *)
THEOREM CancelIsFinal == Spec => []CancelWins
<1>1. CancelInv => CancelWins
  BY DEF CancelInv
<1> QED
  BY <1>1, CancelHolds, PTL

-----------------------------------------------------------------------------
(* Vetting: what ReadyIsVetted needs to be inductive.                      *)

\* The worker has published, given up or died.
Published == wpc \in {"answer", "not_ok", "end", "dead"}

(* Where something else was copied than what was hashed, the origin is     *)
(* still something else, until an edit restores what was hashed.           *)
TreeInv == cand => copied # 0 /\ (~undone /\ copied # base => origin # base)

(* What waits for approval was verified, and the worker touches the        *)
(* verdict no more; only that can be approved.                             *)
VerdictInv ==
  /\ wpc \in {"accept", "publish", "answer"} => verifyOk
  /\ state = "WAITING_FOR_APPROVAL" => Published /\ verifyOk
  /\ approved => Published /\ verifyOk
  /\ \A c \in Client : cpc[c] = "approve" => Published /\ verifyOk

(* A promotion past its checks has seen the approval and the origin.       *)
PromotionInv ==
  /\ \A c \in Client :
       cpc[c] \in {"promote_tests", "promote_mark", "promote_set"} =>
         approved /\ (copied = base \/ undone)
  /\ state = "READY_FOR_PROMOTION" => approved /\ (copied = base \/ undone)

VetInv == TreeInv /\ VerdictInv /\ PromotionInv

LEMMA VetWorker == ASSUME TypeInv, VetInv, Worker PROVE VetInv'
<1> USE DEF TypeInv, CandInv, VetInv, TreeInv, VerdictInv, PromotionInv, Published,
            WorkerGoes, candidate, context, done, SUCCESS_STATES, LOCKED_STATES,
            SetState, SetTo
<1>1. CASE StartThread
  BY <1>1 DEF StartThread, Unmade, TypeOK
<1>2. CASE Refuse \/ Begin
  BY <1>2 DEF Refuse, Begin, TypeOK
<1>3. CASE SnapshotRaises
  BY <1>3 DEF SnapshotRaises, WorkerFails
<1>4. CASE HashOrigin \/ CopyOrigin
  BY <1>4, ContentAssumption DEF HashOrigin, CopyOrigin, Unmade, TypeOK
<1>5. CASE SetRunning \/ MarkRunning \/ TestsBegin \/ TestsEnd \/ VerifyBegin \/ SetVerifying
  BY <1>5 DEF SetRunning, MarkRunning, TestsBegin, TestsEnd, VerifyBegin, SetVerifying
<1>6. CASE Audit \/ Report \/ WorkStops \/ WorkRaises \/ AfterRun \/ Fail \/ SetFailed \/ Accept
  BY <1>6 DEF Audit, Report, WorkStops, WorkRaises, WorkerFails, AfterRun, Fail, SetFailed, Accept
<1>7. CASE Publish
  BY <1>7 DEF Publish, Final
<1>8. CASE Answer \/ AnswerRaises \/ CancelledResult \/ SetCancelled
  BY <1>8 DEF Answer, AnswerRaises, WorkerFails, CancelledResult, SetCancelled
<1>9. CASE \/ WorkerDiscards("fail_check", "fail_rm", "fail_set")
           \/ WorkerDiscards("cancel_check", "cancel_rm", "cancel_set")
  BY <1>9 DEF WorkerDiscards, WorkerFails, MarkDiscarded
<1> QED
  BY <1>1, <1>2, <1>3, <1>4, <1>5, <1>6, <1>7, <1>8, <1>9 DEF Worker, WorkerStep

LEMMA VetClient ==
  ASSUME TypeInv, VetInv, NEW c \in Client, Requests(c)
  PROVE  VetInv'
<1> USE DEF TypeInv, TypeOK, VetInv, TreeInv, VerdictInv, PromotionInv, Published,
            ClientGoes, MayCall, candidate, context, done, SUCCESS_STATES,
            LOCKED_STATES, SetState, SetTo
<1>1. CASE CancelToken(c) \/ CancelState(c) \/ CancelLock(c)
  BY <1>1 DEF CancelToken, CancelState, CancelLock, MarkDiscarded
<1>2. CASE CancelRemove(c) \/ RemovePart(c) \/ RemoveRaises(c)
  BY <1>2 DEF CancelRemove, RemovePart, RemoveRaises, MarkDiscarded
<1>3. CASE ApproveCheck(c) \/ ApproveMark(c)
  BY <1>3 DEF ApproveCheck, ApproveMark
<1>4. CASE PromoteCall(c) \/ PromoteBegin(c) \/ PromoteState(c)
  BY <1>4 DEF PromoteCall, PromoteBegin, PromoteState
<1>5. CASE PromoteOrigin(c)
  BY <1>5 DEF PromoteOrigin
<1>6. CASE SetStale(c) \/ PromoteTests(c) \/ PromoteMark(c)
  BY <1>6 DEF SetStale, PromoteTests, PromoteMark
<1>7. CASE SetReady(c)
  BY <1>7 DEF SetReady
<1>8. CASE Reject(c) \/ RejectRemove(c) \/ RejectSet(c)
  BY <1>8 DEF Reject, RejectRemove, RejectSet, MarkDiscarded
<1> QED
  BY <1>1, <1>2, <1>3, <1>4, <1>5, <1>6, <1>7, <1>8 DEF Requests, Request, RequestStep

LEMMA VetHolds == Spec => [](TypeInv /\ VetInv)
<1>1. Init => VetInv
  BY DEF Init, VetInv, TreeInv, VerdictInv, PromotionInv
<1>2. TypeInv /\ VetInv /\ [Next]_vars => VetInv'
  <2> SUFFICES ASSUME TypeInv, VetInv, [Next]_vars PROVE VetInv'
    OBVIOUS
  <2>1. CASE Worker
    BY <2>1, VetWorker
  <2>2. CASE \E c \in Client : Requests(c)
    BY <2>2, VetClient
  <2>3. CASE EditOrigin
    BY <2>3 DEF EditOrigin, VetInv, TreeInv, VerdictInv, PromotionInv,
      Published, candidate, context
  <2>4. CASE UNCHANGED task
    BY <2>4 DEF task, candidate, context, done, VetInv, TreeInv, VerdictInv, PromotionInv,
      Published
  <2> QED
    BY <2>1, <2>2, <2>3, <2>4, NextCases
<1> QED
  BY <1>1, <1>2, InitType, NextType, PTL DEF Spec

(* What is READY_FOR_PROMOTION was approved by a human and verified, and   *)
(* its workspace was copied from the tree that was hashed, however often   *)
(* the user edits the origin, unless an edit restored what was hashed.     *)
THEOREM OnlyVettedIsReady == Spec => []ReadyIsVetted
<1>1. VetInv => ReadyIsVetted
  BY DEF VetInv, VerdictInv, PromotionInv, ReadyIsVetted
<1> QED
  BY <1>1, VetHolds, PTL

-----------------------------------------------------------------------------
(* Rejection, for clients that wait for the answer of start_task.          *)

(* A rejected task is in a locked state, unless the worker raised and the  *)
(* unlocked write of FAILED took it out: then no worker is left to publish.*)
RejectInv ==
  /\ wpc = "registered" => ~rejectDone /\ \A c \in Client : cpc[c] = "idle"
  /\ rejectDone =>
       \/ state \in LOCKED_STATES
       \/ wpc = "dead" /\ state \notin {"VERIFIED", "WAITING_FOR_APPROVAL"}

LEMMA RejectWorker == ASSUME RejectInv, Worker PROVE RejectInv'
<1> USE DEF RejectInv, WorkerGoes, WorkerFails, candidate, context, done,
            SUCCESS_STATES, LOCKED_STATES
<1>1. CASE StartThread
  BY <1>1 DEF StartThread
<1>2. CASE Refuse \/ Begin \/ SnapshotRaises \/ HashOrigin \/ CopyOrigin
  BY <1>2, SetStateGuards DEF Refuse, Begin, SnapshotRaises, HashOrigin, CopyOrigin
<1>3. CASE SetRunning \/ MarkRunning \/ TestsBegin \/ TestsEnd \/ VerifyBegin \/ SetVerifying
  BY <1>3, SetStateGuards
  DEF SetRunning, MarkRunning, TestsBegin, TestsEnd, VerifyBegin, SetVerifying
<1>4. CASE Audit \/ Report \/ WorkStops \/ WorkRaises \/ AfterRun \/ Fail \/ SetFailed \/ Accept
  BY <1>4, SetStateGuards DEF Audit, Report, WorkStops, WorkRaises, AfterRun, Fail, SetFailed, Accept
<1>5. CASE Publish \/ Answer \/ AnswerRaises \/ CancelledResult \/ SetCancelled
  BY <1>5, SetStateGuards
  DEF Publish, Final, Answer, AnswerRaises, CancelledResult, SetCancelled
<1>6. CASE \/ WorkerDiscards("fail_check", "fail_rm", "fail_set")
           \/ WorkerDiscards("cancel_check", "cancel_rm", "cancel_set")
  BY <1>6 DEF WorkerDiscards
<1> QED
  BY <1>1, <1>2, <1>3, <1>4, <1>5, <1>6 DEF Worker, WorkerStep

LEMMA RejectClient ==
  ASSUME ~EarlyCalls, TypeOK, RejectInv, NEW c \in Client, Requests(c)
  PROVE  RejectInv'
<1> USE DEF RejectInv, ClientGoes, done, SUCCESS_STATES, LOCKED_STATES
<1>1. wpc # "registered"
  BY DEF Requests, Request, RequestStep, MayCall, CancelToken, CancelState, CancelLock,
    CancelRemove, RemovePart, RemoveRaises, ApproveCheck, ApproveMark, PromoteCall, PromoteBegin,
    PromoteState, PromoteOrigin, SetStale, PromoteTests, PromoteMark, SetReady,
    Reject, RejectRemove, RejectSet
<1>2. wpc' = wpc
  BY ClientState
<1>3. CASE CancelToken(c) \/ CancelState(c) \/ CancelLock(c) \/ CancelRemove(c) \/ RemovePart(c) \/ RemoveRaises(c)
  BY <1>1, <1>2, <1>3 DEF CancelToken, CancelState, CancelLock, CancelRemove, RemovePart, RemoveRaises
<1>4. CASE ApproveCheck(c) \/ ApproveMark(c) \/ PromoteCall(c) \/ PromoteBegin(c) \/ PromoteState(c)
  BY <1>1, <1>2, <1>4 DEF ApproveCheck, ApproveMark, PromoteCall, PromoteBegin, PromoteState
<1>5. CASE PromoteOrigin(c) \/ SetStale(c) \/ PromoteTests(c) \/ PromoteMark(c) \/ SetReady(c)
  BY <1>1, <1>2, <1>5, SetStateGuards
  DEF PromoteOrigin, SetStale, PromoteTests, PromoteMark, SetReady
<1>6. CASE Reject(c) \/ RejectRemove(c)
  BY <1>1, <1>2, <1>6 DEF Reject, RejectRemove
<1>7. CASE RejectSet(c)
  BY <1>1, <1>2, <1>7 DEF RejectSet, SetState, SetTo
<1> QED
  BY <1>3, <1>4, <1>5, <1>6, <1>7 DEF Requests, Request, RequestStep

LEMMA RejectHolds == ASSUME ~EarlyCalls PROVE Spec => []RejectInv
<1>1. Init => RejectInv
  BY DEF Init, RejectInv
<1>2. TypeOK /\ RejectInv /\ [Next]_vars => RejectInv'
  <2> SUFFICES ASSUME TypeOK, RejectInv, [Next]_vars PROVE RejectInv'
    OBVIOUS
  <2>1. CASE Worker
    BY <2>1, RejectWorker
  <2>2. CASE \E c \in Client : Requests(c)
    BY <2>2, RejectClient
  <2>3. CASE EditOrigin \/ UNCHANGED task
    BY <2>3 DEF EditOrigin, task, done, RejectInv
  <2> QED
    BY <2>1, <2>2, <2>3, NextCases
<1> QED
  BY <1>1, <1>2, TypeCorrect, PTL DEF Spec

(* Once reject has returned, the worker never offers the task, though      *)
(* nobody tells it, if requests come after start_task has answered.        *)
THEOREM RejectIsKept == ASSUME ~EarlyCalls PROVE Spec => []RejectedNeverOffered
<1>1. RejectInv => RejectedNeverOffered
  BY DEF RejectInv, RejectedNeverOffered, LOCKED_STATES
<1> QED
  BY <1>1, RejectHolds, PTL

-----------------------------------------------------------------------------
(* The workspace of a task that was cancelled.                             *)

\* A reject has removed the workspace, or had nothing to remove.
Rejecting == rejectDone \/ \E c \in Client : cpc[c] = "reject_set"

\* Nothing is left, nobody has approved, so that no promotion makes it anew.
Gone == approved \/ Rejecting \/ ws = "absent"

(* Before there is a candidate there is no workspace, unless making it     *)
(* raised. What is discarded stays away: only tests of the worker make it  *)
(* anew, and the worker discards when it has given up; a cancel discards   *)
(* only what was a success, when the worker tests no more. And who comes   *)
(* to CANCELLED, from whatever side, has discarded.                        *)
GoneInv ==
  /\ state \in SUCCESS_STATES => Published /\ cand
  /\ \A c \in Client : cpc[c] = "cancel_rm" => Published
  /\ ~cand /\ wpc # "dead" => ws = "absent"
  /\ discarded => Gone
  /\ discarded /\ ~Published /\ wpc \notin {"fail_set", "cancel_set"} => Rejecting
  /\ wpc \in {"fail_set", "cancel_set"} => Gone
  /\ Published /\ state = "CANCELLED" => Gone

LEMMA GoneWorker == ASSUME TypeInv, VetInv, GoneInv, Worker PROVE GoneInv'
<1> USE DEF TypeInv, TypeOK, CandInv, GoneInv, Gone, Rejecting, Published, WorkerGoes,
            WorkerFails, MarkDiscarded, candidate, context, done, Unmade, Made,
            SUCCESS_STATES, LOCKED_STATES
<1>1. CASE StartThread \/ Refuse \/ Begin \/ SnapshotRaises \/ HashOrigin \/ CopyOrigin
  BY <1>1, SetStateGuards DEF StartThread, Refuse, Begin, SnapshotRaises, HashOrigin, CopyOrigin
<1>2. CASE SetRunning \/ MarkRunning \/ VerifyBegin \/ SetVerifying
  BY <1>2, SetStateGuards DEF SetRunning, MarkRunning, VerifyBegin, SetVerifying
<1>3. CASE TestsBegin \/ TestsEnd
  BY <1>3 DEF TestsBegin, TestsEnd, RunTests, Mkdir
<1>4. CASE Audit \/ Report \/ WorkStops \/ WorkRaises \/ AfterRun \/ Fail \/ Accept
  BY <1>4 DEF Audit, Report, WorkStops, WorkRaises, AfterRun, Fail, Accept
<1>5. CASE SetFailed \/ SetCancelled
  BY <1>5, SetStateGuards DEF SetFailed, SetCancelled
<1>6. CASE Publish
  BY <1>6, SetStateGuards DEF Publish, Final
<1>7. CASE Answer \/ AnswerRaises
  BY <1>7 DEF Answer, AnswerRaises
<1>8. CASE CancelledResult
  BY <1>8 DEF CancelledResult
<1>9. CASE \/ WorkerDiscards("fail_check", "fail_rm", "fail_set")
           \/ WorkerDiscards("cancel_check", "cancel_rm", "cancel_set")
  BY <1>9 DEF WorkerDiscards, RemoveSome
<1> QED
  BY <1>1, <1>2, <1>3, <1>4, <1>5, <1>6, <1>7, <1>8, <1>9 DEF Worker, WorkerStep

\* A request neither takes a reject back nor makes what is gone come back.
LEMMA RejectingStays ==
  ASSUME TypeInv, NEW c \in Client, Requests(c), Rejecting
  PROVE  Rejecting'
<1> USE DEF TypeInv, TypeOK, Rejecting, ClientGoes, MayCall, done
<1>1. CASE CancelToken(c) \/ CancelState(c) \/ CancelLock(c) \/ CancelRemove(c)
  BY <1>1 DEF CancelToken, CancelState, CancelLock, CancelRemove
<1>2. CASE RemovePart(c) \/ RemoveRaises(c)
  BY <1>2 DEF RemovePart, RemoveRaises
<1>3. CASE ApproveCheck(c) \/ ApproveMark(c) \/ PromoteCall(c) \/ PromoteBegin(c) \/ PromoteState(c)
  BY <1>3 DEF ApproveCheck, ApproveMark, PromoteCall, PromoteBegin, PromoteState
<1>4. CASE PromoteOrigin(c) \/ SetStale(c)
  BY <1>4 DEF PromoteOrigin, SetStale
<1>5. CASE PromoteTests(c) \/ PromoteMark(c) \/ SetReady(c)
  BY <1>5 DEF PromoteTests, PromoteMark, SetReady
<1>6. CASE Reject(c) \/ RejectRemove(c) \/ RejectSet(c)
  BY <1>6 DEF Reject, RejectRemove, RejectSet
<1> QED
  BY <1>1, <1>2, <1>3, <1>4, <1>5, <1>6 DEF Requests, Request, RequestStep

LEMMA GoneStays ==
  ASSUME TypeInv, VetInv, NEW c \in Client, Requests(c), Gone
  PROVE  Gone'
<1> USE DEF TypeInv, TypeOK, VetInv, PromotionInv, Gone, ClientGoes, MayCall,
            MarkDiscarded, candidate, done
<1>0. Rejecting => Rejecting'
  BY RejectingStays
<1>1. CASE CancelToken(c) \/ CancelState(c) \/ CancelLock(c) \/ CancelRemove(c)
  BY <1>0, <1>1 DEF CancelToken, CancelState, CancelLock, CancelRemove
<1>2. CASE RemovePart(c) \/ RemoveRaises(c)
  BY <1>0, <1>2 DEF RemovePart, RemoveSome, RemoveRaises
<1>3. CASE ApproveCheck(c) \/ ApproveMark(c) \/ PromoteCall(c) \/ PromoteBegin(c) \/ PromoteState(c)
  BY <1>0, <1>3 DEF ApproveCheck, ApproveMark, PromoteCall, PromoteBegin, PromoteState
<1>4. CASE PromoteOrigin(c) \/ SetStale(c)
  BY <1>0, <1>4 DEF PromoteOrigin, SetStale
<1>5. CASE PromoteTests(c) \/ PromoteMark(c) \/ SetReady(c)
  BY <1>0, <1>5 DEF PromoteTests, PromoteMark, SetReady
<1>6. CASE Reject(c) \/ RejectRemove(c) \/ RejectSet(c)
  BY <1>0, <1>6 DEF Reject, RejectRemove, RejectSet
<1> QED
  BY <1>1, <1>2, <1>3, <1>4, <1>5, <1>6 DEF Requests, Request, RequestStep

LEMMA GoneClient ==
  ASSUME TypeInv, VetInv, GoneInv, NEW c \in Client, Requests(c)
  PROVE  GoneInv'
<1> USE DEF TypeInv, TypeOK, CandInv, VetInv, VerdictInv, PromotionInv, GoneInv, Published,
            ClientGoes, MayCall, MarkDiscarded, candidate, context, done,
            SUCCESS_STATES, LOCKED_STATES
<1>0. wpc' = wpc /\ (Gone => Gone') /\ (Rejecting => Rejecting')
  BY ClientState, GoneStays, RejectingStays
<1>1. CASE CancelToken(c) \/ CancelLock(c)
  BY <1>0, <1>1 DEF CancelToken, CancelLock
<1>2. CASE CancelState(c)
  <2>1. ws = "absent" => Gone
    BY DEF Gone
  <2> QED
    BY <1>0, <1>2, <2>1 DEF CancelState
<1>3. CASE CancelRemove(c)
  <2>1. Gone'
    BY <1>3 DEF CancelRemove, Gone
  <2> QED
    BY <1>0, <1>3, <2>1 DEF CancelRemove
<1>4. CASE RemovePart(c) \/ RemoveRaises(c)
  BY <1>0, <1>4 DEF RemovePart, RemoveSome, RemoveRaises
<1>5. CASE ApproveCheck(c) \/ ApproveMark(c) \/ PromoteCall(c) \/ PromoteBegin(c) \/ PromoteState(c)
  BY <1>0, <1>5 DEF ApproveCheck, ApproveMark, PromoteCall, PromoteBegin, PromoteState
<1>6. CASE PromoteOrigin(c) \/ PromoteTests(c) \/ PromoteMark(c)
  BY <1>0, <1>6 DEF PromoteOrigin, PromoteTests, RunTests, PromoteMark, Mkdir
<1>7. CASE SetStale(c)
  BY <1>0, <1>7 DEF SetStale, SetState, SetTo
<1>8. CASE SetReady(c)
  <2>1. Gone
    BY <1>8 DEF SetReady, Gone
  <2> QED
    BY <1>0, <1>8, <2>1 DEF SetReady, SetState, SetTo
<1>9. CASE Reject(c) \/ RejectRemove(c)
  <2>1. discarded' # discarded => Gone' /\ Rejecting'
    BY <1>9 DEF Reject, RejectRemove, Gone, Rejecting
  <2> QED
    BY <1>0, <1>9, <2>1 DEF Reject, RejectRemove
<1>10. CASE RejectSet(c)
  BY <1>0, <1>10 DEF RejectSet, SetState, SetTo
<1> QED
  BY <1>1, <1>2, <1>3, <1>4, <1>5, <1>6, <1>7, <1>8, <1>9, <1>10
  DEF Requests, Request, RequestStep

LEMMA GoneHolds == Spec => []GoneInv
<1>1. Init => GoneInv
  BY DEF Init, GoneInv, Published, SUCCESS_STATES
<1>2. TypeInv /\ VetInv /\ GoneInv /\ [Next]_vars => GoneInv'
  <2> SUFFICES ASSUME TypeInv, VetInv, GoneInv, [Next]_vars PROVE GoneInv'
    OBVIOUS
  <2>1. CASE Worker
    BY <2>1, GoneWorker
  <2>2. CASE \E c \in Client : Requests(c)
    BY <2>2, GoneClient
  <2>3. CASE EditOrigin \/ UNCHANGED task
    BY <2>3 DEF EditOrigin, task, candidate, done, GoneInv, Gone, Rejecting, Published
  <2> QED
    BY <2>1, <2>2, <2>3, NextCases
<1> QED
  BY <1>1, <1>2, VetHolds, PTL DEF Spec

(* A cancelled task leaves nothing of its workspace behind once the worker *)
(* is through, unless it had been approved or rejected.                    *)
THEOREM CancelledIsCleared == Spec => []CancelDiscards
<1>1. GoneInv => CancelDiscards
  BY DEF GoneInv, Gone, Rejecting, Published, Ended, Quiet, CancelDiscards
<1> QED
  BY <1>1, GoneHolds, PTL
-----------------------------------------------------------------------------
(* Runtime implements TaskLife, with or without approval, if requests come *)
(* after start_task has answered.                                          *)

(* Where the worker is determines which phases are possible; CANCEL_       *)
(* REQUESTED comes with the token, and who removes a workspace under the   *)
(* lock found the task a success: only the unlocked FAILED can intervene.  *)
PhaseInv ==
  /\ wpc = "registered" => state = "CREATED"
  /\ ~Published => state \notin SUCCESS_STATES \cup {"FAILED"}
  /\ Published => state \notin {"CREATED", "RUNNING", "VERIFYING"}
  /\ state = "CANCEL_REQUESTED" => token
  /\ \A c \in Client :
       cpc[c] = "cancel_rm" => state \in SUCCESS_STATES \cup LOCKED_STATES \cup {"FAILED"}

AllInv == TypeInv /\ VetInv /\ CancelInv /\ RejectInv /\ PhaseInv

LEMMA PhaseWorker == ASSUME TypeInv, PhaseInv, Worker PROVE PhaseInv'
<1> USE DEF TypeInv, TypeOK, PhaseInv, Published, WorkerGoes, WorkerFails, SetState, SetTo,
            candidate, context, done, RuntimeState, SUCCESS_STATES, LOCKED_STATES
<1>1. CASE StartThread \/ Refuse \/ Begin
  BY <1>1 DEF StartThread, Refuse, Begin, Held
<1>2. CASE SnapshotRaises \/ HashOrigin \/ CopyOrigin
  BY <1>2 DEF SnapshotRaises, HashOrigin, CopyOrigin
<1>3. CASE SetRunning \/ MarkRunning \/ TestsBegin \/ TestsEnd \/ VerifyBegin \/ SetVerifying
  BY <1>3 DEF SetRunning, MarkRunning, TestsBegin, TestsEnd, VerifyBegin, SetVerifying
<1>4. CASE Audit \/ Report \/ WorkStops \/ WorkRaises \/ AfterRun \/ Fail \/ SetFailed \/ Accept
  BY <1>4 DEF Audit, Report, WorkStops, WorkRaises, AfterRun, Fail, SetFailed, Accept
<1>5. CASE Publish
  BY <1>5 DEF Publish, Final
<1>6. CASE Answer \/ AnswerRaises \/ CancelledResult \/ SetCancelled
  BY <1>6 DEF Answer, AnswerRaises, CancelledResult, SetCancelled
<1>7. CASE \/ WorkerDiscards("fail_check", "fail_rm", "fail_set")
           \/ WorkerDiscards("cancel_check", "cancel_rm", "cancel_set")
  BY <1>7 DEF WorkerDiscards
<1> QED
  BY <1>1, <1>2, <1>3, <1>4, <1>5, <1>6, <1>7 DEF Worker, WorkerStep

LEMMA PhaseClient ==
  ASSUME ~EarlyCalls, TypeInv, VetInv, RejectInv, CancelInv, PhaseInv,
         NEW c \in Client, Requests(c)
  PROVE  PhaseInv'
<1> USE DEF TypeInv, TypeOK, PhaseInv, Published, ClientGoes, MayCall, SetState, SetTo,
            candidate, context, done, RuntimeState, SUCCESS_STATES, LOCKED_STATES
<1>0. wpc # "registered"
  BY DEF RejectInv, Requests, Request, RequestStep, CancelToken, CancelState, CancelLock,
    CancelRemove, RemovePart, RemoveRaises, ApproveCheck, ApproveMark, PromoteCall, PromoteBegin,
    PromoteState, PromoteOrigin, SetStale, PromoteTests, PromoteMark, SetReady,
    Reject, RejectRemove, RejectSet
<1>1. CASE CancelToken(c) \/ CancelLock(c) \/ RemovePart(c) \/ RemoveRaises(c)
  BY <1>0, <1>1 DEF CancelToken, CancelLock, RemovePart, RemoveRaises
<1>2. CASE CancelState(c)
  BY <1>0, <1>2 DEF CancelState, CancelInv, Held
<1>3. CASE CancelRemove(c)
  BY <1>0, <1>3 DEF CancelRemove
<1>4. CASE ApproveCheck(c) \/ ApproveMark(c) \/ PromoteCall(c) \/ PromoteBegin(c) \/ PromoteState(c)
  BY <1>0, <1>4 DEF ApproveCheck, ApproveMark, PromoteCall, PromoteBegin, PromoteState
<1>5. CASE PromoteOrigin(c) \/ SetStale(c) \/ PromoteTests(c) \/ PromoteMark(c)
  BY <1>0, <1>5 DEF PromoteOrigin, SetStale, PromoteTests, PromoteMark
<1>6. CASE SetReady(c)
  <2>1. Published
    BY <1>6 DEF SetReady, VetInv, PromotionInv, VerdictInv
  <2> QED
    BY <1>0, <1>6, <2>1 DEF SetReady
<1>7. CASE Reject(c) \/ RejectRemove(c) \/ RejectSet(c)
  BY <1>0, <1>7 DEF Reject, RejectRemove, RejectSet
<1> QED
  BY <1>1, <1>2, <1>3, <1>4, <1>5, <1>6, <1>7 DEF Requests, Request, RequestStep

LEMMA PhaseHolds == ASSUME ~EarlyCalls PROVE Spec => []AllInv
<1>1. Init => PhaseInv
  BY DEF Init, PhaseInv, Published, SUCCESS_STATES, LOCKED_STATES
<1>2. TypeInv /\ VetInv /\ CancelInv /\ RejectInv /\ PhaseInv /\ [Next]_vars => PhaseInv'
  <2> SUFFICES ASSUME TypeInv, VetInv, CancelInv, RejectInv, PhaseInv, [Next]_vars
               PROVE  PhaseInv'
    OBVIOUS
  <2>1. CASE Worker
    BY <2>1, PhaseWorker
  <2>2. CASE \E c \in Client : Requests(c)
    BY <2>2, PhaseClient
  <2>3. CASE EditOrigin \/ UNCHANGED task
    BY <2>3 DEF EditOrigin, task, PhaseInv, Published
  <2> QED
    BY <2>1, <2>2, <2>3, NextCases
<1> QED
  BY <1>1, <1>2, VetHolds, CancelHolds, RejectHolds, PTL DEF Spec, AllInv

-----------------------------------------------------------------------------
(* Every step is a step of TaskLife, or leaves everything it speaks of.    *)

LifeStep == Life!Next \/ UNCHANGED Life!life

LEMMA PhaseTable ==
  \A s \in RuntimeState :
    /\ s \in {"CREATED", "RUNNING", "VERIFYING"} => PhaseOf[s] = "working"
    /\ s = "CANCEL_REQUESTED" => PhaseOf[s] = "cancelling"
    /\ s \in {"VERIFIED", "WAITING_FOR_APPROVAL"} => PhaseOf[s] = "offered"
    /\ s = "READY_FOR_PROMOTION" => PhaseOf[s] = "ready"
    /\ s \in LOCKED_STATES => PhaseOf[s] = "closed"
    /\ s = "FAILED" => PhaseOf[s] = "failed"
BY DEF PhaseOf, LOCKED_STATES

LEMMA LifeWorker == ASSUME AllInv, TypeOK', Worker PROVE LifeStep
<1>a. state \in RuntimeState /\ state' \in RuntimeState
  BY DEF AllInv, TypeInv, TypeOK
<1> USE <1>a, PhaseTable DEF RuntimeState, LifeStep, WorkerGoes, WorkerFails, candidate, context, done,
            Life!life, Life!Next
<1>0. /\ TypeOK /\ PhaseInv /\ VerdictInv
      /\ cancelDone => token
      /\ rejectDone => state \in LOCKED_STATES \/ wpc = "dead"
  BY DEF AllInv, TypeInv, VetInv, CancelInv, RejectInv
<1>1. CASE StartThread \/ Refuse \/ Begin
  <2>1. CASE StartThread
    BY <1>0, <2>1 DEF StartThread, PhaseInv, LOCKED_STATES
  <2>2. CASE Refuse
    BY <2>2 DEF Refuse, SetState, SetTo, SUCCESS_STATES, LOCKED_STATES, Life!Break
  <2>3. CASE Begin
    BY <2>3 DEF Begin
  <2> QED
    BY <1>1, <2>1, <2>2, <2>3
<1>2. CASE SnapshotRaises \/ HashOrigin \/ CopyOrigin
  BY <1>2 DEF SnapshotRaises, HashOrigin, CopyOrigin, Life!Break, LOCKED_STATES
<1>3. CASE SetRunning \/ SetVerifying
  BY <1>0, <1>3 DEF SetRunning, SetVerifying, PhaseInv, Published, TypeOK, SetState, SetTo,
    RuntimeState, SUCCESS_STATES, LOCKED_STATES, Life!Close
<1>4. CASE MarkRunning \/ TestsBegin \/ TestsEnd \/ VerifyBegin
  BY <1>4 DEF MarkRunning, TestsBegin, TestsEnd, VerifyBegin
<1>5. CASE Audit
  BY <1>0, <1>5 DEF Audit, PhaseInv, VerdictInv, Published, TypeOK, RuntimeState,
    SUCCESS_STATES, LOCKED_STATES, Life!Verify
<1>6. CASE Report \/ WorkStops \/ WorkRaises \/ AfterRun \/ Fail \/ Accept
  BY <1>6 DEF Report, WorkStops, WorkRaises, AfterRun, Fail, Accept, Life!Break, LOCKED_STATES
<1>7. CASE SetFailed
  BY <1>7 DEF SetFailed, SetState, SetTo, SUCCESS_STATES, Life!Break
<1>8. CASE Publish
  BY <1>0, <1>8 DEF Publish, Final, PhaseInv, VerdictInv, Published, TypeOK, SetState, SetTo,
    RuntimeState, SUCCESS_STATES, LOCKED_STATES, Life!Offer, Life!Close
<1>9. CASE Answer \/ AnswerRaises \/ CancelledResult
  BY <1>9 DEF Answer, AnswerRaises, CancelledResult, Life!Break, LOCKED_STATES
<1>10. CASE SetCancelled
  BY <1>0, <1>10 DEF SetCancelled, TypeOK, SetState, SetTo, RuntimeState, SUCCESS_STATES,
    LOCKED_STATES, Life!Close
<1>11. CASE \/ WorkerDiscards("fail_check", "fail_rm", "fail_set")
            \/ WorkerDiscards("cancel_check", "cancel_rm", "cancel_set")
  BY <1>11 DEF WorkerDiscards, RemoveSome, MarkDiscarded, Life!Break, LOCKED_STATES
<1> QED
  BY <1>1, <1>2, <1>3, <1>4, <1>5, <1>6, <1>7, <1>8, <1>9, <1>10, <1>11 DEF Worker, WorkerStep

LEMMA LifeClient ==
  ASSUME AllInv, TypeOK', NEW c \in Client, Requests(c)
  PROVE  LifeStep
<1>a. state \in RuntimeState /\ state' \in RuntimeState
  BY DEF AllInv, TypeInv, TypeOK
<1> USE <1>a, PhaseTable DEF LifeStep, ClientGoes, candidate, context, done, Life!life, Life!Next,
            RuntimeState, SUCCESS_STATES, LOCKED_STATES
<1>0. /\ TypeOK /\ PhaseInv /\ VerdictInv /\ PromotionInv
      /\ cancelDone => token
  BY DEF AllInv, TypeInv, VetInv, CancelInv
<1>1. CASE CancelToken(c) \/ CancelLock(c) \/ RemovePart(c) \/ RemoveRaises(c)
  BY <1>1 DEF CancelToken, CancelLock, RemovePart, RemoveRaises
<1>2. CASE CancelState(c)
  BY <1>0, <1>2 DEF CancelState, TypeOK, Life!Cancel
<1>3. CASE CancelRemove(c)
  BY <1>0, <1>3 DEF CancelRemove, PhaseInv, Life!Cancel
<1>4. CASE ApproveMark(c)
  BY <1>0, <1>4 DEF ApproveMark, PhaseInv, VerdictInv, Published, TypeOK, Life!Approve
<1>5. CASE ApproveCheck(c) \/ PromoteCall(c) \/ PromoteBegin(c) \/ PromoteState(c)
  BY <1>5 DEF ApproveCheck, PromoteCall, PromoteBegin, PromoteState
<1>6. CASE PromoteOrigin(c) \/ PromoteTests(c) \/ PromoteMark(c)
  BY <1>6 DEF PromoteOrigin, PromoteTests, PromoteMark
<1>7. CASE SetStale(c)
  BY <1>0, <1>7 DEF SetStale, TypeOK, SetState, SetTo, Life!Close
<1>8. CASE SetReady(c)
  BY <1>0, <1>8 DEF SetReady, PhaseInv, VerdictInv, PromotionInv, Published, TypeOK, SetState,
    SetTo, Life!MakeReady, Life!Close
<1>9. CASE Reject(c) \/ RejectRemove(c)
  BY <1>9 DEF Reject, RejectRemove
<1>10. CASE RejectSet(c)
  BY <1>0, <1>10 DEF RejectSet, TypeOK, SetState, SetTo, Life!Reject
<1> QED
  BY <1>1, <1>2, <1>3, <1>4, <1>5, <1>6, <1>7, <1>8, <1>9, <1>10 DEF Requests, Request, RequestStep

(* The task lives as TaskLife says: offered only by the worker and after   *)
(* the audit, ready only with a human's approval, and never again once a   *)
(* cancel was answered, whatever the threads do at the same time.          *)
THEOREM Implements == ASSUME ~EarlyCalls PROVE Spec => ImplementsTaskLife
<1>1. Init => Life!Init
  BY PhaseTable DEF Init, Life!Init, RuntimeState
<1>2. AllInv /\ [Next]_vars => [Life!Next]_(Life!life)
  <2> SUFFICES ASSUME AllInv, [Next]_vars PROVE LifeStep
    BY DEF LifeStep
  <2>0. TypeOK'
    BY NextType DEF AllInv, TypeInv
  <2>1. CASE Worker
    BY <2>0, <2>1, LifeWorker
  <2>2. CASE \E c \in Client : Requests(c)
    BY <2>0, <2>2, LifeClient
  <2>3. CASE EditOrigin \/ UNCHANGED task
    BY <2>3 DEF EditOrigin, task, candidate, context, done, LifeStep, Life!life
  <2> QED
    BY <2>1, <2>2, <2>3, NextCases
<1> QED
  BY <1>1, <1>2, PhaseHolds, PTL DEF Spec, ImplementsTaskLife, Life!Spec

-----------------------------------------------------------------------------
(* The workspace of what is offered.                                       *)

\* Lost for good: rejected, about to be, or cancelled.
Dead ==
  \/ rejectDone \/ \E c \in Client : cpc[c] = "reject_set"
  \/ token /\ state \notin SUCCESS_STATES

Abandoned ==
  {"fail", "fail_check", "fail_rm", "fail_set",
   "cancel", "cancel_check", "cancel_rm", "cancel_set"}

\* The worker gave the task up without having published it.
Closed ==
  /\ wpc \in Abandoned \cup {"not_ok", "end", "dead"} /\ state \notin SUCCESS_STATES
  /\ ~approved /\ \A c \in Client : cpc[c] # "approve"

Whole == ws = "copy" /\ ~discarded

\* A request is removing the files, or has raised while it did.
Halved ==
  /\ ws = "partial" /\ ~discarded
  /\ torn \/ \E c \in Client : cpc[c] \in {"cancel_rm", "reject_rm"}

(* Without its whole copy a task is lost or closed, or a request's rmtree  *)
(* is to blame; so is one whose candidate is no success any more, unless a *)
(* promotion found the origin changed or the worker died.                  *)
KeptInv ==
  /\ state \in SUCCESS_STATES => cand
  /\ cand => Whole \/ Halved \/ Dead \/ Closed
  /\ wpc = "not_ok" => Closed
  /\ wpc \in {"publish", "answer", "not_ok", "end"} /\ cst \notin SUCCESS_STATES =>
       \/ Dead \/ Closed \/ state \in LOCKED_STATES
       \/ \E c \in Client : cpc[c] = "promote_stale"

(* What is lost stays lost, and what is closed stays closed.               *)
LEMMA DeadWorker ==
  ASSUME AllInv, Worker
  PROVE  /\ Dead => Dead'
         /\ Closed => Closed'
<1>0. /\ token' = token /\ UNCHANGED <<cpc, done>>
      /\ token /\ state \notin SUCCESS_STATES => state' \notin SUCCESS_STATES
  BY WorkerState, SetStateGuards DEF SUCCESS_STATES
<1>1. Dead => Dead'
  BY <1>0 DEF Dead, done
<1>2. ASSUME Closed PROVE Closed'
  <2> USE <1>2 DEF Closed, Abandoned, WorkerGoes, WorkerFails, candidate, SUCCESS_STATES,
                   LOCKED_STATES
  <2>1. CASE Fail \/ CancelledResult
    BY <1>0, <2>1 DEF Fail, CancelledResult
  <2>2. CASE SetFailed \/ SetCancelled
    BY <1>0, <2>2 DEF SetFailed, SetCancelled, SetState, SetTo
  <2>3. CASE \/ WorkerDiscards("fail_check", "fail_rm", "fail_set")
             \/ WorkerDiscards("cancel_check", "cancel_rm", "cancel_set")
    BY <1>0, <2>3 DEF WorkerDiscards
  <2> QED
    BY <2>1, <2>2, <2>3 DEF Worker, WorkerStep, StartThread, Refuse, Begin, SnapshotRaises,
      HashOrigin, CopyOrigin, SetRunning, MarkRunning, TestsBegin, TestsEnd, VerifyBegin,
      SetVerifying, Audit, Report, WorkStops, WorkRaises, AfterRun, Accept, Publish, Answer, AnswerRaises
<1> QED
  BY <1>1, <1>2

LEMMA DeadClient ==
  ASSUME AllInv, NEW c \in Client, Requests(c)
  PROVE  /\ Dead => Dead'
         /\ Closed => Closed'
<1> USE DEF AllInv, TypeInv, TypeOK, ClientGoes, done, candidate
<1>0. token /\ state \notin SUCCESS_STATES => token' /\ state' \notin SUCCESS_STATES
  BY ClientState, SetStateGuards DEF SUCCESS_STATES, LOCKED_STATES
<1>1. rejectDone => rejectDone'
  BY DEF Requests, Request, RequestStep, CancelToken, CancelState, CancelLock, CancelRemove,
    RemovePart, RemoveRaises, ApproveCheck, ApproveMark, PromoteCall, PromoteBegin, PromoteState,
    PromoteOrigin, SetStale, PromoteTests, PromoteMark, SetReady, Reject, RejectRemove,
    RejectSet
<1>2. \A d \in Client : cpc[d] = "reject_set" => cpc'[d] = "reject_set" \/ rejectDone'
  BY DEF Requests, Request, RequestStep, CancelToken, CancelState, CancelLock, CancelRemove,
    RemovePart, RemoveRaises, ApproveCheck, ApproveMark, PromoteCall, PromoteBegin, PromoteState,
    PromoteOrigin, SetStale, PromoteTests, PromoteMark, SetReady, Reject, RejectRemove,
    RejectSet, MayCall
<1>3. Dead => Dead'
  BY <1>0, <1>1, <1>2 DEF Dead
<1>4. ASSUME Closed PROVE Closed'
  <2> USE <1>4 DEF Closed, SUCCESS_STATES, LOCKED_STATES
  <2>1. wpc' = wpc
    BY ClientState
  <2>2. approved' = approved /\ \A d \in Client : cpc'[d] # "approve"
    BY DEF Requests, Request, RequestStep, CancelToken, CancelState, CancelLock, CancelRemove,
      RemovePart, RemoveRaises, ApproveCheck, ApproveMark, PromoteCall, PromoteBegin, PromoteState,
      PromoteOrigin, SetStale, PromoteTests, PromoteMark, SetReady, Reject, RejectRemove,
      RejectSet, MayCall
  <2>3. state' \notin SUCCESS_STATES
    BY DEF Requests, Request, RequestStep, CancelToken, CancelState, CancelLock, CancelRemove,
      RemovePart, RemoveRaises, ApproveCheck, ApproveMark, PromoteCall, PromoteBegin, PromoteState,
      PromoteOrigin, SetStale, PromoteTests, PromoteMark, SetReady, Reject, RejectRemove,
      RejectSet, SetState, SetTo, VetInv, PromotionInv
  <2> QED
    BY <2>1, <2>2, <2>3
<1> QED
  BY <1>3, <1>4

LEMMA KeptWorker == ASSUME AllInv, KeptInv, Worker PROVE KeptInv'
<1> USE DEF KeptInv, Whole, Halved, WorkerGoes, WorkerFails, candidate, context, done, SUCCESS_STATES,
            LOCKED_STATES
<1>0. /\ TypeOK /\ CandInv /\ PhaseInv /\ VerdictInv
      /\ Dead => Dead'
      /\ Closed => Closed'
      /\ UNCHANGED cpc
  BY DeadWorker, WorkerState DEF AllInv, TypeInv, VetInv
\* Before publication nothing is approved: a worker that gives up closes the task.
<1>1. ASSUME ~Published, wpc' \in Abandoned \cup {"not_ok", "end", "dead"}, state' \notin SUCCESS_STATES,
             UNCHANGED <<approved, cpc>>
      PROVE  Closed'
  BY <1>0, <1>1 DEF VerdictInv, Closed
<1>2. CASE StartThread \/ Refuse \/ Begin \/ SnapshotRaises
  BY <1>0, <1>1, <1>2 DEF StartThread, Refuse, Begin, SnapshotRaises, Published, SetState,
    SetTo, CandInv, Unmade, PhaseInv, Abandoned
<1>3. CASE HashOrigin \/ CopyOrigin
  BY <1>0, <1>3 DEF HashOrigin, CopyOrigin, CandInv, TypeOK, Unmade, PhaseInv, Published
<1>4. CASE SetRunning \/ SetVerifying
  BY <1>0, <1>4 DEF SetRunning, SetVerifying, SetState, SetTo
<1>5. CASE \/ MarkRunning \/ TestsBegin \/ TestsEnd \/ VerifyBegin
           \/ Audit \/ Report \/ WorkStops \/ AfterRun \/ Fail
  BY <1>0, <1>5 DEF MarkRunning, TestsBegin, TestsEnd, RunTests, VerifyBegin, Mkdir, Audit,
    Report, WorkStops, AfterRun, Fail
<1>6. CASE Accept
  BY <1>0, <1>6 DEF Accept
<1>7. CASE Publish
  BY <1>0, <1>7 DEF Publish, Final, SetState, SetTo, CandInv, Made
<1>8. CASE Answer
  BY <1>0, <1>8 DEF Answer
<1>9. CASE AnswerRaises
  BY <1>0, <1>9 DEF AnswerRaises
<1>10. CASE CancelledResult
  BY <1>0, <1>10 DEF CancelledResult
<1>11. CASE SetFailed \/ SetCancelled
  BY <1>0, <1>1, <1>11 DEF SetFailed, SetCancelled, SetState, SetTo, Published, PhaseInv
<1>12. CASE \/ WorkerDiscards("fail_check", "fail_rm", "fail_set")
            \/ WorkerDiscards("cancel_check", "cancel_rm", "cancel_set")
  <2>1. Closed'
    BY <1>0, <1>1, <1>12 DEF WorkerDiscards, Published, PhaseInv, Abandoned
  <2>2. cand' /\ state' \notin SUCCESS_STATES
    BY <1>0, <1>12 DEF WorkerDiscards, Published, PhaseInv, CandInv, Made
  <2> QED
    BY <2>1, <2>2
<1>13. CASE WorkRaises
  BY <1>0, <1>1, <1>13 DEF WorkRaises, Published
<1> QED
  BY <1>2, <1>3, <1>4, <1>5, <1>6, <1>7, <1>8, <1>9, <1>10, <1>11, <1>12, <1>13
  DEF Worker, WorkerStep

LEMMA KeptClient ==
  ASSUME AllInv, KeptInv, NEW c \in Client, Requests(c)
  PROVE  KeptInv'
<1> USE DEF KeptInv, Whole, Halved, ClientGoes, candidate, context, done, SUCCESS_STATES, LOCKED_STATES
<1>0. /\ TypeOK /\ CandInv /\ VetInv /\ CancelInv
      /\ Dead => Dead'
      /\ Closed => Closed'
      /\ wpc' = wpc
  BY DeadClient, ClientState DEF AllInv, TypeInv
<1>1. CASE CancelToken(c) \/ CancelLock(c) \/ RemovePart(c) \/ RemoveRaises(c)
  BY <1>0, <1>1 DEF CancelToken, CancelLock, RemovePart, RemoveSome, RemoveRaises, TypeOK, MayCall
<1>2. CASE CancelState(c)
  <2>1. token /\ UNCHANGED <<token, ws, cand>> /\ state' \notin SUCCESS_STATES
    BY <1>0, <1>2 DEF CancelState, CancelInv
  <2>2. Dead'
    BY <2>1 DEF Dead
  <2> QED
    BY <1>0, <2>1, <2>2
<1>3. CASE CancelRemove(c)
  <2>1. token /\ UNCHANGED <<token, cand>> /\ state' \notin SUCCESS_STATES
    BY <1>0, <1>3 DEF CancelRemove, CancelInv
  <2>2. Dead'
    BY <2>1 DEF Dead
  <2> QED
    BY <1>0, <2>1, <2>2
<1>4. CASE ApproveCheck(c) \/ ApproveMark(c) \/ PromoteCall(c) \/ PromoteBegin(c) \/ PromoteState(c)
  BY <1>0, <1>4 DEF ApproveCheck, ApproveMark, PromoteCall, PromoteBegin, PromoteState,
    TypeOK, MayCall
<1>5. CASE PromoteOrigin(c)
  BY <1>0, <1>5 DEF PromoteOrigin, Mkdir, TypeOK
<1>6. CASE SetStale(c)
  BY <1>0, <1>6 DEF SetStale, SetState, SetTo, TypeOK
<1>7. CASE PromoteTests(c) \/ PromoteMark(c)
  BY <1>0, <1>7 DEF PromoteTests, RunTests, Mkdir, PromoteMark, TypeOK
<1>8. CASE SetReady(c)
  BY <1>0, <1>8 DEF SetReady, SetState, SetTo, TypeOK, VetInv, PromotionInv
<1>9. CASE Reject(c)
  BY <1>0, <1>9 DEF Reject, MarkDiscarded, TypeOK, Dead, MayCall
<1>10. CASE RejectRemove(c)
  BY <1>0, <1>10 DEF RejectRemove, MarkDiscarded, TypeOK, Dead
<1>11. CASE RejectSet(c)
  BY <1>0, <1>11 DEF RejectSet, SetState, SetTo, TypeOK
<1> QED
  BY <1>1, <1>2, <1>3, <1>4, <1>5, <1>6, <1>7, <1>8, <1>9, <1>10, <1>11 DEF Requests, Request, RequestStep

LEMMA KeptHolds == ASSUME ~EarlyCalls PROVE Spec => [](AllInv /\ KeptInv)
<1>1. Init => KeptInv
  BY DEF Init, KeptInv, SUCCESS_STATES
<1>2. AllInv /\ KeptInv /\ [Next]_vars => KeptInv'
  <2> SUFFICES ASSUME AllInv, KeptInv, [Next]_vars PROVE KeptInv'
    OBVIOUS
  <2>1. CASE Worker
    BY <2>1, KeptWorker
  <2>2. CASE \E c \in Client : Requests(c)
    BY <2>2, KeptClient
  <2>3. CASE EditOrigin \/ UNCHANGED task
    BY <2>3 DEF EditOrigin, task, candidate, context, done, KeptInv, Whole, Halved, Dead, Closed
  <2> QED
    BY <2>1, <2>2, <2>3, NextCases
<1> QED
  BY <1>1, <1>2, PhaseHolds, PTL DEF Spec

(* When no request is under way, what waits for approval has its           *)
(* workspace, and so has what is ready and was not rejected, whatever      *)
(* requests came before and however they met the worker, unless a request  *)
(* raised with half of the files removed; for clients that call after      *)
(* start_task has answered.                                                *)
THEOREM OfferIsKept == ASSUME ~EarlyCalls PROVE Spec => []OfferedIsThere
<1>1. AllInv /\ KeptInv => OfferedIsThere
  BY DEF AllInv, RejectInv, PhaseInv, KeptInv, Whole, Halved, Dead, Closed, Quiet, OfferedIsThere,
    Published, SUCCESS_STATES, LOCKED_STATES
<1> QED
  BY <1>1, KeptHolds, PTL

(* What is told of a task as a success turns false in the telling only     *)
(* because it was withdrawn, its promotion found stale, or the worker's    *)
(* own answer raised; for clients that call after start_task has answered. *)
THEOREM SuccessIsWithdrawn == ASSUME ~EarlyCalls PROVE Spec => SuccessOnlyWithdrawn
<1> DEFINE Step == state \in SUCCESS_STATES /\ state' \notin SUCCESS_STATES =>
                     \/ Withdrawn
                     \/ state' = "PROMOTION_REJECTED"
                     \/ wpc = "answer" /\ state' = "FAILED"
<1>1. AllInv /\ KeptInv /\ [Next]_vars => [Step]_vars
  <2> SUFFICES ASSUME AllInv, KeptInv, Next,
                      state \in SUCCESS_STATES, state' \notin SUCCESS_STATES, ~Withdrawn
               PROVE  state' = "PROMOTION_REJECTED" \/ (wpc = "answer" /\ state' = "FAILED")
    BY DEF vars, task, Next
  <2>1. Published /\ ~token /\ wpc # "not_ok"
    BY DEF AllInv, TypeInv, TypeOK, PhaseInv, KeptInv, Withdrawn, Dead, Closed
  <2>2. ASSUME NEW new, SetState(new) PROVE state' \in {state, new}
    BY <2>1, <2>2 DEF SetState, SetTo
  <2>3. CASE Worker
    BY <2>1, <2>2, <2>3 DEF Worker, WorkerStep, Published, StartThread, Refuse, Begin, SnapshotRaises,
      HashOrigin, CopyOrigin, SetRunning, MarkRunning, TestsBegin, TestsEnd, VerifyBegin,
      SetVerifying, Audit, Report, WorkStops, WorkRaises, AfterRun, Fail, SetFailed, Accept, Publish,
      Answer, AnswerRaises, CancelledResult, SetCancelled, WorkerDiscards, WorkerGoes, WorkerFails
  <2>4. CASE \E c \in Client : Requests(c)
    BY <2>1, <2>2, <2>4 DEF AllInv, CancelInv, Withdrawn, SUCCESS_STATES, Requests, Request, RequestStep,
      CancelToken, CancelState, CancelLock, CancelRemove, RemovePart, RemoveRaises, ApproveCheck,
      ApproveMark, PromoteCall, PromoteBegin, PromoteState, PromoteOrigin, SetStale,
      PromoteTests, PromoteMark, SetReady, Reject, RejectRemove, RejectSet
  <2>5. CASE EditOrigin \/ UNCHANGED task
    BY <2>5 DEF EditOrigin, task
  <2> QED
    BY <2>3, <2>4, <2>5, NextCases
<1> QED
  BY <1>1, KeptHolds, PTL DEF Spec, SuccessOnlyWithdrawn
=============================================================================
