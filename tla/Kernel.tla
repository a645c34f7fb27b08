------------------------------- MODULE Kernel -------------------------------
(***************************************************************************)
(* The durable task engine, kernel/engine.py.                              *)
(*                                                                         *)
(* One intent is submitted as a graph of tasks. The thread that owns the   *)
(* kernel submits it, runs it (run_to_idle), and may recover it after a    *)
(* restart. Handlers run either on that thread or, for a batch of more     *)
(* than one read, in a pool whose results are saved only after the join.   *)
(* A row of SQLite is one element of "row" and "retry"; every save is a    *)
(* step of its own, so a crash can fall between any two of them.           *)
(***************************************************************************)
EXTENDS TaskStates, Naturals, FiniteSets

CONSTANTS
  Task,         \* task ids
  Intents,      \* the intents that may be submitted: [deps, kind] records
  Outcomes,     \* what a handler may do, see Outcome below
  MaxRetries,   \* Kernel(max_retries=...)
  MaxWorkers,   \* Kernel(max_workers=...)
  Limit,        \* run_to_idle(limit=...)
  ApiCalls,     \* which of Kernel.cancel and Kernel.approve are called
  ApiThread,    \* TRUE: they may be called by a thread the kernel knows nothing of
  MaxCrash,     \* bound: crashes in a behaviour
  MaxGrants     \* bound: approvals of one task in a behaviour

READ_KINDS ==
  {"inspect_repo", "search_code", "analyze_deps", "inspect_repository",
   "list_files", "read_file", "report", "verify"}

DESTRUCTIVE == {"apply_patch", "self_heal", "run_python"}

VERIFY_KINDS == {"verify", "run_tests"}

\* "generic" stands for every kind the engine does not single out.
Kind == READ_KINDS \cup DESTRUCTIVE \cup VERIFY_KINDS \cup {"generic"}

(* What a handler may do: return a dictionary that is fine, that         *)
(* fails its verification ("vbad": verify = True, ok = False), that says   *)
(* ok = False and nothing else ("bad"), or that awaits approval; report    *)
(* failed or raise with a message ("error"); raise with an empty message   *)
(* ("blank"); raise Cancelled, or answer that it was cancelled, or raise   *)
(* anything else with the message "cancelled" ("cancelled").               *)
Outcome == {"ok", "bad", "vbad", "await", "error", "blank", "cancelled"}

\* The states a row can hold: the rest exist only on the object in memory.
Durable == {"READY", "BLOCKED", "RUNNING", "WAITING_FOR_APPROVAL"} \cup Terminal

ASSUME IntentAssumption ==
  Intents \subseteq [deps : [Task -> SUBSET Task], kind : [Task -> Kind]]
ASSUME OutcomeAssumption == Outcomes \subseteq Outcome
ASSUME BoundAssumption ==
  /\ MaxRetries \in Nat /\ MaxWorkers \in Nat \ {0} /\ Limit \in Nat
  /\ MaxCrash \in Nat /\ MaxGrants \in Nat
ASSUME ApiAssumption == ApiCalls \subseteq {"cancel", "approve"} /\ ApiThread \in BOOLEAN

VARIABLES
  deps, kind,   \* the submitted graph, never changed afterwards
  row,          \* the state column, "ABSENT" until the row is inserted
  retry,        \* the retry_count column
  cancelled,    \* Kernel._cancelled, in memory
  token,        \* Kernel.cancel_token.cancelled()
  pc,           \* where the owning thread is
  todo,         \* tasks of the batch run_ready has not run yet
  queue,        \* rows the current loop (sweep, mark, collect, ...) still has to visit
  active,       \* tasks whose handler is running
  out,          \* what the pool's handlers returned, "none" until they do
  scan,         \* the states unblock read before its loop
  iter, idle,   \* run_to_idle's counters
  crashes,      \* how many crashes so far (bounded)
  starts,       \* history: how often the handler of a task was entered
  grants        \* history: how often a task was approved

durable == <<deps, kind, row, retry>>
memory  == <<cancelled, token, pc, todo, queue, active, out, scan, iter, idle>>
history == <<crashes, starts, grants>>
vars    == <<durable, memory, history>>

NoOut  == [t \in Task |-> "none"]
NoScan == [t \in Task |-> "ABSENT"]

Init ==
  /\ \E i \in Intents : deps = i.deps /\ kind = i.kind
  /\ row = [t \in Task |-> "ABSENT"]
  /\ retry = [t \in Task |-> 0]
  /\ cancelled = {} /\ token = FALSE
  /\ pc = "submit"
  /\ todo = {} /\ queue = Task /\ active = {} /\ out = NoOut /\ scan = NoScan
  /\ iter = 0 /\ idle = 0
  /\ crashes = 0
  /\ starts = [t \in Task |-> 0]
  /\ grants = [t \in Task |-> 0]

-----------------------------------------------------------------------------
(* Helpers of the engine.                                                  *)

\* _save: INSERT OR REPLACE of the row, committed before it returns.
Save(t, s) == row' = [row EXCEPT ![t] = s]

\* mutant: only the token is looked at, not _cancelled.
WithdrawnToken(t) == token
Withdrawn(t) == t \in cancelled \/ token

Ready   == {t \in Task : row[t] = "READY" /\ t \notin cancelled}
Reads   == {t \in todo : kind[t] \in READ_KINDS}
AllOver == \A t \in Task : row[t] \in Terminal \cup {"ABSENT"}

\* mutants of requeue's guard: one retry too many; destructive kinds too.
MayRequeueOnceMore(t)    == retry[t] <= MaxRetries /\ kind[t] \notin DESTRUCTIVE
MayRequeueDestructive(t) == retry[t] < MaxRetries

\* requeue: a failed task goes back to READY only when this holds.
MayRequeue(t) == retry[t] < MaxRetries /\ kind[t] \notin DESTRUCTIVE

\* mutant: the retry is not counted.
RequeueUncounted(t) ==
  /\ Save(t, IF MayRequeue(t) THEN "READY" ELSE "FAILED")
  /\ UNCHANGED retry

\* FAILED, and then requeue: RETRYING and READY before the one save.
FailOrRequeue(t) ==
  IF MayRequeue(t)
  THEN Save(t, "READY") /\ retry' = [retry EXCEPT ![t] = @ + 1]
  ELSE Save(t, "FAILED") /\ UNCHANGED retry

\* What an answer that is neither failed nor withdrawn makes of the task.
Verdict(t, o) ==
  IF o = "await" THEN "WAITING_FOR_APPROVAL"
  ELSE IF o = "vbad" \/ (o = "bad" /\ kind[t] \in VERIFY_KINDS) THEN "FAILED"
  ELSE "COMPLETED"

\* _finish, except for its assertion (see AssertOut).
Finish(t, o) ==
  IF Withdrawn(t) \/ o = "cancelled" THEN Save(t, "CANCELLED") /\ UNCHANGED retry
  ELSE IF o = "error" THEN FailOrRequeue(t)
  ELSE Save(t, Verdict(t, o)) /\ UNCHANGED retry

\* _finish reaches "assert out is not None" with out = None: an exception
\* whose str() is empty passes "if err".
AssertOut(t, o) == Withdrawn(t) \/ o # "blank"

Entered(t) == starts' = [starts EXCEPT ![t] = @ + 1]

-----------------------------------------------------------------------------
(* submit_intent: one save per task, in the order the intent lists them.   *)

\* mutant: every task is saved READY.
SubmitReady(t) ==
  /\ pc = "submit" /\ t \in queue
  /\ Save(t, "READY")
  /\ queue' = queue \ {t}
  /\ UNCHANGED <<deps, kind, retry, cancelled, token, pc, todo, active, out,
                 scan, iter, idle, history>>

SubmitTask(t) ==
  /\ pc = "submit" /\ t \in queue
  /\ Save(t, IF deps[t] = {} THEN "READY" ELSE "BLOCKED")
  /\ queue' = queue \ {t}
  /\ UNCHANGED <<deps, kind, retry, cancelled, token, pc, todo, active, out,
                 scan, iter, idle, history>>

SubmitEnd ==
  /\ pc = "submit" /\ queue = {}
  /\ pc' = "idle"
  /\ UNCHANGED <<durable, cancelled, token, todo, queue, active, out, scan,
                 iter, idle, history>>

-----------------------------------------------------------------------------
(* run_to_idle                                                             *)

Resting == {"idle", "returned", "raised"}

StartRun ==
  /\ pc \in Resting
  /\ pc' = "loop" /\ iter' = 0 /\ idle' = 0
  /\ UNCHANGED <<durable, cancelled, token, todo, queue, active, out, scan,
                 history>>

\* range(limit) is exhausted.
LimitReached ==
  /\ pc = "loop" /\ iter = Limit
  /\ pc' = "returned"
  /\ UNCHANGED <<durable, cancelled, token, todo, queue, active, out, scan,
                 iter, idle, history>>

\* mutant: the sweep passes over what awaits approval.
SweepUnapproved ==
  /\ pc = "loop" /\ iter < Limit /\ token
  /\ pc' = "sweep"
  /\ queue' = {t \in Task : row[t] \in {"READY", "BLOCKED", "RUNNING"}}
  /\ UNCHANGED <<durable, cancelled, token, todo, active, out, scan, iter,
                 idle, history>>

\* The token is cancelled: the rows that are not over are visited one by one.
SweepBegin ==
  /\ pc = "loop" /\ iter < Limit /\ token
  /\ pc' = "sweep"
  /\ queue' = {t \in Task : row[t] \notin Terminal \cup {"ABSENT"}}
  /\ UNCHANGED <<durable, cancelled, token, todo, active, out, scan, iter,
                 idle, history>>

SweepOne(t) ==
  /\ pc = "sweep" /\ t \in queue
  /\ cancelled' = cancelled \cup {t}
  /\ Save(t, "CANCELLED")
  /\ queue' = queue \ {t}
  /\ UNCHANGED <<deps, kind, retry, token, pc, todo, active, out, scan, iter,
                 idle, history>>

SweepEnd ==
  /\ pc = "sweep" /\ queue = {}
  /\ pc' = "returned"
  /\ UNCHANGED <<durable, cancelled, token, todo, queue, active, out, scan,
                 iter, idle, history>>

\* Something was cancelled and nothing is left to do.
AllCancelledOrOver ==
  /\ pc = "loop" /\ iter < Limit /\ ~token
  /\ cancelled # {} /\ AllOver
  /\ pc' = "returned"
  /\ UNCHANGED <<durable, cancelled, token, todo, queue, active, out, scan,
                 iter, idle, history>>

\* run_ready finds an empty batch, and returns without unblock.
EmptyBatch ==
  /\ pc = "loop" /\ iter < Limit /\ ~token
  /\ ~(cancelled # {} /\ AllOver)
  /\ Ready = {}
  /\ idle' = idle + 1
  /\ IF idle' > 1 THEN pc' = "returned" /\ UNCHANGED iter
                  ELSE iter' = iter + 1 /\ UNCHANGED pc
  /\ UNCHANGED <<durable, cancelled, token, todo, queue, active, out, scan,
                 history>>

\* run_ready takes its batch: from here on it works on these objects.
TakeBatch ==
  /\ pc = "loop" /\ iter < Limit /\ ~token
  /\ ~(cancelled # {} /\ AllOver)
  /\ Ready # {}
  /\ todo' = Ready
  /\ pc' = "dispatch"
  /\ UNCHANGED <<durable, cancelled, token, queue, active, out, scan, iter,
                 idle, history>>

-----------------------------------------------------------------------------
(* run_ready: more than one read goes to _run_parallel, then the rest, one *)
(* by one, to _run_one; then unblock.                                      *)

Parallel == \E s, t \in Reads : s # t

\* _run_parallel with the token already cancelled: no handler is entered.
DropBegin ==
  /\ pc = "dispatch" /\ Parallel /\ token
  /\ pc' = "drop" /\ queue' = Reads /\ todo' = todo \ Reads
  /\ UNCHANGED <<durable, cancelled, token, active, out, scan, iter, idle, history>>

DropOne(t) ==
  /\ pc = "drop" /\ t \in queue
  /\ Save(t, "CANCELLED")
  /\ queue' = queue \ {t}
  /\ UNCHANGED <<deps, kind, retry, cancelled, token, pc, todo, active, out,
                 scan, iter, idle, history>>

DropEnd ==
  /\ pc = "drop" /\ queue = {}
  /\ pc' = "dispatch"
  /\ UNCHANGED <<durable, cancelled, token, todo, queue, active, out, scan,
                 iter, idle, history>>

\* _run_parallel otherwise: every row becomes RUNNING before any handler
\* starts. Only the token was looked at, _cancelled was not.
MarkBegin ==
  /\ pc = "dispatch" /\ Parallel /\ ~token
  /\ pc' = "mark" /\ queue' = Reads /\ todo' = todo \ Reads
  /\ UNCHANGED <<durable, cancelled, token, active, out, scan, iter, idle, history>>

MarkOne(t) ==
  /\ pc = "mark" /\ t \in queue
  /\ Save(t, "RUNNING")
  /\ queue' = queue \ {t}
  /\ out' = [out EXCEPT ![t] = "queued"]
  /\ UNCHANGED <<deps, kind, retry, cancelled, token, pc, todo, active, scan,
                 iter, idle, history>>

MarkEnd ==
  /\ pc = "mark" /\ queue = {}
  /\ pc' = "pool" /\ queue' = {t \in Task : out[t] = "queued"}
  /\ UNCHANGED <<durable, cancelled, token, todo, active, out, scan, iter,
                 idle, history>>

\* A worker of the pool takes a task; the token is looked at once more.
Call(t) ==
  /\ pc = "pool" /\ t \in queue /\ Cardinality(active) < MaxWorkers
  /\ queue' = queue \ {t}
  /\ IF token
     THEN out' = [out EXCEPT ![t] = "cancelled"] /\ UNCHANGED <<active, starts>>
     ELSE active' = active \cup {t} /\ Entered(t) /\ UNCHANGED out
  /\ UNCHANGED <<durable, cancelled, token, pc, todo, scan, iter, idle,
                 crashes, grants>>

\* A handler in the pool returns or raises; nothing is saved yet.
Return(t, o) ==
  /\ pc = "pool" /\ t \in active
  /\ active' = active \ {t}
  /\ out' = [out EXCEPT ![t] = o]
  /\ UNCHANGED <<durable, cancelled, token, pc, todo, queue, scan, iter, idle,
                 history>>

\* The pool is joined: every future has a result.
Join ==
  /\ pc = "pool" /\ queue = {} /\ active = {}
  /\ pc' = "collect" /\ queue' = {t \in Task : out[t] # "none"}
  /\ UNCHANGED <<durable, cancelled, token, todo, active, out, scan, iter,
                 idle, history>>

Collect(t) ==
  /\ pc = "collect" /\ t \in queue /\ AssertOut(t, out[t])
  /\ Finish(t, out[t])
  /\ queue' = queue \ {t}
  /\ out' = [out EXCEPT ![t] = "none"]
  /\ UNCHANGED <<deps, kind, cancelled, token, pc, todo, active, scan, iter,
                 idle, history>>

\* mutant: a batch of reads alone returns before unblock.
CollectReturns ==
  /\ pc = "collect" /\ queue = {}
  /\ pc' = IF todo = {} THEN "loop" ELSE "dispatch"
  /\ UNCHANGED <<durable, cancelled, token, todo, queue, active, out, scan,
                 iter, idle, history>>

CollectEnd ==
  /\ pc = "collect" /\ queue = {}
  /\ pc' = "dispatch"
  /\ UNCHANGED <<durable, cancelled, token, todo, queue, active, out, scan,
                 iter, idle, history>>

\* An AssertionError leaves run_to_idle: the rows stay as they are.
Escape ==
  /\ pc' = "raised"
  /\ todo' = {} /\ queue' = {} /\ active' = {} /\ out' = NoOut
  /\ UNCHANGED <<durable, cancelled, token, scan, iter, idle, history>>

CollectRaises(t) ==
  /\ pc = "collect" /\ t \in queue /\ ~AssertOut(t, out[t])
  /\ Escape

-----------------------------------------------------------------------------
(* _run_one, for a single read first and then for the rest of the batch.   *)

Serial(t) ==
  /\ pc = "dispatch" /\ ~Parallel /\ t \in todo
  /\ kind[t] \in READ_KINDS \/ Reads = {}

SkipOne(t) ==
  /\ Serial(t) /\ Withdrawn(t)
  /\ Save(t, "CANCELLED")
  /\ todo' = todo \ {t}
  /\ UNCHANGED <<deps, kind, retry, cancelled, token, pc, queue, active, out,
                 scan, iter, idle, history>>

StartOne(t) ==
  /\ Serial(t) /\ ~Withdrawn(t)
  /\ Save(t, "RUNNING")
  /\ todo' = todo \ {t} /\ active' = {t} /\ pc' = "handler"
  /\ Entered(t)
  /\ UNCHANGED <<deps, kind, retry, cancelled, token, queue, out, scan, iter,
                 idle, crashes, grants>>

\* Only a raised Cancelled puts the task into _cancelled.
Marks(t, o) ==
  \/ UNCHANGED cancelled
  \/ o = "cancelled" /\ cancelled' = cancelled \cup {t}

\* mutant: the last task of a serial batch returns before unblock.
FinishLast(t, o) ==
  /\ pc = "handler" /\ t \in active /\ AssertOut(t, o)
  /\ Finish(t, o)
  /\ Marks(t, o)
  /\ active' = {} /\ pc' = IF todo = {} THEN "loop" ELSE "dispatch"
  /\ UNCHANGED <<deps, kind, token, todo, queue, out, scan, iter, idle, history>>

\* The handler's answer is finished at once.
FinishOne(t, o) ==
  /\ pc = "handler" /\ t \in active /\ AssertOut(t, o)
  /\ Finish(t, o)
  /\ Marks(t, o)
  /\ active' = {} /\ pc' = "dispatch"
  /\ UNCHANGED <<deps, kind, token, todo, queue, out, scan, iter, idle, history>>

FinishOneRaises(t, o) ==
  /\ pc = "handler" /\ t \in active /\ ~AssertOut(t, o)
  /\ Escape

-----------------------------------------------------------------------------
(* unblock, after every batch. The three sets of ids are read before the   *)
(* loop, so what the loop itself cancels or fails reaches no dependent in  *)
(* the same call.                                                          *)

UnblockBegin ==
  /\ pc = "dispatch" /\ todo = {}
  /\ pc' = "unblock"
  /\ scan' = row
  /\ queue' = {t \in Task : row[t] = "BLOCKED"}
  /\ UNCHANGED <<durable, cancelled, token, todo, active, out, iter, idle, history>>

SomeDep(t, s) == \E d \in deps[t] : scan[d] = s
\* mutant: any instead of all.
AnyDepDone(t) == \E d \in deps[t] : scan[d] = "COMPLETED"
AllDepsDone(t) == \A d \in deps[t] : scan[d] = "COMPLETED"

Unblocked(t) ==
  IF SomeDep(t, "CANCELLED") THEN "CANCELLED"
  ELSE IF SomeDep(t, "FAILED") THEN "FAILED"
  ELSE IF AllDepsDone(t) THEN "READY"
  ELSE "BLOCKED"

UnblockOne(t) ==
  /\ pc = "unblock" /\ t \in queue
  /\ IF Unblocked(t) = "BLOCKED" THEN UNCHANGED row ELSE Save(t, Unblocked(t))
  /\ queue' = queue \ {t}
  /\ UNCHANGED <<deps, kind, retry, cancelled, token, pc, todo, active, out,
                 scan, iter, idle, history>>

UnblockEnd ==
  /\ pc = "unblock" /\ queue = {}
  /\ pc' = "loop" /\ idle' = 0 /\ iter' = iter + 1
  /\ scan' = NoScan
  /\ UNCHANGED <<durable, cancelled, token, todo, queue, active, out, history>>

-----------------------------------------------------------------------------
(* Calls from outside the owning thread's loop.                            *)

\* The runtime cancels (or times out) the token at any moment.
SetToken ==
  /\ ~token /\ pc # "down"
  /\ token' = TRUE
  /\ UNCHANGED <<durable, cancelled, pc, todo, queue, active, out, scan, iter,
                 idle, history>>

\* Kernel.cancel and Kernel.approve are called between runs, by a handler,
\* or, when ApiThread, by another thread at any moment.
ApiMayCall(op) ==
  /\ op \in ApiCalls /\ pc \notin {"submit", "down", "recover"}
  /\ ApiThread \/ pc \in Resting \/ active # {}

\* mutant: cancel does not spare what is COMPLETED.
NotCancelled(t) == row[t] \notin {"CANCELLED", "ABSENT"}

\* cancel(t) goes on to every dependent that is neither done nor cancelled.
Live(t) == row[t] \notin {"COMPLETED", "CANCELLED", "ABSENT"}
ClosedUnderCancel(S) == \A c \in Task : Live(c) /\ deps[c] \cap S # {} => c \in S
Cascade(t) ==
  {c \in Task : \A S \in SUBSET Task : t \in S /\ ClosedUnderCancel(S) => c \in S}

KernelCancel(t) ==
  /\ ApiMayCall("cancel") /\ row[t] # "ABSENT"
  /\ cancelled' = cancelled \cup Cascade(t)
  /\ row' = [c \in Task |-> IF c \in Cascade(t) /\ Live(c) THEN "CANCELLED" ELSE row[c]]
  /\ UNCHANGED <<deps, kind, retry, token, pc, todo, queue, active, out, scan,
                 iter, idle, history>>

KernelApprove(t) ==
  /\ ApiMayCall("approve") /\ row[t] = "WAITING_FOR_APPROVAL"
  /\ grants[t] < MaxGrants
  /\ Save(t, "READY")
  /\ grants' = [grants EXCEPT ![t] = @ + 1]
  /\ UNCHANGED <<deps, kind, retry, memory, crashes, starts>>

-----------------------------------------------------------------------------
(* A crash loses everything but the rows. A new Kernel on the same file    *)
(* starts with an empty _cancelled and a fresh token.                      *)

Crash ==
  /\ pc # "down" /\ crashes < MaxCrash
  /\ crashes' = crashes + 1
  /\ pc' = "down"
  /\ cancelled' = {} /\ token' = FALSE
  /\ todo' = {} /\ queue' = {} /\ active' = {} /\ out' = NoOut /\ scan' = NoScan
  /\ iter' = 0 /\ idle' = 0
  /\ UNCHANGED <<durable, starts, grants>>

Restart ==
  /\ pc = "down"
  /\ pc' = "idle"
  /\ UNCHANGED <<durable, cancelled, token, todo, queue, active, out, scan,
                 iter, idle, history>>

\* recover: interrupted RUNNING rows become FAILED. (No row is ever
\* RETRYING, see Durable, so its other branch never applies.)
RecoverBegin ==
  /\ pc = "idle"
  /\ pc' = "recover" /\ queue' = {t \in Task : row[t] = "RUNNING"}
  /\ UNCHANGED <<durable, cancelled, token, todo, active, out, scan, iter,
                 idle, history>>

RecoverOne(t) ==
  /\ pc = "recover" /\ t \in queue
  /\ Save(t, "FAILED")
  /\ queue' = queue \ {t}
  /\ UNCHANGED <<deps, kind, retry, cancelled, token, pc, todo, active, out,
                 scan, iter, idle, history>>

RecoverEnd ==
  /\ pc = "recover" /\ queue = {}
  /\ pc' = "idle"
  /\ UNCHANGED <<durable, cancelled, token, todo, queue, active, out, scan,
                 iter, idle, history>>

-----------------------------------------------------------------------------
(* The specification.                                                      *)

SubmitStep == SubmitEnd \/ \E t \in Task : SubmitTask(t)

\* The owning thread inside run_to_idle, waiting for no handler.
RunStep ==
  \/ LimitReached \/ SweepBegin \/ SweepEnd \/ AllCancelledOrOver
  \/ EmptyBatch \/ TakeBatch
  \/ DropBegin \/ DropEnd \/ MarkBegin \/ MarkEnd \/ Join \/ CollectEnd
  \/ UnblockBegin \/ UnblockEnd
  \/ \E t \in Task :
       \/ SweepOne(t) \/ DropOne(t) \/ MarkOne(t) \/ Call(t)
       \/ Collect(t) \/ CollectRaises(t) \/ SkipOne(t) \/ StartOne(t)
       \/ UnblockOne(t)

\* The handler of t comes back.
HandlerStep(t) ==
  \E o \in Outcomes : Return(t, o) \/ FinishOne(t, o) \/ FinishOneRaises(t, o)

ApiStep == SetToken \/ \E t \in Task : KernelCancel(t) \/ KernelApprove(t)

CrashStep ==
  Crash \/ Restart \/ RecoverBegin \/ RecoverEnd \/ \E t \in Task : RecoverOne(t)

Next ==
  \/ SubmitStep \/ StartRun \/ RunStep
  \/ \E t \in Task : HandlerStep(t)
  \/ ApiStep \/ CrashStep

Spec == Init /\ [][Next]_vars

\* The owning thread is scheduled, and every handler comes back: tests run
\* under a timeout and an agent under its iteration budget.
Fairness == WF_vars(RunStep) /\ \A t \in Task : WF_vars(HandlerStep(t))

FairSpec == Spec /\ Fairness
-----------------------------------------------------------------------------
(* Properties.                                                             *)

(* Types; in particular no row is ever saved as CREATED, PLANNED, RETRYING *)
(* or VERIFYING, so recover never meets one.                               *)
TypeOK ==
  /\ deps \in [Task -> SUBSET Task] /\ kind \in [Task -> Kind]
  /\ row \in [Task -> Durable \cup {"ABSENT"}]
  /\ retry \in [Task -> 0 .. MaxRetries]
  /\ cancelled \subseteq Task /\ token \in BOOLEAN
  /\ pc \in Resting \cup {"submit", "loop", "sweep", "dispatch", "drop", "mark",
                          "pool", "collect", "handler", "unblock", "down", "recover"}
  /\ todo \subseteq Task /\ queue \subseteq Task /\ active \subseteq Task
  /\ out \in [Task -> Outcome \cup {"none", "queued"}]
  /\ scan \in [Task -> Durable \cup {"ABSENT"}]
  /\ iter \in 0 .. Limit /\ idle \in 0 .. 2
  /\ crashes \in 0 .. MaxCrash
  /\ starts \in [Task -> Nat] /\ grants \in [Task -> 0 .. MaxGrants]

Released == {"READY", "RUNNING", "WAITING_FOR_APPROVAL", "COMPLETED"}

(* A task that was ever released or handed to its handler has all its      *)
(* dependencies COMPLETED, and keeps them so: neither a failed, retried,   *)
(* cancelled or interrupted dependency nor a crash lets it through         *)
(* (submit_intent, unblock, _finish).                                      *)
DependenciesDone ==
  \A t \in Task : starts[t] > 0 \/ row[t] \in Released =>
    \A d \in deps[t] : row[d] = "COMPLETED"

(* No task is handed to its handler more often than its retries and        *)
(* approvals pay for, across retries, crashes and recoveries (requeue,     *)
(* approve, recover); a destructive one has no retries: "destructive       *)
(* failures stay FAILED until an explicit new candidate".                  *)
StartBudget ==
  \A t \in Task :
    starts[t] <= 1 + grants[t] + (IF kind[t] \in DESTRUCTIVE THEN 0 ELSE MaxRetries)

(* Every change of a saved row is one that Task.transit allows in one, two *)
(* or three transits; above all nothing leaves COMPLETED or CANCELLED      *)
(* (LEGAL), whichever way the object and its row came to differ.           *)
RowsFollowLegal ==
  [][\A t \in Task : row[t] # "ABSENT" /\ row'[t] # row[t] =>
       Reaches(row[t], row'[t])]_vars

(* What was cancelled while it was not yet COMPLETED is never COMPLETED    *)
(* later in the same process, although its handler may still be running    *)
(* when cancel is called (cancel, _finish, ready).                         *)
CancelledNeverCompletes ==
  [][\A t \in Task : t \in cancelled /\ row[t] # "COMPLETED" =>
       row'[t] # "COMPLETED"]_vars

(* When run_to_idle returns, no task is still BLOCKED although all its     *)
(* dependencies are COMPLETED: unblock ran after the last of them.         *)
NoTaskForgotten ==
  pc = "returned" => \A t \in Task : row[t] = "BLOCKED" =>
    \E d \in deps[t] : row[d] # "COMPLETED"

Halted == {"FAILED", "CANCELLED", "WAITING_FOR_APPROVAL"}

\* Task t waits, directly or through other BLOCKED tasks, for a halted one.
HeldUp(t) ==
  \A S \in SUBSET Task :
    t \in S /\ (\A s \in S : \A d \in deps[s] : row[d] = "BLOCKED" => d \in S)
      => \E s \in S : \E d \in deps[s] : row[d] \in Halted

(* When run_to_idle returns, it is because the work is over and not because *)
(* range(limit) is exhausted: nothing is READY or RUNNING, and what is     *)
(* BLOCKED waits for one that failed, was cancelled or awaits approval. (A *)
(* failure travels one level per unblock, so the far end of a chain does   *)
(* stay BLOCKED for good.)                                                 *)
RunIsOver ==
  pc = "returned" =>
    /\ iter < Limit
    /\ \A t \in Task : /\ row[t] \notin {"READY", "RUNNING"}
                        /\ row[t] = "BLOCKED" => HeldUp(t)

(* A task whose last dependency completes is released, or cancelled, by    *)
(* the same run: it does not stay BLOCKED.                                 *)
BlockedIsReleased ==
  \A t \in Task :
    (row[t] = "BLOCKED" /\ \A d \in deps[t] : row[d] = "COMPLETED")
      ~> row[t] # "BLOCKED"

(* A cancelled token ends the run with every row over, even when handlers  *)
(* are running or tasks await approval at that moment.                     *)
TokenSettles == (token /\ pc = "dispatch") ~> (AllOver /\ pc = "returned")

-----------------------------------------------------------------------------
(* The abstract specification: a graph of tasks run in dependency order.   *)

StatusOf(s) ==
  IF s = "COMPLETED" THEN "done"
  ELSE IF s = "RUNNING" THEN "running"
  ELSE IF s \in {"FAILED", "CANCELLED"} THEN "dead"
  ELSE "waiting"

Graph == INSTANCE TaskGraph WITH status <- [t \in Task |-> StatusOf(row[t])]

(* The engine's rows implement TaskGraph, so a row starts RUNNING only     *)
(* over completed dependencies and done or dead rows stay so, through      *)
(* crashes and cancellations.                                              *)
ImplementsTaskGraph == Graph!Spec
=============================================================================
