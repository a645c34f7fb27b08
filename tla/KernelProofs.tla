---------------------------- MODULE KernelProofs ----------------------------
(***************************************************************************)
(* Proofs about Kernel, for every set of tasks, every set of intents and   *)
(* every bound.                                                            *)
(***************************************************************************)
EXTENDS Kernel, FiniteSetTheorems, TLAPS

(* run_to_idle's counters stay under their limits: the loop is entered     *)
(* only below them.                                                        *)
LoopBounds ==
  /\ pc = "loop" => idle <= 1
  /\ pc \in {"dispatch", "drop", "mark", "pool", "collect", "handler", "unblock"}
       => iter < Limit /\ idle <= 1

TypeInv == TypeOK /\ LoopBounds

States == Durable \cup {"ABSENT"}

(* Saving a durable state in one row keeps the table well typed.           *)
LEMMA SaveType ==
  ASSUME row \in [Task -> States], NEW t \in Task, NEW s \in States, Save(t, s)
  PROVE  row' \in [Task -> States]
BY DEF Save

(* _finish keeps the two columns it writes well typed.                     *)
LEMMA FinishType ==
  ASSUME TypeOK, NEW t \in Task, NEW o \in Outcome \cup {"none", "queued"}, Finish(t, o)
  PROVE  /\ row' \in [Task -> States]
         /\ retry' \in [Task -> 0 .. MaxRetries]
<1>1. Verdict(t, o) \in States
  BY DEF Verdict, States, Durable, Terminal
<1>2. CASE Withdrawn(t) \/ o = "cancelled"
  BY <1>2, SaveType DEF Finish, TypeOK, States, Durable, Terminal
<1>3. CASE ~(Withdrawn(t) \/ o = "cancelled") /\ o = "error"
  <2>1. FailOrRequeue(t)
    BY <1>3 DEF Finish
  <2>2. CASE MayRequeue(t)
    BY <2>1, <2>2, SaveType, BoundAssumption
    DEF FailOrRequeue, MayRequeue, TypeOK, States, Durable, Terminal
  <2>3. CASE ~MayRequeue(t)
    BY <2>1, <2>3, SaveType DEF FailOrRequeue, TypeOK, States, Durable, Terminal
  <2> QED
    BY <2>2, <2>3
<1>4. CASE ~(Withdrawn(t) \/ o = "cancelled") /\ o # "error"
  BY <1>1, <1>4, SaveType DEF Finish, TypeOK, States
<1> QED
  BY <1>2, <1>3, <1>4

-----------------------------------------------------------------------------
(* Type correctness.                                                       *)

LEMMA InitType == Init => TypeInv
<1> SUFFICES ASSUME Init PROVE TypeInv
  OBVIOUS
<1>1. deps \in [Task -> SUBSET Task] /\ kind \in [Task -> Kind]
  BY IntentAssumption DEF Init
<1>2. /\ row \in [Task -> Durable \cup {"ABSENT"}]
      /\ scan \in [Task -> Durable \cup {"ABSENT"}]
      /\ out \in [Task -> Outcome \cup {"none", "queued"}]
  BY DEF Init, NoOut, NoScan
<1>3. /\ retry \in [Task -> 0 .. MaxRetries]
      /\ starts \in [Task -> Nat] /\ grants \in [Task -> 0 .. MaxGrants]
      /\ iter \in 0 .. Limit /\ idle \in 0 .. 2 /\ crashes \in 0 .. MaxCrash
  BY BoundAssumption DEF Init
<1> QED
  BY <1>1, <1>2, <1>3 DEF Init, TypeInv, TypeOK, LoopBounds

(* The owning thread's steps.                                              *)
LEMMA SubmitType == ASSUME TypeInv, SubmitStep PROVE TypeInv'
<1>1. ASSUME NEW t \in Task, SubmitTask(t) PROVE TypeInv'
  <2>1. row' \in [Task -> States]
    BY <1>1, SaveType DEF SubmitTask, TypeInv, TypeOK, States, Durable
  <2> QED
    BY <1>1, <2>1 DEF SubmitTask, TypeInv, TypeOK, LoopBounds, States, history
<1>2. CASE SubmitEnd
  BY <1>2 DEF SubmitEnd, TypeInv, TypeOK, LoopBounds, durable, history, Resting
<1> QED
  BY <1>1, <1>2 DEF SubmitStep

LEMMA LoopType ==
  ASSUME TypeInv,
         \/ LimitReached \/ SweepBegin \/ SweepEnd \/ AllCancelledOrOver
         \/ EmptyBatch \/ TakeBatch \/ StartRun
         \/ \E t \in Task : SweepOne(t)
  PROVE  TypeInv'
<1> USE BoundAssumption DEF TypeInv, TypeOK, LoopBounds, durable, history, Resting
<1>1. CASE LimitReached
  BY <1>1 DEF LimitReached
<1>2. CASE SweepBegin
  BY <1>2 DEF SweepBegin
<1>3. CASE SweepEnd
  BY <1>3 DEF SweepEnd
<1>4. CASE AllCancelledOrOver
  BY <1>4 DEF AllCancelledOrOver
<1>5. CASE EmptyBatch
  BY <1>5 DEF EmptyBatch
<1>6. CASE TakeBatch
  BY <1>6 DEF TakeBatch, Ready
<1>7. CASE StartRun
  BY <1>7 DEF StartRun
<1>8. ASSUME NEW t \in Task, SweepOne(t) PROVE TypeInv'
  <2>1. row' \in [Task -> States]
    BY <1>8, SaveType DEF SweepOne, States, Durable, Terminal
  <2> QED
    BY <1>8, <2>1 DEF SweepOne, States
<1> QED
  BY <1>1, <1>2, <1>3, <1>4, <1>5, <1>6, <1>7, <1>8

LEMMA ParallelType ==
  ASSUME TypeInv,
         \/ DropBegin \/ DropEnd \/ MarkBegin \/ MarkEnd \/ Join \/ CollectEnd
         \/ \E t \in Task : DropOne(t) \/ MarkOne(t) \/ Call(t) \/ Collect(t)
                              \/ CollectRaises(t)
         \/ \E t \in Task, o \in Outcomes : Return(t, o)
  PROVE  TypeInv'
<1> USE BoundAssumption DEF TypeInv, TypeOK, LoopBounds, durable, history
<1>1. CASE DropBegin
  BY <1>1 DEF DropBegin, Reads
<1>2. CASE DropEnd
  BY <1>2 DEF DropEnd
<1>3. CASE MarkBegin
  BY <1>3 DEF MarkBegin, Reads
<1>4. CASE MarkEnd
  BY <1>4 DEF MarkEnd
<1>5. CASE Join
  BY <1>5 DEF Join
<1>6. CASE CollectEnd
  BY <1>6 DEF CollectEnd
<1>7. ASSUME NEW t \in Task, DropOne(t) PROVE TypeInv'
  <2>1. row' \in [Task -> States]
    BY <1>7, SaveType DEF DropOne, States, Durable, Terminal
  <2> QED
    BY <1>7, <2>1 DEF DropOne, States
<1>8. ASSUME NEW t \in Task, MarkOne(t) PROVE TypeInv'
  <2>1. row' \in [Task -> States]
    BY <1>8, SaveType DEF MarkOne, States, Durable
  <2> QED
    BY <1>8, <2>1 DEF MarkOne, States
<1>9. ASSUME NEW t \in Task, Call(t) PROVE TypeInv'
  BY <1>9 DEF Call, Entered, Outcome
<1>10. ASSUME NEW t \in Task, Collect(t) PROVE TypeInv'
  <2>1. /\ row' \in [Task -> States]
        /\ retry' \in [Task -> 0 .. MaxRetries]
    BY <1>10, FinishType DEF Collect
  <2> QED
    BY <1>10, <2>1 DEF Collect, States
<1>11. ASSUME NEW t \in Task, CollectRaises(t) PROVE TypeInv'
  BY <1>11 DEF CollectRaises, Escape, Resting, NoOut
<1>12. ASSUME NEW t \in Task, NEW o \in Outcomes, Return(t, o) PROVE TypeInv'
  BY <1>12, OutcomeAssumption DEF Return
<1> QED
  BY <1>1, <1>2, <1>3, <1>4, <1>5, <1>6, <1>7, <1>8, <1>9, <1>10, <1>11, <1>12

LEMMA SerialType ==
  ASSUME TypeInv,
         \/ UnblockBegin \/ UnblockEnd
         \/ \E t \in Task : SkipOne(t) \/ StartOne(t) \/ UnblockOne(t)
         \/ \E t \in Task, o \in Outcomes : FinishOne(t, o) \/ FinishOneRaises(t, o)
  PROVE  TypeInv'
<1> USE BoundAssumption DEF TypeInv, TypeOK, LoopBounds, durable, history
<1>1. CASE UnblockBegin
  BY <1>1 DEF UnblockBegin
<1>2. CASE UnblockEnd
  BY <1>2 DEF UnblockEnd, NoScan
<1>3. ASSUME NEW t \in Task, SkipOne(t) PROVE TypeInv'
  <2>1. row' \in [Task -> States]
    BY <1>3, SaveType DEF SkipOne, States, Durable, Terminal
  <2> QED
    BY <1>3, <2>1 DEF SkipOne, Serial, States
<1>4. ASSUME NEW t \in Task, StartOne(t) PROVE TypeInv'
  <2>1. row' \in [Task -> States]
    BY <1>4, SaveType DEF StartOne, States, Durable
  <2>2. starts' \in [Task -> Nat]
    BY <1>4 DEF StartOne, Entered
  <2>3. iter < Limit /\ idle <= 1
    BY <1>4 DEF StartOne, Serial
  <2> QED
    BY <1>4, <2>1, <2>2, <2>3 DEF StartOne, States
<1>5. ASSUME NEW t \in Task, UnblockOne(t) PROVE TypeInv'
  <2>1. Unblocked(t) \in States
    BY DEF Unblocked, States, Durable, Terminal
  <2>2. row' \in [Task -> States]
    <3>1. CASE Unblocked(t) = "BLOCKED"
      BY <1>5, <3>1 DEF UnblockOne, States
    <3>2. CASE Unblocked(t) # "BLOCKED"
      BY <1>5, <2>1, <3>2, SaveType DEF UnblockOne, States
    <3> QED
      BY <3>1, <3>2
  <2> QED
    BY <1>5, <2>2 DEF UnblockOne, States
<1>6. ASSUME NEW t \in Task, NEW o \in Outcomes, FinishOne(t, o) PROVE TypeInv'
  <2>1. /\ row' \in [Task -> States]
        /\ retry' \in [Task -> 0 .. MaxRetries]
    BY <1>6, FinishType, OutcomeAssumption DEF FinishOne
  <2>2. cancelled' \subseteq Task
    BY <1>6 DEF FinishOne, Marks
  <2> QED
    BY <1>6, <2>1, <2>2 DEF FinishOne, States
<1>7. ASSUME NEW t \in Task, NEW o \in Outcomes, FinishOneRaises(t, o) PROVE TypeInv'
  BY <1>7 DEF FinishOneRaises, Escape, Resting, NoOut
<1> QED
  BY <1>1, <1>2, <1>3, <1>4, <1>5, <1>6, <1>7

(* cancel reaches tasks only, and the one it was called for.               *)
LEMMA CascadeTasks ==
  ASSUME NEW t \in Task
  PROVE  Cascade(t) \subseteq Task /\ t \in Cascade(t)
BY DEF Cascade

(* Steps from outside the loop, crashes and recovery.                      *)
LEMMA OutsideType == ASSUME TypeInv, ApiStep \/ CrashStep PROVE TypeInv'
<1> USE BoundAssumption DEF TypeInv, TypeOK, LoopBounds, durable, history, memory
<1>1. CASE SetToken
  BY <1>1 DEF SetToken
<1>2. ASSUME NEW t \in Task, KernelCancel(t) PROVE TypeInv'
  <2>1. row' \in [Task -> States]
    BY <1>2 DEF KernelCancel, States, Durable, Terminal
  <2>2. cancelled' \subseteq Task
    BY <1>2, CascadeTasks DEF KernelCancel
  <2> QED
    BY <1>2, <2>1, <2>2 DEF KernelCancel, States
<1>3. ASSUME NEW t \in Task, KernelApprove(t) PROVE TypeInv'
  <2>1. row' \in [Task -> States]
    BY <1>3, SaveType DEF KernelApprove, States, Durable
  <2>2. grants' \in [Task -> 0 .. MaxGrants]
    BY <1>3 DEF KernelApprove
  <2>3. UNCHANGED <<deps, kind, retry, cancelled, token, pc, todo, queue,
                    active, out, scan, iter, idle, crashes, starts>>
    BY <1>3 DEF KernelApprove
  <2> QED
    BY <2>1, <2>2, <2>3 DEF States
<1>4. CASE Crash
  <2>1. /\ out' \in [Task -> Outcome \cup {"none", "queued"}]
        /\ scan' \in [Task -> Durable \cup {"ABSENT"}]
    BY <1>4 DEF Crash, NoOut, NoScan
  <2>2. crashes' \in 0 .. MaxCrash
    BY <1>4 DEF Crash
  <2>3. /\ iter' \in 0 .. Limit /\ idle' \in 0 .. 2
        /\ starts' \in [Task -> Nat] /\ grants' \in [Task -> 0 .. MaxGrants]
        /\ retry' \in [Task -> 0 .. MaxRetries]
    BY <1>4 DEF Crash
  <2> QED
    BY <1>4, <2>1, <2>2, <2>3 DEF Crash
<1>5. CASE Restart
  BY <1>5 DEF Restart, Resting
<1>6. CASE RecoverBegin
  BY <1>6 DEF RecoverBegin
<1>7. CASE RecoverEnd
  BY <1>7 DEF RecoverEnd, Resting
<1>8. ASSUME NEW t \in Task, RecoverOne(t) PROVE TypeInv'
  <2>1. row' \in [Task -> States]
    BY <1>8, SaveType DEF RecoverOne, States, Durable, Terminal
  <2> QED
    BY <1>8, <2>1 DEF RecoverOne, States
<1> QED
  BY <1>1, <1>2, <1>3, <1>4, <1>5, <1>6, <1>7, <1>8 DEF ApiStep, CrashStep

LEMMA NextType == TypeInv /\ [Next]_vars => TypeInv'
<1> SUFFICES ASSUME TypeInv, [Next]_vars PROVE TypeInv'
  OBVIOUS
<1>1. CASE SubmitStep
  BY <1>1, SubmitType
<1>2. CASE StartRun \/ RunStep
  BY <1>2, LoopType, ParallelType, SerialType DEF RunStep
<1>3. CASE \E t \in Task : HandlerStep(t)
  BY <1>3, ParallelType, SerialType DEF HandlerStep
<1>4. CASE ApiStep \/ CrashStep
  BY <1>4, OutsideType
<1>5. CASE UNCHANGED vars
  BY <1>5 DEF vars, durable, memory, history, TypeInv, TypeOK, LoopBounds
<1> QED
  BY <1>1, <1>2, <1>3, <1>4, <1>5 DEF Next

(* Every reachable state is well typed and run_to_idle's counters stay     *)
(* within their limits, whoever calls cancel and approve and whenever the  *)
(* process crashes.                                                        *)
THEOREM TypeCorrect == Spec => []TypeOK
<1>1. TypeInv => TypeOK
  BY DEF TypeInv
<1> QED
  BY <1>1, InitType, NextType, PTL DEF Spec

-----------------------------------------------------------------------------
(* The inductive invariant of the engine when cancel and approve are       *)
(* called between runs or by handlers (~ApiThread).                        *)

InFlight(t) == out[t] # "none" \/ t \in active

\* Cancelled by a handler of the same batch, which the object has not seen.
Gone(t) == t \in cancelled /\ row[t] = "CANCELLED"

PhaseInv ==
  /\ active # {} => pc \in {"pool", "handler"}
  /\ \A t \in Task : out[t] # "none" => pc \in {"mark", "pool", "collect"}
  /\ todo # {} => pc \in {"dispatch", "drop", "mark", "pool", "collect", "handler"}
  /\ pc \in {"drop", "mark", "pool", "collect"} => Reads = {}
  /\ pc = "handler" => ~Parallel
  /\ \A t \in todo : ~InFlight(t)
  /\ pc \in {"drop", "mark"} => todo \cap queue = {}

RowInv ==
  /\ \A t \in cancelled : row[t] \in {"COMPLETED", "CANCELLED"}
  /\ \A t \in todo : row[t] = "READY" \/ Gone(t)
  /\ pc = "dispatch" /\ Parallel => \A t \in todo : row[t] = "READY"
  /\ \A t \in Task : InFlight(t) => row[t] = "RUNNING" \/ Gone(t)

QueueInv ==
  /\ pc = "submit"  => \A t \in queue : row[t] = "ABSENT"
  /\ pc = "sweep"   => \A t \in queue : row[t] \notin Terminal \cup {"ABSENT"}
  /\ pc = "drop"    => \A t \in queue : row[t] = "READY"
  /\ pc = "mark"    => \A t \in queue : row[t] = "READY" /\ ~InFlight(t)
  /\ pc \in {"pool", "collect"} => \A t \in queue : InFlight(t)
  /\ pc = "pool"    => \A t \in queue : t \notin active
  /\ pc = "collect" => \A t \in Task : out[t] # "none" => t \in queue
  /\ pc = "unblock" => \A t \in queue : row[t] = "BLOCKED"
  /\ pc = "recover" => \A t \in queue : row[t] = "RUNNING"
  /\ pc = "unblock" => \A t \in Task : scan[t] = "COMPLETED" => row[t] = "COMPLETED"

SeqInv == TypeInv /\ PhaseInv /\ RowInv /\ QueueInv

(* What was released, entered or taken in flight has its dependencies      *)
(* done: DependenciesDone made inductive.                                  *)
Begun(t) == starts[t] > 0 \/ row[t] \in Released \/ InFlight(t)
DepsInv == \A t \in Task : Begun(t) => \A d \in deps[t] : row[d] = "COMPLETED"

(* A start still owed to a task, and the budget it is paid from.           *)
Owes(t) ==
  \/ row[t] \in {"ABSENT", "READY", "BLOCKED"}
  \/ pc = "mark" /\ out[t] = "queued"
  \/ pc = "pool" /\ t \in queue
Within(t) ==
  /\ starts[t] <= 1 + retry[t] + grants[t]
  /\ Owes(t) => starts[t] <= retry[t] + grants[t]
  /\ kind[t] \in DESTRUCTIVE => retry[t] = 0
BudgetInv == \A t \in Task : Within(t)

IInv == SeqInv /\ DepsInv /\ BudgetInv

LEMMA InitSeq == Init => SeqInv
<1> SUFFICES ASSUME Init PROVE SeqInv
  OBVIOUS
<1>1. TypeInv
  BY InitType
<1>2. PhaseInv
  BY DEF Init, PhaseInv, NoOut, InFlight
<1>3. RowInv
  BY DEF Init, RowInv, NoOut, InFlight
<1>4. QueueInv
  BY DEF Init, QueueInv
<1> QED
  BY <1>1, <1>2, <1>3, <1>4 DEF SeqInv

\* What the three parts of the invariant are made of.
LEMMA SubmitSeq == ASSUME SeqInv, SubmitStep PROVE PhaseInv' /\ RowInv' /\ QueueInv'
<1> USE DEF SeqInv, TypeInv, TypeOK, PhaseInv, RowInv, QueueInv, InFlight, Gone,
            Reads, Parallel, durable, history
<1>1. ASSUME NEW t \in Task, SubmitTask(t) PROVE PhaseInv' /\ RowInv' /\ QueueInv'
  BY <1>1 DEF SubmitTask, Save
<1>2. CASE SubmitEnd
  BY <1>2 DEF SubmitEnd
<1> QED
  BY <1>1, <1>2 DEF SubmitStep

LEMMA LoopSeq ==
  ASSUME SeqInv,
         \/ LimitReached \/ SweepBegin \/ SweepEnd \/ AllCancelledOrOver
         \/ EmptyBatch \/ TakeBatch \/ StartRun
         \/ \E t \in Task : SweepOne(t)
  PROVE  PhaseInv' /\ RowInv' /\ QueueInv'
<1> USE DEF SeqInv, TypeInv, TypeOK, PhaseInv, RowInv, QueueInv, InFlight, Gone,
            Reads, Parallel, durable, history, Resting
<1>1. CASE LimitReached
  BY <1>1 DEF LimitReached
<1>2. CASE SweepBegin
  BY <1>2 DEF SweepBegin
<1>3. CASE SweepEnd
  BY <1>3 DEF SweepEnd
<1>4. CASE AllCancelledOrOver
  BY <1>4 DEF AllCancelledOrOver
<1>5. CASE EmptyBatch
  BY <1>5 DEF EmptyBatch
<1>6. CASE TakeBatch
  BY <1>6 DEF TakeBatch, Ready
<1>7. CASE StartRun
  BY <1>7 DEF StartRun
<1>8. ASSUME NEW t \in Task, SweepOne(t) PROVE PhaseInv' /\ RowInv' /\ QueueInv'
  BY <1>8 DEF SweepOne, Save
<1> QED
  BY <1>1, <1>2, <1>3, <1>4, <1>5, <1>6, <1>7, <1>8

(* _finish writes CANCELLED unless the row is still RUNNING; other rows    *)
(* are left alone.                                                         *)
LEMMA FinishRow ==
  ASSUME SeqInv, NEW t \in Task, InFlight(t), NEW o, Finish(t, o)
  PROVE  \E s \in States :
           /\ Save(t, s)
           /\ t \in cancelled => s = "CANCELLED"
           /\ row[t] = "RUNNING" \/ s = row[t]
           /\ s \in {"READY", "FAILED", "WAITING_FOR_APPROVAL", "COMPLETED", "CANCELLED"}
<1>1. row[t] = "RUNNING" \/ Gone(t)
  BY DEF SeqInv, RowInv
<1>2. CASE Withdrawn(t) \/ o = "cancelled"
  BY <1>1, <1>2 DEF Finish, Gone, Withdrawn, States, Durable, Terminal
<1>3. CASE ~(Withdrawn(t) \/ o = "cancelled")
  BY <1>1, <1>3
  DEF Finish, FailOrRequeue, Verdict, Gone, Withdrawn, States, Durable, Terminal
<1> QED
  BY <1>2, <1>3

LEMMA ParallelSeq ==
  ASSUME SeqInv,
         \/ DropBegin \/ DropEnd \/ MarkBegin \/ MarkEnd \/ Join \/ CollectEnd
         \/ \E t \in Task : DropOne(t) \/ MarkOne(t) \/ Call(t) \/ Collect(t)
                              \/ CollectRaises(t)
         \/ \E t \in Task, o \in Outcomes : Return(t, o)
  PROVE  PhaseInv' /\ RowInv' /\ QueueInv'
<1> USE DEF SeqInv, TypeInv, TypeOK, PhaseInv, RowInv, QueueInv, InFlight, Gone,
            Reads, Parallel, durable, history
<1>1. CASE DropBegin
  BY <1>1 DEF DropBegin
<1>2. CASE DropEnd
  BY <1>2 DEF DropEnd
<1>3. CASE MarkBegin
  BY <1>3 DEF MarkBegin
<1>4. CASE MarkEnd
  BY <1>4 DEF MarkEnd
<1>5. CASE Join
  BY <1>5 DEF Join
<1>6. CASE CollectEnd
  BY <1>6 DEF CollectEnd
<1>7. ASSUME NEW t \in Task, DropOne(t) PROVE PhaseInv' /\ RowInv' /\ QueueInv'
  BY <1>7 DEF DropOne, Save
<1>8. ASSUME NEW t \in Task, MarkOne(t) PROVE PhaseInv' /\ RowInv' /\ QueueInv'
  BY <1>8 DEF MarkOne, Save
<1>9. ASSUME NEW t \in Task, Call(t) PROVE PhaseInv' /\ RowInv' /\ QueueInv'
  BY <1>9 DEF Call
<1>10. ASSUME NEW t \in Task, Collect(t) PROVE PhaseInv' /\ RowInv' /\ QueueInv'
  <2>1. InFlight(t)
    BY <1>10 DEF Collect
  <2>2. PICK s \in States :
          /\ Save(t, s)
          /\ t \in cancelled => s = "CANCELLED"
          /\ row[t] = "RUNNING" \/ s = row[t]
          /\ s \in {"READY", "FAILED", "WAITING_FOR_APPROVAL", "COMPLETED", "CANCELLED"}
    BY <1>10, <2>1, FinishRow DEF Collect
  <2> QED
    BY <1>10, <2>2 DEF Collect, Save
<1>11. ASSUME NEW t \in Task, CollectRaises(t) PROVE PhaseInv' /\ RowInv' /\ QueueInv'
  BY <1>11 DEF CollectRaises, Escape, NoOut
<1>12. ASSUME NEW t \in Task, NEW o \in Outcomes, Return(t, o)
       PROVE  PhaseInv' /\ RowInv' /\ QueueInv'
  BY <1>12, OutcomeAssumption DEF Return, Outcome
<1> QED
  BY <1>1, <1>2, <1>3, <1>4, <1>5, <1>6, <1>7, <1>8, <1>9, <1>10, <1>11, <1>12

LEMMA SerialSeq ==
  ASSUME SeqInv,
         \/ UnblockBegin \/ UnblockEnd
         \/ \E t \in Task : SkipOne(t) \/ StartOne(t) \/ UnblockOne(t)
         \/ \E t \in Task, o \in Outcomes : FinishOne(t, o) \/ FinishOneRaises(t, o)
  PROVE  PhaseInv' /\ RowInv' /\ QueueInv'
<1> USE DEF SeqInv, TypeInv, TypeOK, PhaseInv, RowInv, QueueInv, InFlight, Gone,
            Reads, Parallel, durable, history
<1>1. CASE UnblockBegin
  BY <1>1 DEF UnblockBegin
<1>2. CASE UnblockEnd
  BY <1>2 DEF UnblockEnd
<1>3. ASSUME NEW t \in Task, SkipOne(t) PROVE PhaseInv' /\ RowInv' /\ QueueInv'
  BY <1>3 DEF SkipOne, Serial, Save
<1>4. ASSUME NEW t \in Task, StartOne(t) PROVE PhaseInv' /\ RowInv' /\ QueueInv'
  BY <1>4 DEF StartOne, Serial, Save, Withdrawn
<1>5. ASSUME NEW t \in Task, UnblockOne(t) PROVE PhaseInv' /\ RowInv' /\ QueueInv'
  BY <1>5 DEF UnblockOne, Save, Unblocked
<1>6. ASSUME NEW t \in Task, NEW o \in Outcomes, FinishOne(t, o)
      PROVE  PhaseInv' /\ RowInv' /\ QueueInv'
  <2>1. InFlight(t)
    BY <1>6 DEF FinishOne
  <2>2. PICK s \in States :
          /\ Save(t, s)
          /\ t \in cancelled => s = "CANCELLED"
          /\ row[t] = "RUNNING" \/ s = row[t]
          /\ s \in {"READY", "FAILED", "WAITING_FOR_APPROVAL", "COMPLETED", "CANCELLED"}
    BY <1>6, <2>1, FinishRow DEF FinishOne
  <2>3. o = "cancelled" => s = "CANCELLED"
    BY <1>6, <2>2 DEF FinishOne, Finish, Save
  <2> QED
    BY <1>6, <2>1, <2>2, <2>3 DEF FinishOne, Marks, Save
<1>7. ASSUME NEW t \in Task, NEW o \in Outcomes, FinishOneRaises(t, o)
      PROVE  PhaseInv' /\ RowInv' /\ QueueInv'
  BY <1>7 DEF FinishOneRaises, Escape, NoOut
<1> QED
  BY <1>1, <1>2, <1>3, <1>4, <1>5, <1>6, <1>7

(* cancel(t) reaches t and live tasks only: the live ones are closed under *)
(* its recursion.                                                          *)
LEMMA CascadeLive ==
  ASSUME NEW t \in Task, NEW c \in Cascade(t)
  PROVE  c = t \/ Live(c)
<1> DEFINE S == {t} \cup {d \in Task : Live(d)}
<1>1. S \in SUBSET Task /\ t \in S /\ ClosedUnderCancel(S)
  BY DEF ClosedUnderCancel
<1>2. c \in Task /\ (\A T \in SUBSET Task : t \in T /\ ClosedUnderCancel(T) => c \in T)
  BY Zenon DEF Cascade
<1> QED
  BY <1>1, <1>2

LEMMA OutsideSeq ==
  ASSUME SeqInv, ~ApiThread, ApiStep \/ CrashStep
  PROVE  PhaseInv' /\ RowInv' /\ QueueInv'
<1> USE DEF SeqInv, TypeInv, TypeOK, PhaseInv, RowInv, QueueInv, InFlight, Gone,
            Reads, Parallel, durable, history, memory, Resting
<1>1. CASE SetToken
  BY <1>1 DEF SetToken
<1>2. ASSUME NEW t \in Task, KernelCancel(t) PROVE PhaseInv' /\ RowInv' /\ QueueInv'
  <2>1. pc \in Resting \cup {"pool", "handler"}
    BY <1>2 DEF KernelCancel, ApiMayCall
  <2>2. \A c \in Cascade(t) : c \in Task /\ (c = t \/ Live(c))
    BY CascadeTasks, CascadeLive, <1>2
  <2>3. \A c \in Task :
          row'[c] = IF c \in Cascade(t) /\ Live(c) THEN "CANCELLED" ELSE row[c]
    BY <1>2 DEF KernelCancel
  <2>4. \A c \in cancelled' : c \in cancelled \/ c \in Cascade(t)
    BY <1>2 DEF KernelCancel
  <2>5. /\ UNCHANGED <<deps, kind, retry, token, pc, todo, queue, active, out, scan>>
        /\ cancelled \subseteq cancelled' /\ Cascade(t) \subseteq cancelled'
        /\ row[t] # "ABSENT"
    BY <1>2 DEF KernelCancel
  <2> HIDE DEF SeqInv, TypeInv, TypeOK
  <2>6. PhaseInv'
    BY <2>5 DEF SeqInv
  <2>7. RowInv'
    <3>1. \A c \in cancelled' : row'[c] \in {"COMPLETED", "CANCELLED"}
      BY <2>2, <2>3, <2>4, <2>5 DEF SeqInv, TypeInv, TypeOK, Live
    <3>2. \A c \in Task : row[c] = "READY" \/ row[c] = "RUNNING" \/ Gone(c) =>
            (row'[c] = row[c] /\ (Gone(c) => Gone(c)')) \/ Gone(c)'
      BY <2>3, <2>5 DEF Live
    <3> QED
      BY <2>1, <2>5, <3>1, <3>2 DEF SeqInv, TypeInv, TypeOK
  <2>8. QueueInv'
    BY <2>1, <2>5 DEF SeqInv
  <2> QED
    BY <2>6, <2>7, <2>8
<1>3. ASSUME NEW t \in Task, KernelApprove(t) PROVE PhaseInv' /\ RowInv' /\ QueueInv'
  <2>1. pc \in Resting \cup {"pool", "handler"}
    BY <1>3 DEF KernelApprove, ApiMayCall
  <2> QED
    BY <1>3, <2>1 DEF KernelApprove, Save
<1>4. CASE Crash
  BY <1>4 DEF Crash, NoOut
<1>5. CASE Restart
  BY <1>5 DEF Restart
<1>6. CASE RecoverBegin
  BY <1>6 DEF RecoverBegin
<1>7. CASE RecoverEnd
  BY <1>7 DEF RecoverEnd
<1>8. ASSUME NEW t \in Task, RecoverOne(t) PROVE PhaseInv' /\ RowInv' /\ QueueInv'
  BY <1>8 DEF RecoverOne, Save
<1> QED
  BY <1>1, <1>2, <1>3, <1>4, <1>5, <1>6, <1>7, <1>8 DEF ApiStep, CrashStep

LEMMA NextSeq == ASSUME ~ApiThread PROVE SeqInv /\ [Next]_vars => SeqInv'
<1> SUFFICES ASSUME SeqInv, [Next]_vars PROVE SeqInv'
  OBVIOUS
<1>1. TypeInv'
  BY NextType DEF SeqInv
<1>2. PhaseInv' /\ RowInv' /\ QueueInv'
  <2>1. CASE SubmitStep
    BY <2>1, SubmitSeq
  <2>2. CASE StartRun \/ RunStep
    BY <2>2, LoopSeq, ParallelSeq, SerialSeq DEF RunStep
  <2>3. CASE \E t \in Task : HandlerStep(t)
    BY <2>3, ParallelSeq, SerialSeq DEF HandlerStep
  <2>4. CASE ApiStep \/ CrashStep
    BY <2>4, OutsideSeq
  <2>5. CASE UNCHANGED vars
    BY <2>5 DEF vars, durable, memory, history, SeqInv, PhaseInv, RowInv, QueueInv,
                InFlight, Gone, Reads, Parallel
  <2> QED
    BY <2>1, <2>2, <2>3, <2>4, <2>5 DEF Next
<1> QED
  BY <1>1, <1>2 DEF SeqInv

-----------------------------------------------------------------------------
(* What one step does to the rows. Every theorem about rows goes through   *)
(* this lemma.                                                             *)

Move(t, s) ==
  \/ row[t] = "ABSENT" /\ (s = "BLOCKED" \/ (s = "READY" /\ deps[t] = {}))
  \/ row[t] = "BLOCKED" /\ s \in {"FAILED", "CANCELLED"}
  \/ row[t] = "BLOCKED" /\ s = "READY" /\ \A d \in deps[t] : row[d] = "COMPLETED"
  \/ row[t] = "READY" /\ s \in {"RUNNING", "CANCELLED"}
  \/ row[t] = "RUNNING" /\ s \in {"READY", "FAILED", "WAITING_FOR_APPROVAL", "CANCELLED"}
  \/ row[t] = "RUNNING" /\ s = "COMPLETED" /\ t \notin cancelled
  \/ row[t] = "WAITING_FOR_APPROVAL" /\ s \in {"READY", "CANCELLED"}
  \/ row[t] = s

OneRow  == \E t \in Task, s \in States : Move(t, s) /\ Save(t, s)
LiveRows ==
  \E S \in SUBSET Task :
    /\ \A c \in S : Live(c)
    /\ row' = [c \in Task |-> IF c \in S THEN "CANCELLED" ELSE row[c]]
RowStep == UNCHANGED deps /\ (UNCHANGED row \/ OneRow \/ LiveRows)

LEMMA FinishMove ==
  ASSUME SeqInv, NEW t \in Task, InFlight(t), NEW o, Finish(t, o), UNCHANGED deps
  PROVE  RowStep
<1>1. PICK s \in States :
        /\ Save(t, s)
        /\ t \in cancelled => s = "CANCELLED"
        /\ row[t] = "RUNNING" \/ s = row[t]
        /\ s \in {"READY", "FAILED", "WAITING_FOR_APPROVAL", "COMPLETED", "CANCELLED"}
  BY FinishRow
<1>2. Move(t, s)
  BY <1>1 DEF Move
<1> QED
  BY <1>1, <1>2 DEF RowStep, OneRow

LEMMA StepRows == ASSUME ~ApiThread, SeqInv, Next PROVE RowStep
<1> USE DEF SeqInv, QueueInv, RowInv, States, Durable, Terminal
<1>1. ASSUME NEW t \in Task, SubmitTask(t) PROVE RowStep
  <2>1. Move(t, IF deps[t] = {} THEN "READY" ELSE "BLOCKED")
    BY <1>1 DEF SubmitTask, Move
  <2> QED
    BY <1>1, <2>1 DEF SubmitTask, RowStep, OneRow
<1>2. ASSUME NEW t \in Task, SweepOne(t) PROVE RowStep
  <2>1. Move(t, "CANCELLED")
    BY <1>2 DEF SweepOne, Move, TypeInv, TypeOK
  <2> QED
    BY <1>2, <2>1 DEF SweepOne, RowStep, OneRow
<1>3. ASSUME NEW t \in Task, DropOne(t) PROVE RowStep
  <2>1. Move(t, "CANCELLED")
    BY <1>3 DEF DropOne, Move
  <2> QED
    BY <1>3, <2>1 DEF DropOne, RowStep, OneRow
<1>4. ASSUME NEW t \in Task, MarkOne(t) PROVE RowStep
  <2>1. Move(t, "RUNNING")
    BY <1>4 DEF MarkOne, Move
  <2> QED
    BY <1>4, <2>1 DEF MarkOne, RowStep, OneRow
<1>5. ASSUME NEW t \in Task, Collect(t) PROVE RowStep
  <2>1. InFlight(t) /\ UNCHANGED deps
    BY <1>5 DEF Collect
  <2> QED
    BY <1>5, <2>1, FinishMove DEF Collect
<1>6. ASSUME NEW t \in Task, SkipOne(t) PROVE RowStep
  <2>1. Move(t, "CANCELLED")
    BY <1>6 DEF SkipOne, Serial, Move, Gone
  <2> QED
    BY <1>6, <2>1 DEF SkipOne, RowStep, OneRow
<1>7. ASSUME NEW t \in Task, StartOne(t) PROVE RowStep
  <2>1. Move(t, "RUNNING")
    BY <1>7 DEF StartOne, Serial, Withdrawn, Move, Gone
  <2> QED
    BY <1>7, <2>1 DEF StartOne, RowStep, OneRow
<1>8. ASSUME NEW t \in Task, NEW o \in Outcomes, FinishOne(t, o) PROVE RowStep
  <2>1. InFlight(t) /\ UNCHANGED deps
    BY <1>8 DEF FinishOne, InFlight
  <2> QED
    BY <1>8, <2>1, FinishMove DEF FinishOne
<1>9. ASSUME NEW t \in Task, UnblockOne(t) PROVE RowStep
  <2>1. CASE Unblocked(t) = "BLOCKED"
    BY <1>9, <2>1 DEF UnblockOne, RowStep
  <2>2. CASE Unblocked(t) # "BLOCKED"
    <3>1. \A d \in deps[t] : d \in Task
      BY DEF TypeInv, TypeOK
    <3>2. Move(t, Unblocked(t)) /\ Unblocked(t) \in States
      BY <1>9, <2>2, <3>1 DEF UnblockOne, Unblocked, AllDepsDone, Move
    <3> QED
      BY <1>9, <2>2, <3>2 DEF UnblockOne, RowStep, OneRow
  <2> QED
    BY <2>1, <2>2
<1>10. ASSUME NEW t \in Task, KernelCancel(t) PROVE RowStep
  <2> DEFINE S == {c \in Cascade(t) : Live(c)}
  <2>1. S \in SUBSET Task /\ \A c \in S : Live(c)
    BY CascadeTasks, <1>10
  <2>2. row' = [c \in Task |-> IF c \in S THEN "CANCELLED" ELSE row[c]]
    BY <1>10 DEF KernelCancel
  <2> QED
    BY <1>10, <2>1, <2>2 DEF KernelCancel, RowStep, LiveRows
<1>11. ASSUME NEW t \in Task, KernelApprove(t) PROVE RowStep
  <2>1. Move(t, "READY")
    BY <1>11 DEF KernelApprove, Move
  <2> QED
    BY <1>11, <2>1 DEF KernelApprove, RowStep, OneRow
<1>12. ASSUME NEW t \in Task, RecoverOne(t) PROVE RowStep
  <2>1. Move(t, "FAILED")
    BY <1>12 DEF RecoverOne, Move
  <2> QED
    BY <1>12, <2>1 DEF RecoverOne, RowStep, OneRow
<1>13. CASE UNCHANGED <<deps, row>>
  BY <1>13 DEF RowStep
<1>14. ASSUME \/ SubmitEnd \/ StartRun \/ LimitReached \/ SweepBegin \/ SweepEnd
              \/ AllCancelledOrOver \/ EmptyBatch \/ TakeBatch \/ DropBegin
              \/ DropEnd \/ MarkBegin \/ MarkEnd \/ Join \/ CollectEnd
              \/ UnblockBegin \/ UnblockEnd \/ SetToken \/ Crash \/ Restart
              \/ RecoverBegin \/ RecoverEnd
              \/ \E t \in Task : Call(t) \/ CollectRaises(t)
              \/ \E t \in Task, o \in Outcomes : Return(t, o) \/ FinishOneRaises(t, o)
       PROVE  UNCHANGED <<deps, row>>
  BY <1>14
  DEF SubmitEnd, StartRun, LimitReached, SweepBegin, SweepEnd, AllCancelledOrOver,
      EmptyBatch, TakeBatch, DropBegin, DropEnd, MarkBegin, MarkEnd, Join,
      CollectEnd, UnblockBegin, UnblockEnd, SetToken, Crash, Restart, RecoverBegin,
      RecoverEnd, Call, CollectRaises, Return, FinishOneRaises, Escape, durable
<1> QED
  BY <1>1, <1>2, <1>3, <1>4, <1>5, <1>6, <1>7, <1>8, <1>9, <1>10, <1>11, <1>12,
     <1>13, <1>14
  DEF Next, SubmitStep, RunStep, HandlerStep, ApiStep, CrashStep

-----------------------------------------------------------------------------
(* Consequences for the rows.                                              *)

LEMMA MoveLegal ==
  ASSUME NEW t \in Task, NEW s, Move(t, s), row[t] # "ABSENT", s # row[t]
  PROVE  Reaches(row[t], s)
<1>1. CASE row[t] = "RUNNING" /\ s = "READY"
  <2>1. /\ CanTransition("RUNNING", "FAILED") /\ CanTransition("FAILED", "RETRYING")
        /\ CanTransition("RETRYING", "READY")
    BY DEF CanTransition, LEGAL
  <2>2. "FAILED" \in TaskState /\ "RETRYING" \in TaskState
    BY DEF TaskState
  <2> QED
    BY <1>1, <2>1, <2>2 DEF Reaches
<1>2. CASE ~(row[t] = "RUNNING" /\ s = "READY")
  <2>1. CanTransition(row[t], s)
    BY <1>2 DEF Move, CanTransition, LEGAL
  <2> QED
    BY <2>1 DEF Reaches
<1> QED
  BY <1>1, <1>2

\* What a step does to one row, whichever way it changed the table.
LEMMA OneRowStep ==
  ASSUME SeqInv, RowStep, NEW t \in Task
  PROVE  \/ row'[t] = row[t]
         \/ Move(t, row'[t])
         \/ Live(t) /\ row'[t] = "CANCELLED"
<1>1. CASE UNCHANGED row
  BY <1>1
<1>2. CASE OneRow
  <2>1. PICK u \in Task, s \in States : Move(u, s) /\ Save(u, s)
    BY <1>2 DEF OneRow
  <2> QED
    BY <2>1 DEF Save, SeqInv, TypeInv, TypeOK
<1>3. CASE LiveRows
  BY <1>3 DEF LiveRows
<1> QED
  BY <1>1, <1>2, <1>3 DEF RowStep

LEMMA LiveLegal ==
  ASSUME SeqInv, NEW t \in Task, Live(t)
  PROVE  Reaches(row[t], "CANCELLED")
<1>1. row[t] \in {"READY", "BLOCKED", "RUNNING", "WAITING_FOR_APPROVAL", "FAILED"}
  BY DEF SeqInv, TypeInv, TypeOK, Durable, Terminal, Live
<1>2. CanTransition(row[t], "CANCELLED")
  BY <1>1 DEF CanTransition, LEGAL
<1> QED
  BY <1>2 DEF Reaches

\* A step enters a handler, or takes a task in flight, only from READY.
LEMMA StepBegun ==
  ASSUME ~ApiThread, SeqInv, Next, NEW u \in Task,
         starts'[u] # starts[u] \/ InFlight(u)'
  PROVE  InFlight(u) \/ row[u] = "READY"
<1> USE DEF SeqInv, TypeInv, TypeOK, InFlight, QueueInv, RowInv, durable, history, memory
<1>1. ASSUME NEW t \in Task, MarkOne(t) PROVE InFlight(u) \/ row[u] = "READY"
  BY <1>1 DEF MarkOne
<1>2. ASSUME NEW t \in Task, Call(t) PROVE InFlight(u) \/ row[u] = "READY"
  BY <1>2 DEF Call, Entered
<1>3. ASSUME NEW t \in Task, StartOne(t) PROVE InFlight(u) \/ row[u] = "READY"
  BY <1>3 DEF StartOne, Entered, Serial, Withdrawn, Gone
<1>4. ASSUME NEW t \in Task, NEW o \in Outcomes, Return(t, o)
      PROVE  InFlight(u) \/ row[u] = "READY"
  BY <1>4 DEF Return
<1>5. ASSUME NEW t \in Task, Collect(t) \/ CollectRaises(t)
      PROVE  InFlight(u) \/ row[u] = "READY"
  BY <1>5 DEF Collect, CollectRaises, Escape, NoOut
<1>6. ASSUME NEW t \in Task, NEW o \in Outcomes, FinishOne(t, o) \/ FinishOneRaises(t, o)
      PROVE  InFlight(u) \/ row[u] = "READY"
  BY <1>6 DEF FinishOne, FinishOneRaises, Escape, NoOut
<1>7. CASE Crash
  BY <1>7 DEF Crash, NoOut
<1>8. CASE UNCHANGED <<starts, out, active>>
  BY <1>8
<1>9. ASSUME \/ SubmitStep \/ StartRun \/ LimitReached \/ SweepBegin \/ SweepEnd
             \/ AllCancelledOrOver \/ EmptyBatch \/ TakeBatch \/ DropBegin
             \/ DropEnd \/ MarkBegin \/ MarkEnd \/ Join \/ CollectEnd
             \/ UnblockBegin \/ UnblockEnd \/ ApiStep \/ Restart
             \/ RecoverBegin \/ RecoverEnd
             \/ \E t \in Task : SweepOne(t) \/ DropOne(t) \/ SkipOne(t)
                                  \/ UnblockOne(t) \/ RecoverOne(t)
      PROVE  UNCHANGED <<starts, out, active>>
  BY <1>9
  DEF SubmitStep, SubmitTask, SubmitEnd, StartRun, LimitReached, SweepBegin,
      SweepEnd, AllCancelledOrOver, EmptyBatch, TakeBatch, DropBegin, DropEnd,
      MarkBegin, MarkEnd, Join, CollectEnd, UnblockBegin, UnblockEnd, ApiStep,
      SetToken, KernelCancel, KernelApprove, Restart, RecoverBegin, RecoverEnd,
      SweepOne, DropOne, SkipOne, UnblockOne, RecoverOne
<1> HIDE DEF SeqInv, TypeInv, TypeOK, InFlight, QueueInv, RowInv, durable, history, memory
<1> QED
  BY <1>1, <1>2, <1>3, <1>4, <1>5, <1>6, <1>7, <1>8, <1>9
  DEF Next, RunStep, HandlerStep, CrashStep

LEMMA InitDeps == Init => DepsInv
BY DEF Init, DepsInv, Begun, Released, InFlight, NoOut

LEMMA NextDeps ==
  ASSUME ~ApiThread
  PROVE  SeqInv /\ DepsInv /\ [Next]_vars => DepsInv'
<1>1. ASSUME SeqInv, DepsInv, Next PROVE DepsInv'
  <2> SUFFICES ASSUME NEW t \in Task, Begun(t)', NEW d \in deps[t]
               PROVE  row'[d] = "COMPLETED"
    BY <1>1, StepRows DEF DepsInv, RowStep
  <2>1. d \in Task
    BY <1>1 DEF SeqInv, TypeInv, TypeOK
  <2>2. RowStep
    BY <1>1, StepRows
  <2>3. row[d] = "COMPLETED" => row'[d] = "COMPLETED"
    BY <1>1, <2>1, <2>2, OneRowStep DEF Move, Live
  <2>4. CASE starts'[t] # starts[t] \/ InFlight(t)'
    <3>1. Begun(t)
      BY <1>1, <2>4, StepBegun DEF Begun, Released
    <3> QED
      BY <1>1, <2>3, <3>1 DEF DepsInv
  <2>5. CASE starts'[t] = starts[t] /\ starts[t] > 0
    BY <1>1, <2>3, <2>5 DEF DepsInv, Begun
  <2>6. CASE row'[t] \in Released
    <3>1. Begun(t) \/ row[d] = "COMPLETED"
      BY <1>1, <2>2, <2>6, OneRowStep DEF Move, Begun, Released
    <3> QED
      BY <1>1, <2>3, <3>1 DEF DepsInv
  <2> QED
    BY <2>4, <2>5, <2>6 DEF Begun
<1>2. ASSUME DepsInv, UNCHANGED vars PROVE DepsInv'
  BY <1>2 DEF vars, durable, memory, history, DepsInv, Begun, InFlight
<1> QED
  BY <1>1, <1>2

-----------------------------------------------------------------------------
(* The budget of handler entries.                                          *)

\* A step that leaves what Within speaks of alone.
Quiet(u) ==
  /\ UNCHANGED <<kind, starts[u], retry[u], grants[u]>>
  /\ Owes(u)' => Owes(u)

LEMMA QuietWithin ==
  ASSUME SeqInv, NEW u \in Task, Within(u), Quiet(u)
  PROVE  Within(u)'
BY DEF SeqInv, TypeInv, TypeOK, Within, Quiet

\* _finish: a task goes back to READY only against a retry.
LEMMA FinishWithin ==
  ASSUME SeqInv, NEW t \in Task, NEW u \in Task, NEW o, Within(u), InFlight(t),
         Finish(t, o), UNCHANGED <<kind, starts, grants>>,
         pc' \notin {"mark", "pool"}
  PROVE  Within(u)'
<1> USE DEF SeqInv, TypeInv, TypeOK
<1>1. CASE u # t
  <2>1. row'[u] = row[u] /\ retry'[u] = retry[u]
    BY <1>1 DEF Finish, FailOrRequeue, Save
  <2> QED
    BY <2>1 DEF Within, Owes
<1>2. CASE u = t /\ retry' = retry
  <2>1. row'[t] \notin {"ABSENT", "READY", "BLOCKED"}
    <3>1. row[t] = "RUNNING" \/ Gone(t)
      BY DEF RowInv
    <3> QED
      BY <1>2, <3>1, BoundAssumption DEF Finish, FailOrRequeue, MayRequeue, Verdict, Save
  <2> QED
    BY <1>2, <2>1 DEF Within, Owes
<1>3. CASE u = t /\ retry' # retry
  <2>1. retry'[t] = retry[t] + 1 /\ kind[t] \notin DESTRUCTIVE
    BY <1>3 DEF Finish, FailOrRequeue, MayRequeue
  <2> QED
    BY <1>3, <2>1 DEF Within
<1> QED
  BY <1>1, <1>2, <1>3

LEMMA NextWithin ==
  ASSUME ~ApiThread, SeqInv, Next, NEW u \in Task, Within(u)
  PROVE  Within(u)'
<1> USE DEF SeqInv, TypeInv, TypeOK, Owes, durable, history, memory
<1>1. ASSUME NEW t \in Task, SubmitTask(t) PROVE Within(u)'
  BY <1>1, QuietWithin DEF SubmitTask, Save, Quiet, QueueInv
<1>2. ASSUME NEW t \in Task, SweepOne(t) \/ DropOne(t) \/ SkipOne(t) \/ RecoverOne(t)
      PROVE  Within(u)'
  BY <1>2, QuietWithin DEF SweepOne, DropOne, SkipOne, Serial, RecoverOne, Save, Quiet
<1>3. ASSUME NEW t \in Task, UnblockOne(t) PROVE Within(u)'
  BY <1>3, QuietWithin DEF UnblockOne, Save, Quiet, QueueInv
<1>4. ASSUME NEW t \in Task, KernelCancel(t) PROVE Within(u)'
  BY <1>4, QuietWithin DEF KernelCancel, Quiet
<1>5. ASSUME NEW t \in Task, KernelApprove(t) PROVE Within(u)'
  <2>1. CASE u = t
    <3>1. grants'[t] = grants[t] + 1 /\ UNCHANGED <<kind, starts, retry>>
      BY <1>5 DEF KernelApprove
    <3> QED
      BY <2>1, <3>1 DEF Within
  <2>2. CASE u # t
    BY <1>5, <2>2, QuietWithin DEF KernelApprove, Save, Quiet
  <2> QED
    BY <2>1, <2>2
<1>6. ASSUME NEW t \in Task, MarkOne(t) PROVE Within(u)'
  BY <1>6, QuietWithin DEF MarkOne, Save, Quiet, QueueInv
<1>7. CASE MarkEnd
  BY <1>7, QuietWithin DEF MarkEnd, Quiet
<1>8. CASE MarkBegin
  BY <1>8, QuietWithin DEF MarkBegin, Quiet, PhaseInv
<1>9. ASSUME NEW t \in Task, Call(t) PROVE Within(u)'
  <2>1. CASE u = t /\ ~token
    <3>1. /\ starts'[t] = starts[t] + 1 /\ UNCHANGED <<kind, retry, grants, row, pc>>
          /\ pc = "pool" /\ t \in queue /\ t \notin queue'
      BY <1>9, <2>1 DEF Call, Entered
    <3>2. row[t] \notin {"ABSENT", "READY", "BLOCKED"}
      BY <3>1 DEF QueueInv, RowInv, Gone
    <3> QED
      BY <2>1, <3>1, <3>2 DEF Within
  <2>2. CASE u # t \/ token
    BY <1>9, <2>2, QuietWithin DEF Call, Entered, Quiet
  <2> QED
    BY <2>1, <2>2
<1>10. ASSUME NEW t \in Task, NEW o \in Outcomes, Return(t, o) PROVE Within(u)'
  BY <1>10, QuietWithin DEF Return, Quiet
<1>11. ASSUME NEW t \in Task, Collect(t) PROVE Within(u)'
  <2>1. InFlight(t) /\ UNCHANGED <<kind, starts, grants>> /\ pc' \notin {"mark", "pool"}
    BY <1>11 DEF Collect, QueueInv
  <2> HIDE DEF SeqInv, Owes
  <2> QED
    BY <1>11, <2>1, FinishWithin DEF Collect
<1>12. ASSUME NEW t \in Task, NEW o \in Outcomes, FinishOne(t, o) PROVE Within(u)'
  <2>1. InFlight(t) /\ UNCHANGED <<kind, starts, grants>> /\ pc' \notin {"mark", "pool"}
    BY <1>12 DEF FinishOne, InFlight
  <2> HIDE DEF SeqInv, Owes
  <2> QED
    BY <1>12, <2>1, FinishWithin DEF FinishOne
<1>13. ASSUME NEW t \in Task, StartOne(t) PROVE Within(u)'
  <2>1. CASE u = t
    <3>1. row[t] = "READY"
      BY <1>13 DEF StartOne, Serial, Withdrawn, RowInv, Gone
    <3>2. /\ starts'[t] = starts[t] + 1 /\ UNCHANGED <<kind, retry, grants>>
          /\ row'[t] = "RUNNING" /\ pc' = "handler"
      BY <1>13 DEF StartOne, Entered, Save
    <3> QED
      BY <2>1, <3>1, <3>2 DEF Within
  <2>2. CASE u # t
    BY <1>13, <2>2, QuietWithin DEF StartOne, Entered, Save, Quiet
  <2> QED
    BY <2>1, <2>2
<1>14. ASSUME \/ SubmitEnd \/ StartRun \/ LimitReached \/ SweepBegin \/ SweepEnd
              \/ AllCancelledOrOver \/ EmptyBatch \/ TakeBatch \/ DropBegin
              \/ DropEnd \/ Join \/ CollectEnd \/ UnblockBegin \/ UnblockEnd
              \/ Crash \/ Restart \/ RecoverBegin \/ RecoverEnd
              \/ \E t \in Task : CollectRaises(t)
              \/ \E t \in Task, o \in Outcomes : FinishOneRaises(t, o)
       PROVE  UNCHANGED <<kind, row, retry, starts, grants>> /\ pc' \notin {"mark", "pool"}
  BY <1>14
  DEF SubmitEnd, StartRun, LimitReached, SweepBegin, SweepEnd, AllCancelledOrOver,
      EmptyBatch, TakeBatch, DropBegin, DropEnd, Join, CollectEnd, UnblockBegin,
      UnblockEnd, Crash, Restart, RecoverBegin, RecoverEnd, CollectRaises,
      FinishOneRaises, Escape
<1>15. ASSUME UNCHANGED <<kind, row, retry, starts, grants>>,
              pc' \notin {"mark", "pool"} \/ UNCHANGED <<pc, queue, out>>
       PROVE  Within(u)'
  BY <1>15, QuietWithin DEF Quiet
<1>16. SetToken => UNCHANGED <<kind, row, retry, starts, grants, pc, queue, out>>
  BY DEF SetToken
<1> HIDE DEF SeqInv, TypeInv, TypeOK, Owes, durable, history, memory
<1> QED
  BY <1>1, <1>2, <1>3, <1>4, <1>5, <1>6, <1>7, <1>8, <1>9, <1>10, <1>11, <1>12,
     <1>13, <1>14, <1>15, <1>16
  DEF Next, SubmitStep, RunStep, HandlerStep, ApiStep, CrashStep

LEMMA InitBudget == Init => BudgetInv
BY DEF Init, BudgetInv, Within, Owes

LEMMA NextBudget ==
  ASSUME ~ApiThread
  PROVE  SeqInv /\ BudgetInv /\ [Next]_vars => BudgetInv'
<1>1. ASSUME SeqInv, BudgetInv, Next PROVE BudgetInv'
  BY <1>1, NextWithin DEF BudgetInv
<1>2. ASSUME BudgetInv, UNCHANGED vars PROVE BudgetInv'
  BY <1>2 DEF vars, durable, memory, history, BudgetInv, Within, Owes
<1> QED
  BY <1>1, <1>2

-----------------------------------------------------------------------------
(* The theorems.                                                           *)

(* The inductive invariant holds in every reachable state.                 *)
THEOREM Invariant == ASSUME ~ApiThread PROVE Spec => []IInv
<1>1. Init => IInv
  BY InitSeq, InitDeps, InitBudget DEF IInv
<1>2. IInv /\ [Next]_vars => IInv'
  BY NextSeq, NextDeps, NextBudget DEF IInv
<1> QED
  BY <1>1, <1>2, PTL DEF Spec

(* A task is released or handed to its handler only over COMPLETED         *)
(* dependencies, for any graph, any number of crashes and retries.         *)
THEOREM DependencyOrder == ASSUME ~ApiThread PROVE Spec => []DependenciesDone
<1>1. IInv => DependenciesDone
  BY DEF IInv, DepsInv, DependenciesDone, Begun
<1> QED
  BY <1>1, Invariant, PTL

(* Every change of a row is legal by kernel/states.py.                     *)
THEOREM LegalRows == ASSUME ~ApiThread PROVE Spec => RowsFollowLegal
<1> DEFINE Legal == \A t \in Task : row[t] # "ABSENT" /\ row'[t] # row[t] =>
                      Reaches(row[t], row'[t])
<1>1. IInv /\ [Next]_vars => [Legal]_vars
  <2> SUFFICES ASSUME IInv, Next, NEW t \in Task, row[t] # "ABSENT", row'[t] # row[t]
               PROVE  Reaches(row[t], row'[t])
    OBVIOUS
  <2>1. Move(t, row'[t]) \/ (Live(t) /\ row'[t] = "CANCELLED")
    BY StepRows, OneRowStep DEF IInv
  <2> QED
    BY <2>1, MoveLegal, LiveLegal DEF IInv
<1> QED
  BY <1>1, Invariant, PTL DEF Spec, RowsFollowLegal

(* What was cancelled before it was COMPLETED is never COMPLETED.          *)
THEOREM CancelIsFinal == ASSUME ~ApiThread PROVE Spec => CancelledNeverCompletes
<1> DEFINE Kept == \A t \in Task : t \in cancelled /\ row[t] # "COMPLETED" =>
                     row'[t] # "COMPLETED"
<1>1. IInv /\ [Next]_vars => [Kept]_vars
  <2> SUFFICES ASSUME IInv, Next, NEW t \in Task,
                      t \in cancelled, row[t] # "COMPLETED"
               PROVE  row'[t] # "COMPLETED"
    OBVIOUS
  <2>1. row[t] = "CANCELLED"
    BY DEF IInv, SeqInv, RowInv
  <2> QED
    BY <2>1, StepRows, OneRowStep DEF IInv, Move
<1> QED
  BY <1>1, Invariant, PTL DEF Spec, CancelledNeverCompletes

(* No task is entered more often than its retries and approvals pay for,   *)
(* however often the process crashes.                                      *)
THEOREM StartsAreBudgeted == ASSUME ~ApiThread PROVE Spec => []StartBudget
<1>1. IInv => StartBudget
  <2> SUFFICES ASSUME IInv, NEW t \in Task
               PROVE  starts[t] <= 1 + grants[t] + (IF kind[t] \in DESTRUCTIVE THEN 0 ELSE MaxRetries)
    BY DEF StartBudget
  <2>1. /\ starts[t] <= 1 + retry[t] + grants[t]
        /\ kind[t] \in DESTRUCTIVE => retry[t] = 0
        /\ starts[t] \in Nat /\ grants[t] \in Nat /\ retry[t] \in 0 .. MaxRetries
    BY DEF IInv, BudgetInv, Within, SeqInv, TypeInv, TypeOK
  <2> QED
    BY <2>1, BoundAssumption
<1> QED
  BY <1>1, Invariant, PTL

-----------------------------------------------------------------------------
(* Refinement.                                                             *)

Status == [t \in Task |-> StatusOf(row[t])]

\* The abstract step a saved row stands for.
LEMMA MoveMaps ==
  ASSUME SeqInv, DepsInv, NEW t \in Task, NEW s \in States,
         Move(t, s), Save(t, s), UNCHANGED deps
  PROVE  Graph!Next \/ UNCHANGED Graph!vars
<1> DEFINE d == StatusOf(s)
<1>1. row \in [Task -> States] /\ deps \in [Task -> SUBSET Task]
  BY DEF SeqInv, TypeInv, TypeOK, States
<1>2. Status' = [Status EXCEPT ![t] = d]
  <2>1. row' = [row EXCEPT ![t] = s]
    BY DEF Save
  <2>2. \A u \in Task : row'[u] = IF u = t THEN s ELSE row[u]
    BY <1>1, <2>1
  <2> QED
    BY <2>2 DEF Status
<1>3. CASE d = Status[t]
  <2>1. Status' = Status
    BY <1>2, <1>3 DEF Status
  <2> QED
    BY <2>1 DEF Status, Graph!vars
<1>4. CASE row[t] = "READY" /\ s = "RUNNING"
  <2>1. \A u \in deps[t] : row[u] = "COMPLETED" /\ u \in Task
    BY <1>1, <1>4 DEF DepsInv, Begun, Released
  <2>2. Graph!Begin(t)
    BY <1>2, <1>4, <2>1 DEF Graph!Begin, Status, StatusOf
  <2> QED
    BY <2>2 DEF Graph!Next
<1>5. CASE row[t] = "RUNNING" /\ s = "COMPLETED"
  <2>1. Graph!Complete(t)
    BY <1>2, <1>5 DEF Graph!Complete, Status, StatusOf
  <2> QED
    BY <2>1 DEF Graph!Next
<1>6. CASE row[t] = "RUNNING" /\ s \in {"READY", "WAITING_FOR_APPROVAL"}
  <2>1. Graph!ComeBack(t)
    BY <1>2, <1>6 DEF Graph!ComeBack, Status, StatusOf
  <2> QED
    BY <2>1 DEF Graph!Next
<1>7. CASE /\ row[t] \in {"BLOCKED", "READY", "RUNNING", "WAITING_FOR_APPROVAL"}
           /\ s \in {"FAILED", "CANCELLED"}
  <2>1. Status' = [u \in Task |-> IF u \in {t} THEN "dead" ELSE Status[u]]
    BY <1>2, <1>7 DEF Status, StatusOf
  <2>2. Status[t] \in {"waiting", "running"}
    BY <1>7 DEF Status, StatusOf
  <2>3. Graph!GiveUp({t})
    BY <2>1, <2>2 DEF Graph!GiveUp, Status
  <2> QED
    BY <2>3 DEF Graph!Next
<1>8. \/ d = Status[t]
      \/ row[t] = "READY" /\ s = "RUNNING"
      \/ row[t] = "RUNNING" /\ s \in {"COMPLETED", "READY", "WAITING_FOR_APPROVAL"}
      \/ /\ row[t] \in {"BLOCKED", "READY", "RUNNING", "WAITING_FOR_APPROVAL"}
         /\ s \in {"FAILED", "CANCELLED"}
  BY DEF Move, Status, StatusOf
<1> QED
  BY <1>3, <1>4, <1>5, <1>6, <1>7, <1>8

\* A cancellation gives up every live row it reaches that is not FAILED.
LEMMA CancelMaps ==
  ASSUME SeqInv, LiveRows, UNCHANGED deps
  PROVE  Graph!Next
<1>1. PICK S \in SUBSET Task :
        /\ \A c \in S : Live(c)
        /\ row' = [c \in Task |-> IF c \in S THEN "CANCELLED" ELSE row[c]]
  BY DEF LiveRows
<1> DEFINE G == {c \in S : row[c] # "FAILED"}
<1>2. \A c \in G : Status[c] \in {"waiting", "running"}
  BY <1>1 DEF Status, StatusOf, Live
<1>3. Status' = [c \in Task |-> IF c \in G THEN "dead" ELSE Status[c]]
  BY <1>1 DEF Status, StatusOf
<1>4. Graph!GiveUp(G)
  BY <1>2, <1>3 DEF Graph!GiveUp, Status
<1> QED
  BY <1>4 DEF Graph!Next

(* The engine implements TaskGraph.                                        *)
THEOREM Refinement == ASSUME ~ApiThread PROVE Spec => ImplementsTaskGraph
<1>1. Init => Graph!Init
  <2> SUFFICES ASSUME Init PROVE Graph!Init
    OBVIOUS
  <2>1. deps \in [Task -> SUBSET Task]
    BY IntentAssumption DEF Init
  <2> QED
    BY <2>1 DEF Init, Graph!Init, StatusOf
<1>2. IInv /\ [Next]_vars => [Graph!Next]_(Graph!vars)
  <2>1. ASSUME IInv, Next PROVE Graph!Next \/ UNCHANGED Graph!vars
    <3>1. RowStep
      BY <2>1, StepRows DEF IInv
    <3>2. CASE UNCHANGED row
      BY <3>1, <3>2 DEF RowStep, Graph!vars
    <3>3. CASE OneRow
      BY <2>1, <3>1, <3>3, MoveMaps DEF OneRow, RowStep, IInv
    <3>4. CASE LiveRows
      BY <2>1, <3>1, <3>4, CancelMaps DEF RowStep, IInv
    <3> QED
      BY <3>1, <3>2, <3>3, <3>4 DEF RowStep
  <2>2. ASSUME UNCHANGED vars PROVE UNCHANGED Graph!vars
    BY <2>2 DEF vars, durable, Graph!vars
  <2> QED
    BY <2>1, <2>2
<1> QED
  BY <1>1, <1>2, Invariant, PTL DEF Spec, Graph!Spec, ImplementsTaskGraph

-----------------------------------------------------------------------------
(***************************************************************************)
(* run_to_idle ends because the work is over, and not because range(limit) *)
(* is exhausted: in one process that nobody else calls, whose handlers say *)
(* what went wrong, over a graph without a cycle. Two arguments meet:      *)
(* every batch spends a retry of a task or stops it, of which a graph has  *)
(* only so many; and unblock leaves no task BLOCKED whose dependencies     *)
(* have all completed.                                                     *)
(***************************************************************************)

\* No knot of tasks that all wait for one another.
Acyclic(D) == \A S \in SUBSET Task : S # {} => \E s \in S : D[s] \cap S = {}

Alone == ~ApiThread /\ ApiCalls = {} /\ MaxCrash = 0 /\ "blank" \notin Outcomes

Stopped == {"COMPLETED"} \cup Halted
InBatch == {"dispatch", "drop", "mark", "pool", "collect", "handler"}
AtRest  == {"submit", "idle", "loop", "sweep", "returned", "recover"}

(* The state column of one process without a crash: RUNNING is a handler   *)
(* at work, READY is what the batch still holds, ABSENT is to be submitted.*)
QuietInv ==
  /\ pc \notin {"raised", "down"}
  /\ \A t \in Task : out[t] # "blank"
  /\ \A t \in todo : row[t] = "READY"
  /\ \A t \in Task : InFlight(t) <=> row[t] = "RUNNING"
  /\ \A t \in Task : row[t] = "ABSENT" => pc = "submit" /\ t \in queue
  /\ pc \in Resting \cup {"loop", "dispatch", "handler"} => queue = {}
  /\ pc = "handler" => \A s, t \in active : s = t

(* What is BLOCKED has a dependency that is not COMPLETED, but while a     *)
(* batch runs; unblock, in its loop, goes by what it read before.          *)
WaitInv ==
  /\ pc = "submit" => \A t \in Task : /\ row[t] # "COMPLETED"
                                      /\ row[t] = "BLOCKED" => deps[t] # {}
  /\ pc \in AtRest =>
       \A t \in Task : row[t] = "BLOCKED" => \E d \in deps[t] : row[d] # "COMPLETED"
  /\ pc = "unblock" =>
       \A t \in Task : /\ row[t] = "COMPLETED" => scan[t] = "COMPLETED"
                       /\ row[t] = "BLOCKED" /\ t \notin queue =>
                            \E d \in deps[t] : scan[d] # "COMPLETED"

(* What is spent: of a task its retries so far, and when it has stopped    *)
(* those that were left and the first attempt.                             *)
Spent ==
  {p \in Task \X (0 .. MaxRetries) : p[2] < retry[p[1]] \/ row[p[1]] \in Stopped}

Pending == todo # {} \/ queue # {} \/ \E t \in Task : InFlight(t)

(* Every iteration has spent something, but the one that goes on and one   *)
(* that found nothing READY.                                               *)
FuelInv ==
  /\ pc = "loop" => iter <= Cardinality(Spent) + idle /\ (idle # 0 => Ready = {})
  /\ pc \in InBatch => iter <= Cardinality(Spent) /\ (Pending \/ iter < Cardinality(Spent))
  /\ pc = "unblock" => iter < Cardinality(Spent)

EndInv ==
  /\ pc = "sweep" => iter < Limit /\ \A t \in Task : row[t] \in Terminal \/ t \in queue
  /\ pc = "returned" => iter < Limit /\ \A t \in Task : row[t] \notin {"READY", "RUNNING"}

OverInv == QuietInv /\ WaitInv /\ FuelInv /\ EndInv /\ Acyclic(deps)

-----------------------------------------------------------------------------
(* How much is spent.                                                      *)

(* A graph has no more to spend than every task its attempts.              *)
LEMMA SpentCounts ==
  ASSUME IsFiniteSet(Task)
  PROVE  /\ IsFiniteSet(Spent) /\ Cardinality(Spent) \in Nat
         /\ Cardinality(Task) \in Nat
         /\ Cardinality(Spent) <= Cardinality(Task) * (MaxRetries + 1)
<1> DEFINE P == Task \X (0 .. MaxRetries)
<1>1. IsFiniteSet(0 .. MaxRetries) /\ Cardinality(0 .. MaxRetries) = MaxRetries + 1
  BY FS_Interval, BoundAssumption
<1>2. IsFiniteSet(P) /\ Cardinality(P) = Cardinality(Task) * (MaxRetries + 1)
  BY <1>1, FS_Product, Zenon
<1>3. Spent \in SUBSET P
  BY DEF Spent
<1> HIDE DEF P
<1>4. IsFiniteSet(Spent) /\ Cardinality(Spent) <= Cardinality(P)
  BY <1>2, <1>3, FS_Subset
<1> QED
  BY <1>2, <1>4, FS_CardinalityType

Grows ==
  \A t \in Task : retry[t] <= retry'[t] /\ (row[t] \in Stopped => row'[t] \in Stopped)
Spends ==
  \E t \in Task : row[t] \notin Stopped /\ (row'[t] \in Stopped \/ retry[t] < retry'[t])

LEMMA SpentGrows ==
  ASSUME TypeOK, TypeOK', Grows
  PROVE  Spent \subseteq Spent'
<1>1. \A t \in Task, k \in 0 .. MaxRetries :
        k < retry[t] \/ row[t] \in Stopped => k < retry'[t] \/ row'[t] \in Stopped
  BY BoundAssumption DEF Grows, TypeOK
<1> QED
  BY <1>1 DEF Spent, Stopped

LEMMA SpentMore ==
  ASSUME TypeOK, TypeOK', Spends
  PROVE  Spent # Spent'
<1>1. PICK t \in Task : row[t] \notin Stopped /\ (row'[t] \in Stopped \/ retry[t] < retry'[t])
  BY DEF Spends
<1>2. retry[t] \in 0 .. MaxRetries /\ ~(retry[t] < retry[t])
  BY BoundAssumption DEF TypeOK
<1>3. <<t, retry[t]>> \notin Spent
  BY <1>1, <1>2 DEF Spent
<1>4. <<t, retry[t]>> \in Spent'
  BY <1>1, <1>2 DEF Spent
<1> QED
  BY <1>3, <1>4

(* So the count never falls, and rises when something is spent.            *)
LEMMA SpentCount ==
  ASSUME IsFiniteSet(Task), TypeOK, TypeOK', Grows
  PROVE  /\ Cardinality(Spent) \in Nat /\ Cardinality(Spent)' \in Nat
         /\ Cardinality(Spent) <= Cardinality(Spent)'
         /\ Spends => Cardinality(Spent) < Cardinality(Spent)'
<1>1. IsFiniteSet(Spent) /\ Cardinality(Spent) \in Nat
  BY SpentCounts
<1>2. IsFiniteSet(Spent') /\ Cardinality(Spent') \in Nat
  <2>1. Spent' \in SUBSET (Task \X (0 .. MaxRetries))
    BY DEF Spent
  <2>2. IsFiniteSet(0 .. MaxRetries)
    BY FS_Interval, BoundAssumption
  <2>3. IsFiniteSet(Task \X (0 .. MaxRetries))
    BY <2>2, FS_Product, Zenon
  <2> QED
    BY <2>1, <2>3, FS_Subset, FS_CardinalityType
<1>3. /\ Cardinality(Spent) <= Cardinality(Spent')
      /\ Cardinality(Spent) = Cardinality(Spent') => Spent = Spent'
  BY <1>2, SpentGrows, FS_Subset
<1>4. Spends => Spent # Spent'
  BY SpentMore
<1> QED
  BY <1>1, <1>2, <1>3, <1>4

-----------------------------------------------------------------------------
(* What the steps do.                                                      *)

(* _finish stops a task, or counts a retry of it.                          *)
LEMMA FinishSpends ==
  ASSUME TypeOK, NEW t \in Task, NEW o, Finish(t, o)
  PROVE  \E s \in Stopped \cup {"READY"} :
           /\ Save(t, s)
           /\ \A u \in Task : retry[u] <= retry'[u]
           /\ s \in Stopped \/ retry[t] < retry'[t]
<1> USE DEF TypeOK, Stopped, Halted
<1>1. CASE Withdrawn(t) \/ o = "cancelled"
  BY <1>1 DEF Finish
<1>2. CASE ~(Withdrawn(t) \/ o = "cancelled") /\ o = "error"
  BY <1>2 DEF Finish, FailOrRequeue
<1>3. CASE ~(Withdrawn(t) \/ o = "cancelled") /\ o # "error"
  BY <1>3 DEF Finish, Verdict
<1> QED
  BY <1>1, <1>2, <1>3

Keeps == QuietInv' /\ WaitInv' /\ EndInv' /\ Grows

LEMMA SubmitOver ==
  ASSUME Alone, SeqInv, OverInv, SubmitStep PROVE Keeps
<1> USE DEF SeqInv, TypeInv, TypeOK, PhaseInv, QueueInv, InFlight, OverInv, QuietInv,
            WaitInv, EndInv, Keeps, Grows, AtRest, Resting, durable, history
<1>1. ASSUME NEW t \in Task, SubmitTask(t) PROVE Keeps
  BY <1>1 DEF SubmitTask, Save, Stopped, Halted
<1>2. CASE SubmitEnd
  BY <1>2 DEF SubmitEnd
<1> QED
  BY <1>1, <1>2 DEF SubmitStep

LEMMA LoopOver ==
  ASSUME Alone, SeqInv, OverInv,
         \/ SweepBegin \/ SweepEnd \/ AllCancelledOrOver
         \/ EmptyBatch \/ TakeBatch \/ StartRun
         \/ \E t \in Task : SweepOne(t)
  PROVE  Keeps
<1> USE DEF SeqInv, TypeInv, TypeOK, PhaseInv, RowInv, QueueInv, InFlight, OverInv, QuietInv,
            WaitInv, EndInv, Keeps, Grows, AtRest, Resting, durable, history
<1>2. CASE SweepBegin
  BY <1>2 DEF SweepBegin
<1>3. CASE SweepEnd
  BY <1>3 DEF SweepEnd, Terminal
<1>4. CASE AllCancelledOrOver
  BY <1>4 DEF AllCancelledOrOver, AllOver, Terminal
<1>5. CASE EmptyBatch
  BY <1>5 DEF EmptyBatch, Ready
<1>6. CASE TakeBatch
  BY <1>6 DEF TakeBatch, Ready
<1>7. CASE StartRun
  BY <1>7 DEF StartRun
<1>8. ASSUME NEW t \in Task, SweepOne(t) PROVE Keeps
  BY <1>8 DEF SweepOne, Save, Stopped, Halted, Terminal
<1> QED
  BY <1>2, <1>3, <1>4, <1>5, <1>6, <1>7, <1>8

LEMMA ParallelOver ==
  ASSUME Alone, SeqInv, OverInv,
         \/ DropBegin \/ DropEnd \/ MarkBegin \/ MarkEnd \/ Join \/ CollectEnd
         \/ \E t \in Task : DropOne(t) \/ MarkOne(t) \/ Call(t) \/ Collect(t)
                              \/ CollectRaises(t)
         \/ \E t \in Task, o \in Outcomes : Return(t, o)
  PROVE  Keeps
<1> USE DEF SeqInv, TypeInv, TypeOK, PhaseInv, RowInv, QueueInv, InFlight, OverInv, QuietInv,
            WaitInv, EndInv, Keeps, Grows, AtRest, Resting, Reads, durable, history
<1>1. CASE DropBegin
  BY <1>1 DEF DropBegin
<1>2. CASE DropEnd
  BY <1>2 DEF DropEnd
<1>3. CASE MarkBegin
  BY <1>3 DEF MarkBegin
<1>4. CASE MarkEnd
  BY <1>4 DEF MarkEnd
<1>5. CASE Join
  BY <1>5 DEF Join
<1>6. CASE CollectEnd
  BY <1>6 DEF CollectEnd
<1>7. ASSUME NEW t \in Task, DropOne(t) PROVE Keeps
  BY <1>7 DEF DropOne, Save, Stopped, Halted
<1>8. ASSUME NEW t \in Task, MarkOne(t) PROVE Keeps
  BY <1>8 DEF MarkOne, Save, Stopped, Halted
<1>9. ASSUME NEW t \in Task, Call(t) PROVE Keeps
  BY <1>9 DEF Call
<1>10. ASSUME NEW t \in Task, Collect(t) PROVE Keeps
  <2>1. PICK s \in Stopped \cup {"READY"} :
          /\ Save(t, s)
          /\ \A u \in Task : retry[u] <= retry'[u]
          /\ s \in Stopped \/ retry[t] < retry'[t]
    BY <1>10, FinishSpends DEF Collect
  <2> QED
    BY <1>10, <2>1 DEF Collect, Save, Stopped, Halted
<1>11. ASSUME NEW t \in Task, CollectRaises(t) PROVE Keeps
  BY <1>11 DEF CollectRaises, AssertOut
<1>12. ASSUME NEW t \in Task, NEW o \in Outcomes, Return(t, o) PROVE Keeps
  BY <1>12, OutcomeAssumption DEF Return, Outcome, Alone
<1> QED
  BY <1>1, <1>2, <1>3, <1>4, <1>5, <1>6, <1>7, <1>8, <1>9, <1>10, <1>11, <1>12

LEMMA SerialOver ==
  ASSUME Alone, SeqInv, OverInv,
         \/ UnblockBegin \/ UnblockEnd
         \/ \E t \in Task : SkipOne(t) \/ StartOne(t) \/ UnblockOne(t)
         \/ \E t \in Task, o \in Outcomes : FinishOne(t, o) \/ FinishOneRaises(t, o)
  PROVE  Keeps
<1> USE DEF SeqInv, TypeInv, TypeOK, PhaseInv, RowInv, QueueInv, InFlight, OverInv, QuietInv,
            WaitInv, EndInv, Keeps, Grows, AtRest, Resting, durable, history
<1>1. CASE UnblockBegin
  BY <1>1 DEF UnblockBegin
<1>2. CASE UnblockEnd
  BY <1>2 DEF UnblockEnd
<1>3. ASSUME NEW t \in Task, SkipOne(t) PROVE Keeps
  BY <1>3 DEF SkipOne, Serial, Save, Stopped, Halted
<1>4. ASSUME NEW t \in Task, StartOne(t) PROVE Keeps
  BY <1>4 DEF StartOne, Serial, Save, Stopped, Halted
<1>5. ASSUME NEW t \in Task, UnblockOne(t) PROVE Keeps
  BY <1>5 DEF UnblockOne, Save, Unblocked, AllDepsDone, Stopped, Halted
<1>6. ASSUME NEW t \in Task, NEW o \in Outcomes, FinishOne(t, o) PROVE Keeps
  <2>1. PICK s \in Stopped \cup {"READY"} :
          /\ Save(t, s)
          /\ \A u \in Task : retry[u] <= retry'[u]
          /\ s \in Stopped \/ retry[t] < retry'[t]
    BY <1>6, FinishSpends DEF FinishOne
  <2> QED
    BY <1>6, <2>1 DEF FinishOne, Save, Stopped, Halted
<1>7. ASSUME NEW t \in Task, NEW o \in Outcomes, FinishOneRaises(t, o) PROVE Keeps
  BY <1>7 DEF FinishOneRaises, AssertOut, Alone
<1> QED
  BY <1>1, <1>2, <1>3, <1>4, <1>5, <1>6, <1>7

LEMMA OutsideOver ==
  ASSUME Alone, SeqInv, OverInv, ApiStep \/ CrashStep
  PROVE  Keeps
<1> USE DEF SeqInv, TypeInv, TypeOK, PhaseInv, RowInv, QueueInv, InFlight, OverInv, QuietInv,
            WaitInv, EndInv, Keeps, Grows, AtRest, Resting, durable, history, memory
<1>1. CASE SetToken
  BY <1>1 DEF SetToken
<1>2. ASSUME NEW t \in Task, KernelCancel(t) \/ KernelApprove(t) PROVE Keeps
  BY <1>2 DEF KernelCancel, KernelApprove, ApiMayCall, Alone
<1>3. CASE Crash
  BY <1>3 DEF Crash, Alone
<1>4. CASE Restart
  BY <1>4 DEF Restart
<1>5. CASE RecoverBegin
  BY <1>5 DEF RecoverBegin
<1>6. CASE RecoverEnd
  BY <1>6 DEF RecoverEnd
<1>7. ASSUME NEW t \in Task, RecoverOne(t) PROVE Keeps
  BY <1>7 DEF RecoverOne, Save, Stopped, Halted
<1> QED
  BY <1>1, <1>2, <1>3, <1>4, <1>5, <1>6, <1>7 DEF ApiStep, CrashStep

-----------------------------------------------------------------------------
(* range(limit).                                                           *)

Roomy == IsFiniteSet(Task) /\ Limit > Cardinality(Task) * (MaxRetries + 1) + 1

(* What a run may spend is less than its limit.                            *)
LEMMA LimitIsFar ==
  ASSUME Roomy, SeqInv, OverInv PROVE ~LimitReached
<1>1. /\ Cardinality(Spent) \in Nat /\ Cardinality(Task) \in Nat
      /\ Cardinality(Spent) <= Cardinality(Task) * (MaxRetries + 1)
  BY SpentCounts DEF Roomy
<1>2. pc = "loop" => iter <= Cardinality(Spent) + idle /\ idle <= 1 /\ idle \in Nat /\ iter \in Nat
  BY BoundAssumption DEF OverInv, FuelInv, SeqInv, TypeInv, TypeOK, LoopBounds
<1>3. Cardinality(Task) * (MaxRetries + 1) \in Nat
  BY <1>1, BoundAssumption
<1> DEFINE n == Cardinality(Task) * (MaxRetries + 1)
<1> HIDE DEF n
<1>4. n \in Nat /\ Cardinality(Spent) <= n /\ Limit > n + 1
  BY <1>1, <1>3 DEF n, Roomy
<1>5. pc = "loop" => iter < Limit
  BY <1>1, <1>2, <1>4, BoundAssumption
<1> QED
  BY <1>5, BoundAssumption DEF LimitReached

(* What a step has to do to keep the account: count, or spend.             *)
Counts ==
  /\ Cardinality(Spent) \in Nat /\ Cardinality(Spent)' \in Nat
  /\ Cardinality(Spent) <= Cardinality(Spent)'
  /\ Spends => Cardinality(Spent) < Cardinality(Spent)'

LEMMA LoopFuel ==
  ASSUME Alone, SeqInv, OverInv, Counts,
         \/ SubmitStep \/ ApiStep \/ RecoverBegin \/ RecoverEnd \/ StartRun
         \/ SweepBegin \/ SweepEnd \/ AllCancelledOrOver \/ EmptyBatch \/ TakeBatch
         \/ \E t \in Task : SweepOne(t) \/ RecoverOne(t)
  PROVE  FuelInv'
<1> USE DEF SeqInv, TypeInv, TypeOK, LoopBounds, OverInv, FuelInv, InBatch, Counts,
            InFlight, Pending, Resting, durable, history, memory
<1>1. CASE SubmitStep
  BY <1>1 DEF SubmitStep, SubmitTask, SubmitEnd
<1>2. CASE SetToken
  BY <1>2 DEF SetToken, Ready
<1>3. ASSUME NEW t \in Task, KernelCancel(t) \/ KernelApprove(t) PROVE FuelInv'
  BY <1>3 DEF KernelCancel, KernelApprove, ApiMayCall, Alone
<1>4. CASE StartRun
  BY <1>4 DEF StartRun
<1>5. CASE SweepBegin \/ SweepEnd \/ AllCancelledOrOver
  BY <1>5 DEF SweepBegin, SweepEnd, AllCancelledOrOver
<1>6. CASE EmptyBatch
  BY <1>6 DEF EmptyBatch, Ready
<1>7. CASE TakeBatch
  BY <1>7 DEF TakeBatch
<1>8. CASE RecoverBegin \/ RecoverEnd
  BY <1>8 DEF RecoverBegin, RecoverEnd
<1>9. ASSUME NEW t \in Task, SweepOne(t) \/ RecoverOne(t) PROVE FuelInv'
  BY <1>9 DEF SweepOne, RecoverOne
<1> QED
  BY <1>1, <1>2, <1>3, <1>4, <1>5, <1>6, <1>7, <1>8, <1>9 DEF ApiStep

LEMMA ParallelFuel ==
  ASSUME Alone, SeqInv, OverInv, Counts,
         \/ DropBegin \/ DropEnd \/ MarkBegin \/ MarkEnd \/ Join \/ CollectEnd
         \/ \E t \in Task : DropOne(t) \/ MarkOne(t) \/ Call(t) \/ Collect(t)
         \/ \E t \in Task, o \in Outcomes : Return(t, o)
  PROVE  FuelInv'
<1> USE DEF SeqInv, TypeInv, TypeOK, LoopBounds, PhaseInv, QueueInv, OverInv, QuietInv, FuelInv,
            InBatch, Counts, InFlight, Pending, Reads, durable, history
<1>1. CASE DropBegin
  BY <1>1 DEF DropBegin, Parallel
<1>2. CASE DropEnd
  BY <1>2 DEF DropEnd
<1>3. CASE MarkBegin
  BY <1>3 DEF MarkBegin, Parallel
<1>4. CASE MarkEnd
  BY <1>4 DEF MarkEnd
<1>5. CASE Join
  BY <1>5 DEF Join
<1>6. CASE CollectEnd
  BY <1>6 DEF CollectEnd
<1>7. ASSUME NEW t \in Task, DropOne(t) PROVE FuelInv'
  <2>1. Spends
    BY <1>7 DEF DropOne, Save, Spends, Stopped, Halted
  <2> QED
    BY <1>7, <2>1 DEF DropOne
<1>8. ASSUME NEW t \in Task, MarkOne(t) PROVE FuelInv'
  BY <1>8 DEF MarkOne
<1>9. ASSUME NEW t \in Task, Call(t) PROVE FuelInv'
  BY <1>9 DEF Call
<1>10. ASSUME NEW t \in Task, Collect(t) PROVE FuelInv'
  <2>1. PICK s \in Stopped \cup {"READY"} :
          /\ Save(t, s)
          /\ \A u \in Task : retry[u] <= retry'[u]
          /\ s \in Stopped \/ retry[t] < retry'[t]
    BY <1>10, FinishSpends DEF Collect
  <2>2. row[t] = "RUNNING"
    BY <1>10 DEF Collect
  <2>3. Spends
    BY <2>1, <2>2 DEF Save, Spends, Stopped, Halted
  <2> QED
    BY <1>10, <2>3 DEF Collect
<1>11. ASSUME NEW t \in Task, NEW o \in Outcomes, Return(t, o) PROVE FuelInv'
  BY <1>11, OutcomeAssumption DEF Return, Outcome
<1> QED
  BY <1>1, <1>2, <1>3, <1>4, <1>5, <1>6, <1>7, <1>8, <1>9, <1>10, <1>11

LEMMA SerialFuel ==
  ASSUME Alone, SeqInv, OverInv, Counts,
         \/ UnblockBegin \/ UnblockEnd
         \/ \E t \in Task : SkipOne(t) \/ StartOne(t) \/ UnblockOne(t)
         \/ \E t \in Task, o \in Outcomes : FinishOne(t, o)
  PROVE  FuelInv'
<1> USE DEF SeqInv, TypeInv, TypeOK, LoopBounds, PhaseInv, QueueInv, OverInv, QuietInv, FuelInv,
            InBatch, Counts, InFlight, Pending, durable, history
<1>1. CASE UnblockBegin
  BY <1>1 DEF UnblockBegin
<1>2. CASE UnblockEnd
  BY <1>2 DEF UnblockEnd
<1>3. ASSUME NEW t \in Task, SkipOne(t) PROVE FuelInv'
  <2>1. Spends
    BY <1>3 DEF SkipOne, Serial, Save, Spends, Stopped, Halted
  <2> QED
    BY <1>3, <2>1 DEF SkipOne, Serial
<1>4. ASSUME NEW t \in Task, StartOne(t) PROVE FuelInv'
  BY <1>4 DEF StartOne, Serial
<1>5. ASSUME NEW t \in Task, UnblockOne(t) PROVE FuelInv'
  BY <1>5 DEF UnblockOne
<1>6. ASSUME NEW t \in Task, NEW o \in Outcomes, FinishOne(t, o) PROVE FuelInv'
  <2>1. PICK s \in Stopped \cup {"READY"} :
          /\ Save(t, s)
          /\ \A u \in Task : retry[u] <= retry'[u]
          /\ s \in Stopped \/ retry[t] < retry'[t]
    BY <1>6, FinishSpends DEF FinishOne
  <2>2. row[t] = "RUNNING"
    BY <1>6 DEF FinishOne
  <2>3. Spends
    BY <2>1, <2>2 DEF Save, Spends, Stopped, Halted
  <2> QED
    BY <1>6, <2>3 DEF FinishOne
<1> QED
  BY <1>1, <1>2, <1>3, <1>4, <1>5, <1>6

-----------------------------------------------------------------------------
(* The theorem.                                                            *)

AcyclicIntents == \A i \in Intents : Acyclic(i.deps)

LEMMA InitOver == ASSUME AcyclicIntents, Init PROVE OverInv
<1>1. QuietInv /\ WaitInv /\ EndInv
  BY DEF Init, QuietInv, WaitInv, EndInv, InFlight, NoOut, Resting
<1>2. FuelInv
  BY DEF Init, FuelInv, InBatch
<1>3. Acyclic(deps)
  BY DEF Init, AcyclicIntents
<1> QED
  BY <1>1, <1>2, <1>3 DEF OverInv

LEMMA NextOver ==
  ASSUME Alone, Roomy, SeqInv, SeqInv', OverInv, [Next]_vars PROVE OverInv'
<1>1. CASE UNCHANGED vars
  BY <1>1 DEF vars, durable, memory, history, OverInv, QuietInv, WaitInv, FuelInv, EndInv,
              InFlight, Pending, Ready, Spent, Acyclic
<1>2. CASE Next
  <2>1. ~LimitReached
    BY LimitIsFar
  <2>2. \A t \in Task : ~CollectRaises(t)
    BY DEF CollectRaises, AssertOut, OverInv, QuietInv
  <2>3. \A t \in Task, o \in Outcomes : ~FinishOneRaises(t, o)
    BY DEF FinishOneRaises, AssertOut, Alone
  <2>4. ~Crash /\ ~Restart
    BY BoundAssumption DEF Crash, Restart, Alone, OverInv, QuietInv, SeqInv, TypeInv, TypeOK
  <2>5. Keeps
    BY <1>2, <2>1, SubmitOver, LoopOver, ParallelOver, SerialOver, OutsideOver
    DEF Next, RunStep, HandlerStep
  <2>6. Counts
    BY <2>5, SpentCount DEF Counts, Keeps, Roomy, SeqInv, TypeInv
  <2>7. FuelInv'
    BY <1>2, <2>1, <2>2, <2>3, <2>4, <2>6, LoopFuel, ParallelFuel, SerialFuel
    DEF Next, RunStep, HandlerStep, CrashStep
  <2>8. UNCHANGED deps
    BY <1>2, StepRows DEF RowStep, Alone
  <2> QED
    BY <2>5, <2>7, <2>8 DEF Keeps, OverInv, Acyclic
<1> QED
  BY <1>1, <1>2

\* Among tasks that wait for one another there would be a knot.
LEMMA WaitersAreHeldUp ==
  ASSUME SeqInv, OverInv, pc = "returned", NEW t \in Task, row[t] = "BLOCKED"
  PROVE  HeldUp(t)
<1> SUFFICES ASSUME NEW S \in SUBSET Task, t \in S,
                    \A s \in S : \A d \in deps[s] : row[d] = "BLOCKED" => d \in S,
                    \A s \in S : \A d \in deps[s] : row[d] \notin Halted
             PROVE  FALSE
  BY DEF HeldUp
<1> DEFINE B == {s \in S : row[s] = "BLOCKED"}
<1>1. PICK s \in B : deps[s] \cap B = {}
  BY DEF OverInv, Acyclic
<1>2. PICK d \in deps[s] : row[d] # "COMPLETED"
  BY <1>1 DEF OverInv, WaitInv, AtRest
<1>3. d \in Task /\ row[d] \in Durable \cup {"ABSENT"}
  BY <1>1, <1>2 DEF SeqInv, TypeInv, TypeOK
<1>4. row[d] \notin {"READY", "RUNNING", "ABSENT"}
  BY <1>3 DEF OverInv, EndInv, QuietInv
<1>5. row[d] = "BLOCKED"
  BY <1>1, <1>2, <1>3, <1>4 DEF Durable, Terminal, Halted
<1> QED
  BY <1>1, <1>2, <1>5

(* When run_to_idle returns nothing is READY or RUNNING, what is BLOCKED   *)
(* waits for a task that failed, was cancelled or awaits approval, and     *)
(* range(limit) was not exhausted: whatever the handlers answer, when a    *)
(* graph without a cycle has room in the limit for every task's retries    *)
(* (run_to_idle, unblock, requeue). Nobody calls cancel or approve, no     *)
(* process dies, and no handler raises without a message (AssertOut).      *)
THEOREM RunsEnd ==
  ASSUME ~ApiThread, ApiCalls = {}, MaxCrash = 0, "blank" \notin Outcomes,
         IsFiniteSet(Task), Limit > Cardinality(Task) * (MaxRetries + 1) + 1,
         \A i \in Intents : Acyclic(i.deps)
  PROVE  Spec => []RunIsOver
<1>1. Alone /\ Roomy /\ AcyclicIntents
  BY DEF Alone, Roomy, AcyclicIntents
<1>2. Init => OverInv
  BY <1>1, InitOver
<1>3. Spec => []SeqInv
  BY InitSeq, NextSeq, PTL DEF Spec
<1>4. SeqInv /\ SeqInv' /\ OverInv /\ [Next]_vars => OverInv'
  BY <1>1, NextOver
<1>5. SeqInv /\ OverInv => RunIsOver
  BY WaitersAreHeldUp DEF RunIsOver, OverInv, EndInv
<1> QED
  BY <1>2, <1>3, <1>4, <1>5, PTL DEF Spec
=============================================================================
