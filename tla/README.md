# Verification of the owl cognitive kernel

TLA+ modules for the core of the repository, TLC configurations that check them
on small instances, and TLAPS proofs of what matters most for every instance.
Paths below are relative to the repository's package, `src/owl_kernel/`
(`src/src/owl_kernel/` in `PROJECT.json`).

- [1. The system](#1-the-system)
- [2. Modules](#2-modules)
- [3. Runs](#3-runs)
- [4. Fairness](#4-fairness)
- [5. Where the code differs from what it says](#5-where-the-code-differs-from-what-it-says)
- [6. Proofs](#6-proofs)
- [7. What is not modelled](#7-what-is-not-modelled)
- [8. Plan](#8-plan)

## 1. The system

A request in plain language is compiled into an *intent*, a small graph of
actions. The *runtime* copies the user's repository into an isolated workspace,
hands the intent to the *task engine*, which runs the actions as tasks in
dependency order, lets an *agent loop* ask a model for tool calls where a task
needs judgement, runs the tests in a *sandbox*, audits the difference, and
offers the result for approval. A human approves; `prepare_promotion` checks
everything once more. Nothing is ever written back to the user's repository.
An HTTP *service* starts one worker thread per task, answers requests about it
in threads of their own, and streams its events.

### Inventory

| component | state | operations | what makes it correct |
|---|---|---|---|
| task engine, `kernel/engine.py` | one SQLite row per task (state, retries); in memory `_cancelled`, the token, the objects of the batch | `submit_intent`, `run_to_idle`, `run_ready`, `_run_parallel`, `_run_one`, `_finish`, `requeue`, `unblock`, `cancel`, `approve`, `recover` | dependency order; bounded retries; a destructive task is never repeated by itself; rows move along `LEGAL`; what is cancelled stays so; nothing is forgotten; all of it across crashes |
| state table, `kernel/states.py`, `task.py` | `LEGAL` | `transit` | only listed transitions |
| runtime, `runtime.py` | `state`, the token, the candidate, the context shared by handlers | `execute`, `request_cancel`, `approve`, `reject`, `prepare_promotion`, `_set_state`, `_agent`, `emit` | cancel wins over every later success; only approved and verified work of the tree that was hashed becomes ready; what is offered is there; nothing hangs |
| candidate, `candidate.py` | workspace directory, origin hash, `state`, `discarded`, `approved_by` | `snapshot`, `origin_matches_baseline`, `accept_isolated`, `discard` | the copy is the tree that was hashed; a removed workspace stays removed; removals that fail half-way are known |
| cancel token, `cancel.py` | one flag | `cancel`, `check` | only ever set |
| service, `service.py` | the task registry, one worker thread per task, request threads | `_start`, the POST actions, `_sse` | every request is answered; a stream shows every event once and in order, and ends |
| sandbox, `sandbox/exec.py` | a child process and its pipe | `run_pytest`, `run_python` | ends by its timeout; stops on cancel; no verdict on half a run; no child left |
| agent loop, `agents/loop.py`, `roles.py` | iterations, records, the role contract | `run` | no permission beyond the role's; a bounded number of model calls; at most one late step after a cancel |
| tools, `tools/` | none | `build_tools`, the tools | the permissions each declares |
| intent compiler, `ir/` | none | `compile_intent`, `validate` | accepts exactly the graphs that can be run |
| code graph, `codegraph/index.py` | hashes, symbols, imports, tests per file | `index_repo`, `incremental` | an update leaves what a new index would find |
| patch engine, `patch/engine.py` | files of the workspace | `make_replace`, `apply_patch` | nothing outside the root; what is overwritten reads as what was hashed; a retry does nothing |
| model router, `models/router.py`, `openai_compat.py` | `_loaded`, the providers' `info.available` | `choose`, `health`, `available` | one giant model at most over all calls; nobody ranked before the stub is overlooked; the stub is the last resort (section 5) |
| mock coder, `models/mock_coder.py` | listing, files, tests, step and four flags, kept over turns | `complete`, `_ingest` | what it repairs stays repaired; it says finish only of tested work; what it leaves unrepaired has a known cause |
| synth, `models/synth.py` | none | `repair_source` with its candidates | a function that the tests determine is found and left alone; only asserts it misreads can be made to fail |
| memory, recorder, bus, metrics, context, auditor, repository targeting, git safety, plugins, protocol, CLI | small or none | see section 7 | |

### How the components interact

- `service._start` puts the task in the registry, writes `RUNNING` without the
  lock and starts the worker thread; the worker runs `Runtime.execute`.
- `execute` calls `Kernel.submit_intent` and `Kernel.run_to_idle` on the worker
  thread. Handlers are methods of the runtime: they run on the worker thread, or
  in the kernel's pool when a batch holds more than one read.
- Handlers talk to each other through `ctx` (`tests_ok`, `verify_ok`,
  `heal_used`), open the agent loop (`_agent`), run the sandbox, update the code
  graph and emit events.
- Request threads call `request_cancel`, `approve`, `reject` and
  `prepare_promotion` on the same `Runtime` object at any time. Only
  `_set_state` and the second half of `request_cancel` hold `_state_lock`; the
  candidate, its directory and `ctx` are unprotected.
- `emit` appends to a list under `_cv`; each event stream is a thread that waits
  on `_cv` and reads `state`, which is not written under `_cv`.
- The cancel token is the one flag everybody reads: kernel, agent loop, sandbox,
  `_set_state`, `prepare_promotion`.

### The hard behaviours

`PROJECT.json` lists every hazard at its line, with the properties that would
catch it. In short: a crash between any two saves of the engine; a batch that
works on objects read before a cancel; results of a pool that are saved after
the join; retries that must be counted and must end; requests that race the
worker and each other for a state, a directory and a lock; checks (origin hash,
approval, token) separated from the act they justify by seconds of tests, while the
origin may change and change back; removals that raise half-way; a
model's answer that arrives after a cancel; event streams that copy under a lock
and write without it; an index update that an exception cuts short.

## 2. Modules

| module | models | extends / instantiates |
|---|---|---|
| `TaskStates` | the states and `LEGAL` | |
| `TaskGraph` | what the engine promises, abstractly | |
| `Kernel` | the task engine | `TaskStates`; `TaskGraph` under a mapping |
| `Runtime` | one task's life: runtime, candidate, service thread, requests | |
| `TaskLife` | what the service promises of that life, abstractly | |
| `RuntimeLife` | the mapping from `Runtime` to `TaskLife` | `Runtime`; `TaskLife` |
| `IntentPlan` | the four shapes `_plan` makes | |
| `IntentCheck` | `validate` with the depth-first search of `_has_cycle` | |
| `Pipeline` | `_handle` and its `ctx` over a plan | `IntentPlan`; `TaskGraph` as its engine |
| `IntentRun` | compiling, validating and running an intent | `IntentCheck`, `Pipeline` |
| `AgentLoop` | agent loop, roles, permissions of tools, `_agent` | |
| `EventStream` | `emit`, `_sse` | |
| `CodeGraph` | `index_repo`, `incremental` | |
| `PytestRun` | `run_pytest` with its child, pipe, polls and token | |
| `PatchEngine` | `make_replace`, `apply_patch` among other writers | |
| `Router` | `choose` and the health of the providers | |
| `Coder` | the mock coder in the agent loop, turn after turn | |
| `Synth` | the search of `synth.py` and its repetition | |
| `Parts` | the parts that share no state, one at a time | `PytestRun`; instantiates `AgentLoop`, `CodeGraph`, `PatchEngine`, `Router`, `Coder`, `Synth` |
| `KernelProofs`, `RuntimeProofs`, `IntentRunProofs`, `AgentLoopProofs`, `EventStreamProofs`, `CodeGraphProofs`, `CoderProofs`, `PartsProofs` | theorems (section 6) | the module of that name (`RuntimeProofs`: `RuntimeLife`) |
| `MCKernel`, `MCRuntime`, `MCIntentRun`, `MCEventStream`, `MCParts` | instances for TLC | the module of that name |

How they compose: `Runtime` relies on what `Kernel` promises only through
the handful of steps it reduces the engine to; `Pipeline` runs the real plan
over `TaskGraph`, the specification `Kernel` is proved to implement, so what it
shows holds over the engine; `IntentRun` puts the compiler's check in front of
it. `Synth` yields the kinds of files `Coder` tells apart. The seven parts of
`Parts` run one at a time, in or as an agent's turn, and have no variable in
common. A behaviour of `Parts` is a behaviour of one of them (`part` says
which, the variables of the others are off): each is checked in all its
behaviours, and their product would say nothing more.

An operator whose comment begins with "mutant:" is a plausible wrong version of
the definition that follows it. No specification uses it; it is there so that
each property can be shown to notice that mistake.

### Kernel

One intent, one owning thread. The durable state is `row` and `retry`, one step
per `_save`, so a crash can fall between any two saves. `pc` says in which loop
the owning thread is; `queue` holds the rows that loop has still to visit, in
any order (SQLite and the intent fix one order; nothing depends on it). `todo` is
the batch `run_ready` took, `active` and `out` the handlers of the pool and what
they returned, `scan` the sets `unblock` reads before its loop.

| code | actions |
|---|---|
| `submit_intent` | `SubmitTask`, `SubmitEnd` |
| `run_to_idle` | `StartRun`, `LimitReached`, `SweepBegin/One/End` (token), `AllCancelledOrOver`, `EmptyBatch`, `TakeBatch` |
| `_run_parallel` | `DropBegin/One/End`, `MarkBegin/One/End`, `Call`, `Return`, `Join`, `Collect`, `CollectEnd` |
| `_run_one` | `SkipOne`, `StartOne`, `FinishOne` (`Marks`: only a raised Cancelled adds to `_cancelled`) |
| the assertion in `_finish` | `CollectRaises`, `FinishOneRaises` |
| `unblock` | `UnblockBegin/One/End` |
| `cancel`, `approve` | `KernelCancel`, `KernelApprove` |
| process death, `recover` | `Crash`, `Restart`, `RecoverBegin/One/End` |

A handler is an element of `Outcome`: what `_finish` can tell apart. Transits
that are not saved between (`FAILED`, `RETRYING`, `READY`) are one step, since
nobody but the object sees them. A call of `Kernel.cancel` or `approve` comes
between runs or from a handler, as in the repository; with `ApiThread = TRUE`
it comes from any thread (the objects of a batch then overwrite a cancelled
row: `RowsFollowLegal` fails, which is why most proofs assume `~ApiThread`). The cascade
of `cancel` is one step: within the owning thread nothing comes between, and a
crash inside it is the one place where that is coarser than the code.

`TaskGraph` has four states per task. `Kernel!Graph` maps rows to it: absent,
READY, BLOCKED and WAITING_FOR_APPROVAL are "waiting", FAILED and CANCELLED are
"dead".

### Runtime

Threads: the worker (`wpc`) and the requests (`cpc`). Every step contains at
most one read or write of shared state that another thread can observe. The
locked section of `request_cancel` is several steps with the lock held (`Held`).

`Candidate.discard` is `exists()` and then `rmtree`, wherever it is called.
`rmtree` goes file by file beside threads that write or remove in the same
directory: it may remove some of the files (`RemovePart`, `RemoveSome`), come to
its end, or raise at any moment (`RemoveRaises`; in the worker, `WorkerFails`).
`ws` tells a whole copy of the origin from one that is half there, and from a
directory that a `Sandbox` or the end of a test run made anew.

The kernel's work between `SetRunning` and `AfterRun` is reduced to what the
rest depends on: tests run and set `tests_ok`, `verify` sets `verify_ok` and the
states, the report completes, or the kernel stops, in any order and as often as
it likes. An exception may leave it between any two tasks (`WorkRaises`: the
`Escape` of `Kernel` is such a one), and so may one of the last answer, which
hashes the origin while the user edits it and reads the workspace while others
write there (`AnswerRaises`). The thread then writes FAILED without the lock,
whatever the state is by then, and is "dead".

The origin holds one of the elements of `Content`, and the user may put back what
was there: the code compares hashes only. `base` is what was hashed, `copied`
what was copied. `EarlyCalls` lets requests come between the entry in the
registry and the unlocked write of `RUNNING`. `stalled` says that a client of the
event stream does not read: nearly every step emits, so while it lasts none is owed.

`http_result` and `_result` put an answer together from several reads without a
lock. A read changes nothing, so readers are not actions: what a torn answer may
say is decided by which changes may fall between two reads, and
`SuccessOnlyWithdrawn` states that: after a success was seen, a later read says
otherwise only if somebody withdrew the task, its promotion was found stale, or
the worker's own answer raised.

### TaskLife, RuntimeLife

`TaskLife` has a phase (working, cancelling, offered, ready, closed, failed),
the verdicts of the audit and the human, and what has been answered to cancels
and rejects. Two of its steps are there because the code has them: `Approve`
may come after the task was withdrawn (the mark is set after the state was
looked at), and `MakeReady` may start from "failed" (the worker's thread wrote
FAILED over a task whose promotion was under way). Nothing in it lets
a task be offered unverified, made ready unapproved or after a cancel was
answered, or offered again after a reject.

### Pipeline, IntentRun

`Pipeline` has one action for each way a handler can go: skip because the work
is already verified, refuse because the heals are spent, open an agent, run
tests, verify, conclude, raise. `tree` numbers the contents of the workspace, so
that "the tree that was tested" can be told from the tree that is offered;
`Write` changes it whenever an agent or the tests are at work. The engine is
`TaskGraph` with any number of retries, which is more than the code's, but
destructive kinds are not retried. `Decide` is the end of `execute`.

### AgentLoop

`_agent` up to the loop (`Enter`), the loop (`Top` to `ToolEnds`), and the rest
of `_agent` (`After`, `TestsBegin/End/Raise`). The model is not trusted: any
known tool, with or without its required arguments, `finish`, an unknown tool,
or no JSON. `next(iter(tool.permissions))` of a Python set may be any element,
so `Refuse` and `Admit` take any. `InPytest` says that the agent waits in `run_pytest`,
that of the tool or its own: it need not come back from there (`PytestReturns` is not fair).

### EventStream

`Emit` under `_cv`; a stream copies under `_cv` (`Look`, `Wake`), writes without
it (`Write`), and writes keepalives and the end under it. The task's state may
change from anything to anything: that is more than `Runtime` allows and keeps the module
independent of it. A client may connect late, close at any time, or stop
reading without closing (`Stall`): its stream then blocks in its next write,
with `_cv` in its hand if that was a keepalive or the end.

### CodeGraph

`incremental` is `Scan` (hash everything, forget what changed or went), one
`Parse` per changed file, and `Drop`. A file on which the parser raises anything
but a SyntaxError, or one removed meanwhile by a `discard`, ends it half way (`Raise`).
`IndexedSymbols` and its siblings are the reference: what `index_repo` would
find. Files that are not Python are left out: `index_repo` hashes them and
`incremental` never looks at them again.

### PytestRun

The child prints into a pipe of limited capacity and blocks when it is full; it
may hang, ignore SIGTERM, or leave a process behind that keeps the pipe open.
The parent polls (`Poll`, `WaitExpires`, `WaitReturns`), terminates on the token,
kills after the grace or the timeout, reads only when the child has ended, and
makes sure in `Finally`. `hook` tells the runtime's calls, which pass the token, from
those of the tool `run_tests`, which pass none.

### PatchEngine

One patch, made (`Make`, `Hash`), kept, and applied any number of times
(`Apply`, `Look`, `Compare`, `Write`), one step per look at the file system.
Between any two of them others change, remove or create the file, also back to
what it held before, or a discard removes the workspace. A text is a body and
the kind of its line ends: reading a file translates these, so the hash (`sha`)
is of the body alone, and a patch may bring any text, also one the file had.
`mine` tells whether anybody touched the file since the patch was written.

### Router

`choose` goes through its ranking one provider at a time (`NotConfigured`,
`NotHealthy`, `OtherLoaded`, `Load`, `TakeStub`), each health check being a
request of its own while servers come and go. `_loaded` is never taken back.

### Coder, Synth

`Coder` is the provider with its memory, and the loop with its window of
observations: every call reads all shown observations again (`Ingest`), then
asks for the listing or a file, writes the weak candidate, runs tests, or
patches the next file. What a file holds is one of seven kinds, by what the
search would make of it. What may be read and what the coder asks for next are
two things: the suites come first if they can be had within four answers (`SuitesFirst`),
then the implementation, then the other suites. `Synth` is that search for one function of two or three
parameters: the expressions it can put together, in order, from the operators of the text and
every parameter the text does not use, in each of the five ways (`Extended`); evaluated
exactly, as the text is read (what is put behind a text binds to its end: `WorkedIn`); and applied to
its own result again and again as the coder does. An assert is `==`, `!=`, `is` or `is not`
against a constant, one that `extract_oracles` does not see, or one with keyword arguments,
which reaches it without them. `Passes` is what pytest makes of an assert, `Satisfies` what the
search makes of those it has read (`Oracles`), `is` as `==`.

### IntentPlan, IntentCheck

`_plan` depends on two bits of the text. `validate` first checks fields and
dependencies (`Screen`), then runs dfs as a machine with an explicit stack of
calls, one step per call or return, so that the order of the two tests at the
head of `dfs` and the removal from the stack are steps that can be wrong. The
order in which roots and dependencies are visited is open.

## 3. Runs

Bounds are the CONSTANTS of each cfg. Passing runs:

**kernel_core** (`Kernel`, 591,287 states). Three graphs of three tasks: two
reads side by side with a verification on both, a chain with a destructive
task, and a mixed batch. All seven outcomes, one retry, one crash anywhere, one
approval per task, cancel and approve, and the token at any moment. Three tasks
are enough for every pair of batch mates with a common dependent and for a chain
of two; a second retry or crash repeats the states of the first with other
counters. `Limit = 3` makes `run_to_idle` give up in the middle, which
the callers treat as a normal return.
`DependenciesDone`, `StartBudget`, `RowsFollowLegal`, `CancelledNeverCompletes`,
`ImplementsTaskGraph`.

**kernel_runs** (`Kernel` with fairness, 102,467 states). No crash and no foreign call, but all
outcomes save an exception with an empty text, a token at any moment, two retries, and a
fourth graph of three reads for two workers. The limit is 12 instead of the code's
64, which makes `RunIsOver` the stronger: a chain of three tasks with two retries each
needs no more than that. A run ends because its work is over: nothing is left
runnable, and what stays BLOCKED waits for a task that failed, was cancelled or
awaits approval (`RunIsOver`); it releases what becomes free (`BlockedIsReleased`)
and settles every row after a cancelled token (`TokenSettles`).

**runtime_races** (`Runtime`, 769,148 states with symmetry). Three request
threads: enough for a promotion, a reject and a cancel at once, and for two
removals of the workspace racing a third. Two of them are at work at once in every state, all
three only while what was hashed and copied is what the origin holds (`ThreeIfUnedited`, a
constraint of this run; the theorems of section 6 need no such bound). The origin
has two contents, between which the user edits back and forth at any moment: the
code compares hashes, so what it can tell is whether two contents are the same.
`CancelWins`, `ReadyIsVetted`, `OfferedIsThere`, `CancelDiscards`, `SuccessOnlyWithdrawn`,
`ImplementsTaskLife`. Clients wait for the answer of
`start_task` (`EarlyCalls = FALSE`): a reject in the window before it is
overwritten by `RUNNING` and the refinement fails. Three of the properties name an
exception, and each is needed: without it TLC finds the trace. `ReadyIsVetted`: another
content was copied and an edit restored what was hashed (`undone`). `OfferedIsThere`: a request raised with half of the files
removed (`torn`). `CancelDiscards`: the task was approved or rejected.

**runtime_settles** (`Runtime` with fairness, 273,290 states; requests at any time, two request
threads, clients of the stream that stop reading and go on). A token set during the work ends in a
locked state unless an exception ends the work, and every request is answered unless its tests
never end, also when `rmtree` raises while the lock is held. Nothing is claimed of a
behaviour in which some client stalls again and again (`<>[]~stalled`).

**event_stream** (93,296 states). Two streams, three events (a batch of more than one,
and events emitted while it is written), four states of which two are final;
each client may stop reading or close at any time.

**intent_run** (37,126 states). Every graph of up to three actions, including unknown
names and self-dependencies, and the four plans. Three nodes contain a
self-loop, a two-cycle, a three-cycle, a double path and all mixtures. The
plans are then run with up to three agents, five changes of the workspace and retries
without end: five changes are one for each place from which a stale verdict
could come (two agents, two test runs and the repair).

**parts** (652,065 states):

| part | bounds | properties |
|---|---|---|
| `AgentLoop` | eight roles (one unknown), 13 tools, all answers, a cancel between any two steps; two attempts of two iterations: the least for which both counters pass through first, middle and limit. The counters of the history stop one above what the properties look at | `RolesAreKept`, `BudgetIsKept`, `CancelIsHeeded`, `LoopEnds` |
| `CodeGraph` | a module and its test; two good contents, one with a syntax error, one that raises otherwise. Every sequence of edits, removals, complete and interrupted updates and rebuilds, without a bound on their number | `GraphAgrees` |
| `PytestRun` | all 16 suites, with and without a token; a pipe of two pieces, up to four printed, three polls: output below, at and above the capacity | `VerdictIsOfWholeRun`, `LoudSuiteHasNoVerdict`, `RunEnds` |
| `PatchEngine` | one file inside, one outside the workspace, three texts with two kinds of line ends: what was expected, what is brought, and another. Every sequence of patches and of changes by others, without a bound on their number | `WritesAreSafe` |
| `Router` | three providers, configured in any combination, any number of changes and calls | `ChoiceIsSound` |
| `Coder` | three files, two suites, all kinds; two turns of 24 iterations with the code's window of eight observations; one patch that cannot be written | `CodingIsExplained`, `CodingIsKept` |
| `Synth` | the 16 forms of two or three parameters, with whatever is unused worked in; every set of `==` and `!=` at two points, and every odd assert alone or with one `==`; six rewritings | `SearchConverges`, `SearchIsSound` |

The properties of the parts are stated in their modules; those of `Parts` apply
them to the part a behaviour is of. Where one joins several of a module it says so.
The points of `Synth` are one where p + q, p - q and r are apart and one where a divisor is
zero and p + q = p - q; they determine functions of every form, and the five texts of
`EndsOrAlternates` come about. 24 iterations are the default of
`Runtime` (`runtime.py:44`); for three files and two suites that is just what the theorem
`RepairsSucceed` asks for.

Violating runs: see section 5.

`CHECK_DEADLOCK FALSE` is set where the system really stops: a task that has
settled and whose clients are gone, an ended stream, a verdict, a search that is
through. The kernel can always be run again, so there deadlock is checked.

## 4. Fairness

- `Kernel`: `WF(RunStep)`: the owning thread is scheduled. `WF(HandlerStep(t))`:
  every handler comes back. That is an assumption about the engine's environment and not a fact:
  tests have a timeout, agents a budget of iterations and providers timeouts, but `run_pytest` may
  read for ever from a process its tests left behind (`sandbox/exec.py:107`), and `emit` may wait for
  a client that does not read. `BlockedIsReleased` and `TokenSettles` hold where neither happens.
  Nothing is assumed of callers, tokens, or crashes.
- `Runtime`: `SF(~stalled /\ WorkerStep)` and `SF(~stalled /\ RequestStep(c))`: threads are
  scheduled, and one that waits for `_state_lock` gets it if it is free again and again. Strong
  fairness is a property of the lock: its holder does a bounded number of steps, and between two holders
  a waiter has its chance. While a client stalls (`stalled`) nothing is owed. Nor are tests,
  the worker's (`TestsEnd`) or a promotion's (`PromoteTests`): `run_pytest` need not return. No request
  has to arrive. The loop of tests and verifications inside the work
  is stopped by the token because `TestsBegin` and `VerifyBegin` need it clear.
- `AgentLoop`: `WF(OtherStep)`: requests to providers and `run_python` have timeouts, and the
  other tools wait for nothing. Whatever waits in `run_pytest` is left out (`PytestReturns`).
- `EventStream`: `SF(~Blocked(c) /\ StreamStep(c))`. The condition `_cv` may be taken by
  others again and again. Strong fairness is justified because each of them
  waits for half a second between two times it holds it, and because both waits of `_sse`
  have timeouts: they end without a notification. A stream whose client has stopped reading
  owes nothing while it writes: that is a blocked system call.
- `PytestRun`: `WF(Parent)`: the calling thread is scheduled. The child is owed
  nothing: it may hang at any time. `Read` is not enabled while a process left behind
  holds the pipe open, so there nothing is owed either.
- The other parts and `IntentRun` state safety only.

## 5. Where the code differs from what it says

Each is a run that must end in a counterexample.

- **kernel_crash_forgets** (`NoTaskForgotten`). "Durable task engine. State lives in SQLite so
  crashes can recover." (`kernel/engine.py:33`). `unblock` is called only at the end of
  a non-empty batch, and `recover` does not call it: a crash after the batch's
  last save and before `unblock` leaves the dependents BLOCKED on COMPLETED
  tasks, and every later `run_to_idle` returns at once.
- **runtime_stale_ready** (`StaleNeverReady`). "If the origin tree hash changed after snapshot,
  promotion is rejected." (`README.md:73`). The hash is compared before the
  tests of the promotion run, and not again before `READY_FOR_PROMOTION`.
- **runtime_cancel_hangs** (`CancelSettles`). `tests/test_repo_api.py:204` asserts that a cancelled task
  comes to rest as CANCELLED. A cancel that meets FAILED makes the state
  CANCEL_REQUESTED, and no worker is left to finish it; an event stream opened then never ends.
- **runtime_reject_leaves** (`RejectDiscards`). `tests/test_repo_api.py:374` asserts that a rejected
  candidate's workspace is gone. The worker is not told of a reject; its next
  Sandbox makes the directory anew, and `_cancelled_result` leaves it because
  `discarded` is already true.

- **router_stub_first** (`StubIsLastResort`). "Cloud is never preferred for reasoning unless it is
  the only configured capable provider." and "Stub is always last-resort." (`models/router.py:73`,
  `:74`). The ranking for reasoning names the stub before the cloud (`:78`), and the stub is always
  there: with nothing but a healthy cloud configured, the stub is chosen. `NoneOverlooked` of the
  run `parts` speaks of those ranked before the stub, and says nothing here.

Seen in the models, and not made runs of their own. Some contradict a line of the
repository, which is then quoted:

- The tool `run_tests` passes no token to `run_pytest` (`tools/builtin.py:78`), so a cancel is
  not seen during an agent's own test run, although "Cancellation is a CancelToken on the
  Runtime, checked in the scheduler, agent loop, and pytest subprocess."
  (`docs/ARCHITECTURE.md:22`).
- The tool `apply_patch` hashes the base in the call that applies the patch
  (`tools/builtin.py:73`): what changed since the model read the file is overwritten, though
  every intent carries the rule "patch_base_matches" (`ir/compiler.py:58`).
- `run_pytest` reads the pipe only after the child has ended: tests that print more than it
  holds never get a verdict (`LoudSuiteHasNoVerdict`). A process the tests leave behind keeps
  the call from returning, and may write into the workspace after the verdict.
- A client that stops reading stops `emit`, and with it the worker and `request_cancel`, if it
  is being sent a keepalive or the end (`service.py:187`); `EmitIsServed` shows that nothing else does.
- The origin is compared by its hash only, before the copy and at the promotion. An edit between the
  hash and the copy that is undone later goes unnoticed: the task becomes READY_FOR_PROMOTION with
  a workspace made of something else. The hash of the copy (`baseline_hash`, `candidate.py:68`) would
  tell, but nobody compares it.
- `rmtree` may raise half-way (`candidate.py:114`), above all beside tests that write. A reject or cancel
  that does leaves a task that waits for approval with half of its workspace, and a promotion's tests
  then judge that half.
- An exception that is not Cancelled leaves `execute` (out of `run_to_idle`, of `discard`, or of `_result`, which
  reads files others are writing), and `run()` writes FAILED over whatever the state is, an answered
  cancel or an offered task included (`service.py:297`). A token set during the work then ends in FAILED:
  `TokenStopsWork` excepts it.
- A task whose thread wrote FAILED can still become READY_FOR_PROMOTION by a promotion that was in flight.
- A failure or cancellation travels one level per `unblock`: the far end of a chain stays
  BLOCKED for good when the run has nothing else to do (`RunIsOver`).
- `max_retries` has no upper limit while `run_to_idle` gives up after 64 iterations.
- A request for neither a fix nor tests gets a plan that never runs tests and always ends FAILED
  (`runtime.py:369`; the last line of `SuccessIsEarned`). A request for tests alone has a repair task, whose agent is
  opened although the tests have passed: `_agent` only skips what an agent has verified (`runtime.py:381`).
- A patch that is applied again when others have put the file back to what it expects is
  written again: the hash cannot tell. As it is of the text with its line ends translated, a file that differs
  from what was read only in these is overwritten too (`patch/engine.py:31`).
- The search reads `is` as `==`, does not see asserts that compare anything but a call with a constant, and
  loses keyword arguments (`models/synth.py:45`, `:72`): a right function may be rewritten into one that
  satisfies what it has read and fails the tests. `RightStaysRight` says that only such asserts can fail.
- The mock coder asks for a file it cannot read until the limit of iterations, rewrites a file
  with loose tests for ever, and does not try a failed patch again; these are the three causes in
  `UnrepairedIsExplained`.
- A handler that raises an exception with an empty text passes `if err` in
  `_finish` and meets `assert out is not None`: `run_to_idle` raises and the row stays
  RUNNING (`kernel/engine.py:298`).
- `execute` can answer `ok = True` together with CANCELLED: the state is read again
  after the last `_set_state` (`runtime.py:162`). The test
  `test_cancel_race_does_not_report_success` (`tests/test_repo_api.py:105`) asks of a cancelled run
  that `ok` is False.
- A reject before `_start` writes RUNNING is lost (`service.py:291`). `run()` in
  `_start` overwrites DISCARDED by FAILED without the lock, and a promotion under
  way may then make it READY_FOR_PROMOTION (`service.py:297`).
- A second `prepare_promotion` whose tests fail leaves the task READY_FOR_PROMOTION
  (`runtime.py:223`).
- A cancel after an approval may leave a copy: `prepare_promotion` has marked the candidate
  and its Sandbox may recreate the directory. After a reject the worker's may (`runtime_reject_leaves`).
  `CancelDiscards` excludes both.
- A stream may end before the last "task.completed" was emitted: the state is
  final before the event is (`EndsComplete` speaks of what was emitted until then).
- A file whose update was cut short and that returns to the content whose hash is
  still stored is not parsed again, and a file with a syntax error keeps
  its old imports (`codegraph/index.py:75`, `:88`). `AgreesWithIndex` of `CodeGraph`
  excludes exactly these.
- An unknown role falls back to the debugger's contract, the widest one
  (`agents/loop.py`); `PermissionsNeverEscalate` is stated against that contract.

## 6. Proofs

All eight modules are proved to the last leaf, by SMT, Zenon and LS4 only.

### KernelProofs

From `IntentAssumption`, `OutcomeAssumption`, `BoundAssumption` and `ApiAssumption` alone,
for any set of tasks, any graphs, any number of workers, retries, crashes and approvals:

- `TypeCorrect`: `Spec => []TypeOK`, foreign threads included.

From these and `~ApiThread`:

- `Invariant`: `Spec => []IInv`. No safety property is inductive by itself, because
  the loops of the engine write rows from `queue`, `todo`, `out` and `scan`, which were
  filled earlier. `IInv` says what these can hold at every place of the owning
  thread: which of them are empty (`PhaseInv`), which states the rows in a batch, in
  the pool or in a queue can have, and that what unblock scanned as COMPLETED still
  is (`RowInv`, `QueueInv`), that whatever was begun, in flight included, has its
  dependencies done (`DepsInv`), and that every start is paid for by the first
  attempt, a retry or an approval, with one left while a start is still owed
  (`BudgetInv`).
- `StepRows` is the hinge: whatever the step, the rows change in one of a few
  listed ways. `LegalRows`, `CancelIsFinal`, the preservation of `DepsInv` and
  `Refinement` all follow from it instead of visiting the forty actions each.
- `DependencyOrder`, `StartsAreBudgeted`: the state properties of kernel_core, from `IInv`.
- `LegalRows`, `CancelIsFinal`: its action properties.
- `Refinement`: the engine implements `TaskGraph`, initial states to initial
  states, every step to a step or a stutter.

From these, without foreign calls and crashes (`ApiCalls = {}`, `MaxCrash = 0`), without a handler
that raises an exception with an empty text, for acyclic graphs of finitely many tasks and
`Limit > Cardinality(Task) * (MaxRetries + 1) + 1`:

- `RunsEnd`: `RunIsOver`. The conditions are needed: a crash forgets what
  it should release (`kernel_crash_forgets`), a cancel between runs leaves dependents
  BLOCKED until somebody runs again, an empty text raises out of `run_to_idle`, and a limit of 8 for
  three tasks has a counterexample. The code meets the last two: `validate` refuses cycles
  (`DecisionIsRight`), and a plan of ten tasks with the default of three retries asks for a limit
  above 41, where the code has 64 (a request may name a number of retries that is too large for it). `OverInv` is the invariant.
  `QuietInv`: in such a run RUNNING means a handler at work, and READY in a batch means
  still to be taken. `WaitInv`: what is BLOCKED has a dependency that is not COMPLETED,
  except while a batch runs; inside `unblock` this is said of what was read before its loop,
  together with the fact that nothing completes meanwhile. `FuelInv` bounds the iterations by
  `Spent`, the set of attempts used or forfeited: every iteration adds to it, but the one that
  goes on and one that found nothing READY. At the end an acyclic
  set of BLOCKED tasks has one that waits for none of them, so for something dead or unapproved.

### RuntimeProofs

From `FlagAssumption` and `ContentAssumption` alone, for any number of request threads and any contents,
with and without early calls unless said otherwise:

- `TypeCorrect`. Types alone are not inductive, because `discarded` and `approved`
  are claimed of an existing candidate only: `CandInv` says at which places of the
  worker there is one, and that who is about to remove a workspace has seen it.
- `SetStateGuards`, `WorkerState` and `ClientState` are the hinge: the state changes
  through `_set_state`, or in the locked part of `request_cancel`, or to RUNNING or
  FAILED without the lock, and the token is never taken back. `LockedIsFinal` and
  `CancelIsFinal` follow; for the latter `CancelInv` adds that whoever is inside
  `request_cancel` has set the token, because it does so before it takes the lock.
- `OnlyVettedIsReady`. `TreeInv`: where something else was copied than what was hashed, the
  origin is still something else, until an edit restores what was hashed. `VerdictInv`: what
  waits or was approved has been verified, and the worker does not touch the verdict any
  more. `PromotionInv`: a promotion past its checks has seen both.
- `RejectIsKept`, from `~EarlyCalls`. `RejectInv`: a rejected task is in a locked
  state, unless the worker raised and wrote FAILED over it; then no worker is left to
  publish. With early calls the unlocked write of RUNNING can come after the reject.
- `CancelledIsCleared`. `GoneInv`: whoever brings the task to CANCELLED has discarded the workspace, and what is
  discarded stays away, since only the worker's tests make it anew and the worker discards when it has given
  up (`Gone`: or somebody approved or rejected the task, the two exceptions of the property).
- `Implements`, from `~EarlyCalls`: `Runtime` implements `TaskLife`. `PhaseInv` says which phases
  are possible at which place of the worker, that CANCEL_REQUESTED comes with the token, and
  that who removes a workspace under the lock found the task a success unless a FAILED
  intervened; `LifeWorker` and `LifeClient` then map every step to one of `TaskLife` or a stutter.
- `OfferIsKept`, from `~EarlyCalls`: `OfferedIsThere`. `KeptInv`: without its whole copy a task is lost
  (`Dead`: rejected, or the token set outside a success), closed by a worker that did not publish it
  (`Closed`), or a request is to blame that is removing it or raised while it did (`Halved`). What is lost
  stays lost (`DeadWorker`, `DeadClient`).
- `SuccessIsWithdrawn`, from `~EarlyCalls`: while nobody has withdrawn a published task, the writers of its
  state are a promotion that found the origin changed, the worker's last answer, and no other: a worker
  that answers "not ok" has published nothing (`Closed`).

### IntentRunProofs

From `IntentAssumption` and `PipelineAssumption`, for any set of names and intents of any size,
finite or not, any `MaxHeal` and any number of changes. `RunIsOfBoth`: a behaviour of the
composition is one of the search and one of the pipeline; what follows is proved of these and
carried over.

- `SearchInvariant`: the invariant of the search. `LeftOver`: what an open call has not followed is a
  part of its dependencies. `Progress`: a root not tried any more is seen or open. `Chain` and
  `Followed`: each open call was made for a dependency of the one below it, and
  a dependency already followed is seen or on the stack. `SeenClosed`: seen nodes
  depend on seen nodes only. `SeenFree`: no set of seen nodes waits for itself.
- `SearchTypes`: in particular no node is open twice or opened again after it was seen,
  so the recursion of `dfs` is no deeper than there are actions.
- `DecisionIsRight`: for every intent that reaches the graph check, `validate`
  answers exactly whether some set of actions waits for itself. `PlansAreAccepted`: it refuses
  none of the compiler's plans.
- `RunInvariant`. `PlanInv` and `OrderInv`: the plan is one of the four, and what runs has
  its dependencies done. `StageInv`: at most one handler runs and the stage is its. `DataInv`: types
  and the budget of heals. `EvidenceInv` is the point: the result in `ctx` is of
  the present tree from the moment a handler has put it there until the next agent or test
  may write, above all once the retest is done; after verify so are the audit and the difference.
- `OfferIsEarned`, `VerifiedIsKept`, `RunTypes` from it.

### AgentLoopProofs, EventStreamProofs

- `AgentLoop`, for any limits: the inductive invariant. `PermInv`: the tool about to run was admitted
  for this role. `BudgetInv`: calls made are paid by attempts and iterations. `LateInv`: where something
  is about to begin, nothing late has begun yet. `NoEscalation`, `CallsAreBudgeted` and `OneRaceAtMost`
  follow in `PartsProofs`, for the properties the run checks.
- `EventStream`, for any number of streams, events and states: `LockInv` (who holds `_cv` writes
  under it), `CopyInv` (sent and batch together are the log up to `idx`, and a stream that has decided
  to close holds off further events); hence `NothingLostOrRepeated` and `EndIsComplete`.

### CodeGraphProofs

From `ContentAssumption`, for any files, contents and sequences of edits and updates.
`UpdatesAgree` (`AgreesWithIndex`) rests on three parts of `IInv`. `PartsAgree`: whatever is
under way, the symbols, imports and tests are those the stored hashes promise, but for the files an
exception made the update lose (`Missing`). `UpdateInv`: what an update has still to parse or drop;
the workspace may only lose files beside it. `FreshInv`: once it is through, no hash is missing. The
symbols are a bag, so that parsing a file twice would show.

### CoderProofs

From `CoderAssumption` (no path is in both lists, and the limits are numbers), for every repository,
window, and number of iterations, turns and failed patches:

- `Invariant`, `TypeCorrect`. `TextsInv`: a text the coder holds, shows or is about to write is one
  the file had or a repair of it; before the weak candidate nothing differs from the
  repository. `FlagsInv`: the flags are set in order, and after a retest nothing is untested.
  `PendingInv`: what was asked for and not done yet still fits. `FinishedInv`: the turn after a
  finished one comes to the same end.
- `FinishesTested`, `RepairsAreKept`, `HealingAddsNothing` from it.
- `FinishedMeansRepaired`, with `RepairInv`: what the coder takes for rewritten is so on the disk, or
  is the patch under way, or a patch has failed. Old observations may take back what the coder knows,
  never what the disk has.
- `RepairsSucceed` (`UnrepairedIsExplained`), with `Enough`: a window of two or more, and as many
  iterations as five for each implementation file, one for each suite and the window, less one. Some such
  hypothesis is needed, since the limit of iterations is otherwise a fourth reason. `CourseInv`
  counts the iterations of the first turn. `Reading`: each
  of the first brings a path that was not known, so there are at most `T` of them. `Stale`: an
  observation of a file is shown for `Window` iterations, so what was fixed in memory may be undone
  until `X = T + Window`. `Fixing`: after that every second iteration brings one of the files before
  the n-th one step further for good; there are two such steps for each (`Done`), and the n-th has taken none
  while it is not repaired.

### PartsProofs

From `PartsAssumption` and `SizeAssumption`. Each part is a behaviour of its module or does nothing
(`PartInits`, `PartSteps`), and the properties of the run `parts` follow:

- `RunInvariant`, for any pipe, output and timeout. `ParentInv`: the parent reads only from a child
  that ended of itself, and whoever kills it is on the way out; hence `ChildIsGone`, `WholeRunsOnly`,
  and `LoudIsUnheard`, for which what is printed and still to print stays above the capacity:
  the child cannot end, and the parent reads only when it has.
- `RouterInvariant`: `LoadedInv` (whatever was handed out is `_loaded`) and `AskedInv` (whoever was
  passed over was unfit when asked); hence `ChoicesAreSound`. It says nothing of who is ranked after the stub.
- `PatchesAreSafe`, for any files and texts, other writers that bring back what was there included.
  `CheckedInv`: where it is about to write, the file reads as the patch expects, or somebody else wrote in
  between. `MineInv`: what nobody touched since the patch wrote it holds what the patch brings, so that a
  second application is refused unless its body is the one expected.
- `SearchFinds` and `SearchKeepsRight`, for any points, whatever parameters are unused and whatever
  the asserts are. `SearchInv`: the right function is the first text or one of its candidates; and if the
  asserts determine it, the trail is no longer than two, its second text is the truth, and so is the text at which the
  search gives up. `SatisfiesPasses`: what satisfies the search passes every assert but one with `is` or one
  that was not read. That a search whose tests leave more than one text ends, or alternates after five texts,
  is only model-checked (`EndsOrAlternates`): it depends on the points.
- `NoEscalation`, `CallsAreBudgeted`, `OneRaceAtMost`: the promises of the agent loop.
- `GraphIsRight`, `CodingKeeps`, `CodingIsRight`: the theorems of the two modules above; the last has
  the hypothesis `Enough`, written out.

What the proofs changed in the model. An alternation of the search may begin only after five texts, since a
parameter may be worked in first and two more operators may come then: `EndsOrAlternates` says so now, and one point of
the run was chosen so that it happens. Overlapping arms of a CASE in `Synth` left the value
open; they are disjoint now. That a finished turn leaves nothing to repair had not been stated:
`FinishedIsRepaired`.

### What stays with TLC

Liveness (`BlockedIsReleased`, `TokenSettles`, `TokenStopsWork`, `RequestsEnd`,
`LoopEnds`, `EventsArrive`, `StreamsEnd`, `EmitIsServed`, `RunEnds`) and anything with ENABLED,
which the prover does not handle; and the half of `SearchConverges` that says that a search ends or
alternates. Every other property of a passing run is a theorem; where it has
hypotheses beyond the assumptions on the constants (`~ApiThread` for the engine, `~EarlyCalls` for some
of `Runtime`, those of `RunsEnd` and `RepairsSucceed`), the run's constants meet them.

## 7. What is not modelled

- `repo_target.py`, `git_safety.py`, `plugins.py`, `metrics.py`, `resources.py`,
  `memory/store.py`, `replay/recorder.py`, `events/bus.py`: single reads and writes of files
  or of one table, without interacting state.
- `context.py`, `parse.py`, `failure.py`, `security/auditor.py`: text in, text out.
  Their verdicts are open choices where they matter.
- `protocol/v1.py`, `adapter_owl.py`, `cli.py`: constants and entry points.
- Of the runtime: metrics and the wording of answers. Of the service: parsing
  and routing. Of the sandbox: `run_python` and `resolve`, which keep no state. Of
  the compiler: the words it looks for, the goal, permissions and constraints, which
  nobody reads later. Of the code graph: other files than Python's, `dump` and the queries.
  Of the providers: the contents of requests.
- Two tasks of one service at once: they share the registry, the router's servers and an origin that neither writes.

## 8. Plan

In the order of importance; the first three blocks are done.

1. `TaskStates`, `TaskGraph`, `Kernel` with proofs; `Runtime` with proofs; `AgentLoop`, `EventStream`,
   `CodeGraph`; `IntentPlan`, `IntentCheck` with proofs.
2. `TaskLife` and the refinement; `Pipeline` and `IntentRun`; `PytestRun`, `Router`, `PatchEngine`, `Coder`, `Synth`;
   clients that stop reading; theorems about the pipeline, agents, streams, tests and router.
3. Theorems about the code graph, the patches, the coder and its search, the composition of validation and
   execution, and the end of a run.
4. Theorems about `Kernel` with a foreign thread: which of its properties survive the objects of a batch that
   overwrite a cancelled row.
5. Theorems about `Runtime` with early calls, for what remains true when the start overwrites a reject.
6. The registry of the service with two tasks that name the same repository.
