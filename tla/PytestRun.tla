----------------------------- MODULE PytestRun -----------------------------
(***************************************************************************)
(* Sandbox.run_pytest (sandbox/exec.py): a child process whose output goes *)
(* into a pipe, a parent that polls the child and the cancel token, and    *)
(* reads the pipe only when the child has ended. Runtime passes its token; *)
(* the tool run_tests (tools/builtin.py) passes none.                      *)
(***************************************************************************)
EXTENDS Naturals

CONSTANTS
  Capacity,   \* what the pipe holds, in pieces of output
  MaxOutput,  \* bound: pieces a test run prints
  Polls       \* polls of 0.2 s until the timeout

ASSUME SizeAssumption == Capacity \in Nat \ {0} /\ MaxOutput \in Nat /\ Polls \in Nat \ {0}

VARIABLES
  hook,      \* is a token passed
  suite,     \* the tests: do they pass, do they end, do they heed SIGTERM,
             \* and do they leave a process behind that holds the pipe open
  todo,      \* output the child has still to print
  pipe,      \* output in the pipe
  child,     \* "running", "ended" of itself, "killed"
  token,     \* the cancel token
  waited,    \* polls that found the child running
  pc,        \* the parent
  verdict    \* what run_pytest returned or raised

vars == <<hook, suite, todo, pipe, child, token, waited, pc, verdict>>

Init ==
  /\ hook \in BOOLEAN /\ suite \in [passes : BOOLEAN, ends : BOOLEAN, heeds : BOOLEAN, leaves : BOOLEAN]
  /\ todo \in 0 .. MaxOutput /\ pipe = 0 /\ child = "running"
  /\ token = FALSE /\ waited = 0 /\ pc = "poll" /\ verdict = "none"
-----------------------------------------------------------------------------
(* The child: external. A full pipe blocks it.                             *)

Output ==
  /\ child = "running" /\ todo > 0 /\ pipe < Capacity
  /\ todo' = todo - 1 /\ pipe' = pipe + 1
  /\ UNCHANGED <<hook, suite, child, token, waited, pc, verdict>>

End ==
  /\ child = "running" /\ todo = 0 /\ suite.ends
  /\ child' = "ended"
  /\ UNCHANGED <<hook, suite, todo, pipe, token, waited, pc, verdict>>

SetToken ==
  /\ ~token /\ token' = TRUE
  /\ UNCHANGED <<hook, suite, todo, pipe, child, waited, pc, verdict>>
-----------------------------------------------------------------------------
(* The parent.                                                             *)

Kill == child' = IF child = "running" THEN "killed" ELSE child

Poll ==
  /\ pc = "poll"
  /\ pc' = IF hook /\ token THEN "terminate" ELSE "wait"
  /\ UNCHANGED <<hook, suite, todo, pipe, child, token, waited, verdict>>

\* SIGTERM, two seconds, SIGKILL.
Terminate ==
  /\ pc = "terminate"
  /\ IF suite.heeds THEN Kill ELSE UNCHANGED child
  /\ pc' = "grace"
  /\ UNCHANGED <<hook, suite, todo, pipe, token, waited, verdict>>

\* mutant: a cancelled run goes on to its result.
GraceReads ==
  /\ pc = "grace"
  /\ Kill /\ pc' = "read"
  /\ UNCHANGED <<hook, suite, todo, pipe, token, waited, verdict>>

Grace ==
  /\ pc = "grace"
  /\ Kill /\ verdict' = "cancelled" /\ pc' = "finally"
  /\ UNCHANGED <<hook, suite, todo, pipe, token, waited>>

\* mutant: the polls are not counted.
WaitExpiresForever ==
  /\ pc = "wait" /\ child = "running"
  /\ pc' = "poll"
  /\ UNCHANGED <<hook, suite, todo, pipe, child, token, waited, verdict>>

WaitExpires ==
  /\ pc = "wait" /\ child = "running"
  /\ waited' = waited + 1
  /\ IF waited' >= Polls THEN Kill /\ verdict' = "timeout" /\ pc' = "finally"
                         ELSE pc' = "poll" /\ UNCHANGED <<child, verdict>>
  /\ UNCHANGED <<hook, suite, todo, pipe, token>>

\* mutant: the output is read before the child has ended.
WaitReads ==
  /\ pc = "wait" /\ (child # "running" \/ pipe > 0)
  /\ pc' = IF child # "running" THEN "read" ELSE "poll"
  /\ pipe' = 0
  /\ UNCHANGED <<hook, suite, todo, child, token, waited, verdict>>

WaitReturns ==
  /\ pc = "wait" /\ child # "running"
  /\ pc' = "read"
  /\ UNCHANGED <<hook, suite, todo, pipe, child, token, waited, verdict>>

\* proc.stdout.read() waits for the end of file: no timeout, no token.
Read ==
  /\ pc = "read" /\ ~suite.leaves
  /\ pipe' = 0
  /\ verdict' = IF child = "ended" /\ suite.passes THEN "passed" ELSE "failed"
  /\ pc' = "finally"
  /\ UNCHANGED <<hook, suite, todo, child, token, waited>>

Finally ==
  /\ pc = "finally"
  /\ Kill /\ pc' = "done"
  /\ UNCHANGED <<hook, suite, todo, pipe, token, waited, verdict>>

Parent == Poll \/ Terminate \/ Grace \/ WaitExpires \/ WaitReturns \/ Read \/ Finally

\* Stopped: run_pytest has returned, or waits for an end of file.
Next == Output \/ End \/ SetToken \/ Parent

Spec == Init /\ [][Next]_vars

\* The parent is a thread of the service; the child is owed nothing.
FairSpec == Spec /\ WF_vars(Parent)
-----------------------------------------------------------------------------
(* Properties.                                                             *)

(* Types; the polls are bounded by the timeout.                            *)
TypeOK ==
  /\ hook \in BOOLEAN /\ token \in BOOLEAN
  /\ suite \in [passes : BOOLEAN, ends : BOOLEAN, heeds : BOOLEAN, leaves : BOOLEAN]
  /\ todo \in 0 .. MaxOutput /\ pipe \in 0 .. Capacity
  /\ child \in {"running", "ended", "killed"}
  /\ waited \in 0 .. Polls
  /\ pc \in {"poll", "wait", "terminate", "grace", "read", "finally", "done"}
  /\ verdict \in {"none", "passed", "failed", "cancelled", "timeout"}

(* A verdict is about a run that was not cut short: the tests ended of     *)
(* themselves and everything they printed has been taken in. A cancelled   *)
(* or killed run is never reported as failing tests.                       *)
VerdictIsOfWholeRun ==
  verdict \in {"passed", "failed"} => child = "ended" /\ todo = 0

(* The pipe is read too late for tests that print more than it holds: such *)
(* a run never gets a verdict, whether it would have passed or not.        *)
LoudSuiteHasNoVerdict ==
  [](todo + pipe > Capacity => [](verdict \notin {"passed", "failed"}))

(* run_pytest comes back, even from tests that hang, print too much or     *)
(* ignore SIGTERM; unless they leave a process behind that keeps the pipe  *)
(* open (exec.py:105 reads without a timeout). Then the child is gone: it  *)
(* cannot go on writing into a workspace that is discarded or promoted.    *)
RunEnds == ~suite.leaves => <>(pc = "done" /\ child # "running")
=============================================================================
