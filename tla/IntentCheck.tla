---------------------------- MODULE IntentCheck ----------------------------
(***************************************************************************)
(* Intent.validate of ir/schema.py, with the depth-first search of         *)
(* _has_cycle as a machine: one step per call or return of dfs. The order  *)
(* in which the search meets nodes and dependencies is left open.          *)
(***************************************************************************)
EXTENDS Naturals, Sequences

CONSTANTS
  Name,     \* action ids, known or not
  Intents   \* what may be validated: [ids, deps, fieldsOk] records

ASSUME IntentAssumption ==
  \A i \in Intents :
    /\ i.ids \subseteq Name
    /\ i.deps \in [i.ids -> SUBSET Name]
    /\ i.fieldsOk \in BOOLEAN

VARIABLES
  intent,   \* the intent; fieldsOk: goal, unique ids, permissions and agents
  verdict,  \* "none" yet, "invalid", "cycle" or "accepted"
  phase,    \* "fields", then "graph"
  roots,    \* nodes that any(...) has not tried yet
  seen,     \* nodes whose dfs has returned False
  stack,    \* nodes whose dfs is open
  path,     \* the open calls of dfs themselves, outermost first
  left      \* dependencies that the open call of a node has not followed yet

vars == <<intent, verdict, phase, roots, seen, stack, path, left>>

Ids == intent.ids
Top == path[Len(path)]

Init ==
  /\ intent \in Intents
  /\ verdict = "none" /\ phase = "fields"
  /\ roots = intent.ids /\ seen = {} /\ stack = {} /\ path = << >>
  /\ left = intent.deps

\* Dependencies are known actions, and no action depends on itself.
KnownDeps == \A n \in Ids : intent.deps[n] \subseteq Ids /\ n \notin intent.deps[n]

Screen ==
  /\ verdict = "none" /\ phase = "fields"
  /\ IF intent.fieldsOk /\ KnownDeps
     THEN phase' = "graph" /\ UNCHANGED verdict
     ELSE verdict' = "invalid" /\ UNCHANGED phase
  /\ UNCHANGED <<intent, roots, seen, stack, path, left>>

Open(n) ==
  /\ stack' = stack \cup {n} /\ path' = Append(path, n)
  /\ UNCHANGED verdict

\* mutant: seen is asked first, and a node is seen when it is entered.
CallSeen(n) ==
  IF n \in seen \cup stack THEN UNCHANGED <<verdict, stack, path>> ELSE Open(n)

\* dfs(n): True ends everything, False at once changes nothing.
Call(n) ==
  IF n \in stack THEN verdict' = "cycle" /\ UNCHANGED <<stack, path>>
  ELSE IF n \in seen THEN UNCHANGED <<verdict, stack, path>>
  ELSE Open(n)

\* any(dfs(n) for n in graph) calls dfs on the next node.
TryRoot(n) ==
  /\ verdict = "none" /\ phase = "graph" /\ path = << >>
  /\ n \in roots
  /\ roots' = roots \ {n}
  /\ Call(n)
  /\ UNCHANGED <<intent, phase, seen, left>>

\* The innermost call follows a dependency.
Follow(d) ==
  /\ verdict = "none" /\ path # << >>
  /\ d \in left[Top]
  /\ left' = [left EXCEPT ![Top] = @ \ {d}]
  /\ Call(d)
  /\ UNCHANGED <<intent, phase, roots, seen>>

\* The innermost call has followed all: it returns False.
Return ==
  /\ verdict = "none" /\ path # << >>
  /\ left[Top] = {}
  /\ seen' = seen \cup {Top} /\ stack' = stack \ {Top}
  /\ path' = SubSeq(path, 1, Len(path) - 1)
  /\ UNCHANGED <<intent, verdict, phase, roots, left>>

Accept ==
  /\ verdict = "none" /\ phase = "graph" /\ path = << >> /\ roots = {}
  /\ verdict' = "accepted"
  /\ UNCHANGED <<intent, phase, roots, seen, stack, path, left>>

Next ==
  \/ Screen \/ Return \/ Accept
  \/ \E n \in Name : TryRoot(n) \/ Follow(n)

Spec == Init /\ [][Next]_vars
-----------------------------------------------------------------------------
(* Properties.                                                             *)

(* Types; the open calls are those of the stack, each node is open at most *)
(* once and never again after it was seen: the recursion is no deeper than *)
(* there are actions.                                                      *)
TypeOK ==
  /\ intent \in Intents
  /\ verdict \in {"none", "invalid", "cycle", "accepted"}
  /\ phase \in {"fields", "graph"}
  /\ roots \subseteq Ids /\ seen \subseteq Ids
  /\ path \in Seq(Ids)
  /\ left \in [Ids -> SUBSET Name]
  /\ stack = {path[i] : i \in 1 .. Len(path)} /\ stack \cap seen = {}
  /\ \A i, j \in 1 .. Len(path) : path[i] = path[j] => i = j

\* A set of actions each of which waits for another one of the set: such
\* actions could never start.
Knot(S) == S # {} /\ \A n \in S : intent.deps[n] \cap S # {}

\* Whatever validate accepts can be run: every dependency exists and no set
\* of actions waits for itself.
AcceptsOnlyRunnable ==
  verdict = "accepted" =>
    /\ \A n \in Ids : intent.deps[n] \subseteq Ids
    /\ \A S \in SUBSET Ids : ~Knot(S)

\* validate complains of a cycle only when there is one; two paths to one
\* action are none.
RejectsOnlyCycles == verdict = "cycle" => \E S \in SUBSET Ids : Knot(S)

(* What validate decides is right, in whatever order the search meets the   *)
(* actions: an intent it accepts can be run to its end, and one it refuses  *)
(* for a cycle could not.                                                  *)
DecidesRunnable == AcceptsOnlyRunnable /\ RejectsOnlyCycles
=============================================================================
