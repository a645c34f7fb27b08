-------------------------- MODULE IntentRunProofs --------------------------
(***************************************************************************)
(* From the request to the verdict, for every set of intents of any size,  *)
(* any number of agents, of changes of the workspace and of retries: what  *)
(* validate accepts can be run, what _plan makes is accepted, and what a   *)
(* run offers as a success has been tested and audited as it is.           *)
(***************************************************************************)
EXTENDS IntentRun, SequenceTheorems, TLAPS
-----------------------------------------------------------------------------
(* The validation.                                                         *)

Deps(n) == intent.deps[n]

(* Dependencies that remain are dependencies; those of nodes not entered   *)
(* yet all remain.                                                         *)
LeftOver ==
  /\ \A n \in Ids : left[n] \subseteq Deps(n)
  /\ \A n \in Ids \ (seen \cup stack) : left[n] = Deps(n)

(* The search has begun only on known dependencies, and no node is lost.   *)
Progress ==
  /\ phase = "graph" => KnownDeps
  /\ phase = "fields" => path = << >> /\ verdict \in {"none", "invalid"}
  /\ Ids = roots \cup seen \cup stack

(* Every open call was made for a dependency of the call before it.        *)
Chain == \A i \in 1 .. Len(path) - 1 : path[i + 1] \in Deps(path[i])

(* While the search runs, what an open call has followed is seen, or is    *)
(* the call it waits for.                                                  *)
Followed ==
  verdict = "none" =>
    \A i \in 1 .. Len(path) : \A d \in Deps(path[i]) \ left[path[i]] :
      d \in seen \/ (i < Len(path) /\ d = path[i + 1])

(* Seen nodes depend on seen nodes only, and no set of them is a knot.     *)
SeenClosed == \A n \in seen : Deps(n) \subseteq seen
SeenFree   == \A S \in SUBSET seen : ~Knot(S)

CheckInv ==
  /\ TypeOK /\ LeftOver /\ Progress /\ Chain /\ Followed
  /\ SeenClosed /\ SeenFree
  /\ AcceptsOnlyRunnable /\ RejectsOnlyCycles

(* The invariant holds at first.                                           *)
LEMMA CheckInit == Init => CheckInv
<1> SUFFICES ASSUME Init PROVE CheckInv
  OBVIOUS
<1>1. /\ Ids \subseteq Name /\ intent.deps \in [Ids -> SUBSET Name]
      /\ Len(path) = 0 /\ path \in Seq(Ids)
  BY IntentAssumption DEF Init, Ids
<1>2. TypeOK
  BY <1>1 DEF Init, TypeOK, Ids
<1>3. LeftOver /\ Progress
  BY <1>1 DEF Init, LeftOver, Progress, Ids, Deps
<1>4. Chain /\ Followed
  BY <1>1 DEF Init, Chain, Followed
<1>5. SeenClosed /\ SeenFree
  BY DEF Init, SeenClosed, SeenFree, Knot
<1> QED
  BY <1>2, <1>3, <1>4, <1>5 DEF Init, CheckInv, AcceptsOnlyRunnable, RejectsOnlyCycles

(* What the open calls look like while there are any.                      *)
LEMMA OpenCalls ==
  ASSUME TypeOK, path # << >>
  PROVE  /\ Len(path) \in Nat \ {0}
         /\ Top \in Ids /\ Top \in stack /\ Top \notin seen
         /\ \A i \in 1 .. Len(path) : path[i] \in Ids /\ path[i] \in stack
<1>1. path \in Seq(Ids)
  BY DEF TypeOK
<1>2. Len(path) \in Nat \ {0}
  BY <1>1, EmptySeq
<1>3. \A i \in 1 .. Len(path) : path[i] \in Ids /\ path[i] \in stack
  BY <1>1, <1>2, ElementOfSeq DEF TypeOK
<1> QED
  BY <1>2, <1>3 DEF Top, TypeOK

(* Entering a node that is neither open nor seen keeps the stack in order. *)
LEMMA Opened ==
  ASSUME TypeOK, NEW n \in Ids, n \notin stack, n \notin seen, Open(n)
  PROVE  /\ path' \in Seq(Ids) /\ Len(path') = Len(path) + 1
         /\ Len(path) \in Nat
         /\ path'[Len(path) + 1] = n
         /\ \A i \in 1 .. Len(path) : path'[i] = path[i]
         /\ stack' = {path'[i] : i \in 1 .. Len(path')}
         /\ \A i, j \in 1 .. Len(path') : path'[i] = path'[j] => i = j
<1>1. path \in Seq(Ids) /\ Len(path) \in Nat
  BY LenProperties DEF TypeOK
<1>2. /\ path' \in Seq(Ids) /\ Len(path') = Len(path) + 1
      /\ path'[Len(path) + 1] = n
      /\ \A i \in 1 .. Len(path) : path'[i] = path[i]
  BY <1>1 DEF Open
<1>3. stack = {path[i] : i \in 1 .. Len(path)} /\ stack' = stack \cup {n}
  BY DEF TypeOK, Open
<1>4. stack' = {path'[i] : i \in 1 .. Len(path')}
  BY <1>1, <1>2, <1>3
<1>5. \A i \in 1 .. Len(path) : path'[i] # n
  BY <1>1, <1>2, <1>3
<1>6. \A i, j \in 1 .. Len(path') : path'[i] = path'[j] => i = j
  <2> SUFFICES ASSUME NEW i \in 1 .. Len(path'), NEW j \in 1 .. Len(path'), path'[i] = path'[j]
               PROVE  i = j
    OBVIOUS
  <2>1. \A k, l \in 1 .. Len(path) : path[k] = path[l] => k = l
    BY DEF TypeOK
  <2> QED
    BY <1>1, <1>2, <1>5, <2>1
<1> QED
  BY <1>1, <1>2, <1>4, <1>6

(* Returning from the innermost call keeps the stack in order.             *)
LEMMA Returned ==
  ASSUME TypeOK, path # << >>,
         path' = SubSeq(path, 1, Len(path) - 1), stack' = stack \ {Top}
  PROVE  /\ path' \in Seq(Ids) /\ Len(path') = Len(path) - 1
         /\ \A i \in 1 .. Len(path') : path'[i] = path[i]
         /\ stack' = {path'[i] : i \in 1 .. Len(path')}
         /\ \A i, j \in 1 .. Len(path') : path'[i] = path'[j] => i = j
<1>1. Len(path) \in Nat \ {0} /\ \A i \in 1 .. Len(path) : path[i] \in Ids
  BY OpenCalls
<1>2. /\ path' \in Seq(Ids) /\ Len(path') = Len(path) - 1
      /\ \A i \in 1 .. Len(path) - 1 : path'[i] = path[i]
  <2> DEFINE m == Len(path) - 1
  <2>1. m \in Nat /\ \A i \in 1 .. m : path[i] \in Ids
    BY <1>1
  <2> HIDE DEF m
  <2>2. /\ SubSeq(path, 1, m) \in Seq(Ids)
        /\ Len(SubSeq(path, 1, m)) = IF 1 <= m THEN m - 1 + 1 ELSE 0
        /\ \A i \in 1 .. m - 1 + 1 : SubSeq(path, 1, m)[i] = path[1 + i - 1]
    BY <2>1, SubSeqProperties
  <2>3. /\ SubSeq(path, 1, m) \in Seq(Ids) /\ Len(SubSeq(path, 1, m)) = m
        /\ \A i \in 1 .. m : SubSeq(path, 1, m)[i] = path[i]
    <3>1. m - 1 + 1 = m /\ \A i \in 1 .. m : 1 + i - 1 = i
      BY <2>1
    <3>2. \A i \in 1 .. m : SubSeq(path, 1, m)[i] = path[i]
      BY <2>2, <3>1
    <3> QED
      BY <2>1, <2>2, <3>2
  <2> QED
    BY <2>3 DEF m
<1>3. stack = {path[i] : i \in 1 .. Len(path)}
  BY DEF TypeOK
<1>4. \A i, j \in 1 .. Len(path) : path[i] = path[j] => i = j
  BY DEF TypeOK
<1>5. stack' = {path'[i] : i \in 1 .. Len(path')}
  <2>1. \A i \in 1 .. Len(path) - 1 : path[i] # Top
    BY <1>1, <1>4 DEF Top
  <2>2. \A x : x \in stack \ {Top} <=> \E i \in 1 .. Len(path) - 1 : x = path[i]
    BY <1>1, <1>3, <2>1 DEF Top
  <2> QED
    BY <1>2, <2>2
<1> QED
  BY <1>1, <1>2, <1>4, <1>5

(* A knot in the seen nodes and one more, all of whose dependencies are    *)
(* seen, would be one without it.                                          *)
LEMMA NoNewKnot ==
  ASSUME SeenClosed, SeenFree, NEW n, n \notin seen, Deps(n) \subseteq seen
  PROVE  \A S \in SUBSET (seen \cup {n}) : ~Knot(S)
<1> SUFFICES ASSUME NEW S \in SUBSET (seen \cup {n}), Knot(S) PROVE FALSE
  OBVIOUS
<1>1. n \in S
  BY DEF SeenFree
<1>2. PICK m : m \in Deps(n) \cap S
  BY <1>1 DEF Knot, Deps
<1>3. m \in S \ {n}
  BY <1>2
<1>4. \A k \in S \ {n} : Deps(k) \cap (S \ {n}) # {}
  <2> SUFFICES ASSUME NEW k \in S \ {n} PROVE Deps(k) \cap (S \ {n}) # {}
    OBVIOUS
  <2>1. k \in seen /\ Deps(k) \subseteq seen
    BY DEF SeenClosed
  <2>2. PICK d : d \in Deps(k) \cap S
    BY DEF Knot, Deps
  <2>3. d \in S \ {n}
    BY <2>1, <2>2
  <2> QED
    BY <2>2, <2>3
<1>5. Knot(S \ {n}) /\ S \ {n} \subseteq seen
  BY <1>3, <1>4 DEF Knot, Deps
<1> QED
  BY <1>5 DEF SeenFree

(* The innermost calls from an open node on form a knot when the last of   *)
(* them depends on that node.                                              *)
LEMMA StackKnot ==
  ASSUME TypeOK, Chain, path # << >>, NEW d \in stack, d \in Deps(Top)
  PROVE  \E S \in SUBSET Ids : Knot(S)
<1>1. Len(path) \in Nat \ {0} /\ \A i \in 1 .. Len(path) : path[i] \in Ids
  BY OpenCalls
<1>2. PICK k \in 1 .. Len(path) : path[k] = d
  BY DEF TypeOK
<1> DEFINE S == {path[i] : i \in k .. Len(path)}
<1>3. S \subseteq Ids /\ d \in S
  BY <1>1, <1>2
<1>4. \A n \in S : intent.deps[n] \cap S # {}
  <2> SUFFICES ASSUME NEW i \in k .. Len(path) PROVE intent.deps[path[i]] \cap S # {}
    OBVIOUS
  <2>1. CASE i = Len(path)
    BY <1>3, <2>1 DEF Top, Deps
  <2>2. CASE i # Len(path)
    <3>1. i \in 1 .. Len(path) - 1 /\ i + 1 \in k .. Len(path)
      BY <1>1, <2>2
    <3>2. path[i + 1] \in intent.deps[path[i]] /\ path[i + 1] \in S
      BY <3>1 DEF Chain, Deps
    <3> QED
      BY <3>2
  <2> QED
    BY <2>1, <2>2
<1> QED
  BY <1>3, <1>4 DEF Knot
-----------------------------------------------------------------------------
(* One lemma per action.                                                   *)

LEMMA ScreenStep == ASSUME CheckInv, Screen PROVE CheckInv'
<1> USE DEF Screen
<1>1. TypeOK'
  BY DEF CheckInv, TypeOK, Ids
<1>2. LeftOver' /\ Chain' /\ SeenClosed' /\ SeenFree'
  BY DEF CheckInv, LeftOver, Chain, SeenClosed, SeenFree, Ids, Deps, Knot
<1>3. Progress'
  BY DEF CheckInv, TypeOK, Progress, Ids, KnownDeps
<1>4. Followed'
  BY DEF CheckInv, Followed, Deps
<1>5. AcceptsOnlyRunnable' /\ RejectsOnlyCycles'
  BY DEF CheckInv, AcceptsOnlyRunnable, RejectsOnlyCycles
<1> QED
  BY <1>1, <1>2, <1>3, <1>4, <1>5 DEF CheckInv

(* A call that enters a node, from the outermost loop or from a call whose *)
(* remaining dependencies it is taken from.                                *)
LEMMA OpenStep ==
  ASSUME CheckInv, NEW n \in Ids, n \notin stack, n \notin seen, Open(n),
         phase = "graph", UNCHANGED <<intent, phase, seen>>,
         verdict = "none",
         roots' \in {roots, roots \ {n}},
         \/ path = << >> /\ left' = left
         \/ /\ path # << >> /\ n \in left[Top]
            /\ left' = [left EXCEPT ![Top] = @ \ {n}]
  PROVE  CheckInv'
<1>1. /\ path' \in Seq(Ids) /\ Len(path') = Len(path) + 1
      /\ Len(path) \in Nat
      /\ path'[Len(path) + 1] = n
      /\ \A i \in 1 .. Len(path) : path'[i] = path[i]
      /\ stack' = {path'[i] : i \in 1 .. Len(path')}
      /\ \A i, j \in 1 .. Len(path') : path'[i] = path'[j] => i = j
  BY Opened DEF CheckInv
<1>2. stack' = stack \cup {n} /\ verdict' = verdict
  BY DEF Open
<1>3. path # << >> => /\ Len(path) \in Nat \ {0} /\ Top \in Ids /\ Top \in stack
                      /\ Top = path[Len(path)]
                      /\ \A i \in 1 .. Len(path) : path[i] \in Ids /\ path[i] \in stack
  BY OpenCalls DEF CheckInv, Top
<1>4. left \in [Ids -> SUBSET Name] /\ left' \in [Ids -> SUBSET Name]
  BY <1>3 DEF CheckInv, TypeOK
<1>5. TypeOK'
  BY <1>1, <1>2, <1>4 DEF CheckInv, TypeOK, Ids
<1>6. \A m \in Ids : left'[m] = left[m] \/ (m = Top /\ path # << >> /\ left'[m] = left[m] \ {n})
  BY <1>3, <1>4
<1>7. LeftOver'
  BY <1>2, <1>3, <1>6 DEF CheckInv, LeftOver, Deps, Ids
<1>8. Progress'
  BY <1>2 DEF CheckInv, Progress, Ids, KnownDeps
<1>9. path # << >> => n \in Deps(Top)
  BY <1>3 DEF CheckInv, LeftOver
<1>10. Chain'
  <2> SUFFICES ASSUME NEW i \in 1 .. Len(path') - 1 PROVE path'[i + 1] \in Deps(path'[i])
    BY DEF Chain, Deps
  <2>1. i \in 1 .. Len(path) /\ path # << >>
    BY <1>1
  <2>2. CASE i = Len(path)
    BY <1>1, <1>3, <1>9, <2>1, <2>2
  <2>3. CASE i # Len(path)
    <3>1. i \in 1 .. Len(path) - 1 /\ i + 1 \in 1 .. Len(path)
      BY <1>1, <2>1, <2>3
    <3> QED
      BY <1>1, <2>1, <3>1 DEF CheckInv, Chain
  <2> QED
    BY <2>2, <2>3
<1>11. Followed'
  <2> SUFFICES ASSUME NEW i \in 1 .. Len(path'), NEW d \in Deps(path'[i]) \ left'[path'[i]]
               PROVE  d \in seen \/ (i < Len(path') /\ d = path'[i + 1])
    BY DEF Followed, Deps
  <2>1. CASE i = Len(path) + 1
    <3>1. left'[n] = Deps(n)
      BY <1>3, <1>6 DEF CheckInv, LeftOver
    <3> QED
      BY <1>1, <2>1, <3>1
  <2>2. CASE i = Len(path) /\ i # 0
    <3>1. path # << >> /\ path'[i] = Top /\ i < Len(path') /\ path'[i + 1] = n
      BY <1>1, <1>3, <2>2
    <3>2. left'[Top] = left[Top] \ {n}
      BY <1>3, <1>4, <3>1
    <3>3. \A e \in Deps(Top) \ left[Top] : e \in seen
      BY <1>3, <3>1 DEF CheckInv, Followed
    <3> QED
      BY <3>1, <3>2, <3>3
  <2>3. CASE i < Len(path)
    <3>1. i \in 1 .. Len(path) - 1 /\ i + 1 \in 1 .. Len(path) /\ path # << >>
      BY <1>1, <2>3
    <3>2. path'[i] = path[i] /\ path'[i + 1] = path[i + 1] /\ path[i] # Top
      BY <1>1, <1>3, <3>1 DEF CheckInv, TypeOK
    <3>3. left'[path[i]] = left[path[i]]
      BY <1>3, <1>6, <3>1, <3>2
    <3> QED
      BY <1>1, <2>3, <3>1, <3>2, <3>3 DEF CheckInv, Followed
  <2> QED
    BY <1>1, <2>1, <2>2, <2>3
<1>12. SeenClosed' /\ SeenFree'
  BY DEF CheckInv, SeenClosed, SeenFree, Deps, Knot
<1>13. AcceptsOnlyRunnable' /\ RejectsOnlyCycles'
  BY <1>2 DEF AcceptsOnlyRunnable, RejectsOnlyCycles
<1> QED
  BY <1>5, <1>7, <1>8, <1>10, <1>11, <1>12, <1>13 DEF CheckInv

LEMMA TryRootStep == ASSUME CheckInv, NEW n \in Name, TryRoot(n) PROVE CheckInv'
<1>1. n \in Ids /\ stack = {} /\ Len(path) = 0
  <2>1. Len(path) = 0
    BY DEF TryRoot
  <2> QED
    BY <2>1 DEF CheckInv, TypeOK, TryRoot, Ids
<1>2. CASE n \in seen
  <2>1. UNCHANGED <<intent, verdict, phase, seen, stack, path, left>> /\ roots' = roots \ {n}
    BY <1>1, <1>2 DEF TryRoot, Call
  <2>2. TypeOK' /\ Progress'
    BY <1>2, <2>1 DEF CheckInv, TypeOK, Progress, Ids, KnownDeps
  <2>3. LeftOver' /\ Chain' /\ Followed' /\ SeenClosed' /\ SeenFree'
    BY <2>1 DEF CheckInv, LeftOver, Chain, Followed, SeenClosed, SeenFree, Ids, Deps, Knot
  <2>4. AcceptsOnlyRunnable' /\ RejectsOnlyCycles'
    BY <2>1 DEF TryRoot, AcceptsOnlyRunnable, RejectsOnlyCycles
  <2> QED
    BY <2>2, <2>3, <2>4 DEF CheckInv
<1>3. CASE n \notin seen
  <2>1. Open(n)
    BY <1>1, <1>3 DEF TryRoot, Call
  <2> QED
    BY <1>1, <1>3, <2>1, OpenStep DEF TryRoot
<1> QED
  BY <1>2, <1>3

LEMMA FollowStep == ASSUME CheckInv, NEW d \in Name, Follow(d) PROVE CheckInv'
<1>1. /\ verdict = "none" /\ path # << >> /\ d \in left[Top] /\ Call(d)
      /\ left' = [left EXCEPT ![Top] = @ \ {d}]
      /\ UNCHANGED <<intent, phase, roots, seen>>
  BY DEF Follow
<1>2. /\ Len(path) \in Nat \ {0} /\ Top \in Ids /\ Top = path[Len(path)] /\ Top \in stack
      /\ \A i \in 1 .. Len(path) : path[i] \in Ids
  BY <1>1, OpenCalls DEF CheckInv, Top
<1>3. phase = "graph" /\ d \in Deps(Top) /\ d \in Ids
  BY <1>1, <1>2 DEF CheckInv, TypeOK, Progress, KnownDeps, LeftOver, Deps
<1>4. CASE d \notin stack /\ d \notin seen
  <2>1. Open(d)
    BY <1>1, <1>4 DEF Call
  <2> QED
    BY <1>1, <1>3, <1>4, <2>1, OpenStep
<1>5. CASE d \in stack \/ d \in seen
  <2>1. UNCHANGED <<intent, phase, roots, seen, stack, path>>
    BY <1>1, <1>5 DEF Call
  <2>2. verdict' = verdict \/ (d \in stack /\ verdict' = "cycle")
    BY <1>1, <1>5 DEF Call
  <2>3. left \in [Ids -> SUBSET Name] /\ left' \in [Ids -> SUBSET Name]
    BY <1>1, <1>2 DEF CheckInv, TypeOK
  <2>4. \A m \in Ids : left'[m] = left[m] \/ (m = Top /\ left'[m] = left[m] \ {d})
    BY <1>1, <1>2, <2>3
  <2>5. TypeOK'
    BY <2>1, <2>2, <2>3 DEF CheckInv, TypeOK, Ids
  <2>6. LeftOver' /\ Progress'
    BY <1>2, <1>3, <2>1, <2>4 DEF CheckInv, LeftOver, Progress, Deps, Ids, KnownDeps
  <2>7. Chain' /\ SeenClosed' /\ SeenFree'
    BY <2>1 DEF CheckInv, Chain, SeenClosed, SeenFree, Deps, Knot
  <2>8. Followed'
    <3> SUFFICES ASSUME verdict' = "none", NEW i \in 1 .. Len(path),
                        NEW e \in Deps(path[i]) \ left'[path[i]]
                 PROVE  e \in seen \/ (i < Len(path) /\ e = path[i + 1])
      BY <2>1 DEF Followed, Deps
    <3>1. d \in seen
      BY <1>1, <1>5 DEF Call
    <3>2. path[i] \in Ids
      BY <1>2
    <3>3. e = d \/ e \in Deps(path[i]) \ left[path[i]]
      BY <2>4, <3>2
    <3> QED
      BY <1>1, <3>1, <3>3 DEF CheckInv, Followed
  <2>9. AcceptsOnlyRunnable'
    BY <1>1, <2>2 DEF AcceptsOnlyRunnable
  <2>10. RejectsOnlyCycles'
    <3>1. CASE verdict' = verdict
      BY <1>1, <3>1 DEF RejectsOnlyCycles
    <3>2. CASE d \in stack
      <4>1. \E S \in SUBSET Ids : Knot(S)
        BY <1>1, <1>3, <3>2, StackKnot DEF CheckInv
      <4> QED
        BY <2>1, <4>1 DEF RejectsOnlyCycles, Ids, Knot
    <3> QED
      BY <2>2, <3>1, <3>2
  <2> QED
    BY <2>5, <2>6, <2>7, <2>8, <2>9, <2>10 DEF CheckInv
<1> QED
  BY <1>4, <1>5

LEMMA ReturnStep == ASSUME CheckInv, Return PROVE CheckInv'
<1>1. /\ verdict = "none" /\ path # << >> /\ left[Top] = {}
      /\ seen' = seen \cup {Top} /\ stack' = stack \ {Top}
      /\ path' = SubSeq(path, 1, Len(path) - 1)
      /\ UNCHANGED <<intent, verdict, phase, roots, left>>
  BY DEF Return
<1>2. /\ Len(path) \in Nat \ {0} /\ Top = path[Len(path)]
      /\ Top \in Ids /\ Top \in stack /\ Top \notin seen
      /\ \A i \in 1 .. Len(path) : path[i] \in Ids
  BY <1>1, OpenCalls DEF CheckInv, Top
<1>3. /\ path' \in Seq(Ids) /\ Len(path') = Len(path) - 1
      /\ \A i \in 1 .. Len(path') : path'[i] = path[i]
      /\ stack' = {path'[i] : i \in 1 .. Len(path')}
      /\ \A i, j \in 1 .. Len(path') : path'[i] = path'[j] => i = j
  BY <1>1, Returned DEF CheckInv
<1>4. TypeOK'
  BY <1>1, <1>2, <1>3 DEF CheckInv, TypeOK, Ids
<1>5. LeftOver' /\ Progress'
  BY <1>1, <1>2 DEF CheckInv, TypeOK, LeftOver, Progress, Deps, Ids, KnownDeps
<1>6. Chain'
  <2> SUFFICES ASSUME NEW i \in 1 .. Len(path') - 1 PROVE path'[i + 1] \in Deps(path'[i])
    BY <1>1 DEF Chain, Deps
  <2>1. i \in 1 .. Len(path) - 1 /\ i \in 1 .. Len(path') /\ i + 1 \in 1 .. Len(path')
    BY <1>2, <1>3
  <2> QED
    BY <1>3, <2>1 DEF CheckInv, Chain
<1>7. Followed'
  <2> SUFFICES ASSUME NEW i \in 1 .. Len(path'), NEW d \in Deps(path'[i]) \ left[path'[i]]
               PROVE  d \in seen \cup {Top} \/ (i < Len(path') /\ d = path'[i + 1])
    BY <1>1 DEF Followed, Deps
  <2>1. i \in 1 .. Len(path) /\ path'[i] = path[i]
    BY <1>2, <1>3
  <2>2. d \in seen \/ (i < Len(path) /\ d = path[i + 1])
    BY <1>1, <2>1 DEF CheckInv, Followed
  <2>3. CASE i = Len(path')
    BY <1>2, <1>3, <2>2, <2>3
  <2>4. CASE i # Len(path')
    <3>1. i < Len(path') /\ i + 1 \in 1 .. Len(path')
      BY <1>2, <1>3, <2>4
    <3> QED
      BY <1>3, <2>2, <3>1
  <2> QED
    BY <2>3, <2>4
<1>8. Deps(Top) \subseteq seen
  BY <1>1, <1>2 DEF CheckInv, Followed
<1>9. SeenClosed'
  BY <1>1, <1>8 DEF CheckInv, SeenClosed, Deps
<1>10. SeenFree'
  <2>1. \A S \in SUBSET (seen \cup {Top}) : ~Knot(S)
    BY <1>2, <1>8, NoNewKnot DEF CheckInv
  <2> QED
    BY <1>1, <2>1 DEF SeenFree, Knot
<1>11. AcceptsOnlyRunnable' /\ RejectsOnlyCycles'
  BY <1>1 DEF AcceptsOnlyRunnable, RejectsOnlyCycles
<1> QED
  BY <1>4, <1>5, <1>6, <1>7, <1>9, <1>10, <1>11 DEF CheckInv

LEMMA AcceptStep == ASSUME CheckInv, Accept PROVE CheckInv'
<1>1. /\ phase = "graph" /\ path = << >> /\ roots = {} /\ verdict' = "accepted"
      /\ UNCHANGED <<intent, phase, roots, seen, stack, path, left>>
  BY DEF Accept
<1>2. Len(path) = 0
  BY <1>1
<1>3. seen = Ids
  BY <1>1, <1>2 DEF CheckInv, TypeOK, Progress
<1>4. AcceptsOnlyRunnable'
  BY <1>1, <1>3 DEF CheckInv, AcceptsOnlyRunnable, SeenFree, Progress, KnownDeps, Ids, Knot
<1>5. TypeOK' /\ Progress'
  BY <1>1 DEF CheckInv, TypeOK, Progress, Ids, KnownDeps
<1>6. LeftOver' /\ Chain' /\ SeenClosed' /\ SeenFree'
  BY <1>1 DEF CheckInv, LeftOver, Chain, SeenClosed, SeenFree, Ids, Deps, Knot
<1>7. Followed' /\ RejectsOnlyCycles'
  BY <1>1 DEF Followed, RejectsOnlyCycles
<1> QED
  BY <1>4, <1>5, <1>6, <1>7 DEF CheckInv

LEMMA CheckStep == ASSUME CheckInv, [Next]_vars PROVE CheckInv'
<1>1. CASE Next
  BY <1>1, ScreenStep, ReturnStep, AcceptStep, TryRootStep, FollowStep DEF Next
<1>2. CASE UNCHANGED vars
  <2>1. TypeOK' /\ Progress'
    BY <1>2 DEF vars, CheckInv, TypeOK, Progress, Ids, KnownDeps
  <2>2. LeftOver' /\ Chain' /\ Followed' /\ SeenClosed' /\ SeenFree'
    BY <1>2 DEF vars, CheckInv, LeftOver, Chain, Followed, SeenClosed, SeenFree, Ids, Deps, Knot
  <2>3. AcceptsOnlyRunnable' /\ RejectsOnlyCycles'
    BY <1>2 DEF vars, CheckInv, AcceptsOnlyRunnable, RejectsOnlyCycles, Ids, Knot
  <2> QED
    BY <2>1, <2>2, <2>3 DEF CheckInv
<1> QED
  BY <1>1, <1>2
-----------------------------------------------------------------------------
(* The run.                                                                *)

Workers == AgentTask \cup TestTask
Begun   == {"running", "done"}

PlanInv ==
  /\ fix \in BOOLEAN /\ test \in BOOLEAN
  /\ deps = [a \in ActionName |-> IF a \in Planned THEN PlanDeps(fix, test)[a] ELSE {}]

\* What was begun has its dependencies done, and one handler runs at a time.
OrderInv ==
  /\ status \in [ActionName -> {"waiting", "running", "done", "dead"}]
  /\ \A a \in ActionName : status[a] \in Begun =>
       a \in Planned /\ \A d \in deps[a] : status[d] = "done"
  /\ \A a, b \in ActionName : Running(a) /\ Running(b) => a = b

StageInv ==
  /\ stage \in {"none", "begun", "open", "known"}
  /\ stage = "none" <=> \A a \in ActionName : ~Running(a)
  /\ \A a \in ActionName : Running(a) =>
       /\ stage = "begun" => a \notin TestTask
       /\ stage = "open" => a \in Workers
       /\ stage = "known" => a \in Workers \cup {"verify"}
  /\ outcome # "none" => stage = "none"

DataInv ==
  /\ tree \in 1 .. MaxTree /\ diff \in 0 .. tree
  /\ heals \in 0 .. MaxHeal /\ ran \in BOOLEAN /\ (~ran => heals = 0)
  /\ testsOk \in {"None", "True", "False"} /\ verifyOk \in BOOLEAN
  /\ tested \in [tree : 0 .. tree, ok : BOOLEAN]
  /\ audited \in [tree : 0 .. tree, ok : BOOLEAN]
  /\ outcome \in {"none", "success", "failure"}

IsTested  == tested = [tree |-> tree, ok |-> (testsOk = "True")]
IsAudited == audited = [tree |-> tree, ok |-> TRUE]

\* The evidence: what is in ctx is about the tree as it is, from the moment
\* a handler has put it there until the next agent or test may write.
EvidenceInv ==
  /\ stage = "known" /\ (\E a \in Workers : Running(a)) => IsTested
  /\ status["retest"] = "done" => IsTested
  /\ verifyOk => status["retest"] = "done" /\ testsOk = "True" /\ IsAudited
  /\ ~(fix \/ test) => testsOk = "None"
  /\ status["verify"] = "done" => diff = tree
  /\ outcome = "success" => verifyOk /\ status["report"] = "done"

PipelineInv == PlanInv /\ OrderInv /\ StageInv /\ DataInv /\ EvidenceInv
-----------------------------------------------------------------------------
(* The order of the plans.                                                 *)

Names == {"inspect", "locate", "analyze", "candidate", "apply_isolated",
          "focused_tests", "repair", "retest", "verify", "report"}

LEMMA NamesAre == ActionName = Names /\ Workers \subseteq Names /\ AgentTask \cap TestTask = {}
  BY DEF ActionName, InspectActions, FixActions, TestActions, EndActions, Names, Workers,
    AgentTask, TestTask

LEMMA DepsAre ==
  ASSUME PlanInv
  PROVE  /\ fix => "apply_isolated" \in deps["focused_tests"] /\ "candidate" \in deps["apply_isolated"]
         /\ fix \/ test =>
              /\ "focused_tests" \in deps["repair"] /\ "repair" \in deps["retest"]
              /\ "retest" \in deps["verify"]
         /\ "verify" \in deps["report"]
         /\ ~fix => "candidate" \notin Planned /\ "apply_isolated" \notin Planned
         /\ ~(fix \/ test) => \A a \in Workers : a \notin Planned
  BY DEF PlanInv, Planned, PlanIds, PlanDeps, ActionName, InspectActions, FixActions, TestActions,
    EndActions, Workers, AgentTask, TestTask

\* No agent and no test runs after the retest, or in a plan without tests.
LEMMA NothingWritesAfter ==
  ASSUME PlanInv, OrderInv
  PROVE  /\ status["retest"] = "done" => \A a \in Workers : ~Running(a)
         /\ ~(fix \/ test) => \A a \in Workers : status[a] \notin Begun
<1> USE NamesAre DEF Names, OrderInv, Begun, Running
<1>1. ASSUME status["retest"] = "done", NEW a \in Workers PROVE ~Running(a)
  <2>1. "retest" \in Planned
    BY <1>1
  <2>2. fix \/ test
    BY <1>1, <2>1, DepsAre DEF Workers, TestTask
  <2>3. status["repair"] = "done" /\ status["focused_tests"] = "done"
    BY <1>1, <2>2, DepsAre
  <2>4. fix => status["apply_isolated"] = "done" /\ status["candidate"] = "done"
    BY <2>3, DepsAre
  <2>5. ~fix => ~Running("apply_isolated") /\ ~Running("candidate")
    BY DepsAre
  <2> QED
    BY <1>1, <2>3, <2>4, <2>5 DEF Workers, AgentTask, TestTask
<1>2. ASSUME ~(fix \/ test), NEW a \in Workers PROVE status[a] \notin Begun
  BY <1>2, DepsAre
<1> QED
  BY <1>1, <1>2

\* verify comes after the retest, report after verify.
LEMMA VerifyIsLate ==
  ASSUME PlanInv, OrderInv
  PROVE  /\ status["verify"] \in Begun /\ (fix \/ test) => status["retest"] = "done"
         /\ status["report"] \in Begun => status["verify"] = "done"
  BY NamesAre, DepsAre DEF Names, OrderInv

LEMMA VerifiedIsQuiet ==
  ASSUME PlanInv, OrderInv, status["verify"] \in Begun
  PROVE  \A a \in Workers : ~Running(a)
  BY NothingWritesAfter, VerifyIsLate DEF Begun, Running
-----------------------------------------------------------------------------
(* The steps.                                                              *)

LEMMA RunInit == PipelineInit => PipelineInv
<1> SUFFICES ASSUME PipelineInit PROVE PipelineInv
  OBVIOUS
<1>1. PlanInv
  BY DEF PipelineInit, PlanInv
<1>2. OrderInv /\ StageInv
  BY DEF PipelineInit, OrderInv, StageInv, Running, Begun
<1>3. DataInv
  <2>1. /\ tree \in 1 .. MaxTree /\ diff \in 0 .. tree /\ heals \in 0 .. MaxHeal
        /\ 0 \in 0 .. tree
    BY PipelineAssumption DEF PipelineInit
  <2>2. tested \in [tree : 0 .. tree, ok : BOOLEAN] /\ audited \in [tree : 0 .. tree, ok : BOOLEAN]
    BY <2>1 DEF PipelineInit, Never
  <2> QED
    BY <2>1, <2>2 DEF PipelineInit, DataInv
<1>4. EvidenceInv
  BY NamesAre DEF PipelineInit, EvidenceInv, Names
<1> QED
  BY <1>1, <1>2, <1>3, <1>4 DEF PipelineInv

LEMMA BeginKeeps == ASSUME PipelineInv, NEW a \in ActionName, Begin(a) PROVE PipelineInv'
<1> USE NamesAre DEF PipelineInv
<1>1. /\ status' = [status EXCEPT ![a] = "running"] /\ a \in Planned /\ status[a] = "waiting"
      /\ \A d \in deps[a] : status[d] = "done"
      /\ stage = "none" /\ outcome = "none" /\ UNCHANGED <<plan, tree, ctx, outcome>>
      /\ stage' = IF a \in TestTask THEN "open" ELSE "begun"
  BY DEF Begin, Engine!Begin
<1>2. OrderInv'
  BY <1>1 DEF OrderInv, StageInv, Running, Begun, plan, Planned
<1>3. StageInv'
  BY <1>1 DEF OrderInv, StageInv, Running, Workers
<1>4. PlanInv' /\ DataInv'
  BY <1>1 DEF PlanInv, DataInv, plan, ctx, Planned
<1>5. EvidenceInv'
  <2>1. stage' # "known" /\ \A b \in ActionName : status'[b] = "done" <=> status[b] = "done"
    BY <1>1 DEF OrderInv
  <2> QED
    BY <1>1, <2>1 DEF EvidenceInv, IsTested, IsAudited, plan, ctx, Names
<1> QED
  BY <1>2, <1>3, <1>4, <1>5

\* A handler ends: its task is done, waits again or is dead.
LEMMA EndKeeps ==
  ASSUME PipelineInv, NEW a \in ActionName, Running(a), stage' = "none", UNCHANGED <<plan, outcome>>,
         NEW s \in {"waiting", "done", "dead"}, status' = [status EXCEPT ![a] = s]
  PROVE  /\ PlanInv' /\ OrderInv' /\ StageInv'
         /\ status'[a] = s
         /\ \A b \in ActionName \ {a} : status'[b] = status[b] /\ ~Running(b)
<1> USE DEF PipelineInv, OrderInv, Running
<1>1. status'[a] = s /\ \A b \in ActionName \ {a} : status'[b] = status[b] /\ ~Running(b)
  OBVIOUS
<1>2. PlanInv'
  BY DEF PlanInv, plan, Planned
<1>3. \A b \in ActionName : \A d \in deps[b] : d \in ActionName
  BY DEF PlanInv, Planned, PlanIds, PlanDeps, ActionName, InspectActions, FixActions, TestActions, EndActions
<1>4. OrderInv'
  BY <1>1, <1>3 DEF Begun, plan, Planned
<1>5. StageInv'
  BY <1>1 DEF StageInv
<1> QED
  BY <1>1, <1>2, <1>4, <1>5

LEMMA ReturnIs == \A a \in ActionName : Finish(a) =>
    status' = [status EXCEPT ![a] = "done"] /\ stage' = "none"
  BY DEF Finish, Engine!Complete

LEMMA FailIs == ASSUME OrderInv PROVE \A a \in ActionName : Fail(a) =>
    status' = [status EXCEPT ![a] = "dead"] /\ stage' = "none"
  BY DEF Fail, Engine!GiveUp, OrderInv

LEMMA RequeueIs == ASSUME OrderInv PROVE \A a \in ActionName : Requeue(a) =>
    /\ stage' = "none"
    /\ \E s \in {"waiting", "dead"} : status' = [status EXCEPT ![a] = s]
  BY DEF Requeue, Engine!GiveUp, Engine!ComeBack, OrderInv

\* It raises, is skipped, or had nothing to do with ctx.
LEMMA EndsQuietly ==
  ASSUME PipelineInv, NEW a \in ActionName, Raise(a) \/ HealLimit(a) \/ Plain(a) \/ Skip(a)
  PROVE  PipelineInv'
<1> USE NamesAre DEF PipelineInv
<1>1. Running(a) /\ UNCHANGED <<plan, tree, ctx, outcome>>
  BY DEF Raise, HealLimit, Plain, Skip
<1>2. PICK s \in {"waiting", "done", "dead"} :
        /\ status' = [status EXCEPT ![a] = s] /\ stage' = "none"
        /\ s = "done" => a # "verify" /\ (a = "retest" => FALSE)
  <2>1. CASE Raise(a) \/ HealLimit(a)
    BY <2>1, RequeueIs DEF Raise, HealLimit
  <2>2. CASE Plain(a) \/ Skip(a)
    BY <2>2, ReturnIs DEF Plain, Skip, AgentTask, TestTask
  <2> QED
    BY <2>1, <2>2
<1>3. /\ PlanInv' /\ OrderInv' /\ StageInv' /\ status'[a] = s
      /\ \A b \in ActionName \ {a} : status'[b] = status[b]
  BY <1>1, <1>2, EndKeeps
<1>4. DataInv'
  BY <1>1 DEF DataInv, ctx
<1>5. EvidenceInv'
  <2>1. \A b \in {"verify", "retest"} : status'[b] = "done" <=> status[b] = "done"
    BY <1>1, <1>2, <1>3 DEF Running, Names
  <2>2. status["report"] = "done" => status'["report"] = "done"
    BY <1>1, <1>2, <1>3 DEF Running, Names
  <2> QED
    BY <1>1, <1>2, <2>1, <2>2 DEF EvidenceInv, IsTested, IsAudited, plan, ctx
<1> QED
  BY <1>3, <1>4, <1>5

LEMMA OpenKeeps == ASSUME PipelineInv, NEW a \in ActionName, OpenAgent(a) PROVE PipelineInv'
<1> USE NamesAre DEF PipelineInv
<1>1. /\ Running(a) /\ a \in AgentTask /\ stage = "begun" /\ stage' = "open"
      /\ ~HealsSpent /\ heals' = heals + 1 /\ ran' = TRUE
      /\ UNCHANGED <<plan, status, tree, testsOk, verifyOk, diff, tested, audited, outcome>>
  BY DEF OpenAgent
<1>2. heals' \in 0 .. MaxHeal
  BY <1>1, PipelineAssumption DEF DataInv, HealsSpent
<1>3. DataInv'
  BY <1>1, <1>2 DEF DataInv
<1>4. PlanInv' /\ OrderInv'
  BY <1>1 DEF PlanInv, OrderInv, plan, Planned, Running, Begun
<1>5. StageInv'
  BY <1>1 DEF StageInv, OrderInv, Running, Workers
<1>6. EvidenceInv'
  BY <1>1 DEF EvidenceInv, IsTested, IsAudited, plan, Running
<1> QED
  BY <1>3, <1>4, <1>5, <1>6

\* Whoever is open in the workspace, the retest and the verification are not
\* begun, so that there is no evidence yet that a change could belie.
LEMMA OpenIsEarly ==
  ASSUME PipelineInv, stage = "open"
  PROVE  /\ fix \/ test
         /\ ~verifyOk /\ status["retest"] # "done" /\ status["verify"] # "done"
         /\ outcome = "none" /\ status["report"] # "done"
<1> USE NamesAre DEF PipelineInv
<1>1. PICK a \in Workers : Running(a)
  BY DEF StageInv
<1>2. status["retest"] # "done" /\ status["verify"] \notin Begun
  BY <1>1, NothingWritesAfter, VerifiedIsQuiet
<1>3. fix \/ test
  BY <1>1, NothingWritesAfter DEF Begun, Running
<1>4. status["report"] # "done"
  BY <1>2, VerifyIsLate DEF Begun
<1>5. ~verifyOk
  BY <1>2 DEF EvidenceInv
<1>6. outcome = "none"
  BY DEF StageInv
<1> QED
  BY <1>2, <1>3, <1>4, <1>5, <1>6 DEF Begun

LEMMA WriteKeeps == ASSUME PipelineInv, Write PROVE PipelineInv'
<1> USE DEF PipelineInv
<1>1. /\ stage = "open" /\ tree < MaxTree /\ tree' = tree + 1
      /\ UNCHANGED <<plan, status, stage, ctx, outcome>>
  BY DEF Write
<1>2. PlanInv' /\ OrderInv' /\ StageInv'
  BY <1>1 DEF PlanInv, OrderInv, StageInv, plan, Planned, Running, Begun
<1>3. DataInv'
  <2>1. tree' \in 1 .. MaxTree /\ 0 .. tree \subseteq 0 .. tree'
    BY <1>1, PipelineAssumption DEF DataInv
  <2>2. tested' \in [tree : 0 .. tree', ok : BOOLEAN] /\ audited' \in [tree : 0 .. tree', ok : BOOLEAN]
    BY <1>1, <2>1 DEF DataInv, ctx
  <2> QED
    BY <1>1, <2>1, <2>2 DEF DataInv, ctx
<1>4. EvidenceInv'
  BY <1>1, OpenIsEarly DEF EvidenceInv, plan, ctx
<1> QED
  BY <1>2, <1>3, <1>4

LEMMA TestsKeeps == ASSUME PipelineInv, Tests PROVE PipelineInv'
<1> USE DEF PipelineInv
<1>1. PICK ok \in BOOLEAN :
        /\ testsOk' = IF ok THEN "True" ELSE "False"
        /\ tested' = [tree |-> tree, ok |-> ok]
  BY DEF Tests
<1>2. /\ stage = "open" /\ stage' = "known"
      /\ UNCHANGED <<plan, status, tree, heals, ran, verifyOk, diff, audited, outcome>>
  BY DEF Tests
<1>3. PlanInv' /\ OrderInv'
  BY <1>2 DEF PlanInv, OrderInv, plan, Planned, Running, Begun
<1>4. StageInv'
  BY <1>2 DEF StageInv, Running
<1>5. DataInv'
  BY <1>1, <1>2 DEF DataInv
<1>6. EvidenceInv'
  BY <1>1, <1>2, OpenIsEarly DEF EvidenceInv, IsTested, IsAudited, plan
<1> QED
  BY <1>3, <1>4, <1>5, <1>6

\* verify finds the result of the last tests, and no one writes beside it.
LEMMA VerifyKeeps == ASSUME PipelineInv, Verify PROVE PipelineInv'
<1> USE NamesAre DEF PipelineInv
<1>1. PICK clean \in BOOLEAN :
        audited' = [tree |-> tree, ok |-> clean] /\ verifyOk' = (testsOk = "True" /\ clean)
  BY DEF Verify
<1>2. /\ Running("verify") /\ stage = "begun" /\ stage' = "known"
      /\ UNCHANGED <<plan, status, tree, heals, ran, testsOk, diff, tested, outcome>>
  BY DEF Verify
<1>3. PlanInv' /\ OrderInv'
  BY <1>2 DEF PlanInv, OrderInv, plan, Planned, Running, Begun
<1>4. \A a \in ActionName : Running(a) => a = "verify"
  BY <1>2 DEF OrderInv, Names
<1>5. StageInv'
  BY <1>2, <1>4 DEF StageInv, Running
<1>6. DataInv'
  BY <1>1, <1>2 DEF DataInv
<1>7. testsOk = "True" => status["retest"] = "done"
  BY <1>2, VerifyIsLate DEF EvidenceInv, Running, Begun
<1>8. \A a \in Workers : ~Running(a)
  BY <1>2, VerifiedIsQuiet DEF Begun, Running
<1>9. outcome = "none"
  BY <1>2 DEF StageInv
<1>10. EvidenceInv'
  <2>1. testsOk = "True" /\ audited'.ok => IsAudited'
    BY <1>1, <1>2 DEF IsAudited
  <2>2. verifyOk' => status'["retest"] = "done" /\ testsOk' = "True" /\ IsAudited'
    BY <1>1, <1>2, <1>7 DEF IsAudited
  <2> QED
    BY <1>2, <1>8, <1>9, <2>2 DEF EvidenceInv, IsTested, plan, Running
<1> QED
  BY <1>3, <1>5, <1>6, <1>10

\* A handler answers: what the last tests saw becomes the retest's evidence.
LEMMA ConcludeKeeps == ASSUME PipelineInv, NEW a \in ActionName, Conclude(a) PROVE PipelineInv'
<1> USE NamesAre DEF PipelineInv
<1>1. /\ Running(a) /\ stage = "known" /\ diff' = tree
      /\ UNCHANGED <<plan, tree, heals, ran, testsOk, verifyOk, tested, audited, outcome>>
  BY DEF Conclude
<1>2. PICK s \in {"dead", "done"} : status' = [status EXCEPT ![a] = s] /\ stage' = "none"
  BY ReturnIs, FailIs DEF Conclude
<1>3. /\ PlanInv' /\ OrderInv' /\ StageInv' /\ status'[a] = s
      /\ \A b \in ActionName \ {a} : status'[b] = status[b]
  BY <1>1, <1>2, EndKeeps
<1>4. DataInv'
  BY <1>1 DEF DataInv
<1>5. a # "report" /\ a \in Workers \cup {"verify"}
  BY <1>1 DEF StageInv, Workers, AgentTask, TestTask
<1>6. a \in Workers => IsTested
  BY <1>1 DEF EvidenceInv
<1>7. status'["retest"] = "done" => IsTested'
  BY <1>1, <1>3, <1>5, <1>6 DEF EvidenceInv, IsTested, Names, Workers, TestTask
<1>8. verifyOk' => status'["retest"] = "done" /\ testsOk' = "True" /\ IsAudited'
  <2>1. SUFFICES ASSUME verifyOk
                 PROVE  status'["retest"] = "done" /\ testsOk' = "True" /\ IsAudited'
    BY <1>1
  <2>2. status["retest"] = "done" /\ testsOk = "True" /\ IsAudited
    BY <2>1 DEF EvidenceInv
  <2>3. a # "retest"
    BY <1>1, <2>2 DEF Running
  <2> QED
    BY <1>1, <1>3, <2>2, <2>3 DEF IsAudited, Names
<1>9. outcome' # "success"
  BY <1>1 DEF StageInv, DataInv
<1> QED
  <2>1. EvidenceInv'
    BY <1>1, <1>2, <1>7, <1>8, <1>9 DEF EvidenceInv, plan
  <2> QED
    BY <1>3, <1>4, <2>1

LEMMA DecideKeeps == ASSUME PipelineInv, Decide PROVE PipelineInv'
<1> USE DEF PipelineInv
<1>1. /\ stage = "none" /\ outcome = "none"
      /\ outcome' = IF status["report"] = "done" /\ verifyOk THEN "success" ELSE "failure"
      /\ UNCHANGED <<plan, status, stage, tree, ctx>>
  BY DEF Decide
<1>2. PlanInv' /\ OrderInv' /\ StageInv'
  BY <1>1 DEF PlanInv, OrderInv, StageInv, plan, Planned, Running, Begun
<1>3. DataInv'
  BY <1>1 DEF DataInv, ctx
<1>4. EvidenceInv'
  BY <1>1 DEF EvidenceInv, IsTested, IsAudited, plan, ctx, Running
<1> QED
  BY <1>2, <1>3, <1>4

LEMMA RunStep == PipelineInv /\ [PipelineNext]_pipeline => PipelineInv'
<1> SUFFICES ASSUME PipelineInv, [PipelineNext]_pipeline PROVE PipelineInv'
  OBVIOUS
<1>1. ASSUME NEW a \in ActionName,
             Begin(a) \/ Raise(a) \/ Plain(a) \/ Skip(a) \/ HealLimit(a) \/ OpenAgent(a) \/ Conclude(a)
      PROVE  PipelineInv'
  BY <1>1, BeginKeeps, EndsQuietly, OpenKeeps, ConcludeKeeps
<1>2. CASE Write \/ Tests \/ Verify \/ Decide
  BY <1>2, WriteKeeps, TestsKeeps, VerifyKeeps, DecideKeeps
<1>3. CASE UNCHANGED pipeline
  BY <1>3 DEF PipelineInv, PlanInv, OrderInv, StageInv, DataInv, EvidenceInv, IsTested, IsAudited,
    pipeline, plan, ctx, Planned, Running, Begun
<1> QED
  BY <1>1, <1>2, <1>3 DEF PipelineNext
-----------------------------------------------------------------------------
(* What _plan makes.                                                       *)

\* No actions of a plan wait for each other: each waits for the one before it.
LEMMA PlansAreFree ==
  ASSUME NEW f \in BOOLEAN, NEW t \in BOOLEAN, intent = Plan(f, t), NEW S \in SUBSET Ids
  PROVE  ~Knot(S)
<1> SUFFICES ASSUME Knot(S) PROVE FALSE
  OBVIOUS
<1> DEFINE D == PlanDeps(f, t)
<1>1. Ids = PlanIds(f, t) /\ intent.deps = D
  BY DEF Plan, Ids
<1>2. \A a \in S : a \in PlanIds(f, t) /\ D[a] \cap S # {}
  BY <1>1 DEF Knot
<1>3. S # {} /\ S \subseteq ActionName
  BY <1>1 DEF Knot, PlanIds, ActionName
<1>4. "inspect" \notin S
  BY <1>2 DEF PlanDeps
<1>5. "locate" \notin S
  BY <1>2, <1>4 DEF PlanDeps
<1>6. "analyze" \notin S
  BY <1>2, <1>5 DEF PlanDeps
<1>7. "candidate" \notin S
  BY <1>2, <1>6 DEF PlanDeps
<1>8. "apply_isolated" \notin S
  BY <1>2, <1>7 DEF PlanDeps
<1>9. "focused_tests" \notin S
  BY <1>2, <1>6, <1>8 DEF PlanDeps
<1>10. "repair" \notin S
  BY <1>2, <1>9 DEF PlanDeps
<1>11. "retest" \notin S
  BY <1>2, <1>10 DEF PlanDeps
<1>12. "verify" \notin S
  BY <1>2, <1>6, <1>11 DEF PlanDeps
<1>13. "report" \notin S
  BY <1>2, <1>12 DEF PlanDeps
<1> QED
  BY <1>3, <1>4, <1>5, <1>6, <1>7, <1>8, <1>9, <1>10, <1>11, <1>12, <1>13
     DEF ActionName, InspectActions, FixActions, TestActions, EndActions

LEMMA PlansAreKnown ==
  ASSUME NEW f \in BOOLEAN, NEW t \in BOOLEAN, intent = Plan(f, t)
  PROVE  KnownDeps
<1>1. Ids = PlanIds(f, t) /\ intent.deps = PlanDeps(f, t)
  BY DEF Plan, Ids
<1> SUFFICES ASSUME NEW a \in PlanIds(f, t)
             PROVE  PlanDeps(f, t)[a] \subseteq PlanIds(f, t) /\ a \notin PlanDeps(f, t)[a]
  BY <1>1 DEF KnownDeps
<1> QED
  BY DEF PlanDeps, PlanIds, InspectActions, FixActions, TestActions, EndActions

LEMMA PlansAreWellFormed ==
  ASSUME NEW f \in BOOLEAN, NEW t \in BOOLEAN, intent = Plan(f, t)
  PROVE  intent.fieldsOk
<1> SUFFICES ASSUME NEW a \in PlanIds(f, t)
             PROVE  Agent(a) \in ALLOWED_ROLES /\ Permission(a) \in ALLOWED_PERMISSIONS
  BY DEF Plan, FieldsOk
<1>1. a \in ActionName
  BY DEF PlanIds, ActionName
<1>2. Agent(a) \in ALLOWED_ROLES
  BY <1>1 DEF Agent, ALLOWED_ROLES, ActionName, InspectActions, FixActions, TestActions, EndActions
<1>3. Permission(a) \in ALLOWED_PERMISSIONS
  BY <1>1 DEF Permission, ALLOWED_PERMISSIONS, ActionName, InspectActions, FixActions, TestActions,
              EndActions
<1> QED
  BY <1>2, <1>3

\* What is refused for its fields or its graph is refused with a reason.
RefusedInv == verdict = "invalid" => ~(intent.fieldsOk /\ KnownDeps)

LEMMA RefusedStep == ASSUME RefusedInv, [Next]_vars PROVE RefusedInv'
  BY DEF RefusedInv, Next, Screen, Return, Accept, TryRoot, Follow, Call, Open, KnownDeps, Ids, vars
-----------------------------------------------------------------------------
(* The theorems.                                                           *)

(* The run from request to verdict is a run of each of its two parts: the  *)
(* validation and, beside it, the pipeline.                                *)
THEOREM RunIsOfBoth == SpecRun => Spec /\ PipelineSpec
<1>1. InitRun => Init /\ PipelineInit
  BY DEF InitRun
<1>2. [NextRun]_<<vars, pipeline>> => [Next]_vars /\ [PipelineNext]_pipeline
  BY DEF NextRun, Compile, Run
<1> QED
  BY <1>1, <1>2, PTL DEF SpecRun, Spec, PipelineSpec

(* The invariant of the search: where it stands, what it has seen is       *)
(* closed under dependencies and free of knots.                            *)
THEOREM SearchInvariant == SpecRun => []CheckInv
<1>1. Spec => []CheckInv
  BY CheckInit, CheckStep, PTL DEF Spec
<1> QED
  BY <1>1, RunIsOfBoth, PTL

(* Types, and the discipline of the stack: no node is open twice or after  *)
(* it was seen.                                                            *)
THEOREM SearchTypes == SpecRun => []TypeOK
<1>1. CheckInv => TypeOK
  BY DEF CheckInv
<1> QED
  BY <1>1, SearchInvariant, PTL

(* An accepted intent has known dependencies only and no set of actions    *)
(* that waits for itself; a refusal for a cycle comes with such a set.     *)
THEOREM DecisionIsRight == SpecRun => []DecidesRunnable
<1>1. CheckInv => DecidesRunnable
  BY DEF CheckInv, DecidesRunnable
<1> QED
  BY <1>1, SearchInvariant, PTL

(* validate never refuses what _plan makes (compiler.py, _plan), so every  *)
(* request that is compiled is run.                                        *)
THEOREM PlansAreAccepted ==
  SpecRun => [](\A f, t \in BOOLEAN : intent = Plan(f, t) => verdict \in {"none", "accepted"})
<1>1. Spec => []RefusedInv
  <2>1. Init => RefusedInv
    BY DEF Init, RefusedInv
  <2> QED
    BY <2>1, RefusedStep, PTL DEF Spec
<1>2. CheckInv /\ RefusedInv =>
        (\A f, t \in BOOLEAN : intent = Plan(f, t) => verdict \in {"none", "accepted"})
  <2> SUFFICES ASSUME CheckInv, RefusedInv, NEW f \in BOOLEAN, NEW t \in BOOLEAN, intent = Plan(f, t)
               PROVE  verdict \in {"none", "accepted"}
    OBVIOUS
  <2>1. verdict # "invalid"
    BY PlansAreKnown, PlansAreWellFormed DEF RefusedInv
  <2>2. verdict # "cycle"
    BY PlansAreFree DEF CheckInv, RejectsOnlyCycles
  <2> QED
    BY <2>1, <2>2 DEF CheckInv, TypeOK
<1> QED
  BY <1>1, <1>2, SearchInvariant, RunIsOfBoth, PTL

(* The strengthening of everything below holds in every reachable state.   *)
THEOREM RunInvariant == SpecRun => []PipelineInv
<1>1. PipelineSpec => []PipelineInv
  BY RunInit, RunStep, PTL DEF PipelineSpec
<1> QED
  BY <1>1, RunIsOfBoth, PTL

(* The types of the pipeline, and with them the budget: over all tasks and *)
(* any number of retries of each, no more than max_heal agents are opened. *)
THEOREM RunTypes == SpecRun => []PipelineTypeOK
<1>1. PipelineInv => PipelineTypeOK
  BY DEF PipelineInv, PlanInv, OrderInv, StageInv, DataInv, PipelineTypeOK
<1> QED
  BY <1>1, RunInvariant, PTL

(* A success is of the tree that the last tests passed on, that was        *)
(* audited and whose difference is reported, and was asked for.            *)
THEOREM OfferIsEarned == SpecRun => []SuccessIsEarned
<1>1. PipelineInv => SuccessIsEarned
  <2> SUFFICES ASSUME PipelineInv, outcome = "success"
               PROVE  /\ IsTested /\ testsOk = "True" /\ IsAudited
                      /\ diff = tree /\ (fix \/ test)
    BY DEF IsTested, IsAudited, SuccessIsEarned
  <2>1. /\ verifyOk /\ status["report"] = "done"
        /\ status["retest"] = "done" /\ testsOk = "True" /\ IsAudited
    BY DEF PipelineInv, EvidenceInv
  <2>2. status["verify"] = "done"
    BY <2>1, VerifyIsLate DEF PipelineInv, Begun
  <2> QED
    BY <2>1, <2>2 DEF PipelineInv, EvidenceInv
<1> QED
  BY <1>1, RunInvariant, PTL

(* Once verify is done, no step changes the tree or what is known of it.   *)
THEOREM VerifiedIsKept == SpecRun => VerifiedStaysPut
<1>1. ASSUME PipelineInv, [PipelineNext]_pipeline, status["verify"] = "done"
      PROVE  UNCHANGED <<tree, testsOk, verifyOk, diff>>
  <2> USE <1>1, NamesAre DEF PipelineInv
  <2>1. stage # "open" /\ ~Running("verify") /\ \A a \in Workers : ~Running(a)
    BY OpenIsEarly, VerifiedIsQuiet DEF Begun, Running
  <2>2. ASSUME NEW a \in ActionName, Conclude(a) PROVE FALSE
    BY <2>1, <2>2 DEF Conclude, StageInv
  <2>3. ASSUME NEW a \in ActionName,
               Begin(a) \/ Raise(a) \/ Plain(a) \/ Skip(a) \/ HealLimit(a) \/ OpenAgent(a)
        PROVE  UNCHANGED <<tree, testsOk, verifyOk, diff>>
    BY <2>3 DEF Begin, Raise, Plain, Skip, HealLimit, OpenAgent, ctx
  <2>4. ~Write /\ ~Tests /\ ~Verify
    BY <2>1 DEF Write, Tests, Verify
  <2>5. CASE Decide \/ UNCHANGED pipeline
    BY <2>5 DEF Decide, pipeline, ctx
  <2> QED
    BY <2>2, <2>3, <2>4, <2>5 DEF PipelineNext
<1> QED
  BY <1>1, RunInvariant, RunIsOfBoth, PTL DEF PipelineSpec, VerifiedStaysPut
=============================================================================
