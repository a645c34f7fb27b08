----------------------------- MODULE PartsProofs -----------------------------
(***************************************************************************)
(* The parts of an agent's turn, one after the other, and what the runs    *)
(* say of them: for every size of the pipe, every set of files, contents,  *)
(* providers and tests, every number of turns.                             *)
(***************************************************************************)
EXTENDS Parts, SequenceTheorems, TLAPS
-----------------------------------------------------------------------------
(* The parts, in NextParts.                                                *)

\* A step is one of the part at work.
LEMMA PartSteps ==
  ASSUME [NextParts]_all
  PROVE  /\ part' = part
         /\ part = "loop" => [Loop!Next]_(Loop!vars)
         /\ part = "pytest" => [Next]_vars
         /\ part = "graph" => [Graph!Next]_(Graph!vars)
         /\ part = "patches" => [Patches!Next]_(Patches!vars)
         /\ part = "router" => [Routing!Next]_(Routing!vars)
         /\ part = "coder" => [Coding!Next]_(Coding!vars)
         /\ part = "synth" => [Search!Next]_(Search!vars)
<1>1. CASE NextParts
  BY <1>1 DEF NextParts
<1>2. CASE UNCHANGED all
  BY <1>2 DEF all, vars, looping, Loop!vars, Loop!agent, Loop!history, graph, patching, routing, coding, search, Graph!vars, Graph!graph, Patches!vars,
              Routing!vars, Coding!vars, Coding!repo, Coding!coder, Coding!loop, Coding!hist, Search!vars
<1> QED
  BY <1>1, <1>2

LEMMA PartInits ==
  ASSUME InitParts
  PROVE  /\ part = "loop" => Loop!Init
         /\ part = "pytest" => Init
         /\ part = "graph" => Graph!Init
         /\ part = "patches" => Patches!Init
         /\ part = "router" => Routing!Init
         /\ part = "coder" => Coding!Init
         /\ part = "synth" => Search!Init
  BY DEF InitParts, InitLoop, InitPytest, InitGraph, InitPatches, InitRouting, InitCoding, InitSearch
-----------------------------------------------------------------------------
(* The agent loop.                                                         *)

LoopT == INSTANCE AgentLoopProofs WITH MaxIters <- LoopIters, MaxHeal <- LoopHeals,
                                       pc <- loopPc, i <- round, token <- cancel

LEMMA SameLoop ==
  /\ Loop!Init = LoopT!Init
  /\ [Loop!Next]_(Loop!vars) = [LoopT!Next]_(LoopT!vars)
  /\ Loop!LimitAssumption = LoopT!LimitAssumption
  /\ Loop!PermissionsNeverEscalate = LoopT!PermissionsNeverEscalate
  /\ Loop!CallBudget = LoopT!CallBudget
  /\ Loop!AtMostOneLateStep = LoopT!AtMostOneLateStep
  BY DEF Loop!LimitAssumption, LoopT!LimitAssumption, Loop!ReadTools, LoopT!ReadTools, Loop!ExecTools,
         LoopT!ExecTools, Loop!GitTools, LoopT!GitTools, Loop!Tool, LoopT!Tool,
         Loop!Permissions, LoopT!Permissions, Loop!RequiresArgs, LoopT!RequiresArgs,
         Loop!DANGEROUS, LoopT!DANGEROUS, Loop!Contract, LoopT!Contract, Loop!ROLES,
         LoopT!ROLES, Loop!Answer, LoopT!Answer, Loop!agent, LoopT!agent, Loop!history,
         LoopT!history, Loop!vars, LoopT!vars, Loop!Init, LoopT!Init, Loop!Role, LoopT!Role,
         Loop!RoleAllows, LoopT!RoleAllows, Loop!CallCap, LoopT!CallCap, Loop!Goto, LoopT!Goto,
         Loop!Begin, LoopT!Begin, Loop!NextRound, LoopT!NextRound, Loop!Enter, LoopT!Enter,
         Loop!Top, LoopT!Top, Loop!Ask, LoopT!Ask, Loop!ModelAnswers, LoopT!ModelAnswers,
         Loop!ModelRaises, LoopT!ModelRaises, Loop!Runnable, LoopT!Runnable, Loop!Permitted,
         LoopT!Permitted, Loop!Refuse, LoopT!Refuse, Loop!Finish, LoopT!Finish, Loop!Admit,
         LoopT!Admit, Loop!Check, LoopT!Check, Loop!ToolBegins, LoopT!ToolBegins,
         Loop!ToolEnds, LoopT!ToolEnds, Loop!After, LoopT!After, Loop!TestsBegin,
         LoopT!TestsBegin, Loop!TestsEnd, LoopT!TestsEnd, Loop!TestsRaise, LoopT!TestsRaise,
         Loop!RunTests, LoopT!RunTests, Loop!SetToken, LoopT!SetToken, Loop!InPytest,
         LoopT!InPytest, Loop!OtherStep, LoopT!OtherStep, Loop!PytestReturns,
         LoopT!PytestReturns, Loop!Next, LoopT!Next, Loop!PermissionsNeverEscalate,
         LoopT!PermissionsNeverEscalate, Loop!CallBudget, LoopT!CallBudget,
         Loop!AtMostOneLateStep, LoopT!AtMostOneLateStep

LEMMA LoopInvariant == SpecParts => [](part = "loop" => LoopT!IInv)
<1>1. InitParts => (part = "loop" => LoopT!IInv)
  BY PartInits, PartsAssumption, SameLoop, LoopT!InitHolds
<1>2. (part = "loop" => LoopT!IInv) /\ [NextParts]_all => (part = "loop" => LoopT!IInv)'
  <2> SUFFICES ASSUME LoopT!IInv, [NextParts]_all, part = "loop" PROVE LoopT!IInv'
    BY PartSteps
  <2>1. [LoopT!Next]_(LoopT!vars) /\ LoopT!LimitAssumption
    BY PartSteps, SameLoop, PartsAssumption
  <2> QED
    BY <2>1, LoopT!StepHolds
<1> QED
  BY <1>1, <1>2, PTL DEF SpecParts

LEMMA LoopPromises ==
  ASSUME part = "loop" => LoopT!IInv
  PROVE  RolesAreKept /\ BudgetIsKept /\ CancelIsHeeded
<1>1. LoopT!LimitAssumption
  BY SameLoop, PartsAssumption
<1>2. LoopT!IInv => LoopT!PermissionsNeverEscalate /\ LoopT!CallBudget /\ LoopT!AtMostOneLateStep
  BY <1>1, LoopT!PromisesHold
<1> QED
  BY <1>2, SameLoop DEF RolesAreKept, BudgetIsKept, CancelIsHeeded

(* No tool runs with a permission that the role lacks, whatever the model  *)
(* proposes (agents/roles.py:1, loop.py:71).                               *)
THEOREM NoEscalation == SpecParts => []RolesAreKept
  BY LoopInvariant, LoopPromises, PTL

(* The model is called at most max_heal * max_iters times for a task,      *)
(* however its attempts end (runtime.py, _agent).                          *)
THEOREM CallsAreBudgeted == SpecParts => []BudgetIsKept
  BY LoopInvariant, LoopPromises, PTL

(* After a cancel at most one more call, tool or test run is begun         *)
(* (agents/loop.py, run).                                                  *)
THEOREM OneRaceAtMost == SpecParts => []CancelIsHeeded
  BY LoopInvariant, LoopPromises, PTL
-----------------------------------------------------------------------------
(* The search.                                                             *)

Kinds == {"eq", "ne", "is", "isnot", "unseen", "keyword"}

KindsInv == \A t \in asserts : t.kind \in Kinds

(* Where the search starts, and what it can come to, stays the same; when  *)
(* the asserts single out the truth, it is at the truth or still there.    *)
SearchInv ==
  /\ KindsInv
  /\ \E S : trail \in Seq(S)
  /\ trail # << >>
  /\ Len(trail) = 1 => fn = trail[1]
  /\ truth \in {trail[1]} \cup Search!Found(trail[1])
  /\ Search!Determined =>
       /\ Len(trail) <= 2
       /\ Len(trail) = 2 => fn = truth /\ ~dressed
       /\ done => fn = truth

LEMMA SearchInit == Search!Init => SearchInv
<1> SUFFICES ASSUME Search!Init PROVE SearchInv
  OBVIOUS
<1>1. KindsInv
  <2>1. asserts \in Search!AssertSets
    BY DEF Search!Init
  <2>2. \A t \in Search!PlainTest \cup Search!OddTest : t.kind \in Kinds
    BY DEF Search!PlainTest, Search!OddTest, Search!Equal, Kinds
  <2>3. \A t \in asserts : t \in Search!PlainTest \cup Search!OddTest
    BY <2>1 DEF Search!AssertSets, Search!PlainTest
  <2> QED
    BY <2>2, <2>3 DEF KindsInv
<1>2. trail = <<fn>> /\ done = FALSE /\ truth \in {fn} \cup Search!Found(fn)
  BY DEF Search!Init
<1>3. trail \in Seq({fn}) /\ Len(trail) = 1 /\ trail[1] = fn /\ trail # << >>
  BY <1>2
<1>4. \E S : trail \in Seq(S)
  BY <1>3, Zenon
<1> QED
  BY <1>1, <1>2, <1>3, <1>4 DEF SearchInv

\* A rewriting takes a candidate that satisfies the oracles and is another text.
LEMMA RewriteIs ==
  ASSUME Search!Rewrite
  PROVE  /\ fn' \in Search!Found(fn) /\ Search!Satisfies(fn') /\ Search!Differs(fn')
         /\ trail' = Append(trail, fn') /\ ~done /\ ~dressed'
         /\ UNCHANGED <<truth, asserts, params, done>>
  BY DEF Search!Rewrite, Search!Found, Search!ToSet, Search!Suits

LEMMA AppendKeeps ==
  ASSUME NEW S, NEW s \in Seq(S), s # << >>, NEW e
  PROVE  /\ Append(s, e) \in Seq(S \cup {e}) /\ Append(s, e) # << >>
         /\ Len(Append(s, e)) = Len(s) + 1 /\ Len(s) \in Nat \ {0}
         /\ Append(s, e)[1] = s[1]
<1>1. s \in Seq(S \cup {e})
  BY SeqDef
<1> QED
  BY <1>1

\* Neither the question nor what can be reached changes.
LEMMA SameQuestions ==
  ASSUME UNCHANGED <<truth, asserts, params>>, trail'[1] = trail[1]
  PROVE  /\ \A e : Search!Found(e)' = Search!Found(e)
         /\ Search!Determined' <=> Search!Determined
<1>1. \A e : Search!Satisfies(e)' <=> Search!Satisfies(e)
  BY DEF Search!Satisfies, Search!Oracles
<1>2. \A e : Search!Found(e)' = Search!Found(e)
  BY DEF Search!Found, Search!Candidates
<1>3. (Search!Oracles # {})' <=> Search!Oracles # {}
  BY DEF Search!Oracles
<1>4. Search!Satisfies(truth)' <=> Search!Satisfies(truth)
  BY <1>1
<1>5. Search!Found(truth)' = Search!Found(truth) /\ Search!Found(trail[1])' = Search!Found(trail[1])
  BY <1>2
<1> QED
  BY <1>1, <1>2, <1>3, <1>4, <1>5 DEF Search!Determined

LEMMA DeterminedIsKept ==
  ASSUME Search!Rewrite, fn = truth, ~dressed, Search!Determined
  PROVE  FALSE
<1>1. fn' = truth
  BY RewriteIs DEF Search!Determined
<1> QED
  BY <1>1, RewriteIs DEF Search!Differs

LEMMA OneOrTwo == \A n : n \in Nat \ {0} /\ n <= 2 => n = 1 \/ n = 2
  OBVIOUS

LEMMA RewriteKeeps == ASSUME SearchInv, Search!Rewrite PROVE SearchInv'
<1>0. PICK S : trail \in Seq(S)
  BY DEF SearchInv
<1>1. /\ trail' \in Seq(S \cup {fn'}) /\ trail' # << >> /\ Len(trail') = Len(trail) + 1
      /\ Len(trail) \in Nat \ {0} /\ trail'[1] = trail[1]
  BY <1>0, RewriteIs, AppendKeeps DEF SearchInv
<1>2. /\ Search!Found(trail[1])' = Search!Found(trail[1])
      /\ Search!Determined' <=> Search!Determined
  BY <1>1, RewriteIs, SameQuestions
<1>3. KindsInv'
  BY RewriteIs DEF SearchInv, KindsInv
<1>4. ASSUME Search!Determined
      PROVE  Len(trail) = 1 /\ fn' = truth
  <2>1. ~(fn = truth /\ ~dressed)
    BY <1>4, DeterminedIsKept, Zenon
  <2>2. Len(trail) <= 2 /\ (Len(trail) = 2 => fn = truth /\ ~dressed)
    BY <1>4, Zenon DEF SearchInv
  <2>3. Len(trail) = 1
    BY <1>1, <2>1, <2>2, OneOrTwo, Zenon
  <2>4. fn = trail[1]
    BY <2>3 DEF SearchInv
  <2> QED
    BY <1>4, <2>3, <2>4, RewriteIs DEF Search!Determined
<1> QED
  BY <1>1, <1>2, <1>3, <1>4, RewriteIs DEF SearchInv

LEMMA GiveUpKeeps == ASSUME SearchInv, Search!GiveUp PROVE SearchInv'
<1>1. /\ \A e \in Search!Found(fn) : ~Search!Suits(e)
      /\ UNCHANGED <<truth, asserts, params, fn, dressed, trail>>
  BY DEF Search!GiveUp
<1>2. /\ Search!Found(trail[1])' = Search!Found(trail[1])
      /\ Search!Determined' <=> Search!Determined
  BY <1>1, SameQuestions
<1>3. ASSUME Search!Determined PROVE fn = truth
  <2>1. PICK S : trail \in Seq(S)
    BY DEF SearchInv
  <2>2. Len(trail) \in Nat \ {0} /\ Len(trail) <= 2
    BY <1>3, <2>1 DEF SearchInv
  <2>3. Len(trail) = 2 => fn = truth
    BY <1>3, Zenon DEF SearchInv
  <2>4. CASE Len(trail) = 1 /\ truth # fn
    <3>1. truth \in Search!Found(fn) /\ Search!Satisfies(truth) /\ Search!Oracles # {}
      BY <1>3, <2>4 DEF SearchInv, Search!Determined
    <3> QED
      BY <1>1, <2>4, <3>1 DEF Search!Suits, Search!Differs
  <2>5. Len(trail) = 1 \/ Len(trail) = 2
    BY <2>2, OneOrTwo, Zenon
  <2> QED
    BY <2>3, <2>4, <2>5, Zenon
<1>4. KindsInv'
  BY <1>1 DEF SearchInv, KindsInv
<1> QED
  BY <1>1, <1>2, <1>3, <1>4 DEF SearchInv

LEMMA SearchStep == ASSUME SearchInv, [Search!Next]_(Search!vars) PROVE SearchInv'
<1>1. CASE UNCHANGED Search!vars
  <2>1. UNCHANGED <<truth, asserts, params, fn, dressed, trail, done>>
    BY <1>1 DEF Search!vars
  <2>2. /\ Search!Found(trail[1])' = Search!Found(trail[1])
        /\ Search!Determined' <=> Search!Determined
    BY <2>1, SameQuestions
  <2> QED
    BY <2>1, <2>2 DEF SearchInv, KindsInv
<1> QED
  BY <1>1, RewriteKeeps, GiveUpKeeps DEF Search!Next

\* What satisfies the oracles passes whatever was read as it is meant.
LEMMA SatisfiesPasses ==
  ASSUME KindsInv, NEW e, Search!Satisfies(e), NEW t \in asserts, t.kind \notin {"is", "unseen"}
  PROVE  Search!Passes(e, t)
<1> DEFINE v == Search!Value(e, t.x)
           w == Search!Value(truth, t.x)
           n == Search!Int1(t.not)
<1>1. t \in Search!Oracles /\ t.kind \in {"eq", "ne", "isnot", "keyword"}
  BY DEF Search!Oracles, KindsInv, Kinds
<1>2. CASE t.kind = "eq"
  <2>1. Search!Same(v, w)
    BY <1>1, <1>2 DEF Search!Satisfies
  <2> QED
    BY <1>2, <2>1 DEF Search!Passes, Search!Same
<1>3. CASE t.kind = "ne"
  <2>1. v # Search!Error /\ ~Search!Same(v, n)
    BY <1>1, <1>3 DEF Search!Satisfies
  <2> QED
    BY <1>3, <2>1 DEF Search!Passes
<1>4. CASE t.kind = "isnot"
  <2>1. v # Search!Error /\ ~Search!Same(v, n)
    BY <1>1, <1>4 DEF Search!Satisfies
  <2> QED
    BY <1>4, <2>1 DEF Search!Passes
<1>5. t.kind # "keyword"
  BY <1>1 DEF Search!Satisfies
<1> QED
  BY <1>1, <1>2, <1>3, <1>4, <1>5

LEMMA SearchInvariant == SpecParts => [](part = "synth" => SearchInv)
<1>1. InitParts => (part = "synth" => SearchInv)
  BY PartInits, SearchInit
<1>2. (part = "synth" => SearchInv) /\ [NextParts]_all => (part = "synth" => SearchInv)'
  BY PartSteps, SearchStep
<1> QED
  BY <1>1, <1>2, PTL DEF SpecParts

(* When the tests determine the function among all that the search can     *)
(* come to, it ends with it, after one rewriting at most (synth.py,        *)
(* _repair_fn, applied again by mock_coder.py:103).                        *)
THEOREM SearchFinds == SpecParts => [](part = "synth" => Search!DeterminedIsFound)
<1>1. SearchInv => Search!DeterminedIsFound
  <2> SUFFICES ASSUME SearchInv, Search!Determined PROVE ~(done /\ fn # truth) /\ ~(Len(trail) > 2)
    BY DEF Search!DeterminedIsFound
  <2>1. PICK S : trail \in Seq(S)
    BY DEF SearchInv
  <2> QED
    BY <2>1 DEF SearchInv
<1> QED
  BY <1>1, SearchInvariant, PTL

(* An assert that passed fails after a rewriting only if it was not read,  *)
(* or read as ==; and what the tests determine is left alone (synth.py,    *)
(* extract_oracles, _repair_fn).                                           *)
THEOREM SearchKeepsRight == SpecParts => SearchIsSound
<1> DEFINE Sound == part = "synth" => Search!RightStaysRight /\ Search!RightIsNotTouched
<1>1. (part = "synth" => SearchInv) /\ [NextParts]_all => [Sound]_search
  <2> SUFFICES ASSUME SearchInv, [NextParts]_all, part = "synth"
               PROVE  Search!RightStaysRight /\ Search!RightIsNotTouched
    OBVIOUS
  <2>1. Search!Rewrite \/ UNCHANGED <<fn, trail>>
    BY PartSteps DEF Search!Next, Search!GiveUp, Search!vars
  <2>2. Search!RightStaysRight
    <3>1. fn' = fn \/ Search!Satisfies(fn')
      BY <2>1, RewriteIs
    <3> QED
      BY <3>1, SatisfiesPasses DEF Search!RightStaysRight, SearchInv
  <2>3. Search!RightIsNotTouched
    BY <2>1, DeterminedIsKept DEF Search!RightIsNotTouched
  <2> QED
    BY <2>2, <2>3
<1>2. SpecParts => [][Sound]_search
  BY <1>1, SearchInvariant, PTL DEF SpecParts
<1> QED
  BY <1>2 DEF SearchIsSound
-----------------------------------------------------------------------------
(* run_pytest.                                                             *)

(* The parent reads only from a child that ended of itself: whoever kills  *)
(* it is on the way out.                                                   *)
ParentInv ==
  /\ child = "ended" => todo = 0
  /\ pc \in {"poll", "wait"} => child # "killed" /\ waited < Polls
  /\ pc = "read" => child = "ended"
  /\ pc \in {"poll", "wait", "terminate", "grace", "read"} => verdict = "none"
  /\ pc = "done" => child # "running"
  /\ verdict \in {"passed", "failed"} => child = "ended"

RunInv == TypeOK /\ ParentInv

(* What the child has printed or will print is more than the pipe holds.   *)
Loud == todo + pipe > Capacity

LEMMA RunInit == Init => RunInv
<1> SUFFICES ASSUME Init PROVE RunInv
  OBVIOUS
<1>1. /\ pipe \in 0 .. Capacity
      /\ waited \in 0 .. Polls /\ waited < Polls
  BY SizeAssumption DEF Init
<1>2. /\ hook \in BOOLEAN /\ token \in BOOLEAN
      /\ suite \in [passes : BOOLEAN, ends : BOOLEAN, heeds : BOOLEAN, leaves : BOOLEAN]
      /\ todo \in 0 .. MaxOutput
  BY Zenon DEF Init
<1>3. child = "running" /\ pc = "poll" /\ verdict = "none"
  BY Zenon DEF Init
<1>4. TypeOK
  BY <1>1, <1>2, <1>3, Zenon DEF TypeOK
<1>5. ParentInv
  BY <1>1, <1>3 DEF ParentInv
<1> QED
  BY <1>4, <1>5 DEF RunInv

LEMMA RunStep == ASSUME RunInv, [Next]_vars PROVE RunInv' /\ (Loud => Loud')
<1> USE SizeAssumption DEF RunInv, TypeOK, ParentInv, Loud, Kill
<1>1. CASE Output
  BY <1>1 DEF Output
<1>2. CASE End \/ SetToken
  BY <1>2 DEF End, SetToken
<1>3. CASE Poll
  BY <1>3 DEF Poll
<1>4. CASE Terminate \/ Grace
  BY <1>4 DEF Terminate, Grace
<1>5. CASE WaitExpires
  BY <1>5 DEF WaitExpires
<1>6. CASE WaitReturns
  BY <1>6 DEF WaitReturns
<1>7. CASE Read
  BY <1>7 DEF Read
<1>8. CASE Finally
  BY <1>8 DEF Finally
<1>9. CASE UNCHANGED vars
  BY <1>9 DEF vars
<1> QED
  BY <1>1, <1>2, <1>3, <1>4, <1>5, <1>6, <1>7, <1>8, <1>9 DEF Next, Parent

(* Types, and where the parent is determines what may be of the child.     *)
THEOREM RunInvariant == Spec => []RunInv
<1>1. RunInv /\ [Next]_vars => RunInv'
  BY RunStep
<1> QED
  BY RunInit, <1>1, PTL DEF Spec

(* The types; the polls are bounded by the timeout.                        *)
THEOREM RunTypes == Spec => []TypeOK
<1>1. RunInv => TypeOK
  BY DEF RunInv
<1> QED
  BY RunInvariant, <1>1, PTL

\* Whatever the way out of run_pytest, the child does not run any more.
NoChildLeft == pc = "done" => child # "running"

(* No way out of run_pytest leaves the child running.                      *)
THEOREM ChildIsGone == Spec => []NoChildLeft
<1>1. RunInv => NoChildLeft
  BY DEF RunInv, ParentInv, NoChildLeft
<1> QED
  BY RunInvariant, <1>1, PTL

(* A run that was cut short has no verdict.                                *)
THEOREM WholeRunsOnly == Spec => []VerdictIsOfWholeRun
<1>1. RunInv => VerdictIsOfWholeRun
  BY DEF RunInv, ParentInv, VerdictIsOfWholeRun
<1> QED
  BY RunInvariant, <1>1, PTL

(* Tests that print more than the pipe holds never get a verdict, whatever *)
(* the sizes: the child cannot end, and the parent reads only when it has. *)
THEOREM LoudIsUnheard == Spec => LoudSuiteHasNoVerdict
<1>1. RunInv /\ [Next]_vars /\ Loud => Loud'
  BY RunStep
<1>2. RunInv /\ Loud => verdict \notin {"passed", "failed"}
  BY SizeAssumption DEF RunInv, TypeOK, ParentInv, Loud
<1>3. Spec => [](Loud => []Loud)
  BY RunInvariant, <1>1, PTL DEF Spec
<1>4. Spec => [](Loud => [](verdict \notin {"passed", "failed"}))
  BY RunInvariant, <1>2, <1>3, PTL
<1> QED
  BY <1>4 DEF LoudSuiteHasNoVerdict, Loud

(* So it is among the other parts.                                         *)
THEOREM VerdictsAreWhole == SpecParts => []VerdictIsOfWholeRun
<1> DEFINE I == IF part = "pytest" THEN RunInv ELSE verdict = "none"
<1>1. InitParts => I
  BY PartInits, RunInit DEF InitParts, InitPytest
<1>2. I /\ [NextParts]_all => I'
  <2> SUFFICES ASSUME I, [NextParts]_all PROVE I'
    OBVIOUS
  <2>1. CASE part = "pytest"
    BY <2>1, PartSteps, RunStep
  <2>2. CASE part # "pytest"
    BY <2>2 DEF NextParts, all, vars
  <2> QED
    BY <2>1, <2>2
<1>3. I => VerdictIsOfWholeRun
  BY DEF RunInv, ParentInv, VerdictIsOfWholeRun
<1> QED
  BY <1>1, <1>2, <1>3, PTL DEF SpecParts
-----------------------------------------------------------------------------
(* The router.                                                             *)

LEMMA StubFirst ==
  ASSUME NEW seq, NEW m \in Nat \ {0}, Len(seq) \in Nat, m <= Len(seq), seq[m] = "stub",
         \A k \in 1 .. m - 1 : seq[k] # "stub"
  PROVE  Routing!SelectInSeq(seq, LAMBDA p : p = "stub") = m
<1> DEFINE I == {k \in 1 .. Len(seq) : seq[k] = "stub"}
<1>1. m \in I /\ \A k \in I : m <= k
  OBVIOUS
<1>2. \A x \in I : (\A k \in I : x <= k) => x = m
  BY <1>1
<1>3. Routing!Min(I) = m
  BY <1>1, <1>2 DEF Routing!Min
<1> QED
  BY <1>1, <1>3 DEF Routing!SelectInSeq

(* Every ranking names the stub, once.                                     *)
LEMMA Rankings ==
  ASSUME NEW n \in Routing!Need
  PROVE  /\ Routing!Ranking(n) \in Seq(Routing!Large \cup {"stub"}) /\ Len(Routing!Ranking(n)) \in Nat
         /\ Routing!StubAt(n) \in 1 .. Len(Routing!Ranking(n))
         /\ \A k \in 1 .. Len(Routing!Ranking(n)) : Routing!Ranking(n)[k] = "stub" <=> k = Routing!StubAt(n)
<1>1. CASE n \in {"coding", "long_context", "tool_calling"}
  <2>1. Routing!Ranking(n) = <<"qwen3-coder", "devstral-small-2507", "cloud", "stub">>
    BY <1>1 DEF Routing!Ranking
  <2>2. Routing!StubAt(n) = 4
    BY <2>1, StubFirst DEF Routing!StubAt
  <2> QED
    BY <2>1, <2>2 DEF Routing!Large
<1>2. CASE n = "reasoning"
  <2>1. Routing!Ranking(n) = <<"qwen3-coder", "devstral-small-2507", "stub", "cloud">>
    BY <1>2 DEF Routing!Ranking
  <2>2. Routing!StubAt(n) = 3
    BY <2>1, StubFirst DEF Routing!StubAt
  <2> QED
    BY <2>1, <2>2 DEF Routing!Large
<1>3. CASE n \in {"fast_response", "other"}
  <2>1. Routing!Ranking(n) = <<"stub", "cloud">> \/ Routing!Ranking(n) = <<"stub">>
    BY <1>3 DEF Routing!Ranking
  <2>2. Routing!StubAt(n) = 1
    BY <2>1, StubFirst DEF Routing!StubAt
  <2>3. CASE Routing!Ranking(n) = <<"stub", "cloud">>
    BY <2>2, <2>3 DEF Routing!Large
  <2>4. CASE Routing!Ranking(n) = <<"stub">>
    BY <2>2, <2>4
  <2> QED
    BY <2>1, <2>3, <2>4
<1> QED
  BY <1>1, <1>2, <1>3 DEF Routing!Need
-----------------------------------------------------------------------------
(* The inductive invariant.                                                *)

\* p need not be chosen: it failed in between, or another provider is in use.
Explained(p) == p \in configured \cap steady => loaded # p /\ loaded \in handed

\* The ranking was gone through up to k.
At(k) ==
  /\ order = SubSeq(Routing!Ranking(need), k, Len(Routing!Ranking(need)))
  /\ \A j \in 1 .. k - 1 : j < Routing!StubAt(need) => Explained(Routing!Ranking(need)[j])

LoadedInv ==
  /\ \A p \in handed : p = loaded
  /\ loaded # "none" => loaded \in handed

AskedInv ==
  /\ routerPc = "choosing" => \E k \in 1 .. Len(Routing!Ranking(need)) + 1 : At(k)
  /\ routerPc = "chosen" /\ choice = "stub" =>
       \A j \in 1 .. Routing!StubAt(need) - 1 : Explained(Routing!Ranking(need)[j])
  /\ routerPc = "asking" => choice # "stub"

RouterInv == Routing!TypeOK /\ LoadedInv /\ AskedInv

\* Where the next candidate stands in the ranking.
LEMMA InRanking ==
  ASSUME RouterInv, Routing!Candidate
  PROVE  \E k \in 1 .. Len(Routing!Ranking(need)) :
           /\ At(k) /\ Head(order) = Routing!Ranking(need)[k]
           /\ Tail(order) = SubSeq(Routing!Ranking(need), k + 1, Len(Routing!Ranking(need)))
<1> DEFINE r == Routing!Ranking(need)
<1>1. r \in Seq(Routing!Large \cup {"stub"}) /\ Len(r) \in Nat
  BY Rankings DEF RouterInv, Routing!TypeOK
<1>2. PICK k \in 1 .. Len(r) + 1 : At(k)
  BY DEF RouterInv, AskedInv, Routing!Candidate
<1>3. order = SubSeq(r, k, Len(r)) /\ order # << >>
  BY <1>2 DEF At, Routing!Candidate
<1>4. k # Len(r) + 1
  BY <1>1, <1>3, SubSeqEmpty
<1>5. k \in 1 .. Len(r) /\ Len(r) \in k .. Len(r)
  BY <1>1, <1>4
<1>6. Head(order) = r[k] /\ Tail(order) = SubSeq(r, k + 1, Len(r))
  BY <1>1, <1>3, <1>5, HeadTailOfSubSeq
<1> QED
  BY <1>2, <1>5, <1>6

LEMMA RouterInit == Routing!Init => RouterInv
<1>1. << >> \in Seq(Routing!Large \cup {"stub"})
  BY EmptySeq
<1> QED
  BY <1>1 DEF Routing!Init, RouterInv, Routing!TypeOK, LoadedInv, AskedInv, Routing!Need

\* A candidate was passed over with a reason.
LEMMA SkipKeeps ==
  ASSUME RouterInv, Routing!Candidate, Routing!Skip, steady \subseteq up,
         Head(order) # "stub" => Explained(Head(order)), available' \subseteq configured
  PROVE  RouterInv'
<1> DEFINE r == Routing!Ranking(need)
<1>1. PICK k \in 1 .. Len(r) : /\ At(k) /\ Head(order) = r[k]
                                /\ Tail(order) = SubSeq(r, k + 1, Len(r))
  BY InRanking
<1>2. UNCHANGED <<configured, up, need, steady, loaded, routerPc, choice, handed>>
  BY DEF Routing!Candidate, Routing!Skip
<1>3. /\ r \in Seq(Routing!Large \cup {"stub"}) /\ Len(r) \in Nat /\ Routing!StubAt(need) \in 1 .. Len(r)
      /\ \A j \in 1 .. Len(r) : r[j] = "stub" <=> j = Routing!StubAt(need)
  BY Rankings DEF RouterInv, Routing!TypeOK
<1>4. order' \in Seq(Routing!Large \cup {"stub"})
  BY HeadTailProperties DEF Routing!Candidate, Routing!Skip, RouterInv, Routing!TypeOK
<1>5. \A j \in 1 .. k : j < Routing!StubAt(need) => Explained(r[j])
  <2> SUFFICES ASSUME NEW j \in 1 .. k, j < Routing!StubAt(need) PROVE Explained(r[j])
    OBVIOUS
  <2>1. CASE j = k
    BY <1>1, <1>3, <2>1
  <2>2. CASE j # k
    BY <1>1, <2>2 DEF At
  <2> QED
    BY <2>1, <2>2
<1>6. At(k + 1)'
  <2>1. order' = SubSeq(r, k + 1, Len(r)) /\ k + 1 - 1 = k
    BY <1>1 DEF Routing!Skip
  <2> QED
    BY <1>2, <1>5, <2>1 DEF At, Explained
<1>7. AskedInv'
  <2>1. k + 1 \in 1 .. Len(r) + 1
    BY <1>3
  <2> QED
    BY <1>2, <1>6, <2>1 DEF AskedInv, Routing!Candidate
<1> QED
  BY <1>2, <1>4, <1>7 DEF RouterInv, Routing!TypeOK, LoadedInv

LEMMA CandidateKeeps ==
  ASSUME RouterInv,
         \/ Routing!NotConfigured \/ Routing!TakeStub \/ Routing!NotHealthy
         \/ Routing!OtherLoaded \/ Routing!Load
  PROVE  RouterInv'
<1> USE DEF RouterInv
<1>0. /\ configured \subseteq Routing!Large /\ available \subseteq configured /\ steady \subseteq up
      /\ "none" \notin Routing!Large /\ "stub" \notin Routing!Large
  BY DEF Routing!TypeOK, Routing!Large
<1>1. CASE Routing!NotConfigured
  BY <1>0, <1>1, SkipKeeps DEF Routing!NotConfigured, Explained
<1>2. CASE Routing!NotHealthy
  BY <1>0, <1>2, SkipKeeps DEF Routing!NotHealthy, Explained, Routing!Health
<1>3. CASE Routing!OtherLoaded
  BY <1>0, <1>3, SkipKeeps DEF Routing!OtherLoaded, Explained, LoadedInv, Routing!Health
<1>4. CASE Routing!TakeStub
  <2> DEFINE r == Routing!Ranking(need)
  <2>1. PICK k \in 1 .. Len(r) : At(k) /\ Head(order) = r[k]
    BY <1>4, InRanking DEF Routing!TakeStub
  <2>2. k = Routing!StubAt(need) /\ Routing!StubAt(need) \in Nat
    BY <1>4, <2>1, Rankings DEF Routing!TakeStub, Routing!TypeOK
  <2>3. \A j \in 1 .. Routing!StubAt(need) - 1 : Explained(r[j])
    BY <2>1, <2>2 DEF At
  <2>4. UNCHANGED <<configured, up, available, need, steady, loaded, handed>>
        /\ routerPc' = "chosen" /\ choice' = "stub" /\ order' = << >>
    BY <1>0, <1>4 DEF Routing!TakeStub, Routing!Candidate, Routing!Hand, Routing!TypeOK
  <2>5. AskedInv'
    BY <2>3, <2>4 DEF AskedInv, Explained
  <2> QED
    BY <2>4, <2>5, EmptySeq DEF Routing!TypeOK, LoadedInv
<1>5. CASE Routing!Load
  <2>1. /\ loaded' = Head(order) /\ choice' = Head(order) /\ Head(order) \in Routing!Large
        /\ routerPc' = "chosen" /\ order' = << >> /\ handed' = handed \cup {Head(order)}
        /\ UNCHANGED <<configured, up, need, steady>> /\ available' \subseteq configured
    BY <1>0, <1>5 DEF Routing!Load, Routing!Candidate, Routing!Hand, Routing!Health
  <2>2. \A p \in handed : p = Head(order)
    BY <1>0, <1>5 DEF Routing!Load, LoadedInv, Routing!TypeOK
  <2> QED
    BY <1>0, <2>1, <2>2, EmptySeq DEF Routing!TypeOK, LoadedInv, AskedInv
<1> QED
  BY <1>1, <1>2, <1>3, <1>4, <1>5

LEMMA OthersKeep ==
  ASSUME RouterInv,
         \/ \E p \in Routing!Large : Routing!ServerChanges(p) \/ Routing!Refresh(p)
         \/ \E n \in Routing!Need : Routing!Choose(n)
         \/ Routing!Complete \/ Routing!Request \/ UNCHANGED Routing!vars
  PROVE  RouterInv'
<1> USE DEF RouterInv
<1>1. ASSUME NEW p \in Routing!Large, Routing!ServerChanges(p) PROVE RouterInv'
  BY <1>1 DEF Routing!ServerChanges, Routing!TypeOK, LoadedInv, AskedInv, At, Explained
<1>2. ASSUME NEW p \in Routing!Large, Routing!Refresh(p) PROVE RouterInv'
  BY <1>2 DEF Routing!Refresh, Routing!Health, Routing!TypeOK, LoadedInv, AskedInv, Explained
<1>3. ASSUME NEW n \in Routing!Need, Routing!Choose(n) PROVE RouterInv'
  <2>1. /\ Routing!Ranking(n) \in Seq(Routing!Large \cup {"stub"}) /\ Len(Routing!Ranking(n)) \in Nat
        /\ SubSeq(Routing!Ranking(n), 1, Len(Routing!Ranking(n))) = Routing!Ranking(n)
    BY Rankings, SubSeqFull
  <2>2. need' = n /\ order' = Routing!Ranking(n) /\ routerPc' = "choosing"
    BY <1>3 DEF Routing!Choose
  <2>3. At(1)'
    BY <2>1, <2>2 DEF At
  <2>4. AskedInv'
    BY <2>1, <2>2, <2>3 DEF AskedInv
  <2> QED
    BY <1>3, <2>1, <2>4 DEF Routing!Choose, Routing!TypeOK, LoadedInv
<1>4. CASE Routing!Complete
  <2>1. choice # "stub" /\ available' \subseteq configured
    BY <1>4 DEF Routing!Complete, Routing!Health, Routing!TypeOK, Routing!Large
  <2>2. /\ routerPc' \in {"asking", "chosen"}
        /\ UNCHANGED <<configured, up, loaded, need, order, choice, handed, steady>>
    BY <1>4 DEF Routing!Complete
  <2> QED
    BY <2>1, <2>2 DEF Routing!TypeOK, LoadedInv, AskedInv
<1>5. CASE Routing!Request
  BY <1>5 DEF Routing!Request, Routing!TypeOK, LoadedInv, AskedInv
<1>6. CASE UNCHANGED Routing!vars
  BY <1>6 DEF Routing!vars, Routing!TypeOK, LoadedInv, AskedInv, At, Explained
<1> QED
  BY <1>1, <1>2, <1>3, <1>4, <1>5, <1>6

LEMMA RouterStep == ASSUME RouterInv, [Routing!Next]_(Routing!vars) PROVE RouterInv'
  BY CandidateKeeps, OthersKeep DEF Routing!Next

LEMMA LoadedIsOnlyLarge == ASSUME RouterInv PROVE Routing!OneLargeModel
  BY DEF RouterInv, LoadedInv, Routing!OneLargeModel

LEMMA StubIsLast == ASSUME RouterInv PROVE Routing!NoneOverlooked
<1> SUFFICES ASSUME routerPc = "chosen", choice = "stub",
                    NEW p \in Routing!BeforeStub(need) \cap configured \cap steady
             PROVE  loaded # p /\ loaded \in handed
  BY DEF Routing!NoneOverlooked
<1>1. PICK j \in 1 .. Routing!StubAt(need) - 1 : p = Routing!Ranking(need)[j]
  BY DEF Routing!BeforeStub
<1>2. Explained(p)
  BY <1>1 DEF RouterInv, AskedInv
<1> QED
  BY <1>2 DEF Explained

(* Whoever was handed out is what is loaded, and everybody named before    *)
(* the candidate in hand was passed over with a reason; the types.         *)
THEOREM RouterInvariant == Routing!Spec => [](RouterInv /\ Routing!TypeOK)
<1>1. RouterInv => Routing!TypeOK
  BY DEF RouterInv
<1> QED
  BY RouterInit, RouterStep, <1>1, PTL DEF Routing!Spec

(* At most one large model is ever handed out; and of those ranked before  *)
(* the stub, whoever answered all along is passed over only because        *)
(* another one is loaded (router.py, choose). Of the cloud, which two      *)
(* rankings name after the stub, it says nothing.                          *)
THEOREM ChoicesAreSound == SpecParts => []ChoiceIsSound
<1> DEFINE I == part = "router" => RouterInv
<1>1. InitParts => I
  BY PartInits, RouterInit
<1>2. I /\ [NextParts]_all => I'
  BY PartSteps, RouterStep
<1>3. I => ChoiceIsSound
  BY LoadedIsOnlyLarge, StubIsLast DEF ChoiceIsSound
<1> QED
  BY <1>1, <1>2, <1>3, PTL DEF SpecParts
-----------------------------------------------------------------------------
(* The patches.                                                            *)

PatchPcs == {"idle", "making", "kept", "applying", "comparing", "writing"}

PatchTypes ==
  /\ text \in [File -> Patches!Text \cup {Patches!Absent}]
  /\ patchPc \in PatchPcs /\ raced \in BOOLEAN /\ mine \in BOOLEAN
  /\ patch = [target |-> patch.target, expected |-> patch.expected, content |-> patch.content]
  /\ patch.target \in File /\ patch.content \in Patches!Text

MineInv == mine => text[patch.target] = patch.content

CheckedInv ==
  /\ patchPc \in {"applying", "comparing", "writing"} => patch.target \notin Outside
  /\ patchPc = "writing" =>
       /\ text[patch.target].body = patch.expected \/ raced
       /\ mine => ~raced

PatchInv == PatchTypes /\ MineInv /\ CheckedInv

LEMMA PatchInit == Patches!Init => PatchInv
<1> SUFFICES ASSUME Patches!Init PROVE PatchInv
  OBVIOUS
<1>1. PICK f \in File, t \in Patches!Text : patch = [target |-> f, expected |-> 0, content |-> t]
  BY DEF Patches!Init
<1>2. patch.target = f /\ patch.expected = 0 /\ patch.content = t
  BY <1>1
<1> QED
  BY <1>1, <1>2 DEF Patches!Init, PatchInv, PatchTypes, MineInv, CheckedInv, PatchPcs

\* What the others do: the files of a set S change, and no other.
LEMMA TouchKeeps ==
  ASSUME PatchInv, NEW S, Patches!Touches(S), UNCHANGED <<patchPc, patch>>,
         text' \in [File -> Patches!Text \cup {Patches!Absent}],
         \A f \in File \ S : text'[f] = text[f]
  PROVE  PatchInv'
<1>1. PatchTypes'
  BY DEF PatchInv, PatchTypes, Patches!Touches, Patches!RacesWith
<1>2. MineInv'
  BY DEF PatchInv, PatchTypes, MineInv, Patches!Touches
<1>3. CheckedInv'
  BY DEF PatchInv, PatchTypes, CheckedInv, Patches!Touches, Patches!RacesWith
<1> QED
  BY <1>1, <1>2, <1>3 DEF PatchInv

LEMMA OthersWrite ==
  ASSUME PatchInv,
         (\E f \in File, t \in Patches!Text : Patches!Change(f, t))
           \/ (\E f \in File : Patches!Remove(f)) \/ Patches!Discard
  PROVE  PatchInv'
<1>0. text \in [File -> Patches!Text \cup {Patches!Absent}] /\ patch.target \in File
  BY DEF PatchInv, PatchTypes
<1>1. ASSUME NEW f \in File, NEW t \in Patches!Text \cup {Patches!Absent},
             text' = [text EXCEPT ![f] = t], Patches!Touches({f}), UNCHANGED <<patchPc, patch>>
      PROVE  PatchInv'
  <2>1. /\ text' \in [File -> Patches!Text \cup {Patches!Absent}]
        /\ \A g \in File \ {f} : text'[g] = text[g]
    BY <1>0, <1>1
  <2> QED
    BY <1>1, <2>1, TouchKeeps
<1>2. CASE Patches!Discard
  <2>1. /\ text' = [f \in File |-> IF f \in Outside THEN text[f] ELSE Patches!Absent]
        /\ Patches!Touches(File \ Outside) /\ UNCHANGED <<patchPc, patch>>
    BY <1>2 DEF Patches!Discard
  <2>2. /\ text' \in [File -> Patches!Text \cup {Patches!Absent}]
        /\ \A g \in File \ (File \ Outside) : text'[g] = text[g]
    BY <1>0, <2>1
  <2> QED
    BY <2>1, <2>2, TouchKeeps
<1>3. ASSUME NEW f \in File, NEW t \in Patches!Text, Patches!Change(f, t) PROVE PatchInv'
  BY <1>1, <1>3 DEF Patches!Change
<1>4. ASSUME NEW f \in File, Patches!Remove(f) PROVE PatchInv'
  BY <1>1, <1>4 DEF Patches!Remove
<1> QED
  BY <1>2, <1>3, <1>4

LEMMA PatchIsMade ==
  ASSUME PatchInv, (\E f \in File, t \in Patches!Text : Patches!Make(f, t)) \/ Patches!Hash
  PROVE  PatchInv'
<1>1. ASSUME NEW f \in File, NEW t \in Patches!Text, Patches!Make(f, t) PROVE PatchInv'
  <2>1. patch' = [target |-> f, expected |-> 0, content |-> t] /\ patchPc' \in {"making", "kept"}
    BY <1>1 DEF Patches!Make
  <2>2. patch'.target = f /\ patch'.expected = 0 /\ patch'.content = t
    BY <2>1
  <2> QED
    BY <1>1, <2>1, <2>2 DEF Patches!Make, PatchInv, PatchTypes, PatchPcs, MineInv, CheckedInv
<1>2. CASE Patches!Hash
  <2>1. /\ UNCHANGED <<text, raced, mine>> /\ patchPc' \in {"kept", "idle"}
        /\ \/ patch' = patch
           \/ patch' = [patch EXCEPT !.expected = text[patch.target].body]
    BY <1>2 DEF Patches!Hash, Patches!sha
  <2>2. patch'.target = patch.target /\ patch'.content = patch.content
        /\ patch' = [target |-> patch'.target, expected |-> patch'.expected, content |-> patch'.content]
    BY <2>1 DEF PatchInv, PatchTypes
  <2> QED
    BY <2>1, <2>2 DEF PatchInv, PatchTypes, PatchPcs, MineInv, CheckedInv
<1> QED
  BY <1>1, <1>2

LEMMA PatchIsApplied ==
  ASSUME PatchInv, Patches!Apply \/ Patches!Forget \/ Patches!Look \/ Patches!Compare \/ Patches!Write
  PROVE  PatchInv'
<1> USE DEF PatchInv, PatchTypes, PatchPcs, MineInv, CheckedInv, Patches!Exists, Patches!sha
<1>1. CASE Patches!Apply
  BY <1>1 DEF Patches!Apply
<1>2. CASE Patches!Forget
  BY <1>2 DEF Patches!Forget
<1>3. CASE Patches!Look
  <2>1. Patches!Absent.body = 0
    BY DEF Patches!Absent
  <2> QED
    BY <1>3, <2>1 DEF Patches!Look
<1>4. CASE Patches!Compare
  BY <1>4 DEF Patches!Compare
<1>5. CASE Patches!Write
  BY <1>5 DEF Patches!Write
<1> QED
  BY <1>1, <1>2, <1>3, <1>4, <1>5

LEMMA PatchStep == ASSUME PatchInv, [Patches!Next]_(Patches!vars) PROVE PatchInv'
<1>1. CASE UNCHANGED Patches!vars
  BY <1>1 DEF Patches!vars, PatchInv, PatchTypes, MineInv, CheckedInv
<1> QED
  BY <1>1, OthersWrite, PatchIsMade, PatchIsApplied DEF Patches!Next

LEMMA PatchInvariant == SpecParts => [](part = "patches" => PatchInv)
<1>1. InitParts => (part = "patches" => PatchInv)
  BY PartInits, PatchInit
<1>2. (part = "patches" => PatchInv) /\ [NextParts]_all => (part = "patches" => PatchInv)'
  BY PartSteps, PatchStep
<1> QED
  BY <1>1, <1>2, PTL DEF SpecParts

(* A patch overwrites only what reads as it expects, inside the workspace, *)
(* unless the file was changed between the check and the write; and it is  *)
(* refused right after it was applied, unless it changes nothing: for any  *)
(* number of files and texts, other writers that may bring back any text,  *)
(* and any ends of lines (patch/engine.py, apply_patch).                   *)
THEOREM PatchesAreSafe == SpecParts => WritesAreSafe
<1> DEFINE Safe == part = "patches" => Patches!WriteIsSafe
<1>1. (part = "patches" => PatchInv) => Safe
  BY DEF Patches!WriteIsSafe, Patches!Write, Patches!sha, PatchInv, PatchTypes, MineInv, CheckedInv
<1>2. SpecParts => [][Safe]_patching
  BY <1>1, PatchInvariant, PTL
<1> QED
  BY <1>2 DEF WritesAreSafe
-----------------------------------------------------------------------------
(* The code graph.                                                         *)

GraphT == INSTANCE CodeGraphProofs WITH todo <- parseTodo

LEMMA SameGraph ==
  /\ Graph!Init = GraphT!Init
  /\ [Graph!Next]_(Graph!vars) = [GraphT!Next]_(GraphT!vars)
  /\ Graph!ContentAssumption = GraphT!ContentAssumption
  /\ Graph!AgreesWithIndex = GraphT!AgreesWithIndex
  BY DEF Graph!Content, GraphT!Content, Graph!ContentAssumption, GraphT!ContentAssumption, Graph!graph,
         GraphT!graph, Graph!vars, GraphT!vars, Graph!Present, GraphT!Present, Graph!IndexedImports,
         GraphT!IndexedImports, Graph!IndexedSymbols, GraphT!IndexedSymbols, Graph!IndexedTests,
         GraphT!IndexedTests, Graph!Init, GraphT!Init, Graph!Edit, GraphT!Edit, Graph!Discard,
         GraphT!Discard, Graph!Changed, GraphT!Changed, Graph!Removed, GraphT!Removed, Graph!SymbolsWithout,
         GraphT!SymbolsWithout, Graph!Scan, GraphT!Scan, Graph!Parse, GraphT!Parse, Graph!Gone, GraphT!Gone,
         Graph!Raise, GraphT!Raise, Graph!Drop, GraphT!Drop, Graph!Reindex, GraphT!Reindex, Graph!Next,
         GraphT!Next, Graph!SymbolsOf, GraphT!SymbolsOf, Graph!AgreesWithIndex, GraphT!AgreesWithIndex,
         Graph!SetToBag, GraphT!SetToBag, Graph!(+), GraphT!(+)

(* A graph brought up to date agrees with one built anew                   *)
(* (codegraph/index.py, incremental).                                      *)
THEOREM GraphIsRight == SpecParts => []GraphAgrees
<1> DEFINE I == part = "graph" => GraphT!IInv
<1>1. InitParts => I
  BY PartInits, PartsAssumption, SameGraph, GraphT!InitHolds
<1>2. I /\ [NextParts]_all => I'
  <2> SUFFICES ASSUME GraphT!IInv, [NextParts]_all, part = "graph" PROVE GraphT!IInv'
    BY PartSteps
  <2>1. [GraphT!Next]_(GraphT!vars)
    BY PartSteps, SameGraph
  <2> QED
    BY <2>1, PartsAssumption, SameGraph, GraphT!StepHolds
<1>3. I => GraphAgrees
  BY PartsAssumption, SameGraph, GraphT!UpToDate DEF GraphAgrees
<1> QED
  BY <1>1, <1>2, <1>3, PTL DEF SpecParts
-----------------------------------------------------------------------------
(* The coder.                                                              *)

CodingT == INSTANCE CoderProofs WITH files <- read, tests <- suites, pc <- coderPc

LEMMA SameCoder ==
  /\ Coding!Init = CodingT!Init
  /\ [Coding!Next]_(Coding!vars) = [CodingT!Next]_(CodingT!vars)
  /\ Coding!CoderAssumption = CodingT!CoderAssumption
  /\ Coding!FinishIsTested = CodingT!FinishIsTested
  /\ Coding!FinishedIsRepaired = CodingT!FinishedIsRepaired
  /\ Coding!UnrepairedIsExplained = CodingT!UnrepairedIsExplained
  /\ Coding!RepairsStay = CodingT!RepairsStay
  /\ Coding!HealAddsNothing = CodingT!HealAddsNothing
  BY DEF Coding!Paths, CodingT!Paths, Coding!CoderAssumption, CodingT!CoderAssumption, Coding!Kinds,
         CodingT!Kinds, Coding!SuiteKinds, CodingT!SuiteKinds, Coding!Text, CodingT!Text, Coding!repo,
         CodingT!repo, Coding!coder, CodingT!coder, Coding!loop, CodingT!loop, Coding!hist, CodingT!hist,
         Coding!vars, CodingT!vars, Coding!Act, CodingT!Act, Coding!Nothing, CodingT!Nothing, Coding!Init,
         CodingT!Init, Coding!Listing, CodingT!Listing, Coding!First, CodingT!First, Coding!Alternate,
         CodingT!Alternate, Coding!Repaired, CodingT!Repaired, Coding!ToFix, CodingT!ToFix,
         Coding!Remembered, CodingT!Remembered, Coding!ReadOf, CodingT!ReadOf, Coding!Ingest,
         CodingT!Ingest, Coding!Answer, CodingT!Answer, Coding!Idle, CodingT!Idle, Coding!Blank,
         CodingT!Blank, Coding!UnreadImpl, CodingT!UnreadImpl, Coding!UnreadSuites, CodingT!UnreadSuites,
         Coding!SuitesFirst, CodingT!SuitesFirst, Coding!AskList, CodingT!AskList, Coding!AskSuite,
         CodingT!AskSuite, Coding!AskImpl, CodingT!AskImpl, Coding!AskInspect, CodingT!AskInspect,
         Coding!AllRead, CodingT!AllRead, Coding!Patch, CodingT!Patch, Coding!RunTests, CodingT!RunTests,
         Coding!WeakPatch, CodingT!WeakPatch, Coding!Marked, CodingT!Marked, Coding!FirstTest,
         CodingT!FirstTest, Coding!AskFix, CodingT!AskFix, Coding!Fix, CodingT!Fix, Coding!Fixed,
         CodingT!Fixed, Coding!Retest, CodingT!Retest, Coding!FixNext, CodingT!FixNext, Coding!Finish,
         CodingT!Finish, Coding!Decide, CodingT!Decide, Coding!Observe, CodingT!Observe, Coding!Look,
         CodingT!Look, Coding!Read, CodingT!Read, Coding!Write, CodingT!Write, Coding!WriteFails,
         CodingT!WriteFails, Coding!Test, CodingT!Test, Coding!EndTurn, CodingT!EndTurn, Coding!Unrepaired,
         CodingT!Unrepaired, Coding!NextTurn, CodingT!NextTurn, Coding!Next, CodingT!Next,
         Coding!RepairsStay, CodingT!RepairsStay, Coding!FinishIsTested, CodingT!FinishIsTested,
         Coding!HealAddsNothing, CodingT!HealAddsNothing, Coding!Range, CodingT!Range, Coding!Min,
         CodingT!Min, Coding!Passing, CodingT!Passing, Coding!FinishedIsRepaired, CodingT!FinishedIsRepaired,
         Coding!UnrepairedIsExplained, CodingT!UnrepairedIsExplained

\* The coder's invariant, with the property of the last step.
LEMMA CodingStep ==
  ASSUME CodingT!IInv, [NextParts]_all, part = "coder"
  PROVE  CodingT!IInv' /\ Coding!RepairsStay /\ Coding!HealAddsNothing
<1>1. [CodingT!Next]_(CodingT!vars) /\ CodingT!CoderAssumption
  BY PartSteps, SameCoder, PartsAssumption
<1>2. CodingT!IInv'
  BY <1>1, CodingT!StepHolds
<1>3. CodingT!RepairsStay /\ CodingT!HealAddsNothing
  BY <1>1, CodingT!NothingIsUndone
<1> QED
  BY <1>2, <1>3, SameCoder

LEMMA CodingInvariant == SpecParts => [](part = "coder" => CodingT!IInv)
<1>1. InitParts => (part = "coder" => CodingT!IInv)
  BY PartInits, PartsAssumption, SameCoder, CodingT!InitHolds
<1>2. (part = "coder" => CodingT!IInv) /\ [NextParts]_all => (part = "coder" => CodingT!IInv)'
  BY PartSteps, CodingStep
<1> QED
  BY <1>1, <1>2, PTL DEF SpecParts

(* No repair is undone, and no turn follows one the coder has finished     *)
(* with effect (mock_coder.py, complete; runtime.py, _agent).              *)
THEOREM CodingKeeps == SpecParts => CodingIsKept
<1> DEFINE Kept == part = "coder" => Coding!RepairsStay /\ Coding!HealAddsNothing
<1>1. (part = "coder" => CodingT!IInv) /\ [NextParts]_all => [Kept]_coding
  BY CodingStep
<1>2. SpecParts => [][Kept]_coding
  BY <1>1, CodingInvariant, PTL DEF SpecParts
<1> QED
  BY <1>2 DEF CodingIsKept

(* "finish" is only said of what has been tested, and unless a patch failed *)
(* of what has nothing left to repair (mock_coder.py, complete).           *)
THEOREM FinishIsRight ==
  SpecParts => [](part = "coder" => Coding!FinishIsTested /\ Coding!FinishedIsRepaired)
<1> DEFINE I == part = "coder" => CodingT!RepairInv
           C == part = "coder" => CodingT!IInv
           F == part = "coder" => Coding!FinishIsTested /\ Coding!FinishedIsRepaired
<1>1. InitParts => I
  BY PartInits, SameCoder, CodingT!InitRepairs
<1>2. C /\ I /\ [NextParts]_all => I'
  <2> SUFFICES ASSUME CodingT!IInv, CodingT!RepairInv, [NextParts]_all, part = "coder"
               PROVE  CodingT!RepairInv'
    BY PartSteps
  <2>1. [CodingT!Next]_(CodingT!vars) /\ CodingT!CoderAssumption
    BY PartSteps, SameCoder, PartsAssumption
  <2> QED
    BY <2>1, CodingT!StepRepairs
<1>3. C /\ I => F
  <2>1. CodingT!IInv => CodingT!FinishIsTested
    BY DEF CodingT!IInv, CodingT!PendingInv, CodingT!FinishIsTested
  <2>2. CodingT!IInv /\ CodingT!RepairInv => CodingT!FinishedIsRepaired
    BY CodingT!NothingIsLeft
  <2> QED
    BY <2>1, <2>2, SameCoder
<1>4. SpecParts => []C
  BY CodingInvariant
<1> QED
  BY <1>1, <1>2, <1>3, <1>4, PTL DEF SpecParts

(* With iterations enough for the files there are, what the coder leaves   *)
(* unrepaired has one of three known causes, and it says finish only of    *)
(* tested work (mock_coder.py, complete; agent_loop.py, run).              *)
THEOREM CodingIsRight ==
  ASSUME Window >= 2, MaxIters >= 5 * Len(Impl) + Len(Suites) + Window - 1
  PROVE  SpecParts => []CodingIsExplained
<1> DEFINE I == part = "coder" => CodingT!RepairInv /\ CodingT!CourseInv
           C == part = "coder" => CodingT!IInv
           U == part = "coder" => Coding!UnrepairedIsExplained
           F == part = "coder" => Coding!FinishIsTested /\ Coding!FinishedIsRepaired
<1>1. CodingT!Enough
  BY DEF CodingT!Enough
<1>2. InitParts => I
  BY PartInits, PartsAssumption, SameCoder, CodingT!InitRepairs, CodingT!InitCourse
<1>3. C /\ I /\ [NextParts]_all => I'
  <2> SUFFICES ASSUME CodingT!IInv, CodingT!RepairInv, CodingT!CourseInv, [NextParts]_all, part = "coder"
               PROVE  CodingT!RepairInv' /\ CodingT!CourseInv'
    BY PartSteps
  <2>1. [CodingT!Next]_(CodingT!vars) /\ CodingT!CoderAssumption
    BY PartSteps, SameCoder, PartsAssumption
  <2> QED
    BY <1>1, <2>1, CodingT!StepRepairs, CodingT!StepCourse
<1>4. C /\ I => U
  BY SameCoder, CodingT!ExplainedByCourse
<1>5. SpecParts => []C
  BY CodingInvariant
<1>6. SpecParts => []F
  BY FinishIsRight
<1>7. F /\ U => CodingIsExplained
  BY DEF CodingIsExplained
<1> QED
  BY <1>2, <1>3, <1>4, <1>5, <1>6, <1>7, PTL DEF SpecParts
=============================================================================
