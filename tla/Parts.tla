------------------------------- MODULE Parts -------------------------------
(***************************************************************************)
(* The parts that an agent's turn is made of and that run one at a time    *)
(* and share no state: the agent loop, the test runner, the code graph,    *)
(* the patches, the router, the coder and its search. A behaviour is one   *)
(* of one part, so that each is checked in all its behaviours, and none in *)
(* a product with the others that would say nothing more.                  *)
(***************************************************************************)
EXTENDS PytestRun

CONSTANTS
  Asked, LoopIters, LoopHeals,                        \* of AgentLoop
  Py, TestFile, Good, SyntaxBad, Fatal, NoFile,       \* of CodeGraph
  File, Outside, MaxText,                             \* of PatchEngine
  Impl, Suites, Window, MaxIters, MaxHeal, MaxFails,  \* of Coder
  Points, MaxRewrites                                 \* of Synth

VARIABLES
  part,     \* the part that this behaviour is of
  asked, loopPc, round, answer, cancel, heal, ran, testsOk, calls, late,
  fs, files, symbols, imports, tests, current, parseTodo, busy, fresh, dropped,
  text, patchPc, patch, raced, mine,
  configured, up, available, loaded, need, order, routerPc, choice, handed, steady,
  kind, disk, listed, read, suites, step, did, coderPc, i, obs, act, turn, fails, untested, finished,
  truth, asserts, params, fn, dressed, trail, done

looping  == <<asked, loopPc, round, answer, cancel, heal, ran, testsOk, calls, late>>
graph    == <<fs, files, symbols, imports, tests, current, parseTodo, busy, fresh, dropped>>
patching == <<text, patchPc, patch, raced, mine>>
routing  == <<configured, up, available, loaded, need, order, routerPc, choice, handed, steady>>
coding   == <<kind, disk, listed, read, suites, step, did, coderPc, i, obs, act, turn, fails,
              untested, finished>>
search   == <<truth, asserts, params, fn, dressed, trail, done>>

Loop    == INSTANCE AgentLoop WITH MaxIters <- LoopIters, MaxHeal <- LoopHeals,
                                   pc <- loopPc, i <- round, token <- cancel
Graph   == INSTANCE CodeGraph WITH todo <- parseTodo
Patches == INSTANCE PatchEngine WITH pc <- patchPc
Routing == INSTANCE Router WITH pc <- routerPc
Coding  == INSTANCE Coder WITH files <- read, tests <- suites, pc <- coderPc
Search  == INSTANCE Synth WITH tests <- asserts

\* What each part assumes of its constants.
ASSUME PartsAssumption ==
  Loop!LimitAssumption /\ Graph!ContentAssumption /\ Coding!CoderAssumption
-----------------------------------------------------------------------------
(* Every part begins as its module says, or is not there.                  *)

Off == "off"

InitPytest ==
  IF part = "pytest" THEN Init
  ELSE /\ hook = FALSE /\ suite = [passes |-> FALSE, ends |-> FALSE, heeds |-> FALSE, leaves |-> TRUE]
       /\ todo = 0 /\ pipe = 0 /\ child = Off /\ token = FALSE /\ waited = 0
       /\ pc = Off /\ verdict = "none"

InitLoop ==
  IF part = "loop" THEN Loop!Init
  ELSE /\ asked = Off /\ loopPc = Off /\ round = Off /\ answer = Off /\ cancel = Off
       /\ heal = Off /\ ran = Off /\ testsOk = Off /\ calls = Off /\ late = Off

InitGraph ==
  IF part = "graph" THEN Graph!Init
  ELSE /\ fs = Off /\ files = Off /\ symbols = Off /\ imports = Off /\ tests = Off
       /\ current = Off /\ parseTodo = Off /\ busy = Off /\ fresh = Off /\ dropped = Off

InitPatches ==
  IF part = "patches" THEN Patches!Init
  ELSE text = Off /\ patchPc = Off /\ patch = Off /\ raced = Off /\ mine = Off

InitRouting ==
  IF part = "router" THEN Routing!Init
  ELSE /\ configured = Off /\ up = Off /\ available = Off /\ loaded = Off /\ need = Off
       /\ order = Off /\ routerPc = Off /\ choice = Off /\ handed = Off /\ steady = Off

InitCoding ==
  IF part = "coder" THEN Coding!Init
  ELSE /\ kind = Off /\ disk = Off /\ listed = Off /\ read = Off /\ suites = Off /\ step = Off
       /\ did = Off /\ coderPc = Off /\ i = Off /\ obs = Off /\ act = Off /\ turn = Off
       /\ fails = Off /\ untested = Off /\ finished = Off

InitSearch ==
  IF part = "synth" THEN Search!Init
  ELSE /\ truth = Off /\ asserts = Off /\ params = Off /\ fn = Off /\ dressed = Off
       /\ trail = Off /\ done = Off

InitParts ==
  /\ part \in {"loop", "pytest", "graph", "patches", "router", "coder", "synth"}
  /\ InitLoop /\ InitPytest /\ InitGraph /\ InitPatches /\ InitRouting
  /\ InitCoding /\ InitSearch

all == <<part, looping, vars, graph, patching, routing, coding, search>>

NextParts ==
  /\ UNCHANGED part
  /\ \/ /\ part = "loop" /\ Loop!Next
        /\ UNCHANGED <<vars, graph, patching, routing, coding, search>>
     \/ /\ part = "pytest" /\ Next
        /\ UNCHANGED <<looping, graph, patching, routing, coding, search>>
     \/ /\ part = "graph" /\ Graph!Next
        /\ UNCHANGED <<looping, vars, patching, routing, coding, search>>
     \/ /\ part = "patches" /\ Patches!Next
        /\ UNCHANGED <<looping, vars, graph, routing, coding, search>>
     \/ /\ part = "router" /\ Routing!Next
        /\ UNCHANGED <<looping, vars, graph, patching, coding, search>>
     \/ /\ part = "coder" /\ Coding!Next
        /\ UNCHANGED <<looping, vars, graph, patching, routing, search>>
     \/ /\ part = "synth" /\ Search!Next
        /\ UNCHANGED <<looping, vars, graph, patching, routing, coding>>

\* As in FairSpec of AgentLoop and of PytestRun; the other parts are owed nothing.
SpecParts ==
  /\ InitParts /\ [][NextParts]_all
  /\ WF_vars(part = "pytest" /\ Parent /\ UNCHANGED part)
  /\ WF_looping(part = "loop" /\ Loop!OtherStep /\ UNCHANGED part)
-----------------------------------------------------------------------------
(* The properties of the parts.                                            *)

(* "Permissions never escalate from a model proposal"                      *)
(* (PermissionsNeverEscalate of AgentLoop; agents/roles.py:1, loop.py:71). *)
RolesAreKept == part = "loop" => Loop!PermissionsNeverEscalate

(* A task makes at most max_heal * max_iters calls of the model, however   *)
(* its attempts end (CallBudget of AgentLoop; runtime.py, _agent).         *)
BudgetIsKept == part = "loop" => Loop!CallBudget

(* After the token is set at most one more call of the model, tool or test *)
(* run is begun (AtMostOneLateStep of AgentLoop; agents/loop.py, run).     *)
CancelIsHeeded == part = "loop" => Loop!AtMostOneLateStep

(* An agent ends, unless it waits for tests that never let go of their     *)
(* pipe (AgentEnds of AgentLoop; agents/loop.py, sandbox/exec.py:107).     *)
LoopEnds == part # "loop" \/ []<>(loopPc = "out") \/ <>[]Loop!InPytest

(* A graph brought up to date agrees with one built anew (AgreesWithIndex  *)
(* of CodeGraph; codegraph/index.py, incremental).                         *)
GraphAgrees == part = "graph" => Graph!AgreesWithIndex

(* A patch overwrites only what it expects, inside the workspace, and a    *)
(* retry changes nothing (WriteIsSafe of PatchEngine; patch/engine.py,     *)
(* apply_patch).                                                           *)
WritesAreSafe == [][part = "patches" => Patches!WriteIsSafe]_patching

(* One large model at most, over all calls, and of those ranked before the *)
(* stub none is overlooked (OneLargeModel, NoneOverlooked of Router;       *)
(* router.py, choose).                                                     *)
ChoiceIsSound == part = "router" => Routing!OneLargeModel /\ Routing!NoneOverlooked

(* What the coder leaves unrepaired has one of three known causes, and it  *)
(* says finish only of tested work, in which nothing is left to repair     *)
(* unless a patch failed (UnrepairedIsExplained, FinishIsTested,           *)
(* FinishedIsRepaired of Coder; mock_coder.py, complete).                  *)
CodingIsExplained ==
  part = "coder" =>
    Coding!UnrepairedIsExplained /\ Coding!FinishIsTested /\ Coding!FinishedIsRepaired

(* No repair of a broken file is written over, and a turn after one that   *)
(* the coder has finished changes nothing (RepairsStay, HealAddsNothing of *)
(* Coder; mock_coder.py, complete).                                        *)
CodingIsKept == [][part = "coder" => Coding!RepairsStay /\ Coding!HealAddsNothing]_coding

(* The search finds what the tests determine, and otherwise ends or        *)
(* alternates (DeterminedIsFound, EndsOrAlternates of Synth; synth.py).    *)
SearchConverges == part = "synth" => Search!DeterminedIsFound /\ Search!EndsOrAlternates

(* An assert that passed fails after a rewriting only if it was not read,  *)
(* or read as ==; and what the tests determine is left alone               *)
(* (RightStaysRight, RightIsNotTouched of Synth; synth.py, _repair_fn).    *)
SearchIsSound ==
  [][part = "synth" => Search!RightStaysRight /\ Search!RightIsNotTouched]_search
=============================================================================
