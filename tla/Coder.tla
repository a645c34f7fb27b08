------------------------------- MODULE Coder -------------------------------
(***************************************************************************)
(* models/mock_coder.py, the coding model used when no large provider is   *)
(* healthy, run by AgentLoop in one turn after another over one candidate  *)
(* workspace. The provider is created once per task and keeps its memory;  *)
(* the loop and its observations are new in each turn. The model sees no   *)
(* more than the last eight observations, and reads all of them anew at    *)
(* every call, however old. Nothing runs beside it: what varies is the     *)
(* repository, and whether a patch can be written.                         *)
(***************************************************************************)
EXTENDS Naturals, SequencesExt

CONSTANTS
  Impl,      \* sequence: listed *.py paths without "test" in them, in order
  Suites,    \* sequence: listed *.py paths with "test" in them
  Window,    \* observations shown in the prompt
  MaxIters,  \* AgentLoop.max_iters
  MaxHeal,   \* turns of Runtime._agent
  MaxFails   \* bound: patches that cannot be written

Paths == Range(Impl) \cup Range(Suites)

\* What the composition of the parts assumes of these constants. A path has
\* "test" in it or has not.
CoderAssumption ==
  /\ Impl \in Seq(Range(Impl)) /\ Suites \in Seq(Range(Suites))
  /\ Range(Impl) \cap Range(Suites) = {}
  /\ Window \in Nat /\ MaxIters \in Nat /\ MaxHeal \in Nat \ {0} /\ MaxFails \in Nat

\* What can be said of a file, after module Synth. fine: synth has nothing to
\* offer. broken: one candidate satisfies the tests. creeping: it does, and so
\* does a further rewriting of it (Bound: one; Synth has chains of up to four).
\* loose: the tests accept the text and always leave another one. hopeless: they
\* fail and no candidate helps, also because an assert is not read for what it
\* is (a file that passes and is made to fail by that is left out). unreadable:
\* empty (the body is then not recorded) or so long that the observation, cut
\* at 4000 characters, is no JSON any more. absent: not in the repository.
Kinds == {"fine", "broken", "creeping", "loose", "hopeless", "unreadable", "absent"}
SuiteKinds == {"fine", "unreadable", "absent"}
Text  == {"old", "new", "newer"}

VARIABLES
  kind,     \* kind[p], fixed by the repository
  disk,     \* disk[p].text, and mark: does "# candidate-1" end the file
  listed, files, tests, step,  \* _listed, _files, _tests, _step
  did,      \* the flags _weak_patch, _tested, _fixed, _retested that are set
  pc, i, obs, act,             \* the loop, its observations, the answer
  turn,     \* turns begun
  fails,    \* patches that failed so far
  untested, \* history: a patch was written after the last run_tests
  finished  \* history: the last turn was ended by the coder itself

repo  == <<kind>>
coder == <<listed, files, tests, step, did>>
loop  == <<pc, i, obs, act, turn>>
hist  == <<fails, untested, finished>>
vars  == <<repo, disk, coder, loop, hist>>

Act(tool, path, text) == [tool |-> tool, path |-> path, text |-> text]
Nothing == Act("none", "", "")

Init ==
  /\ kind \in [Paths -> Kinds] /\ \A p \in Range(Suites) : kind[p] \in SuiteKinds
  /\ disk = [p \in Paths |-> [text |-> "old", mark |-> FALSE]]
  /\ listed = FALSE /\ files = << >> /\ tests = {} /\ step = 0 /\ did = {}
  /\ pc = "ask" /\ i = 0 /\ obs = << >> /\ act = Nothing /\ turn = 1
  /\ fails = 0 /\ untested = FALSE /\ finished = FALSE
-----------------------------------------------------------------------------
\* Those of the paths that the repository has.
Listing(paths) == {p \in paths : kind[p] # "absent"}

\* The one of some paths that a list names first.
First(list, ps) == list[Min({n \in DOMAIN list : list[n] \in ps})]

Alternate(t) == IF t = "new" THEN "newer" ELSE "new"

\* mutant: any other candidate will do, satisfying or not.
RepairedAny(p, t) ==
  IF kind[p] \in {"broken", "creeping", "loose"} THEN Alternate(t) ELSE t

(* What synth.repair_source makes of a text; the text itself when it        *)
(* returns None.                                                           *)
Repaired(p, t) ==
  CASE kind[p] = "broken" /\ t = "old" -> "new"
    [] kind[p] = "creeping" /\ t # "newer" -> Alternate(t)
    [] kind[p] = "loose" -> Alternate(t)
    [] OTHER -> t

\* The files read so far whose repair differs; they were read in order.
ToFix == {p \in DOMAIN files : Repaired(p, files[p]) # files[p]}

\* _ingest: every observation of the prompt, old ones too. Bound: step is
\* compared with 4 only.
Remembered(seen) == {o \in Range(seen) : o.tool = "read" /\ o.text # ""}
ReadOf(p) == {o \in Remembered(obs) : o.path = p}

Ingest ==
  /\ pc = "ask" /\ i < MaxIters
  /\ step' = IF step < 5 THEN step + 1 ELSE step
  /\ listed' = (listed \/ (Listing(Paths) # {} /\ \E o \in Range(obs) : o.tool = "list"))
  /\ tests' = tests \cup ({o.path : o \in Remembered(obs)} \cap Range(Suites))
  /\ files' = [p \in {q \in Range(Impl) : q \in DOMAIN files \/ ReadOf(q) # {}} |->
                 IF ReadOf(p) # {} THEN (CHOOSE o \in ReadOf(p) : TRUE).text ELSE files[p]]
  /\ pc' = "decide"
  /\ UNCHANGED <<repo, disk, did, i, obs, act, turn, hist>>
-----------------------------------------------------------------------------
(* MockCoderProvider.complete: the first branch that applies.               *)

Answer(a) ==
  /\ pc = "decide" /\ pc' = "act" /\ act' = a
  /\ UNCHANGED <<repo, disk, listed, tests, step, i, obs, turn, hist>>

Idle == UNCHANGED <<files, did>>

Blank == files = << >> /\ tests = {}

\* What is still to be read. To begin with the suites are, if they can be.
UnreadImpl   == Listing(Range(Impl)) \ DOMAIN files
UnreadSuites == Listing(Range(Suites)) \ tests
SuitesFirst  == Blank /\ step <= 4 /\ UnreadSuites # {}

AskList == ~listed /\ Answer(Act("list", "", "")) /\ Idle

AskSuite ==
  /\ listed /\ (SuitesFirst \/ (~Blank /\ UnreadImpl = {} /\ UnreadSuites # {}))
  /\ Answer(Act("read", First(Suites, UnreadSuites), "")) /\ Idle

AskImpl ==
  /\ listed /\ ~SuitesFirst /\ UnreadImpl # {}
  /\ Answer(Act("read", First(Impl, UnreadImpl), "")) /\ Idle

AskInspect ==
  /\ listed /\ ~SuitesFirst /\ Blank /\ UnreadImpl = {}
  /\ Answer(Act("inspect", "", "")) /\ Idle

AllRead == listed /\ ~Blank /\ UnreadImpl = {} /\ UnreadSuites = {}

Patch(p, t) == Act("patch", p, t)
RunTests    == Act("tests", "", "")

\* The first file, as read, with the mark: meant to be insufficient.
WeakPatch ==
  /\ AllRead /\ "weak" \notin did /\ files # << >>
  /\ did' = did \cup {"weak"}
  /\ LET p == First(Impl, DOMAIN files)
     IN  Answer([Patch(p, files[p]) EXCEPT !.tool = "mark"])
  /\ UNCHANGED files

Marked == AllRead /\ ("weak" \in did \/ files = << >>)

FirstTest ==
  /\ Marked /\ "tested" \notin did
  /\ did' = did \cup {"tested"} /\ Answer(RunTests) /\ UNCHANGED files

\* The coder takes the file for repaired as soon as it has asked for it.
AskFix(p) == Answer(Patch(p, Repaired(p, files[p]))) /\ files' = [files EXCEPT ![p] = Repaired(p, @)]

Fix ==
  /\ Marked /\ "tested" \in did /\ "fixed" \notin did
  /\ did' = did \cup {"fixed"}
  /\ IF ToFix # {} THEN AskFix(First(Impl, ToFix)) ELSE Answer(RunTests) /\ UNCHANGED files

Fixed == Marked /\ {"tested", "fixed"} \subseteq did

Retest ==
  /\ Fixed /\ "retested" \notin did
  /\ did' = did \cup {"retested"} /\ Answer(RunTests) /\ UNCHANGED files

FixNext ==
  /\ Fixed /\ "retested" \in did /\ ToFix # {}
  /\ did' = did \ {"retested"} /\ AskFix(First(Impl, ToFix))

\* mutant: one repaired file is taken for all.
FinishEarly ==
  /\ Fixed /\ "retested" \in did /\ (\A p, q \in ToFix : p = q)
  /\ Answer(Act("finish", "", "")) /\ Idle

Finish ==
  /\ Fixed /\ "retested" \in did /\ ToFix = {}
  /\ Answer(Act("finish", "", "")) /\ Idle

Decide ==
  \/ AskList \/ AskSuite \/ AskImpl \/ AskInspect
  \/ WeakPatch \/ FirstTest \/ Fix \/ Retest \/ FixNext \/ Finish
-----------------------------------------------------------------------------
(* The loop runs the tool; what it returns is the next observation. Bound:  *)
(* observations that can no longer be shown are dropped.                    *)

Observe(o) ==
  /\ obs' = LET all == Append(obs, o) IN IF Len(all) > Window THEN Tail(all) ELSE all
  /\ i' = i + 1 /\ pc' = "ask"
  /\ UNCHANGED <<repo, coder, act, turn, finished>>

Look ==
  /\ pc = "act" /\ act.tool \in {"list", "inspect"}
  /\ Observe(act) /\ UNCHANGED <<disk, fails, untested>>

Read ==
  /\ pc = "act" /\ act.tool = "read"
  /\ Observe([act EXCEPT !.text = IF kind[act.path] = "unreadable" THEN "" ELSE disk[act.path].text])
  /\ UNCHANGED <<disk, fails, untested>>

Write ==
  /\ pc = "act" /\ act.tool \in {"patch", "mark"}
  /\ disk' = [disk EXCEPT ![act.path] = [text |-> act.text, mark |-> act.tool = "mark"]]
  /\ untested' = TRUE
  /\ Observe(Nothing) /\ UNCHANGED fails

\* apply_patch raises; the loop turns that into an observation.
WriteFails ==
  /\ pc = "act" /\ act.tool \in {"patch", "mark"} /\ fails < MaxFails
  /\ fails' = fails + 1
  /\ Observe(Nothing) /\ UNCHANGED <<disk, untested>>

Test ==
  /\ pc = "act" /\ act.tool = "tests"
  /\ untested' = FALSE
  /\ Observe(Nothing) /\ UNCHANGED <<disk, fails>>

EndTurn ==
  /\ \/ pc = "act" /\ act.tool = "finish" /\ finished' = TRUE
     \/ pc = "ask" /\ i = MaxIters /\ finished' = FALSE
  /\ pc' = "verify"
  /\ UNCHANGED <<repo, disk, coder, i, obs, act, turn, fails, untested>>

\* The pytest run of Runtime._agent.
Unrepaired(p) == kind[p] \in {"broken", "creeping"} /\ disk[p].text = "old"

Passing == \A p \in Range(Impl) : kind[p] # "hopeless" /\ ~Unrepaired(p)

\* The next task of the plan that calls _agent: the same provider, a new loop.
NextTurn ==
  /\ pc = "verify" /\ ~Passing /\ turn < MaxHeal
  /\ turn' = turn + 1 /\ i' = 0 /\ obs' = << >> /\ pc' = "ask"
  /\ UNCHANGED <<repo, disk, coder, act, hist>>

Next ==
  \/ Ingest \/ Decide
  \/ Look \/ Read \/ Write \/ WriteFails \/ Test
  \/ EndTurn \/ NextTurn

Spec == Init /\ [][Next]_vars
-----------------------------------------------------------------------------
(* Properties.                                                             *)

(* Types.                                                                  *)
TypeOK ==
  /\ kind \in [Paths -> Kinds]
  /\ disk \in [Paths -> [text : Text, mark : BOOLEAN]]
  /\ listed \in BOOLEAN /\ step \in 0 .. 5
  /\ DOMAIN files \subseteq Range(Impl) /\ \A p \in DOMAIN files : files[p] \in Text
  /\ tests \subseteq Range(Suites)
  /\ did \subseteq {"weak", "tested", "fixed", "retested"}
  /\ pc \in {"ask", "decide", "act", "verify"}
  /\ i \in 0 .. MaxIters /\ Len(obs) <= Window
  /\ turn \in 1 .. MaxHeal /\ fails \in 0 .. MaxFails

(* When all turns are over and a file that could have been repaired is     *)
(* not, one of three things is to blame: a file that cannot be read (it is  *)
(* asked for until the limit of iterations, mock_coder.py:64-69), an       *)
(* earlier file with loose tests (rewritten over and over, :103-111), a    *)
(* patch that could not be written. Stale observations alone, though they  *)
(* have repaired files patched again, never prevent a repair; how many     *)
(* iterations that takes is said in CoderProofs (Enough).                  *)
UnrepairedIsExplained ==
  (pc = "verify" /\ (Passing \/ turn = MaxHeal)) =>
    \A n \in DOMAIN Impl :
      Unrepaired(Impl[n]) =>
         \/ \E p \in Paths : kind[p] = "unreadable"
         \/ \E m \in 1 .. n - 1 : kind[Impl[m]] = "loose"
         \/ fails > 0

(* The repair of a broken file stays, byte for byte: neither the           *)
(* intentionally weak candidate nor a patch made from an old observation   *)
(* is written over it, in this turn or a later one. Creeping and loose     *)
(* files, for which there is another repair, are rewritten.                *)
RepairsStay ==
  \A p \in Range(Impl) :
    (kind[p] = "broken" /\ disk[p].text = "new") => disk'[p] = disk[p]

(* "finish" is only said of what has been tested: between the last patch   *)
(* and it there is a run of the tests, also when the patch was the last    *)
(* iteration of the turn before.                                           *)
FinishIsTested == act.tool = "finish" => ~untested

(* When the coder itself ends a turn and every patch could be written, it   *)
(* has repaired whatever it could have repaired: no file was overlooked,   *)
(* and none was taken for repaired because of what an observation, old or  *)
(* new, said of it (mock_coder.py:43-50, 86-116).                          *)
FinishedIsRepaired ==
  finished /\ fails = 0 => \A p \in Range(Impl) : ~Unrepaired(p)

(* A turn after one that the coder ended itself changes nothing: the heal  *)
(* attempts of Runtime._agent only help where the limit of iterations      *)
(* struck. In particular a patch that failed is not tried again, since the *)
(* coder recorded it as done (mock_coder.py:95).                           *)
HealAddsNothing == finished => disk' = disk
=============================================================================
