----------------------------- MODULE CoderProofs -----------------------------
(***************************************************************************)
(* The coder, for every repository, every number of observations shown, of *)
(* iterations and of turns: what it does not do, however old the           *)
(* observations are that it goes by.                                       *)
(***************************************************************************)
EXTENDS Coder, NaturalsInduction, WellFoundedInduction, SequenceTheorems, FiniteSetTheorems, TLAPS

Tools == {"none", "list", "inspect", "read", "mark", "patch", "tests", "finish"}

Observation == [tool : Tools, path : Paths \cup {""}, text : Text \cup {""}]

CoderTypes ==
  /\ kind \in [Paths -> Kinds]
  /\ disk \in [Paths -> [text : Text, mark : BOOLEAN]]
  /\ listed \in BOOLEAN /\ step \in 0 .. 5
  /\ DOMAIN files \subseteq Listing(Range(Impl)) /\ files \in [DOMAIN files -> Text]
  /\ tests \subseteq Range(Suites)
  /\ did \subseteq {"weak", "tested", "fixed", "retested"}
  /\ pc \in {"ask", "decide", "act", "verify"}
  /\ i \in 0 .. MaxIters /\ (pc \in {"decide", "act"} => i < MaxIters) /\ act \in Observation
  /\ obs \in Seq(Observation) /\ Len(obs) <= Window
  /\ turn \in 1 .. MaxHeal /\ fails \in 0 .. MaxFails
  /\ untested \in BOOLEAN /\ finished \in BOOLEAN

\* A text that may be read of a file: before the first patch, and later.
Legible(p, t) ==
  /\ "weak" \notin did => t = "old"
  /\ kind[p] = "broken" => t \in {"old", "new"}

(* Whatever the coder has seen of a file, it has or had; a repaired file   *)
(* carries no mark.                                                        *)
DiskInv ==
  \A p \in Paths :
    /\ Legible(p, disk[p].text)
    /\ "weak" \notin did => ~disk[p].mark
    /\ kind[p] = "broken" /\ disk[p].text = "new" => ~disk[p].mark

FilesInv == \A p \in DOMAIN files : Legible(p, files[p])

ObsInv ==
  \A n \in 1 .. Len(obs) :
    obs[n].tool = "read" =>
      /\ obs[n].path \in Listing(Paths)
      /\ obs[n].text # "" => Legible(obs[n].path, obs[n].text)

TextsInv == DiskInv /\ FilesInv /\ ObsInv

(* The flags are set in order; without an implementation there is nothing  *)
(* to patch.                                                               *)
FlagsInv ==
  /\ "retested" \in did => "fixed" \in did
  /\ "fixed" \in did => "tested" \in did
  /\ "tested" \in did /\ "weak" \notin did => Listing(Range(Impl)) = {}
  /\ untested /\ "retested" \in did => pc = "act" /\ act.tool = "tests"

ReadyToFinish == Fixed /\ "retested" \in did /\ ToFix = {}

(* What the coder has asked for and the loop has not done yet.             *)
PendingInv ==
  /\ act.tool = "finish" => ~untested
  /\ pc = "act" =>
       /\ act.tool = "read" => act.path \in Listing(Paths)
       /\ act.tool \in {"patch", "mark"} =>
            act.path \in Range(Impl) /\ act.text # "" /\ "weak" \in did /\ "retested" \notin did
       /\ act.tool = "patch" /\ kind[act.path] = "broken" => act.text = "new"
       /\ act.tool = "mark" => act.text = "old" /\ \A p \in Paths : disk[p].text = "old"
       /\ act.tool = "finish" => ReadyToFinish

(* A turn after a finished one comes to the same end at once.              *)
FinishedInv ==
  finished =>
    /\ ReadyToFinish
    /\ pc # "verify" => obs = << >>
    /\ pc = "act" => act.tool = "finish"

IInv == CoderTypes /\ TextsInv /\ FlagsInv /\ PendingInv /\ FinishedInv

-----------------------------------------------------------------------------
(* What a list names first.                                                *)

LEMMA Least ==
  ASSUME NEW I, I \subseteq Nat, I # {}
  PROVE  Min(I) \in I /\ \A n \in I : Min(I) <= n
<1>1. PICK m \in I : \A n \in I : <<n, m>> \notin OpToRel(<, Nat)
  BY WFMin, NatLessThanWellFounded, Zenon
<1>2. \A n \in I : n < m => <<n, m>> \in OpToRel(<, Nat)
  BY Zenon DEF OpToRel
<1>3. \A n \in I : ~(n < m)
  BY <1>1, <1>2, Zenon
<1>4. \A n \in I : m <= n
  BY <1>3
<1> QED
  BY <1>4 DEF Min

LEMMA FirstIsOne ==
  ASSUME NEW list, list \in Seq(Range(list)), NEW ps, Range(list) \cap ps # {}
  PROVE  First(list, ps) \in Range(list) \cap ps
<1> DEFINE I == {n \in DOMAIN list : list[n] \in ps}
<1>1. DOMAIN list = 1 .. Len(list) /\ Len(list) \in Nat
  OBVIOUS
<1>2. I # {} /\ I \subseteq Nat
  BY <1>1 DEF Range
<1>3. Min(I) \in I
  BY <1>2, Least
<1> QED
  BY <1>3 DEF First, Range

LEMMA Empty == ASSUME NEW f, NEW T, f \in [DOMAIN f -> T] PROVE f = << >> <=> DOMAIN f = {}
<1>1. << >> = [x \in {} |-> 0]
  OBVIOUS
<1> QED
  BY <1>1

LEMMA InitHolds == ASSUME CoderAssumption, Init PROVE IInv
<1>1. files = << >> /\ DOMAIN files = {} /\ files \in [DOMAIN files -> Text]
  BY Empty DEF Init
<1>2. kind \in [Paths -> Kinds]
  BY DEF Init
<1>3. \A p \in Paths : disk[p] = [text |-> "old", mark |-> FALSE]
  BY DEF Init
<1>4. CoderTypes
  <2>1. Nothing \in Observation
    BY DEF Observation, Nothing, Act, Tools
  <2>2. disk \in [Paths -> [text : Text, mark : BOOLEAN]]
    BY DEF Init, Text
  <2>3. DOMAIN files \subseteq Listing(Range(Impl)) /\ tests \subseteq Range(Suites)
    BY <1>1 DEF Init
  <2>4. i \in 0 .. MaxIters /\ 0 <= Window /\ turn \in 1 .. MaxHeal /\ fails \in 0 .. MaxFails /\ step \in 0 .. 5
    BY DEF Init, CoderAssumption
  <2>5. obs \in Seq(Observation) /\ Len(obs) = 0
    BY DEF Init
  <2> QED
    BY <1>1, <1>2, <2>1, <2>2, <2>3, <2>4, <2>5 DEF CoderTypes, Init
<1>5. TextsInv
  BY <1>1, <1>3 DEF TextsInv, DiskInv, FilesInv, ObsInv, Legible, Init
<1> QED
  BY <1>4, <1>5 DEF Init, IInv, FlagsInv, PendingInv, FinishedInv, Nothing, Act
-----------------------------------------------------------------------------
(* The coder.                                                              *)

\* What is remembered was there to be read.
LEMMA ReadWas ==
  ASSUME IInv, NEW o \in Remembered(obs)
  PROVE  o.path \in Listing(Paths) /\ o.text \in Text /\ Legible(o.path, o.text)
<1>1. obs \in Seq(Observation)
  BY DEF IInv, CoderTypes
<1>2. o \in Range(obs)
  BY Zenon DEF Remembered
<1>3. o.tool = "read" /\ o.text # ""
  BY Zenon DEF Remembered
<1>4. PICK n \in 1 .. Len(obs) : o = obs[n]
  BY <1>1, <1>2 DEF Range
<1>5. o \in Observation
  BY <1>1, <1>4
<1>6. o.text \in Text
  BY <1>3, <1>5 DEF Observation
<1>7. o.path \in Listing(Paths) /\ Legible(o.path, o.text)
  BY <1>3, <1>4, Zenon DEF IInv, TextsInv, ObsInv
<1> QED
  BY <1>6, <1>7

\* Remembering takes what was read, and keeps the rest.
LEMMA IngestFiles ==
  ASSUME IInv, Ingest
  PROVE  /\ DOMAIN files \subseteq DOMAIN files' /\ DOMAIN files' \subseteq Listing(Range(Impl))
         /\ files' \in [DOMAIN files' -> Text]
         /\ \A p \in DOMAIN files' : Legible(p, files'[p])
         /\ obs = << >> => files' = files /\ tests' = tests
<1>1. /\ DOMAIN files' = {q \in Range(Impl) : q \in DOMAIN files \/ ReadOf(q) # {}}
      /\ files' = [p \in DOMAIN files' |-> files'[p]]
      /\ \A p \in DOMAIN files' :
            files'[p] = IF ReadOf(p) # {} THEN (CHOOSE o \in ReadOf(p) : TRUE).text ELSE files[p]
  BY DEF Ingest
<1>2. DOMAIN files \subseteq Listing(Range(Impl)) /\ files \in [DOMAIN files -> Text]
  BY DEF IInv, CoderTypes
<1>3. ASSUME NEW p \in DOMAIN files'
      PROVE  p \in Listing(Range(Impl)) /\ files'[p] \in Text /\ Legible(p, files'[p])
  <2>1. CASE ReadOf(p) = {}
    BY <1>1, <1>2, <2>1 DEF IInv, TextsInv, FilesInv
  <2>2. CASE ReadOf(p) # {}
    <3>1. PICK o \in ReadOf(p) : files'[p] = o.text
      BY <1>1, <2>2
    <3>2. o \in Remembered(obs) /\ o.path = p
      BY DEF ReadOf
    <3> QED
      BY <1>1, <3>1, <3>2, ReadWas DEF Listing
  <2> QED
    BY <2>1, <2>2
<1>4. ASSUME obs = << >> PROVE files' = files /\ tests' = tests
  <2>1. Remembered(obs) = {} /\ \A p : ReadOf(p) = {}
    BY <1>4 DEF Remembered, Range, ReadOf
  <2>2. DOMAIN files' = DOMAIN files
    BY <1>1, <1>2, <2>1 DEF Listing
  <2>3. files' = files
    BY <1>1, <1>2, <2>1, <2>2
  <2> QED
    BY <2>1, <2>3 DEF Ingest
<1> QED
  BY <1>1, <1>2, <1>3, <1>4 DEF Listing

LEMMA IngestKeeps == ASSUME IInv, Ingest PROVE IInv'
<1>1. /\ UNCHANGED <<kind, disk, did, i, obs, act, turn, fails, untested, finished>>
      /\ pc = "ask" /\ pc' = "decide"
  BY DEF Ingest, repo, hist
<1>2. CoderTypes'
  <2>1. step' \in 0 .. 5 /\ listed' \in BOOLEAN /\ tests' \subseteq Range(Suites)
    BY DEF Ingest, IInv, CoderTypes
  <2>2. Listing(Range(Impl))' = Listing(Range(Impl))
    BY <1>1 DEF Listing
  <2>3. i' < MaxIters
    BY <1>1 DEF Ingest
  <2> QED
    BY <1>1, <2>1, <2>2, <2>3, IngestFiles DEF IInv, CoderTypes
<1>3. TextsInv'
  BY <1>1, IngestFiles DEF IInv, TextsInv, DiskInv, FilesInv, ObsInv, Legible, Listing
<1>4. FlagsInv' /\ PendingInv'
  BY <1>1 DEF IInv, FlagsInv, PendingInv, Listing
<1>5. FinishedInv'
  <2> SUFFICES ASSUME finished PROVE FinishedInv'
    BY <1>1 DEF FinishedInv
  <2>1. ReadyToFinish /\ obs = << >>
    BY <1>1 DEF IInv, FinishedInv
  <2>2. files' = files /\ tests' = tests
    BY <2>1, IngestFiles
  <2>3. listed' = listed
    BY <2>1 DEF Ingest, ReadyToFinish, Fixed, Marked, AllRead
  <2>4. ReadyToFinish'
    BY <1>1, <2>1, <2>2, <2>3
       DEF ReadyToFinish, Fixed, Marked, AllRead, Blank, UnreadImpl, UnreadSuites, ToFix, Listing, Repaired
  <2> QED
    BY <1>1, <2>1, <2>4 DEF FinishedInv
<1> QED
  BY <1>2, <1>3, <1>4, <1>5 DEF IInv

\* What an answer leaves alone, and what its action has to see to.
LEMMA AnswerKeeps ==
  ASSUME IInv, NEW a, a \in Observation, Answer(a),
         did' \subseteq {"weak", "tested", "fixed", "retested"}, "weak" \in did => "weak" \in did',
         DOMAIN files' = DOMAIN files, files' \in [DOMAIN files' -> Text],
         \A p \in DOMAIN files : Legible(p, files[p])',
         FlagsInv', PendingInv', FinishedInv'
  PROVE  IInv'
<1>1. /\ UNCHANGED <<kind, disk, listed, tests, step, i, obs, turn, fails, untested, finished>>
      /\ act' = a /\ pc = "decide" /\ pc' = "act"
  BY DEF Answer, repo, hist
<1>2. Listing(Range(Impl))' = Listing(Range(Impl)) /\ Listing(Paths)' = Listing(Paths)
  BY <1>1 DEF Listing
<1>3. CoderTypes'
  BY <1>1, <1>2 DEF IInv, CoderTypes
<1>4. DiskInv'
  BY <1>1 DEF IInv, TextsInv, DiskInv, Legible
<1>5. FilesInv'
  BY <1>1 DEF FilesInv, Legible
<1>6. ObsInv'
  BY <1>1 DEF IInv, TextsInv, ObsInv, Legible, Listing
<1> QED
  BY <1>3, <1>4, <1>5, <1>6 DEF IInv, TextsInv

\* When the coder is asked again, and again after it was done.
LEMMA Asked ==
  ASSUME IInv, pc = "decide"
  PROVE  /\ "retested" \in did => ~untested
         /\ finished => ReadyToFinish
         /\ DOMAIN files \subseteq Listing(Range(Impl)) /\ files \in [DOMAIN files -> Text]
         /\ \A p \in DOMAIN files : Legible(p, files[p])
  BY DEF IInv, CoderTypes, TextsInv, FilesInv, FlagsInv, FinishedInv

LEMMA LookingKeeps ==
  ASSUME CoderAssumption, IInv, AskList \/ AskSuite \/ AskImpl \/ AskInspect
  PROVE  IInv'
<1>1. PICK tool \in {"list", "inspect", "read"}, path \in Paths \cup {""} :
        Answer(Act(tool, path, "")) /\ (tool = "read" => path \in Listing(Paths))
  <2>1. CASE AskList \/ AskInspect
    BY <2>1 DEF AskList, AskInspect
  <2>2. CASE AskSuite
    <3>1. UnreadSuites # {}
      BY <2>2 DEF AskSuite, SuitesFirst
    <3>2. First(Suites, UnreadSuites) \in UnreadSuites
      BY <3>1, FirstIsOne DEF UnreadSuites, Listing, CoderAssumption
    <3>3. First(Suites, UnreadSuites) \in Listing(Paths) /\ First(Suites, UnreadSuites) \in Paths
      BY <3>2 DEF UnreadSuites, Listing, Paths
    <3> QED
      BY <2>2, <3>3 DEF AskSuite
  <2>3. CASE AskImpl
    <3>1. First(Impl, UnreadImpl) \in UnreadImpl
      BY <2>3, FirstIsOne DEF AskImpl, UnreadImpl, Listing, CoderAssumption
    <3>2. First(Impl, UnreadImpl) \in Listing(Paths) /\ First(Impl, UnreadImpl) \in Paths
      BY <3>1 DEF UnreadImpl, Listing, Paths
    <3> QED
      BY <2>3, <3>2 DEF AskImpl
  <2> QED
    BY <2>1, <2>2, <2>3
<1> DEFINE a == Act(tool, path, "")
<1>a. /\ a \in Observation /\ a.tool = tool /\ a.path = path
  BY DEF Act, Observation, Tools
<1> HIDE DEF a
<1>2. /\ UNCHANGED <<kind, did, files, untested, finished>> /\ act' = a /\ pc = "decide" /\ pc' = "act"
  BY <1>1 DEF a, AskList, AskSuite, AskImpl, AskInspect, Idle, Answer, repo, hist
<1>3. ~finished
  BY <1>2, Asked DEF AskList, AskSuite, AskImpl, AskInspect, SuitesFirst, ReadyToFinish, Fixed, Marked, AllRead
<1>4. FlagsInv' /\ PendingInv' /\ FinishedInv'
  BY <1>1, <1>a, <1>2, <1>3, Asked DEF IInv, FlagsInv, PendingInv, FinishedInv, Listing
<1>5. \A p \in DOMAIN files : Legible(p, files[p])'
  BY <1>2, Asked DEF Legible
<1>6. did' \subseteq {"weak", "tested", "fixed", "retested"}
  BY <1>2 DEF IInv, CoderTypes
<1> QED
  BY <1>1, <1>a, <1>2, <1>4, <1>5, <1>6, Asked, AnswerKeeps DEF a

\* The answers that change neither the flag of the first candidate nor a file.
LEMMA TestingKeeps ==
  ASSUME IInv, FirstTest \/ Retest \/ Finish \/ (Fix /\ ToFix = {})
  PROVE  IInv'
<1>1. PICK tool \in {"tests", "finish"} :
        /\ Answer(Act(tool, "", "")) /\ files' = files
        /\ tool = "finish" => ReadyToFinish /\ did' = did
        /\ tool = "tests" => did' \in {did \cup {"tested"}, did \cup {"fixed"}, did \cup {"retested"}}
        /\ FirstTest => tool = "tests" /\ did' = did \cup {"tested"}
        /\ Fix => tool = "tests" /\ did' = did \cup {"fixed"}
        /\ Retest => tool = "tests" /\ did' = did \cup {"retested"}
        /\ Finish => tool = "finish"
  BY DEF FirstTest, Retest, Finish, Fix, RunTests, ReadyToFinish, Idle, Fixed
<1> DEFINE a == Act(tool, "", "")
<1>2. a \in Observation /\ a.tool = tool
  BY DEF Act, Observation, Tools
<1> HIDE DEF a
<1>3. UNCHANGED <<kind, files, untested, finished, listed, tests, step, obs>> /\ act' = a /\ pc = "decide" /\ pc' = "act"
  BY <1>1 DEF a, Answer, repo, hist
<1>4. did \subseteq did' /\ did' \subseteq {"weak", "tested", "fixed", "retested"}
      /\ ("weak" \in did' <=> "weak" \in did)
  BY <1>1 DEF IInv, CoderTypes
<1>5. FlagsInv'
  <2>1. "tested" \in did' /\ "weak" \notin did' => Listing(Range(Impl)) = {}
    <3>1. CASE "tested" \in did
      BY <1>4, <3>1 DEF IInv, FlagsInv
    <3>2. CASE "tested" \notin did
      <4>1. FirstTest
        BY <3>2 DEF Retest, Finish, Fix, Fixed
      <4>2. UnreadImpl = {} /\ ("weak" \in did \/ files = << >>)
        BY <4>1 DEF FirstTest, Marked, AllRead
      <4> QED
        BY <1>4, <4>2, Empty, Asked, <1>3 DEF UnreadImpl
    <3> QED
      BY <3>1, <3>2
  <2>2. ("retested" \in did' => "fixed" \in did') /\ ("fixed" \in did' => "tested" \in did')
    BY <1>1, <1>4 DEF IInv, FlagsInv, FirstTest, Retest, Finish, Fix, Fixed
  <2>3. untested' /\ "retested" \in did' => pc' = "act" /\ act'.tool = "tests"
    BY <1>1, <1>2, <1>3, Asked
  <2> QED
    BY <1>3, <2>1, <2>2, <2>3 DEF FlagsInv, Listing
<1>6. tool = "finish" => ReadyToFinish'
  BY <1>1, <1>3 DEF ReadyToFinish, Fixed, Marked, AllRead, Blank, UnreadImpl, UnreadSuites, ToFix, Listing,
                    Repaired
<1>7. PendingInv'
  BY <1>1, <1>2, <1>3, <1>6, Asked DEF PendingInv, ReadyToFinish
<1>8. finished => tool = "finish"
  <2> SUFFICES ASSUME finished PROVE tool = "finish"
    OBVIOUS
  <2>1. {"tested", "fixed", "retested"} \subseteq did
    BY <1>3, Asked DEF ReadyToFinish, Fixed
  <2> QED
    BY <1>1, <2>1 DEF FirstTest, Retest, Fix
<1>9. FinishedInv'
  BY <1>2, <1>3, <1>6, <1>8 DEF IInv, FinishedInv
<1>10. \A p \in DOMAIN files : Legible(p, files[p])'
  BY <1>3, <1>4, Asked DEF Legible
<1> QED
  BY <1>1, <1>2, <1>3, <1>4, <1>5, <1>7, <1>9, <1>10, Asked, AnswerKeeps DEF a

\* Before the first candidate nothing has been patched.
LEMMA WeakPatchKeeps == ASSUME CoderAssumption, IInv, WeakPatch PROVE IInv'
<1> DEFINE p == First(Impl, DOMAIN files)
           a == Act("mark", p, files[p])
<1>1. AllRead /\ "weak" \notin did /\ files # << >> /\ did' = did \cup {"weak"} /\ files' = files
  BY DEF WeakPatch
<1>2. Answer(a)
  BY DEF WeakPatch, Act, Patch
<1>3. pc = "decide" /\ pc' = "act" /\ act' = a /\ UNCHANGED <<kind, disk, untested, finished>>
  BY <1>2 DEF Answer, repo, hist
<1>4. DOMAIN files # {} /\ DOMAIN files \subseteq Listing(Range(Impl)) /\ files \in [DOMAIN files -> Text]
  BY <1>1, <1>3, Asked, Empty
<1>5. p \in DOMAIN files /\ p \in Range(Impl) /\ Listing(Range(Impl)) # {}
  BY <1>4, FirstIsOne DEF Listing, CoderAssumption
<1>6. files[p] = "old" /\ \A q \in Paths : disk[q].text = "old"
  BY <1>1, <1>5 DEF IInv, TextsInv, DiskInv, FilesInv, Legible
<1>7. a \in Observation /\ a.tool = "mark" /\ a.path = p /\ a.text = "old"
  BY <1>5, <1>6 DEF Act, Observation, Tools, Text, Paths
<1> HIDE DEF a, p
<1>8. "tested" \notin did /\ "fixed" \notin did /\ "retested" \notin did
  BY <1>1, <1>5 DEF IInv, FlagsInv
<1>9. ~finished
  BY <1>1, <1>3, <1>8, Asked DEF ReadyToFinish
<1>10. did' \subseteq {"weak", "tested", "fixed", "retested"}
  BY <1>1 DEF IInv, CoderTypes
<1>11. FlagsInv' /\ PendingInv' /\ FinishedInv'
  BY <1>1, <1>3, <1>5, <1>6, <1>7, <1>8, <1>9 DEF FlagsInv, PendingInv, FinishedInv
<1>12. \A q \in DOMAIN files : Legible(q, files[q])'
  BY <1>1, <1>3, Asked DEF Legible
<1> QED
  BY <1>1, <1>2, <1>4, <1>7, <1>10, <1>11, <1>12, AnswerKeeps

\* A file is patched with what repairs it, and a broken one is repaired once.
LEMMA FixingKeeps ==
  ASSUME CoderAssumption, IInv, (Fix /\ ToFix # {}) \/ FixNext
  PROVE  IInv'
<1> DEFINE p == First(Impl, ToFix)
           t == Repaired(p, files[p])
           a == Patch(p, t)
<1>1. Marked /\ ToFix # {} /\ AskFix(p) /\ "tested" \in did
  BY DEF Fix, FixNext, Fixed
<1>2. Answer(a) /\ files' = [files EXCEPT ![p] = t]
  BY <1>1 DEF AskFix
<1>3. pc = "decide" /\ pc' = "act" /\ act' = a /\ UNCHANGED <<kind, disk, untested, finished>>
  BY <1>2 DEF Answer, repo, hist
<1>4. DOMAIN files \subseteq Listing(Range(Impl)) /\ files \in [DOMAIN files -> Text]
  BY <1>3, Asked
<1>5. p \in ToFix /\ p \in Range(Impl)
  BY <1>1, <1>4, FirstIsOne DEF ToFix, Listing, CoderAssumption
<1>6. p \in DOMAIN files /\ t # files[p] /\ files[p] \in Text
  BY <1>4, <1>5 DEF ToFix
<1>7. t \in Text /\ (kind[p] = "broken" => t = "new")
  BY <1>6 DEF Repaired, Alternate, Text
<1>8. a \in Observation /\ a.tool = "patch" /\ a.path = p /\ a.text = t /\ t # ""
  BY <1>5, <1>7 DEF Patch, Act, Observation, Tools, Text, Paths
<1> HIDE DEF a, p, t
<1>9. "weak" \in did
  BY <1>1, <1>4, <1>6, Empty DEF Marked
<1>10. "weak" \in did' /\ "retested" \notin did' /\ "tested" \in did' /\ "fixed" \in did'
       /\ did' \subseteq {"weak", "tested", "fixed", "retested"}
  BY <1>9 DEF Fix, FixNext, Fixed, IInv, CoderTypes, FlagsInv
<1>11. ~finished
  BY <1>3, Asked DEF Fix, FixNext, ReadyToFinish, Fixed
<1>12. FlagsInv' /\ PendingInv' /\ FinishedInv'
  BY <1>3, <1>5, <1>7, <1>8, <1>10, <1>11 DEF FlagsInv, PendingInv, FinishedInv
<1>13. DOMAIN files' = DOMAIN files /\ files' \in [DOMAIN files' -> Text]
  BY <1>2, <1>4, <1>7
<1>14. \A q \in DOMAIN files : Legible(q, files[q])'
  BY <1>2, <1>3, <1>4, <1>7, <1>9, <1>10, Asked DEF Legible
<1> QED
  BY <1>2, <1>8, <1>9, <1>10, <1>12, <1>13, <1>14, AnswerKeeps
-----------------------------------------------------------------------------
(* The loop.                                                               *)

\* What is shown after one more observation.
Shown(list, o) == LET all == Append(list, o) IN IF Len(all) > Window THEN Tail(all) ELSE all

LEMMA ObservedAre ==
  ASSUME NEW S, obs \in Seq(S), Len(obs) <= Window, Window \in Nat, NEW o \in S, obs' = Shown(obs, o)
  PROVE  /\ obs' \in Seq(S) /\ Len(obs') <= Window
         /\ \A n \in 1 .. Len(obs') : obs'[n] = o \/ \E m \in 1 .. Len(obs) : obs'[n] = obs[m]
<1> DEFINE all == Append(obs, o)
<1>1. /\ all \in Seq(S) /\ Len(all) = Len(obs) + 1 /\ all # << >>
      /\ \A n \in 1 .. Len(all) : all[n] = o \/ \E m \in 1 .. Len(obs) : all[n] = obs[m]
  BY AppendProperties
<1>2. obs' = IF Len(all) > Window THEN Tail(all) ELSE all
  BY DEF Shown
<1> HIDE DEF all
<1>3. CASE Len(all) > Window
  BY <1>1, <1>2, <1>3, HeadTailProperties
<1>4. CASE ~(Len(all) > Window)
  BY <1>1, <1>2, <1>4
<1> QED
  BY <1>3, <1>4

LEMMA OneMore == ASSUME NEW m \in Nat, NEW n \in 0 .. m, n < m PROVE n + 1 \in 0 .. m
  OBVIOUS

\* What an observation leaves alone, and what its tool has to see to.
LEMMA ObserveKeeps ==
  ASSUME CoderAssumption, IInv, pc = "act", act.tool # "finish",
         NEW o, o \in Observation, Observe(o),
         o.tool = "read" => /\ o.path \in Listing(Paths)
                            /\ o.text # "" => Legible(o.path, o.text),
         disk' \in [Paths -> [text : Text, mark : BOOLEAN]], DiskInv',
         fails' \in 0 .. MaxFails, untested' \in BOOLEAN, untested' => "retested" \notin did
  PROVE  IInv'
<1>1. /\ UNCHANGED <<kind, listed, files, tests, step, did, act, turn, finished>>
      /\ i' = i + 1 /\ pc' = "ask"
  BY DEF Observe, repo, coder
<1>2. ~finished
  BY DEF IInv, FinishedInv
<1>3. obs \in Seq(Observation) /\ Len(obs) <= Window /\ Window \in Nat
  BY DEF IInv, CoderTypes, CoderAssumption
<1>4. obs' = Shown(obs, o)
  BY DEF Observe, Shown
<1>5. /\ obs' \in Seq(Observation) /\ Len(obs') <= Window
      /\ \A n \in 1 .. Len(obs') : obs'[n] = o \/ \E m \in 1 .. Len(obs) : obs'[n] = obs[m]
  BY <1>3, <1>4, ObservedAre, Zenon
<1>7. CoderTypes'
  <2>a. i \in 0 .. MaxIters /\ i < MaxIters /\ MaxIters \in Nat
    BY DEF IInv, CoderTypes, CoderAssumption
  <2>1. i' \in 0 .. MaxIters
    BY <1>1, <2>a, OneMore, Zenon
  <2>2. Listing(Range(Impl))' = Listing(Range(Impl))
    BY <1>1 DEF Listing
  <2> QED
    BY <1>1, <1>5, <2>1, <2>2 DEF IInv, CoderTypes
<1>8. FilesInv'
  BY <1>1 DEF IInv, TextsInv, FilesInv, Legible
<1>9. ObsInv'
  <2> SUFFICES ASSUME NEW n \in 1 .. Len(obs'), obs'[n].tool = "read"
               PROVE  /\ obs'[n].path \in Listing(Paths)'
                      /\ obs'[n].text # "" => Legible(obs[n].path, obs[n].text)'
    BY DEF ObsInv, Legible, Listing
  <2>1. obs'[n] = o \/ \E m \in 1 .. Len(obs) : obs'[n] = obs[m]
    BY <1>5
  <2>2. /\ obs'[n].path \in Listing(Paths)
        /\ obs'[n].text # "" => Legible(obs'[n].path, obs'[n].text)
    BY <2>1 DEF IInv, TextsInv, ObsInv
  <2> QED
    BY <1>1, <2>2 DEF Listing, Legible
<1>10. FlagsInv' /\ PendingInv' /\ FinishedInv'
  BY <1>1, <1>2 DEF IInv, FlagsInv, PendingInv, FinishedInv, Listing
<1> QED
  BY <1>7, <1>8, <1>9, <1>10 DEF IInv, TextsInv

LEMMA NothingIsObserved == Nothing \in Observation /\ Nothing.tool # "read"
  BY DEF Nothing, Act, Observation, Tools

LEMMA SeeingKeeps == ASSUME CoderAssumption, IInv, Look \/ Read PROVE IInv'
<1>1. /\ pc = "act" /\ act.tool \in {"list", "inspect", "read"} /\ UNCHANGED <<kind, disk, did, fails, untested>>
  BY DEF Look, Read, Observe, repo, coder
<1>2. /\ act \in Observation /\ disk \in [Paths -> [text : Text, mark : BOOLEAN]]
      /\ fails \in 0 .. MaxFails /\ untested \in BOOLEAN /\ (untested => "retested" \notin did)
  BY <1>1 DEF IInv, CoderTypes, FlagsInv
<1>3. DiskInv'
  BY <1>1 DEF IInv, TextsInv, DiskInv, Legible
<1>4. CASE Look
  <2>1. act.tool # "read" /\ act.tool # "finish" /\ Observe(act)
    BY <1>4 DEF Look
  <2> QED
    BY <1>1, <1>2, <1>3, <2>1, ObserveKeeps
<1>5. CASE Read
  <2> DEFINE seen == IF kind[act.path] = "unreadable" THEN "" ELSE disk[act.path].text
             o == [act EXCEPT !.text = seen]
  <2>1. act.path \in Listing(Paths) /\ act.path \in Paths
    BY <1>5 DEF Read, IInv, PendingInv, Listing
  <2>2. seen \in Text \cup {""} /\ (seen # "" => Legible(act.path, seen))
    BY <1>2, <2>1 DEF IInv, TextsInv, DiskInv
  <2>3. o \in Observation /\ o.path = act.path /\ o.text = seen
    BY <1>2, <2>2 DEF Observation
  <2>4. Observe(o)
    BY <1>5 DEF Read
  <2> HIDE DEF o, seen
  <2> QED
    BY <1>1, <1>2, <1>3, <2>1, <2>2, <2>3, <2>4, ObserveKeeps
<1> QED
  BY <1>4, <1>5

\* A repaired file is patched with what it holds already, if at all.
LEMMA WriteKeeps ==
  ASSUME CoderAssumption, IInv, Write
  PROVE  IInv' /\ RepairsStay /\ ~finished
<1>1. /\ pc = "act" /\ act.tool \in {"patch", "mark"} /\ UNCHANGED <<kind, did, fails>> /\ untested' = TRUE
      /\ disk' = [disk EXCEPT ![act.path] = [text |-> act.text, mark |-> act.tool = "mark"]]
  BY DEF Write, Observe, repo, coder
<1>2. /\ act.path \in Range(Impl) /\ act.path \in Paths /\ act.text \in Text
      /\ "weak" \in did /\ "retested" \notin did
      /\ act.tool = "patch" /\ kind[act.path] = "broken" => act.text = "new"
      /\ act.tool = "mark" => act.text = "old" /\ \A p \in Paths : disk[p].text = "old"
  BY <1>1 DEF IInv, CoderTypes, PendingInv, Observation, Paths
<1>3. disk \in [Paths -> [text : Text, mark : BOOLEAN]] /\ fails \in 0 .. MaxFails
  BY DEF IInv, CoderTypes
<1>4. disk' \in [Paths -> [text : Text, mark : BOOLEAN]]
  BY <1>1, <1>2, <1>3
<1>5. /\ disk'[act.path].text = act.text /\ disk'[act.path].mark = (act.tool = "mark")
      /\ \A p \in Paths \ {act.path} : disk'[p] = disk[p]
  BY <1>1, <1>2, <1>3
<1>6. DiskInv'
  BY <1>1, <1>2, <1>5 DEF IInv, TextsInv, DiskInv, Legible
<1>7. RepairsStay
  <2> SUFFICES ASSUME NEW p \in Range(Impl), kind[p] = "broken", disk[p].text = "new"
               PROVE  disk'[p] = disk[p]
    BY DEF RepairsStay
  <2>1. p \in Paths /\ ~disk[p].mark
    BY DEF Paths, IInv, TextsInv, DiskInv
  <2>2. CASE p = act.path
    <3>1. act.tool = "patch" /\ act.text = "new"
      BY <1>1, <1>2, <2>1, <2>2
    <3> QED
      BY <1>1, <1>2, <1>3, <2>1, <2>2, <3>1
  <2> QED
    BY <1>5, <2>1, <2>2
<1>8. IInv'
  BY <1>1, <1>2, <1>3, <1>4, <1>6, NothingIsObserved, ObserveKeeps DEF Write
<1> QED
  BY <1>1, <1>7, <1>8 DEF IInv, FinishedInv

LEMMA TestKeeps == ASSUME CoderAssumption, IInv, WriteFails \/ Test PROVE IInv'
<1>1. /\ pc = "act" /\ act.tool \in {"patch", "mark", "tests"} /\ UNCHANGED <<kind, did, disk>>
      /\ act.tool # "tests" => UNCHANGED untested
      /\ act.tool = "tests" => untested' = FALSE
      /\ fails' \in {fails, fails + 1} /\ (fails' # fails => fails < MaxFails)
      /\ Observe(Nothing)
  BY DEF WriteFails, Test, Observe, repo, coder
<1>2. /\ disk' \in [Paths -> [text : Text, mark : BOOLEAN]]
      /\ untested' \in BOOLEAN /\ (untested' => "retested" \notin did)
  <2>1. /\ disk \in [Paths -> [text : Text, mark : BOOLEAN]] /\ untested \in BOOLEAN
        /\ untested /\ "retested" \in did => act.tool = "tests"
    BY DEF IInv, CoderTypes, FlagsInv
  <2>2. untested' \in BOOLEAN /\ (untested' => "retested" \notin did)
    <3>1. CASE act.tool = "tests"
      BY <1>1, <3>1
    <3>2. CASE act.tool # "tests"
      BY <1>1, <2>1, <3>2
    <3> QED
      BY <3>1, <3>2
  <2> QED
    BY <1>1, <2>1, <2>2
<1>3. fails' \in 0 .. MaxFails
  <2>1. fails \in 0 .. MaxFails /\ MaxFails \in Nat
    BY DEF IInv, CoderTypes, CoderAssumption
  <2> QED
    BY <1>1, <2>1
<1>4. DiskInv'
  BY <1>1 DEF IInv, TextsInv, DiskInv, Legible
<1> QED
  BY <1>1, <1>2, <1>3, <1>4, NothingIsObserved, ObserveKeeps

LEMMA TurnKeeps == ASSUME CoderAssumption, IInv, EndTurn \/ NextTurn \/ UNCHANGED vars PROVE IInv'
<1>1. /\ UNCHANGED <<kind, disk, listed, files, tests, step, did, act, fails, untested>>
  BY DEF EndTurn, NextTurn, vars, repo, coder, loop, hist
<1>2. DiskInv' /\ FilesInv' /\ Listing(Range(Impl))' = Listing(Range(Impl))
  BY <1>1 DEF IInv, TextsInv, DiskInv, FilesInv, Legible, Listing
<1>3. ReadyToFinish => ReadyToFinish'
  BY <1>1 DEF ReadyToFinish, Fixed, Marked, AllRead, Blank, UnreadImpl, UnreadSuites, ToFix, Listing, Repaired
<1>4. CASE EndTurn
  <2>1. UNCHANGED <<i, obs, turn>> /\ pc' = "verify"
        /\ \/ pc = "act" /\ act.tool = "finish" /\ finished' = TRUE
           \/ pc = "ask" /\ finished' = FALSE
    BY <1>4 DEF EndTurn, loop
  <2>2. CoderTypes' /\ ObsInv'
    BY <1>1, <1>2, <2>1 DEF IInv, CoderTypes, TextsInv, ObsInv, Legible, Listing
  <2>3. FlagsInv' /\ PendingInv' /\ FinishedInv'
    BY <1>1, <1>2, <1>3, <2>1 DEF IInv, FlagsInv, PendingInv, FinishedInv
  <2> QED
    BY <1>2, <2>2, <2>3 DEF IInv, TextsInv
<1>5. CASE NextTurn
  <2>1. turn' = turn + 1 /\ i' = 0 /\ obs' = << >> /\ pc = "verify" /\ pc' = "ask" /\ finished' = finished
        /\ turn < MaxHeal
    BY <1>5 DEF NextTurn, hist
  <2>2. obs' \in Seq(Observation) /\ Len(obs') = 0
    BY <2>1
  <2>3. turn' \in 1 .. MaxHeal /\ i' \in 0 .. MaxIters /\ 0 <= Window
    BY <2>1 DEF IInv, CoderTypes, CoderAssumption
  <2>4. CoderTypes' /\ ObsInv'
    BY <1>1, <1>2, <2>1, <2>2, <2>3 DEF IInv, CoderTypes, ObsInv
  <2>5. FlagsInv' /\ PendingInv' /\ FinishedInv'
    BY <1>1, <1>2, <1>3, <2>1 DEF IInv, FlagsInv, PendingInv, FinishedInv
  <2> QED
    BY <1>2, <2>4, <2>5 DEF IInv, TextsInv
<1>6. CASE UNCHANGED vars
  <2>1. UNCHANGED <<i, obs, turn, pc, finished>>
    BY <1>6 DEF vars, loop, hist
  <2>2. CoderTypes' /\ ObsInv'
    BY <1>1, <1>2, <2>1 DEF IInv, CoderTypes, TextsInv, ObsInv, Legible, Listing
  <2>3. FlagsInv' /\ PendingInv' /\ FinishedInv'
    BY <1>1, <1>2, <1>3, <2>1 DEF IInv, FlagsInv, PendingInv, FinishedInv, Listing
  <2> QED
    BY <1>2, <2>2, <2>3 DEF IInv, TextsInv
<1> QED
  BY <1>4, <1>5, <1>6
-----------------------------------------------------------------------------
LEMMA StepHolds == ASSUME CoderAssumption, IInv, [Next]_vars PROVE IInv'
<1>1. CASE Ingest
  BY <1>1, IngestKeeps
<1>2. CASE Decide
  <2>1. CASE AskList \/ AskSuite \/ AskImpl \/ AskInspect
    BY <2>1, LookingKeeps
  <2>2. CASE FirstTest \/ Retest \/ Finish \/ (Fix /\ ToFix = {})
    BY <2>2, TestingKeeps
  <2>3. CASE WeakPatch
    BY <2>3, WeakPatchKeeps
  <2>4. CASE (Fix /\ ToFix # {}) \/ FixNext
    BY <2>4, FixingKeeps
  <2> QED
    BY <1>2, <2>1, <2>2, <2>3, <2>4 DEF Decide
<1>3. CASE Look \/ Read
  BY <1>3, SeeingKeeps
<1>4. CASE Write
  BY <1>4, WriteKeeps
<1>5. CASE WriteFails \/ Test
  BY <1>5, TestKeeps
<1>6. CASE EndTurn \/ NextTurn \/ UNCHANGED vars
  BY <1>6, TurnKeeps
<1> QED
  BY <1>1, <1>2, <1>3, <1>4, <1>5, <1>6 DEF Next

\* No other step than Write writes.
LEMMA OnlyWriteWrites == ASSUME [Next]_vars, ~Write PROVE disk' = disk
  BY DEF Next, Ingest, Decide, AskList, AskSuite, AskImpl, AskInspect, WeakPatch, FirstTest, Fix, AskFix, Retest,
         FixNext, Finish, Answer, Look, Read, WriteFails, Test, EndTurn, NextTurn, vars

LEMMA NothingIsUndone ==
  ASSUME CoderAssumption, IInv, [Next]_vars
  PROVE  RepairsStay /\ HealAddsNothing
<1>1. CASE Write
  BY <1>1, WriteKeeps DEF HealAddsNothing
<1>2. CASE ~Write
  BY <1>2, OnlyWriteWrites DEF RepairsStay, HealAddsNothing
<1> QED
  BY <1>1, <1>2

(* The invariant is inductive: what the coder knows of a file was in it,   *)
(* what it means to do next fits, and a finished turn has left nothing to   *)
(* do (mock_coder.py:38-145, agent_loop.py:82-160).                        *)
THEOREM Invariant == ASSUME CoderAssumption PROVE Spec => []IInv
  BY InitHolds, StepHolds, PTL DEF Spec

(* The types.                                                              *)
THEOREM TypeCorrect == ASSUME CoderAssumption PROVE Spec => []TypeOK
<1>1. IInv => TypeOK
  BY DEF IInv, CoderTypes, TypeOK, Listing
<1> QED
  BY <1>1, Invariant, PTL

(* "finish" is only said of what has been tested (mock_coder.py:99-116).   *)
THEOREM FinishesTested == ASSUME CoderAssumption PROVE Spec => []FinishIsTested
<1>1. IInv => FinishIsTested
  BY DEF IInv, PendingInv, FinishIsTested
<1> QED
  BY <1>1, Invariant, PTL

(* The repair of a broken file stays, byte for byte                        *)
(* (mock_coder.py:71-116).                                                 *)
THEOREM RepairsAreKept == ASSUME CoderAssumption PROVE Spec => [][RepairsStay]_vars
  BY Invariant, NothingIsUndone, PTL DEF Spec

(* A turn after one that the coder ended itself changes nothing            *)
(* (runtime.py:343-360).                                                   *)
THEOREM HealingAddsNothing == ASSUME CoderAssumption PROVE Spec => [][HealAddsNothing]_vars
  BY Invariant, NothingIsUndone, PTL DEF Spec
-----------------------------------------------------------------------------
(* What is taken for repaired.                                             *)

Rewritten(p) == disk[p].text # "old"

\* The patch of p that was asked for last.
AskedFor(p) == pc = "act" /\ act.tool = "patch" /\ act.path = p

(* What the coder takes for rewritten is, or will be with the next step,   *)
(* or a patch has failed.                                                  *)
RepairInv ==
  /\ \A p \in DOMAIN files : files[p] # "old" => Rewritten(p) \/ AskedFor(p) \/ fails > 0
  /\ \A n \in 1 .. Len(obs) :
       obs[n].tool = "read" /\ obs[n].text \in {"new", "newer"} => Rewritten(obs[n].path)
  /\ pc = "act" /\ act.tool = "patch" => act.text # "old"

LEMMA InitRepairs == ASSUME Init PROVE RepairInv
<1>1. DOMAIN files = {} /\ obs = << >> /\ pc = "ask"
  BY Empty DEF Init
<1> QED
  BY <1>1 DEF RepairInv

LEMMA IngestRepairs == ASSUME IInv, RepairInv, Ingest PROVE RepairInv'
<1>1. UNCHANGED <<disk, obs, act, fails>> /\ pc = "ask" /\ pc' = "decide"
  BY DEF Ingest, hist
<1>2. ASSUME NEW p \in DOMAIN files', files'[p] # "old" PROVE Rewritten(p) \/ fails > 0
  <2>1. files'[p] = IF ReadOf(p) # {} THEN (CHOOSE o \in ReadOf(p) : TRUE).text ELSE files[p]
    BY DEF Ingest
  <2>2. CASE ReadOf(p) = {}
    <3>1. p \in DOMAIN files
      BY <2>2 DEF Ingest
    <3> QED
      BY <1>1, <1>2, <2>1, <2>2, <3>1 DEF RepairInv, AskedFor
  <2>3. CASE ReadOf(p) # {}
    <3>1. PICK o \in ReadOf(p) : files'[p] = o.text
      BY <2>1, <2>3
    <3>2. o \in Remembered(obs) /\ o \in Range(obs) /\ o.tool = "read" /\ o.path = p
      BY DEF ReadOf, Remembered
    <3>3. o.text \in {"new", "newer"}
      BY <1>2, <3>1, <3>2, ReadWas DEF Text
    <3>4. obs \in Seq(Observation)
      BY DEF IInv, CoderTypes
    <3>5. PICK n \in 1 .. Len(obs) : o = obs[n]
      BY <3>2, <3>4 DEF Range
    <3> QED
      BY <3>2, <3>3, <3>5 DEF RepairInv
  <2> QED
    BY <2>2, <2>3
<1> QED
  BY <1>1, <1>2 DEF RepairInv, Rewritten, AskedFor

\* Only FixNext and Fix change what the coder knows, and ask for it.
LEMMA DecideRepairs == ASSUME CoderAssumption, IInv, RepairInv, Decide PROVE RepairInv'
<1>1. UNCHANGED <<disk, obs, fails>> /\ pc = "decide" /\ pc' = "act"
  BY DEF Decide, AskList, AskSuite, AskImpl, AskInspect, WeakPatch, FirstTest, Fix, AskFix, Retest, FixNext,
         Finish, Answer, hist
<1>2. CASE (Fix /\ ToFix # {}) \/ FixNext
  <2> DEFINE p == First(Impl, ToFix)
             t == Repaired(p, files[p])
             a == Patch(p, t)
  <2>1. act' = a /\ files' = [files EXCEPT ![p] = t]
    BY <1>2 DEF Fix, FixNext, AskFix, Answer
  <2>2. DOMAIN files \subseteq Range(Impl) /\ files \in [DOMAIN files -> Text] /\ ToFix # {}
    BY <1>2 DEF IInv, CoderTypes, Listing, FixNext
  <2>3. p \in ToFix
    BY <2>2, FirstIsOne DEF ToFix, CoderAssumption
  <2>4. t # "old"
    BY <2>2, <2>3 DEF ToFix, Repaired, Alternate, Text
  <2>5. a.tool = "patch" /\ a.path = p /\ a.text = t
    BY DEF Patch, Act
  <2> HIDE DEF a, p, t
  <2> QED
    BY <1>1, <2>1, <2>4, <2>5 DEF RepairInv, Rewritten, AskedFor
<1>3. CASE ~((Fix /\ ToFix # {}) \/ FixNext)
  <2>1. files' = files
    BY <1>3 DEF Decide, AskList, AskSuite, AskImpl, AskInspect, WeakPatch, FirstTest, Fix, Retest, Finish, Idle
  <2>2. act'.tool # "patch"
    <3>1. ASSUME NEW tool \in Tools \ {"patch"}, NEW path, NEW text, Answer(Act(tool, path, text))
          PROVE  act'.tool # "patch"
      BY <3>1 DEF Answer, Act
    <3>2. CASE AskList \/ AskSuite \/ AskImpl \/ AskInspect
      BY <3>1, <3>2 DEF AskList, AskSuite, AskImpl, AskInspect, Tools
    <3>3. CASE WeakPatch
      <4> DEFINE p == First(Impl, DOMAIN files)
      <4>1. Answer(Act("mark", p, files[p]))
        BY <3>3 DEF WeakPatch, Act, Patch
      <4> QED
        BY <3>1, <4>1 DEF Tools
    <3>4. CASE FirstTest \/ (Fix /\ ToFix = {}) \/ Retest \/ Finish
      BY <3>1, <3>4 DEF FirstTest, Fix, Retest, Finish, RunTests, Tools
    <3> QED
      BY <1>3, <3>2, <3>3, <3>4 DEF Decide
  <2> QED
    BY <1>1, <2>1, <2>2 DEF RepairInv, Rewritten, AskedFor
<1> QED
  BY <1>2, <1>3

\* What is not as it was is never so again.
LEMMA RewrittenStays ==
  ASSUME IInv, RepairInv, [Next]_vars PROVE \A p \in Paths : Rewritten(p) => Rewritten(p)'
<1>1. disk \in [Paths -> [text : Text, mark : BOOLEAN]]
  BY DEF IInv, CoderTypes
<1>2. CASE Write
  <2>1. /\ act.path \in Paths
        /\ disk' = [disk EXCEPT ![act.path] = [text |-> act.text, mark |-> act.tool = "mark"]]
        /\ act.tool = "patch" => act.text # "old"
        /\ act.tool = "mark" => \A p \in Paths : ~Rewritten(p)
        /\ act.tool \in {"patch", "mark"}
    BY <1>2 DEF Write, IInv, PendingInv, Paths, RepairInv, Rewritten
  <2> QED
    BY <1>1, <2>1 DEF Rewritten
<1>3. CASE ~Write
  BY <1>3, OnlyWriteWrites DEF Rewritten
<1> QED
  BY <1>2, <1>3

LEMMA ActRepairs ==
  ASSUME CoderAssumption, IInv, RepairInv, Look \/ Read \/ Write \/ WriteFails \/ Test
  PROVE  RepairInv'
<1>1. pc = "act" /\ pc' = "ask" /\ UNCHANGED <<kind, files>>
  BY DEF Look, Read, Write, WriteFails, Test, Observe, repo, coder
<1>2. obs \in Seq(Observation) /\ Len(obs) <= Window /\ Window \in Nat /\ act \in Observation
  BY DEF IInv, CoderTypes, CoderAssumption
<1>3. disk \in [Paths -> [text : Text, mark : BOOLEAN]] /\ fails \in Nat
  BY DEF IInv, CoderTypes
<1>4. \A p \in Paths : Rewritten(p) => Rewritten(p)'
  BY RewrittenStays DEF Next
<1>5. ASSUME NEW p \in DOMAIN files, files[p] # "old" PROVE Rewritten(p)' \/ fails' > 0
  <2>1. p \in Paths
    BY DEF IInv, CoderTypes, Listing, Paths
  <2>2. CASE AskedFor(p) /\ Write
    <3>1. act.text # "old" /\ disk' = [disk EXCEPT ![p] = [text |-> act.text, mark |-> act.tool = "mark"]]
      BY <2>2 DEF AskedFor, Write, RepairInv
    <3> QED
      BY <1>3, <2>1, <3>1 DEF Rewritten
  <2>3. CASE AskedFor(p) /\ ~Write
    <3>1. fails' = fails + 1
      BY <2>3 DEF AskedFor, Look, Read, WriteFails, Test
    <3> QED
      BY <1>3, <3>1
  <2>4. CASE ~AskedFor(p)
    <3>1. Rewritten(p) \/ fails > 0
      BY <1>5, <2>4 DEF RepairInv
    <3>2. fails' \in {fails, fails + 1}
      BY DEF Look, Read, Write, WriteFails, Test
    <3> QED
      BY <1>3, <1>4, <2>1, <3>1, <3>2
  <2> QED
    BY <2>2, <2>3, <2>4
<1>6. PICK o \in Observation :
        /\ obs' = Shown(obs, o)
        /\ o.tool = "read" /\ o.text \in {"new", "newer"} => o.path \in Paths /\ Rewritten(o.path)
  <2>1. CASE Read
    <3> DEFINE seen == IF kind[act.path] = "unreadable" THEN "" ELSE disk[act.path].text
               o == [act EXCEPT !.text = seen]
    <3>1. act.path \in Paths /\ act.tool = "read"
      BY <2>1 DEF Read, IInv, PendingInv, Listing
    <3>2. seen \in Text \cup {""}
      BY <1>3, <3>1
    <3>3. o \in Observation /\ o.path = act.path /\ o.text = seen
      BY <1>2, <3>2 DEF Observation
    <3>4. obs' = Shown(obs, o)
      BY <2>1 DEF Read, Observe, Shown
    <3>5. seen \in {"new", "newer"} => Rewritten(act.path)
      BY DEF Rewritten
    <3> HIDE DEF o, seen
    <3> QED
      BY <3>1, <3>3, <3>4, <3>5
  <2>2. CASE Look
    BY <1>2, <2>2 DEF Look, Observe, Shown
  <2>3. CASE Write \/ WriteFails \/ Test
    BY <2>3, NothingIsObserved DEF Write, WriteFails, Test, Observe, Shown
  <2> QED
    BY <2>1, <2>2, <2>3
<1>7. \A n \in 1 .. Len(obs') : obs'[n] = o \/ \E m \in 1 .. Len(obs) : obs'[n] = obs[m]
  BY <1>2, <1>6, ObservedAre, Zenon
<1>8. ASSUME NEW n \in 1 .. Len(obs'), obs'[n].tool = "read", obs'[n].text \in {"new", "newer"}
      PROVE  Rewritten(obs[n].path)'
  <2>1. obs'[n].path \in Paths /\ Rewritten(obs'[n].path)
    <3>1. CASE obs'[n] = o
      BY <1>6, <1>8, <3>1
    <3>2. CASE obs'[n] # o
      <4>1. PICK m \in 1 .. Len(obs) : obs'[n] = obs[m]
        BY <1>7, <3>2
      <4> QED
        BY <1>8, <4>1 DEF RepairInv, IInv, TextsInv, ObsInv, Listing
    <3> QED
      BY <3>1, <3>2
  <2> QED
    BY <1>4, <2>1 DEF Rewritten
<1> QED
  BY <1>1, <1>5, <1>8 DEF RepairInv, AskedFor

LEMMA TurnRepairs ==
  ASSUME IInv, RepairInv, EndTurn \/ NextTurn \/ UNCHANGED vars PROVE RepairInv'
<1>1. UNCHANGED <<disk, files, act, fails>> /\ obs' \in {obs, << >>}
  BY DEF EndTurn, NextTurn, vars, repo, coder, loop, hist
<1>2. \A p : AskedFor(p) => AskedFor(p)'
  BY DEF AskedFor, EndTurn, NextTurn, vars, loop
<1>3. pc' = "act" => pc = "act"
  BY DEF EndTurn, NextTurn, vars, loop
<1> QED
  BY <1>1, <1>2, <1>3 DEF RepairInv, Rewritten

LEMMA StepRepairs == ASSUME CoderAssumption, IInv, RepairInv, [Next]_vars PROVE RepairInv'
  BY IngestRepairs, DecideRepairs, ActRepairs, TurnRepairs DEF Next

\* What is finished is read, and has nothing to be fixed.
LEMMA NothingIsLeft == ASSUME IInv, RepairInv PROVE FinishedIsRepaired
<1> SUFFICES ASSUME finished, fails = 0, NEW p \in Range(Impl), Unrepaired(p)
             PROVE  FALSE
  BY DEF FinishedIsRepaired
<1>1. ReadyToFinish /\ (pc = "act" => act.tool = "finish")
  BY DEF IInv, FinishedInv
<1>2. p \in DOMAIN files
  BY <1>1 DEF ReadyToFinish, Fixed, Marked, AllRead, UnreadImpl, Listing, Unrepaired
<1>3. files[p] # "old"
  BY <1>1, <1>2 DEF ReadyToFinish, ToFix, Repaired, Alternate, Unrepaired
<1> QED
  BY <1>1, <1>2, <1>3 DEF RepairInv, Rewritten, AskedFor, Unrepaired

(* When the coder ends a turn itself and every patch could be written,     *)
(* nothing it could have repaired is left, whatever it read and however    *)
(* old that was (mock_coder.py:43-50, 86-116).                             *)
THEOREM FinishedMeansRepaired == ASSUME CoderAssumption PROVE Spec => []FinishedIsRepaired
  BY InitRepairs, StepRepairs, NothingIsLeft, Invariant, PTL DEF Spec

-----------------------------------------------------------------------------
(* How long a turn may take. Its first iterations read (at most T); the    *)
(* next ones may undo in memory what was fixed, as long as what was read   *)
(* is still shown (until X); after that every second one brings a file     *)
(* further for good.                                                       *)

T == 1 + Len(Impl) + Len(Suites)
X == T + Window

\* The file can be repaired, and the coder gets to it.
Curable(n) ==
  /\ kind[Impl[n]] \in {"broken", "creeping"}
  /\ \A p \in Paths : kind[p] # "unreadable"
  /\ \A m \in 1 .. n - 1 : kind[Impl[m]] # "loose"

\* How far the files before the n-th are, as far as the coder knows.
Done(n) ==
  {s \in (1 .. n) \X {"new", "newer"} :
     Impl[s[1]] \in DOMAIN files /\ files[Impl[s[1]]] \in {s[2], "newer"}}

Known == DOMAIN files \cup tests
Shows == {o.path : o \in {o \in Range(obs) : o.tool = "read"}}

Reading ==
  "weak" \notin did =>
    /\ i <= 1 + Cardinality(Known \cup Shows)
    /\ pc # "ask" => Shows \subseteq Known
    /\ pc = "ask" => i = 0 \/ listed \/ \E k \in 1 .. Len(obs) : obs[k].tool = "list"
    /\ pc = "decide" => i = 0 \/ listed
    /\ pc = "act" => \/ act.tool = "list" /\ i = 0
                     \/ act.tool = "read" /\ listed /\ act.path \in Listing(Paths) \ Known

\* An observation of a file is shown for Window iterations.
Stale ==
  \A k \in 1 .. Len(obs) :
    obs[k].tool = "read" => obs[k].text # "" /\ i <= T + Len(obs) - k

\* Iterations, with the one under way.
Passed == IF pc = "act" THEN i + 1 ELSE i
Flag   == IF "retested" \in did THEN 1 ELSE 0

Fixing(n) ==
  "weak" \in did =>
    /\ AllRead
    /\ pc = "act" => act.tool # "read"
    /\ Passed <= X + 2 * Cardinality(Done(n)) + Flag
    /\ "tested" \notin did => Passed <= T + 1
    /\ "fixed" \notin did => Passed <= T + 2

Course(n) == turn = 1 /\ pc # "verify" /\ Reading /\ Stale /\ Fixing(n)

(* As long as such a file is not repaired, the first turn is on its way.   *)
CourseInv ==
  fails = 0 => \A n \in DOMAIN Impl : Curable(n) => Rewritten(Impl[n]) \/ Course(n)

Enough == Window >= 2 /\ MaxIters >= 5 * Len(Impl) + Len(Suites) + Window - 1

\* A list names no more paths than it is long.
LEMMA Names ==
  ASSUME NEW s, s \in Seq(Range(s))
  PROVE  IsFiniteSet(Range(s)) /\ Cardinality(Range(s)) \in Nat /\ Cardinality(Range(s)) <= Len(s)
<1>1. Len(s) \in Nat /\ DOMAIN s = 1 .. Len(s) /\ s \in [1 .. Len(s) -> Range(s)]
  OBVIOUS
<1>2. s \in Surjection(1 .. Len(s), Range(s))
  BY <1>1 DEF Surjection, Range
<1>3. IsFiniteSet(1 .. Len(s)) /\ Cardinality(1 .. Len(s)) = Len(s)
  BY <1>1, FS_Interval
<1> QED
  BY <1>2, <1>3, FS_Surjection, FS_CardinalityType

LEMMA Sizes ==
  ASSUME CoderAssumption
  PROVE  /\ IsFiniteSet(Paths) /\ Len(Impl) \in Nat /\ Len(Suites) \in Nat
         /\ Cardinality(Paths) \in Nat /\ Cardinality(Paths) <= Len(Impl) + Len(Suites)
         /\ T \in Nat /\ X \in Nat /\ X = T + Window
<1>1. /\ IsFiniteSet(Range(Impl)) /\ Cardinality(Range(Impl)) \in Nat /\ Cardinality(Range(Impl)) <= Len(Impl)
      /\ IsFiniteSet(Range(Suites)) /\ Cardinality(Range(Suites)) \in Nat
      /\ Cardinality(Range(Suites)) <= Len(Suites)
  BY Names DEF CoderAssumption
<1>2. Len(Impl) \in Nat /\ Len(Suites) \in Nat /\ Window \in Nat
  BY DEF CoderAssumption
<1>3. /\ IsFiniteSet(Paths) /\ Cardinality(Paths) \in Nat
      /\ Cardinality(Paths) = Cardinality(Range(Impl)) + Cardinality(Range(Suites)) - Cardinality({})
  BY <1>1, FS_Union, FS_CardinalityType DEF Paths, CoderAssumption
<1>4. Cardinality({}) = 0
  BY FS_EmptySet
<1> QED
  BY <1>1, <1>2, <1>3, <1>4 DEF T, X

\* One more known path counts as one more.
LEMMA OneMoreKnown ==
  ASSUME CoderAssumption, NEW A, NEW B, A \subseteq Paths, B \subseteq Paths, A \subseteq B
  PROVE  /\ Cardinality(A) \in Nat /\ Cardinality(B) \in Nat /\ Cardinality(A) <= Cardinality(B)
         /\ A # B => Cardinality(A) + 1 <= Cardinality(B)
         /\ Cardinality(B) <= Len(Impl) + Len(Suites)
<1>1. IsFiniteSet(Paths) /\ Cardinality(Paths) \in Nat /\ Cardinality(Paths) <= Len(Impl) + Len(Suites)
  BY Sizes
<1>2. IsFiniteSet(A) /\ IsFiniteSet(B) /\ Cardinality(B) <= Cardinality(Paths)
  BY <1>1, FS_Subset
<1>3. Cardinality(A) <= Cardinality(B) /\ (Cardinality(A) = Cardinality(B) => A = B)
  BY <1>2, FS_Subset
<1>4. Cardinality(A) \in Nat /\ Cardinality(B) \in Nat
  BY <1>2, FS_CardinalityType
<1> QED
  BY <1>1, <1>2, <1>3, <1>4, Sizes

\* There are two steps for every file before the n-th.
LEMMA Steps ==
  ASSUME CoderAssumption, NEW n \in 1 .. Len(Impl), NEW D, D \subseteq (1 .. n) \X {"new", "newer"}
  PROVE  /\ IsFiniteSet(D) /\ Cardinality(D) \in Nat
         /\ (\A s \in D : s[1] # n) => Cardinality(D) <= 2 * (n - 1)
<1>1. n \in Int /\ n - 1 \in Int /\ 1 \in Int /\ n >= 1
  BY Sizes
<1>2. IsFiniteSet({"new", "newer"}) /\ Cardinality({"new", "newer"}) = 2
  <2>1. IsFiniteSet({"new"}) /\ Cardinality({"new"}) = 1
    BY FS_Singleton
  <2>2. {"new", "newer"} = {"new"} \cup {"newer"} /\ "newer" \notin {"new"}
    OBVIOUS
  <2>3. /\ IsFiniteSet({"new"} \cup {"newer"})
        /\ Cardinality({"new"} \cup {"newer"}) =
             IF "newer" \in {"new"} THEN Cardinality({"new"}) ELSE Cardinality({"new"}) + 1
    BY <2>1, FS_AddElement, Zenon
  <2>4. Cardinality({"new"} \cup {"newer"}) = 1 + 1
    BY <2>1, <2>2, <2>3, Zenon
  <2> QED
    BY <2>2, <2>3, <2>4
<1>3. IsFiniteSet(1 .. n) /\ IsFiniteSet(1 .. (n - 1)) /\ Cardinality(1 .. (n - 1)) = n - 1
  BY <1>1, FS_Interval
<1>4. IsFiniteSet((1 .. n) \X {"new", "newer"})
  BY <1>2, <1>3, FS_Product, Zenon
<1>5. IsFiniteSet(D) /\ Cardinality(D) \in Nat
  BY <1>4, FS_Subset, FS_CardinalityType
<1>6. ASSUME \A s \in D : s[1] # n PROVE Cardinality(D) <= 2 * (n - 1)
  <2> DEFINE B == (1 .. (n - 1)) \X {"new", "newer"}
  <2>1. IsFiniteSet(B) /\ Cardinality(B) = (n - 1) * 2
    <3>1. /\ IsFiniteSet(B)
          /\ Cardinality(B) = Cardinality(1 .. (n - 1)) * Cardinality({"new", "newer"})
      BY <1>2, <1>3, FS_Product, Zenon
    <3> QED
      BY <1>2, <1>3, <3>1, Zenon
  <2>2. D \subseteq B
    BY <1>1, <1>6
  <2> HIDE DEF B
  <2>3. Cardinality(D) <= Cardinality(B)
    BY <2>1, <2>2, FS_Subset
  <2> QED
    BY <1>1, <2>1, <2>3
<1> QED
  BY <1>5, <1>6

-----------------------------------------------------------------------------
(* The first turn, until the n-th file is repaired.                        *)

Underway(n) == n \in 1 .. Len(Impl) /\ Curable(n) /\ fails = 0 /\ ~Rewritten(Impl[n]) /\ Course(n)

LEMMA ItIsListed ==
  ASSUME CoderAssumption, NEW n \in 1 .. Len(Impl), Curable(n)
  PROVE  Impl[n] \in Listing(Range(Impl)) /\ Impl[n] \in Listing(Paths) /\ Impl[n] \in Paths
<1>1. Impl[n] \in Range(Impl)
  BY DEF CoderAssumption, Range
<1> QED
  BY <1>1 DEF Curable, Listing, Paths

LEMMA KnownAre == ASSUME IInv PROVE Known \subseteq Paths /\ Shows \subseteq Listing(Paths)
<1>1. Known \subseteq Paths
  BY DEF IInv, CoderTypes, Known, Listing, Paths
<1>2. obs \in Seq(Observation)
  BY DEF IInv, CoderTypes
<1>3. \A o \in Range(obs) : \E k \in 1 .. Len(obs) : o = obs[k]
  BY <1>2 DEF Range
<1>4. \A o \in Range(obs) : o.tool = "read" => o.path \in Listing(Paths)
  BY <1>3 DEF IInv, TextsInv, ObsInv
<1> QED
  BY <1>1, <1>4 DEF Shows

\* What is shown is remembered.
LEMMA IngestKnows ==
  ASSUME CoderAssumption, IInv, NEW n, Underway(n), Ingest
  PROVE  /\ Known \cup Shows \subseteq Known'
         /\ i > X => files' = files
<1>1. obs \in Seq(Observation) /\ Len(obs) <= Window /\ Len(obs) \in Nat /\ i \in Nat
  BY DEF IInv, CoderTypes, CoderAssumption
<1>2. /\ DOMAIN files' = {q \in Range(Impl) : q \in DOMAIN files \/ ReadOf(q) # {}}
      /\ files' = [p \in DOMAIN files' |-> files'[p]]
      /\ \A p \in DOMAIN files' :
            files'[p] = IF ReadOf(p) # {} THEN (CHOOSE o \in ReadOf(p) : TRUE).text ELSE files[p]
      /\ tests' = tests \cup ({o.path : o \in Remembered(obs)} \cap Range(Suites))
  BY DEF Ingest
<1>3. DOMAIN files \subseteq Range(Impl) /\ files \in [DOMAIN files -> Text]
  BY DEF IInv, CoderTypes, Listing
<1>4. Stale
  BY DEF Underway, Course
<1>5. ASSUME NEW q \in Shows PROVE q \in Known'
  <2>1. PICK o \in Range(obs) : o.tool = "read" /\ o.path = q
    BY DEF Shows
  <2>2. PICK k \in 1 .. Len(obs) : o = obs[k]
    BY <1>1 DEF Range
  <2>3. o \in Remembered(obs)
    BY <1>4, <2>1, <2>2 DEF Stale, Remembered
  <2>4. q \in Range(Impl) \/ q \in Range(Suites)
    BY KnownAre DEF Listing, Paths
  <2>5. q \in Range(Impl) => q \in DOMAIN files'
    BY <1>2, <2>1, <2>3 DEF ReadOf
  <2>6. q \in Range(Suites) => q \in tests'
    BY <1>2, <2>1, <2>3
  <2> QED
    BY <2>4, <2>5, <2>6 DEF Known
<1>6. Known \subseteq Known'
  BY <1>2, <1>3 DEF Known
<1>7. ASSUME i > X PROVE files' = files
  <2>1. \A k \in 1 .. Len(obs) : obs[k].tool # "read"
    <3> SUFFICES ASSUME NEW k \in 1 .. Len(obs), i <= T + Len(obs) - k PROVE FALSE
      BY <1>4 DEF Stale
    <3>1. T \in Nat /\ X = T + Window /\ Window \in Nat
      BY Sizes DEF CoderAssumption
    <3> QED
      BY <1>1, <1>7, <3>1
  <2>2. Remembered(obs) = {}
    <3>1. \A o \in Range(obs) : \E k \in 1 .. Len(obs) : o = obs[k]
      BY <1>1 DEF Range
    <3> QED
      BY <2>1, <3>1 DEF Remembered
  <2>3. \A p : ReadOf(p) = {}
    BY <2>2 DEF ReadOf
  <2>4. DOMAIN files' = DOMAIN files
    BY <1>2, <1>3, <2>3
  <2> QED
    BY <1>2, <1>3, <2>3, <2>4
<1> QED
  BY <1>5, <1>6, <1>7

LEMMA StillRead ==
  ASSUME IInv, IInv', UNCHANGED kind, AllRead, DOMAIN files \subseteq DOMAIN files', tests \subseteq tests',
         listed => listed'
  PROVE  AllRead'
<1>1. files = << >> <=> DOMAIN files = {}
  BY Empty DEF IInv, CoderTypes
<1>2. files' = << >> <=> DOMAIN files' = {}
  BY Empty DEF IInv, CoderTypes
<1> QED
  BY <1>1, <1>2 DEF AllRead, Blank, UnreadImpl, UnreadSuites, Listing

LEMMA IngestCourse ==
  ASSUME CoderAssumption, IInv, IInv', NEW n, Underway(n), Ingest
  PROVE  Course(n)'
<1>a. i \in Nat
  BY DEF IInv, CoderTypes, CoderAssumption
<1>1. UNCHANGED <<kind, disk, did, i, obs, act, turn>> /\ pc = "ask" /\ pc' = "decide" /\ i \in Nat
  BY <1>a DEF Ingest, repo
<1>2. Known \cup Shows \subseteq Known' /\ (i > X => files' = files)
  BY IngestKnows
<1>3. Shows' = Shows /\ Known' \subseteq Paths /\ Known \cup Shows \subseteq Paths
  BY <1>1, KnownAre DEF Shows, Known, IInv, CoderTypes, Listing, Paths
<1>4. DOMAIN files \subseteq DOMAIN files' /\ tests \subseteq tests' /\ (listed => listed')
  BY IngestFiles DEF Ingest
<1>5. Reading'
  <2> SUFFICES ASSUME "weak" \notin did PROVE Reading'
    BY <1>1 DEF Reading
  <2>1. /\ i <= 1 + Cardinality(Known \cup Shows)
        /\ i = 0 \/ listed \/ \E k \in 1 .. Len(obs) : obs[k].tool = "list"
    BY <1>1 DEF Underway, Course, Reading
  <2>2. i <= 1 + Cardinality(Known' \cup Shows')
    <3>1. Known' \cup Shows' \subseteq Paths /\ Known \cup Shows \subseteq Known' \cup Shows'
      BY <1>2, <1>3 DEF Listing
    <3>2. /\ Cardinality(Known \cup Shows) \in Nat /\ Cardinality(Known' \cup Shows') \in Nat
          /\ Cardinality(Known \cup Shows) <= Cardinality(Known' \cup Shows')
      BY <1>3, <3>1, OneMoreKnown
    <3> QED
      BY <1>1, <2>1, <3>2
  <2>3. i = 0 \/ listed'
    <3>1. Listing(Paths) # {}
      BY ItIsListed DEF Underway
    <3>2. obs \in Seq(Observation)
      BY DEF IInv, CoderTypes
    <3>3. \A k \in 1 .. Len(obs) : obs[k] \in Range(obs)
      BY <3>2 DEF Range
    <3>4. listed' = (listed \/ (Listing(Paths) # {} /\ \E o \in Range(obs) : o.tool = "list"))
      BY DEF Ingest
    <3> QED
      BY <2>1, <3>1, <3>3, <3>4
  <2> QED
    BY <1>1, <1>2, <1>3, <2>2, <2>3 DEF Reading
<1>6. Stale'
  BY <1>1 DEF Underway, Course, Stale
<1>7. Fixing(n)'
  <2> SUFFICES ASSUME "weak" \in did PROVE Fixing(n)'
    BY <1>1 DEF Fixing
  <2>1. /\ AllRead
        /\ i <= X + 2 * Cardinality(Done(n)) + Flag
        /\ "tested" \notin did => i <= T + 1
        /\ "fixed" \notin did => i <= T + 2
    BY <1>1 DEF Underway, Course, Fixing, Passed
  <2>2. AllRead'
    BY <1>1, <1>4, <2>1, StillRead
  <2>3. Flag' = Flag /\ Flag \in Nat
    BY <1>1 DEF Flag
  <2>4. i <= X + 2 * Cardinality(Done(n)') + Flag
    <3>1. CASE i > X
      BY <1>2, <2>1, <3>1 DEF Done
    <3>2. CASE ~(i > X)
      <4>1. Cardinality(Done(n)') \in Nat
        BY Steps DEF Done, Underway
      <4> QED
        BY <1>1, <2>3, <3>2, <4>1, Sizes
    <3> QED
      BY <3>1, <3>2
  <2> QED
    BY <1>1, <2>1, <2>2, <2>3, <2>4 DEF Fixing, Passed
<1> QED
  BY <1>1, <1>5, <1>6, <1>7 DEF Underway, Course

\* What is not repaired is still to be fixed.
LEMMA StillToFix ==
  ASSUME CoderAssumption, IInv, RepairInv, NEW n, Underway(n), AllRead, pc # "act" \/ act.tool = "finish"
  PROVE  Impl[n] \in ToFix /\ files[Impl[n]] = "old" /\ files # << >>
<1>1. Impl[n] \in DOMAIN files
  BY ItIsListed DEF AllRead, UnreadImpl, Underway
<1>2. files \in [DOMAIN files -> Text] /\ (files = << >> <=> DOMAIN files = {})
  BY Empty DEF IInv, CoderTypes
<1>3. files[Impl[n]] = "old"
  BY <1>1 DEF RepairInv, AskedFor, Underway
<1>4. Repaired(Impl[n], "old") # "old"
  BY DEF Repaired, Alternate, Underway, Curable
<1> QED
  BY <1>1, <1>2, <1>3, <1>4 DEF ToFix

\* A fix brings one of the files before it a step further.
LEMMA FixGoesOn ==
  ASSUME CoderAssumption, IInv, RepairInv, NEW n, Underway(n), AllRead, pc # "act",
         AskFix(First(Impl, ToFix))
  PROVE  /\ Cardinality(Done(n)) \in Nat /\ Cardinality(Done(n)') \in Nat
         /\ Cardinality(Done(n)) + 1 <= Cardinality(Done(n)')
<1> DEFINE M == {m \in DOMAIN Impl : Impl[m] \in ToFix}
           f == Min(M)
           q == Impl[f]
<1>1. /\ n \in 1 .. Len(Impl) /\ DOMAIN Impl = 1 .. Len(Impl) /\ Len(Impl) \in Nat
      /\ n \in M /\ M \subseteq Nat
  BY StillToFix DEF Underway, CoderAssumption
<1>2. f \in M /\ f <= n
  BY <1>1, Least
<1>3. f \in 1 .. n
  BY <1>1, <1>2
<1>4. First(Impl, ToFix) = q
  BY DEF First
<1> HIDE DEF f
<1>5. q \in ToFix
  BY <1>2
<1> HIDE DEF M
<1>6. files \in [DOMAIN files -> Text] /\ q \in DOMAIN files /\ Repaired(q, files[q]) # files[q]
  BY <1>5 DEF ToFix, IInv, CoderTypes
<1>7. kind[q] \in {"broken", "creeping"}
  <2>1. f = n \/ f \in 1 .. n - 1
    BY <1>1, <1>3
  <2>2. kind[q] \in {"broken", "creeping"} \/ kind[q] # "loose"
    BY <2>1 DEF Underway, Curable
  <2> QED
    BY <1>6, <2>2 DEF Repaired
<1> DEFINE t == Repaired(q, files[q])
<1>8. files' = [files EXCEPT ![q] = t]
  BY <1>4 DEF AskFix
<1>9. \/ files[q] = "old" /\ t = "new"
      \/ files[q] = "new" /\ t = "newer"
  BY <1>6, <1>7 DEF Repaired, Alternate, Text
<1> HIDE DEF q, t
<1>10. /\ DOMAIN files' = DOMAIN files /\ files'[q] = t
       /\ \A p \in DOMAIN files \ {q} : files'[p] = files[p]
  BY <1>6, <1>8
<1>11. Done(n) \subseteq Done(n)'
  BY <1>9, <1>10 DEF Done
<1>12. <<f, t>> \in Done(n)' /\ <<f, t>> \notin Done(n)
  BY <1>3, <1>6, <1>9, <1>10 DEF Done, q
<1>13. Done(n) \subseteq (1 .. n) \X {"new", "newer"} /\ Done(n)' \subseteq (1 .. n) \X {"new", "newer"}
  BY DEF Done
<1>14. /\ Cardinality(Done(n)) \in Nat /\ Cardinality(Done(n)') \in Nat /\ IsFiniteSet(Done(n)')
  BY <1>1, <1>13, Steps
<1>15. Cardinality(Done(n)) <= Cardinality(Done(n)') /\ Cardinality(Done(n)) # Cardinality(Done(n)')
  BY <1>11, <1>12, <1>14, FS_Subset
<1> QED
  BY <1>14, <1>15

\* What the answers have in common.
LEMMA DecideKeeps ==
  ASSUME Decide
  PROVE  /\ UNCHANGED <<kind, disk, listed, tests, i, obs, turn>> /\ pc = "decide" /\ pc' = "act"
         /\ Shows' = Shows
BY DEF Decide, AskList, AskSuite, AskImpl, AskInspect, WeakPatch, FirstTest, Fix, AskFix, Retest, FixNext, Finish,
       Answer, repo, Shows

\* While the coder reads, each answer asks for something new.
LEMMA AskCourse ==
  ASSUME CoderAssumption, IInv, NEW n, Underway(n), AskList \/ AskSuite \/ AskImpl \/ AskInspect
  PROVE  Course(n)'
<1>1. /\ UNCHANGED <<kind, disk, listed, tests, i, obs, turn, files, did>> /\ pc = "decide" /\ pc' = "act"
      /\ Shows' = Shows
  BY DecideKeeps DEF Decide, AskList, AskSuite, AskImpl, AskInspect, Idle
<1>2. DOMAIN files \subseteq Range(Impl) /\ (files = << >> <=> DOMAIN files = {})
  BY Empty DEF IInv, CoderTypes, Listing
<1>3. Impl[n] \in Listing(Range(Impl))
  BY ItIsListed DEF Underway
<1>4. ~AskInspect
  BY <1>2, <1>3 DEF AskInspect, Blank, UnreadImpl
<1>5. "weak" \notin did
  <2> SUFFICES ASSUME AllRead PROVE FALSE
    BY DEF Underway, Course, Fixing
  <2> QED
    BY <1>4 DEF AllRead, AskList, AskSuite, AskImpl, SuitesFirst
<1>6. \/ act'.tool = "list" /\ i = 0
      \/ act'.tool = "read" /\ listed /\ act'.path \in Listing(Paths) \ Known
  <2>1. CASE AskList
    <3>1. i = 0
      BY <1>1, <1>5, <2>1 DEF AskList, Underway, Course, Reading
    <3>2. act' = Act("list", "", "")
      BY <2>1 DEF AskList, Answer
    <3> QED
      BY <3>1, <3>2 DEF Act
  <2>2. CASE AskSuite
    <3> DEFINE p == First(Suites, UnreadSuites)
    <3>1. UnreadSuites # {} /\ listed /\ act' = Act("read", p, "")
      BY <2>2 DEF AskSuite, SuitesFirst, Answer
    <3>2. p \in UnreadSuites
      BY <3>1, FirstIsOne DEF UnreadSuites, Listing, CoderAssumption
    <3>3. p \in Listing(Paths) \ Known
      BY <1>2, <3>2 DEF UnreadSuites, Listing, Paths, Known, CoderAssumption
    <3> HIDE DEF p
    <3> QED
      BY <3>1, <3>3 DEF Act
  <2>3. CASE AskImpl
    <3> DEFINE p == First(Impl, UnreadImpl)
    <3>1. UnreadImpl # {} /\ listed /\ act' = Act("read", p, "")
      BY <2>3 DEF AskImpl, Answer
    <3>2. p \in UnreadImpl
      BY <3>1, FirstIsOne DEF UnreadImpl, Listing, CoderAssumption
    <3>3. tests \subseteq Range(Suites)
      BY DEF IInv, CoderTypes
    <3>4. p \in Listing(Paths) \ Known
      BY <3>2, <3>3 DEF UnreadImpl, Listing, Paths, Known, CoderAssumption
    <3> HIDE DEF p
    <3> QED
      BY <3>1, <3>4 DEF Act
  <2> QED
    BY <1>4, <2>1, <2>2, <2>3
<1>7. Known' = Known /\ Listing(Paths)' = Listing(Paths)
  BY <1>1 DEF Known, Listing
<1>8. Reading'
  BY <1>1, <1>5, <1>6, <1>7 DEF Underway, Course, Reading
<1>9. Stale'
  BY <1>1 DEF Underway, Course, Stale
<1> QED
  BY <1>1, <1>5, <1>8, <1>9 DEF Underway, Course, Fixing

\* What Reading and Fixing have to say of the iterations so far.
LEMMA SoFar ==
  ASSUME CoderAssumption, IInv, NEW n, Underway(n), pc # "act"
  PROVE  /\ i \in Nat /\ Cardinality(Done(n)) \in Nat /\ Flag \in 0 .. 1
         /\ T \in Nat /\ X = T + Window /\ Window \in Nat
         /\ "weak" \notin did => i <= T
         /\ "weak" \in did => AllRead /\ i <= X + 2 * Cardinality(Done(n)) + Flag
         /\ "weak" \in did /\ "tested" \notin did => i <= T + 1
         /\ "weak" \in did /\ "fixed" \notin did => i <= T + 2
<1>1. i \in Nat /\ T \in Nat /\ X = T + Window /\ Window \in Nat
  BY Sizes DEF IInv, CoderTypes, CoderAssumption
<1>2. Cardinality(Done(n)) \in Nat
  BY Steps DEF Done, Underway
<1>3. Flag \in 0 .. 1
  BY DEF Flag
<1>4. ASSUME "weak" \notin did PROVE i <= T
  <2>1. i <= 1 + Cardinality(Known \cup Shows)
    BY <1>4 DEF Underway, Course, Reading
  <2>2. Known \cup Shows \subseteq Paths
    BY KnownAre DEF Listing
  <2>3. Cardinality(Known \cup Shows) \in Nat /\ Cardinality(Known \cup Shows) <= Len(Impl) + Len(Suites)
    BY <2>2, OneMoreKnown
  <2> QED
    BY <1>1, <2>1, <2>3, Sizes DEF T
<1>5. "weak" \in did =>
        /\ AllRead /\ i <= X + 2 * Cardinality(Done(n)) + Flag
        /\ "tested" \notin did => i <= T + 1
        /\ "fixed" \notin did => i <= T + 2
  BY DEF Underway, Course, Fixing, Passed
<1> QED
  BY <1>1, <1>2, <1>3, <1>4, <1>5

\* The numbers: an iteration more, and what it is paid for with.
LEMMA Budget ==
  ASSUME NEW c \in Nat, NEW d \in Nat, NEW e \in Nat, NEW t \in Nat, NEW x, NEW w \in Nat, x = t + w, w >= 2,
         NEW f \in 0 .. 1, NEW g \in 0 .. 1
  PROVE  /\ c <= t => c + 1 <= x + 2 * e + g /\ c + 1 <= t + 1 /\ c + 1 <= t + 2
         /\ c <= t + 1 => c + 1 <= x + 2 * e + g /\ c + 1 <= t + 2
         /\ c <= t + 2 /\ d + 1 <= e => c + 1 <= x + 2 * e + g
         /\ c <= x + 2 * d + f /\ d + 1 <= e => c + 1 <= x + 2 * e + g
         /\ c <= x + 2 * d + f /\ f = 0 /\ g = 1 /\ e = d => c + 1 <= x + 2 * e + g
  OBVIOUS

\* After that each answer is a patch that helps, or is followed by one.
LEMMA WorkCourse ==
  ASSUME CoderAssumption, Enough, IInv, RepairInv, NEW n, Underway(n),
         WeakPatch \/ FirstTest \/ Fix \/ Retest \/ FixNext \/ Finish
  PROVE  Course(n)'
<1>1. /\ UNCHANGED <<kind, disk, listed, tests, i, obs, turn>> /\ pc = "decide" /\ pc' = "act"
      /\ Shows' = Shows
  BY DecideKeeps DEF Decide
<1>2. AllRead
  BY DEF WeakPatch, FirstTest, Fix, Retest, FixNext, Finish, Marked, Fixed
<1>3. Impl[n] \in ToFix /\ files # << >>
  BY <1>1, <1>2, StillToFix
<1>4. "weak" \in did'
  BY <1>3 DEF WeakPatch, FirstTest, Fix, Retest, FixNext, Finish, Marked, Fixed, Idle
<1>5. DOMAIN files' = DOMAIN files /\ (files = << >> <=> files' = << >>)
  <2>1. files \in [DOMAIN files -> Text]
    BY DEF IInv, CoderTypes
  <2>2. CASE files' = files
    BY <2>2
  <2>3. CASE files' # files
    <3> DEFINE p == First(Impl, ToFix)
    <3>1. files' = [files EXCEPT ![p] = Repaired(p, @)]
      BY <2>3 DEF WeakPatch, FirstTest, Fix, AskFix, Retest, FixNext, Finish, Idle
    <3>2. DOMAIN files' = DOMAIN files /\ files' \in [DOMAIN files' -> {files'[x] : x \in DOMAIN files'}]
      BY <2>1, <3>1
    <3> QED
      BY <2>1, <3>2, Empty
  <2> QED
    BY <2>2, <2>3
<1>6. AllRead'
  BY <1>1, <1>2, <1>5 DEF AllRead, Blank, UnreadImpl, UnreadSuites, Listing
<1>7. act'.tool # "read"
  <2>1. ASSUME NEW tool \in Tools \ {"read"}, NEW path, NEW text, Answer(Act(tool, path, text))
        PROVE  act'.tool # "read"
    BY <2>1 DEF Answer, Act
  <2>2. CASE WeakPatch
    <3> DEFINE p == First(Impl, DOMAIN files)
    <3>1. Answer(Act("mark", p, files[p]))
      BY <2>2 DEF WeakPatch, Act, Patch
    <3> QED
      BY <2>1, <3>1 DEF Tools
  <2>3. CASE ~WeakPatch
    BY <2>1, <2>3 DEF FirstTest, Fix, AskFix, Retest, FixNext, Finish, RunTests, Patch, Tools
  <2> QED
    BY <2>2, <2>3
<1>8. /\ i + 1 <= X + 2 * Cardinality(Done(n)') + Flag'
      /\ "tested" \notin did' => i + 1 <= T + 1
      /\ "fixed" \notin did' => i + 1 <= T + 2
  <2> DEFINE d == Cardinality(Done(n))
             e == Cardinality(Done(n)')
             P == /\ i + 1 <= X + 2 * e + Flag'
                  /\ "tested" \notin did' => i + 1 <= T + 1
                  /\ "fixed" \notin did' => i + 1 <= T + 2
  <2>1. /\ i \in Nat /\ d \in Nat /\ Flag \in 0 .. 1
        /\ T \in Nat /\ X = T + Window /\ Window \in Nat /\ Window >= 2
        /\ "weak" \notin did => i <= T
        /\ "weak" \in did => i <= X + 2 * d + Flag
        /\ "weak" \in did /\ "tested" \notin did => i <= T + 1
        /\ "weak" \in did /\ "fixed" \notin did => i <= T + 2
    BY <1>1, SoFar DEF Enough
  <2>2. e \in Nat /\ Flag' \in 0 .. 1
    <3>1. Done(n)' \subseteq (1 .. n) \X {"new", "newer"}
      BY DEF Done
    <3> QED
      BY <3>1, Steps DEF Underway, Flag
  <2>3. AskFix(First(Impl, ToFix)) => d + 1 <= e
    BY <1>1, <1>2, FixGoesOn
  <2> HIDE DEF d, e
  <2>4. ASSUME WeakPatch PROVE P
    <3>1. "weak" \notin did
      BY <2>4 DEF WeakPatch
    <3> QED
      BY <2>1, <2>2, <3>1, Budget
  <2>5. ASSUME FirstTest PROVE P
    <3>1. "weak" \in did /\ "tested" \notin did /\ did' = did \cup {"tested"}
      BY <1>3, <2>5 DEF FirstTest, Marked
    <3> QED
      BY <2>1, <2>2, <3>1, Budget
  <2>6. ASSUME Fix PROVE P
    <3>1. "weak" \in did /\ {"tested"} \subseteq did /\ "fixed" \notin did /\ did' = did \cup {"fixed"}
      BY <1>3, <2>6 DEF Fix, Marked
    <3>2. i <= T + 2
      BY <2>1, <3>1
    <3>3. d + 1 <= e
      BY <1>3, <2>3, <2>6 DEF Fix
    <3> QED
      BY <2>1, <2>2, <3>1, <3>2, <3>3, Budget
  <2>7. ASSUME FixNext PROVE P
    <3>1. "weak" \in did /\ did' = did \ {"retested"} /\ "retested" \in did /\ {"tested", "fixed"} \subseteq did
      BY <1>3, <2>7 DEF FixNext, Fixed, Marked
    <3>2. d + 1 <= e
      BY <2>3, <2>7 DEF FixNext
    <3>3. i <= X + 2 * d + Flag
      BY <2>1, <3>1
    <3>4. i + 1 <= X + 2 * e + Flag'
      BY <2>1, <2>2, <3>2, <3>3, Budget
    <3> QED
      BY <3>1, <3>4
  <2>8. ASSUME Retest PROVE P
    <3>1. "weak" \in did /\ did' = did \cup {"retested"} /\ "retested" \notin did /\ {"tested", "fixed"} \subseteq did
      BY <1>3, <2>8 DEF Retest, Fixed, Marked
    <3>2. Flag = 0 /\ Flag' = 1
      BY <3>1 DEF Flag
    <3>3. e = d
      BY <2>8 DEF Retest, Done, d, e
    <3>4. i <= X + 2 * d + Flag
      BY <2>1, <3>1
    <3>5. i + 1 <= X + 2 * e + Flag'
      BY <2>1, <2>2, <3>2, <3>3, <3>4, Budget
    <3> QED
      BY <3>1, <3>5
  <2>9. ASSUME Finish PROVE P
    BY <1>3, <2>9 DEF Finish
  <2> QED
    BY <2>4, <2>5, <2>6, <2>7, <2>8, <2>9 DEF e
<1>9. Stale'
  BY <1>1 DEF Underway, Course, Stale
<1> QED
  BY <1>1, <1>4, <1>6, <1>7, <1>8, <1>9 DEF Underway, Course, Reading, Fixing, Passed

\* Where an observation is shown after one more.
LEMMA ShownAt ==
  ASSUME NEW S, obs \in Seq(S), Len(obs) <= Window, Window \in Nat \ {0}, NEW o \in S, obs' = Shown(obs, o)
  PROVE  /\ Len(obs') \in Nat \ {0} /\ obs'[Len(obs')] = o
         /\ \A k \in 1 .. Len(obs') :
              \/ k = Len(obs')
              \/ \E m \in 1 .. Len(obs) : obs'[k] = obs[m] /\ Len(obs') - k = Len(obs) - m + 1
<1> DEFINE all == Append(obs, o)
<1>1. /\ all \in Seq(S) /\ Len(all) = Len(obs) + 1 /\ Len(obs) \in Nat /\ all # << >>
      /\ all[Len(all)] = o
      /\ \A m \in 1 .. Len(obs) : all[m] = obs[m]
  BY AppendProperties
<1>2. obs' = IF Len(all) > Window THEN Tail(all) ELSE all
  BY DEF Shown
<1> HIDE DEF all
<1>3. CASE Len(all) > Window
  <2>1. /\ obs' = Tail(all) /\ Len(obs') = Len(obs) /\ Len(obs) >= 1
        /\ \A k \in 1 .. Len(obs') : obs'[k] = all[k + 1]
    BY <1>1, <1>2, <1>3, HeadTailProperties
  <2>2. obs'[Len(obs')] = o
    BY <1>1, <2>1
  <2>3. ASSUME NEW k \in 1 .. Len(obs'), k # Len(obs')
        PROVE  \E m \in 1 .. Len(obs) : obs'[k] = obs[m] /\ Len(obs') - k = Len(obs) - m + 1
    <3>1. k + 1 \in 1 .. Len(obs) /\ Len(obs') - k = Len(obs) - (k + 1) + 1
      BY <1>1, <2>1, <2>3
    <3>2. obs'[k] = obs[k + 1]
      BY <1>1, <2>1, <3>1
    <3> QED
      BY <3>1, <3>2
  <2>4. Len(obs') \in Nat \ {0}
    BY <1>1, <2>1
  <2> QED
    BY <2>2, <2>3, <2>4, Zenon
<1>4. CASE ~(Len(all) > Window)
  <2>1. obs' = all
    BY <1>2, <1>4
  <2>2. ASSUME NEW k \in 1 .. Len(obs'), k # Len(obs')
        PROVE  \E m \in 1 .. Len(obs) : obs'[k] = obs[m] /\ Len(obs') - k = Len(obs) - m + 1
    <3>1. k \in 1 .. Len(obs) /\ obs'[k] = obs[k] /\ Len(obs') - k = Len(obs) - k + 1
      BY <1>1, <2>1, <2>2
    <3> QED
      BY <3>1
  <2>3. Len(obs') \in Nat \ {0} /\ obs'[Len(obs')] = o
    BY <1>1, <2>1
  <2> QED
    BY <2>2, <2>3, Zenon
<1> QED
  BY <1>3, <1>4


LEMMA LastShown ==
  ASSUME NEW c \in Nat, NEW t \in Nat, NEW h \in Nat, NEW k \in 1 .. h, k = h, c + 1 <= t
  PROVE  c + 1 <= t + h - k
  OBVIOUS

LEMMA LaterShown ==
  ASSUME NEW c \in Nat, NEW t \in Nat, NEW l \in Nat, NEW h \in Nat, NEW m \in 1 .. l, NEW k \in 1 .. h,
         h - k = l - m + 1, c <= t + l - m
  PROVE  c + 1 <= t + h - k
  OBVIOUS

\* What was shown may be shown for one iteration less.
LEMMA StaleGoesOn ==
  ASSUME NEW o, i \in Nat, T \in Nat, T' = T, i' = i + 1, Len(obs) \in Nat, Stale,
         o.tool = "read" => o.text # "" /\ i + 1 <= T,
         Len(obs') \in Nat \ {0}, obs'[Len(obs')] = o,
         \A k \in 1 .. Len(obs') :
           \/ k = Len(obs')
           \/ \E m \in 1 .. Len(obs) : obs'[k] = obs[m] /\ Len(obs') - k = Len(obs) - m + 1
  PROVE  Stale'
<1> SUFFICES ASSUME NEW k \in 1 .. Len(obs'), obs'[k].tool = "read"
             PROVE  obs'[k].text # "" /\ i + 1 <= T + Len(obs') - k
  BY DEF Stale
<1> DEFINE h == Len(obs')
<1>1. h \in Nat /\ k \in 1 .. h
  OBVIOUS
<1>2. CASE k = h
  <2>1. obs'[k] = o
    BY <1>2, Zenon
  <2>2. o.text # "" /\ i + 1 <= T
    BY <2>1, Zenon
  <2> HIDE DEF h
  <2>3. i + 1 <= T + h - k
    BY <1>1, <1>2, <2>2, LastShown, Zenon
  <2> QED
    BY <2>1, <2>2, <2>3, Zenon DEF h
<1>3. CASE k # h
  <2>1. PICK m \in 1 .. Len(obs) : obs'[k] = obs[m] /\ h - k = Len(obs) - m + 1
    BY <1>3, Zenon
  <2>2. obs[m].text # "" /\ i <= T + Len(obs) - m
    BY <2>1 DEF Stale
  <2>3. obs'[k].text # ""
    BY <2>1, <2>2
  <2> HIDE DEF h
  <2>4. i + 1 <= T + h - k
    BY <1>1, <2>1, <2>2, LaterShown
  <2> QED
    BY <2>3, <2>4, Zenon DEF h
<1> QED
  BY <1>2, <1>3

\* What the loop does for the coder brings it one iteration nearer.
LEMMA ActCourse ==
  ASSUME CoderAssumption, Enough, IInv, IInv', NEW n, Underway(n), Look \/ Read \/ Write \/ WriteFails \/ Test
  PROVE  Course(n)'
<1>1. /\ UNCHANGED <<kind, listed, files, tests, step, did, act, turn>>
      /\ pc = "act" /\ pc' = "ask" /\ i' = i + 1
  BY DEF Look, Read, Write, WriteFails, Test, Observe, repo, coder
<1>2. /\ obs \in Seq(Observation) /\ Len(obs) <= Window /\ Window \in Nat \ {0} /\ act \in Observation
      /\ i \in Nat /\ T \in Nat /\ Known' = Known /\ turn = 1 /\ Reading /\ Stale /\ Fixing(n)
  BY <1>1, Sizes DEF IInv, CoderTypes, CoderAssumption, Enough, Known, Underway, Course
<1>3. PICK o \in Observation : /\ obs' = Shown(obs, o)
                               /\ act.tool = "list" => o.tool = "list"
                               /\ o.tool = "read" <=> act.tool = "read"
                               /\ o.tool = "read" => o.path = act.path /\ o.text # ""
  <2>1. CASE Read
    <3> DEFINE seen == IF kind[act.path] = "unreadable" THEN "" ELSE disk[act.path].text
               o == [act EXCEPT !.text = seen]
    <3>1. act.path \in Paths /\ act.tool = "read"
      BY <2>1 DEF Read, IInv, PendingInv, Listing
    <3>2. seen \in Text /\ "" \notin Text
      BY <3>1 DEF IInv, CoderTypes, Underway, Curable, Text
    <3>3. o \in Observation /\ o.path = act.path /\ o.text = seen /\ o.tool = "read"
      BY <1>2, <3>1, <3>2 DEF Observation
    <3>4. obs' = Shown(obs, o)
      BY <2>1 DEF Read, Observe, Shown
    <3> HIDE DEF o, seen
    <3> QED
      BY <3>1, <3>2, <3>3, <3>4
  <2>2. CASE Look
    BY <1>2, <2>2 DEF Look, Observe, Shown
  <2>3. CASE Write \/ WriteFails \/ Test
    BY <2>3, NothingIsObserved DEF Write, WriteFails, Test, Observe, Shown
  <2> QED
    BY <2>1, <2>2, <2>3
<1>4. /\ Len(obs') \in Nat \ {0} /\ obs'[Len(obs')] = o
      /\ \A k \in 1 .. Len(obs') :
           \/ k = Len(obs')
           \/ \E m \in 1 .. Len(obs) : obs'[k] = obs[m] /\ Len(obs') - k = Len(obs) - m + 1
  BY <1>2, <1>3, ShownAt, Zenon
<1>5. Shows' \subseteq Paths /\ Known \subseteq Paths
  <2>1. obs' \in Seq(Observation)
    BY DEF IInv, CoderTypes
  <2>2. \A v \in Range(obs') : \E k \in 1 .. Len(obs') : v = obs'[k]
    BY <2>1 DEF Range
  <2>3. \A v \in Range(obs') : v.tool = "read" => v.path \in Paths
    BY <2>2 DEF IInv, TextsInv, ObsInv, Listing
  <2> QED
    BY <2>3, KnownAre DEF Shows
<1>8. (o.tool = "read" => i + 1 <= T) => Stale'
  <2> SUFFICES ASSUME o.tool = "read" => i + 1 <= T PROVE Stale'
    OBVIOUS
  <2>1. T' = T
    BY DEF T
  <2>2. Len(obs) \in Nat
    BY <1>2
  <2>3. o.tool = "read" => o.text # "" /\ i + 1 <= T
    BY <1>3
  <2> QED
    BY <1>1, <1>2, <1>4, <2>1, <2>2, <2>3, StaleGoesOn, Zenon
<1>6. CASE act.tool = "read"
  <2>1. "weak" \notin did
    BY <1>1, <1>2, <1>6 DEF Fixing
  <2>2. /\ i <= 1 + Cardinality(Known \cup Shows) /\ Shows \subseteq Known
        /\ listed /\ act.path \in Paths \ Known
    BY <1>1, <1>2, <1>6, <2>1 DEF Reading, Listing
  <2>3. act.path \in Shows'
    <3>1. obs' \in Seq(Observation)
      BY DEF IInv, CoderTypes
    <3>2. o \in Range(obs')
      BY <1>4, <3>1 DEF Range
    <3> QED
      BY <1>3, <1>6, <3>2 DEF Shows
  <2>4. /\ Cardinality(Known) \in Nat /\ Cardinality(Known \cup Shows') \in Nat
        /\ Cardinality(Known) + 1 <= Cardinality(Known \cup Shows')
        /\ Cardinality(Known \cup Shows') <= Len(Impl) + Len(Suites)
    <3>1. Known \cup Shows' \subseteq Paths /\ Known \subseteq Known \cup Shows' /\ Known # Known \cup Shows'
      BY <1>5, <2>2, <2>3
    <3> QED
      BY <1>5, <3>1, OneMoreKnown
  <2>5. Known \cup Shows = Known
    BY <2>2
  <2>6. i <= 1 + Cardinality(Known)
    BY <2>2, <2>5
  <2>7. i + 1 <= 1 + Cardinality(Known \cup Shows')
    BY <1>2, <2>4, <2>6
  <2>8. i + 1 <= T
    BY <1>2, <2>4, <2>7, Sizes DEF T
  <2>9. Reading'
    BY <1>1, <1>2, <2>2, <2>7 DEF Reading
  <2>10. Stale'
    BY <1>8, <2>8
  <2> QED
    BY <1>1, <1>2, <2>1, <2>9, <2>10 DEF Course, Fixing
<1>7. CASE act.tool # "read"
  <2>1. Reading'
    <3> SUFFICES ASSUME "weak" \notin did PROVE Reading'
      BY <1>1 DEF Reading
    <3>1. act.tool = "list" /\ i = 0
      BY <1>1, <1>2, <1>7 DEF Reading
    <3>2. Cardinality(Known \cup Shows') \in Nat
      BY <1>5, OneMoreKnown
    <3>3. i' <= 1 + Cardinality(Known' \cup Shows')
      BY <1>1, <1>2, <3>1, <3>2
    <3>4. \E k \in 1 .. Len(obs') : obs'[k].tool = "list"
      <4>1. Len(obs') \in 1 .. Len(obs')
        BY <1>4
      <4>2. obs'[Len(obs')].tool = "list"
        BY <1>3, <1>4, <3>1, Zenon
      <4> QED
        BY <4>1, <4>2, Zenon
    <3> QED
      BY <1>1, <3>3, <3>4 DEF Reading
  <2>2. Stale'
    BY <1>3, <1>7, <1>8
  <2>3. Fixing(n)'
    <3>1. AllRead' = AllRead /\ Flag' = Flag /\ Done(n)' = Done(n) /\ Passed' = Passed
      BY <1>1 DEF AllRead, Blank, UnreadImpl, UnreadSuites, Listing, Flag, Done, Passed
    <3> QED
      BY <1>1, <1>2, <3>1 DEF Fixing
  <2> QED
    BY <1>1, <1>2, <2>1, <2>2, <2>3 DEF Course
<1> QED
  BY <1>6, <1>7

LEMMA TooMany ==
  ASSUME NEW l \in Nat, NEW n \in 1 .. l, NEW s \in Nat, NEW w \in Nat, NEW m, NEW c \in Nat, NEW t, NEW x,
         c = m, w >= 2, m >= 5 * l + s + w - 1, t = 1 + l + s, x = t + w
  PROVE  /\ ~(c <= t)
         /\ \A d \in Nat : \A f \in 0 .. 1 : d <= 2 * (n - 1) => ~(c <= x + 2 * d + f)
  OBVIOUS

\* The first turn is not over before the file is repaired.
LEMMA TurnGoesOn ==
  ASSUME CoderAssumption, Enough, IInv, RepairInv, NEW n, Underway(n) PROVE ~EndTurn /\ ~NextTurn
<1>1. pc # "verify"
  BY DEF Underway, Course
<1>2. ~(pc = "act" /\ act.tool = "finish")
  <2> SUFFICES ASSUME pc = "act", act.tool = "finish" PROVE FALSE
    OBVIOUS
  <2>1. AllRead /\ ToFix = {}
    BY DEF IInv, PendingInv, ReadyToFinish, Fixed, Marked
  <2> QED
    BY <2>1, StillToFix
<1>3. ~(pc = "ask" /\ i = MaxIters)
  <2> SUFFICES ASSUME pc = "ask", i = MaxIters PROVE FALSE
    OBVIOUS
  <2>1. n \in 1 .. Len(Impl) /\ Len(Impl) \in Nat /\ Len(Suites) \in Nat
    BY Sizes DEF Underway
  <2>2. /\ i \in Nat /\ Cardinality(Done(n)) \in Nat /\ Flag \in 0 .. 1 /\ Window \in Nat
        /\ T = 1 + Len(Impl) + Len(Suites) /\ X = T + Window
        /\ "weak" \notin did => i <= T
        /\ "weak" \in did => AllRead /\ i <= X + 2 * Cardinality(Done(n)) + Flag
    BY SoFar DEF T
  <2>3. ~(i <= T)
    BY <2>1, <2>2, TooMany DEF Enough
  <2>4. AllRead /\ i <= X + 2 * Cardinality(Done(n)) + Flag
    BY <2>2, <2>3
  <2>5. files[Impl[n]] = "old"
    BY <2>4, StillToFix
  <2>6. Cardinality(Done(n)) <= 2 * (n - 1)
    <3>1. Done(n) \subseteq (1 .. n) \X {"new", "newer"} /\ \A s \in Done(n) : s[1] # n
      BY <2>5 DEF Done
    <3> QED
      BY <2>1, <3>1, Steps
  <2> QED
    BY <2>1, <2>2, <2>4, <2>6, TooMany DEF Enough
<1> QED
  BY <1>1, <1>2, <1>3 DEF EndTurn, NextTurn

LEMMA InitCourse == ASSUME CoderAssumption, Init PROVE CourseInv
<1>1. /\ DOMAIN files = {} /\ tests = {} /\ obs = << >> /\ i = 0 /\ pc = "ask" /\ turn = 1 /\ did = {}
      /\ Range(obs) = {}
  BY Empty DEF Init, Range
<1>2. Known \cup Shows = {}
  BY <1>1 DEF Known, Shows
<1>3. i <= 1 + Cardinality(Known \cup Shows)
  <2>1. Cardinality({}) = 0
    BY FS_EmptySet
  <2>2. Cardinality(Known \cup Shows) = 0
    BY <1>2, <2>1, Zenon
  <2> QED
    BY <1>1, <2>2
<1>4. Reading
  BY <1>1, <1>3 DEF Reading
<1>5. Stale /\ \A n : Fixing(n)
  BY <1>1 DEF Stale, Fixing
<1> QED
  BY <1>1, <1>4, <1>5 DEF CourseInv, Course

LEMMA StepCourse ==
  ASSUME CoderAssumption, Enough, IInv, RepairInv, CourseInv, [Next]_vars PROVE CourseInv'
<1> SUFFICES ASSUME fails' = 0, NEW n \in DOMAIN Impl, Curable(n)', ~Rewritten(Impl[n])'
             PROVE  Course(n)'
  BY DEF CourseInv
<1>1. kind' = kind /\ (fails' = fails \/ fails' = fails + 1) /\ fails \in Nat
  <2>1. fails \in Nat
    BY DEF IInv, CoderTypes
  <2>2. CASE Decide
    BY <2>1, <2>2 DEF Decide, AskList, AskSuite, AskImpl, AskInspect, WeakPatch, FirstTest, Fix, AskFix, Retest,
                      FixNext, Finish, Answer, repo, hist
  <2>3. CASE ~Decide
    BY <2>1, <2>3 DEF Next, Ingest, Look, Read, Write, WriteFails, Test, Observe, EndTurn, NextTurn, vars, repo, hist
  <2> QED
    BY <2>2, <2>3
<1>2. Curable(n) /\ fails = 0 /\ n \in 1 .. Len(Impl) /\ Impl[n] \in Paths
  BY <1>1 DEF Curable, CoderAssumption, Paths, Range
<1>3. ~Rewritten(Impl[n])
  BY <1>2, RewrittenStays
<1>4. Underway(n)
  BY <1>2, <1>3 DEF CourseInv, Underway
<1>5. IInv'
  BY StepHolds
<1>6. CASE Ingest
  BY <1>4, <1>5, <1>6, IngestCourse
<1>7. CASE AskList \/ AskSuite \/ AskImpl \/ AskInspect
  BY <1>4, <1>7, AskCourse
<1>8. CASE WeakPatch \/ FirstTest \/ Fix \/ Retest \/ FixNext \/ Finish
  BY <1>4, <1>8, WorkCourse
<1>9. CASE Look \/ Read \/ Write \/ WriteFails \/ Test
  BY <1>4, <1>5, <1>9, ActCourse
<1>10. CASE EndTurn \/ NextTurn
  BY <1>4, <1>10, TurnGoesOn
<1>11. CASE UNCHANGED vars
  <2>1. UNCHANGED <<kind, listed, files, tests, did, pc, i, obs, act, turn>>
    BY <1>11 DEF vars, repo, coder, loop
  <2>2. Course(n)
    BY <1>4 DEF Underway
  <2>3. AllRead' = AllRead /\ Flag' = Flag /\ Done(n)' = Done(n) /\ Passed' = Passed
    BY <2>1 DEF AllRead, Blank, UnreadImpl, UnreadSuites, Listing, Flag, Done, Passed
  <2>4. Reading' /\ Stale' /\ Fixing(n)'
    BY <2>1, <2>2, <2>3 DEF Course, Reading, Stale, Fixing, Known, Shows, Listing
  <2> QED
    BY <2>1, <2>2, <2>4 DEF Course
<1> QED
  BY <1>6, <1>7, <1>8, <1>9, <1>10, <1>11 DEF Next, Decide

LEMMA ExplainedByCourse == ASSUME IInv, CourseInv PROVE UnrepairedIsExplained
<1> SUFFICES ASSUME pc = "verify", NEW n \in DOMAIN Impl, Unrepaired(Impl[n]),
                    \A p \in Paths : kind[p] # "unreadable", \A m \in 1 .. n - 1 : kind[Impl[m]] # "loose",
                    ~(fails > 0)
             PROVE  FALSE
  BY DEF UnrepairedIsExplained
<1>1. Curable(n) /\ ~Rewritten(Impl[n]) /\ fails = 0
  BY DEF Curable, Unrepaired, Rewritten, IInv, CoderTypes
<1> QED
  BY <1>1 DEF CourseInv, Course

(* With so many iterations one turn is enough: when all turns are over, a  *)
(* file that could have been repaired is, unless a file could not be read, *)
(* an earlier one has loose tests, or a patch could not be written         *)
(* (mock_coder.py:38-145, agent_loop.py:82-160).                           *)
THEOREM RepairsSucceed == ASSUME CoderAssumption, Enough PROVE Spec => []UnrepairedIsExplained
  BY ExplainedByCourse, Invariant, InitRepairs, StepRepairs, InitCourse, StepCourse, PTL DEF Spec
=============================================================================
