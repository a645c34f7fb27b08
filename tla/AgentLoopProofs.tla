--------------------------- MODULE AgentLoopProofs ---------------------------
(***************************************************************************)
(* The agent loop's safety, for every limit of iterations and attempts,    *)
(* every role asked for and whatever the model answers.                    *)
(***************************************************************************)
EXTENDS AgentLoop, TLAPS

(* The role's contract and the table of tools fit: looking at one of a     *)
(* tool's permissions is enough, because no role lists a tool with two.    *)
ContractsFit ==
  \A t \in Tool : t \in Role.tools => Permissions(t) \subseteq Role.permissions

LEMMA RolesFit == ContractsFit
<1> DEFINE Fits(r) == \A t \in Tool : t \in r.tools => Permissions(t) \subseteq r.permissions
<1> USE DEF Tool, ReadTools, ExecTools, GitTools, Permissions, Contract, ROLES
<1>1. Fits(ROLES.architect)
  OBVIOUS
<1>2. Fits(ROLES.researcher)
  OBVIOUS
<1>3. Fits(ROLES.coder)
  OBVIOUS
<1>4. Fits(ROLES.debugger)
  OBVIOUS
<1>5. Fits(ROLES.tester)
  OBVIOUS
<1>6. Fits(ROLES.security)
  OBVIOUS
<1>7. Fits(ROLES.docs)
  OBVIOUS
<1>8. Role \in {ROLES.architect, ROLES.researcher, ROLES.coder, ROLES.debugger,
                ROLES.tester, ROLES.security, ROLES.docs}
  BY DEF Role
<1> HIDE DEF Fits
<1>9. Fits(Role)
  BY <1>1, <1>2, <1>3, <1>4, <1>5, <1>6, <1>7, <1>8
<1> QED
  BY <1>9 DEF Fits, ContractsFit

-----------------------------------------------------------------------------
(* The inductive invariant.                                                *)

\* An attempt pays for its iterations when it is opened.
BudgetInv ==
  /\ heal > 0 => ran
  /\ pc \in {"out", "after", "tests", "testing"} => calls <= heal * MaxIters
  /\ pc \in {"top", "ask"} => calls + MaxIters <= heal * MaxIters + i
  /\ pc \in {"model", "screen", "check", "tool", "running"} =>
       calls + MaxIters <= heal * MaxIters + i + 1
  /\ pc \in {"ask", "model", "screen", "check", "tool", "running"} => i < MaxIters

\* Where something is about to begin, the token was looked at just before.
LateInv ==
  /\ late <= 1 /\ (~token => late = 0)
  /\ pc \in {"ask", "tool", "tests"} => late = 0

PermInv ==
  pc \in {"check", "tool", "running"} =>
    answer.type \in Tool /\ Permissions(answer.type) \subseteq Role.permissions

IInv == TypeOK /\ BudgetInv /\ LateInv /\ PermInv

LEMMA Products ==
  ASSUME LimitAssumption, NEW a \in Nat
  PROVE  /\ a * MaxIters \in Nat
         /\ (a + 1) * MaxIters = a * MaxIters + MaxIters
         /\ a <= MaxHeal => a * MaxIters <= MaxHeal * MaxIters
<1> USE DEF LimitAssumption
<1>1. a * MaxIters \in Nat /\ (a + 1) * MaxIters = a * MaxIters + MaxIters
  OBVIOUS
<1>2. ASSUME a <= MaxHeal PROVE a * MaxIters <= MaxHeal * MaxIters
  <2>1. MaxHeal - a \in Nat /\ MaxHeal = a + (MaxHeal - a)
    BY <1>2
  <2>2. MaxHeal * MaxIters = a * MaxIters + (MaxHeal - a) * MaxIters
    BY <2>1
  <2>3. (MaxHeal - a) * MaxIters \in Nat
    BY <2>1
  <2> QED
    BY <1>1, <2>2, <2>3
<1> QED
  BY <1>1, <1>2

LEMMA InitHolds == ASSUME LimitAssumption, Init PROVE IInv
<1>1. 0 * MaxIters = 0 /\ CallCap \in Nat
  BY DEF LimitAssumption, CallCap
<1>2. TypeOK
  <2>1. /\ asked \in Asked /\ pc = "out" /\ i = 0 /\ token = FALSE
        /\ heal = 0 /\ ran = FALSE /\ testsOk = FALSE /\ calls = 0 /\ late = 0
    BY DEF Init
  <2>2. token \in BOOLEAN /\ ran \in BOOLEAN /\ testsOk \in BOOLEAN
    BY <2>1
  <2>3. /\ i \in 0 .. MaxIters /\ heal \in 0 .. MaxHeal
        /\ calls \in 0 .. CallCap /\ late \in 0 .. 2
    BY <1>1, <2>1 DEF LimitAssumption
  <2>4. pc \in Pc
    BY <2>1 DEF Pc
  <2>5. answer \in Answer
    BY DEF Init, Answer
  <2> QED
    BY <2>1, <2>2, <2>3, <2>4, <2>5 DEF TypeOK
<1>3. BudgetInv
  BY <1>1 DEF LimitAssumption, Init, BudgetInv
<1>4. LateInv /\ PermInv
  BY DEF Init, LateInv, PermInv
<1> QED
  BY <1>2, <1>3, <1>4 DEF IInv

LEMMA TypeStep == ASSUME LimitAssumption, IInv, [Next]_vars PROVE TypeOK'
<1> USE DEF LimitAssumption, IInv, TypeOK, BudgetInv, PermInv, Goto, NextRound, Begin, Pc,
        agent, history
<1>0. CallCap \in Nat
  BY DEF CallCap
<1>1. CASE Enter
  BY <1>0, <1>1 DEF Enter
<1>2. CASE Ask
  BY <1>0, <1>2 DEF Ask
<1>3. ASSUME NEW a \in Answer, ModelAnswers(a) PROVE TypeOK'
  BY <1>0, <1>3 DEF ModelAnswers
<1>4. ASSUME NEW p, Refuse(p) \/ Admit(p) PROVE TypeOK'
  BY <1>0, <1>4 DEF Refuse, Admit
<1>5. CASE ToolBegins
  BY <1>0, <1>5 DEF ToolBegins
<1>6. CASE ToolEnds
  BY <1>0, <1>6 DEF ToolEnds
<1>7. CASE SetToken \/ Top \/ Finish \/ Check \/ ModelRaises \/ After \/ TestsRaise
  BY <1>0, <1>7 DEF SetToken, Top, Finish, Check, ModelRaises, After, TestsRaise
<1>8. CASE TestsBegin
  BY <1>0, <1>8 DEF TestsBegin
<1>9. ASSUME NEW ok \in BOOLEAN, TestsEnd(ok) \/ RunTests(ok) PROVE TypeOK'
  BY <1>0, <1>9 DEF TestsEnd, RunTests
<1>10. CASE UNCHANGED vars
  BY <1>10 DEF vars
<1> QED
  BY <1>1, <1>2, <1>3, <1>4, <1>5, <1>6, <1>7, <1>8, <1>9, <1>10 DEF Next, OtherStep, PytestReturns

LEMMA BudgetStep == ASSUME LimitAssumption, IInv, TypeOK', [Next]_vars PROVE BudgetInv'
<1> DEFINE Paid == heal * MaxIters
<1> USE DEF LimitAssumption, IInv, BudgetInv, Goto, NextRound, agent, history
<1>0. /\ i \in 0 .. MaxIters /\ heal \in Nat /\ heal <= MaxHeal /\ Paid \in Nat
      /\ calls \in Nat /\ ran \in BOOLEAN /\ token \in BOOLEAN
  BY Products DEF TypeOK, CallCap
<1>1. CASE Enter
  <2>1. heal' = heal + 1 /\ heal' * MaxIters = Paid + MaxIters
    BY <1>0, <1>1, Products DEF Enter
  <2> QED
    BY <1>0, <1>1, <2>1 DEF Enter
<1> HIDE DEF Paid
<1>2. CASE Ask
  <2>1. calls' \in Nat /\ calls' <= calls + 1
    BY <1>0, <1>2 DEF LimitAssumption, Ask, CallCap
  <2> QED
    BY <1>0, <1>2, <2>1 DEF Ask, Paid
<1>3. CASE SetToken \/ Top \/ Finish \/ Check \/ ModelRaises
  BY <1>0, <1>3 DEF SetToken, Top, Finish, Check, ModelRaises, Paid
<1>4. ASSUME NEW a \in Answer, ModelAnswers(a) PROVE BudgetInv'
  BY <1>0, <1>4 DEF ModelAnswers, Paid
<1>5. ASSUME NEW p, Refuse(p) \/ Admit(p) PROVE BudgetInv'
  BY <1>0, <1>5 DEF Refuse, Admit, Paid
<1>6. CASE ToolBegins \/ ToolEnds \/ After \/ TestsBegin \/ TestsRaise
  BY <1>0, <1>6 DEF ToolBegins, ToolEnds, After, TestsBegin, TestsRaise, Paid
<1>7. ASSUME NEW ok \in BOOLEAN, TestsEnd(ok) \/ RunTests(ok) PROVE BudgetInv'
  BY <1>0, <1>7 DEF TestsEnd, RunTests, Paid
<1>8. CASE UNCHANGED vars
  BY <1>8 DEF vars
<1> QED
  BY <1>1, <1>2, <1>3, <1>4, <1>5, <1>6, <1>7, <1>8 DEF Next, OtherStep, PytestReturns

LEMMA LateStep == ASSUME LimitAssumption, IInv, [Next]_vars PROVE LateInv'
<1> USE DEF IInv, TypeOK, LateInv, Goto, NextRound, Begin, agent, history
<1>1. CASE Enter \/ SetToken \/ Top \/ Ask \/ Finish \/ Check \/ ModelRaises
  BY <1>1 DEF Enter, SetToken, Top, Ask, Finish, Check, ModelRaises
<1>2. ASSUME NEW a, NEW p, ModelAnswers(a) \/ Refuse(p) \/ Admit(p) PROVE LateInv'
  BY <1>2 DEF ModelAnswers, Refuse, Admit
<1>3. CASE ToolBegins \/ ToolEnds \/ After \/ TestsBegin \/ TestsRaise
  BY <1>3 DEF ToolBegins, ToolEnds, After, TestsBegin, TestsRaise
<1>4. ASSUME NEW ok, TestsEnd(ok) \/ RunTests(ok) PROVE LateInv'
  BY <1>4 DEF TestsEnd, RunTests
<1>5. CASE UNCHANGED vars
  BY <1>5 DEF vars
<1> QED
  BY <1>1, <1>2, <1>3, <1>4, <1>5 DEF Next, OtherStep, PytestReturns

LEMMA PermStep == ASSUME LimitAssumption, IInv, [Next]_vars PROVE PermInv'
<1> USE DEF IInv, PermInv, Role, Goto, NextRound, agent, history
<1>1. CASE Enter \/ SetToken \/ Top \/ Ask \/ Finish \/ Check \/ ModelRaises
  BY <1>1 DEF Enter, SetToken, Top, Ask, Finish, Check, ModelRaises
<1>2. ASSUME NEW p, Admit(p) PROVE PermInv'
  BY <1>2, RolesFit DEF Admit, Runnable, Permitted, RoleAllows, ContractsFit
<1>3. ASSUME NEW a, NEW p, ModelAnswers(a) \/ Refuse(p) PROVE PermInv'
  BY <1>3 DEF ModelAnswers, Refuse
<1>4. CASE ToolBegins \/ ToolEnds \/ After \/ TestsBegin \/ TestsRaise
  BY <1>4 DEF ToolBegins, ToolEnds, After, TestsBegin, TestsRaise
<1>5. ASSUME NEW ok, TestsEnd(ok) \/ RunTests(ok) PROVE PermInv'
  BY <1>5 DEF TestsEnd, RunTests
<1>6. CASE UNCHANGED vars
  BY <1>6 DEF vars
<1> QED
  BY <1>1, <1>2, <1>3, <1>4, <1>5, <1>6 DEF Next, OtherStep, PytestReturns

LEMMA StepHolds == ASSUME LimitAssumption, IInv, [Next]_vars PROVE IInv'
  BY TypeStep, BudgetStep, LateStep, PermStep DEF IInv

\* What the invariant says of the three promises.
LEMMA PromisesHold ==
  ASSUME LimitAssumption, IInv
  PROVE  PermissionsNeverEscalate /\ CallBudget /\ AtMostOneLateStep
<1>1. PermissionsNeverEscalate
  BY DEF IInv, PermInv, PermissionsNeverEscalate
<1>2. AtMostOneLateStep
  BY DEF IInv, LateInv, AtMostOneLateStep
<1>3. CallBudget
  <2>1. /\ heal \in Nat /\ heal <= MaxHeal /\ i \in Nat /\ i <= MaxIters /\ calls \in Nat
        /\ heal * MaxIters \in Nat /\ heal * MaxIters <= MaxHeal * MaxIters
        /\ MaxHeal * MaxIters \in Nat
    BY Products DEF LimitAssumption, IInv, TypeOK, CallCap
  <2>2. calls <= heal * MaxIters
    BY <2>1 DEF LimitAssumption, IInv, TypeOK, BudgetInv, Pc
  <2> QED
    BY <2>1, <2>2 DEF CallBudget
<1> QED
  BY <1>1, <1>2, <1>3

(* The inductive invariant, with the limits of iterations and attempts.    *)
THEOREM Invariant == ASSUME LimitAssumption PROVE Spec => []IInv
  BY InitHolds, StepHolds, PTL DEF Spec

(* The types.                                                              *)
THEOREM TypeCorrect == ASSUME LimitAssumption PROVE Spec => []TypeOK
<1>1. IInv => TypeOK
  BY DEF IInv
<1> QED
  BY Invariant, <1>1, PTL
=============================================================================
