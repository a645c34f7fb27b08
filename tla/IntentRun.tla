----------------------------- MODULE IntentRun -----------------------------
(***************************************************************************)
(* From the request to the verdict: execute has the request compiled,      *)
(* compile_intent validates what _plan made of it, and only what was       *)
(* accepted is run. IntentCheck is the validation, Pipeline the run; the   *)
(* intent is all that they share.                                          *)
(***************************************************************************)
EXTENDS IntentCheck, Pipeline

\* With a request goes its plan; the other intents, one request stands for all.
InitRun ==
  /\ Init /\ PipelineInit
  /\ intent = Plan(fix, test) \/ (~fix /\ ~test)

Compile == Next /\ UNCHANGED pipeline

\* An intent that is no plan is only validated: the run would be another one.
Run ==
  /\ verdict = "accepted" /\ intent = Plan(fix, test)
  /\ PipelineNext
  /\ UNCHANGED vars

NextRun == Compile \/ Run

SpecRun == InitRun /\ [][NextRun]_<<vars, pipeline>>
=============================================================================
