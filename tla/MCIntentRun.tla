---------------------------- MODULE MCIntentRun ----------------------------
(* All graphs of up to three actions, and the plans of the compiler, which *)
(* are run with three agents and five changes of the workspace.            *)
EXTENDS IntentRun

Small == {"inspect", "locate", "analyze"}

SmallIntents ==
  UNION {[ids : {S}, deps : [S -> SUBSET Small], fieldsOk : BOOLEAN] :
           S \in SUBSET Small}

AllIntents == SmallIntents \cup {Plan(f, t) : f, t \in BOOLEAN}
=============================================================================
