------------------------------- MODULE Router -------------------------------
(***************************************************************************)
(* models/router.py: the choice of a provider, with the health checks of   *)
(* models/openai_compat.py. choose() asks one provider after another, each *)
(* by a request to its server; servers come and go between two requests.   *)
(* A Runtime has a router of its own and calls it from one thread.         *)
(***************************************************************************)
EXTENDS Naturals, Sequences, SequencesExt

Large == {"qwen3-coder", "devstral-small-2507", "cloud"}
Need  == {"coding", "reasoning", "long_context", "fast_response", "tool_calling", "other"}

VARIABLES
  configured,  \* providers with a URL; the stub is always there
  up,          \* servers that answer at the moment
  available,   \* providers whose info.available is set
  loaded,      \* _loaded: a provider or "none"
  need, order, \* the running choose(): its argument, what is left of its ranking
  pc,          \* "idle", "choosing", "chosen", "asking"
  choice,      \* the provider chosen last
  handed,      \* history: every provider chosen, but for the stub
  steady       \* history: servers that answered all along the running choose()

vars == <<configured, up, available, loaded, need, order, pc, choice, handed, steady>>

\* ranking.get(need, ["stub"])
Ranking(n) ==
  CASE n \in {"coding", "long_context", "tool_calling"} ->
         <<"qwen3-coder", "devstral-small-2507", "cloud", "stub">>
    [] n = "reasoning" -> <<"qwen3-coder", "devstral-small-2507", "stub", "cloud">>
    [] n = "fast_response" -> <<"stub", "cloud">>
    [] OTHER -> <<"stub">>

Init ==
  /\ configured \in SUBSET Large /\ up \in SUBSET configured
  /\ available = {} /\ loaded = "none"
  /\ need = "other" /\ order = << >> /\ pc = "idle" /\ choice = "none"
  /\ handed = {} /\ steady = {}

ServerChanges(p) ==
  /\ p \in configured
  /\ up' = IF p \in up THEN up \ {p} ELSE up \cup {p}
  /\ steady' = steady \ {p}
  /\ UNCHANGED <<configured, available, loaded, need, order, pc, choice, handed>>

\* health(): one request; every outcome is recorded in info.available.
Health(p) == available' = IF p \in up THEN available \cup {p} ELSE available \ {p}

\* health_all() and available(), one provider at a time.
Refresh(p) ==
  /\ pc \in {"idle", "chosen"} /\ p \in configured
  /\ Health(p)
  /\ UNCHANGED <<configured, up, loaded, need, order, pc, choice, handed, steady>>

Choose(n) ==
  /\ pc \in {"idle", "chosen"}
  /\ need' = n /\ order' = Ranking(n) /\ pc' = "choosing"
  /\ steady' = up
  /\ UNCHANGED <<configured, up, available, loaded, choice, handed>>

Skip == order' = Tail(order) /\ UNCHANGED <<loaded, pc, choice, handed>>

Hand(p) ==
  /\ choice' = p /\ pc' = "chosen" /\ order' = << >>
  /\ handed' = handed \cup ({p} \ {"stub"})

Candidate == pc = "choosing" /\ order # << >> /\ UNCHANGED <<configured, up, need, steady>>

NotConfigured ==
  /\ Candidate /\ Head(order) \notin configured \cup {"stub"}
  /\ Skip /\ UNCHANGED available

TakeStub ==
  /\ Candidate /\ Head(order) = "stub"
  /\ Hand("stub") /\ UNCHANGED <<available, loaded>>

\* mutant: an outage is remembered as what is loaded.
NotHealthyLoads ==
  /\ Candidate /\ Head(order) \in configured \ up
  /\ Health(Head(order)) /\ order' = Tail(order)
  /\ loaded' = Head(order) /\ UNCHANGED <<pc, choice, handed>>

NotHealthy ==
  /\ Candidate /\ Head(order) \in configured \ up
  /\ Health(Head(order)) /\ Skip

OtherLoaded ==
  /\ Candidate /\ Head(order) \in configured \cap up
  /\ loaded \notin {"none", Head(order)}
  /\ Health(Head(order)) /\ Skip

Load ==
  /\ Candidate /\ Head(order) \in configured \cap up
  /\ loaded \in {"none", Head(order)}
  /\ Health(Head(order))
  /\ loaded' = Head(order) /\ Hand(Head(order))

\* complete(): asks for the health again only if the last answer was no; then
\* the request itself is made, and may fail.
Complete ==
  /\ pc = "chosen" /\ choice \in configured
  /\ IF choice \in available THEN UNCHANGED available ELSE Health(choice)
  /\ pc' = IF choice \in available' THEN "asking" ELSE "chosen"
  /\ UNCHANGED <<configured, up, loaded, need, order, choice, handed, steady>>

Request ==
  /\ pc = "asking" /\ pc' = "chosen"
  /\ UNCHANGED <<configured, up, available, loaded, need, order, choice, handed, steady>>

Next ==
  \/ \E p \in Large : ServerChanges(p) \/ Refresh(p)
  \/ \E n \in Need : Choose(n)
  \/ NotConfigured \/ TakeStub \/ NotHealthy \/ OtherLoaded \/ Load
  \/ Complete \/ Request

Spec == Init /\ [][Next]_vars
-----------------------------------------------------------------------------
(* Properties.                                                             *)

(* Types.                                                                  *)
TypeOK ==
  /\ configured \in SUBSET Large /\ up \subseteq configured /\ available \subseteq configured
  /\ loaded \in Large \cup {"none"} /\ need \in Need
  /\ order \in Seq(Large \cup {"stub"})
  /\ pc \in {"idle", "choosing", "chosen", "asking"}
  /\ choice \in Large \cup {"none", "stub"}
  /\ handed \subseteq Large /\ steady \subseteq up

(* "Never load two giant models" (router.py:1): over all calls, whatever   *)
(* they ask for and whichever servers come and go, at most one provider    *)
(* other than the stub is ever handed out. It is also never replaced: if   *)
(* its server dies for good the stub answers, although others are healthy. *)
OneLargeModel == \A p, q \in handed : p = q

\* The providers named before the stub in the ranking.
StubAt(n)     == SelectInSeq(Ranking(n), LAMBDA p : p = "stub")
BeforeStub(n) == {Ranking(n)[k] : k \in 1 .. StubAt(n) - 1}

(* Of those ranked before the stub, nobody is overlooked: if the stub is   *)
(* chosen although one of them answered during the whole call, another one *)
(* is loaded, and that one did serve a call before. Nothing is said of     *)
(* those ranked after it, which are never asked: see StubIsLastResort.     *)
NoneOverlooked ==
  (pc = "chosen" /\ choice = "stub") =>
    \A p \in BeforeStub(need) \cap configured \cap steady :
      loaded # p /\ loaded \in handed

(* "Cloud is never preferred for reasoning unless it is the only           *)
(* configured capable provider. [...] Stub is always last-resort."         *)
(* (router.py:73-74): the cloud is used where nothing else is configured   *)
(* and it answers during the whole call. The code names it after the stub. *)
StubIsLastResort ==
  pc = "chosen" /\ need = "reasoning" /\ configured = {"cloud"} /\ "cloud" \in steady
    => choice # "stub"
=============================================================================
