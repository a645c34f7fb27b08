---------------------------- MODULE PatchEngine ----------------------------
(***************************************************************************)
(* make_replace and apply_patch of patch/engine.py. A patch names the hash *)
(* of the text it replaces. The tool apply_patch (tools/builtin.py) makes  *)
(* and applies a patch in one call; tests make one and apply it later.     *)
(* The files may change under both: by the tests, by a process these left  *)
(* behind, by run_python, or by the discard of a workspace.                *)
(***************************************************************************)
EXTENDS Naturals

CONSTANTS
  File,       \* paths a patch may name
  Outside,    \* those that resolve to a place outside the workspace
  MaxText     \* bound: different texts, up to the ends of their lines

VARIABLES
  text,     \* text[f]: what the file holds
  pc,       \* "idle", "making", "kept", "applying", "comparing", "writing"
  patch,    \* the patch: target, expected hash (0 for ""), content
  raced,    \* history: the target was changed by others after its check
  mine      \* history: the target was not touched since the patch wrote it

vars == <<text, pc, patch, raced, mine>>

\* Reading a file translates the ends of its lines, so the hash is of the
\* body alone; what a patch brings is written as it is.
Text   == [body : 1 .. MaxText, ends : {"lf", "crlf"}]
Absent == [body |-> 0, ends |-> "lf"]

Exists(f)    == text[f] # Absent
sha(f)       == text[f].body
RacesWith(S) == raced' = (raced \/ (pc = "writing" /\ patch.target \in S))
Touches(S)   == RacesWith(S) /\ mine' = (mine /\ patch.target \notin S)

Init ==
  /\ text \in [File -> Text \cup {Absent}]
  /\ pc = "idle" /\ raced = FALSE /\ mine = FALSE
  /\ patch \in [target : File, expected : {0}, content : Text]
-----------------------------------------------------------------------------
(* The others. They may bring back what a file held before.                *)

Change(f, t) ==
  /\ text' = [text EXCEPT ![f] = t]
  /\ Touches({f})
  /\ UNCHANGED <<pc, patch>>

Remove(f) ==
  /\ Exists(f)
  /\ text' = [text EXCEPT ![f] = Absent]
  /\ Touches({f})
  /\ UNCHANGED <<pc, patch>>

\* discard removes everything in the workspace.
Discard ==
  /\ text' = [f \in File |-> IF f \in Outside THEN text[f] ELSE Absent]
  /\ Touches(File \ Outside)
  /\ UNCHANGED <<pc, patch>>

-----------------------------------------------------------------------------
(* make_replace                                                            *)

\* Whether there is a file decides whether it will be read. The content may be
\* any text, also the one that the file has or had.
Make(f, t) ==
  /\ pc = "idle"
  /\ patch' = [target |-> f, expected |-> 0, content |-> t]
  /\ pc' = IF Exists(f) THEN "making" ELSE "kept"
  /\ mine' = FALSE
  /\ UNCHANGED <<text, raced>>

Hash ==
  /\ pc = "making"
  /\ IF Exists(patch.target)
     THEN patch' = [patch EXCEPT !.expected = sha(patch.target)] /\ pc' = "kept"
     ELSE UNCHANGED patch /\ pc' = "idle"
  /\ UNCHANGED <<text, raced, mine>>
-----------------------------------------------------------------------------
(* apply_patch. Whatever is refused is raised; the patch is still there.   *)

\* resolve() and the test of the root.
Apply ==
  /\ pc = "kept"
  /\ pc' = IF patch.target \in Outside THEN "kept" ELSE "applying"
  /\ UNCHANGED <<text, patch, raced, mine>>

Forget ==
  /\ pc = "kept"
  /\ pc' = "idle"
  /\ UNCHANGED <<text, patch, raced, mine>>

\* mutant: a file that is gone is no mismatch.
LookLeniently ==
  /\ pc = "applying"
  /\ pc' = IF Exists(patch.target) THEN "comparing" ELSE "writing"
  /\ raced' = FALSE
  /\ UNCHANGED <<text, patch, mine>>

Look ==
  /\ pc = "applying"
  /\ pc' = IF Exists(patch.target) THEN "comparing"
           ELSE IF patch.expected # 0 THEN "kept" ELSE "writing"
  /\ raced' = FALSE
  /\ UNCHANGED <<text, patch, mine>>

\* The read may also raise: the file has been removed meanwhile.
Compare ==
  /\ pc = "comparing"
  /\ pc' = IF Exists(patch.target) /\ sha(patch.target) = patch.expected THEN "writing" ELSE "kept"
  /\ raced' = FALSE
  /\ UNCHANGED <<text, patch, mine>>

\* mkdir of the parents, and the write: also into a workspace that is gone.
Write ==
  /\ pc = "writing"
  /\ text' = [text EXCEPT ![patch.target] = patch.content]
  /\ mine' = TRUE
  /\ pc' = "kept"
  /\ UNCHANGED <<patch, raced>>

Next ==
  \/ \E f \in File, t \in Text : Change(f, t) \/ Make(f, t)
  \/ \E f \in File : Remove(f)
  \/ Discard \/ Hash \/ Apply \/ Forget \/ Look \/ Compare \/ Write

Spec == Init /\ [][Next]_vars

-----------------------------------------------------------------------------
(* Properties.                                                             *)

(* Nothing outside the workspace is written, although make_replace takes   *)
(* any path. "file changed under us" (patch/engine.py:33): what a patch    *)
(* overwrites reads as what it expects, however long it was kept and       *)
(* whatever was changed, removed, created or put back meanwhile; only a    *)
(* change between the check and the write gets lost. A retry of a patch    *)
(* that has been applied, with nobody else at the file since, is refused,  *)
(* unless it changes no more than the ends of lines. A file that was put   *)
(* back to what the patch expects is patched again.                        *)
WriteIsSafe ==
  Write =>
    /\ patch.target \notin Outside
    /\ sha(patch.target) = patch.expected \/ raced
    /\ mine => patch.content.body = patch.expected
=============================================================================
