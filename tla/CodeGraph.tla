----------------------------- MODULE CodeGraph -----------------------------
(***************************************************************************)
(* The code graph of codegraph/index.py: index_repo builds it, and after   *)
(* every agent incremental brings the same object up to date, file by      *)
(* file. A file that cannot be read or parsed may stop it half way, and    *)
(* the next attempt goes on with what is left of the graph. Other than     *)
(* Python files are only hashed by index_repo and never updated; they are  *)
(* left out.                                                               *)
(***************************************************************************)
EXTENDS Bags

CONSTANTS
  Py,          \* paths of Python files
  TestFile,    \* those of Py with "test" in their name
  Good,        \* contents that parse
  SyntaxBad,   \* contents on which ast.parse raises SyntaxError
  Fatal,       \* contents on which it raises anything else
  NoFile       \* stands for a path that is not there

Content == Good \cup SyntaxBad \cup Fatal

\* What the composition of the parts assumes of these constants.
ContentAssumption == NoFile \notin Content

VARIABLES
  fs,        \* the workspace: what every path contains
  files,     \* CodeGraph.files: the content that was hashed
  symbols,   \* CodeGraph.symbols: a bag of <<path, content>>, each for all
             \* symbols that one parse has appended
  imports,   \* CodeGraph.imports: the content they were found in
  tests,     \* CodeGraph.tests
  current,   \* hashes that incremental took
  todo,      \* changed files that it has not parsed yet
  busy,      \* incremental is under way
  fresh,     \* history: the graph was completed and fs not changed since
  dropped    \* history: files whose symbols went in an update that was cut
             \* short, and which were neither parsed nor found gone since

graph == <<files, symbols, imports, tests>>
vars  == <<fs, graph, current, todo, busy, fresh, dropped>>

Present(f) == {p \in DOMAIN f : f[p] # NoFile}

\* What index_repo makes of a workspace: the reference for incremental.
IndexedImports(f) == [p \in Py |-> IF f[p] \in Good THEN f[p] ELSE NoFile]
IndexedSymbols(f) == SetToBag({<<p, f[p]>> : p \in {q \in Py : f[q] \in Good}})
IndexedTests(f)   == TestFile \cap Present(f)

Init ==
  /\ fs \in [Py -> Good \cup SyntaxBad \cup {NoFile}]
  /\ files = fs /\ symbols = IndexedSymbols(fs)
  /\ imports = IndexedImports(fs) /\ tests = IndexedTests(fs)
  /\ current = fs /\ todo = {} /\ busy = FALSE /\ fresh = TRUE /\ dropped = {}

\* The agent's tools write, and tests may write or delete, between updates.
Edit(p, c) ==
  /\ ~busy /\ fs[p] # c
  /\ fs' = [fs EXCEPT ![p] = c] /\ fresh' = FALSE
  /\ UNCHANGED <<graph, current, todo, busy, dropped>>

\* A request thread removes the workspace at any time.
Discard ==
  /\ Present(fs) # {}
  /\ fs' = [p \in Py |-> NoFile] /\ fresh' = FALSE
  /\ UNCHANGED <<graph, current, todo, busy, dropped>>

Changed == {p \in Py : fs[p] # NoFile /\ files[p] # fs[p]}
Removed == {p \in Py : fs[p] = NoFile /\ files[p] # NoFile}

SymbolsWithout(ps) ==
  [e \in {d \in DOMAIN symbols : d[1] \notin ps} |-> symbols[e]]

\* mutant: only the symbols of removed files are dropped.
ScanKeepsChanged ==
  /\ ~busy
  /\ busy' = TRUE /\ current' = fs /\ todo' = Changed
  /\ symbols' = SymbolsWithout(Removed)
  /\ tests' = tests \ (Changed \cup Removed)
  /\ UNCHANGED <<fs, files, imports, fresh, dropped>>

\* The hashes, and what they say is out of date goes.
Scan ==
  /\ ~busy
  /\ busy' = TRUE /\ current' = fs /\ todo' = Changed
  /\ symbols' = SymbolsWithout(Changed \cup Removed)
  /\ tests' = tests \ (Changed \cup Removed)
  /\ UNCHANGED <<fs, files, imports, fresh, dropped>>

\* _parse_py of a changed file, then its hash. After a SyntaxError it has no
\* symbols and keeps the imports it had.
Parse(p) ==
  /\ busy /\ p \in todo /\ fs[p] \in Good \cup SyntaxBad
  /\ IF fs[p] \in Good
     THEN /\ symbols' = symbols (+) SetToBag({<<p, fs[p]>>})
          /\ imports' = [imports EXCEPT ![p] = fs[p]]
     ELSE UNCHANGED <<symbols, imports>>
  /\ files' = [files EXCEPT ![p] = current[p]]
  /\ tests' = tests \cup ({p} \cap TestFile)
  /\ todo' = todo \ {p} /\ dropped' = dropped \ {p}
  /\ UNCHANGED <<fs, current, busy, fresh>>

\* What the scan found removed.
Gone == {p \in Py : current[p] = NoFile /\ files[p] # NoFile}

\* The file has gone or ast.parse fails otherwise: the exception leaves the
\* graph as it is at that point.
Raise(p) ==
  /\ busy /\ p \in todo /\ fs[p] \in Fatal \cup {NoFile}
  /\ busy' = FALSE /\ todo' = {} /\ dropped' = dropped \cup todo \cup Gone
  /\ UNCHANGED <<fs, graph, current, fresh>>

\* Their hashes and imports go last.
Drop ==
  /\ busy /\ todo = {}
  /\ files' = [p \in Py |-> IF p \in Gone THEN NoFile ELSE files[p]]
  /\ imports' = [p \in Py |-> IF p \in Gone THEN NoFile ELSE imports[p]]
  /\ busy' = FALSE /\ fresh' = (fs = current) /\ dropped' = dropped \ Gone
  /\ UNCHANGED <<fs, symbols, tests, current, todo>>

\* inspect_repo builds the graph anew, unless a file stops it.
Reindex ==
  /\ ~busy /\ \A p \in Py : fs[p] \notin Fatal
  /\ files' = fs /\ symbols' = IndexedSymbols(fs)
  /\ imports' = IndexedImports(fs) /\ tests' = IndexedTests(fs)
  /\ fresh' = TRUE /\ dropped' = {}
  /\ UNCHANGED <<fs, current, todo, busy>>

Next ==
  \/ \E p \in Py, c \in Content \cup {NoFile} : Edit(p, c)
  \/ Discard \/ Reindex
  \/ Scan \/ Drop
  \/ \E p \in Py : Parse(p) \/ Raise(p)

Spec == Init /\ [][Next]_vars
-----------------------------------------------------------------------------
(* Properties.                                                             *)

(* Types; a file's symbols are listed once, from one content, however      *)
(* often it was parsed and wherever an update was cut short.               *)
TypeOK ==
  /\ fs \in [Py -> Content \cup {NoFile}]
  /\ files \in [Py -> Content \cup {NoFile}]
  /\ DOMAIN symbols \subseteq Py \X Good
  /\ \A d, e \in DOMAIN symbols : d[1] = e[1] => d = e /\ symbols[d] = 1
  /\ imports \in [Py -> Good \cup {NoFile}]
  /\ tests \subseteq TestFile /\ todo \subseteq Py

\* The part of the graph's symbols that is about some files.
SymbolsOf(bag, ps) == {<<e, bag[e]>> : e \in {d \in DOMAIN bag : d[1] \in ps}}

(* A completed update leaves the hashes, symbols and tests that index_repo *)
(* would find, for every file but those that an update cut short had       *)
(* dropped and that came back with the very content they had before: their *)
(* hash says that nothing changed. The same holds of the imports, except   *)
(* those of files that do not parse, which incremental keeps from before   *)
(* and index_repo does not know.                                           *)
AgreesWithIndex ==
  fresh =>
    /\ \A p \in Py : fs[p] \notin SyntaxBad => imports[p] = IndexedImports(fs)[p]
    /\ \A p \in Py : files[p] = fs[p]
    /\ SymbolsOf(symbols, Py \ dropped) = SymbolsOf(IndexedSymbols(fs), Py \ dropped)
    /\ tests \ dropped = IndexedTests(fs) \ dropped
=============================================================================
