--------------------------- MODULE CodeGraphProofs ---------------------------
(***************************************************************************)
(* The code graph, for every set of files and contents: wherever updates   *)
(* are cut short, a graph brought up to date agrees with one built anew.   *)
(***************************************************************************)
EXTENDS CodeGraph, TLAPS

\* Files whose symbols the graph has dropped and not yet found again.
Missing == dropped \cup (IF busy THEN todo \cup Gone ELSE {})

\* The symbols that the hashes promise.
Listed == {<<p, files[p]>> : p \in {q \in Py \ Missing : files[q] \in Good}}

GraphTypes ==
  /\ fs \in [Py -> Content \cup {NoFile}]
  /\ files \in [Py -> Good \cup SyntaxBad \cup {NoFile}]
  /\ imports \in [Py -> Good \cup {NoFile}]
  /\ current \in [Py -> Content \cup {NoFile}]
  /\ tests \subseteq TestFile /\ todo \subseteq Py /\ dropped \subseteq Py
  /\ busy \in BOOLEAN /\ fresh \in BOOLEAN

(* The parts of the graph tell the same of a file as its hash does.        *)
PartsAgree ==
  /\ symbols = SetToBag(Listed)
  /\ tests = {p \in TestFile \cap Py : files[p] # NoFile} \ Missing
  /\ \A p \in Py : files[p] \notin SyntaxBad => imports[p] = files[p]

(* What an update under way still has to do; only a discard runs beside it.*)
UpdateInv ==
  busy =>
    /\ \A p \in Py : fs[p] \in {current[p], NoFile}
    /\ todo \subseteq {p \in Py : current[p] # NoFile /\ files[p] # current[p]}
    /\ \A p \in Py \ (todo \cup Gone) : files[p] = current[p]

(* Nothing is missing that the workspace has, once it is up to date.       *)
FreshInv == fresh => files = fs /\ (busy => current = fs)

IInv == GraphTypes /\ PartsAgree /\ UpdateInv /\ FreshInv
-----------------------------------------------------------------------------
(* The bag of symbols.                                                     *)

LEMMA AddToBag ==
  ASSUME NEW S, NEW e, e \notin S
  PROVE  SetToBag(S) (+) SetToBag({e}) = SetToBag(S \cup {e})
  BY DEF SetToBag, (+)

LEMMA BagWithout ==
  ASSUME NEW S, NEW ps, symbols = SetToBag(S)
  PROVE  SymbolsWithout(ps) = SetToBag({e \in S : e[1] \notin ps})
  BY DEF SetToBag, SymbolsWithout

LEMMA InitHolds == ASSUME ContentAssumption, Init PROVE IInv
<1>1. fs \in [Py -> Good \cup SyntaxBad \cup {NoFile}] /\ NoFile \notin Good
  BY DEF Init, ContentAssumption, Content
<1>2. Missing = {} /\ IndexedTests(fs) = {p \in TestFile \cap Py : fs[p] # NoFile}
  BY <1>1 DEF Init, Missing, IndexedTests, Present
<1>3. Listed = {<<p, fs[p]>> : p \in {q \in Py : fs[q] \in Good}}
  BY <1>2 DEF Init, Listed
<1>4. GraphTypes
  BY <1>1, <1>2 DEF Init, GraphTypes, IndexedImports, Content
<1>5. PartsAgree
  BY <1>1, <1>2, <1>3 DEF Init, PartsAgree, IndexedSymbols, IndexedImports
<1> QED
  BY <1>4, <1>5 DEF Init, IInv, UpdateInv, FreshInv
-----------------------------------------------------------------------------
(* Between updates.                                                        *)

LEMMA EditKeeps ==
  ASSUME IInv, NEW p \in Py, NEW c \in Content \cup {NoFile}, Edit(p, c) \/ Discard
  PROVE  IInv'
<1>1. UNCHANGED <<files, symbols, imports, tests, current, todo, busy, dropped>> /\ ~fresh'
  BY DEF Edit, Discard, graph
<1>2. GraphTypes'
  BY <1>1 DEF IInv, GraphTypes, Edit, Discard
<1>3. PartsAgree'
  BY <1>1 DEF IInv, PartsAgree, Listed, Missing, Gone
<1>4. UpdateInv'
  BY <1>1 DEF IInv, GraphTypes, UpdateInv, Gone, Edit, Discard
<1> QED
  BY <1>1, <1>2, <1>3, <1>4 DEF IInv, FreshInv

LEMMA ReindexKeeps == ASSUME ContentAssumption, IInv, Reindex PROVE IInv'
<1>1. /\ fs' = fs /\ files' = fs /\ ~busy' /\ dropped' = {} /\ todo' = todo /\ current' = current
      /\ symbols' = IndexedSymbols(fs) /\ imports' = IndexedImports(fs) /\ tests' = IndexedTests(fs)
      /\ fresh' = TRUE /\ busy' = busy
  BY DEF Reindex
<1>2. fs \in [Py -> Good \cup SyntaxBad \cup {NoFile}] /\ NoFile \notin Good
  BY DEF IInv, GraphTypes, Reindex, Content, ContentAssumption
<1>3. Missing' = {} /\ IndexedTests(fs) = {p \in TestFile \cap Py : fs[p] # NoFile}
  BY <1>1, <1>2 DEF Missing, IndexedTests, Present
<1>4. Listed' = {<<p, fs[p]>> : p \in {q \in Py : fs[q] \in Good}}
  BY <1>1, <1>3 DEF Listed
<1>5. GraphTypes'
  BY <1>1, <1>2, <1>3 DEF IInv, GraphTypes, IndexedImports, Content
<1>6. PartsAgree'
  BY <1>1, <1>2, <1>3, <1>4 DEF PartsAgree, IndexedSymbols, IndexedImports
<1> QED
  BY <1>1, <1>5, <1>6 DEF IInv, UpdateInv, FreshInv
-----------------------------------------------------------------------------
(* An update.                                                              *)

LEMMA ScanKeeps == ASSUME ContentAssumption, IInv, Scan PROVE IInv'
<1> DEFINE stale == Changed \cup Removed
<1>1. /\ UNCHANGED <<fs, files, imports, fresh, dropped>> /\ ~busy /\ busy' = TRUE
      /\ current' = fs /\ todo' = Changed /\ tests' = tests \ stale
      /\ symbols' = SymbolsWithout(stale)
  BY DEF Scan
<1>2. Missing = dropped /\ Missing' = dropped \cup stale
  BY <1>1 DEF Missing, Gone, Changed, Removed
<1>3. Listed' = {e \in Listed : e[1] \notin stale}
  BY <1>1, <1>2 DEF Listed
<1>4. GraphTypes'
  BY <1>1 DEF IInv, GraphTypes, Changed
<1>5. PartsAgree'
  <2>1. symbols' = SetToBag(Listed')
    BY <1>1, <1>3, BagWithout DEF IInv, PartsAgree
  <2> QED
    BY <1>1, <1>2, <2>1 DEF IInv, PartsAgree
<1>6. UpdateInv'
  BY <1>1 DEF IInv, GraphTypes, UpdateInv, Gone, Changed, Removed
<1> QED
  BY <1>1, <1>4, <1>5, <1>6 DEF IInv, FreshInv

LEMMA ParseKeeps == ASSUME ContentAssumption, IInv, NEW p \in Py, Parse(p) PROVE IInv'
<1>1. /\ UNCHANGED <<fs, current, busy, fresh>> /\ busy /\ p \in todo
      /\ files' = [files EXCEPT ![p] = current[p]]
      /\ tests' = tests \cup ({p} \cap TestFile)
      /\ todo' = todo \ {p} /\ dropped' = dropped \ {p}
  BY DEF Parse
<1>2. /\ fs[p] = current[p] /\ current[p] \in Good \cup SyntaxBad /\ NoFile \notin Content
      /\ files[p] # current[p] /\ current[p] # NoFile /\ p \in Missing
  BY <1>1 DEF IInv, UpdateInv, Parse, Content, ContentAssumption, Missing
<1>3. /\ files'[p] = current[p] /\ \A q \in Py \ {p} : files'[q] = files[q]
      /\ Gone' = Gone /\ p \notin Gone
  BY <1>1, <1>2 DEF IInv, GraphTypes, Gone
<1>4. Missing' = Missing \ {p}
  BY <1>1, <1>3 DEF Missing
<1>5. IF fs[p] \in Good THEN <<p, fs[p]>> \notin Listed /\ Listed' = Listed \cup {<<p, fs[p]>>}
                        ELSE Listed' = Listed
  BY <1>2, <1>3, <1>4 DEF Listed
<1>6. GraphTypes'
  BY <1>1, <1>2 DEF IInv, GraphTypes, Parse
<1>7. symbols' = SetToBag(Listed')
  BY <1>5, AddToBag DEF IInv, PartsAgree, Parse
<1>8. tests' = {q \in TestFile \cap Py : files'[q] # NoFile} \ Missing'
  BY <1>1, <1>2, <1>3, <1>4 DEF IInv, PartsAgree
<1>9. \A q \in Py : files'[q] \notin SyntaxBad => imports'[q] = files'[q]
  BY <1>2, <1>3 DEF IInv, GraphTypes, PartsAgree, Parse
<1>10. UpdateInv'
  BY <1>1, <1>3 DEF IInv, UpdateInv
<1>11. ~fresh
  BY <1>1, <1>2 DEF IInv, FreshInv
<1> QED
  BY <1>1, <1>6, <1>7, <1>8, <1>9, <1>10, <1>11 DEF IInv, PartsAgree, FreshInv

LEMMA RaiseKeeps == ASSUME IInv, NEW p \in Py, Raise(p) PROVE IInv'
<1>1. /\ UNCHANGED <<fs, files, symbols, imports, tests, current, fresh>> /\ busy
      /\ busy' = FALSE /\ todo' = {} /\ dropped' = dropped \cup todo \cup Gone /\ p \in todo
  BY DEF Raise, graph
<1>2. Missing' = Missing /\ Listed' = Listed
  BY <1>1 DEF Missing, Listed
<1>3. GraphTypes'
  BY <1>1 DEF IInv, GraphTypes, Gone
<1>4. PartsAgree'
  BY <1>1, <1>2 DEF IInv, PartsAgree
<1> QED
  BY <1>1, <1>3, <1>4 DEF IInv, UpdateInv, FreshInv

LEMMA DropKeeps == ASSUME ContentAssumption, IInv, Drop PROVE IInv'
<1>1. /\ UNCHANGED <<fs, symbols, tests, current, todo>> /\ busy /\ todo = {} /\ busy' = FALSE
      /\ files' = [q \in Py |-> IF q \in Gone THEN NoFile ELSE files[q]]
      /\ imports' = [q \in Py |-> IF q \in Gone THEN NoFile ELSE imports[q]]
      /\ fresh' = (fs = current) /\ dropped' = dropped \ Gone
  BY DEF Drop
<1>2. Missing = dropped \cup Gone /\ Missing' = dropped \ Gone /\ NoFile \notin Good
  BY <1>1 DEF Missing, ContentAssumption, Content
<1>3. Listed' = Listed
  BY <1>1, <1>2 DEF Listed
<1>4. GraphTypes'
  BY <1>1 DEF IInv, GraphTypes
<1>5. PartsAgree'
  BY <1>1, <1>2, <1>3 DEF IInv, GraphTypes, PartsAgree
<1>6. files' = current
  BY <1>1 DEF IInv, GraphTypes, UpdateInv, Gone
<1> QED
  BY <1>1, <1>4, <1>5, <1>6 DEF IInv, UpdateInv, FreshInv
-----------------------------------------------------------------------------
LEMMA StepHolds == ASSUME ContentAssumption, IInv, [Next]_vars PROVE IInv'
<1>1. CASE UNCHANGED vars
  BY <1>1 DEF vars, graph, IInv, GraphTypes, PartsAgree, UpdateInv, FreshInv, Listed, Missing, Gone
<1>2. CASE Discard
  <2>1. PICK p \in Py : TRUE
    BY <1>2 DEF Discard, Present, IInv, GraphTypes
  <2> QED
    BY <1>2, EditKeeps
<1> QED
  BY <1>1, <1>2, EditKeeps, ReindexKeeps, ScanKeeps, ParseKeeps, RaiseKeeps, DropKeeps DEF Next

(* Wherever an update is cut short: what the graph lacks is what it has    *)
(* dropped, and the rest of it says of a file what its hash says.          *)
THEOREM Invariant == ASSUME ContentAssumption PROVE Spec => []IInv
<1>1. Init => IInv
  BY InitHolds
<1>2. IInv /\ [Next]_vars => IInv'
  BY StepHolds
<1> QED
  BY <1>1, <1>2, PTL DEF Spec

(* The types; a file's symbols are listed once, from one content.          *)
THEOREM TypeCorrect == ASSUME ContentAssumption PROVE Spec => []TypeOK
<1>1. IInv => TypeOK
  BY DEF IInv, GraphTypes, PartsAgree, TypeOK, Listed, SetToBag, Content
<1> QED
  BY Invariant, <1>1, PTL

LEMMA UpToDate == ASSUME ContentAssumption, IInv PROVE AgreesWithIndex
<1> SUFFICES ASSUME fresh PROVE AgreesWithIndex
  BY DEF AgreesWithIndex
<1>1. files = fs /\ Missing = dropped
  <2>1. busy => todo = {} /\ Gone = {}
    BY DEF IInv, FreshInv, UpdateInv, Gone
  <2> QED
    BY <2>1 DEF IInv, FreshInv, Missing
<1>2. DOMAIN fs = Py
  BY DEF IInv, GraphTypes
<1>3. \A p \in Py : fs[p] \notin SyntaxBad => imports[p] = IndexedImports(fs)[p]
  BY <1>1 DEF IInv, GraphTypes, PartsAgree, IndexedImports
<1>4. SymbolsOf(symbols, Py \ dropped) = SymbolsOf(IndexedSymbols(fs), Py \ dropped)
  <2>1. {e \in DOMAIN symbols : e[1] \in Py \ dropped}
          = {e \in DOMAIN IndexedSymbols(fs) : e[1] \in Py \ dropped}
    BY <1>1 DEF IInv, PartsAgree, IndexedSymbols, Listed, SetToBag
  <2>2. /\ \A e \in DOMAIN symbols : symbols[e] = 1
        /\ \A e \in DOMAIN IndexedSymbols(fs) : IndexedSymbols(fs)[e] = 1
    BY DEF IInv, PartsAgree, IndexedSymbols, SetToBag
  <2> QED
    BY <2>1, <2>2 DEF SymbolsOf
<1>5. tests \ dropped = IndexedTests(fs) \ dropped
  BY <1>1, <1>2 DEF IInv, PartsAgree, IndexedTests, Present
<1> QED
  BY <1>1, <1>3, <1>4, <1>5 DEF AgreesWithIndex

(* incremental makes of the graph what index_repo would, but for files     *)
(* whose content came back after an update that was cut short.             *)
THEOREM UpdatesAgree == ASSUME ContentAssumption PROVE Spec => []AgreesWithIndex
<1>1. IInv => AgreesWithIndex
  BY UpToDate
<1> QED
  BY Invariant, <1>1, PTL
=============================================================================
