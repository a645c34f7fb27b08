------------------------------- MODULE Synth -------------------------------
(***************************************************************************)
(* models/synth.py: the search for a return expression that satisfies the  *)
(* asserts found in the tests, and what becomes of one function when the   *)
(* coder applies the search to its own result again (mock_coder.py:103).   *)
(* The functions of a file are searched one by one and independently, so   *)
(* one is enough. It has two or three parameters. Values are exact         *)
(* fractions; True and False are 1 and 0, as in Python.                    *)
(***************************************************************************)
EXTENDS Integers, Sequences, SequencesExt

CONSTANTS
  Points,      \* argument triples that tests may use
  MaxRewrites  \* bound: applications of a repair to the previous one

BINOPS == <<"+", "-", "*", "//", "/", "%">>
CMPOPS == <<">", ">=", "<", "<=", "==", "!=">>

\* How an unused parameter u is worked into a text, in this order:
\* (text) * (100 - u) // 100, text - u, text + u, text * u, (text) * (100 + u) // 100.
HOWS == <<"less", "-", "+", "*", "more">>

(* An expression is a core and what was worked into it. The core is        *)
(* p op b (bin, cmp), a constant op (bool), not p, or p alone (bare).      *)
Expr(form, op, b, exts) == [form |-> form, op |-> op, b |-> b, exts |-> exts]
Base ==
  {Expr("bin", BINOPS[n], 2, << >>) : n \in 1 .. 6} \cup {Expr("cmp", CMPOPS[n], 2, << >>) : n \in 1 .. 6}
    \cup {Expr("bool", v, 0, << >>) : v \in {"True", "False"}}
    \cup {Expr("not", "", 0, << >>), Expr("bare", "", 0, << >>)}

VARIABLES
  truth,    \* what the function should compute
  tests,    \* the asserts about it
  params,   \* its parameters, by number
  fn,       \* the expression now
  dressed,  \* has the text a docstring, defaults or annotations
  trail,    \* history: the expressions so far
  done      \* the last search found nothing

vars == <<truth, tests, params, fn, dressed, trail, done>>
-----------------------------------------------------------------------------
(* The value of an expression at a point; Error stands for an exception.   *)

Error       == << >>
Int1(n)     == <<n, 1>>
Truth(b)    == Int1(IF b THEN 1 ELSE 0)
Plus(v, w)  == <<v[1] * w[2] + w[1] * v[2], v[2] * w[2]>>
Same(v, w)  == v # Error /\ w # Error /\ v[1] * w[2] = w[1] * v[2]

BinValue(op, a, b) ==
  CASE op = "*" -> Int1(a * b) [] op = "//" -> Int1(a \div b)
    [] op = "/" -> <<a, b>> [] op = "%" -> Int1(a % b)

CmpValue(op, v, w) ==
  LET a == v[1] * w[2]  b == w[1] * v[2]
  IN  CASE op = ">" -> Truth(a > b) [] op = ">=" -> Truth(a >= b)
        [] op = "<" -> Truth(a < b) [] op = "<=" -> Truth(a <= b)
        [] op = "==" -> Truth(a = b) [] op = "!=" -> Truth(a # b)

(* Candidates are put together as text, so what follows binds to the end   *)
(* of what is there. A text reads: not, if neg; left cmp, if there is one; *)
(* then a sum with its last term apart.                                    *)
Term(v) == [neg |-> FALSE, cmp |-> "", left |-> Int1(0), sum |-> Int1(0), last |-> v]

Core(e, x) ==
  LET a == x[1]  b == x[e.b]
  IN  CASE e.form = "bin" /\ e.op = "+" -> [Term(Int1(b)) EXCEPT !.sum = Int1(a)]
        [] e.form = "bin" /\ e.op = "-" -> [Term(Int1(-b)) EXCEPT !.sum = Int1(a)]
        [] e.form = "bin" /\ e.op \notin {"+", "-"} -> Term(BinValue(e.op, a, b))
        [] e.form = "cmp" -> [Term(Int1(b)) EXCEPT !.cmp = e.op, !.left = Int1(a)]
        [] e.form = "bool" -> Term(Truth(e.op = "True"))
        [] e.form = "not" -> [Term(Int1(a)) EXCEPT !.neg = TRUE]
        [] e.form = "bare" -> Term(Int1(a))

Total(s) ==
  LET v == Plus(s.sum, s.last)
      c == IF s.cmp = "" THEN v ELSE CmpValue(s.cmp, s.left, v)
  IN  IF s.neg THEN Truth(c[1] = 0) ELSE c

Percent(v, m) == Int1((v[1] * m) \div (100 * v[2]))

WorkedIn(s, how, u) ==
  CASE how = "less" -> Term(Percent(Total(s), 100 - u))
    [] how = "more" -> Term(Percent(Total(s), 100 + u))
    [] how = "-" -> [s EXCEPT !.sum = Plus(s.sum, s.last), !.last = Int1(-u)]
    [] how = "+" -> [s EXCEPT !.sum = Plus(s.sum, s.last), !.last = Int1(u)]
    [] how = "*" -> [s EXCEPT !.last = <<s.last[1] * u, s.last[2]>>]

Value(e, x) ==
  IF e.form = "bin" /\ e.op \in {"//", "/", "%"} /\ x[e.b] = 0 THEN Error
  ELSE Total(FoldLeft(LAMBDA s, w : WorkedIn(s, w.how, x[w.by]), Core(e, x), e.exts))

\* Is all of it inside parentheses, with a percentage taken.
Wrapped(e) == \E n \in DOMAIN e.exts : e.exts[n].how \in {"less", "more"}
IsBool(e)  == (e.form \in {"cmp", "not"} /\ ~Wrapped(e)) \/ (e.form = "bool" /\ e.exts = << >>)
-----------------------------------------------------------------------------
(* The asserts: f(..) == v (eq), != v (ne), is v (is), is not v (isnot),   *)
(* one that compares something else than a call with a constant (unseen),  *)
(* and one that names its arguments (keyword).                             *)

\* What pytest makes of an assert; v is what the truth yields, or t.not.
Passes(e, t) ==
  LET v == Value(e, t.x)
  IN  /\ v # Error
      /\ CASE t.kind \in {"eq", "unseen", "keyword"} -> Same(v, Value(truth, t.x))
           [] t.kind = "is" -> Same(v, Value(truth, t.x)) /\ IsBool(e)
           [] t.kind = "ne" -> ~Same(v, Int1(t.not))
           [] t.kind = "isnot" -> ~(Same(v, Int1(t.not)) /\ IsBool(e))

\* extract_oracles: "is" is read as ==. The names of arguments are lost with
\* their values, so that every call is one with too few.
Oracles == {t \in tests : t.kind # "unseen"}

\* mutant: an exception counts as a value different from the one refused.
SatisfiesRaising(e) ==
  \A t \in Oracles :
    CASE t.kind \in {"eq", "is"} -> Same(Value(e, t.x), Value(truth, t.x))
      [] t.kind \in {"ne", "isnot"} -> ~Same(Value(e, t.x), Int1(t.not))
      [] t.kind = "keyword" -> FALSE

\* _satisfies
Satisfies(e) ==
  \A t \in Oracles :
    CASE t.kind \in {"eq", "is"} -> Same(Value(e, t.x), Value(truth, t.x))
      [] t.kind \in {"ne", "isnot"} -> Value(e, t.x) # Error /\ ~Same(Value(e, t.x), Int1(t.not))
      [] t.kind = "keyword" -> FALSE
-----------------------------------------------------------------------------
(* _candidates, without the first: that is the text as it is, which        *)
(* _repair_fn never returns.                                               *)

\* The same text may come about in two ways: p - u is also a core.
Normal(e) ==
  IF e.form = "bare" /\ e.exts # << >> /\ Head(e.exts).how \in {"-", "+", "*"}
  THEN Expr("bin", Head(e.exts).how, Head(e.exts).by, Tail(e.exts))
  ELSE e

\* By the shape of the whole: once something was worked into a sum, its operands
\* are no longer two names, but a comparison and a negation stay what they are.
Exchanged(e) ==
  CASE e.form = "bin" /\ e.exts = << >> -> [n \in 1 .. 6 |-> [e EXCEPT !.op = BINOPS[n]]]
    [] e.form = "cmp" /\ ~Wrapped(e) -> [n \in 1 .. 6 |-> [e EXCEPT !.op = CMPOPS[n]]]
    [] e.form = "not" /\ ~Wrapped(e) -> <<Normal([e EXCEPT !.form = "bare"])>>
    [] e.form = "bool" /\ e.exts = << >> -> <<[e EXCEPT !.op = IF e.op = "True" THEN "False" ELSE "True"]>>
    [] OTHER -> << >>

Used(e) ==
  (IF e.form = "bool" THEN {} ELSE {1}) \cup (IF e.form \in {"bin", "cmp"} THEN {e.b} ELSE {})
    \cup {e.exts[n].by : n \in DOMAIN e.exts}

\* Every parameter of ps that the expression does not use, in every way.
Extended(e, ps) ==
  LET leftover == SelectSeq(ps, LAMBDA u : u \notin Used(e))
      By(u)    == [n \in 1 .. 5 |-> Normal([e EXCEPT !.exts = Append(@, [how |-> HOWS[n], by |-> u])])]
  IN  FlattenSeq([k \in DOMAIN leftover |-> By(leftover[k])])

Candidates(e) == Exchanged(e) \o Extended(e, params)
Found(e)      == ToSet(Candidates(e))

\* mutant: the text as it is counts as a repair.
DiffersNot(e) == TRUE

\* As text the candidate is new: its header has no defaults and no annotations,
\* its body no docstring.
Differs(e) == dressed \/ e # fn

\* Without any oracle the function is not searched.
Suits(e) == Oracles # {} /\ Satisfies(e) /\ Differs(e)
-----------------------------------------------------------------------------
Equal     == [x : Points, kind : {"eq"}, not : {0}]
PlainTest == Equal \cup [x : Points, kind : {"ne"}, not : {0, 1}]
OddTest   == [x : Points, kind : {"is", "unseen", "keyword"}, not : {0}]
               \cup [x : Points, kind : {"isnot"}, not : {0, 1}]

\* Bound: plain asserts at any points, or an odd one with at most one == beside it.
AssertSets ==
  {T \in SUBSET PlainTest : T # {}} \cup {{t} : t \in OddTest}
    \cup {{t, u} : t \in OddTest, u \in Equal}

\* The tests are right about the truth.
Init ==
  /\ params \in {<<1, 2>>, <<1, 2, 3>>} /\ dressed \in BOOLEAN
  /\ fn \in Base /\ truth \in {fn} \cup Found(fn)
  /\ tests \in {T \in AssertSets :
       /\ \A t, u \in T : t.x = u.x => t = u
       /\ \A t \in T : Passes(truth, t)}
  /\ trail = <<fn>> /\ done = FALSE

\* _repair_fn: the first candidate that will do is written.
Rewrite ==
  /\ ~done /\ Len(trail) <= MaxRewrites
  /\ LET cands == Candidates(fn)
     IN  \E n \in DOMAIN cands :
           /\ Suits(cands[n]) /\ \A m \in 1 .. n - 1 : ~Suits(cands[m])
           /\ fn' = cands[n] /\ trail' = Append(trail, fn')
  /\ dressed' = FALSE
  /\ UNCHANGED <<truth, tests, params, done>>

GiveUp ==
  /\ ~done /\ \A e \in Found(fn) : ~Suits(e)
  /\ done' = TRUE
  /\ UNCHANGED <<truth, tests, params, fn, dressed, trail>>

Next == Rewrite \/ GiveUp

Spec == Init /\ [][Next]_vars
-----------------------------------------------------------------------------
(* Properties.                                                             *)

\* Of all that the search can come to, from the text at hand or from the truth,
\* the asserts single out the truth.
Determined ==
  /\ Oracles # {} /\ Satisfies(truth)
  /\ \A e \in {trail[1]} \cup Found(trail[1]) \cup Found(truth) : Satisfies(e) => e = truth

(* When the tests determine the function, the search ends with it, after   *)
(* one rewriting at most.                                                  *)
DeterminedIsFound == (done /\ fn # truth) \/ Len(trail) > 2 => ~Determined

(* Otherwise rewriting a function again and again (the coder does, it      *)
(* never asks whether the text already satisfies the tests) ends, or       *)
(* alternates between two texts for ever, after five texts at most: three  *)
(* parameters worked in, or one and then two more operators.               *)
EndsOrAlternates == \A n \in 6 .. Len(trail) : trail[n] = trail[n - 2]

(* An assert that passed fails after a rewriting only if it was not read,  *)
(* or read as ==: "is True" is satisfied by 1 and not passed by it         *)
(* (synth.py:45, 72-75).                                                   *)
RightStaysRight ==
  \A t \in tests : Passes(fn, t) /\ ~Passes(fn', t) => t.kind \in {"is", "unseen"}

(* A plain function that is right, and that the tests determine, is not    *)
(* touched.                                                                *)
RightIsNotTouched == (fn = truth /\ ~dressed /\ Determined) => UNCHANGED <<fn, trail>>
=============================================================================
