------------------------------ MODULE MCParts ------------------------------
(***************************************************************************)
(* The values of the constants of Parts.                                   *)
(***************************************************************************)
EXTENDS Parts

\* Every role of the table, and a name that is none.
AllRoles == {"architect", "researcher", "coder", "debugger", "tester", "security", "docs",
             "planner"}

ThreeFiles == <<"a.py", "b.py", "c.py">>
TwoSuites  == <<"test_a.py", "test_b.py">>

\* Where p + q, p - q and r are apart, and where a divisor is zero and p + q = p - q;
\* 103 * 1 // 100 is 1 there.
SomePoints == {<<2, 3, 5>>, <<3, 0, 1>>}
=============================================================================
