------------------------------ MODULE MCKernel ------------------------------
(* Small intents for model checking Kernel.                                *)
EXTENDS Kernel, TLC

CONSTANTS a, b, c

Shape(da, db, dc) == a :> da @@ b :> db @@ c :> dc

\* Two reads side by side (the pool), and a verification on both.
TwoReads ==
  [deps |-> Shape({}, {}, {a, b}),
   kind |-> a :> "read_file" @@ b :> "list_files" @@ c :> "verify"]

\* A destructive task between a plain one and the tests.
DestructiveChain ==
  [deps |-> Shape({}, {a}, {b}),
   kind |-> a :> "generic" @@ b :> "apply_patch" @@ c :> "run_tests"]

\* One read, then a plain and a destructive task that do not depend on it.
MixedBatch ==
  [deps |-> Shape({}, {}, {a, b}),
   kind |-> a :> "read_file" @@ b :> "self_heal" @@ c :> "generic"]

\* Three independent reads for a pool of two workers.
ThreeReads ==
  [deps |-> Shape({}, {}, {}),
   kind |-> a :> "inspect_repo" @@ b :> "search_code" @@ c :> "analyze_deps"]

CoreShapes == {TwoReads, DestructiveChain, MixedBatch}
AllShapes == {TwoReads, DestructiveChain, MixedBatch, ThreeReads}
=============================================================================
