----------------------------- MODULE MCRuntime -----------------------------
(* Small instances of Runtime for model checking.                          *)
EXTENDS RuntimeLife, Naturals, FiniteSets, TLC

\* Request threads are interchangeable, and so are contents. Not used for liveness.
Symmetry == Permutations(Client) \cup Permutations(Content)

\* Bound: two requests are under way at once at any time, three only while what was
\* hashed and copied is what the origin holds.
ThreeIfUnedited ==
  \/ Cardinality({c \in Client : cpc[c] # "idle"}) < 3
  \/ {base, copied} \subseteq {0, origin}
=============================================================================
