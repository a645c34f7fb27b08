--------------------------- MODULE MCEventStream ---------------------------
(* Two clients, one of which may connect late or leave early.              *)
EXTENDS EventStream

CONSTANTS first, second

Streams == {first, second}
=============================================================================
