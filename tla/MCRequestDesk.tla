--------------------------- MODULE MCRequestDesk ---------------------------
(* One request and two requests of the API at a time, for TLC. *)
EXTENDS RequestDesk

CONSTANTS h1, h2

Interchangeable == Permutations(Handlers)
=============================================================================
