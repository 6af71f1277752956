------------------------------ MODULE MCBackground ------------------------------
(* A small instance of Background for TLC. *)
EXTENDS Background

CONSTANTS r1, r2, p1, p2, k1

\* Two parents with the same business key compete for it.
SharedKey == [p \in Parent |-> k1]
================================================================================
