----------------------------- MODULE MCJobDelivery -----------------------------
(* Small instances of JobDelivery for TLC. *)
EXTENDS JobDelivery

CONSTANTS i1, s1, w1, w2, r1, r2

OneInstance == {i1}
OneStep == {s1}
Retries == [s \in Step |-> 1]
================================================================================
