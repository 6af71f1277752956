------------------------------- MODULE MCModeller -------------------------------
(* A small instance of Modeller for TLC. *)
EXTENDS Modeller, MCModellerChecks
================================================================================
