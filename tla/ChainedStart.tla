------------------------------ MODULE ChainedStart ------------------------------
(***************************************************************************)
(* What durable chaining promises: a parent that completes asks for a      *)
(* child, and gets one child, never a second one.                          *)
(***************************************************************************)
EXTENDS Naturals

CONSTANT Parent      \* instances whose definition chains to another workflow

VARIABLES
    requested,       \* parents that have completed
    started          \* number of children started for each parent

Init ==
    /\ requested = {}
    /\ started = [p \in Parent |-> 0]

Request(p) ==
    /\ requested' = requested \cup {p}
    /\ UNCHANGED started

StartChild(p) ==
    /\ p \in requested
    /\ started[p] = 0
    /\ started' = [started EXCEPT ![p] = 1]
    /\ UNCHANGED requested

Next == \E p \in Parent : Request(p) \/ StartChild(p)

Spec == Init /\ [][Next]_<<requested, started>>
================================================================================
