------------------------------ MODULE EditHistory ------------------------------
(***************************************************************************)
(* What undo and redo promise: one trail of definitions and a position on  *)
(* it.  Recording cuts the trail after the position and extends it; undo   *)
(* and redo only move the position.  At most Limit definitions are kept    *)
(* behind the position, the oldest going first.                            *)
(***************************************************************************)
EXTENDS Integers, Sequences

CONSTANT Limit

VARIABLES trail, at

Init == Len(trail) = 1 /\ at = 1

\* n definitions are recorded by one handler.
Record(n) ==
    LET done == at + n - 1
        kept == SubSeq(trail, IF done > Limit THEN done - Limit + 1 ELSE 1, at)
    IN  /\ Len(trail') = Len(kept) + n
        /\ SubSeq(trail', 1, Len(kept)) = kept
        /\ at' = Len(trail')

Undo == at > 1 /\ at' = at - 1 /\ trail' = trail
Redo == at < Len(trail) /\ at' = at + 1 /\ trail' = trail

\* A new session starts from the definition the last one showed.
Forget == trail' = <<trail[at]>> /\ at' = 1

Next == Record(1) \/ Record(2) \/ Undo \/ Redo \/ Forget

Spec == Init /\ [][Next]_<<trail, at>>
================================================================================
