---------------------------- MODULE MCNodeKafkaRunner ----------------------------
(* A small instance of NodeKafkaRunner for TLC. *)
EXTENDS NodeKafkaRunner

CONSTANTS w1, w2

\* Job 1 was published twice, job 2 has an invalid payload, and the last
\* record is malformed.
Records ==
    <<[job |-> 1, kind |-> "job"], [job |-> 1, kind |-> "job"],
      [job |-> 2, kind |-> "invalidPayload"], [job |-> 3, kind |-> "malformed"]>>
================================================================================
