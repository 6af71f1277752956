------------------------------ MODULE MCNodeRunner ------------------------------
(* A small instance of NodeRunner for TLC. *)
EXTENDS NodeRunner

CONSTANTS j1, j2

\* Heartbeats over REST, leases alone over gRPC, and a legacy client with
\* heartbeats off and, wrongly, on.
Configs ==
    {[heartbeat |-> TRUE,  metadata |-> TRUE,  transport |-> "rest"],
     [heartbeat |-> FALSE, metadata |-> TRUE,  transport |-> "grpc"],
     [heartbeat |-> FALSE, metadata |-> FALSE, transport |-> "rest"],
     [heartbeat |-> TRUE,  metadata |-> FALSE, transport |-> "grpc"]}
================================================================================
