------------------------------- MODULE MCRaft -------------------------------
(* Instances of Raft for TLC. *)
EXTENDS Raft

CONSTANTS n1, n2, n3

\* Every node lists the whole cluster, itself included, in the same order.
FullCluster == [n \in Node |-> <<n1, n2, n3>>]

\* Two nodes that list each other and themselves.
PairCluster == [n \in Node |-> <<n1, n2>>]
=============================================================================
