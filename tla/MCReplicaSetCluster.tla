------------------------ MODULE MCReplicaSetCluster -------------------------
(* Instances of ReplicaSetCluster for TLC. *)
EXTENDS ReplicaSetCluster, TLC

\* API workers are interchangeable (safety runs only).
ClientSymmetry == Permutations(Clients)
=============================================================================
