-------------------------- MODULE MCShardedCluster --------------------------
(* Instances of ShardedCluster for TLC. *)
EXTENDS ShardedCluster, TLC

\* API workers are interchangeable (safety runs only).
ClientSymmetry == Permutations(Clients)
=============================================================================
