--------------------------- MODULE ClusterService ---------------------------
(***************************************************************************)
(* What a MongoDB cluster promises to its users, who see the cluster's     *)
(* task status and the shards (of a sharded cluster) or the members (of a  *)
(* replica set) that hold their data: that set changes only while the      *)
(* status announces the change, grows only while the cluster is built or   *)
(* grown, shrinks only while it is shrunk, never becomes empty, and a      *)
(* cluster is reported built only if it serves data.                       *)
(***************************************************************************)
CONSTANT Shards
VARIABLES status, serving
vars == <<status, serving>>

Init == status = "ABSENT" /\ serving = {}

Announce ==
    /\ \/ status = "ABSENT" /\ status' = "BUILDING_INITIAL"
       \/ status = "NONE" /\ status' \in {"GROWING_CLUSTER",
                                          "SHRINKING_CLUSTER"}
    /\ UNCHANGED serving

Serve(S) ==
    /\ status \in {"BUILDING_INITIAL", "GROWING_CLUSTER"}
    /\ serving' = serving \cup S
    /\ UNCHANGED status

Retire(s) ==
    /\ status = "SHRINKING_CLUSTER"
    /\ serving' = serving \ {s}
    /\ serving' # {}
    /\ UNCHANGED status

Settle ==
    /\ status \notin {"ABSENT", "NONE"}
    /\ serving # {}
    /\ status' = "NONE"
    /\ UNCHANGED serving

Next == \/ Announce \/ Settle
        \/ \E S \in SUBSET Shards : Serve(S)
        \/ \E s \in Shards : Retire(s)

Spec == Init /\ [][Next]_vars
=============================================================================
