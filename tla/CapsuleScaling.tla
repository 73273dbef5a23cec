--------------------------- MODULE CapsuleScaling ---------------------------
(* Senlin clusters of Zun capsules: the profile that creates and deletes the *)
(* capsule of a node (capsule.py) and the policy that keeps an Octavia pool  *)
(* in step with the nodes (capsule_loadbalance.py).  Senlin locks a node for *)
(* the duration of an action, so each node does one thing at a time; nodes   *)
(* proceed independently, and Zun and Octavia act on their own.              *)
EXTENDS Naturals, FiniteSets

CONSTANTS
    Nodes,        \* Senlin nodes
    MaxCapsules   \* bound: capsules ever created

ASSUME CapsuleBound == MaxCapsules \in Nat

Capsules == 1 .. MaxCapsules
None == 0

VARIABLES
    zun,      \* zun[k]: status of capsule k
    nCaps,    \* capsules created so far
    pc,       \* pc[n]: where the action on node n is
    status,   \* status[n]: the node's status in Senlin
    cap,      \* cap[n]: capsule_id during do_create, physical_id after it
    member,   \* member[n]: the Octavia member that Senlin recorded for n
    pool,     \* capsules whose address is a member of the pool
    lost,     \* history: capsules whose creation was never answered
    leaked,   \* history: members whose addition was reported as failed
    served    \* history: capsules that were ready once

nodeVars == <<pc, status, cap, member>>
vars == <<zun, nCaps, nodeVars, pool, lost, leaked, served>>

TypeOK ==
    /\ zun \in [Capsules -> {"unused", "creating", "ready", "error", "deleting", "gone"}]
    /\ nCaps \in 0 .. MaxCapsules
    /\ pc \in [Nodes -> {"idle", "post", "wait", "rollback", "rollback_wait",
                         "add", "confirm", "remove", "delete", "delete_wait"}]
    /\ status \in [Nodes -> {"none", "creating", "active", "error", "deleted"}]
    /\ cap \in [Nodes -> Capsules \cup {None}]
    /\ member \in [Nodes -> Capsules \cup {None}]
    /\ pool \subseteq Capsules
    /\ lost \subseteq Capsules
    /\ leaked \subseteq Capsules
    /\ served \subseteq Capsules

Init ==
    /\ zun = [k \in Capsules |-> "unused"]
    /\ nCaps = 0
    /\ pc = [n \in Nodes |-> "idle"]
    /\ status = [n \in Nodes |-> "none"]
    /\ cap = [n \in Nodes |-> None]
    /\ member = [n \in Nodes |-> None]
    /\ pool = {} /\ lost = {} /\ leaked = {} /\ served = {}

Goto(n, p) == pc' = [pc EXCEPT ![n] = p]
Becomes(n, s) == status' = [status EXCEPT ![n] = s]
Holds(n, k) == cap' = [cap EXCEPT ![n] = k]
Absent(k) == k \in Capsules => zun[k] = "gone"

-----------------------------------------------------------------------------
(* do_create                                                                 *)

CreateNode(n) ==
    /\ pc[n] = "idle" /\ status[n] = "none"
    /\ Goto(n, "post") /\ Becomes(n, "creating")
    /\ UNCHANGED <<zun, nCaps, cap, member, pool, lost, leaked, served>>

(* Zun starts the capsule.                                                   *)
NewCapsule ==
    /\ nCaps < MaxCapsules
    /\ nCaps' = nCaps + 1
    /\ zun' = [zun EXCEPT ![nCaps + 1] = "creating"]

PostAccepted(n) ==
    /\ pc[n] = "post"
    /\ NewCapsule
    /\ Holds(n, nCaps + 1)
    /\ Goto(n, "wait")
    /\ UNCHANGED <<status, member, pool, lost, leaked, served>>

(* The request fails or its answer is lost: without a capsule_id there is    *)
(* nothing to roll back.                                                     *)
PostFails(n) ==
    /\ pc[n] = "post"
    /\ \/ UNCHANGED <<zun, nCaps, lost>>
       \/ NewCapsule /\ lost' = lost \cup {nCaps + 1}
    /\ Goto(n, "idle") /\ Becomes(n, "error")
    /\ UNCHANGED <<cap, member, pool, leaked, served>>

(* Mutation: a capsule that disappeared counts as created.                   *)
WaitReadyOrGone(n) ==
    /\ pc[n] = "wait"
    /\ zun[cap[n]] \in {"ready", "gone"}
    /\ Goto(n, "idle") /\ Becomes(n, "active")
    /\ UNCHANGED <<zun, nCaps, cap, member, pool, lost, leaked, served>>

WaitReady(n) ==
    /\ pc[n] = "wait"
    /\ zun[cap[n]] = "ready"
    /\ Goto(n, "idle") /\ Becomes(n, "active")
    /\ UNCHANGED <<zun, nCaps, cap, member, pool, lost, leaked, served>>

(* A failed state, a status that cannot be read, a capsule that disappeared  *)
(* or the deadline.                                                          *)
WaitFails(n) ==
    /\ pc[n] = "wait"
    /\ Goto(n, "rollback")
    /\ UNCHANGED <<zun, nCaps, status, cap, member, pool, lost, leaked, served>>

-----------------------------------------------------------------------------
(* _delete_capsule, called to roll back a creation and by do_delete.         *)

(* Mutation: EResourceCreation without the resource id.                      *)
DeletionRaisesForgetful(n) ==
    /\ Becomes(n, "error")
    /\ Holds(n, IF pc[n] \in {"rollback", "rollback_wait"} THEN None ELSE cap[n])

(* After a rollback do_create raises with the capsule's id, whether or not   *)
(* the rollback succeeded; do_delete raises when the deletion did.           *)
DeletionRaises(n) ==
    /\ Becomes(n, "error")
    /\ UNCHANGED cap

DeletionReturns(n) ==
    \/ pc[n] \in {"rollback", "rollback_wait"} /\ DeletionRaises(n)
    \/ pc[n] \in {"delete", "delete_wait"} /\ Becomes(n, "deleted") /\ Holds(n, None)

(* The request is accepted; there is nothing to delete; it fails and the     *)
(* capsule is gone all the same, which is ignored; or the call raises: no    *)
(* session, or the request fails and the capsule is still there, untouched   *)
(* or on its way out, or cannot be asked for, gone or not.                   *)
DeleteRequest(n) ==
    /\ pc[n] \in {"rollback", "delete"}
    /\ \/ /\ ~Absent(cap[n])
          /\ zun' = [zun EXCEPT ![cap[n]] = "deleting"]
          /\ Goto(n, IF pc[n] = "rollback" THEN "rollback_wait" ELSE "delete_wait")
          /\ UNCHANGED <<status, cap>>
       \/ /\ Absent(cap[n])
          /\ DeletionReturns(n)
          /\ Goto(n, "idle")
          /\ UNCHANGED zun
       \/ /\ ~Absent(cap[n])
          /\ zun' = [zun EXCEPT ![cap[n]] = "gone"]
          /\ DeletionReturns(n)
          /\ Goto(n, "idle")
       \/ /\ cap[n] # None
          /\ \E s \in {zun[cap[n]], "deleting", "gone"} :
                /\ Absent(cap[n]) => s = "gone"
                /\ zun' = [zun EXCEPT ![cap[n]] = s]
          /\ DeletionRaises(n)
          /\ Goto(n, "idle")
    /\ UNCHANGED <<nCaps, member, pool, lost, leaked, served>>

DeleteConfirmed(n) ==
    /\ pc[n] \in {"rollback_wait", "delete_wait"}
    /\ Absent(cap[n])
    /\ DeletionReturns(n)
    /\ Goto(n, "idle")
    /\ UNCHANGED <<zun, nCaps, member, pool, lost, leaked, served>>

(* Mutation: no deadline for the deletion.                                   *)
DeleteNeverTimesOut(n) ==
    /\ pc[n] = "rollback_wait"
    /\ DeletionRaises(n)
    /\ Goto(n, "idle")
    /\ UNCHANGED <<zun, nCaps, member, pool, lost, leaked, served>>

DeleteTimesOut(n) ==
    /\ pc[n] \in {"rollback_wait", "delete_wait"}
    /\ DeletionRaises(n)
    /\ Goto(n, "idle")
    /\ UNCHANGED <<zun, nCaps, member, pool, lost, leaked, served>>

-----------------------------------------------------------------------------
(* The load-balancing policy: after scaling out, and before scaling in.      *)

PostOp(n) ==
    /\ pc[n] = "idle" /\ status[n] = "active" /\ member[n] = None
    /\ Goto(n, "add")
    /\ UNCHANGED <<zun, nCaps, status, cap, member, pool, lost, leaked, served>>

(* No details, no address on the pool's subnet, the load balancer is not     *)
(* ready, or the request fails, which Octavia may have obeyed.               *)
MemberAddFails(n) ==
    /\ pc[n] = "add"
    /\ \/ UNCHANGED <<pool, leaked>>
       \/ /\ ~Absent(cap[n]) /\ cap[n] \notin pool
          /\ pool' = pool \cup {cap[n]}
          /\ leaked' = leaked \cup {cap[n]}
    /\ Goto(n, "idle")
    /\ UNCHANGED <<zun, nCaps, status, cap, member, lost, served>>

MemberCreated(n) ==
    /\ pc[n] = "add"
    /\ ~Absent(cap[n]) /\ cap[n] \notin pool
    /\ pool' = pool \cup {cap[n]}
    /\ Goto(n, "confirm")
    /\ UNCHANGED <<zun, nCaps, status, cap, member, lost, leaked, served>>

(* The load balancer becomes ready again and the member is recorded, or      *)
(* member_add returns None for a member that exists.                         *)
MemberConfirmed(n) ==
    /\ pc[n] = "confirm"
    /\ \/ member' = [member EXCEPT ![n] = cap[n]] /\ UNCHANGED leaked
       \/ leaked' = leaked \cup {cap[n]} /\ UNCHANGED member
    /\ Goto(n, "idle")
    /\ UNCHANGED <<zun, nCaps, status, cap, pool, lost, served>>

(* Deleting a node: its recorded member goes first.                          *)
PreOp(n) ==
    /\ pc[n] = "idle" /\ status[n] \in {"active", "error"}
    /\ Goto(n, IF member[n] = None THEN "delete" ELSE "remove")
    /\ UNCHANGED <<zun, nCaps, status, cap, member, pool, lost, leaked, served>>

MemberRemoved(n) ==
    /\ pc[n] = "remove"
    /\ pool' = pool \ {member[n]}
    /\ member' = [member EXCEPT ![n] = None]
    /\ Goto(n, "delete")
    /\ UNCHANGED <<zun, nCaps, status, cap, lost, leaked, served>>

(* Mutation: the exception is logged and the deletion goes on.               *)
MemberRemoveSwallowed(n) ==
    /\ pc[n] = "remove"
    /\ member' = [member EXCEPT ![n] = None]
    /\ Goto(n, "delete")
    /\ UNCHANGED <<zun, nCaps, status, cap, pool, lost, leaked, served>>

(* An error of the removal stops the action; Octavia may have obeyed.        *)
MemberRemoveFails(n) ==
    /\ pc[n] = "remove"
    /\ pool' \in {pool, pool \ {member[n]}}
    /\ Goto(n, "idle")
    /\ UNCHANGED <<zun, nCaps, status, cap, member, lost, leaked, served>>

-----------------------------------------------------------------------------
(* Zun: capsules become ready, fail, and disappear.                          *)

ZunStep(k) ==
    /\ \/ /\ zun[k] = "creating"
          /\ zun' = [zun EXCEPT ![k] = "ready"]
          /\ served' = served \cup {k}
       \/ /\ zun[k] \in {"creating", "ready", "deleting"}
          /\ zun' = [zun EXCEPT ![k] = "error"]
          /\ UNCHANGED served
       \/ /\ zun[k] \notin {"unused", "gone"}
          /\ zun' = [zun EXCEPT ![k] = "gone"]
          /\ UNCHANGED served
    /\ UNCHANGED <<nCaps, nodeVars, pool, lost, leaked>>

NodeStep(n) ==
    \/ PostAccepted(n) \/ PostFails(n) \/ WaitReady(n) \/ WaitFails(n)
    \/ DeleteRequest(n) \/ DeleteConfirmed(n) \/ DeleteTimesOut(n)
    \/ MemberAddFails(n) \/ MemberCreated(n) \/ MemberConfirmed(n)
    \/ MemberRemoved(n) \/ MemberRemoveFails(n)

Next ==
    \/ \E n \in Nodes : CreateNode(n) \/ PostOp(n) \/ PreOp(n) \/ NodeStep(n)
    \/ \E k \in Capsules : ZunStep(k)

Spec == Init /\ [][Next]_vars

(* Requests have timeouts and waits have deadlines; Zun owes nothing.        *)
FairSpec == Spec /\ \A n \in Nodes : WF_vars(NodeStep(n))

-----------------------------------------------------------------------------
(* No capsule is forgotten: one that exists belongs to a node, also when its *)
(* creation failed and the rollback failed too, or a deletion timed out;     *)
(* except for a creation that was never answered.                            *)
CapsulesTracked ==
    \A k \in Capsules :
        zun[k] \notin {"unused", "gone"} => k \in lost \/ \E n \in Nodes : cap[n] = k

(* A node is active only if its capsule was ready: one that failed or        *)
(* disappeared during _wait_for_state is not taken for it.                   *)
ActiveWasReady ==
    \A n \in Nodes : status[n] = "active" => cap[n] \in served

(* Traffic stops before a capsule is deleted: whatever fails between the     *)
(* hooks of the policy, a capsule that Senlin is deleting is not in the      *)
(* pool, unless its addition had been reported as failed.                    *)
TrafficStopsFirst ==
    \A n \in Nodes :
        pc[n] \in {"delete", "delete_wait"} =>
            /\ member[n] = None
            /\ cap[n] \in pool => cap[n] \in leaked

(* Every action on a node ends, also when Zun never answers as hoped.        *)
ActionsEnd == \A n \in Nodes : pc[n] # "idle" ~> pc[n] = "idle"
=============================================================================
