------------------------ MODULE CapsuleScaling_proofs -----------------------
(* What the capsule profile and its policy guarantee for any number of nodes *)
(* and capsules, and whatever Zun does to the capsules meanwhile.            *)
EXTENDS CapsuleScaling, TLAPS

(* What an action has done to its node at each of its steps.                 *)
Shape ==
    \A n \in Nodes :
        /\ status[n] = "none" => pc[n] = "idle" /\ cap[n] = None
        /\ pc[n] = "post" => cap[n] = None
        /\ pc[n] \in {"post", "wait", "rollback", "rollback_wait"} => status[n] = "creating"
        /\ pc[n] \in {"wait", "confirm"} => cap[n] \in Capsules
        /\ member[n] # None => member[n] = cap[n] /\ pc[n] \in {"idle", "remove"}

(* Capsules are handed out once: what is in use was created before, and no   *)
(* two nodes have the same one.                                              *)
Handed ==
    /\ \A k \in Capsules : k \in pool => k <= nCaps
    /\ \A n \in Nodes : cap[n] <= nCaps
    /\ \A m, n \in Nodes : m # n /\ cap[m] # None => cap[m] # cap[n]

(* served remembers every capsule that is ready.                             *)
ReadyServed == \A k \in Capsules : zun[k] = "ready" => k \in served

(* A member of the pool is recorded, about to be, or known to be leaked.     *)
PoolKnown ==
    \A n \in Nodes :
        cap[n] \in pool => cap[n] \in leaked \/ member[n] = cap[n] \/ pc[n] = "confirm"

CapsuleInv == TypeOK /\ Shape /\ Handed /\ ReadyServed /\ PoolKnown

-----------------------------------------------------------------------------

LEMMA CapsuleNumbers == None \notin Capsules /\ Capsules \subseteq Nat /\ None \in Nat
  BY CapsuleBound DEF Capsules, None

LEMMA CapsuleInit == Init => CapsuleInv /\ CapsulesTracked /\ ActiveWasReady
<1> SUFFICES ASSUME Init PROVE CapsuleInv /\ CapsulesTracked /\ ActiveWasReady
  OBVIOUS
<1> USE CapsuleNumbers, CapsuleBound DEF Init
<1>1. TypeOK
  BY DEF TypeOK
<1>2. Shape
  BY DEF Shape
<1>3. Handed
  BY DEF Handed, None
<1>4. ReadyServed /\ PoolKnown /\ CapsulesTracked /\ ActiveWasReady
  BY DEF ReadyServed, PoolKnown, CapsulesTracked, ActiveWasReady
<1>5. QED BY <1>1, <1>2, <1>3, <1>4 DEF CapsuleInv

(* The operations on the node under work.                                    *)
LEMMA TypeStep == TypeOK /\ Shape /\ [Next]_vars => TypeOK'
<1> SUFFICES ASSUME TypeOK, Shape, [Next]_vars PROVE TypeOK'
  OBVIOUS
<1> USE CapsuleNumbers, CapsuleBound DEF TypeOK, Goto, Becomes, Holds, nodeVars
<1>1. ASSUME NEW n \in Nodes, CreateNode(n) \/ PostOp(n) \/ PreOp(n) PROVE TypeOK'
  BY <1>1 DEF CreateNode, PostOp, PreOp
<1>2. ASSUME NEW n \in Nodes, PostAccepted(n) PROVE TypeOK'
  BY <1>2 DEF PostAccepted, NewCapsule, Capsules
<1>3. ASSUME NEW n \in Nodes, PostFails(n) PROVE TypeOK'
  <2>1. CASE UNCHANGED <<zun, nCaps, lost>>
    BY <1>3, <2>1 DEF PostFails
  <2>2. CASE NewCapsule /\ lost' = lost \cup {nCaps + 1}
    <3>1. nCaps + 1 \in Capsules
      BY <2>2 DEF NewCapsule, Capsules
    <3>2. QED BY <1>3, <2>2, <3>1 DEF PostFails, NewCapsule
  <2>3. QED BY <1>3, <2>1, <2>2 DEF PostFails
<1>4. ASSUME NEW n \in Nodes, WaitReady(n) \/ WaitFails(n) PROVE TypeOK'
  BY <1>4 DEF WaitReady, WaitFails
<1>5. ASSUME NEW n \in Nodes, DeleteRequest(n) PROVE TypeOK'
  BY <1>5 DEF DeleteRequest, DeletionReturns, DeletionRaises, Absent
<1>6. ASSUME NEW n \in Nodes, DeleteConfirmed(n) \/ DeleteTimesOut(n) PROVE TypeOK'
  BY <1>6 DEF DeleteConfirmed, DeleteTimesOut, DeletionReturns, DeletionRaises
<1>7. ASSUME NEW n \in Nodes, MemberAddFails(n) \/ MemberCreated(n) PROVE TypeOK'
  BY <1>7 DEF MemberAddFails, MemberCreated, Absent
<1>8. ASSUME NEW n \in Nodes, MemberConfirmed(n) PROVE TypeOK'
  BY <1>8 DEF MemberConfirmed, Shape
<1>9. ASSUME NEW n \in Nodes, MemberRemoved(n) \/ MemberRemoveFails(n) PROVE TypeOK'
  BY <1>9 DEF MemberRemoved, MemberRemoveFails
<1>10. ASSUME NEW k \in Capsules, ZunStep(k) PROVE TypeOK'
  BY <1>10 DEF ZunStep
<1>11. CASE UNCHANGED vars
  BY <1>11 DEF vars
<1>12. QED
  BY <1>1, <1>2, <1>3, <1>4, <1>5, <1>6, <1>7, <1>8, <1>9, <1>10, <1>11
  DEF Next, NodeStep

LEMMA ShapeStep == TypeOK /\ Shape /\ [Next]_vars => Shape'
<1> SUFFICES ASSUME TypeOK, Shape, [Next]_vars, NEW m \in Nodes PROVE Shape!(m)'
  BY DEF Shape
<1> USE CapsuleNumbers, CapsuleBound DEF TypeOK, Shape, Goto, Becomes, Holds, nodeVars
<1>1. ASSUME NEW n \in Nodes, CreateNode(n) \/ PostOp(n) \/ PreOp(n) PROVE Shape!(m)'
  BY <1>1 DEF CreateNode, PostOp, PreOp
<1>2. ASSUME NEW n \in Nodes, PostAccepted(n) PROVE Shape!(m)'
  BY <1>2 DEF PostAccepted, NewCapsule, Capsules
<1>3. ASSUME NEW n \in Nodes, PostFails(n) \/ WaitReady(n) \/ WaitFails(n) PROVE Shape!(m)'
  BY <1>3 DEF PostFails, WaitReady, WaitFails
<1>4. ASSUME NEW n \in Nodes, DeleteRequest(n) PROVE Shape!(m)'
  BY <1>4 DEF DeleteRequest, DeletionReturns, DeletionRaises
<1>5. ASSUME NEW n \in Nodes, DeleteConfirmed(n) \/ DeleteTimesOut(n) PROVE Shape!(m)'
  BY <1>5 DEF DeleteConfirmed, DeleteTimesOut, DeletionReturns, DeletionRaises
<1>6. ASSUME NEW n \in Nodes, MemberAddFails(n) \/ MemberCreated(n) PROVE Shape!(m)'
  BY <1>6 DEF MemberAddFails, MemberCreated, Absent
<1>7. ASSUME NEW n \in Nodes, MemberConfirmed(n) PROVE Shape!(m)'
  BY <1>7 DEF MemberConfirmed
<1>8. ASSUME NEW n \in Nodes, MemberRemoved(n) \/ MemberRemoveFails(n) PROVE Shape!(m)'
  BY <1>8 DEF MemberRemoved, MemberRemoveFails
<1>9. ASSUME NEW k \in Capsules, ZunStep(k) PROVE Shape!(m)'
  BY <1>9 DEF ZunStep
<1>10. CASE UNCHANGED vars
  BY <1>10 DEF vars
<1>11. QED
  BY <1>1, <1>2, <1>3, <1>4, <1>5, <1>6, <1>7, <1>8, <1>9, <1>10 DEF Next, NodeStep

LEMMA HandedStep == TypeOK /\ Shape /\ Handed /\ [Next]_vars => Handed'
<1> SUFFICES ASSUME TypeOK, Shape, Handed, [Next]_vars PROVE Handed'
  OBVIOUS
<1> USE CapsuleNumbers, CapsuleBound DEF TypeOK, Handed, Holds, nodeVars
<1>1. ASSUME nCaps' \in Nat, nCaps <= nCaps', UNCHANGED cap, pool' \subseteq pool PROVE Handed'
  <2>1. \A i \in Nat : i <= nCaps => i <= nCaps'
    BY <1>1
  <2>2. \A n \in Nodes : cap[n] \in Nat
    OBVIOUS
  <2>3. \A k \in Capsules : k \in pool' => k <= nCaps'
    BY <1>1, <2>1
  <2>4. \A n \in Nodes : cap'[n] <= nCaps'
    BY <1>1, <2>1, <2>2
  <2>5. QED BY <1>1, <2>3, <2>4
<1>2. ASSUME NEW n \in Nodes, PostAccepted(n) PROVE Handed'
  <2>1. nCaps' = nCaps + 1 /\ UNCHANGED pool /\ cap' = [cap EXCEPT ![n] = nCaps + 1]
    BY <1>2 DEF PostAccepted, NewCapsule
  <2>2. \A m \in Nodes : cap[m] \in Nat
    OBVIOUS
  <2>3. QED BY <2>1, <2>2 DEF None
<1>3. ASSUME NEW n \in Nodes,
             \/ CreateNode(n) \/ PostOp(n) \/ PreOp(n) \/ PostFails(n) \/ WaitReady(n)
             \/ WaitFails(n) \/ MemberConfirmed(n) \/ MemberRemoved(n) \/ MemberRemoveFails(n)
      PROVE Handed'
  BY <1>1, <1>3 DEF CreateNode, PostOp, PreOp, PostFails, NewCapsule, WaitReady, WaitFails,
     MemberConfirmed, MemberRemoved, MemberRemoveFails
<1>4. ASSUME NEW n \in Nodes, DeleteRequest(n) \/ DeleteConfirmed(n) \/ DeleteTimesOut(n)
      PROVE Handed'
  <2>1. UNCHANGED <<nCaps, pool>> /\ (UNCHANGED cap \/ cap' = [cap EXCEPT ![n] = None])
    BY <1>4 DEF DeleteRequest, DeleteConfirmed, DeleteTimesOut, DeletionReturns, DeletionRaises
  <2>2. QED BY <1>1, <2>1 DEF None
<1>5. ASSUME NEW n \in Nodes, MemberAddFails(n) \/ MemberCreated(n) PROVE Handed'
  BY <1>5 DEF MemberAddFails, MemberCreated
<1>6. ASSUME NEW k \in Capsules, ZunStep(k) PROVE Handed'
  BY <1>1, <1>6 DEF ZunStep
<1>7. CASE UNCHANGED vars
  BY <1>1, <1>7 DEF vars
<1>8. QED
  BY <1>2, <1>3, <1>4, <1>5, <1>6, <1>7 DEF Next, NodeStep

LEMMA ReadyStep == TypeOK /\ ReadyServed /\ [Next]_vars => ReadyServed'
<1> SUFFICES ASSUME TypeOK, ReadyServed, [Next]_vars PROVE ReadyServed'
  OBVIOUS
<1> USE CapsuleNumbers, CapsuleBound DEF TypeOK, ReadyServed
<1>1. ASSUME NEW n \in Nodes, PostAccepted(n) \/ PostFails(n) PROVE ReadyServed'
  BY <1>1 DEF PostAccepted, PostFails, NewCapsule
<1>2. ASSUME NEW n \in Nodes, DeleteRequest(n) PROVE ReadyServed'
  BY <1>2 DEF DeleteRequest
<1>3. ASSUME NEW k \in Capsules, ZunStep(k) PROVE ReadyServed'
  BY <1>3 DEF ZunStep
<1>4. CASE UNCHANGED <<zun, served>>
  BY <1>4
<1>5. QED
  BY <1>1, <1>2, <1>3, <1>4 DEF Next, NodeStep, vars, CreateNode, PostOp, PreOp, WaitReady,
     WaitFails, DeleteConfirmed, DeleteTimesOut, MemberAddFails, MemberCreated,
     MemberConfirmed, MemberRemoved, MemberRemoveFails

LEMMA PoolStep == CapsuleInv /\ [Next]_vars => PoolKnown'
<1> SUFFICES ASSUME CapsuleInv, [Next]_vars, NEW m \in Nodes PROVE PoolKnown!(m)'
  BY DEF PoolKnown
<1> USE CapsuleNumbers, CapsuleBound
    DEF CapsuleInv, TypeOK, PoolKnown, Goto, Becomes, Holds, nodeVars
<1>1. ASSUME NEW n \in Nodes, CreateNode(n) \/ PostOp(n) \/ PreOp(n) PROVE PoolKnown!(m)'
  BY <1>1 DEF CreateNode, PostOp, PreOp
<1>2. ASSUME NEW n \in Nodes, PostAccepted(n) PROVE PoolKnown!(m)'
  <2>1. nCaps + 1 \notin pool
    BY DEF Handed
  <2>2. QED BY <1>2, <2>1 DEF PostAccepted
<1>3. ASSUME NEW n \in Nodes, PostFails(n) \/ WaitReady(n) \/ WaitFails(n) PROVE PoolKnown!(m)'
  BY <1>3 DEF PostFails, WaitReady, WaitFails
<1>4. ASSUME NEW n \in Nodes, DeleteRequest(n) \/ DeleteConfirmed(n) \/ DeleteTimesOut(n)
      PROVE PoolKnown!(m)'
  <2>1. UNCHANGED <<member, pool, leaked>> /\ pc[n] # "confirm"
    BY <1>4 DEF DeleteRequest, DeleteConfirmed, DeleteTimesOut
  <2>2. UNCHANGED cap \/ cap' = [cap EXCEPT ![n] = None]
    BY <1>4 DEF DeleteRequest, DeleteConfirmed, DeleteTimesOut, DeletionReturns, DeletionRaises
  <2>3. \A x \in Nodes : x # n => pc'[x] = pc[x]
    BY <1>4 DEF DeleteRequest, DeleteConfirmed, DeleteTimesOut
  <2>4. QED BY <2>1, <2>2, <2>3
<1>5. ASSUME NEW n \in Nodes, MemberAddFails(n) \/ MemberCreated(n) PROVE PoolKnown!(m)'
  <2>1. pc[n] = "add" /\ UNCHANGED <<cap, member>> /\ leaked \subseteq leaked'
    BY <1>5 DEF MemberAddFails, MemberCreated
  <2>2. UNCHANGED pool \/ (pool' = pool \cup {cap[n]} /\ cap[n] # None)
    BY <1>5 DEF MemberAddFails, MemberCreated, Absent
  <2>3. \A x \in Nodes : x # n => pc'[x] = pc[x]
    BY <1>5 DEF MemberAddFails, MemberCreated
  <2>4. CASE m # n
    BY <2>1, <2>2, <2>3, <2>4 DEF Handed
  <2>5. CASE m = n
    BY <1>5, <2>1, <2>5 DEF MemberAddFails, MemberCreated
  <2>6. QED BY <2>4, <2>5
<1>6. ASSUME NEW n \in Nodes, MemberConfirmed(n) PROVE PoolKnown!(m)'
  BY <1>6 DEF MemberConfirmed
<1>7. ASSUME NEW n \in Nodes, MemberRemoved(n) PROVE PoolKnown!(m)'
  BY <1>7 DEF MemberRemoved, Shape
<1>8. ASSUME NEW n \in Nodes, MemberRemoveFails(n) PROVE PoolKnown!(m)'
  BY <1>8 DEF MemberRemoveFails
<1>9. ASSUME NEW k \in Capsules, ZunStep(k) PROVE PoolKnown!(m)'
  BY <1>9 DEF ZunStep
<1>10. CASE UNCHANGED vars
  BY <1>10 DEF vars
<1>11. QED
  BY <1>1, <1>2, <1>3, <1>4, <1>5, <1>6, <1>7, <1>8, <1>9, <1>10 DEF Next, NodeStep

LEMMA CapsuleInvariant == Spec => []CapsuleInv
<1>1. CapsuleInv /\ [Next]_vars => CapsuleInv'
  BY TypeStep, ShapeStep, HandedStep, ReadyStep, PoolStep DEF CapsuleInv
<1>2. QED BY CapsuleInit, <1>1, PTL DEF Spec

-----------------------------------------------------------------------------

(* The profile, the policy and Zun keep their state within its types, for    *)
(* any number of nodes and capsules.                                         *)
THEOREM CapsuleTypeCorrect == Spec => []TypeOK
<1>1. CapsuleInv => TypeOK
  BY DEF CapsuleInv
<1>2. QED BY CapsuleInvariant, <1>1, PTL

LEMMA TrackedStep == CapsuleInv /\ CapsulesTracked /\ [Next]_vars => CapsulesTracked'
<1> SUFFICES ASSUME CapsuleInv, CapsulesTracked, [Next]_vars, NEW c \in Capsules,
                    zun'[c] \notin {"unused", "gone"}
             PROVE  c \in lost' \/ \E n \in Nodes : cap'[n] = c
  BY DEF CapsulesTracked
<1> USE CapsuleNumbers, CapsuleBound DEF CapsuleInv, TypeOK, CapsulesTracked, Holds
<1>1. ASSUME NEW n \in Nodes, PostAccepted(n) PROVE c \in lost' \/ \E m \in Nodes : cap'[m] = c
  <2>1. CASE c = nCaps + 1
    <3>1. cap'[n] = c
      BY <1>1, <2>1 DEF PostAccepted
    <3>2. QED BY <3>1
  <2>2. CASE c # nCaps + 1
    <3>1. zun'[c] = zun[c] /\ UNCHANGED lost
      BY <1>1, <2>2 DEF PostAccepted, NewCapsule
    <3>2. \A m \in Nodes : cap[m] = c => m # n
      BY <1>1 DEF PostAccepted, Shape
    <3>3. \A m \in Nodes : m # n => cap'[m] = cap[m]
      BY <1>1 DEF PostAccepted
    <3>4. QED BY <3>1, <3>2, <3>3
  <2>3. QED BY <2>1, <2>2
<1>2. ASSUME NEW n \in Nodes, PostFails(n) PROVE c \in lost' \/ \E m \in Nodes : cap'[m] = c
  BY <1>2 DEF PostFails, NewCapsule
<1>3. ASSUME NEW n \in Nodes, DeleteRequest(n) \/ DeleteConfirmed(n) \/ DeleteTimesOut(n)
      PROVE c \in lost' \/ \E m \in Nodes : cap'[m] = c
  <2>1. UNCHANGED lost /\ (c # cap[n] => zun'[c] = zun[c])
    BY <1>3 DEF DeleteRequest, DeleteConfirmed, DeleteTimesOut
  <2>2. UNCHANGED cap \/ (cap' = [cap EXCEPT ![n] = None] /\ cap[n] # c)
    BY <1>3 DEF DeleteRequest, DeleteConfirmed, DeleteTimesOut, DeletionReturns,
       DeletionRaises, Absent
  <2>3. QED BY <2>1, <2>2
<1>4. ASSUME NEW k \in Capsules, ZunStep(k) PROVE c \in lost' \/ \E m \in Nodes : cap'[m] = c
  BY <1>4 DEF ZunStep, nodeVars
<1>5. CASE UNCHANGED <<zun, cap, lost>>
  BY <1>5
<1>6. QED
  BY <1>1, <1>2, <1>3, <1>4, <1>5 DEF Next, NodeStep, vars, nodeVars, CreateNode, PostOp, PreOp,
     WaitReady, WaitFails, MemberAddFails, MemberCreated, MemberConfirmed, MemberRemoved,
     MemberRemoveFails

(* No capsule is forgotten, for any number of nodes: do_create and do_delete *)
(* keep the id of every capsule that may still exist, whatever request or    *)
(* rollback fails and whenever Zun acts; only a creation that was never      *)
(* answered leaves a capsule nobody knows.                                   *)
THEOREM NoCapsuleForgotten == Spec => []CapsulesTracked
  BY CapsuleInit, CapsuleInvariant, TrackedStep, PTL DEF Spec

LEMMA ActiveStep == CapsuleInv /\ ActiveWasReady /\ [Next]_vars => ActiveWasReady'
<1> SUFFICES ASSUME CapsuleInv, ActiveWasReady, [Next]_vars, NEW m \in Nodes
             PROVE  ActiveWasReady!(m)'
  BY DEF ActiveWasReady
<1> USE CapsuleNumbers, CapsuleBound DEF CapsuleInv, TypeOK, ActiveWasReady, Becomes, Holds
<1>1. ASSUME NEW n \in Nodes, CreateNode(n) PROVE ActiveWasReady!(m)'
  BY <1>1 DEF CreateNode
<1>2. ASSUME NEW n \in Nodes, PostAccepted(n) \/ PostFails(n) PROVE ActiveWasReady!(m)'
  BY <1>2 DEF PostAccepted, PostFails, Shape
<1>3. ASSUME NEW n \in Nodes, WaitReady(n) PROVE ActiveWasReady!(m)'
  BY <1>3 DEF WaitReady, Shape, ReadyServed
<1>4. ASSUME NEW n \in Nodes, DeleteRequest(n) \/ DeleteConfirmed(n) \/ DeleteTimesOut(n)
      PROVE ActiveWasReady!(m)'
  <2>1. UNCHANGED served
    BY <1>4 DEF DeleteRequest, DeleteConfirmed, DeleteTimesOut
  <2>2. \/ UNCHANGED <<status, cap>>
        \/ UNCHANGED cap /\ status' = [status EXCEPT ![n] = "error"]
        \/ cap' = [cap EXCEPT ![n] = None] /\ status' = [status EXCEPT ![n] = "deleted"]
    BY <1>4 DEF DeleteRequest, DeleteConfirmed, DeleteTimesOut, DeletionReturns, DeletionRaises
  <2>3. QED BY <2>1, <2>2
<1>5. ASSUME NEW k \in Capsules, ZunStep(k) PROVE ActiveWasReady!(m)'
  BY <1>5 DEF ZunStep, nodeVars
<1>6. CASE UNCHANGED <<status, cap, served>>
  BY <1>6
<1>7. QED
  BY <1>1, <1>2, <1>3, <1>4, <1>5, <1>6 DEF Next, NodeStep, vars, nodeVars, PostOp, PreOp,
     WaitFails, MemberAddFails, MemberCreated, MemberConfirmed, MemberRemoved,
     MemberRemoveFails

(* An active node has had a ready capsule: _wait_for_state accepts nothing   *)
(* else, and no later step gives an active node another capsule.             *)
THEOREM ActiveNodesWereReady == Spec => []ActiveWasReady
  BY CapsuleInit, CapsuleInvariant, ActiveStep, PTL DEF Spec

LEMMA TrafficStep == CapsuleInv /\ TrafficStopsFirst /\ [Next]_vars => TrafficStopsFirst'
<1> SUFFICES ASSUME CapsuleInv, CapsuleInv', NEW m \in Nodes,
                    pc'[m] \in {"delete", "delete_wait"}
             PROVE  /\ member'[m] = None
                    /\ cap'[m] \in pool' => cap'[m] \in leaked'
  BY TypeStep, ShapeStep, HandedStep, ReadyStep, PoolStep DEF CapsuleInv, TrafficStopsFirst
<1>1. member'[m] = None
  BY DEF CapsuleInv, Shape
<1>2. cap'[m] \in pool' => cap'[m] \in Capsules
  BY DEF CapsuleInv, TypeOK
<1>3. QED BY <1>1, <1>2, CapsuleNumbers DEF CapsuleInv, PoolKnown

(* Traffic stops first, for any number of nodes that scale at the same time: *)
(* pre_op has removed the member before do_delete touches the capsule, and a *)
(* failure in between never skips it.                                        *)
THEOREM TrafficStopsBeforeDeletion == Spec => []TrafficStopsFirst
<1>1. Init => TrafficStopsFirst
  BY DEF Init, TrafficStopsFirst
<1>2. QED BY <1>1, CapsuleInvariant, TrafficStep, PTL DEF Spec
=============================================================================
