----------------------- MODULE ShardedCluster_proofs ------------------------
(***************************************************************************)
(* Proofs about ShardedCluster for every number of clients, instances and  *)
(* shards.                                                                 *)
(***************************************************************************)
EXTENDS ShardedCluster, FiniteSetTheorems, TLAPS

USE DEF Inst, Shards, NoInst, NoShard

-----------------------------------------------------------------------------
(* Types *)

LEMMA IdleType == Idle \in Request
  BY DEF Idle, Request, Ops

\* The number given to a new replica set is a natural number: the shards of
\* the cluster are finitely many.
LEMMA NextShardNumberType ==
    ASSUME TypeOK
    PROVE  NextShardNumber \in Nat /\ Cardinality(ShardsOf(attached)) \in Nat
<1>2. ShardsOf(attached) \subseteq 0 .. MaxShards
  BY BoundsAssumption DEF TypeOK, ShardsOf, Of
<1>3. IsFiniteSet(0 .. MaxShards)
  BY FS_Interval, BoundsAssumption
<1>4. Cardinality(ShardsOf(attached)) \in Nat
  BY <1>2, <1>3, FS_Subset, FS_CardinalityType
<1>5. QED BY <1>4 DEF NextShardNumber

\* TypeOK is inductive once it is known that every member has a shard id that
\* was handed out: the shards of a request or job are collected from members.
MembersHaveShard ==
    \A i \in Inst : kind[i] = "member" => shardOf[i] \in 1 .. nShards

\* Only create and grow requests reach the cast of a job.
Shape(r) ==
    /\ r.pc \in {"creating", "cast"} => r.op \in {"create", "grow"}
    /\ r.pc = "mark" => r.op \in {"grow", "shrink"}
    /\ r.pc \in {"drain", "drop", "destroy"} => r.op = "shrink"

RequestShape == \A c \in Clients : Shape(api[c])

TypeInv == TypeOK /\ MembersHaveShard /\ RequestShape

LEMMA ApiUpdate ==
    ASSUME TypeInv, NEW c \in Clients, NEW r \in Request, Shape(r),
           RequestGoesTo(c, r)
    PROVE  api' \in [Clients -> Request] /\ RequestShape'
  BY DEF RequestGoesTo, TypeInv, TypeOK, RequestShape

LEMMA IdleShape == Shape(Idle)
  BY DEF Idle, Shape

LEMMA ShardsOfType ==
    ASSUME TypeInv, NEW S \in SUBSET Inst
    PROVE  ShardsOf(S) \subseteq 1 .. nShards
  BY DEF TypeInv, MembersHaveShard, ShardsOf, Of

PlanKeepsTypes ==
    /\ kind' \in [Inst -> Kinds]
    /\ shardOf' \in [Inst -> Shards \cup {NoShard}]
    /\ setName' \in [Shards -> Nat]
    /\ nInst' \in 0 .. MaxInst
    /\ nShards' \in 0 .. MaxShards
    /\ api' \in [Clients -> Request]
    /\ MembersHaveShard'
    /\ RequestShape'

\* Planning a request keeps the types, given the types of its items.
LEMMA PlanType ==
    ASSUME TypeInv, NEW c \in Clients, NEW op \in {"create", "grow"},
           NEW n \in Nat, NEW groups \in Nat,
           NEW k2 \in [1 .. n -> Kinds], NEW g \in [1 .. n -> 0 .. groups],
           \A k \in 1 .. n : k2[k] = "member" => g[k] # 0,
           NEW firstName \in Nat \ {0},
           Plan(c, op, n, groups, k2, g, firstName)
    PROVE  PlanKeepsTypes
<1> DEFINE new == nInst + 1 .. nInst + n
<1>1. /\ nInst' \in 0 .. MaxInst /\ nShards' \in 0 .. MaxShards
      /\ nInst \in Nat /\ nShards \in Nat
      /\ MaxInst \in Nat /\ MaxShards \in Nat
  BY BoundsAssumption DEF Plan, TypeInv, TypeOK
<1>2. \A i \in new : i - nInst \in 1 .. n
  BY <1>1
<1>3. kind' \in [Inst -> Kinds]
  BY <1>2 DEF Plan, TypeInv, TypeOK
<1>4. /\ shardOf' \in [Inst -> Shards \cup {NoShard}]
      /\ MembersHaveShard'
  <2>1. ASSUME NEW i \in Inst
        PROVE  /\ shardOf'[i] \in Shards \cup {NoShard}
               /\ kind'[i] = "member" => shardOf'[i] \in 1 .. nShards'
    <3>1. CASE i \in new
      <4>1. g[i - nInst] \in 0 .. groups /\ k2[i - nInst] \in Kinds
        BY <1>2, <3>1
      <4>2. /\ kind'[i] = k2[i - nInst]
            /\ shardOf'[i] = IF k2[i - nInst] = "member"
                             THEN nShards + g[i - nInst] ELSE NoShard
        BY <3>1 DEF Plan
      <4>3. k2[i - nInst] = "member" => g[i - nInst] # 0
        BY <1>2, <3>1
      <4>4. nShards' = nShards + groups
        BY DEF Plan
      <4>5. QED BY <4>1, <4>2, <4>3, <4>4, <1>1
    <3>2. CASE i \notin new
      <4>1. kind'[i] = kind[i] /\ shardOf'[i] = shardOf[i]
        BY <3>2 DEF Plan
      <4>2. nShards' = nShards + groups
        BY DEF Plan
      <4>3. QED BY <4>1, <4>2, <1>1 DEF TypeInv, TypeOK, MembersHaveShard
    <3>3. QED BY <3>1, <3>2
  <2>2. shardOf' = [i \in Inst |-> shardOf'[i]]
    BY DEF Plan
  <2>3. QED BY <2>1, <2>2 DEF MembersHaveShard
<1>5. setName' \in [Shards -> Nat]
  BY <1>1 DEF Plan, TypeInv, TypeOK
<1>6. api' \in [Clients -> Request] /\ RequestShape'
  <2>1. new \subseteq Inst
    BY <1>1 DEF Plan
  <2>2. [Idle EXCEPT !.op = op, !.pc = "creating", !.ids = new, !.todo = new]
          \in Request
    BY <2>1 DEF Idle, Request, Ops
  <2>3. RequestGoesTo(c, [Idle EXCEPT !.op = op, !.pc = "creating",
                                      !.ids = new, !.todo = new])
    BY DEF Plan
  <2>4. Shape([Idle EXCEPT !.op = op, !.pc = "creating", !.ids = new,
                          !.todo = new])
    BY DEF Idle, Shape
  <2>5. QED BY <2>2, <2>3, <2>4, ApiUpdate
<1>7. QED BY <1>1, <1>3, <1>4, <1>5, <1>6 DEF PlanKeepsTypes

LEMMA CreateClusterType ==
    ASSUME TypeInv, NEW c \in Clients, CreateCluster(c)
    PROVE  TypeInv'
<1> DEFINE n == InitMembers + NumConfig + NumRouters
           k2 == [k \in 1 .. n |->
                    IF k <= InitMembers THEN "member"
                    ELSE IF k <= InitMembers + NumConfig THEN "config_server"
                         ELSE "query_router"]
           g == [k \in 1 .. n |-> IF k <= InitMembers THEN 1 ELSE 0]
<1>1. /\ n \in Nat /\ 1 \in Nat /\ 1 \in Nat \ {0}
      /\ "create" \in {"create", "grow"}
  BY CreateAssumption
<1>2. k2 \in [1 .. n -> Kinds]
  BY DEF Kinds
<1>3. g \in [1 .. n -> 0 .. 1]
  OBVIOUS
<1>4. \A k \in 1 .. n : k2[k] = "member" => g[k] # 0
  OBVIOUS
<1>5. Plan(c, "create", n, 1, k2, g, 1)
  BY DEF CreateCluster
<1> HIDE DEF n, k2, g
<1>6. PlanKeepsTypes
  BY <1>1, <1>2, <1>3, <1>4, <1>5, PlanType
<1>7. /\ task' \in TaskStatus
      /\ UNCHANGED <<attached, alive, mongoVars, errored, jobs, wedged>>
  BY DEF CreateCluster, TaskStatus
<1>8. QED BY <1>6, <1>7 DEF PlanKeepsTypes, TypeInv, TypeOK, mongoVars

LEMMA StartGrowType ==
    ASSUME TypeInv, NEW c \in Clients, StartGrow(c)
    PROVE  TypeInv'
<1>1. PICK n \in 1 .. MaxNew : \E top \in 0 .. n : \E g \in GrowItems(n, top) :
          Plan(c, "grow", n, top,
               [k \in 1 .. n |-> IF g[k] = 0 THEN "query_router"
                                             ELSE "member"],
               g, NextShardNumber)
  BY DEF StartGrow
<1>2. PICK top \in 0 .. n : \E g \in GrowItems(n, top) :
          Plan(c, "grow", n, top,
               [k \in 1 .. n |-> IF g[k] = 0 THEN "query_router"
                                             ELSE "member"],
               g, NextShardNumber)
  BY <1>1
<1>3. PICK g \in GrowItems(n, top) :
          Plan(c, "grow", n, top,
               [k \in 1 .. n |-> IF g[k] = 0 THEN "query_router"
                                             ELSE "member"],
               g, NextShardNumber)
  BY <1>2
<1> DEFINE k2 == [k \in 1 .. n |-> IF g[k] = 0 THEN "query_router"
                                              ELSE "member"]
<1>4. n \in Nat /\ top \in Nat /\ "grow" \in {"create", "grow"}
  BY BoundsAssumption
<1>5. g \in [1 .. n -> 0 .. top]
  BY DEF GrowItems
<1>6. k2 \in [1 .. n -> Kinds]
  BY DEF Kinds
<1>7. \A k \in 1 .. n : k2[k] = "member" => g[k] # 0
  OBVIOUS
<1>8. NextShardNumber \in Nat \ {0}
  <2>1. NextShardNumber \in Nat /\ Cardinality(ShardsOf(attached)) \in Nat
    BY NextShardNumberType DEF TypeInv
  <2>2. QED BY <2>1 DEF NextShardNumber
<1>9. Plan(c, "grow", n, top, k2, g, NextShardNumber)
  BY <1>3
<1> HIDE DEF k2
<1>10. PlanKeepsTypes
  BY <1>4, <1>5, <1>6, <1>7, <1>8, <1>9, PlanType
<1>11. QED BY <1>10 DEF PlanKeepsTypes, StartGrow, TypeInv, TypeOK, mongoVars

LEMMA CreateInstanceType ==
    ASSUME TypeInv, NEW c \in Clients, CreateInstance(c)
    PROVE  TypeInv'
<1>1. PICK i \in api[c].todo :
          /\ attached' = attached \cup {i}
          /\ alive' = alive \cup {i}
          /\ RequestGoesTo(c, [api[c] EXCEPT
                !.todo = @ \ {i},
                !.pc = IF api[c].todo # {i} THEN "creating"
                       ELSE IF api[c].op = "create" THEN "cast" ELSE "mark"])
  BY DEF CreateInstance
<1> DEFINE r == [api[c] EXCEPT !.todo = @ \ {i},
                               !.pc = IF api[c].todo # {i} THEN "creating"
                                      ELSE IF api[c].op = "create"
                                           THEN "cast" ELSE "mark"]
<1>2. api[c] \in Request /\ api[c].op \in {"create", "grow"}
  BY DEF TypeInv, TypeOK, RequestShape, Shape, CreateInstance
<1>3. i \in Inst
  BY <1>2 DEF Request
<1>4. r \in Request /\ Shape(r)
  BY <1>2 DEF Request, Ops, Shape
<1>5. RequestGoesTo(c, r)
  BY <1>1
<1>6. api' \in [Clients -> Request] /\ RequestShape'
  BY <1>4, <1>5, ApiUpdate
<1>7. QED
  BY <1>1, <1>3, <1>6
  DEF CreateInstance, TypeInv, TypeOK, MembersHaveShard, infoVars, mongoVars

\* The steps that change neither the instance records nor the set of jobs.
LEMMA RequestType ==
    ASSUME TypeInv, NEW c \in Clients,
           \/ CreateInstanceFails(c) \/ MarkTask(c) \/ DrainDone(c)
           \/ DetachInstance(c) \/ DestroyInstance(c) \/ FinishShrink(c)
           \/ ShrinkFails(c) \/ ApiCrash(c)
           \/ \E s \in Shards : StartDrain(c, s) \/ FinishDrain(c, s)
    PROVE  TypeInv'
<1> USE DEF TypeInv, TypeOK, MembersHaveShard, infoVars, mongoVars
<1>0. /\ api[c] \in Request /\ Shape(api[c])
      /\ Idle \in Request /\ Shape(Idle)
  BY IdleType, IdleShape DEF RequestShape
<1>2. CASE CreateInstanceFails(c)
  BY <1>0, <1>2, ApiUpdate DEF CreateInstanceFails, TaskStatus
<1>3. CASE MarkTask(c)
  <2> DEFINE r == [api[c] EXCEPT !.pc = IF api[c].op = "grow" THEN "cast"
                                                             ELSE "drain"]
  <2>1. RequestGoesTo(c, r) /\ api[c].pc = "mark"
    BY <1>3 DEF MarkTask
  <2>2. r \in Request /\ Shape(r)
    BY <1>0, <2>1 DEF Request, Shape
  <2>3. api' \in [Clients -> Request] /\ RequestShape'
    BY <2>1, <2>2, ApiUpdate
  <2>4. task' \in TaskStatus
    BY <1>3 DEF MarkTask, BusyStatus, TaskStatus
  <2>5. QED BY <1>3, <2>3, <2>4 DEF MarkTask
<1>4. CASE DrainDone(c)
  <2> DEFINE r == [api[c] EXCEPT !.pc = "drop"]
  <2>1. RequestGoesTo(c, r) /\ api[c].pc = "drain"
    BY <1>4 DEF DrainDone
  <2>2. r \in Request /\ Shape(r)
    BY <1>0, <2>1 DEF Request, Shape
  <2>3. api' \in [Clients -> Request] /\ RequestShape'
    BY <2>1, <2>2, ApiUpdate
  <2>4. QED BY <1>4, <2>3 DEF DrainDone
<1>5. CASE DetachInstance(c)
  <2>1. PICK i \in api[c].todo \cap alive :
          /\ attached' = attached \ {i}
          /\ RequestGoesTo(c, [api[c] EXCEPT !.pc = "destroy",
                                             !.todo = @ \ {i},
                                             !.victim = i])
    BY <1>5 DEF DetachInstance
  <2> DEFINE r == [api[c] EXCEPT !.pc = "destroy", !.todo = @ \ {i},
                                 !.victim = i]
  <2>2. RequestGoesTo(c, r) /\ api[c].pc = "drop"
    BY <1>5, <2>1 DEF DetachInstance
  <2>3. r \in Request /\ Shape(r)
    BY <1>0, <2>2 DEF Request, Shape
  <2>4. api' \in [Clients -> Request] /\ RequestShape'
    BY <2>2, <2>3, ApiUpdate
  <2>5. QED BY <1>5, <2>1, <2>4 DEF DetachInstance
<1>6. CASE DestroyInstance(c)
  <2> DEFINE r == [api[c] EXCEPT !.pc = "drop", !.victim = NoInst]
  <2>1. RequestGoesTo(c, r) /\ api[c].pc = "destroy"
    BY <1>6 DEF DestroyInstance
  <2>2. r \in Request /\ Shape(r)
    BY <1>0, <2>1 DEF Request, Shape
  <2>3. api' \in [Clients -> Request] /\ RequestShape'
    BY <2>1, <2>2, ApiUpdate
  <2>4. QED BY <1>6, <2>3 DEF DestroyInstance
<1>7. CASE FinishShrink(c)
  BY <1>0, <1>7, ApiUpdate DEF FinishShrink, TaskStatus
<1>8. CASE ShrinkFails(c)
  BY <1>0, <1>8, ApiUpdate DEF ShrinkFails, TaskStatus
<1>9. CASE ApiCrash(c)
  <2>1. wedged' \in BOOLEAN
    BY <1>9 DEF ApiCrash
  <2>2. api' \in [Clients -> Request] /\ RequestShape'
    BY <1>0, <1>9, ApiUpdate DEF ApiCrash
  <2>3. QED BY <1>9, <2>1, <2>2 DEF ApiCrash
<1>10. ASSUME NEW s \in Shards, StartDrain(c, s) PROVE TypeInv'
  <2>1. draining' \subseteq Shards
    BY <1>10 DEF StartDrain, SameName
  <2>2. QED BY <1>10, <2>1 DEF StartDrain, RequestShape
<1>11. ASSUME NEW s \in Shards, FinishDrain(c, s) PROVE TypeInv'
  <2> DEFINE r == [api[c] EXCEPT !.shards = @ \ {s}]
  <2>1. RequestGoesTo(c, r)
    BY <1>11 DEF FinishDrain
  <2>2. r \in Request /\ Shape(r)
    BY <1>0 DEF Request, Shape
  <2>3. api' \in [Clients -> Request] /\ RequestShape'
    BY <2>1, <2>2, ApiUpdate
  <2>4. QED BY <1>11, <2>3 DEF FinishDrain
<1>12. QED
  BY <1>2, <1>3, <1>4, <1>5, <1>6, <1>7, <1>8, <1>9, <1>10, <1>11

LEMMA ClientType ==
    ASSUME TypeInv, NEW c \in Clients, StartShrink(c) \/ CastJob(c)
    PROVE  TypeInv'
<1> USE DEF TypeInv, TypeOK, MembersHaveShard, infoVars, mongoVars
<1>0. /\ api[c] \in Request /\ Shape(api[c])
      /\ Idle \in Request /\ Shape(Idle)
  BY IdleType, IdleShape DEF RequestShape
<1>1. CASE StartShrink(c)
  <2>1. PICK ids \in SUBSET attached :
          \E r \in AnyOf(Of("query_router", attached \ ids)) :
              RequestGoesTo(c, [Idle EXCEPT !.op = "shrink", !.pc = "mark",
                                            !.ids = ids, !.todo = ids,
                                            !.shards = ShardsOf(ids),
                                            !.router = r])
    BY <1>1 DEF StartShrink
  <2>2. PICK r \in AnyOf(Of("query_router", attached \ ids)) :
              RequestGoesTo(c, [Idle EXCEPT !.op = "shrink", !.pc = "mark",
                                            !.ids = ids, !.todo = ids,
                                            !.shards = ShardsOf(ids),
                                            !.router = r])
    BY <2>1
  <2>3. ids \subseteq Inst /\ r \in Inst \cup {NoInst}
    BY DEF AnyOf, Of
  <2>4. ShardsOf(ids) \subseteq Shards
    <3>1. ShardsOf(ids) \subseteq 1 .. nShards
      BY <2>3, ShardsOfType
    <3>2. QED BY <3>1, BoundsAssumption
  <2> DEFINE q == [Idle EXCEPT !.op = "shrink", !.pc = "mark", !.ids = ids,
                               !.todo = ids, !.shards = ShardsOf(ids),
                               !.router = r]
  <2>5. q \in Request /\ Shape(q)
    BY <2>3, <2>4 DEF Idle, Request, Ops, Shape
  <2>6. api' \in [Clients -> Request] /\ RequestShape'
    BY <2>2, <2>5, ApiUpdate
  <2>7. QED BY <1>1, <2>6 DEF StartShrink
<1>2. CASE CastJob(c)
  <2>1. api' \in [Clients -> Request] /\ RequestShape'
    BY <1>0, <1>2, ApiUpdate DEF CastJob
  <2>2. jobs' \subseteq Job
    BY <1>0, <1>2 DEF CastJob, Request, Shape, Job
  <2>3. QED BY <1>2, <2>1, <2>2 DEF CastJob
<1>3. QED BY <1>1, <1>2

LEMMA JobType ==
    ASSUME TypeInv, NEW j \in jobs, JobStep(j)
    PROVE  TypeInv'
<1> USE DEF TypeInv, TypeOK, MembersHaveShard, infoVars, mongoVars
<1>0. j \in Job
  OBVIOUS
<1>1. CASE JobReady(j)
  <2> DEFINE ids == IF j.op = "create" THEN attached ELSE j.ids
             existing == attached \ ids
             routers == IF j.op = "grow" /\ Of("query_router", existing) # {}
                        THEN Of("query_router", existing)
                        ELSE Of("query_router", ids)
  <2>1. PICK r \in AnyOf(routers) :
              JobGoesTo(j, [j EXCEPT !.pc = IF j.op = "create" THEN "config"
                                                               ELSE "routers",
                                     !.ids = ids,
                                     !.shards = ShardsOf(ids),
                                     !.router = r])
    BY <1>1 DEF JobReady
  <2>2. ids \subseteq Inst
    BY <1>0 DEF Job
  <2>3. r \in Inst \cup {NoInst}
    BY <2>2 DEF AnyOf, Of
  <2>4. ShardsOf(ids) \subseteq Shards
    <3>1. ShardsOf(ids) \subseteq 1 .. nShards
      BY <2>2, ShardsOfType
    <3>2. QED BY <3>1, BoundsAssumption
  <2> HIDE DEF ids
  <2> DEFINE k == [j EXCEPT !.pc = IF j.op = "create" THEN "config"
                                                      ELSE "routers",
                            !.ids = ids, !.shards = ShardsOf(ids),
                            !.router = r]
  <2> HIDE DEF routers
  <2>7. k \in Job
    BY <1>0, <2>2, <2>3, <2>4 DEF Job
  <2>5. jobs' \subseteq Job
    BY <2>1, <2>7 DEF JobGoesTo
  <2>6. QED BY <1>1, <2>5 DEF JobReady, RequestShape
<1>2. CASE JobInitConfig(j)
  <2>1. jobs' \subseteq Job
    BY <1>0, <1>2 DEF JobInitConfig, JobGoesTo, Job
  <2>2. QED BY <1>2, <2>1 DEF JobInitConfig, RequestShape
<1>3. CASE JobConfigureRouter(j)
  <2>1. configured' \subseteq Inst
    BY <1>0, <1>3 DEF JobConfigureRouter, Of, Job
  <2>2. QED BY <1>3, <2>1 DEF JobConfigureRouter, RequestShape
<1>4. CASE JobRoutersDone(j)
  <2>1. jobs' \subseteq Job
    BY <1>0, <1>4 DEF JobRoutersDone, JobGoesTo, Job
  <2>2. QED BY <1>4, <2>1 DEF JobRoutersDone, RequestShape
<1>5. CASE JobCreateShard(j)
  <2>1. PICK s \in j.shards : /\ registered' = add_shard(s)
                              /\ JobGoesTo(j, [j EXCEPT !.shards = @ \ {s}])
    BY <1>5 DEF JobCreateShard
  <2>2. jobs' \subseteq Job /\ s \in Shards
    BY <1>0, <2>1 DEF JobGoesTo, Job
  <2>3. registered' \subseteq Shards
    BY <2>1, <2>2 DEF add_shard
  <2>4. QED BY <1>5, <2>2, <2>3 DEF JobCreateShard, RequestShape
<1>6. CASE JobShardsDone(j)
  <2>1. jobs' \subseteq Job
    BY <1>0, <1>6 DEF JobShardsDone, JobGoesTo, Job
  <2>2. QED BY <1>6, <2>1 DEF JobShardsDone, RequestShape
<1>7. CASE JobComplete(j)
  BY <1>7 DEF JobComplete, TaskStatus, RequestShape
<1>8. CASE JobFail(j)
  BY <1>8 DEF JobFail, TaskAfterFailure, RequestShape
<1>9. QED BY <1>1, <1>2, <1>3, <1>4, <1>5, <1>6, <1>7, <1>8 DEF JobStep

LEMMA TypeInit == Init => TypeInv
<1> SUFFICES ASSUME Init PROVE TypeInv
  OBVIOUS
<1>1. api \in [Clients -> Request] /\ RequestShape
  BY IdleType, IdleShape DEF Init, RequestShape
<1>2. kind \in [Inst -> Kinds] /\ MembersHaveShard
  BY DEF Init, Kinds, MembersHaveShard
<1>3. /\ shardOf \in [Inst -> Shards \cup {NoShard}]
      /\ setName \in [Shards -> Nat]
      /\ nInst \in 0 .. MaxInst /\ nShards \in 0 .. MaxShards
  BY BoundsAssumption DEF Init
<1>4. QED BY <1>1, <1>2, <1>3 DEF Init, TypeInv, TypeOK, TaskStatus

LEMMA TypeStep == TypeInv /\ [Next]_vars => TypeInv'
<1> SUFFICES ASSUME TypeInv, [Next]_vars PROVE TypeInv'
  OBVIOUS
<1>1. ASSUME NEW c \in Clients, ClientStep(c) \/ ApiStep(c) \/ ApiCrash(c)
      PROVE  TypeInv'
  BY <1>1, CreateClusterType, StartGrowType, CreateInstanceType, RequestType,
     ClientType DEF ClientStep, ApiStep
<1>2. ASSUME NEW j \in jobs, JobStep(j) PROVE TypeInv'
  BY <1>2, JobType
<1>3. CASE TaskManagerCrash
  BY <1>3 DEF TaskManagerCrash, TypeInv, TypeOK, MembersHaveShard,
              RequestShape, infoVars, mongoVars
<1>4. CASE UNCHANGED vars
  BY <1>4 DEF vars, TypeInv, TypeOK, MembersHaveShard, RequestShape, infoVars,
              mongoVars
<1>5. QED BY <1>1, <1>2, <1>3, <1>4 DEF Next

\* Every variable of the controller keeps its type, whatever number of clients
\* issue requests and wherever requests and jobs fail.
THEOREM TypeCorrect == Spec => []TypeOK
<1>1. Spec => []TypeInv
  BY TypeInit, TypeStep, PTL DEF Spec
<1>2. TypeInv => TypeOK
  BY DEF TypeInv
<1>3. QED BY <1>1, <1>2, PTL

-----------------------------------------------------------------------------
(* The shard registry, for any number of clients *)

\* add_shard registers a name only once.
RegisteredNamesDiffer ==
    \A s, t \in registered : setName[s] = setName[t] => s = t

\* Shard ids are handed out before they are registered, draining shards are
\* registered, and names in the registry are unique.
Registry ==
    /\ registered \subseteq 1 .. nShards
    /\ draining \subseteq registered
    /\ RegisteredNamesDiffer

\* The shards still to be registered by a job have been handed out.
JobShards == \A j \in jobs : j.shards \subseteq 1 .. nShards

RegistryInv == TypeInv /\ Registry /\ JobShards

\* Planning a request only hands out new shards, none of them registered yet.
LEMMA PlanRegistry ==
    ASSUME RegistryInv, NEW c, NEW op, NEW n \in Nat, NEW groups \in Nat,
           NEW k2, NEW g, NEW firstName,
           Plan(c, op, n, groups, k2, g, firstName),
           UNCHANGED <<registered, draining, jobs>>
    PROVE  Registry' /\ JobShards'
<1>1. nShards \in Nat /\ nShards' \in Nat /\ nShards <= nShards'
  BY BoundsAssumption DEF RegistryInv, TypeInv, TypeOK, Plan
<1>2. \A s \in 1 .. nShards : setName'[s] = setName[s]
  BY <1>1, BoundsAssumption DEF RegistryInv, TypeInv, TypeOK, Plan
<1>3. QED
  BY <1>1, <1>2 DEF RegistryInv, Registry, RegisteredNamesDiffer, JobShards

LEMMA ClientRegistry ==
    ASSUME RegistryInv, NEW c \in Clients, ClientStep(c)
    PROVE  Registry' /\ JobShards'
<1>1. CASE CreateCluster(c)
  BY <1>1, PlanRegistry, CreateAssumption DEF CreateCluster, mongoVars
<1>2. CASE StartGrow(c)
  <2>1. PICK n, top, k2, g :
            /\ n \in Nat /\ top \in Nat
            /\ Plan(c, "grow", n, top, k2, g, NextShardNumber)
    BY <1>2, BoundsAssumption DEF StartGrow
  <2>2. QED BY <1>2, <2>1, PlanRegistry DEF StartGrow, mongoVars
<1>3. CASE StartShrink(c)
  BY <1>3 DEF StartShrink, infoVars, mongoVars, RegistryInv, Registry,
              RegisteredNamesDiffer, JobShards
<1>4. QED BY <1>1, <1>2, <1>3 DEF ClientStep

LEMMA ApiRegistry ==
    ASSUME RegistryInv, NEW c \in Clients, ApiStep(c) \/ ApiCrash(c)
    PROVE  Registry' /\ JobShards'
<1> USE DEF RegistryInv, Registry, RegisteredNamesDiffer, JobShards, infoVars,
            mongoVars
<1>1. CASE \/ CreateInstance(c) \/ CreateInstanceFails(c) \/ MarkTask(c)
           \/ DrainDone(c) \/ DetachInstance(c) \/ DestroyInstance(c)
           \/ FinishShrink(c) \/ ShrinkFails(c) \/ ApiCrash(c)
  BY <1>1 DEF CreateInstance, CreateInstanceFails, MarkTask, DrainDone,
              DetachInstance, DestroyInstance, FinishShrink, ShrinkFails,
              ApiCrash
<1>2. CASE CastJob(c)
  BY <1>2 DEF CastJob
<1>3. ASSUME NEW s \in Shards, StartDrain(c, s) PROVE Registry' /\ JobShards'
  BY <1>3 DEF StartDrain, SameName
<1>4. ASSUME NEW s \in Shards, FinishDrain(c, s) PROVE Registry' /\ JobShards'
  BY <1>4 DEF FinishDrain
<1>5. QED BY <1>1, <1>2, <1>3, <1>4 DEF ApiStep

LEMMA JobRegistry ==
    ASSUME RegistryInv, NEW j \in jobs, JobStep(j)
    PROVE  Registry' /\ JobShards'
<1> USE DEF RegistryInv, Registry, RegisteredNamesDiffer, JobShards, infoVars,
            mongoVars
<1>0. j \in Job /\ jobs \subseteq Job
  BY DEF TypeInv, TypeOK
<1>1. CASE JobReady(j)
  <2> DEFINE ids == IF j.op = "create" THEN attached ELSE j.ids
  <2>1. PICK r : jobs' = (jobs \ {j}) \cup
                  {[j EXCEPT !.pc = IF j.op = "create" THEN "config"
                                                       ELSE "routers",
                             !.ids = ids, !.shards = ShardsOf(ids),
                             !.router = r]}
    BY <1>1 DEF JobReady, JobGoesTo
  <2>2. ids \subseteq Inst
    BY <1>0 DEF Job, TypeInv, TypeOK
  <2>3. ShardsOf(ids) \subseteq 1 .. nShards
    BY <2>2, ShardsOfType
  <2> HIDE DEF ids
  <2>4. \A k \in jobs' : k \in jobs \/ k.shards = ShardsOf(ids)
    BY <1>0, <2>1 DEF Job
  <2>5. JobShards'
    BY <1>1, <2>3, <2>4 DEF JobReady
  <2>6. QED BY <1>1, <2>5 DEF JobReady
<1>2. CASE JobInitConfig(j) \/ JobRoutersDone(j) \/ JobShardsDone(j)
  <2>1. \A k \in jobs' : k \in jobs \/ k.shards = j.shards
    BY <1>0, <1>2
    DEF JobInitConfig, JobRoutersDone, JobShardsDone, JobGoesTo, Job
  <2>2. QED BY <1>2, <2>1 DEF JobInitConfig, JobRoutersDone, JobShardsDone
<1>3. CASE JobConfigureRouter(j) \/ JobComplete(j) \/ JobFail(j)
  BY <1>3 DEF JobConfigureRouter, JobComplete, JobFail
<1>4. CASE JobCreateShard(j)
  <2>1. PICK s \in j.shards : /\ registered' = add_shard(s)
                              /\ JobGoesTo(j, [j EXCEPT !.shards = @ \ {s}])
    BY <1>4 DEF JobCreateShard
  <2>2. \A k \in jobs' : k \in jobs \/ k.shards = j.shards \ {s}
    BY <1>0, <2>1 DEF JobGoesTo, Job
  <2>3. JobShards'
    BY <1>4, <2>2 DEF JobCreateShard
  <2>4. s \in 1 .. nShards
    OBVIOUS
  <2>5. Registry'
    BY <1>4, <2>1, <2>4 DEF JobCreateShard, add_shard, SameName
  <2>6. QED BY <2>3, <2>5
<1>5. QED BY <1>1, <1>2, <1>3, <1>4 DEF JobStep

LEMMA RegistryStep == RegistryInv /\ [Next]_vars => RegistryInv'
<1> SUFFICES ASSUME RegistryInv, [Next]_vars PROVE Registry' /\ JobShards'
  BY TypeStep DEF RegistryInv
<1>1. ASSUME NEW c \in Clients, ClientStep(c) \/ ApiStep(c) \/ ApiCrash(c)
      PROVE  Registry' /\ JobShards'
  BY <1>1, ClientRegistry, ApiRegistry
<1>2. ASSUME NEW j \in jobs, JobStep(j) PROVE Registry' /\ JobShards'
  BY <1>2, JobRegistry
<1>3. CASE TaskManagerCrash \/ UNCHANGED vars
  BY <1>3 DEF TaskManagerCrash, vars, infoVars, mongoVars, RegistryInv,
              Registry, RegisteredNamesDiffer, JobShards
<1>4. QED BY <1>1, <1>2, <1>3 DEF Next

LEMMA RegistryInit == Init => RegistryInv
  BY TypeInit DEF Init, RegistryInv, Registry, RegisteredNamesDiffer, JobShards

-----------------------------------------------------------------------------
(* One request at a time *)

OneClient == \A c, d \in Clients : c = d

\* The status under which each phase of a request runs.
RequestTask(r) ==
    IF r.op = "create" THEN "BUILDING_INITIAL"
    ELSE IF r.op = "grow" /\ r.pc = "cast" THEN "GROWING_CLUSTER"
    ELSE IF r.op = "shrink" /\ r.pc # "mark" THEN "SHRINKING_CLUSTER"
    ELSE "NONE"

JobTask(j) == IF j.op = "create" THEN "BUILDING_INITIAL"
                                 ELSE "GROWING_CLUSTER"

\* task_status works as a lock.
Lock ==
    /\ \A c \in Clients : api[c].pc # "idle"
                             => jobs = {} /\ task = RequestTask(api[c])
    /\ \A j \in jobs : task = JobTask(j) /\ \A k \in jobs : j = k

\* The instances in ids are all the instances of their shards.
OwnsShards(ids) ==
    \A i \in Inst : kind[i] = "member" /\ shardOf[i] \in ShardsOf(ids)
                       => i \in ids

\* What a request and a job know of the instances they work on.
RequestFlow(r) ==
    /\ r.op \in {"create", "grow"} =>
          /\ OwnsShards(r.ids)
          /\ r.todo \subseteq r.ids
          /\ r.ids \ r.todo \subseteq attached \cap alive
          /\ r.pc # "creating" => r.todo = {}
          /\ r.op = "create" => attached \subseteq r.ids
    /\ r.op = "shrink" =>
          /\ r.todo \subseteq r.ids
          /\ r.pc = "destroy" => r.victim \in r.ids
          /\ r.pc \in {"drop", "destroy"} => r.shards = {}
          /\ (ShardsOf(r.ids) \ r.shards) \cap registered = {}

JobFlow(j) ==
    /\ OwnsShards(j.ids)
    /\ j.ids \subseteq attached \cap alive
    /\ j.op = "create" => attached \subseteq j.ids
    /\ j.shards \subseteq ShardsOf(j.ids)

Flow ==
    /\ \A c \in Clients : api[c].pc # "idle" => RequestFlow(api[c])
    /\ \A j \in jobs : JobFlow(j)
    /\ task = "ABSENT" => attached = {}

SerialInv == RegistryInv /\ Lock /\ Flow /\ RegisteredShardsIntact

\* What the steps of the only client's request do to api.
LEMMA Requests ==
    ASSUME TypeInv, OneClient, NEW c \in Clients
    PROVE  /\ api[c] \in Request /\ Shape(api[c])
           /\ \A d \in Clients : d = c
           /\ \A r : RequestGoesTo(c, r) => \A d \in Clients : api'[d] = r
  BY DEF TypeInv, TypeOK, RequestShape, OneClient, RequestGoesTo

LEMMA LockClient ==
    ASSUME SerialInv, OneClient, NEW c \in Clients, ClientStep(c)
    PROVE  Lock' /\ jobs' = {} /\ jobs = {}
<1>0. TypeInv
  BY DEF SerialInv, RegistryInv
<1>1. jobs = {} /\ jobs' = jobs
  <2>1. task \in {"ABSENT", "NONE"} /\ jobs' = jobs
    BY DEF ClientStep, CreateCluster, StartGrow, StartShrink
  <2>2. \A j \in jobs : task \in {"BUILDING_INITIAL", "GROWING_CLUSTER"}
    BY DEF SerialInv, Lock, JobTask
  <2>3. QED BY <2>1, <2>2
<1>2. CASE CreateCluster(c)
  <2> DEFINE r(S) == [Idle EXCEPT !.op = "create", !.pc = "creating",
                                  !.ids = S, !.todo = S]
  <2>1. PICK S : RequestGoesTo(c, r(S))
    BY <1>2 DEF CreateCluster, Plan
  <2>2. \A d \in Clients : api'[d] = r(S)
    BY <1>0, <2>1, Requests
  <2>3. r(S).op = "create"
    BY DEF Idle
  <2>4. QED
    BY <1>1, <1>2, <2>2, <2>3 DEF Lock, RequestTask, JobTask, CreateCluster
<1>3. CASE StartGrow(c)
  <2> DEFINE r(S) == [Idle EXCEPT !.op = "grow", !.pc = "creating",
                                  !.ids = S, !.todo = S]
  <2>1. PICK S : RequestGoesTo(c, r(S))
    BY <1>3 DEF StartGrow, Plan
  <2>2. \A d \in Clients : api'[d] = r(S)
    BY <1>0, <2>1, Requests
  <2>3. r(S).op = "grow" /\ r(S).pc = "creating"
    BY DEF Idle
  <2>4. QED
    BY <1>1, <1>3, <2>2, <2>3 DEF Lock, RequestTask, JobTask, StartGrow
<1>4. CASE StartShrink(c)
  <2> DEFINE q(S, r) == [Idle EXCEPT !.op = "shrink", !.pc = "mark",
                                     !.ids = S, !.todo = S,
                                     !.shards = ShardsOf(S), !.router = r]
  <2>1. PICK S, r : RequestGoesTo(c, q(S, r))
    BY <1>4 DEF StartShrink
  <2>2. \A d \in Clients : api'[d] = q(S, r)
    BY <1>0, <2>1, Requests
  <2>3. q(S, r).op = "shrink" /\ q(S, r).pc = "mark"
    BY DEF Idle
  <2>4. QED
    BY <1>1, <1>4, <2>2, <2>3 DEF Lock, RequestTask, JobTask, StartShrink
<1>5. QED BY <1>1, <1>2, <1>3, <1>4 DEF ClientStep

LEMMA LockApi ==
    ASSUME SerialInv, OneClient, NEW c \in Clients, ApiStep(c) \/ ApiCrash(c)
    PROVE  Lock' /\ jobs = {} /\ api[c].pc # "idle"
<1>0. TypeInv
  BY DEF SerialInv, RegistryInv
<1>r. /\ api[c] \in Request /\ Shape(api[c])
      /\ \A d \in Clients : d = c
      /\ \A r : RequestGoesTo(c, r) => \A d \in Clients : api'[d] = r
  BY <1>0, Requests
<1>1. api[c].pc # "idle"
  BY DEF ApiStep, ApiCrash, CreateInstance, CreateInstanceFails, MarkTask,
         CastJob, StartDrain, FinishDrain, CanDrain, DrainDone,
         DetachInstance, DestroyInstance, FinishShrink, ShrinkFails
<1>2. jobs = {} /\ task = RequestTask(api[c])
  BY <1>1 DEF SerialInv, Lock
<1>3. CASE CreateInstance(c)
  <2>1. PICK i : RequestGoesTo(c, [api[c] EXCEPT
                !.todo = @ \ {i},
                !.pc = IF api[c].todo # {i} THEN "creating"
                       ELSE IF api[c].op = "create" THEN "cast" ELSE "mark"])
    BY <1>3 DEF CreateInstance
  <2> DEFINE r == [api[c] EXCEPT
                !.todo = @ \ {i},
                !.pc = IF api[c].todo # {i} THEN "creating"
                       ELSE IF api[c].op = "create" THEN "cast" ELSE "mark"]
  <2>2. /\ r.op = api[c].op
        /\ r.pc = "cast" => r.op = "create"
        /\ api[c].pc = "creating" /\ api[c].op \in {"create", "grow"}
    BY <1>r, <1>3 DEF Request, CreateInstance, Shape
  <2>3. \A d \in Clients : api'[d] = r
    BY <1>r, <2>1
  <2> HIDE DEF r
  <2>4. RequestTask(r) = RequestTask(api[c])
    BY <2>2 DEF RequestTask
  <2>5. QED BY <1>2, <1>3, <2>3, <2>4 DEF Lock, CreateInstance
<1>4. CASE CreateInstanceFails(c) \/ FinishShrink(c) \/ ShrinkFails(c)
           \/ ApiCrash(c)
  <2>1. RequestGoesTo(c, Idle) /\ jobs' = {}
    BY <1>2, <1>4 DEF CreateInstanceFails, FinishShrink, ShrinkFails, ApiCrash
  <2>2. \A d \in Clients : api'[d] = Idle
    BY <1>r, <2>1
  <2>3. Idle.pc = "idle"
    BY DEF Idle
  <2>4. QED BY <1>1, <1>2, <2>1, <2>2, <2>3 DEF Lock, RequestTask, JobTask
<1>5. CASE MarkTask(c)
  <2> DEFINE r == [api[c] EXCEPT !.pc = IF api[c].op = "grow" THEN "cast"
                                                             ELSE "drain"]
  <2>1. RequestGoesTo(c, r) /\ jobs' = {} /\ task' = BusyStatus(api[c].op)
    BY <1>2, <1>5 DEF MarkTask
  <2>2. /\ api[c].op \in {"grow", "shrink"} /\ r.op = api[c].op
        /\ r.pc = IF api[c].op = "grow" THEN "cast" ELSE "drain"
    BY <1>r, <1>5 DEF MarkTask, Shape, Request
  <2>3. \A d \in Clients : api'[d] = r
    BY <1>r, <2>1
  <2> HIDE DEF r
  <2>4. task' = RequestTask(r)
    BY <2>1, <2>2 DEF RequestTask, BusyStatus
  <2>5. QED BY <1>1, <1>2, <2>1, <2>3, <2>4 DEF Lock, RequestTask, JobTask
<1>6. CASE CastJob(c)
  <2>1. \A d \in Clients : api'[d] = Idle
    BY <1>r, <1>6 DEF CastJob
  <2>2. api[c].pc = "cast" /\ api[c].op \in {"create", "grow"}
    BY <1>r, <1>6 DEF CastJob, Shape
  <2>3. jobs' = {[op |-> api[c].op, pc |-> "wait", ids |-> api[c].ids,
                  shards |-> {}, router |-> NoInst]} /\ task' = task
    BY <1>2, <1>6 DEF CastJob
  <2>4. QED
    BY <1>2, <2>1, <2>2, <2>3 DEF Lock, RequestTask, JobTask, Idle
<1>7. ASSUME NEW s, StartDrain(c, s) PROVE Lock'
  BY <1>7 DEF StartDrain, SerialInv, Lock
<1>8. CASE \/ \E s \in Shards : FinishDrain(c, s)
           \/ DrainDone(c) \/ DetachInstance(c) \/ DestroyInstance(c)
  <2>1. PICK r : /\ RequestGoesTo(c, r) /\ r.op = api[c].op
                 /\ r.pc \in {"drain", "drop", "destroy"}
    BY <1>r, <1>8 DEF FinishDrain, CanDrain, DrainDone, DetachInstance,
                      DestroyInstance, Request
  <2>2. jobs' = {} /\ task' = task /\ api[c].pc \in {"drain", "drop", "destroy"}
    BY <1>2, <1>8 DEF FinishDrain, CanDrain, DrainDone, DetachInstance,
                      DestroyInstance
  <2>3. \A d \in Clients : api'[d] = r
    BY <1>r, <2>1
  <2>4. QED BY <1>r, <1>2, <2>1, <2>2, <2>3 DEF Lock, RequestTask, Shape
<1>9. QED
  BY <1>1, <1>2, <1>3, <1>4, <1>5, <1>6, <1>7, <1>8 DEF ApiStep

LEMMA LockJob ==
    ASSUME SerialInv, OneClient, NEW j \in jobs, JobStep(j)
    PROVE  /\ Lock'
           /\ jobs = {j} /\ task = JobTask(j)
           /\ \A c \in Clients : api[c].pc = "idle"
<1>0. j \in Job
  BY DEF SerialInv, RegistryInv, TypeInv, TypeOK
<1>1. /\ jobs = {j} /\ task = JobTask(j)
      /\ \A c \in Clients : api[c].pc = "idle"
  BY DEF SerialInv, Lock
<1>2. ASSUME NEW k, JobGoesTo(j, k), k.op = j.op, UNCHANGED <<task, api>>
      PROVE  Lock'
  <2>1. jobs' = {k}
    BY <1>1, <1>2 DEF JobGoesTo
  <2>2. QED BY <1>1, <1>2, <2>1 DEF Lock, RequestTask, JobTask
<1>6. CASE JobReady(j)
  <2>1. PICK p, S, r :
            JobGoesTo(j, [j EXCEPT !.pc = p, !.ids = S,
                                   !.shards = ShardsOf(S), !.router = r])
    BY <1>6 DEF JobReady
  <2>2. [j EXCEPT !.pc = p, !.ids = S, !.shards = ShardsOf(S),
                  !.router = r].op = j.op
    BY <1>0 DEF Job
  <2>3. QED BY <1>1, <1>2, <1>6, <2>1, <2>2 DEF JobReady
<1>7. CASE JobInitConfig(j) \/ JobRoutersDone(j) \/ JobShardsDone(j)
  <2>1. PICK p : JobGoesTo(j, [j EXCEPT !.pc = p])
    BY <1>7 DEF JobInitConfig, JobRoutersDone, JobShardsDone
  <2>2. [j EXCEPT !.pc = p].op = j.op
    BY <1>0 DEF Job
  <2>3. QED
    BY <1>1, <1>2, <1>7, <2>1, <2>2
    DEF JobInitConfig, JobRoutersDone, JobShardsDone
<1>8. CASE JobCreateShard(j)
  <2>1. PICK s : JobGoesTo(j, [j EXCEPT !.shards = @ \ {s}])
    BY <1>8 DEF JobCreateShard
  <2>2. [j EXCEPT !.shards = @ \ {s}].op = j.op
    BY <1>0 DEF Job
  <2>3. QED BY <1>1, <1>2, <1>8, <2>1, <2>2 DEF JobCreateShard
<1>3. CASE JobConfigureRouter(j)
  BY <1>3 DEF JobConfigureRouter, SerialInv, Lock
<1>4. CASE JobComplete(j) \/ JobFail(j)
  <2>1. jobs' = {} /\ api' = api
    BY <1>1, <1>4 DEF JobComplete, JobFail
  <2>2. QED BY <1>1, <2>1 DEF Lock
<1>5. QED BY <1>1, <1>3, <1>4, <1>6, <1>7, <1>8 DEF JobStep

\* A planned request owns its shards, and the shards that are registered
\* already are not among them.
LEMMA PlanFlow ==
    ASSUME SerialInv, NEW c, NEW op, NEW n \in Nat, NEW groups \in Nat,
           NEW k2, NEW g \in [1 .. n -> 0 .. groups],
           \A k \in 1 .. n : k2[k] = "member" => g[k] # 0, NEW firstName,
           Plan(c, op, n, groups, k2, g, firstName),
           UNCHANGED <<attached, alive, registered>>,
           NEW new, new = nInst + 1 .. nInst + n
    PROVE  /\ \A i \in Inst : kind'[i] = "member"
                  => IF i \in new THEN shardOf'[i] \notin 1 .. nShards
                                  ELSE shardOf'[i] \in 1 .. nShards
           /\ RegisteredShardsIntact'
<1>0. nInst \in Nat /\ nShards \in Nat
  BY DEF SerialInv, RegistryInv, TypeInv, TypeOK
<1>1. ASSUME NEW i \in Inst, kind'[i] = "member"
      PROVE  IF i \in new THEN shardOf'[i] \notin 1 .. nShards
                          ELSE /\ shardOf'[i] \in 1 .. nShards
                               /\ kind[i] = kind'[i] /\ shardOf'[i] = shardOf[i]
  <2>1. CASE i \in new
    <3>1. i - nInst \in 1 .. n
      BY <1>0, <2>1
    <3>2. kind'[i] = k2[i - nInst]
      BY <2>1 DEF Plan
    <3>3. shardOf'[i] = nShards + g[i - nInst]
      BY <1>1, <2>1, <3>2 DEF Plan
    <3>4. g[i - nInst] \in Nat \ {0}
      BY <1>1, <3>1, <3>2
    <3>5. QED BY <1>0, <2>1, <3>3, <3>4
  <2>2. CASE i \notin new
    <3>1. kind'[i] = kind[i] /\ shardOf'[i] = shardOf[i]
      BY <2>2 DEF Plan
    <3>2. QED
      BY <1>1, <2>2, <3>1 DEF SerialInv, RegistryInv, TypeInv, MembersHaveShard
  <2>3. QED BY <2>1, <2>2
<1>2. RegisteredShardsIntact'
  <2>1. registered \subseteq 1 .. nShards
    BY DEF SerialInv, RegistryInv, Registry
  <2>2. SUFFICES ASSUME NEW i \in Inst, kind'[i] = "member",
                        shardOf'[i] \in registered'
                 PROVE  i \in attached' \cap alive'
    BY DEF RegisteredShardsIntact
  <2>3. i \notin new
    BY <1>1, <2>1, <2>2
  <2>4. QED BY <1>1, <2>2, <2>3 DEF SerialInv, RegisteredShardsIntact
<1>3. QED BY <1>1, <1>2

LEMMA FlowPlanned ==
    ASSUME SerialInv, OneClient, NEW c \in Clients,
           NEW op \in {"create", "grow"}, NEW n \in Nat, NEW groups \in Nat,
           NEW k2, NEW g \in [1 .. n -> 0 .. groups],
           \A k \in 1 .. n : k2[k] = "member" => g[k] # 0, NEW firstName,
           Plan(c, op, n, groups, k2, g, firstName),
           UNCHANGED <<attached, alive, registered>>,
           jobs' = {}, task' # "ABSENT", op = "create" => attached = {}
    PROVE  Flow' /\ RegisteredShardsIntact'
<1> DEFINE new == nInst + 1 .. nInst + n
           r == [Idle EXCEPT !.op = op, !.pc = "creating", !.ids = new,
                             !.todo = new]
<1>1. /\ \A i \in Inst : kind'[i] = "member"
             => IF i \in new THEN shardOf'[i] \notin 1 .. nShards
                             ELSE shardOf'[i] \in 1 .. nShards
      /\ RegisteredShardsIntact'
  BY PlanFlow
<1>2. \A d \in Clients : api'[d] = r
  <2>1. RequestGoesTo(c, r)
    BY DEF Plan
  <2>2. QED BY <2>1, Requests DEF SerialInv, RegistryInv
<1>3. r.op = op /\ r.pc = "creating" /\ r.ids = new /\ r.todo = new
  BY DEF Idle
<1>n. new \subseteq Inst
  BY BoundsAssumption DEF Plan, SerialInv, RegistryInv, TypeInv, TypeOK
<1> HIDE DEF new, r
<1>4. ASSUME NEW d \in Clients PROVE RequestFlow(api[d])'
  <2>1. api'[d] = r
    BY <1>2
  <2>2. OwnsShards(api[d].ids)'
    BY <1>1, <1>3, <1>n, <2>1 DEF OwnsShards, ShardsOf, Of
  <2>3. QED BY <1>3, <2>1, <2>2 DEF RequestFlow
<1>5. QED BY <1>1, <1>4 DEF Flow

LEMMA FlowClient ==
    ASSUME SerialInv, OneClient, NEW c \in Clients, ClientStep(c)
    PROVE  Flow' /\ RegisteredShardsIntact'
<1>0. jobs' = {} /\ jobs = {}
  BY LockClient
<1>1. CASE CreateCluster(c)
  <2> DEFINE n == InitMembers + NumConfig + NumRouters
             k2 == [k \in 1 .. n |->
                      IF k <= InitMembers THEN "member"
                      ELSE IF k <= InitMembers + NumConfig
                           THEN "config_server" ELSE "query_router"]
             g == [k \in 1 .. n |-> IF k <= InitMembers THEN 1 ELSE 0]
  <2>1. Plan(c, "create", n, 1, k2, g, 1)
    BY <1>1 DEF CreateCluster
  <2>2. n \in Nat /\ g \in [1 .. n -> 0 .. 1]
    BY CreateAssumption
  <2>3. \A k \in 1 .. n : k2[k] = "member" => g[k] # 0
    OBVIOUS
  <2>4. /\ UNCHANGED <<attached, alive, registered>>
        /\ task' # "ABSENT" /\ attached = {}
    BY <1>1 DEF CreateCluster, mongoVars, SerialInv, Flow
  <2> HIDE DEF n, k2, g
  <2>5. QED BY <1>0, <2>1, <2>2, <2>3, <2>4, FlowPlanned
<1>2. CASE StartGrow(c)
  <2>a. PICK n \in Nat, top \in Nat : \E g \in [1 .. n -> 0 .. top] :
            Plan(c, "grow", n, top,
                 [k \in 1 .. n |-> IF g[k] = 0 THEN "query_router"
                                               ELSE "member"],
                 g, NextShardNumber)
    <3>1. \A m \in 1 .. MaxNew : m \in Nat /\ \A t \in 0 .. m : t \in Nat
      BY BoundsAssumption
    <3>2. QED BY <1>2, <3>1 DEF StartGrow, GrowItems
  <2>1. PICK g \in [1 .. n -> 0 .. top] :
            Plan(c, "grow", n, top,
                 [k \in 1 .. n |-> IF g[k] = 0 THEN "query_router"
                                               ELSE "member"],
                 g, NextShardNumber)
    BY <2>a
  <2> DEFINE k2 == [k \in 1 .. n |-> IF g[k] = 0 THEN "query_router"
                                                ELSE "member"]
  <2>2. \A k \in 1 .. n : k2[k] = "member" => g[k] # 0
    OBVIOUS
  <2>3. UNCHANGED <<attached, alive, registered>> /\ task' # "ABSENT"
    BY <1>2 DEF StartGrow, mongoVars
  <2>4. Plan(c, "grow", n, top, k2, g, NextShardNumber)
    BY <2>1
  <2> HIDE DEF k2
  <2>5. QED BY <1>0, <2>2, <2>3, <2>4, FlowPlanned
<1>3. CASE StartShrink(c)
  <2> DEFINE q(S, r) == [Idle EXCEPT !.op = "shrink", !.pc = "mark",
                                     !.ids = S, !.todo = S,
                                     !.shards = ShardsOf(S), !.router = r]
  <2>1. PICK S, r : RequestGoesTo(c, q(S, r))
    BY <1>3 DEF StartShrink
  <2>2. \A d \in Clients : api'[d] = q(S, r)
    BY <2>1, Requests DEF SerialInv, RegistryInv
  <2>3. /\ q(S, r).op = "shrink" /\ q(S, r).pc = "mark"
        /\ q(S, r).ids = S /\ q(S, r).todo = S
        /\ q(S, r).shards = ShardsOf(S)
    BY DEF Idle
  <2>4. /\ UNCHANGED <<kind, shardOf, attached, alive, registered>>
        /\ task' # "ABSENT"
    BY <1>3 DEF StartShrink, infoVars, mongoVars
  <2> HIDE DEF q
  <2>5. ASSUME NEW d \in Clients PROVE RequestFlow(api[d])'
    BY <2>2, <2>3, <2>4 DEF RequestFlow, ShardsOf, Of
  <2>6. RegisteredShardsIntact'
    BY <2>4 DEF SerialInv, RegisteredShardsIntact
  <2>7. QED BY <1>0, <2>4, <2>5, <2>6 DEF Flow
<1>4. QED BY <1>1, <1>2, <1>3 DEF ClientStep
LEMMA FlowApi ==
    ASSUME SerialInv, OneClient, NEW c \in Clients, ApiStep(c) \/ ApiCrash(c)
    PROVE  Flow' /\ RegisteredShardsIntact'
<1>0. /\ TypeInv /\ Registry /\ RegisteredShardsIntact
      /\ attached \subseteq Inst /\ alive \subseteq Inst
      /\ registered \subseteq Shards
  BY DEF SerialInv, RegistryInv, TypeInv, TypeOK
<1>r. /\ api[c] \in Request /\ Shape(api[c])
      /\ \A d \in Clients : d = c
      /\ \A r : RequestGoesTo(c, r) => \A d \in Clients : api'[d] = r
  BY <1>0, Requests
<1>l. jobs = {} /\ api[c].pc # "idle" /\ task = RequestTask(api[c])
  BY LockApi DEF SerialInv, Lock
<1>f. RequestFlow(api[c])
  BY <1>l DEF SerialInv, Flow
<1>t. task # "ABSENT"
  BY <1>l DEF RequestTask
\* It is enough to look at the request of this client.
<1>q. ASSUME NEW r, RequestGoesTo(c, r), r.pc # "idle" => RequestFlow(r)',
             jobs' = {}, task' # "ABSENT"
      PROVE  Flow'
  BY <1>r, <1>q DEF Flow
<1>i. Idle.pc = "idle"
  BY DEF Idle
<1>1. CASE CreateInstance(c)
  <2>1. PICK i \in api[c].todo :
          /\ attached' = attached \cup {i}
          /\ alive' = alive \cup {i}
          /\ RequestGoesTo(c, [api[c] EXCEPT
                !.todo = @ \ {i},
                !.pc = IF api[c].todo # {i} THEN "creating"
                       ELSE IF api[c].op = "create" THEN "cast" ELSE "mark"])
    BY <1>1 DEF CreateInstance
  <2> DEFINE r == [api[c] EXCEPT
                !.todo = @ \ {i},
                !.pc = IF api[c].todo # {i} THEN "creating"
                       ELSE IF api[c].op = "create" THEN "cast" ELSE "mark"]
  <2>2. /\ r.op = api[c].op /\ r.ids = api[c].ids
        /\ r.todo = api[c].todo \ {i}
        /\ r.pc # "creating" => api[c].todo = {i}
        /\ r.op \in {"create", "grow"}
    BY <1>r, <1>1 DEF Request, CreateInstance, Shape
  <2>3. RequestGoesTo(c, r) /\ UNCHANGED <<kind, shardOf, registered>>
        /\ jobs' = {} /\ task' = task
    BY <1>1, <1>l, <2>1 DEF CreateInstance, infoVars, mongoVars
  <2> HIDE DEF r
  <2>x. PICK q : q = r
    OBVIOUS
  <2>4. RequestFlow(q)'
    BY <2>x, <1>f, <2>1, <2>2, <2>3 DEF RequestFlow, OwnsShards, ShardsOf, Of
  <2>5. Flow'
    BY <2>x, <1>q, <1>t, <2>3, <2>4
  <2>6. RegisteredShardsIntact'
    BY <1>0, <2>1, <2>3 DEF RegisteredShardsIntact
  <2>7. QED BY <2>5, <2>6
<1>2. CASE CreateInstanceFails(c) \/ FinishShrink(c) \/ ShrinkFails(c)
           \/ ApiCrash(c)
  <2>1. /\ RequestGoesTo(c, Idle) /\ jobs' = {} /\ task' # "ABSENT"
        /\ UNCHANGED <<kind, shardOf, registered, attached, alive>>
    BY <1>2, <1>l, <1>t DEF CreateInstanceFails, FinishShrink, ShrinkFails,
                            ApiCrash, infoVars, mongoVars
  <2>2. Flow'
    BY <1>i, <1>q, <2>1
  <2>3. RegisteredShardsIntact'
    BY <1>0, <2>1 DEF RegisteredShardsIntact
  <2>4. QED BY <2>2, <2>3
<1>3. CASE MarkTask(c)
  <2> DEFINE r == [api[c] EXCEPT !.pc = IF api[c].op = "grow" THEN "cast"
                                                             ELSE "drain"]
  <2>1. /\ RequestGoesTo(c, r) /\ jobs' = {} /\ task' # "ABSENT"
        /\ UNCHANGED <<kind, shardOf, registered, attached, alive>>
    BY <1>3, <1>l DEF MarkTask, BusyStatus, infoVars, mongoVars
  <2>2. /\ r.op = api[c].op /\ r.ids = api[c].ids /\ r.todo = api[c].todo
        /\ r.shards = api[c].shards /\ r.pc \in {"cast", "drain"}
        /\ api[c].pc = "mark"
    BY <1>r, <1>3 DEF Request, MarkTask
  <2> HIDE DEF r
  <2>x. PICK q : q = r
    OBVIOUS
  <2>3. RequestFlow(q)'
    BY <2>x, <1>f, <2>1, <2>2 DEF RequestFlow, OwnsShards, ShardsOf, Of
  <2>4. Flow'
    BY <2>x, <1>q, <2>1, <2>3
  <2>5. RegisteredShardsIntact'
    BY <1>0, <2>1 DEF RegisteredShardsIntact
  <2>6. QED BY <2>4, <2>5
<1>4. CASE CastJob(c)
  <2> DEFINE k == [op |-> api[c].op, pc |-> "wait", ids |-> api[c].ids,
                   shards |-> {}, router |-> NoInst]
  <2>1. /\ RequestGoesTo(c, Idle) /\ jobs' = {k} /\ task' = task
        /\ UNCHANGED <<kind, shardOf, registered, attached, alive>>
    BY <1>4, <1>l DEF CastJob, infoVars, mongoVars
  <2>2. api[c].op \in {"create", "grow"} /\ api[c].pc = "cast"
    BY <1>r, <1>4 DEF CastJob, Shape
  <2>3. k.op = api[c].op /\ k.ids = api[c].ids /\ k.shards = {}
    OBVIOUS
  <2> HIDE DEF k
  <2>x. PICK q : q = k
    OBVIOUS
  <2>4. JobFlow(q)'
    BY <2>x, <1>f, <2>1, <2>2, <2>3 DEF RequestFlow, JobFlow, OwnsShards, ShardsOf,
                                  Of
  <2>5. \A d \in Clients : api'[d].pc = "idle"
    BY <1>i, <1>r, <2>1
  <2>6. Flow'
    BY <1>t, <2>x, <2>1, <2>4, <2>5 DEF Flow
  <2>7. RegisteredShardsIntact'
    BY <1>0, <2>1 DEF RegisteredShardsIntact
  <2>8. QED BY <2>6, <2>7
<1>5. ASSUME NEW s \in Shards, StartDrain(c, s)
      PROVE  Flow' /\ RegisteredShardsIntact'
  <2>1. UNCHANGED <<kind, shardOf, registered, attached, alive, task, api,
                    jobs>>
    BY <1>5 DEF StartDrain, infoVars
  <2>2. Flow'
    BY <2>1 DEF SerialInv, Flow, RequestFlow, JobFlow, OwnsShards, ShardsOf,
                Of
  <2>3. QED BY <1>0, <2>1, <2>2 DEF RegisteredShardsIntact
<1>6. ASSUME NEW s \in Shards, FinishDrain(c, s)
      PROVE  Flow' /\ RegisteredShardsIntact'
  <2> DEFINE r == [api[c] EXCEPT !.shards = @ \ {s}]
  <2>1. /\ RequestGoesTo(c, r) /\ jobs' = {} /\ task' = task
        /\ UNCHANGED <<kind, shardOf, attached, alive>>
        /\ registered' = registered \ SameName(s)
    BY <1>6, <1>l DEF FinishDrain, Completed, infoVars
  <2>2. /\ r.op = api[c].op /\ r.ids = api[c].ids /\ r.todo = api[c].todo
        /\ r.shards = api[c].shards \ {s} /\ r.pc = "drain"
        /\ r.op = "shrink"
    BY <1>r, <1>6 DEF Request, FinishDrain, CanDrain, Shape
  <2> HIDE DEF r
  <2>x. PICK q : q = r
    OBVIOUS
  <2>3. s \notin registered' /\ registered' \subseteq registered
    BY <2>1 DEF SameName
  <2>4. RequestFlow(q)'
    BY <2>x, <1>f, <2>1, <2>2, <2>3 DEF RequestFlow, ShardsOf, Of
  <2>5. Flow'
    BY <2>x, <1>q, <1>t, <2>1, <2>4
  <2>6. RegisteredShardsIntact'
    BY <1>0, <2>1, <2>3 DEF RegisteredShardsIntact
  <2>7. QED BY <2>5, <2>6
<1>7. CASE DrainDone(c)
  <2> DEFINE r == [api[c] EXCEPT !.pc = "drop"]
  <2>1. /\ RequestGoesTo(c, r) /\ jobs' = {} /\ task' = task
        /\ UNCHANGED <<kind, shardOf, registered, attached, alive>>
    BY <1>7, <1>l DEF DrainDone, infoVars, mongoVars
  <2>2. /\ r.op = api[c].op /\ r.ids = api[c].ids /\ r.todo = api[c].todo
        /\ r.shards = {} /\ api[c].shards = {} /\ r.pc = "drop"
        /\ r.op = "shrink"
    BY <1>r, <1>7 DEF Request, DrainDone, Shape
  <2> HIDE DEF r
  <2>x. PICK q : q = r
    OBVIOUS
  <2>3. RequestFlow(q)'
    BY <2>x, <1>f, <2>1, <2>2 DEF RequestFlow, ShardsOf, Of
  <2>4. Flow'
    BY <2>x, <1>q, <1>t, <2>1, <2>3
  <2>5. RegisteredShardsIntact'
    BY <1>0, <2>1 DEF RegisteredShardsIntact
  <2>6. QED BY <2>4, <2>5
\* A requested member whose shards are drained is not of a registered shard.
<1>v. ASSUME NEW i \in api[c].ids, api[c].pc \in {"drop", "destroy"}
      PROVE  ~(kind[i] = "member" /\ shardOf[i] \in registered)
  BY <1>f, <1>r, <1>v DEF RequestFlow, ShardsOf, Of, Shape
<1>8. CASE DetachInstance(c)
  <2>1. PICK i \in api[c].todo \cap alive :
          /\ attached' = attached \ {i}
          /\ RequestGoesTo(c, [api[c] EXCEPT !.pc = "destroy",
                                             !.todo = @ \ {i},
                                             !.victim = i])
    BY <1>8 DEF DetachInstance
  <2> DEFINE r == [api[c] EXCEPT !.pc = "destroy", !.todo = @ \ {i},
                                 !.victim = i]
  <2>2. /\ RequestGoesTo(c, r) /\ jobs' = {} /\ task' = task
        /\ UNCHANGED <<kind, shardOf, registered, alive>>
        /\ api[c].pc = "drop"
    BY <1>8, <1>l, <2>1 DEF DetachInstance, infoVars, mongoVars
  <2>3. /\ r.op = api[c].op /\ r.ids = api[c].ids
        /\ r.todo = api[c].todo \ {i} /\ r.victim = i
        /\ r.shards = api[c].shards /\ r.op = "shrink"
    BY <1>r, <2>2 DEF Request, Shape
  <2> HIDE DEF r
  <2>x. PICK q : q = r
    OBVIOUS
  <2>4. i \in api[c].ids
    BY <1>f, <2>3 DEF RequestFlow
  <2>5. RequestFlow(q)'
    BY <2>x, <1>f, <2>2, <2>3, <2>4 DEF RequestFlow, ShardsOf, Of
  <2>6. Flow'
    BY <2>x, <1>q, <1>t, <2>2, <2>5
  <2>7. RegisteredShardsIntact'
    BY <1>0, <1>v, <2>1, <2>2, <2>4 DEF RegisteredShardsIntact
  <2>8. QED BY <2>6, <2>7
<1>9. CASE DestroyInstance(c)
  <2> DEFINE r == [api[c] EXCEPT !.pc = "drop", !.victim = NoInst]
  <2>1. /\ RequestGoesTo(c, r) /\ jobs' = {} /\ task' = task
        /\ UNCHANGED <<kind, shardOf, registered, attached>>
        /\ alive' = alive \ {api[c].victim}
        /\ api[c].pc = "destroy"
    BY <1>9, <1>l DEF DestroyInstance, infoVars, mongoVars
  <2>2. /\ r.op = api[c].op /\ r.ids = api[c].ids /\ r.todo = api[c].todo
        /\ r.shards = api[c].shards /\ r.pc = "drop" /\ r.op = "shrink"
    BY <1>r, <2>1 DEF Request, Shape
  <2> HIDE DEF r
  <2>x. PICK q : q = r
    OBVIOUS
  <2>3. api[c].victim \in api[c].ids
    BY <1>f, <2>1, <2>2 DEF RequestFlow
  <2>4. RequestFlow(q)'
    BY <2>x, <1>f, <2>1, <2>2 DEF RequestFlow, ShardsOf, Of
  <2>5. Flow'
    BY <2>x, <1>q, <1>t, <2>1, <2>4
  <2>6. RegisteredShardsIntact'
    BY <1>0, <1>v, <2>1, <2>3 DEF RegisteredShardsIntact
  <2>7. QED BY <2>5, <2>6
<1>10. QED
  BY <1>1, <1>2, <1>3, <1>4, <1>5, <1>6, <1>7, <1>8, <1>9 DEF ApiStep
LEMMA FlowJob ==
    ASSUME SerialInv, OneClient, NEW j \in jobs, JobStep(j)
    PROVE  Flow' /\ RegisteredShardsIntact'
<1>0. /\ j \in Job /\ JobFlow(j) /\ RegisteredShardsIntact
      /\ attached \subseteq Inst
  BY DEF SerialInv, RegistryInv, TypeInv, TypeOK, Flow
<1>1. /\ jobs = {j} /\ task = JobTask(j) /\ task # "ABSENT"
      /\ \A c \in Clients : api[c].pc = "idle"
  BY LockJob DEF JobTask
\* It is enough to look at the new state of this job.
<1>2. ASSUME NEW k, JobGoesTo(j, k), JobFlow(k)', UNCHANGED <<task, api>>
      PROVE  Flow'
  <2>1. jobs' = {k}
    BY <1>1, <1>2 DEF JobGoesTo
  <2>2. QED BY <1>1, <1>2, <2>1 DEF Flow
<1>3. CASE JobReady(j)
  <2> DEFINE ids == IF j.op = "create" THEN attached ELSE j.ids
             r(p, x) == [j EXCEPT !.pc = p, !.ids = ids,
                                  !.shards = ShardsOf(ids), !.router = x]
  <2>1. PICK p, x : JobGoesTo(j, r(p, x))
    BY <1>3 DEF JobReady
  <2>2. /\ UNCHANGED <<task, api, kind, shardOf, attached, alive, registered>>
        /\ ids \subseteq alive
    BY <1>3 DEF JobReady, infoVars, mongoVars
  <2>3. ids = j.ids
    BY <1>0 DEF JobFlow
  <2>4. PICK q : q = r(p, x)
    OBVIOUS
  <2>5. q.op = j.op /\ q.ids = ids /\ q.shards = ShardsOf(ids)
    BY <1>0, <2>4 DEF Job
  <2>6. JobGoesTo(j, q)
    BY <2>1, <2>4
  <2> HIDE DEF ids, r
  <2>7. JobFlow(q)'
    BY <1>0, <2>2, <2>3, <2>5 DEF JobFlow, OwnsShards, ShardsOf, Of
  <2>8. RegisteredShardsIntact'
    BY <1>0, <2>2 DEF RegisteredShardsIntact
  <2>9. QED BY <1>2, <2>2, <2>6, <2>7, <2>8
<1>4. CASE JobInitConfig(j) \/ JobRoutersDone(j) \/ JobShardsDone(j)
  <2>1. PICK p : JobGoesTo(j, [j EXCEPT !.pc = p])
    BY <1>4 DEF JobInitConfig, JobRoutersDone, JobShardsDone
  <2>2. UNCHANGED <<task, api, kind, shardOf, attached, alive, registered>>
    BY <1>4 DEF JobInitConfig, JobRoutersDone, JobShardsDone, infoVars,
                mongoVars
  <2>3. PICK q : q = [j EXCEPT !.pc = p]
    OBVIOUS
  <2>4. q.op = j.op /\ q.ids = j.ids /\ q.shards = j.shards
    BY <1>0, <2>3 DEF Job
  <2>5. JobFlow(q)'
    BY <1>0, <2>2, <2>4 DEF JobFlow, OwnsShards, ShardsOf, Of
  <2>6. RegisteredShardsIntact'
    BY <1>0, <2>2 DEF RegisteredShardsIntact
  <2>7. QED BY <1>2, <2>1, <2>2, <2>3, <2>5, <2>6
<1>5. CASE JobConfigureRouter(j)
  <2>1. UNCHANGED <<task, api, jobs, kind, shardOf, attached, alive,
                    registered>>
    BY <1>5 DEF JobConfigureRouter, infoVars
  <2>2. JobFlow(j)'
    BY <1>0, <2>1 DEF JobFlow, OwnsShards, ShardsOf, Of
  <2>3. Flow'
    BY <1>1, <2>1, <2>2 DEF Flow
  <2>4. QED BY <1>0, <2>1, <2>3 DEF RegisteredShardsIntact
<1>6. CASE JobCreateShard(j)
  <2>1. PICK s \in j.shards :
            /\ registered' = add_shard(s)
            /\ JobGoesTo(j, [j EXCEPT !.shards = @ \ {s}])
    BY <1>6 DEF JobCreateShard
  <2>2. UNCHANGED <<task, api, kind, shardOf, attached, alive>>
    BY <1>6 DEF JobCreateShard, infoVars
  <2>3. PICK q : q = [j EXCEPT !.shards = @ \ {s}]
    OBVIOUS
  <2>4. q.op = j.op /\ q.ids = j.ids /\ q.shards = j.shards \ {s}
    BY <1>0, <2>3 DEF Job
  <2>5. JobFlow(q)'
    BY <1>0, <2>2, <2>4 DEF JobFlow, OwnsShards, ShardsOf, Of
  <2>6. registered' \subseteq registered \cup {s}
    BY <2>1 DEF add_shard
  <2>7. \A i \in Inst : kind[i] = "member" /\ shardOf[i] = s
                           => i \in attached \cap alive
    BY <1>0 DEF JobFlow, OwnsShards
  <2>8. RegisteredShardsIntact'
    BY <1>0, <2>2, <2>6, <2>7 DEF RegisteredShardsIntact
  <2>9. QED BY <1>2, <2>1, <2>2, <2>3, <2>5, <2>8
<1>7. CASE JobComplete(j) \/ JobFail(j)
  <2>1. /\ jobs' = {} /\ task' # "ABSENT"
        /\ UNCHANGED <<api, kind, shardOf, attached, alive, registered>>
    BY <1>1, <1>7 DEF JobComplete, JobFail, TaskAfterFailure, infoVars,
                      mongoVars
  <2>2. Flow'
    BY <1>1, <2>1 DEF Flow
  <2>3. QED BY <1>0, <2>1, <2>2 DEF RegisteredShardsIntact
<1>8. QED BY <1>3, <1>4, <1>5, <1>6, <1>7 DEF JobStep

LEMMA SerialInit == Init => SerialInv
  BY RegistryInit DEF Init, SerialInv, Lock, Flow, RegisteredShardsIntact, Idle

LEMMA SerialStep == OneClient /\ SerialInv /\ [Next]_vars => SerialInv'
<1> SUFFICES ASSUME OneClient, SerialInv, [Next]_vars
             PROVE  Lock' /\ Flow' /\ RegisteredShardsIntact'
  BY RegistryStep DEF SerialInv
<1>1. ASSUME NEW c \in Clients, ClientStep(c) \/ ApiStep(c) \/ ApiCrash(c)
      PROVE  Lock' /\ Flow' /\ RegisteredShardsIntact'
  BY <1>1, LockClient, LockApi, FlowClient, FlowApi
<1>2. ASSUME NEW j \in jobs, JobStep(j)
      PROVE  Lock' /\ Flow' /\ RegisteredShardsIntact'
  BY <1>2, LockJob, FlowJob
<1>3. CASE TaskManagerCrash
  <2>1. /\ jobs' = {}
        /\ UNCHANGED <<task, api, kind, shardOf, attached, alive, registered>>
    BY <1>3 DEF TaskManagerCrash, infoVars, mongoVars
  <2>2. \A c \in Clients : api[c].pc = "idle"
    BY <1>3 DEF TaskManagerCrash, SerialInv, Lock
  <2>3. QED
    BY <2>1, <2>2 DEF SerialInv, Lock, Flow, RegisteredShardsIntact
<1>4. CASE UNCHANGED vars
  <2>1. UNCHANGED <<task, api, jobs, kind, shardOf, attached, alive,
                    registered>>
    BY <1>4 DEF vars, infoVars, mongoVars
  <2>2. Lock' /\ RegisteredShardsIntact'
    BY <2>1 DEF SerialInv, Lock, RequestTask, JobTask, RegisteredShardsIntact
  <2>3. Flow'
    BY <2>1 DEF SerialInv, Flow, RequestFlow, JobFlow, OwnsShards, ShardsOf,
                Of
  <2>4. QED BY <2>2, <2>3
<1>5. QED BY <1>1, <1>2, <1>3, <1>4 DEF Next

LEMMA SerialAlways == OneClient => (Spec => []SerialInv)
<1>1. SUFFICES ASSUME OneClient PROVE Spec => []SerialInv
  OBVIOUS
<1>2. SerialInv /\ [Next]_vars => SerialInv'
  BY <1>1, SerialStep
<1>3. QED BY <1>2, SerialInit, PTL DEF Spec

\* With one request at a time, _shrink_sharded, its failures and the jobs of
\* the task manager never detach or delete an instance of a shard that the
\* config servers still list, for any number of instances and shards.
THEOREM NoRegisteredShardLost ==
    OneClient => (Spec => []RegisteredShardsIntact)
<1>1. SUFFICES ASSUME OneClient PROVE Spec => []RegisteredShardsIntact
  OBVIOUS
<1>2. Spec => []SerialInv
  BY <1>1, SerialAlways
<1>3. SerialInv => RegisteredShardsIntact
  BY DEF SerialInv
<1>4. QED BY <1>2, <1>3, PTL

\* With one request at a time, task_status works as a lock: a request never
\* runs beside a task-manager job, nor two jobs beside each other.
THEOREM TopologyChangesSerialised ==
    OneClient => (Spec => []OneTopologyChange)
<1>1. SUFFICES ASSUME OneClient PROVE Spec => []OneTopologyChange
  OBVIOUS
<1>2. Spec => []SerialInv
  BY <1>1, SerialAlways
<1>3. SerialInv => OneTopologyChange
  <2> SUFFICES ASSUME SerialInv PROVE OneTopologyChange
    OBVIOUS
  <2> DEFINE busy == {c \in Clients : api[c].pc # "idle"}
  <2>1. Cardinality({}) = 0 /\ \A x : Cardinality({x}) = 1
    BY FS_EmptySet, FS_Singleton
  <2>2. jobs = {} \/ \E j : jobs = {j}
    BY DEF SerialInv, Lock
  <2>3. busy = {} \/ \E c : busy = {c}
    BY <1>1 DEF OneClient
  <2>4. jobs = {} \/ busy = {}
    BY DEF SerialInv, Lock
  <2> HIDE DEF busy
  <2>a. Cardinality(jobs) = 0 \/ Cardinality(jobs) = 1
    BY <2>1, <2>2
  <2>b. Cardinality(busy) = 0 \/ Cardinality(busy) = 1
    BY <2>1, <2>3
  <2>c. Cardinality(jobs) = 0 \/ Cardinality(busy) = 0
    BY <2>1, <2>4
  <2>5. Cardinality(jobs) + Cardinality(busy) <= 1
    BY <2>a, <2>b, <2>c
  <2>6. QED BY <2>5 DEF OneTopologyChange, busy
<1>4. QED BY <1>2, <1>3, PTL

-----------------------------------------------------------------------------
(* Failures stay visible *)

\* Once a job has failed nothing runs and the cluster is not available.
Stopped ==
    errored # {} => /\ task \notin {"ABSENT", "NONE"}
                    /\ jobs = {}
                    /\ \A c \in Clients : api[c].pc = "idle"

LEMMA StoppedStep ==
    OneClient /\ SerialInv /\ Stopped /\ [Next]_vars => Stopped'
<1> SUFFICES ASSUME OneClient, SerialInv, Stopped, [Next]_vars PROVE Stopped'
  OBVIOUS
<1>1. ASSUME NEW c \in Clients, ClientStep(c) PROVE Stopped'
  BY <1>1 DEF ClientStep, CreateCluster, StartGrow, StartShrink, Stopped
<1>2. ASSUME NEW c \in Clients, ApiStep(c) \/ ApiCrash(c) PROVE Stopped'
  <2>1. errored = {}
    BY <1>2, LockApi DEF Stopped
  <2>2. errored' = errored
    BY <1>2 DEF ApiStep, ApiCrash, CreateInstance, CreateInstanceFails,
       MarkTask, CastJob, StartDrain, FinishDrain, DrainDone, DetachInstance,
       DestroyInstance, FinishShrink, ShrinkFails
  <2>3. QED BY <2>1, <2>2 DEF Stopped
<1>3. ASSUME NEW j \in jobs, JobStep(j) PROVE Stopped'
  <2>1. /\ errored = {} /\ jobs = {j} /\ task = JobTask(j)
        /\ \A c \in Clients : api[c].pc = "idle"
    BY <1>3, LockJob DEF Stopped
  <2>2. CASE JobFail(j)
    BY <2>1, <2>2 DEF JobFail, TaskAfterFailure, JobTask, Stopped
  <2>3. CASE ~JobFail(j)
    <3>1. errored' = errored
      BY <1>3, <2>3 DEF JobStep, JobReady, JobInitConfig, JobConfigureRouter,
         JobRoutersDone, JobCreateShard, JobShardsDone, JobComplete
    <3>2. QED BY <2>1, <3>1 DEF Stopped
  <2>4. QED BY <2>2, <2>3
<1>4. CASE TaskManagerCrash \/ UNCHANGED vars
  BY <1>4 DEF TaskManagerCrash, vars, Stopped
<1>5. QED BY <1>1, <1>2, <1>3, <1>4 DEF Next

\* With one request at a time, a cluster whose job failed (_run_with_timeout)
\* never looks available while one of its instances is marked failed.
THEOREM FailureVisible == OneClient => (Spec => []FailureStaysVisible)
<1>1. SUFFICES ASSUME OneClient PROVE Spec => []FailureStaysVisible
  OBVIOUS
<1>2. Spec => []SerialInv
  BY <1>1, SerialAlways
<1>3. Init => Stopped
  BY DEF Init, Stopped
<1>4. SerialInv /\ Stopped /\ [Next]_vars => Stopped'
  BY <1>1, StoppedStep
<1>5. Stopped => FailureStaysVisible
  BY DEF Stopped, FailureStaysVisible
<1>6. QED BY <1>2, <1>3, <1>4, <1>5, PTL DEF Spec

\* With any number of clients, a cluster is busy only while a request or a job
\* works on it, unless an operation failed and left the task set.
THEOREM BusyIsOwned == Spec => []BusyHasOwner
<1>1. Init => BusyHasOwner
  BY DEF Init, BusyHasOwner
<1>2. TypeInv /\ BusyHasOwner /\ [Next]_vars => BusyHasOwner'
  <2> SUFFICES ASSUME TypeInv, BusyHasOwner, [Next]_vars
               PROVE  BusyHasOwner'
    OBVIOUS
  <2>1. ASSUME NEW c \in Clients, NEW r, RequestGoesTo(c, r), r.pc # "idle"
        PROVE  BusyHasOwner'
    BY <2>1 DEF TypeInv, TypeOK, RequestGoesTo, BusyHasOwner
  <2>2. ASSUME NEW c \in Clients, ClientStep(c) PROVE BusyHasOwner'
    <3> DEFINE p(op, S) == [Idle EXCEPT !.op = op, !.pc = "creating",
                                        !.ids = S, !.todo = S]
               q(S, r) == [Idle EXCEPT !.op = "shrink", !.pc = "mark",
                                       !.ids = S, !.todo = S,
                                       !.shards = ShardsOf(S), !.router = r]
    <3>1. CASE CreateCluster(c) \/ StartGrow(c)
      <4>1. PICK op, S : RequestGoesTo(c, p(op, S))
        BY <3>1 DEF CreateCluster, StartGrow, Plan
      <4>2. p(op, S).pc = "creating"
        BY DEF Idle
      <4>3. QED BY <2>1, <4>1, <4>2
    <3>2. CASE StartShrink(c)
      <4>1. PICK S, r : RequestGoesTo(c, q(S, r))
        BY <3>2 DEF StartShrink
      <4>2. q(S, r).pc = "mark"
        BY DEF Idle
      <4>3. QED BY <2>1, <4>1, <4>2
    <3>3. QED BY <2>2, <3>1, <3>2 DEF ClientStep
  <2>3. ASSUME NEW c \in Clients, ApiStep(c) \/ ApiCrash(c)
        PROVE  BusyHasOwner'
    <3>0. api[c] \in Request /\ Shape(api[c])
      BY DEF TypeInv, TypeOK, RequestShape
    <3>a. CASE CreateInstance(c)
      <4> DEFINE pc(i) == IF api[c].todo # {i} THEN "creating"
                          ELSE IF api[c].op = "create" THEN "cast" ELSE "mark"
                 r(i) == [api[c] EXCEPT !.todo = @ \ {i}, !.pc = pc(i)]
      <4>1. PICK i : RequestGoesTo(c, r(i))
        BY <3>a DEF CreateInstance
      <4>2. r(i).pc # "idle"
        BY <3>0 DEF Request
      <4>3. PICK x : x = r(i)
        OBVIOUS
      <4> HIDE DEF r
      <4>4. QED BY <2>1, <4>1, <4>2, <4>3
    <3>b. CASE MarkTask(c)
      <4>1. PICK x : x = [api[c] EXCEPT !.pc = IF api[c].op = "grow"
                                               THEN "cast" ELSE "drain"]
        OBVIOUS
      <4>2. RequestGoesTo(c, x)
        BY <3>b, <4>1 DEF MarkTask
      <4>3. x.pc # "idle"
        BY <3>0, <4>1 DEF Request
      <4>4. QED BY <2>1, <4>2, <4>3
    <3>1. CASE \/ DrainDone(c) \/ DetachInstance(c) \/ DestroyInstance(c)
               \/ \E s \in Shards : FinishDrain(c, s)
      <4>0. api \in [Clients -> Request]
        BY DEF TypeInv, TypeOK
      <4>1. CASE DrainDone(c)
        BY <3>0, <4>0, <4>1 DEF DrainDone, RequestGoesTo, Request,
                                BusyHasOwner
      <4>2. CASE DetachInstance(c)
        BY <3>0, <4>0, <4>2 DEF DetachInstance, RequestGoesTo, Request,
                                BusyHasOwner
      <4>3. CASE DestroyInstance(c)
        BY <3>0, <4>0, <4>3 DEF DestroyInstance, RequestGoesTo, Request,
                                BusyHasOwner
      <4>4. ASSUME NEW s \in Shards, FinishDrain(c, s) PROVE BusyHasOwner'
        BY <3>0, <4>0, <4>4 DEF FinishDrain, CanDrain, RequestGoesTo, Request,
                                BusyHasOwner
      <4>5. QED BY <3>1, <4>1, <4>2, <4>3, <4>4
    <3>2. CASE CreateInstanceFails(c) \/ FinishShrink(c) \/ ShrinkFails(c)
      BY <3>0, <3>2 DEF CreateInstanceFails, FinishShrink, ShrinkFails,
         BusyHasOwner, Shape
    <3>3. CASE CastJob(c)
      BY <3>3 DEF CastJob, BusyHasOwner
    <3>4. CASE ApiCrash(c)
      BY <3>4 DEF ApiCrash, BusyHasOwner
    <3>5. ASSUME NEW s \in Shards, StartDrain(c, s) PROVE BusyHasOwner'
      BY <3>5 DEF StartDrain, BusyHasOwner
    <3>6. QED BY <2>3, <3>a, <3>b, <3>1, <3>2, <3>3, <3>4, <3>5 DEF ApiStep
  <2>4. ASSUME NEW j \in jobs, JobStep(j) PROVE BusyHasOwner'
    <3>1. CASE JobComplete(j) \/ JobFail(j)
      BY <3>1 DEF JobComplete, JobFail, BusyHasOwner
    <3>2. CASE ~(JobComplete(j) \/ JobFail(j))
      <4>1. jobs' # {}
        BY <2>4, <3>2 DEF JobStep, JobReady, JobInitConfig,
           JobConfigureRouter, JobRoutersDone, JobCreateShard, JobShardsDone,
           JobGoesTo
      <4>2. QED BY <4>1 DEF BusyHasOwner
    <3>3. QED BY <3>1, <3>2
  <2>5. CASE TaskManagerCrash \/ UNCHANGED vars
    BY <2>5 DEF TaskManagerCrash, vars, BusyHasOwner
  <2>6. QED BY <2>2, <2>3, <2>4, <2>5 DEF Next
<1>3. Spec => []TypeInv
  BY TypeInit, TypeStep, PTL DEF Spec
<1>4. QED BY <1>1, <1>2, <1>3, PTL DEF Spec

-----------------------------------------------------------------------------
(* Config servers, routers and the service the cluster offers, for one       *)
(* request at a time.                                                        *)

NumFirst == InitMembers + NumConfig + NumRouters
FirstIds == 1 .. NumFirst
ConfigIds == InitMembers + 1 .. InitMembers + NumConfig

Built == task \notin {"ABSENT", "BUILDING_INITIAL"}

\* Instances are numbered as they are requested: the first of the create
\* request is a member, the last a router, and its config servers are the only
\* ones there will ever be.
Numbering ==
    /\ task = "ABSENT" => nInst = 0 /\ \A i \in Inst : kind[i] = "none"
    /\ task # "ABSENT" =>
          /\ NumFirst <= nInst
          /\ kind[1] = "member" /\ kind[NumFirst] = "query_router"
          /\ \A i \in Inst : kind[i] = "config_server" <=> i \in ConfigIds
    /\ attached \subseteq 1 .. nInst

\* A shrink leaves the config servers and a router even when it has removed
\* all that was asked for.
RequestKeeps(r) ==
    /\ r.op = "create" => r.ids = FirstIds
    /\ r.op \in {"create", "grow"} => r.ids \subseteq 1 .. nInst
    /\ r.op = "shrink" => /\ r.ids \cap ConfigIds = {}
                          /\ Of("query_router", attached \ r.ids) # {}

\* A create job has the first shard to register, or has registered it.
JobKeeps(j) ==
    /\ j.op = "create" => FirstIds \subseteq j.ids
    /\ j.pc = "complete" => j.shards = {}
    /\ j.op = "create" /\ j.pc # "wait" => j.shards # {} \/ registered # {}

ServersInv ==
    /\ Numbering
    /\ \A c \in Clients : api[c].pc # "idle" => RequestKeeps(api[c])
    /\ \A j \in jobs : JobKeeps(j)
    /\ Built \/ registered # {} => /\ ConfigIds \subseteq attached \cap alive
                                   /\ Of("query_router", attached) # {}
    /\ Built => registered # {}
    /\ registered # {} => registered \ draining # {}

LEMMA FirstNumbers ==
    /\ NumFirst \in Nat /\ InitMembers \in Nat /\ NumConfig \in Nat /\ NumRouters \in Nat
    /\ FirstIds \subseteq Inst /\ ConfigIds \subseteq FirstIds
    /\ 1 \in FirstIds /\ NumFirst \in FirstIds /\ 1 \notin ConfigIds /\ NumFirst \notin ConfigIds
  BY CreateAssumption, BoundsAssumption DEF NumFirst, FirstIds, ConfigIds,
     MIN_REPLICA_SET_MEMBERS, MIN_CONFIG_SERVER_MEMBERS, MIN_QUERY_ROUTERS

LEMMA ServersInit == Init => ServersInv
  BY FirstNumbers DEF Init, ServersInv, Numbering, Built, Idle

LEMMA ServersClient ==
    ASSUME SerialInv, ServersInv, OneClient, NEW c \in Clients, ClientStep(c)
    PROVE  ServersInv' /\ [Service!Next]_<<task, registered>>
<1>0. /\ TypeInv /\ nInst \in Nat /\ jobs' = {} /\ attached \subseteq Inst
      /\ UNCHANGED <<attached, alive, registered, draining>>
  <2>1. TypeInv /\ nInst \in Nat /\ attached \subseteq Inst
    BY DEF SerialInv, RegistryInv, TypeInv, TypeOK
  <2>2. jobs' = {}
    BY LockClient
  <2>3. UNCHANGED <<attached, alive, registered, draining>>
    BY DEF ClientStep, CreateCluster, StartGrow, StartShrink, mongoVars
  <2>4. QED BY <2>1, <2>2, <2>3
<1>1. CASE CreateCluster(c)
  <2> DEFINE k2 == [k \in 1 .. NumFirst |->
                      IF k <= InitMembers THEN "member"
                      ELSE IF k <= InitMembers + NumConfig THEN "config_server" ELSE "query_router"]
             g == [k \in 1 .. NumFirst |-> IF k <= InitMembers THEN 1 ELSE 0]
  <2>1. Plan(c, "create", NumFirst, 1, k2, g, 1) /\ task = "ABSENT" /\ task' = "BUILDING_INITIAL"
    BY <1>1 DEF CreateCluster, NumFirst
  <2>2. nInst = 0 /\ \A i \in Inst : kind[i] = "none"
    BY <2>1 DEF ServersInv, Numbering
  <2>3. /\ nInst' = NumFirst
        /\ \A i \in Inst : kind'[i] = IF i \in FirstIds THEN k2[i] ELSE "none"
    <3>1. nInst + 1 .. nInst + NumFirst = FirstIds
      BY <2>2, FirstNumbers DEF FirstIds
    <3>2. QED BY <2>1, <2>2, <3>1, FirstNumbers DEF Plan
  <2>4. Numbering'
    <3>1. k2[1] = "member" /\ k2[NumFirst] = "query_router"
      BY FirstNumbers, CreateAssumption DEF FirstIds, NumFirst, MIN_REPLICA_SET_MEMBERS,
         MIN_CONFIG_SERVER_MEMBERS, MIN_QUERY_ROUTERS
    <3>2. \A i \in FirstIds : k2[i] = "config_server" <=> i \in ConfigIds
      BY FirstNumbers DEF FirstIds, ConfigIds
    <3> HIDE DEF k2
    <3>3. attached' = {}
      BY <1>0, <2>1 DEF SerialInv, Flow
    <3>4. QED BY <2>1, <2>3, <3>1, <3>2, <3>3, FirstNumbers DEF Numbering
  <2> HIDE DEF k2, g
  <2>5. \A d \in Clients : api'[d].op = "create" /\ api'[d].ids = FirstIds
    <3>1. nInst + 1 .. nInst + NumFirst = FirstIds
      BY <2>2, FirstNumbers DEF FirstIds
    <3>2. RequestGoesTo(c, [Idle EXCEPT !.op = "create", !.pc = "creating",
                                        !.ids = FirstIds, !.todo = FirstIds])
      BY <2>1, <3>1 DEF Plan
    <3>3. \A d \in Clients : api'[d] = [Idle EXCEPT !.op = "create", !.pc = "creating",
                                                    !.ids = FirstIds, !.todo = FirstIds]
      BY <1>0, <3>2, Requests
    <3>4. QED BY <3>3 DEF Idle
  <2>6. registered = {}
    <3>1. ~Built /\ (registered # {} => Of("query_router", attached) # {})
      BY <2>1 DEF ServersInv, Built
    <3>2. attached = {}
      BY <2>1 DEF SerialInv, Flow
    <3>3. QED BY <3>1, <3>2 DEF Of
  <2>7. ServersInv'
    BY <1>0, <2>1, <2>3, <2>4, <2>5, <2>6 DEF ServersInv, RequestKeeps, Built, FirstIds
  <2>8. QED BY <1>0, <2>1, <2>7 DEF Service!Next, Service!Announce
<1>2. CASE StartGrow(c)
  <2>a. PICK n \in Nat, top \in Nat : \E g \in [1 .. n -> 0 .. top] :
            Plan(c, "grow", n, top,
                 [k \in 1 .. n |-> IF g[k] = 0 THEN "query_router" ELSE "member"],
                 g, NextShardNumber)
    <3>1. \A m \in 1 .. MaxNew : m \in Nat /\ \A t \in 0 .. m : t \in Nat
      BY BoundsAssumption
    <3>2. QED BY <1>2, <3>1 DEF StartGrow, GrowItems
  <2>1. PICK g \in [1 .. n -> 0 .. top] :
            Plan(c, "grow", n, top,
                 [k \in 1 .. n |-> IF g[k] = 0 THEN "query_router" ELSE "member"],
                 g, NextShardNumber)
    BY <2>a
  <2> DEFINE new == nInst + 1 .. nInst + n
  <2>2. task = "NONE" /\ task' = "NONE"
    BY <1>2 DEF StartGrow
  <2>3. /\ nInst' = nInst + n
        /\ \A i \in Inst : IF i \in new THEN kind'[i] \in {"query_router", "member"}
                                        ELSE kind'[i] = kind[i]
    <3>1. \A i \in new : i - nInst \in 1 .. n
      BY <1>0
    <3>2. QED BY <2>1, <3>1 DEF Plan
  <2>4. \A i \in 1 .. nInst : i \notin new
    BY <1>0
  <2>5. \A d \in Clients : api'[d].op = "grow" /\ api'[d].ids = new
    <3>1. RequestGoesTo(c, [Idle EXCEPT !.op = "grow", !.pc = "creating", !.ids = new, !.todo = new])
      BY <2>1 DEF Plan
    <3>2. \A d \in Clients : api'[d] = [Idle EXCEPT !.op = "grow", !.pc = "creating",
                                                    !.ids = new, !.todo = new]
      BY <1>0, <3>1, Requests
    <3>3. QED BY <3>2 DEF Idle
  <2>6. Numbering'
    <3>1. Numbering /\ NumFirst <= nInst
      BY <2>2 DEF ServersInv, Numbering
    <3>2. FirstIds \subseteq 1 .. nInst /\ attached \subseteq 1 .. nInst' /\ NumFirst <= nInst'
      BY <1>0, <2>3, <3>1, FirstNumbers DEF FirstIds, Numbering
    <3>3. \A i \in FirstIds : kind'[i] = kind[i] /\ i \notin new
      BY <2>3, <2>4, <3>2, FirstNumbers
    <3>4. \A i \in Inst : kind'[i] = "config_server" <=> i \in ConfigIds
      BY <2>2, <2>3, <3>1, <3>3, FirstNumbers DEF Numbering
    <3>5. kind'[1] = "member" /\ kind'[NumFirst] = "query_router"
      BY <2>2, <3>1, <3>3, FirstNumbers DEF Numbering
    <3>6. QED BY <1>0, <2>2, <3>2, <3>4, <3>5 DEF Numbering
  <2>7. new \subseteq 1 .. nInst'
    BY <1>0, <2>3
  <2>8. Of("query_router", attached)' # {} /\ ConfigIds \subseteq attached' \cap alive'
    <3>1. /\ Of("query_router", attached) # {} /\ attached \subseteq 1 .. nInst
          /\ ConfigIds \subseteq attached \cap alive
      BY <2>2 DEF ServersInv, Built, Numbering
    <3>2. \A i \in attached : kind'[i] = kind[i]
      BY <1>0, <2>3, <2>4, <3>1
    <3>3. QED BY <1>0, <3>1, <3>2 DEF Of
  <2>9. registered # {} /\ registered \ draining # {}
    BY <2>2 DEF ServersInv, Built
  <2> HIDE DEF new
  <2>10. ServersInv'
    BY <1>0, <2>2, <2>5, <2>6, <2>7, <2>8, <2>9 DEF ServersInv, RequestKeeps
  <2>11. QED BY <1>0, <2>2, <2>10
<1>3. CASE StartShrink(c)
  <2> DEFINE q(S, r) == [Idle EXCEPT !.op = "shrink", !.pc = "mark", !.ids = S, !.todo = S,
                                     !.shards = ShardsOf(S), !.router = r]
  <2>1. PICK S \in SUBSET attached : ShrinkAllowed(S) /\ \E r : RequestGoesTo(c, q(S, r))
    BY <1>3 DEF StartShrink
  <2>2. PICK r : RequestGoesTo(c, q(S, r))
    BY <2>1
  <2>3. \A d \in Clients : api'[d].op = "shrink" /\ api'[d].ids = S
    <3>1. \A d \in Clients : api'[d] = q(S, r)
      BY <1>0, <2>2, Requests
    <3>2. QED BY <3>1 DEF Idle
  <2>4. UNCHANGED <<kind, nInst, task>> /\ task = "NONE"
    BY <1>3 DEF StartShrink, infoVars
  <2>5. S \cap ConfigIds = {}
    <3>1. \A i \in ConfigIds : kind[i] = "config_server"
      BY <2>4, FirstNumbers DEF ServersInv, Numbering
    <3>2. QED BY <2>1, <3>1 DEF ShrinkAllowed, Of
  <2>6. Of("query_router", attached \ S) # {}
    <3>1. SUFFICES ASSUME Of("query_router", attached \ S) = {} PROVE FALSE
      OBVIOUS
    <3>2. Of("query_router", attached) = Of("query_router", S)
      BY <2>1, <3>1 DEF Of
    <3>a. IsFiniteSet(Inst)
      BY FS_Interval, BoundsAssumption
    <3>b. Of("query_router", S) \subseteq Inst
      BY <1>0 DEF Of
    <3>3. IsFiniteSet(Of("query_router", S))
      BY <3>a, <3>b, FS_Subset
    <3>4. Cardinality(Of("query_router", S)) \in Nat
      BY <3>3, FS_CardinalityType
    <3>5. QED BY <2>1, <3>2, <3>4 DEF ShrinkAllowed, RoutersKept, MIN_QUERY_ROUTERS
  <2>7. ServersInv'
    BY <1>0, <2>3, <2>4, <2>5, <2>6 DEF ServersInv, RequestKeeps, Numbering, Built, Of
  <2>8. QED BY <1>0, <2>4, <2>7
<1>4. QED BY <1>1, <1>2, <1>3 DEF ClientStep

LEMMA ServersApi ==
    ASSUME SerialInv, ServersInv, OneClient, NEW c \in Clients, ApiStep(c) \/ ApiCrash(c)
    PROVE  ServersInv' /\ [Service!Next]_<<task, registered>>
<1>0. /\ TypeInv /\ Registry /\ nInst \in Nat /\ Numbering
      /\ attached \subseteq Inst /\ alive \subseteq Inst /\ registered \subseteq Shards
  BY DEF SerialInv, RegistryInv, TypeInv, TypeOK, ServersInv
<1>r. /\ api[c] \in Request /\ Shape(api[c])
      /\ \A r : RequestGoesTo(c, r) => \A d \in Clients : api'[d] = r
  BY <1>0, Requests
<1>l. jobs = {} /\ api[c].pc # "idle" /\ task = RequestTask(api[c]) /\ task # "ABSENT"
  BY LockApi DEF SerialInv, Lock, RequestTask
<1>f. RequestFlow(api[c]) /\ RequestKeeps(api[c])
  BY <1>l DEF SerialInv, Flow, ServersInv
<1>i. Idle.pc = "idle"
  BY DEF Idle
\* Steps that leave instances and registry alone.
<1>q. ASSUME NEW r, RequestGoesTo(c, r), r.pc # "idle" => r.op = api[c].op /\ r.ids = api[c].ids,
             jobs' = {}, Built' => Built, task' # "ABSENT",
             UNCHANGED <<kind, nInst, attached, alive, registered, draining>>
      PROVE  ServersInv'
  <2>1. \A d \in Clients : api'[d] = r
    BY <1>q, <1>r
  <2>2. Numbering'
    BY <1>0, <1>l, <1>q DEF Numbering
  <2>3. \A d \in Clients : api'[d].pc # "idle" => RequestKeeps(api[d])'
    BY <1>f, <1>q, <2>1 DEF RequestKeeps, Of
  <2>4. QED BY <1>q, <2>2, <2>3 DEF ServersInv, Of
<1>1. CASE CreateInstance(c)
  <2>1. PICK i \in api[c].todo :
          /\ attached' = attached \cup {i}
          /\ alive' = alive \cup {i}
          /\ RequestGoesTo(c, [api[c] EXCEPT
                !.todo = @ \ {i},
                !.pc = IF api[c].todo # {i} THEN "creating"
                       ELSE IF api[c].op = "create" THEN "cast" ELSE "mark"])
    BY <1>1 DEF CreateInstance
  <2>2. \A d \in Clients : api'[d].op = api[c].op /\ api'[d].ids = api[c].ids
    <3>1. PICK pc : RequestGoesTo(c, [api[c] EXCEPT !.todo = @ \ {i}, !.pc = pc])
      BY <2>1
    <3>2. PICK r : r = [api[c] EXCEPT !.todo = @ \ {i}, !.pc = pc]
      OBVIOUS
    <3>3. r.op = api[c].op /\ r.ids = api[c].ids
      BY <1>r, <3>2 DEF Request
    <3>4. \A d \in Clients : api'[d] = r
      BY <1>r, <3>1, <3>2
    <3>5. QED BY <3>3, <3>4
  <2>3. /\ UNCHANGED <<kind, nInst, registered, draining, task>> /\ jobs' = {}
        /\ api[c].op \in {"create", "grow"}
    BY <1>1, <1>l, <1>r DEF CreateInstance, infoVars, mongoVars, Shape
  <2>4. i \in 1 .. nInst
    BY <1>f, <2>1, <2>3 DEF RequestFlow, RequestKeeps
  <2>5. Numbering'
    BY <1>0, <2>1, <2>3, <2>4 DEF Numbering
  <2>6. \A d \in Clients : RequestKeeps(api[d])'
    BY <1>f, <2>2, <2>3 DEF RequestKeeps
  <2>7. ServersInv'
    BY <2>1, <2>3, <2>5, <2>6 DEF ServersInv, Built, Of
  <2>8. QED BY <2>3, <2>7
<1>2. CASE CreateInstanceFails(c) \/ ApiCrash(c)
  <2>1. /\ RequestGoesTo(c, Idle) /\ jobs' = {} /\ task' = task
        /\ UNCHANGED <<kind, nInst, registered, draining, attached, alive>>
    BY <1>2, <1>l, <1>r DEF CreateInstanceFails, ApiCrash, infoVars, mongoVars, RequestTask
  <2>2. QED BY <1>i, <1>l, <1>q, <2>1 DEF Built
<1>3. CASE FinishShrink(c) \/ ShrinkFails(c)
  <2>1. /\ RequestGoesTo(c, Idle) /\ jobs' = {} /\ task' = "NONE" /\ task = "SHRINKING_CLUSTER"
        /\ UNCHANGED <<kind, nInst, registered, draining, attached, alive>>
    BY <1>3, <1>l, <1>r DEF FinishShrink, ShrinkFails, infoVars, mongoVars, RequestTask, Shape
  <2>2. Built /\ registered # {}
    BY <2>1 DEF ServersInv, Built
  <2>3. ServersInv'
    BY <1>i, <1>q, <2>1, <2>2 DEF Built
  <2>4. QED BY <2>1, <2>2, <2>3 DEF Service!Next, Service!Settle
<1>4. CASE MarkTask(c)
  <2>1. PICK r : r = [api[c] EXCEPT !.pc = IF api[c].op = "grow" THEN "cast" ELSE "drain"]
    OBVIOUS
  <2>2. /\ RequestGoesTo(c, r) /\ jobs' = {}
        /\ task = "NONE" /\ task' \in {"GROWING_CLUSTER", "SHRINKING_CLUSTER"}
        /\ UNCHANGED <<kind, nInst, registered, draining, attached, alive>>
    BY <1>4, <1>l, <1>r, <2>1 DEF MarkTask, BusyStatus, infoVars, mongoVars, RequestTask, Shape
  <2>3. r.op = api[c].op /\ r.ids = api[c].ids
    BY <1>r, <2>1 DEF Request
  <2>4. ServersInv'
    BY <1>q, <2>2, <2>3 DEF Built
  <2>5. QED BY <2>2, <2>4 DEF Service!Next, Service!Announce
<1>5. CASE CastJob(c)
  <2>a. PICK k : k = [op |-> api[c].op, pc |-> "wait", ids |-> api[c].ids,
                      shards |-> {}, router |-> NoInst]
    OBVIOUS
  <2>1. /\ RequestGoesTo(c, Idle) /\ jobs' = {k} /\ task' = task
        /\ UNCHANGED <<kind, nInst, registered, draining, attached, alive>>
    BY <1>5, <1>l, <2>a DEF CastJob, infoVars, mongoVars
  <2>2. k.op = api[c].op /\ k.ids = api[c].ids /\ k.pc = "wait"
    BY <2>a
  <2>3. JobKeeps(k)'
    BY <1>f, <2>2 DEF RequestKeeps, JobKeeps
  <2>4. \A d \in Clients : api'[d].pc = "idle"
    BY <1>i, <1>r, <2>1
  <2>5. Numbering'
    BY <1>0, <2>1 DEF Numbering
  <2>6. (\A j \in jobs : JobKeeps(j))'
    BY <2>1, <2>3
  <2>7. ServersInv'
    BY <2>1, <2>4, <2>5, <2>6 DEF ServersInv, Built, Of
  <2>8. QED BY <2>1, <2>7
<1>6. ASSUME NEW s \in Shards, StartDrain(c, s)
      PROVE  ServersInv' /\ [Service!Next]_<<task, registered>>
  <2>1. UNCHANGED <<kind, nInst, registered, attached, alive, task, api, jobs>>
    BY <1>6 DEF StartDrain, infoVars
  <2>2. registered' \ draining' # {}
    BY <1>6 DEF StartDrain
  <2>3. QED BY <2>1, <2>2 DEF ServersInv, Numbering, RequestKeeps, JobKeeps, Built, Of
<1>7. ASSUME NEW s \in Shards, FinishDrain(c, s)
      PROVE  ServersInv' /\ [Service!Next]_<<task, registered>>
  <2>1. PICK r : r = [api[c] EXCEPT !.shards = @ \ {s}]
    OBVIOUS
  <2>2. /\ RequestGoesTo(c, r) /\ jobs' = {} /\ task' = task
        /\ UNCHANGED <<kind, nInst, attached, alive>>
        /\ registered' = registered \ SameName(s) /\ draining' = draining \ SameName(s)
        /\ SameName(s) \subseteq draining
    BY <1>7, <1>l, <2>1 DEF FinishDrain, Completed, infoVars
  <2>3. r.op = api[c].op /\ r.ids = api[c].ids
    BY <1>r, <2>1 DEF Request
  <2>4. task = "SHRINKING_CLUSTER" /\ registered # {} /\ registered \ draining # {}
    BY <1>7, <1>l, <1>r DEF FinishDrain, CanDrain, RequestTask, Shape, ServersInv, Built
  <2>5. registered' \ draining' # {}
    BY <2>2, <2>4
  <2>6. \A d \in Clients : RequestKeeps(api[d])'
    BY <1>f, <1>r, <2>2, <2>3 DEF RequestKeeps, Of
  <2>7. Numbering'
    BY <1>0, <2>2 DEF Numbering
  <2>8. ServersInv'
    BY <2>2, <2>4, <2>5, <2>6, <2>7 DEF ServersInv, Built, Of
  <2>9. [Service!Next]_<<task, registered>>
    <3>1. CASE SameName(s) = {}
      BY <2>2, <3>1
    <3>2. CASE SameName(s) # {}
      <4>1. PICK t \in registered : SameName(s) = {t}
        BY <1>0, <3>2 DEF SameName, Registry, RegisteredNamesDiffer
      <4>2. Service!Retire(t)
        BY <2>2, <2>4, <2>5, <4>1 DEF Service!Retire
      <4>3. QED BY <1>0, <4>1, <4>2 DEF Service!Next
    <3>3. QED BY <3>1, <3>2
  <2>10. QED BY <2>8, <2>9
<1>8. CASE DrainDone(c)
  <2>1. PICK r : r = [api[c] EXCEPT !.pc = "drop"]
    OBVIOUS
  <2>2. /\ RequestGoesTo(c, r) /\ jobs' = {} /\ task' = task
        /\ UNCHANGED <<kind, nInst, registered, draining, attached, alive>>
    BY <1>8, <1>l, <2>1 DEF DrainDone, infoVars, mongoVars
  <2>3. r.op = api[c].op /\ r.ids = api[c].ids
    BY <1>r, <2>1 DEF Request
  <2>4. QED BY <1>l, <1>q, <2>2, <2>3 DEF Built
\* Steps that take an instance of the request out of the cluster.
<1>d. ASSUME NEW r, RequestGoesTo(c, r), r.op = api[c].op, r.ids = api[c].ids,
             api[c].op = "shrink", NEW i \in api[c].ids, jobs' = {},
             attached' \in {attached, attached \ {i}}, alive' \in {alive, alive \ {i}},
             UNCHANGED <<kind, nInst, registered, draining, task>>
      PROVE  ServersInv'
  <2>1. attached' \ api[c].ids = attached \ api[c].ids /\ attached' \subseteq attached
    BY <1>d
  <2>2. \A d \in Clients : RequestKeeps(api[d])'
    BY <1>d, <1>f, <1>r, <2>1 DEF RequestKeeps, Of
  <2>3. Numbering'
    BY <1>0, <1>d, <2>1 DEF Numbering
  <2>4. i \notin ConfigIds /\ Of("query_router", attached \ api[c].ids) # {}
    BY <1>d, <1>f DEF RequestKeeps
  <2>5. Of("query_router", attached)' # {}
    BY <1>d, <2>1, <2>4 DEF Of
  <2>6. ConfigIds \subseteq attached \cap alive => ConfigIds \subseteq attached' \cap alive'
    BY <1>d, <2>4
  <2>7. QED BY <1>d, <2>2, <2>3, <2>5, <2>6 DEF ServersInv, Built
<1>9. CASE DetachInstance(c)
  <2>1. PICK i \in api[c].todo :
          /\ attached' = attached \ {i}
          /\ RequestGoesTo(c, [api[c] EXCEPT !.pc = "destroy", !.todo = @ \ {i}, !.victim = i])
    BY <1>9 DEF DetachInstance
  <2>2. PICK r : r = [api[c] EXCEPT !.pc = "destroy", !.todo = @ \ {i}, !.victim = i]
    OBVIOUS
  <2>3. /\ RequestGoesTo(c, r) /\ jobs' = {} /\ UNCHANGED <<kind, nInst, registered, draining, task, alive>>
        /\ api[c].op = "shrink"
    BY <1>9, <1>l, <1>r, <2>1, <2>2 DEF DetachInstance, infoVars, mongoVars, Shape
  <2>4. r.op = api[c].op /\ r.ids = api[c].ids
    BY <1>r, <2>2 DEF Request
  <2>5. i \in api[c].ids
    BY <1>f, <2>1, <2>3 DEF RequestFlow
  <2>6. QED BY <1>d, <2>1, <2>3, <2>4, <2>5
<1>10. CASE DestroyInstance(c)
  <2>1. PICK r : r = [api[c] EXCEPT !.pc = "drop", !.victim = NoInst]
    OBVIOUS
  <2>2. /\ RequestGoesTo(c, r) /\ jobs' = {} /\ UNCHANGED <<kind, nInst, registered, draining, task, attached>>
        /\ alive' = alive \ {api[c].victim} /\ api[c].op = "shrink" /\ api[c].pc = "destroy"
    BY <1>10, <1>l, <1>r, <2>1 DEF DestroyInstance, infoVars, mongoVars, Shape
  <2>3. r.op = api[c].op /\ r.ids = api[c].ids
    BY <1>r, <2>1 DEF Request
  <2>4. api[c].victim \in api[c].ids
    BY <1>f, <2>2 DEF RequestFlow
  <2>5. QED BY <1>d, <2>2, <2>3, <2>4
<1>11. QED
  BY <1>1, <1>2, <1>3, <1>4, <1>5, <1>6, <1>7, <1>8, <1>9, <1>10 DEF ApiStep

LEMMA ServersJob ==
    ASSUME SerialInv, ServersInv, OneClient, NEW j \in jobs, JobStep(j)
    PROVE  ServersInv' /\ [Service!Next]_<<task, registered>>
<1>0. /\ j \in Job /\ JobFlow(j) /\ JobKeeps(j) /\ Numbering /\ draining \subseteq registered
      /\ attached \subseteq Inst
  BY DEF SerialInv, RegistryInv, TypeInv, TypeOK, Flow, ServersInv, Registry
<1>1. /\ jobs = {j} /\ task \in {"BUILDING_INITIAL", "GROWING_CLUSTER"}
      /\ j.op = "create" => task = "BUILDING_INITIAL"
      /\ j.op # "create" => task = "GROWING_CLUSTER"
      /\ \A c \in Clients : api[c].pc = "idle"
  BY LockJob DEF JobTask
<1>2. /\ UNCHANGED <<kind, nInst, attached, alive, api, draining>>
      /\ Numbering'
  <2>1. UNCHANGED <<kind, nInst, attached, alive, api, draining>> /\ task' # "ABSENT"
    BY <1>1 DEF JobStep, JobReady, JobInitConfig, JobConfigureRouter, JobRoutersDone, JobCreateShard,
       JobShardsDone, JobComplete, JobFail, TaskAfterFailure, infoVars, mongoVars
  <2>2. QED BY <1>0, <1>1, <2>1 DEF Numbering
\* A job keeps the servers: those of the create request are its own.
<1>3. /\ ConfigIds \subseteq attached \cap alive /\ Of("query_router", attached) # {}
  <2>1. CASE j.op = "create"
    <3>1. FirstIds \subseteq attached \cap alive
      BY <1>0, <2>1 DEF JobFlow, JobKeeps
    <3>2. kind[NumFirst] = "query_router"
      BY <1>0, <1>1 DEF Numbering
    <3>3. QED BY <3>1, <3>2, FirstNumbers DEF Of
  <2>2. CASE j.op # "create"
    BY <1>1, <2>2 DEF ServersInv, Built
  <2>3. QED BY <2>1, <2>2
<1>4. Of("query_router", attached)' # {} /\ ConfigIds \subseteq attached' \cap alive'
  BY <1>2, <1>3 DEF Of
<1>q. ASSUME NEW k, JobGoesTo(j, k), JobKeeps(k)', UNCHANGED task,
             registered \subseteq registered', registered' # {} => registered' \ draining' # {}
      PROVE  ServersInv'
  <2>1. jobs' = {k}
    BY <1>1, <1>q DEF JobGoesTo
  <2>2. Built' => registered' # {}
    BY <1>q DEF ServersInv, Built
  <2>3. QED BY <1>1, <1>2, <1>4, <1>q, <2>1, <2>2 DEF ServersInv
<1>5. CASE JobReady(j)
  <2> DEFINE ids == IF j.op = "create" THEN attached ELSE j.ids
             r(p, x) == [j EXCEPT !.pc = p, !.ids = ids, !.shards = ShardsOf(ids), !.router = x]
  <2>1. PICK p \in {"config", "routers"}, x \in Inst \cup {NoInst} : JobGoesTo(j, r(p, x))
    BY <1>0, <1>5 DEF JobReady, AnyOf, Of, Job
  <2>2. ids = j.ids
    BY <1>0 DEF JobFlow
  <2>3. PICK q : q = r(p, x)
    OBVIOUS
  <2>4. q.op = j.op /\ q.ids = ids /\ q.shards = ShardsOf(ids) /\ q.pc = p
    BY <1>0, <2>3 DEF Job
  <2>5. JobGoesTo(j, q)
    BY <2>1, <2>3
  <2> HIDE DEF ids, r
  <2>6. j.op = "create" => ShardsOf(ids) # {}
    <3>1. SUFFICES ASSUME j.op = "create" PROVE ShardsOf(ids) # {}
      OBVIOUS
    <3>2. 1 \in ids /\ kind[1] = "member"
      BY <1>0, <1>1, <2>2, <3>1, FirstNumbers DEF JobKeeps, Numbering
    <3>3. QED BY <3>2 DEF ShardsOf, Of
  <2>7. JobKeeps(q)'
    BY <1>0, <2>2, <2>4, <2>6 DEF JobKeeps
  <2>8. UNCHANGED <<task, registered>>
    BY <1>5 DEF JobReady, mongoVars
  <2>9. ServersInv'
    BY <1>2, <1>q, <2>5, <2>7, <2>8 DEF ServersInv
  <2>10. QED BY <2>8, <2>9
<1>6. CASE JobInitConfig(j) \/ JobRoutersDone(j) \/ JobShardsDone(j)
  <2>1. PICK p : JobGoesTo(j, [j EXCEPT !.pc = p]) /\ (p = "complete" => j.shards = {}) /\ j.pc # "wait"
    BY <1>6 DEF JobInitConfig, JobRoutersDone, JobShardsDone
  <2>2. UNCHANGED <<task, registered>>
    BY <1>6 DEF JobInitConfig, JobRoutersDone, JobShardsDone, mongoVars
  <2>3. PICK q : q = [j EXCEPT !.pc = p]
    OBVIOUS
  <2>4. q.op = j.op /\ q.ids = j.ids /\ q.shards = j.shards /\ q.pc = p
    BY <1>0, <2>3 DEF Job
  <2>5. JobKeeps(q)'
    BY <1>0, <2>1, <2>2, <2>4 DEF JobKeeps
  <2>6. ServersInv'
    BY <1>2, <1>q, <2>1, <2>2, <2>3, <2>5 DEF ServersInv
  <2>7. QED BY <2>2, <2>6
<1>7. CASE JobConfigureRouter(j)
  <2>1. UNCHANGED <<task, jobs, registered>>
    BY <1>7 DEF JobConfigureRouter
  <2>2. ServersInv'
    BY <1>1, <1>2, <1>4, <2>1 DEF ServersInv, JobKeeps, Built
  <2>3. QED BY <2>1, <2>2
<1>8. CASE JobCreateShard(j)
  <2>1. PICK s \in j.shards :
            /\ registered' = add_shard(s)
            /\ JobGoesTo(j, [j EXCEPT !.shards = @ \ {s}])
    BY <1>8 DEF JobCreateShard
  <2>2. UNCHANGED task /\ j.pc = "shards"
    BY <1>8 DEF JobCreateShard
  <2>3. PICK q : q = [j EXCEPT !.shards = @ \ {s}]
    OBVIOUS
  <2>4. q.op = j.op /\ q.ids = j.ids /\ q.shards = j.shards \ {s} /\ q.pc = "shards" /\ s \in Shards
    BY <1>0, <2>1, <2>2, <2>3 DEF Job
  <2>5. registered' # {} /\ (registered' = registered \/ (s \notin registered /\ registered' = registered \cup {s}))
    BY <2>1 DEF add_shard, SameName
  <2>6. JobKeeps(q)'
    BY <1>0, <2>2, <2>4, <2>5 DEF JobKeeps
  <2>7. registered' \ draining' # {}
    BY <1>0, <1>2, <2>5 DEF ServersInv
  <2>8. ServersInv'
    BY <1>q, <2>1, <2>2, <2>3, <2>5, <2>6, <2>7
  <2>9. [Service!Next]_<<task, registered>>
    <3>1. CASE registered' = registered
      BY <2>2, <3>1
    <3>2. CASE registered' = registered \cup {s}
      <4>1. Service!Serve({s}) /\ {s} \in SUBSET Shards
        BY <1>1, <2>2, <2>4, <3>2 DEF Service!Serve
      <4>2. QED BY <4>1 DEF Service!Next
    <3>3. QED BY <2>5, <3>1, <3>2
  <2>10. QED BY <2>8, <2>9
<1>9. CASE JobComplete(j)
  <2>1. jobs' = {} /\ task' = "NONE" /\ UNCHANGED registered /\ j.pc = "complete"
    BY <1>1, <1>9 DEF JobComplete, mongoVars
  <2>2. registered # {}
    BY <1>0, <1>1, <2>1 DEF JobKeeps, ServersInv, Built
  <2>3. ServersInv'
    BY <1>1, <1>2, <1>4, <2>1, <2>2 DEF ServersInv
  <2>4. QED BY <1>1, <2>1, <2>2, <2>3 DEF Service!Next, Service!Settle
<1>10. CASE JobFail(j)
  <2>1. jobs' = {} /\ UNCHANGED <<task, registered>>
    BY <1>1, <1>10 DEF JobFail, TaskAfterFailure, mongoVars
  <2>2. ServersInv'
    BY <1>1, <1>2, <1>4, <2>1 DEF ServersInv, Built
  <2>3. QED BY <2>1, <2>2
<1>11. QED BY <1>5, <1>6, <1>7, <1>8, <1>9, <1>10 DEF JobStep

LEMMA ServersStep ==
    OneClient /\ SerialInv /\ ServersInv /\ [Next]_vars
        => ServersInv' /\ [Service!Next]_<<task, registered>>
<1> SUFFICES ASSUME OneClient, SerialInv, ServersInv, [Next]_vars
             PROVE  ServersInv' /\ [Service!Next]_<<task, registered>>
  OBVIOUS
<1>1. CASE TaskManagerCrash
  <2>1. /\ jobs' = {}
        /\ UNCHANGED <<task, api, kind, nInst, attached, alive, registered, draining>>
    BY <1>1 DEF TaskManagerCrash, infoVars, mongoVars
  <2>2. QED BY <2>1 DEF ServersInv, Numbering, RequestKeeps, Built, Of
<1>2. CASE UNCHANGED vars
  <2>1. UNCHANGED <<task, api, jobs, kind, nInst, attached, alive, registered, draining>>
    BY <1>2 DEF vars, infoVars, mongoVars
  <2>2. QED BY <2>1 DEF ServersInv, Numbering, RequestKeeps, JobKeeps, Built, Of
<1>3. QED BY <1>1, <1>2, ServersClient, ServersApi, ServersJob DEF Next

\* With one request at a time, a cluster that serves a shard keeps a query
\* router and all its config servers, however _shrink_sharded fails and
\* whatever the cluster was grown and shrunk to before.
THEOREM ServersAlwaysRemain == OneClient => (Spec => []ServersRemain)
<1> SUFFICES ASSUME OneClient PROVE Spec => []ServersRemain
  OBVIOUS
<1>1. SerialInv /\ ServersInv /\ [Next]_vars => ServersInv'
  BY ServersStep
<1>2. SerialInv /\ ServersInv => ServersRemain
  <2> SUFFICES ASSUME SerialInv, ServersInv, registered # {} PROVE ServersRemain
    BY DEF ServersRemain
  <2>1. /\ ConfigIds \subseteq attached \cap alive /\ Of("query_router", attached) # {}
        /\ attached \subseteq Inst
    BY DEF ServersInv, SerialInv, RegistryInv, TypeInv, TypeOK
  <2>2. attached # {}
    BY <2>1 DEF Of
  <2>3. task # "ABSENT"
    BY <2>2 DEF SerialInv, Flow
  <2>4. Of("config_server", attached \cap alive) = ConfigIds
    BY <2>1, <2>3 DEF Of, ServersInv, Numbering
  <2>5. Cardinality(ConfigIds) = NumConfig
    BY FS_Interval, FirstNumbers, CreateAssumption DEF ConfigIds, MIN_CONFIG_SERVER_MEMBERS
  <2>6. QED BY <2>1, <2>4, <2>5 DEF ServersRemain
<1>3. Spec => []SerialInv
  BY SerialAlways
<1>4. QED BY ServersInit, <1>1, <1>2, <1>3, PTL DEF Spec

\* With one request at a time the controller implements ClusterService, for
\* any number of instances and shards: the registry changes only as the stored
\* task status announces, and never loses its last shard.
THEOREM ShardedImplementsService == OneClient => (Spec => ImplementsService)
<1> SUFFICES ASSUME OneClient PROVE Spec => ImplementsService
  OBVIOUS
<1>1. SerialInv /\ ServersInv /\ [Next]_vars => ServersInv' /\ [Service!Next]_<<task, registered>>
  BY ServersStep
<1>2. Init => Service!Init
  BY DEF Init, Service!Init
<1>3. Spec => []SerialInv
  BY SerialAlways
<1>4. QED
  BY ServersInit, <1>1, <1>2, <1>3, PTL DEF Spec, ImplementsService, Service!Spec, Service!vars
=============================================================================
