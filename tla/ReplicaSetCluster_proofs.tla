---------------------- MODULE ReplicaSetCluster_proofs ----------------------
(* What the replica-set controller guarantees for any number of instances:   *)
(* its types for any number of clients; its replica set and its minimum of   *)
(* instances for one request at a time.                                      *)
EXTENDS ReplicaSetCluster, FiniteSetTheorems, TLAPS

(* Only create and grow make instances, only grow and shrink mark the task.  *)
OpShape ==
    \A c \in Clients :
        /\ api[c].pc \in {"creating", "cast"} => api[c].op \in {"create", "grow"}
        /\ api[c].pc = "mark" => api[c].op \in {"grow", "shrink"}

LEMMA InstNumbers == NoInst \notin Inst /\ Inst \subseteq Nat
  BY ReplicaBounds DEF Inst, NoInst

LEMMA IdleType == Idle \in Request
  BY DEF Idle, Request

LEMMA RemovedShape ==
    ASSUME NEW r \in Request
    PROVE  /\ AfterRemoved(r) \in Request
           /\ AfterRemoved(r).pc \in {"detach", "destroy"}
           /\ AfterRemoved(r).ids = r.ids /\ AfterRemoved(r).todo = r.ids
<1>1. PICK p \in {"detach", "destroy"} : AfterRemoved(r) = [r EXCEPT !.pc = p, !.todo = r.ids]
  BY DEF AfterRemoved
<1>2. QED BY <1>1 DEF Request

(* A request that goes on keeps the types of all requests.                   *)
LEMMA ApiUpdate ==
    ASSUME TypeOK, NEW c \in Clients, NEW r \in Request, RequestGoesTo(c, r)
    PROVE  api' \in [Clients -> Request]
  BY DEF TypeOK, RequestGoesTo

LEMMA JobUpdate ==
    ASSUME TypeOK, NEW j, NEW k \in Job, JobGoesTo(j, k)
    PROVE  jobs' \subseteq Job
  BY DEF TypeOK, JobGoesTo

LEMMA PlanType ==
    ASSUME TypeOK, NEW c \in Clients, NEW operation \in {"create", "grow"},
           NEW start \in {"creating", "mark"}, Plan(c, operation, start)
    PROVE  nInst' \in 0 .. MaxInst /\ api' \in [Clients -> Request]
<1>1. PICK n \in 1 .. MaxNew :
          /\ nInst + n <= MaxInst /\ nInst' = nInst + n
          /\ RequestGoesTo(c, [Idle EXCEPT !.op = operation, !.pc = start,
                                           !.ids = nInst + 1 .. nInst + n,
                                           !.todo = nInst + 1 .. nInst + n])
  BY DEF Plan
<1>2. nInst \in 0 .. MaxInst /\ n \in Nat
  BY ReplicaBounds DEF TypeOK
<1>3. nInst + 1 .. nInst + n \subseteq Inst
  BY <1>1, <1>2, ReplicaBounds DEF Inst
<1>4. [Idle EXCEPT !.op = operation, !.pc = start, !.ids = nInst + 1 .. nInst + n,
                   !.todo = nInst + 1 .. nInst + n] \in Request
  BY <1>3 DEF Idle, Request
<1>5. QED BY <1>1, <1>2, <1>4, ApiUpdate, ReplicaBounds

LEMMA ClientType ==
    ASSUME TypeOK, NEW c \in Clients, ClientStep(c)
    PROVE  TypeOK'
<1>1. CASE CreateCluster(c)
  BY <1>1, PlanType DEF CreateCluster, TypeOK, TaskStatus
<1>2. CASE StartGrow(c)
  BY <1>2, PlanType DEF StartGrow, TypeOK
<1>3. CASE StartShrink(c)
  <2>1. PICK ids \in SUBSET attached : RequestGoesTo(c, [Idle EXCEPT !.op = "shrink",
                                                                     !.pc = "mark", !.ids = ids])
    BY <1>3 DEF StartShrink
  <2>2. [Idle EXCEPT !.op = "shrink", !.pc = "mark", !.ids = ids] \in Request
    BY <2>1 DEF Idle, Request, TypeOK
  <2>3. api' \in [Clients -> Request]
    BY <2>1, <2>2, ApiUpdate
  <2>4. QED BY <1>3, <2>3 DEF StartShrink, TypeOK
<1>4. QED BY <1>1, <1>2, <1>3 DEF ClientStep

LEMMA ApiType ==
    ASSUME TypeOK, OpShape, NEW c \in Clients, ApiStep(c) \/ ApiCrash(c)
    PROVE  TypeOK'
<1>1. api[c] \in Request
  BY DEF TypeOK
<1>2. CASE MarkTask(c)
  <2>1. [api[c] EXCEPT !.pc = "creating"] \in Request /\ [api[c] EXCEPT !.pc = "elect"] \in Request
    BY <1>1 DEF Request
  <2>2. api' \in [Clients -> Request]
    BY <1>2, <2>1, ApiUpdate DEF MarkTask
  <2>3. QED BY <1>2, <2>2 DEF MarkTask, TypeOK, TaskStatus
<1>3. CASE CreateInstance(c)
  <2>1. PICK i \in api[c].todo :
            /\ attached' = attached \cup {i} /\ alive' = alive \cup {i}
            /\ RequestGoesTo(c, [api[c] EXCEPT !.todo = @ \ {i},
                   !.pc = IF api[c].todo = {i} THEN "cast" ELSE "creating"])
    BY <1>3 DEF CreateInstance
  <2>2. i \in Inst
    BY <1>1 DEF Request
  <2>3. [api[c] EXCEPT !.todo = @ \ {i},
             !.pc = IF api[c].todo = {i} THEN "cast" ELSE "creating"] \in Request
    BY <1>1 DEF Request
  <2>4. api' \in [Clients -> Request]
    BY <2>1, <2>3, ApiUpdate
  <2>5. QED BY <1>3, <2>1, <2>2, <2>4 DEF CreateInstance, TypeOK
<1>4. CASE CreateInstancesFail(c) \/ FinishShrink(c) \/ ShrinkFails(c) \/ ApiCrash(c)
  <2>1. api' \in [Clients -> Request]
    BY <1>4, IdleType, ApiUpdate DEF CreateInstancesFail, FinishShrink, ShrinkFails, ApiCrash
  <2>2. wedged' \in BOOLEAN
    BY <1>4 DEF CreateInstancesFail, FinishShrink, ShrinkFails, ApiCrash, TypeOK
  <2>3. QED
    BY <1>4, <2>1, <2>2 DEF CreateInstancesFail, FinishShrink, ShrinkFails, ApiCrash, TypeOK,
       TaskStatus
<1>5. CASE CastJob(c)
  <2>1. api' \in [Clients -> Request]
    BY <1>5, IdleType, ApiUpdate DEF CastJob
  <2>2. api[c].op \in {"create", "grow"} =>
          [op |-> api[c].op, pc |-> "wait", ids |-> api[c].ids, todo |-> {}, guest |-> NoInst] \in Job
    BY <1>1 DEF Request, Job
  <2>3. QED BY <1>5, <2>1, <2>2 DEF CastJob, TypeOK, OpShape
<1>6. CASE ReadHello(c)
  <2>1. [api[c] EXCEPT !.pc = IF primary \in api[c].ids THEN "stepdown" ELSE "remove",
             !.todo = api[c].ids, !.target = primary] \in Request
    BY <1>1 DEF Request, TypeOK
  <2>2. api' \in [Clients -> Request]
    BY <1>6, <2>1, ApiUpdate DEF ReadHello
  <2>3. QED BY <1>6, <2>2 DEF ReadHello, TypeOK
<1>7. CASE StepDown(c)
  <2>1. AfterStepDown(api[c]) \in Request
    BY <1>1 DEF Request, AfterStepDown
  <2>2. api' \in [Clients -> Request]
    BY <1>7, <2>1, ApiUpdate DEF StepDown
  <2>3. QED BY <1>7, <2>2 DEF StepDown, TypeOK
<1>8. CASE RemoveHost(c)
  <2>1. \A h : [api[c] EXCEPT !.todo = @ \ {h}] \in Request
    BY <1>1 DEF Request
  <2>2. api' \in [Clients -> Request]
    BY <1>8, <2>1, ApiUpdate DEF RemoveHost
  <2>3. QED BY <1>8, <2>2 DEF RemoveHost, TypeOK
<1>9. CASE RemoveRetried(c) \/ RemoveDone(c) \/ Unreadable(c)
  <2>1. [api[c] EXCEPT !.pc = "elect"] \in Request /\ AfterRemoved(api[c]) \in Request
    BY <1>1, RemovedShape DEF Request
  <2>2. api' \in [Clients -> Request]
    BY <1>9, <2>1, ApiUpdate DEF RemoveRetried, RemoveDone, Unreadable
  <2>3. QED BY <1>1, <1>9, <2>2 DEF RemoveRetried, RemoveDone, Unreadable, TypeOK
<1>10. CASE DetachInstance(c)
  <2>1. \A i : [api[c] EXCEPT !.todo = IF api[c].todo = {i} THEN api[c].ids ELSE @ \ {i},
                    !.pc = IF api[c].todo = {i} THEN "destroy" ELSE "detach"] \in Request
    BY <1>1 DEF Request
  <2>2. api' \in [Clients -> Request]
    BY <1>10, <2>1, ApiUpdate DEF DetachInstance
  <2>3. QED BY <1>10, <2>2 DEF DetachInstance, TypeOK
<1>11. CASE DestroyInstance(c)
  <2>1. \A i : [api[c] EXCEPT !.todo = @ \ {i}] \in Request
    BY <1>1 DEF Request
  <2>2. api' \in [Clients -> Request]
    BY <1>11, <2>1, ApiUpdate DEF DestroyInstance
  <2>3. QED BY <1>11, <2>2 DEF DestroyInstance, TypeOK
<1>12. QED
  BY <1>2, <1>3, <1>4, <1>5, <1>6, <1>7, <1>8, <1>9, <1>10, <1>11 DEF ApiStep

LEMMA JobType ==
    ASSUME TypeOK, NEW j \in jobs, JobStep(j)
    PROVE  TypeOK'
<1>1. j \in Job
  BY DEF TypeOK
<1>2. CASE JobReady(j)
  <2>1. \A ids \in SUBSET Inst, g \in Inst :
          [j EXCEPT !.pc = IF j.op = "create" THEN "init" ELSE "add",
                    !.ids = ids, !.todo = ids, !.guest = g] \in Job
    BY <1>1 DEF Job
  <2>2. attached \in SUBSET Inst /\ j.ids \in SUBSET Inst
    BY <1>1 DEF TypeOK, Job
  <2>3. jobs' \subseteq Job
    BY <1>2, <2>1, <2>2, JobUpdate DEF JobReady
  <2>4. QED BY <1>2, <2>3 DEF JobReady, TypeOK
<1>3. CASE JobInitiate(j)
  <2>1. [j EXCEPT !.pc = "primary", !.todo = {}] \in Job /\ j.ids \subseteq Inst
    BY <1>1 DEF Job
  <2>2. QED BY <1>3, <2>1, JobUpdate DEF JobInitiate, TypeOK
<1>4. CASE JobIsPrimary(j) \/ JobMembersReady(j)
  <2>1. [j EXCEPT !.pc = "members"] \in Job /\ [j EXCEPT !.pc = "complete"] \in Job
    BY <1>1 DEF Job
  <2>2. jobs' \subseteq Job
    BY <1>4, <2>1, JobUpdate DEF JobIsPrimary, JobMembersReady
  <2>3. QED BY <1>4, <2>2 DEF JobIsPrimary, JobMembersReady, TypeOK
<1>5. CASE JobAddMember(j)
  <2>1. PICK h \in j.todo :
            /\ config' = config \cup {h}
            /\ JobGoesTo(j, [j EXCEPT !.todo = @ \ {h},
                                      !.pc = IF j.todo = {h} THEN "members" ELSE "add"])
    BY <1>5 DEF JobAddMember
  <2>2. [j EXCEPT !.todo = @ \ {h}, !.pc = IF j.todo = {h} THEN "members" ELSE "add"] \in Job
    BY <1>1 DEF Job
  <2>3. h \in Inst
    BY <1>1 DEF Job
  <2>4. jobs' \subseteq Job
    BY <2>1, <2>2, JobUpdate
  <2>5. QED BY <1>5, <2>1, <2>3, <2>4 DEF JobAddMember, TypeOK
<1>6. CASE JobComplete(j) \/ JobFail(j)
  BY <1>6 DEF JobComplete, JobFail, TypeOK, TaskStatus
<1>7. QED BY <1>2, <1>3, <1>4, <1>5, <1>6 DEF JobStep

LEMMA OpStep == TypeOK /\ OpShape /\ [Next]_vars => OpShape'
<1> SUFFICES ASSUME TypeOK, OpShape, [Next]_vars PROVE OpShape'
  OBVIOUS
<1> USE DEF OpShape, RequestGoesTo
<1>2. ASSUME NEW c \in Clients, ClientStep(c) PROVE OpShape'
  <2>1. CASE CreateCluster(c) \/ StartGrow(c)
    <3>1. PICK operation \in {"create", "grow"}, start \in {"creating", "mark"} :
              Plan(c, operation, start) /\ (start = "mark" => operation = "grow")
      BY <2>1 DEF CreateCluster, StartGrow
    <3>2. PICK n \in 1 .. MaxNew :
              api' = [api EXCEPT ![c] = [Idle EXCEPT !.op = operation, !.pc = start,
                        !.ids = nInst + 1 .. nInst + n, !.todo = nInst + 1 .. nInst + n]]
      BY <3>1 DEF Plan
    <3>3. QED BY <3>1, <3>2 DEF TypeOK, Idle
  <2>2. CASE StartShrink(c)
    <3>1. PICK ids : api' = [api EXCEPT ![c] = [Idle EXCEPT !.op = "shrink", !.pc = "mark",
                                                            !.ids = ids]]
      BY <2>2 DEF StartShrink
    <3>2. QED BY <3>1 DEF TypeOK, Idle
  <2>3. QED BY <1>2, <2>1, <2>2 DEF ClientStep
<1>3. ASSUME NEW c \in Clients, ApiStep(c) \/ ApiCrash(c) PROVE OpShape'
  <2>1. api[c] \in Request
    BY DEF TypeOK
  <2>2. CASE MarkTask(c)
    BY <2>1, <2>2 DEF MarkTask, TypeOK, Request
  <2>3. CASE CreateInstance(c)
    <3>1. PICK i : api' = [api EXCEPT ![c] = [api[c] EXCEPT !.todo = @ \ {i},
                             !.pc = IF api[c].todo = {i} THEN "cast" ELSE "creating"]]
      BY <2>3 DEF CreateInstance
    <3>2. QED BY <2>1, <2>3, <3>1 DEF CreateInstance, TypeOK, Request
  <2>4. CASE CreateInstancesFail(c) \/ CastJob(c) \/ FinishShrink(c) \/ ShrinkFails(c) \/ ApiCrash(c)
    BY <2>4 DEF CreateInstancesFail, CastJob, FinishShrink, ShrinkFails, ApiCrash, TypeOK, Idle
  <2>5. CASE ReadHello(c) \/ StepDown(c) \/ RemoveRetried(c) \/ RemoveDone(c) \/ Unreadable(c)
    <3>1. CASE ReadHello(c)
      <4>1. PICK p \in {"stepdown", "remove"} :
                api' = [api EXCEPT ![c] = [api[c] EXCEPT !.pc = p, !.todo = api[c].ids,
                                                         !.target = primary]]
        BY <3>1 DEF ReadHello
      <4>2. QED BY <2>1, <4>1 DEF TypeOK, Request
    <3>2. CASE StepDown(c)
      BY <2>1, <3>2 DEF StepDown, AfterStepDown, TypeOK, Request
    <3>3. CASE RemoveRetried(c)
      BY <2>1, <3>3 DEF RemoveRetried, TypeOK, Request
    <3>4. CASE RemoveDone(c) \/ Unreadable(c)
      <4>1. api' = [api EXCEPT ![c] = AfterRemoved(api[c])]
        BY <3>4 DEF RemoveDone, Unreadable
      <4>2. QED BY <2>1, <4>1, RemovedShape DEF TypeOK
    <3>5. QED BY <2>5, <3>1, <3>2, <3>3, <3>4
  <2>6. CASE RemoveHost(c) \/ DestroyInstance(c)
    <3>1. PICK h : api' = [api EXCEPT ![c] = [api[c] EXCEPT !.todo = @ \ {h}]]
      BY <2>6 DEF RemoveHost, DestroyInstance
    <3>2. QED BY <2>1, <3>1 DEF TypeOK, Request
  <2>7. CASE DetachInstance(c)
    <3>1. PICK i : api' = [api EXCEPT ![c] = [api[c] EXCEPT
                             !.todo = IF api[c].todo = {i} THEN api[c].ids ELSE @ \ {i},
                             !.pc = IF api[c].todo = {i} THEN "destroy" ELSE "detach"]]
      BY <2>7 DEF DetachInstance
    <3>2. QED BY <2>1, <3>1 DEF TypeOK, Request
  <2>8. QED BY <1>3, <2>2, <2>3, <2>4, <2>5, <2>6, <2>7 DEF ApiStep
<1>4. CASE UNCHANGED api
  BY <1>4
<1>5. QED
  BY <1>2, <1>3, <1>4 DEF Next, vars, JobStep, JobReady, JobInitiate, JobIsPrimary, JobAddMember,
     JobMembersReady, JobComplete, JobFail, TaskManagerCrash, Elect, LosePrimary

LEMMA TypeStep == TypeOK /\ OpShape /\ [Next]_vars => TypeOK'
<1> SUFFICES ASSUME TypeOK, OpShape, [Next]_vars PROVE TypeOK'
  OBVIOUS
<1>1. CASE TaskManagerCrash \/ Elect \/ LosePrimary
  BY <1>1 DEF TaskManagerCrash, Elect, LosePrimary, TypeOK
<1>2. CASE UNCHANGED vars
  BY <1>2 DEF vars, TypeOK
<1>3. QED BY <1>1, <1>2, ClientType, ApiType, JobType DEF Next

LEMMA TypesInit == Init => TypeOK /\ OpShape
<1> SUFFICES ASSUME Init PROVE TypeOK /\ OpShape
  OBVIOUS
<1>1. api \in [Clients -> Request] /\ nInst \in 0 .. MaxInst
  BY IdleType, ReplicaBounds DEF Init
<1>2. TypeOK
  BY <1>1 DEF Init, TypeOK, TaskStatus
<1>3. OpShape
  BY DEF Init, OpShape, Idle
<1>4. QED BY <1>2, <1>3

LEMMA TypesAlways == Spec => [](TypeOK /\ OpShape)
  BY TypesInit, TypeStep, OpStep, PTL DEF Spec

(* The cluster row, the instances, the replica set, the requests and the     *)
(* jobs keep their types for any number of clients and instances.            *)
THEOREM ReplicaTypeCorrect == Spec => []TypeOK
  BY TypesAlways, PTL

-----------------------------------------------------------------------------
(* One request at a time.                                                    *)

OneClient == \A c, d \in Clients : c = d

Removing == {"elect", "stepdown", "remove", "detach", "destroy"}

(* A request works under the task it stored, and beside no job.              *)
Lock(r) ==
    /\ r.pc # "idle" => jobs = {}
    /\ r.pc = "mark" => task = "NONE"
    /\ r.pc \in {"creating", "cast"} => task \in {"BUILDING_INITIAL", "GROWING_CLUSTER"}
    /\ r.pc \in Removing => task = "SHRINKING_CLUSTER"

(* What a request has done so far: which of its instances exist, and which   *)
(* have left the replica set.                                                *)
Flow(r) ==
    /\ r.pc = "mark" /\ r.op = "grow" => r.todo = r.ids
    /\ r.pc = "creating" => r.ids \ r.todo \subseteq attached \cap alive
    /\ r.pc = "cast" => r.ids \subseteq attached \cap alive
    /\ r.pc = "remove" =>
         /\ r.target \notin r.ids /\ r.todo \subseteq r.ids
         /\ (r.ids \ r.todo) \cap config = {}
    /\ r.pc \in {"detach", "destroy"} => r.todo \subseteq r.ids /\ r.ids \cap config \subseteq misread

(* There is at most one job, and the instances it works on exist.            *)
JobInv ==
    /\ jobs # {} => task \in {"BUILDING_INITIAL", "GROWING_CLUSTER"}
    /\ \A j, k \in jobs : j = k
    /\ \A j \in jobs : j.ids \subseteq attached \cap alive /\ j.todo \subseteq j.ids

SerialInv ==
    /\ TypeOK /\ OpShape /\ JobInv /\ MembersExist
    /\ \A c \in Clients : Lock(api[c]) /\ Flow(api[c])

LEMMA OneRequest ==
    ASSUME TypeOK, OneClient, NEW c \in Clients, NEW r, RequestGoesTo(c, r)
    PROVE  \A d \in Clients : api'[d] = r
  BY DEF TypeOK, OneClient, RequestGoesTo

LEMMA SerialInit == Init => SerialInv
<1> SUFFICES ASSUME Init PROVE SerialInv
  OBVIOUS
<1>1. \A c \in Clients : api[c].pc = "idle"
  BY DEF Init, Idle
<1>2. QED
  BY <1>1, TypesInit DEF Init, SerialInv, JobInv, MembersExist, Lock, Flow, Removing

LEMMA SerialClient ==
    ASSUME SerialInv, OneClient, NEW c \in Clients, ClientStep(c)
    PROVE  JobInv' /\ MembersExist' /\ \A d \in Clients : Lock(api[d])' /\ Flow(api[d])'
<1> USE DEF SerialInv
<1>1. jobs = {} /\ UNCHANGED <<attached, alive, config, primary, jobs, misread>>
  BY DEF JobInv, ClientStep, CreateCluster, StartGrow, StartShrink
<1>2. JobInv' /\ MembersExist'
  BY <1>1 DEF JobInv, MembersExist
<1>3. CASE CreateCluster(c) \/ StartGrow(c)
  <2>1. PICK operation \in {"create", "grow"}, start \in {"creating", "mark"} :
            /\ Plan(c, operation, start)
            /\ start = "creating" => task' = "BUILDING_INITIAL"
            /\ start = "mark" => task' = "NONE"
    BY <1>3 DEF CreateCluster, StartGrow
  <2>2. PICK new : RequestGoesTo(c, [Idle EXCEPT !.op = operation, !.pc = start,
                                                 !.ids = new, !.todo = new])
    BY <2>1 DEF Plan
  <2>3. \A d \in Clients : api'[d].pc = start /\ api'[d].ids = new /\ api'[d].todo = new
    <3>1. \A d \in Clients : api'[d] = [Idle EXCEPT !.op = operation, !.pc = start,
                                                    !.ids = new, !.todo = new]
      BY <2>2, OneRequest
    <3>2. QED BY <3>1 DEF Idle
  <2>4. QED BY <1>1, <1>2, <2>1, <2>3 DEF Lock, Flow, Removing
<1>4. CASE StartShrink(c)
  <2>1. PICK ids : RequestGoesTo(c, [Idle EXCEPT !.op = "shrink", !.pc = "mark", !.ids = ids])
    BY <1>4 DEF StartShrink
  <2>2. \A d \in Clients : api'[d].pc = "mark" /\ api'[d].op = "shrink"
    <3>1. \A d \in Clients : api'[d] = [Idle EXCEPT !.op = "shrink", !.pc = "mark", !.ids = ids]
      BY <2>1, OneRequest
    <3>2. QED BY <3>1 DEF Idle
  <2>3. QED BY <1>1, <1>2, <1>4, <2>2 DEF Lock, Flow, Removing, StartShrink
<1>5. QED BY <1>3, <1>4 DEF ClientStep

LEMMA SerialJob ==
    ASSUME SerialInv, OneClient, NEW j \in jobs, JobStep(j)
    PROVE  JobInv' /\ MembersExist' /\ \A d \in Clients : Lock(api[d])' /\ Flow(api[d])'
<1> USE DEF SerialInv
<1>1. /\ j \in Job /\ jobs = {j} /\ task \in {"BUILDING_INITIAL", "GROWING_CLUSTER"}
      /\ j.ids \subseteq attached \cap alive /\ j.todo \subseteq j.ids
  BY DEF JobInv, TypeOK
<1>2. \A d \in Clients : api'[d] = api[d] /\ api[d].pc = "idle"
  BY DEF Lock, JobStep, JobReady, JobInitiate, JobIsPrimary, JobAddMember, JobMembersReady,
     JobComplete, JobFail
<1>3. \A d \in Clients : Lock(api[d])' /\ Flow(api[d])'
  BY <1>2 DEF Lock, Flow, Removing
<1>4. UNCHANGED <<attached, alive, primary, misread>>
  BY DEF JobStep, JobReady, JobInitiate, JobIsPrimary, JobAddMember, JobMembersReady,
     JobComplete, JobFail
<1>5. ASSUME NEW k, JobGoesTo(j, k), UNCHANGED task, k.ids \subseteq attached \cap alive,
             k.todo \subseteq k.ids
      PROVE  JobInv'
  <2>1. jobs' = {k}
    BY <1>1, <1>5 DEF JobGoesTo
  <2>2. QED BY <1>1, <1>4, <1>5, <2>1 DEF JobInv
<1>6. CASE JobReady(j)
  <2>1. PICK ids, g : /\ ids \subseteq attached \cap alive
                      /\ JobGoesTo(j, [j EXCEPT !.pc = IF j.op = "create" THEN "init" ELSE "add",
                                                !.ids = ids, !.todo = ids, !.guest = g])
    BY <1>1, <1>6 DEF JobReady
  <2>2. [j EXCEPT !.pc = IF j.op = "create" THEN "init" ELSE "add",
                  !.ids = ids, !.todo = ids, !.guest = g].ids = ids
    BY <1>1 DEF Job
  <2>3. [j EXCEPT !.pc = IF j.op = "create" THEN "init" ELSE "add",
                  !.ids = ids, !.todo = ids, !.guest = g].todo = ids
    BY <1>1 DEF Job
  <2>4. UNCHANGED <<task, config>>
    BY <1>6 DEF JobReady
  <2>5. JobInv'
    BY <1>5, <2>1, <2>2, <2>3, <2>4
  <2>6. QED BY <1>3, <1>4, <2>4, <2>5 DEF MembersExist
<1>7. CASE JobInitiate(j)
  <2>1. JobInv'
    <3>1. /\ [j EXCEPT !.pc = "primary", !.todo = {}].ids = j.ids
          /\ [j EXCEPT !.pc = "primary", !.todo = {}].todo = {}
      BY <1>1 DEF Job
    <3>2. QED BY <1>1, <1>5, <1>7, <3>1 DEF JobInitiate
  <2>2. MembersExist'
    BY <1>1, <1>4, <1>7 DEF JobInitiate, MembersExist
  <2>3. QED BY <1>3, <2>1, <2>2
<1>8. CASE JobIsPrimary(j) \/ JobMembersReady(j)
  <2>1. PICK p : JobGoesTo(j, [j EXCEPT !.pc = p])
    BY <1>8 DEF JobIsPrimary, JobMembersReady
  <2>2. [j EXCEPT !.pc = p].ids = j.ids /\ [j EXCEPT !.pc = p].todo = j.todo
    BY <1>1 DEF Job
  <2>3. UNCHANGED <<task, config>>
    BY <1>8 DEF JobIsPrimary, JobMembersReady
  <2>4. JobInv'
    BY <1>1, <1>5, <2>1, <2>2, <2>3
  <2>5. QED BY <1>3, <1>4, <2>3, <2>4 DEF MembersExist
<1>9. CASE JobAddMember(j)
  <2>1. PICK h \in j.todo :
            /\ config' = config \cup {h}
            /\ JobGoesTo(j, [j EXCEPT !.todo = @ \ {h},
                                      !.pc = IF j.todo = {h} THEN "members" ELSE "add"])
    BY <1>9 DEF JobAddMember
  <2>2. /\ [j EXCEPT !.todo = @ \ {h}, !.pc = IF j.todo = {h} THEN "members" ELSE "add"].ids = j.ids
        /\ [j EXCEPT !.todo = @ \ {h},
                     !.pc = IF j.todo = {h} THEN "members" ELSE "add"].todo = j.todo \ {h}
    BY <1>1 DEF Job
  <2>3. UNCHANGED task
    BY <1>9 DEF JobAddMember
  <2>4. JobInv'
    BY <1>1, <1>5, <2>1, <2>2, <2>3
  <2>5. MembersExist'
    BY <1>1, <1>4, <2>1 DEF MembersExist
  <2>6. QED BY <1>3, <2>4, <2>5
<1>10. CASE JobComplete(j) \/ JobFail(j)
  <2>1. jobs' = {} /\ UNCHANGED config
    BY <1>1, <1>10 DEF JobComplete, JobFail
  <2>2. QED BY <1>3, <1>4, <2>1 DEF JobInv, MembersExist
<1>11. QED BY <1>6, <1>7, <1>8, <1>9, <1>10 DEF JobStep

LEMMA SerialApi ==
    ASSUME SerialInv, OneClient, NEW c \in Clients, ApiStep(c) \/ ApiCrash(c)
    PROVE  JobInv' /\ MembersExist' /\ \A d \in Clients : Lock(api[d])' /\ Flow(api[d])'
<1> USE DEF SerialInv
<1>1. api[c] \in Request /\ Lock(api[c]) /\ Flow(api[c])
  BY DEF TypeOK
<1>2. api[c].pc # "idle" /\ jobs = {}
  BY <1>1 DEF Lock, ApiStep, ApiCrash, MarkTask, CreateInstance, CreateInstancesFail, CastJob,
     ReadHello, StepDown, RemoveHost, RemoveRetried, RemoveDone, Unreadable, DetachInstance,
     DestroyInstance, FinishShrink, ShrinkFails
<1>3. ASSUME UNCHANGED jobs PROVE JobInv'
  BY <1>2, <1>3 DEF JobInv
<1>4. CASE MarkTask(c)
  <2>1. UNCHANGED <<attached, alive, config, primary, jobs, misread>>
    BY <1>4 DEF MarkTask
  <2>2. CASE api[c].op = "grow"
    <3>1. \A d \in Clients : api'[d] = [api[c] EXCEPT !.pc = "creating"]
      BY <1>4, <2>2, OneRequest DEF MarkTask
    <3>2. \A d \in Clients : /\ api'[d].pc = "creating"
                             /\ api'[d].ids = api[c].ids /\ api'[d].todo = api[c].ids
      BY <1>1, <1>4, <2>2, <3>1 DEF Request, Flow, MarkTask
    <3>3. task' = "GROWING_CLUSTER"
      BY <1>4, <2>2 DEF MarkTask
    <3>4. QED BY <1>2, <1>3, <2>1, <3>2, <3>3 DEF Lock, Flow, Removing, MembersExist
  <2>3. CASE api[c].op # "grow"
    <3>1. \A d \in Clients : api'[d] = [api[c] EXCEPT !.pc = "elect"]
      BY <1>4, <2>3, OneRequest DEF MarkTask
    <3>2. \A d \in Clients : api'[d].pc = "elect"
      BY <1>1, <3>1 DEF Request
    <3>3. task' = "SHRINKING_CLUSTER"
      BY <1>4, <2>3 DEF MarkTask
    <3>4. QED BY <1>2, <1>3, <2>1, <3>2, <3>3 DEF Lock, Flow, Removing, MembersExist
  <2>4. QED BY <2>2, <2>3
<1>5. CASE CreateInstance(c)
  <2>1. PICK i \in api[c].todo :
            /\ attached' = attached \cup {i} /\ alive' = alive \cup {i}
            /\ RequestGoesTo(c, [api[c] EXCEPT !.todo = @ \ {i},
                   !.pc = IF api[c].todo = {i} THEN "cast" ELSE "creating"])
    BY <1>5 DEF CreateInstance
  <2>2. \A d \in Clients : api'[d] = [api[c] EXCEPT !.todo = @ \ {i},
                             !.pc = IF api[c].todo = {i} THEN "cast" ELSE "creating"]
    BY <2>1, OneRequest
  <2>3. \A d \in Clients : /\ api'[d].pc = IF api[c].todo = {i} THEN "cast" ELSE "creating"
                           /\ api'[d].ids = api[c].ids /\ api'[d].todo = api[c].todo \ {i}
    BY ZenonT(40), <1>1, <2>2 DEF Request
  <2>4. api[c].pc = "creating" /\ UNCHANGED <<task, config, primary, jobs, misread>>
    BY <1>5 DEF CreateInstance
  <2>5. MembersExist'
    BY <2>1, <2>4 DEF MembersExist
  <2>6. \A d \in Clients : Lock(api[d])'
    BY <1>1, <2>3, <2>4 DEF Lock, Removing
  <2>7. \A d \in Clients : Flow(api[d])'
    BY <1>1, <2>1, <2>3, <2>4 DEF Flow
  <2>8. QED BY <1>3, <2>4, <2>5, <2>6, <2>7
<1>6. CASE CreateInstancesFail(c) \/ FinishShrink(c) \/ ShrinkFails(c) \/ ApiCrash(c)
  <2>1. \A d \in Clients : api'[d] = Idle
    BY <1>6, OneRequest DEF CreateInstancesFail, FinishShrink, ShrinkFails, ApiCrash
  <2>2. \A d \in Clients : api'[d].pc = "idle"
    BY <2>1 DEF Idle
  <2>3. UNCHANGED <<attached, alive, config, primary, jobs, misread>>
    BY <1>6 DEF CreateInstancesFail, FinishShrink, ShrinkFails, ApiCrash
  <2>4. QED BY <1>3, <2>2, <2>3 DEF Lock, Flow, Removing, MembersExist
<1>7. CASE CastJob(c)
  <2>1. \A d \in Clients : api'[d] = Idle
    BY <1>7, OneRequest DEF CastJob
  <2>2. \A d \in Clients : api'[d].pc = "idle"
    BY <2>1 DEF Idle
  <2>3. UNCHANGED <<task, attached, alive, config, primary, misread>>
    BY <1>7 DEF CastJob
  <2>4. jobs' = {[op |-> api[c].op, pc |-> "wait", ids |-> api[c].ids, todo |-> {},
                  guest |-> NoInst]}
    BY <1>2, <1>7 DEF CastJob
  <2>5. api[c].ids \subseteq attached \cap alive /\ task \in {"BUILDING_INITIAL", "GROWING_CLUSTER"}
    BY <1>1, <1>7 DEF CastJob, Lock, Flow
  <2>6. JobInv'
    BY <2>3, <2>4, <2>5 DEF JobInv
  <2>7. QED BY <2>2, <2>3, <2>6 DEF Lock, Flow, Removing, MembersExist
<1>8. CASE ReadHello(c)
  <2>1. \A d \in Clients : api'[d] = [api[c] EXCEPT
            !.pc = IF primary \in api[c].ids THEN "stepdown" ELSE "remove",
            !.todo = api[c].ids, !.target = primary]
    BY <1>8, OneRequest DEF ReadHello
  <2>2. \A d \in Clients : /\ api'[d].pc = IF primary \in api[c].ids THEN "stepdown" ELSE "remove"
                           /\ api'[d].ids = api[c].ids /\ api'[d].todo = api[c].ids
                           /\ api'[d].target = primary
    BY ZenonT(40), <1>1, <2>1 DEF Request
  <2>3. api[c].pc = "elect" /\ UNCHANGED <<task, attached, alive, config, primary, jobs, misread>>
    BY <1>8 DEF ReadHello
  <2>4. QED BY <1>1, <1>3, <2>2, <2>3 DEF Lock, Flow, Removing, MembersExist
<1>9. CASE StepDown(c)
  <2>1. \A d \in Clients : api'[d] = [api[c] EXCEPT !.pc = "elect"]
    BY <1>9, OneRequest DEF StepDown, AfterStepDown
  <2>2. \A d \in Clients : api'[d].pc = "elect"
    BY <1>1, <2>1 DEF Request
  <2>3. /\ api[c].pc = "stepdown" /\ UNCHANGED <<task, attached, alive, config, jobs, misread>>
        /\ primary' \in {primary, NoInst}
    BY <1>9 DEF StepDown
  <2>4. QED BY <1>1, <1>3, <2>2, <2>3 DEF Lock, Flow, Removing, MembersExist
<1>10. CASE RemoveHost(c)
  <2>1. PICK h \in api[c].todo :
            /\ h \in config => primary = api[c].target
            /\ config' = config \ {h}
            /\ RequestGoesTo(c, [api[c] EXCEPT !.todo = @ \ {h}])
    BY <1>10 DEF RemoveHost
  <2>2. \A d \in Clients : api'[d] = [api[c] EXCEPT !.todo = @ \ {h}]
    BY <2>1, OneRequest
  <2>3. \A d \in Clients : /\ api'[d].pc = "remove" /\ api'[d].ids = api[c].ids
                           /\ api'[d].todo = api[c].todo \ {h}
                           /\ api'[d].target = api[c].target
    BY <1>1, <1>10, <2>2 DEF Request, RemoveHost
  <2>4. api[c].pc = "remove" /\ UNCHANGED <<task, attached, alive, primary, jobs, misread>>
    BY <1>10 DEF RemoveHost
  <2>5. MembersExist'
    <3>1. h \in config => primary # h
      BY <1>1, <2>1, <2>4 DEF Flow
    <3>2. QED BY <2>1, <2>4, <3>1 DEF MembersExist
  <2>6. \A d \in Clients : Lock(api[d])'
    BY <1>1, <2>3, <2>4 DEF Lock, Removing
  <2>7. \A d \in Clients : Flow(api[d])'
    BY <1>1, <2>1, <2>3, <2>4 DEF Flow
  <2>8. QED BY <1>3, <2>4, <2>5, <2>6, <2>7
<1>11. CASE RemoveRetried(c)
  <2>1. \A d \in Clients : api'[d] = [api[c] EXCEPT !.pc = "elect"]
    BY <1>11, OneRequest DEF RemoveRetried
  <2>2. \A d \in Clients : api'[d].pc = "elect"
    BY <1>1, <2>1 DEF Request
  <2>3. api[c].pc = "remove" /\ UNCHANGED <<task, attached, alive, config, primary, jobs, misread>>
    BY <1>11 DEF RemoveRetried
  <2>4. QED BY <1>1, <1>3, <2>2, <2>3 DEF Lock, Flow, Removing, MembersExist
<1>12. CASE RemoveDone(c)
  <2>1. \A d \in Clients : api'[d] = AfterRemoved(api[c])
    BY <1>12, OneRequest DEF RemoveDone
  <2>2. \A d \in Clients : /\ api'[d].pc \in {"detach", "destroy"}
                           /\ api'[d].ids = api[c].ids /\ api'[d].todo = api[c].ids
    BY <1>1, <2>1, RemovedShape
  <2>3. /\ api[c].pc = "remove" /\ api[c].todo = {}
        /\ UNCHANGED <<task, attached, alive, config, primary, jobs, misread>>
    BY <1>12 DEF RemoveDone
  <2>4. QED BY <1>1, <1>3, <2>2, <2>3 DEF Lock, Flow, Removing, MembersExist
<1>13. CASE DetachInstance(c)
  <2>1. PICK i \in api[c].todo :
            /\ attached' = attached \ {i}
            /\ RequestGoesTo(c, [api[c] EXCEPT
                  !.todo = IF api[c].todo = {i} THEN api[c].ids ELSE @ \ {i},
                  !.pc = IF api[c].todo = {i} THEN "destroy" ELSE "detach"])
    BY <1>13 DEF DetachInstance
  <2>2. \A d \in Clients : api'[d] = [api[c] EXCEPT
            !.todo = IF api[c].todo = {i} THEN api[c].ids ELSE @ \ {i},
            !.pc = IF api[c].todo = {i} THEN "destroy" ELSE "detach"]
    BY <2>1, OneRequest
  <2>3. \A d \in Clients : /\ api'[d].pc \in {"destroy", "detach"} /\ api'[d].ids = api[c].ids
                           /\ api'[d].todo \in {api[c].ids, api[c].todo \ {i}}
    BY ZenonT(40), <1>1, <2>2 DEF Request
  <2>4. api[c].pc = "detach" /\ UNCHANGED <<task, alive, config, primary, jobs, misread>>
    BY <1>13 DEF DetachInstance
  <2>5. api[c].todo \subseteq api[c].ids /\ api[c].ids \cap config \subseteq misread
    BY <1>1, <2>4 DEF Flow
  <2>6. MembersExist'
    BY <2>1, <2>4, <2>5 DEF MembersExist
  <2>7. \A d \in Clients : Lock(api[d])' /\ Flow(api[d])'
    BY <1>1, <2>3, <2>4, <2>5 DEF Lock, Flow, Removing
  <2>8. QED BY <1>3, <2>4, <2>6, <2>7
<1>14. CASE DestroyInstance(c)
  <2>1. PICK i \in api[c].todo :
            /\ alive' = alive \ {i}
            /\ primary' = IF primary = i THEN NoInst ELSE primary
            /\ RequestGoesTo(c, [api[c] EXCEPT !.todo = @ \ {i}])
    BY <1>14 DEF DestroyInstance
  <2>2. \A d \in Clients : api'[d] = [api[c] EXCEPT !.todo = @ \ {i}]
    BY <2>1, OneRequest
  <2>3. \A d \in Clients : /\ api'[d].pc = "destroy" /\ api'[d].ids = api[c].ids
                           /\ api'[d].todo = api[c].todo \ {i}
    BY <1>1, <1>14, <2>2 DEF Request, DestroyInstance
  <2>4. api[c].pc = "destroy" /\ UNCHANGED <<task, attached, config, jobs, misread>>
    BY <1>14 DEF DestroyInstance
  <2>5. api[c].todo \subseteq api[c].ids /\ api[c].ids \cap config \subseteq misread
    BY <1>1, <2>4 DEF Flow
  <2>6. MembersExist'
    BY <2>1, <2>4, <2>5 DEF MembersExist
  <2>7. \A d \in Clients : Lock(api[d])' /\ Flow(api[d])'
    BY <1>1, <2>3, <2>4, <2>5 DEF Lock, Flow, Removing
  <2>8. QED BY <1>3, <2>4, <2>6, <2>7
<1>15. CASE Unreadable(c)
  <2>1. \A d \in Clients : api'[d] = AfterRemoved(api[c])
    BY <1>15, OneRequest DEF Unreadable
  <2>2. \A d \in Clients : /\ api'[d].pc \in {"detach", "destroy"}
                           /\ api'[d].ids = api[c].ids /\ api'[d].todo = api[c].ids
    BY <1>1, <2>1, RemovedShape
  <2>3. /\ api[c].pc \in {"stepdown", "remove"}
        /\ misread' = misread \cup (api[c].ids \cap config) /\ primary' \in {primary, NoInst}
        /\ UNCHANGED <<task, attached, alive, config, jobs>>
    BY <1>15 DEF Unreadable
  <2>4. QED BY <1>1, <1>3, <2>2, <2>3 DEF Lock, Flow, Removing, MembersExist
<1>16. QED
  BY <1>4, <1>5, <1>6, <1>7, <1>8, <1>9, <1>10, <1>11, <1>12, <1>13, <1>14, <1>15 DEF ApiStep

LEMMA SerialStep == OneClient /\ SerialInv /\ [Next]_vars => SerialInv'
<1> SUFFICES ASSUME OneClient, SerialInv, [Next]_vars
             PROVE  JobInv' /\ MembersExist' /\ \A d \in Clients : Lock(api[d])' /\ Flow(api[d])'
  BY TypeStep, OpStep DEF SerialInv
<1>1. CASE TaskManagerCrash
  BY <1>1 DEF TaskManagerCrash, SerialInv, JobInv, MembersExist, Lock, Flow
<1>2. CASE Elect \/ LosePrimary
  BY <1>2 DEF Elect, LosePrimary, SerialInv, JobInv, MembersExist, Lock, Flow
<1>3. CASE UNCHANGED vars
  BY <1>3 DEF vars, SerialInv, JobInv, MembersExist, Lock, Flow
<1>4. QED BY <1>1, <1>2, <1>3, SerialClient, SerialApi, SerialJob DEF Next

LEMMA SerialAlways == OneClient => (Spec => []SerialInv)
<1> SUFFICES ASSUME OneClient PROVE Spec => []SerialInv
  OBVIOUS
<1>1. SerialInv /\ [Next]_vars => SerialInv'
  BY SerialStep
<1>2. QED BY SerialInit, <1>1, PTL DEF Spec

(* With one request at a time every member of the replica set is an existing *)
(* instance of the cluster and the primary is a member, for any number of    *)
(* instances and whatever elections, lost answers, crashes and retries do to *)
(* remove_replica_members; the exceptions are exactly the members a shrink   *)
(* was told are removed on the strength of an answer nobody could read.      *)
THEOREM MembersAlwaysExist == OneClient => (Spec => []MembersExist)
<1> SUFFICES ASSUME OneClient PROVE Spec => []MembersExist
  OBVIOUS
<1>1. SerialInv => MembersExist
  BY DEF SerialInv
<1>2. QED BY SerialAlways, <1>1, PTL

-----------------------------------------------------------------------------
(* How many instances stay.                                                  *)

Enough(S) == Cardinality(S) >= MIN_REPLICA_SET_MEMBERS

(* A request never has the cluster below the minimum behind an available     *)
(* task: grow starts from enough, create ends with enough, and shrink leaves *)
(* enough even when all it was asked to remove is gone.                      *)
Keeps(r) ==
    /\ r.op = "grow" /\ r.pc \in {"mark", "creating", "cast"} => Enough(attached)
    /\ r.op = "create" /\ r.pc = "cast" => Enough(r.ids)
    /\ (r.op = "shrink" /\ r.pc = "mark") \/ r.pc \in Removing => Enough(attached \ r.ids)

RetainInv ==
    /\ task = "NONE" => Enough(attached)
    /\ jobs # {} => Enough(attached)
    /\ \A c \in Clients : Keeps(api[c])

LEMMA MoreIsEnough ==
    ASSUME NEW S, NEW T, S \subseteq T, T \subseteq Inst, Enough(S)
    PROVE  Enough(T)
<1>1. IsFiniteSet(Inst)
  BY ReplicaBounds, FS_Interval DEF Inst
<1>2. IsFiniteSet(T) /\ IsFiniteSet(S) /\ Cardinality(S) <= Cardinality(T)
  BY <1>1, FS_Subset
<1>3. Cardinality(S) \in Nat /\ Cardinality(T) \in Nat
  BY <1>2, FS_CardinalityType
<1>4. QED BY <1>2, <1>3 DEF Enough, MIN_REPLICA_SET_MEMBERS

LEMMA RetainedLeaves ==
    ASSUME TypeOK, NEW ids \in SUBSET attached, Retained(ids)
    PROVE  Enough(attached \ ids)
<1>1. IsFiniteSet(attached)
  <2>1. IsFiniteSet(Inst)
    BY ReplicaBounds, FS_Interval DEF Inst
  <2>2. QED BY <2>1, FS_Subset DEF TypeOK
<1>2. attached \cap ids = ids
  OBVIOUS
<1>3. Cardinality(attached \ ids) = Cardinality(attached) - Cardinality(ids)
  BY <1>1, <1>2, FS_Difference
<1>4. QED BY <1>3 DEF Retained, Enough

LEMMA RetainInit == Init => RetainInv
<1> SUFFICES ASSUME Init PROVE RetainInv
  OBVIOUS
<1>1. \A c \in Clients : api[c].pc = "idle"
  BY DEF Init, Idle
<1>2. QED BY <1>1 DEF Init, RetainInv, Keeps, Removing

LEMMA RetainClient ==
    ASSUME SerialInv, RetainInv, OneClient, NEW c \in Clients, ClientStep(c)
    PROVE  RetainInv'
<1>1. UNCHANGED <<attached, jobs>> /\ (task' = "NONE" => task = "NONE")
  BY DEF ClientStep, CreateCluster, StartGrow, StartShrink
<1>2. CASE CreateCluster(c) \/ StartGrow(c)
  <2>1. PICK operation \in {"create", "grow"}, start \in {"creating", "mark"} :
            /\ Plan(c, operation, start)
            /\ operation = "grow" => task = "NONE"
    BY <1>2 DEF CreateCluster, StartGrow
  <2>2. PICK new : RequestGoesTo(c, [Idle EXCEPT !.op = operation, !.pc = start,
                                                 !.ids = new, !.todo = new])
    BY <2>1 DEF Plan
  <2>3. \A d \in Clients : api'[d].pc = start /\ api'[d].op = operation
    <3>1. \A d \in Clients : api'[d] = [Idle EXCEPT !.op = operation, !.pc = start,
                                                    !.ids = new, !.todo = new]
      BY <2>2, OneRequest DEF SerialInv
    <3>2. QED BY <3>1 DEF Idle
  <2>4. QED BY <1>1, <2>1, <2>3 DEF RetainInv, Keeps, Removing
<1>3. CASE StartShrink(c)
  <2>1. PICK ids \in SUBSET attached :
            /\ Retained(ids)
            /\ RequestGoesTo(c, [Idle EXCEPT !.op = "shrink", !.pc = "mark", !.ids = ids])
    BY <1>3 DEF StartShrink
  <2>2. \A d \in Clients : api'[d].pc = "mark" /\ api'[d].op = "shrink" /\ api'[d].ids = ids
    <3>1. \A d \in Clients : api'[d] = [Idle EXCEPT !.op = "shrink", !.pc = "mark", !.ids = ids]
      BY <2>1, OneRequest DEF SerialInv
    <3>2. QED BY <3>1 DEF Idle
  <2>3. Enough(attached \ ids)
    BY <2>1, RetainedLeaves DEF SerialInv
  <2>4. QED BY <1>1, <2>2, <2>3 DEF RetainInv, Keeps, Removing
<1>4. QED BY <1>2, <1>3 DEF ClientStep

LEMMA RetainApi ==
    ASSUME SerialInv, RetainInv, OneClient, NEW c \in Clients, ApiStep(c) \/ ApiCrash(c)
    PROVE  RetainInv'
<1>1. /\ api[c] \in Request /\ Lock(api[c]) /\ Flow(api[c]) /\ Keeps(api[c])
      /\ attached \subseteq Inst
  BY DEF SerialInv, RetainInv, TypeOK
<1>2. CASE MarkTask(c)
  <2>1. UNCHANGED <<attached, jobs>> /\ task' # "NONE"
    BY <1>2 DEF MarkTask
  <2>2. PICK p \in {"creating", "elect"} : /\ \A d \in Clients : api'[d] = [api[c] EXCEPT !.pc = p]
                                           /\ p = "creating" <=> api[c].op = "grow"
    BY <1>2, OneRequest DEF MarkTask, SerialInv
  <2>3. \A d \in Clients : api'[d].pc = p /\ api'[d].op = api[c].op /\ api'[d].ids = api[c].ids
    BY <1>1, <2>2 DEF Request
  <2>4. api[c].pc = "mark" /\ api[c].op \in {"grow", "shrink"}
    BY <1>2 DEF MarkTask, SerialInv, OpShape
  <2>5. QED BY <1>1, <2>1, <2>2, <2>3, <2>4 DEF RetainInv, Keeps, Removing
<1>3. CASE CreateInstance(c)
  <2>1. PICK i \in api[c].todo :
            /\ attached' = attached \cup {i}
            /\ RequestGoesTo(c, [api[c] EXCEPT !.todo = @ \ {i},
                   !.pc = IF api[c].todo = {i} THEN "cast" ELSE "creating"])
    BY <1>3 DEF CreateInstance
  <2>2. \A d \in Clients : api'[d] = [api[c] EXCEPT !.todo = @ \ {i},
                             !.pc = IF api[c].todo = {i} THEN "cast" ELSE "creating"]
    BY <2>1, OneRequest DEF SerialInv
  <2>3. \A d \in Clients : /\ api'[d].pc \in {"cast", "creating"}
                           /\ api'[d].op = api[c].op /\ api'[d].ids = api[c].ids
    BY ZenonT(40), <1>1, <2>2 DEF Request
  <2>4. /\ api[c].pc = "creating" /\ UNCHANGED <<task, jobs>>
        /\ api[c].op = "create" => Enough(api[c].ids)
    BY <1>3 DEF CreateInstance, Enough
  <2>5. attached' \subseteq Inst
    BY <1>1, <2>1 DEF Request
  <2>6. Enough(attached) => Enough(attached')
    BY <2>1, <2>5, MoreIsEnough
  <2>7. QED BY <1>1, <2>3, <2>4, <2>6 DEF RetainInv, Keeps, Removing, Enough
<1>4. CASE CreateInstancesFail(c) \/ FinishShrink(c) \/ ShrinkFails(c) \/ ApiCrash(c)
  <2>1. \A d \in Clients : api'[d].pc = "idle"
    <3>1. \A d \in Clients : api'[d] = Idle
      BY <1>4, OneRequest DEF CreateInstancesFail, FinishShrink, ShrinkFails, ApiCrash, SerialInv
    <3>2. QED BY <3>1 DEF Idle
  <2>2. UNCHANGED <<attached, jobs>>
    BY <1>4 DEF CreateInstancesFail, FinishShrink, ShrinkFails, ApiCrash
  <2>3. task' = "NONE" => task = "NONE" \/ api[c].pc \in Removing
    BY <1>4 DEF CreateInstancesFail, FinishShrink, ShrinkFails, ApiCrash, Removing
  <2>4. task' = "NONE" => Enough(attached)
    BY <1>1, <2>3, MoreIsEnough DEF RetainInv, Keeps
  <2>5. QED BY <2>1, <2>2, <2>4 DEF RetainInv, Keeps, Removing
<1>5. CASE CastJob(c)
  <2>1. \A d \in Clients : api'[d].pc = "idle"
    <3>1. \A d \in Clients : api'[d] = Idle
      BY <1>5, OneRequest DEF CastJob, SerialInv
    <3>2. QED BY <3>1 DEF Idle
  <2>2. api[c].pc = "cast" /\ UNCHANGED <<task, attached>>
    BY <1>5 DEF CastJob
  <2>3. api[c].op \in {"create", "grow"} /\ api[c].ids \subseteq attached
    BY <1>1, <2>2 DEF SerialInv, OpShape, Flow
  <2>4. Enough(attached)
    BY <1>1, <2>2, <2>3, MoreIsEnough DEF Keeps
  <2>5. QED BY <2>1, <2>2, <2>4 DEF RetainInv, Keeps, Removing
<1>6. ASSUME api[c].pc \in Removing, UNCHANGED <<task, jobs>>,
             \A d \in Clients : api'[d].pc \in Removing /\ api'[d].ids = api[c].ids,
             attached \ api[c].ids = attached' \ api[c].ids,
             attached' \subseteq Inst
      PROVE  RetainInv'
  <2>1. Enough(attached' \ api[c].ids)
    BY <1>1, <1>6 DEF Keeps
  <2>2. Enough(attached')
    BY <1>6, <2>1, MoreIsEnough
  <2>3. QED BY <1>6, <2>1, <2>2 DEF RetainInv, Keeps, Removing
<1>7. CASE ReadHello(c) \/ StepDown(c) \/ RemoveRetried(c) \/ RemoveDone(c) \/ Unreadable(c)
  <2>1. \A d \in Clients : api'[d].pc \in Removing /\ api'[d].ids = api[c].ids
    <3>1. CASE ReadHello(c)
      <4>1. \A d \in Clients : api'[d] = [api[c] EXCEPT
                !.pc = IF primary \in api[c].ids THEN "stepdown" ELSE "remove",
                !.todo = api[c].ids, !.target = primary]
        BY <3>1, OneRequest DEF ReadHello, SerialInv
      <4>2. QED BY ZenonT(40), <1>1, <4>1 DEF Request, Removing
    <3>2. CASE StepDown(c) \/ RemoveRetried(c)
      <4>1. \A d \in Clients : api'[d] = [api[c] EXCEPT !.pc = "elect"]
        BY <3>2, OneRequest DEF StepDown, AfterStepDown, RemoveRetried, SerialInv
      <4>2. QED BY <1>1, <4>1 DEF Request, Removing
    <3>3. CASE RemoveDone(c) \/ Unreadable(c)
      <4>1. \A d \in Clients : api'[d] = AfterRemoved(api[c])
        BY <3>3, OneRequest DEF RemoveDone, Unreadable, SerialInv
      <4>2. QED BY <1>1, <4>1, RemovedShape DEF Removing
    <3>4. QED BY <1>7, <3>1, <3>2, <3>3
  <2>2. api[c].pc \in Removing /\ UNCHANGED <<task, attached, jobs>>
    BY <1>7 DEF ReadHello, StepDown, RemoveRetried, RemoveDone, Unreadable, Removing
  <2>3. QED BY <1>1, <1>6, <2>1, <2>2
<1>8. CASE RemoveHost(c) \/ DestroyInstance(c)
  <2>1. PICK h : RequestGoesTo(c, [api[c] EXCEPT !.todo = @ \ {h}])
    BY <1>8 DEF RemoveHost, DestroyInstance
  <2>2. \A d \in Clients : api'[d] = [api[c] EXCEPT !.todo = @ \ {h}]
    BY <2>1, OneRequest DEF SerialInv
  <2>3. \A d \in Clients : api'[d].pc = api[c].pc /\ api'[d].ids = api[c].ids
    BY <1>1, <2>2 DEF Request
  <2>4. api[c].pc \in Removing /\ UNCHANGED <<task, attached, jobs>>
    BY <1>8 DEF RemoveHost, DestroyInstance, Removing
  <2>5. QED BY <1>1, <1>6, <2>3, <2>4
<1>9. CASE DetachInstance(c)
  <2>1. PICK i \in api[c].todo :
            /\ attached' = attached \ {i}
            /\ RequestGoesTo(c, [api[c] EXCEPT
                  !.todo = IF api[c].todo = {i} THEN api[c].ids ELSE @ \ {i},
                  !.pc = IF api[c].todo = {i} THEN "destroy" ELSE "detach"])
    BY <1>9 DEF DetachInstance
  <2>2. \A d \in Clients : api'[d] = [api[c] EXCEPT
            !.todo = IF api[c].todo = {i} THEN api[c].ids ELSE @ \ {i},
            !.pc = IF api[c].todo = {i} THEN "destroy" ELSE "detach"]
    BY <2>1, OneRequest DEF SerialInv
  <2>3. \A d \in Clients : api'[d].pc \in Removing /\ api'[d].ids = api[c].ids
    BY ZenonT(40), <1>1, <2>2 DEF Request, Removing
  <2>4. api[c].pc = "detach" /\ UNCHANGED <<task, jobs>>
    BY <1>9 DEF DetachInstance
  <2>5. i \in api[c].ids
    BY <1>1, <2>1, <2>4 DEF Flow
  <2>6. QED BY <1>1, <1>6, <2>1, <2>3, <2>4, <2>5 DEF Removing
<1>10. QED
  BY <1>2, <1>3, <1>4, <1>5, <1>7, <1>8, <1>9 DEF ApiStep

LEMMA RetainStep == OneClient /\ SerialInv /\ RetainInv /\ [Next]_vars => RetainInv'
<1> SUFFICES ASSUME OneClient, SerialInv, RetainInv, [Next]_vars PROVE RetainInv'
  OBVIOUS
<1>1. ASSUME NEW j \in jobs, JobStep(j) PROVE RetainInv'
  <2>1. UNCHANGED <<attached, api>>
    BY <1>1 DEF JobStep, JobReady, JobInitiate, JobIsPrimary, JobAddMember, JobMembersReady,
       JobComplete, JobFail
  <2>2. QED BY <1>1, <2>1 DEF RetainInv, Keeps
<1>2. CASE TaskManagerCrash \/ Elect \/ LosePrimary
  BY <1>2 DEF TaskManagerCrash, Elect, LosePrimary, RetainInv, Keeps
<1>3. CASE UNCHANGED vars
  BY <1>3 DEF vars, RetainInv, Keeps
<1>4. QED BY <1>1, <1>2, <1>3, RetainClient, RetainApi DEF Next

(* With one request at a time an available cluster has at least two          *)
(* instances: neither a create that fails between two instances nor a shrink *)
(* that fails between two of its removals makes a smaller one available.     *)
THEOREM EnoughInstancesRetained == OneClient => (Spec => []InstancesRetained)
<1> SUFFICES ASSUME OneClient PROVE Spec => []InstancesRetained
  OBVIOUS
<1>1. SerialInv /\ RetainInv /\ [Next]_vars => RetainInv'
  BY RetainStep
<1>2. RetainInv => InstancesRetained
  BY DEF RetainInv, InstancesRetained, Enough
<1>3. Spec => []SerialInv
  BY SerialAlways
<1>4. QED BY RetainInit, <1>1, <1>2, <1>3, PTL DEF Spec

-----------------------------------------------------------------------------
(* The cluster implements ClusterService.                                    *)

(* A cluster that was built has members, and removals run on one of them.    *)
ServesInv ==
    /\ task \notin {"ABSENT", "BUILDING_INITIAL"} => config # {}
    /\ \A j \in jobs : j.pc = "complete" => config # {}
    /\ \A c \in Clients : api[c].pc = "remove" => api[c].target # NoInst

(* rs.remove of the shrink loop leaves the member that executes it.          *)
LEMMA RemovalLeavesMember ==
    ASSUME SerialInv, ServesInv, NEW c \in Clients, RemoveHost(c)
    PROVE  config' # config => config' # {}
<1>1. PICK h \in api[c].todo : (h \in config => primary = api[c].target) /\ config' = config \ {h}
  BY DEF RemoveHost
<1>2. api[c].pc = "remove" /\ Flow(api[c]) /\ MembersExist /\ api[c].target # NoInst
  BY DEF RemoveHost, SerialInv, ServesInv
<1>3. CASE h \in config
  <2>1. api[c].target \in config /\ api[c].target # h
    BY <1>1, <1>2, <1>3 DEF MembersExist, Flow
  <2>2. QED BY <1>1, <2>1
<1>4. QED BY <1>1, <1>3

LEMMA ServesApi ==
    ASSUME SerialInv, ServesInv, OneClient, NEW c \in Clients, ApiStep(c) \/ ApiCrash(c)
    PROVE  ServesInv' /\ [Service!Next]_<<task, config>>
<1>1. api[c] \in Request /\ Lock(api[c]) /\ Flow(api[c]) /\ TypeOK
  BY DEF SerialInv, TypeOK
<1>2. CASE MarkTask(c)
  <2>1. PICK p \in {"creating", "elect"} : \A d \in Clients : api'[d] = [api[c] EXCEPT !.pc = p]
    BY <1>1, <1>2, OneRequest DEF MarkTask
  <2>2. \A d \in Clients : api'[d].pc # "remove"
    BY <1>1, <2>1 DEF Request
  <2>3. task = "NONE" /\ task' \in {"GROWING_CLUSTER", "SHRINKING_CLUSTER"} /\ UNCHANGED <<config, jobs>>
    BY <1>1, <1>2 DEF MarkTask, Lock
  <2>4. QED BY <2>2, <2>3 DEF ServesInv, Service!Next, Service!Announce
<1>3. CASE CreateInstance(c) \/ CreateInstancesFail(c) \/ CastJob(c) \/ ApiCrash(c)
  <2>1. \A d \in Clients : api'[d].pc # "remove"
    <3>1. CASE CreateInstance(c)
      <4>1. PICK i : RequestGoesTo(c, [api[c] EXCEPT !.todo = @ \ {i},
                !.pc = IF api[c].todo = {i} THEN "cast" ELSE "creating"])
        BY <3>1 DEF CreateInstance
      <4>2. \A d \in Clients : api'[d] = [api[c] EXCEPT !.todo = @ \ {i},
                !.pc = IF api[c].todo = {i} THEN "cast" ELSE "creating"]
        BY <1>1, <4>1, OneRequest
      <4>3. QED BY <1>1, <4>2 DEF Request
    <3>2. CASE CreateInstancesFail(c) \/ CastJob(c) \/ ApiCrash(c)
      <4>1. \A d \in Clients : api'[d] = Idle
        BY <1>1, <3>2, OneRequest DEF CreateInstancesFail, CastJob, ApiCrash
      <4>2. QED BY <4>1 DEF Idle
    <3>3. QED BY <1>3, <3>1, <3>2
  <2>2. UNCHANGED <<task, config>> /\ \A j \in jobs' : j \in jobs \/ j.pc = "wait"
    <3>1. CASE CastJob(c)
      BY <3>1 DEF CastJob
    <3>2. CASE CreateInstance(c) \/ CreateInstancesFail(c) \/ ApiCrash(c)
      BY <3>2 DEF CreateInstance, CreateInstancesFail, ApiCrash
    <3>3. QED BY <1>3, <3>1, <3>2
  <2>3. QED BY <2>1, <2>2 DEF ServesInv
<1>4. CASE ReadHello(c)
  <2>1. \A d \in Clients : api'[d] = [api[c] EXCEPT
            !.pc = IF primary \in api[c].ids THEN "stepdown" ELSE "remove",
            !.todo = api[c].ids, !.target = primary]
    BY <1>1, <1>4, OneRequest DEF ReadHello
  <2>2. \A d \in Clients : api'[d].target = primary
    BY <1>1, <2>1 DEF Request
  <2>3. primary # NoInst /\ UNCHANGED <<task, config, jobs>>
    BY <1>4 DEF ReadHello
  <2>4. QED BY <2>2, <2>3 DEF ServesInv
<1>5. CASE \/ StepDown(c) \/ RemoveRetried(c) \/ RemoveDone(c) \/ Unreadable(c)
           \/ DetachInstance(c) \/ DestroyInstance(c)
  <2>1. \A d \in Clients : api'[d].pc # "remove"
    <3>1. CASE StepDown(c) \/ RemoveRetried(c)
      <4>1. \A d \in Clients : api'[d] = [api[c] EXCEPT !.pc = "elect"]
        BY <1>1, <3>1, OneRequest DEF StepDown, AfterStepDown, RemoveRetried
      <4>2. QED BY <1>1, <4>1 DEF Request
    <3>2. CASE RemoveDone(c) \/ Unreadable(c)
      <4>1. \A d \in Clients : api'[d] = AfterRemoved(api[c])
        BY <1>1, <3>2, OneRequest DEF RemoveDone, Unreadable
      <4>2. QED BY <1>1, <4>1, RemovedShape
    <3>3. CASE DetachInstance(c)
      <4>1. PICK i : RequestGoesTo(c, [api[c] EXCEPT
                !.todo = IF api[c].todo = {i} THEN api[c].ids ELSE @ \ {i},
                !.pc = IF api[c].todo = {i} THEN "destroy" ELSE "detach"])
        BY <3>3 DEF DetachInstance
      <4>2. \A d \in Clients : api'[d] = [api[c] EXCEPT
                !.todo = IF api[c].todo = {i} THEN api[c].ids ELSE @ \ {i},
                !.pc = IF api[c].todo = {i} THEN "destroy" ELSE "detach"]
        BY <1>1, <4>1, OneRequest
      <4>3. QED BY <1>1, <4>2 DEF Request
    <3>4. CASE DestroyInstance(c)
      <4>1. PICK i : RequestGoesTo(c, [api[c] EXCEPT !.todo = @ \ {i}])
        BY <3>4 DEF DestroyInstance
      <4>2. \A d \in Clients : api'[d] = [api[c] EXCEPT !.todo = @ \ {i}]
        BY <1>1, <4>1, OneRequest
      <4>3. QED BY <1>1, <3>4, <4>2 DEF Request, DestroyInstance
    <3>5. QED BY <1>5, <3>1, <3>2, <3>3, <3>4
  <2>2. UNCHANGED <<task, config, jobs>>
    BY <1>5 DEF StepDown, RemoveRetried, RemoveDone, Unreadable, DetachInstance, DestroyInstance
  <2>3. QED BY <2>1, <2>2 DEF ServesInv
<1>6. CASE RemoveHost(c)
  <2>1. PICK h \in api[c].todo : config' = config \ {h} /\ RequestGoesTo(c, [api[c] EXCEPT !.todo = @ \ {h}])
    BY <1>6 DEF RemoveHost
  <2>2. \A d \in Clients : api'[d] = [api[c] EXCEPT !.todo = @ \ {h}]
    BY <1>1, <2>1, OneRequest
  <2>3. \A d \in Clients : api'[d].target = api[c].target
    BY <1>1, <2>2 DEF Request
  <2>4. api[c].pc = "remove" /\ UNCHANGED <<task, jobs>>
    BY <1>6 DEF RemoveHost
  <2>5. task = "SHRINKING_CLUSTER" /\ jobs = {} /\ h \in Inst
    BY <1>1, <2>1, <2>4 DEF Lock, Removing, Request
  <2>6. config' # config => config' # {}
    BY <1>6, RemovalLeavesMember
  <2>7. [Service!Next]_<<task, config>>
    BY <2>1, <2>4, <2>5, <2>6 DEF Service!Next, Service!Retire
  <2>8. QED BY <2>3, <2>4, <2>5, <2>6, <2>7 DEF ServesInv
<1>7. CASE FinishShrink(c) \/ ShrinkFails(c)
  <2>1. \A d \in Clients : api'[d] = Idle
    BY <1>1, <1>7, OneRequest DEF FinishShrink, ShrinkFails
  <2>2. task = "SHRINKING_CLUSTER" /\ task' = "NONE" /\ UNCHANGED <<config, jobs>>
    BY <1>1, <1>7 DEF FinishShrink, ShrinkFails, Lock, Removing
  <2>3. QED BY <2>1, <2>2 DEF ServesInv, Idle, Service!Next, Service!Settle
<1>8. QED
  BY <1>2, <1>3, <1>4, <1>5, <1>6, <1>7 DEF ApiStep

LEMMA ServesJob ==
    ASSUME SerialInv, ServesInv, NEW j \in jobs, JobStep(j)
    PROVE  ServesInv' /\ [Service!Next]_<<task, config>>
<1>1. /\ j \in Job /\ j.todo \subseteq Inst /\ jobs = {j}
      /\ task \in {"BUILDING_INITIAL", "GROWING_CLUSTER"}
  BY DEF SerialInv, TypeOK, JobInv, Job
<1>2. UNCHANGED api
  BY DEF JobStep, JobReady, JobInitiate, JobIsPrimary, JobAddMember, JobMembersReady,
     JobComplete, JobFail
<1>3. ASSUME NEW k, JobGoesTo(j, k), UNCHANGED task, k.pc = "complete" => config' # {},
             NEW S \in SUBSET Inst, config' = config \cup S
      PROVE  ServesInv' /\ [Service!Next]_<<task, config>>
  <2>1. jobs' = {k}
    BY <1>1, <1>3 DEF JobGoesTo
  <2>2. Service!Next
    BY <1>1, <1>3 DEF Service!Next, Service!Serve
  <2>3. QED BY <1>1, <1>2, <1>3, <2>1, <2>2 DEF ServesInv
<1>4. CASE JobReady(j)
  <2>1. PICK ids, g : JobGoesTo(j, [j EXCEPT !.pc = IF j.op = "create" THEN "init" ELSE "add",
                                             !.ids = ids, !.todo = ids, !.guest = g])
    BY <1>4 DEF JobReady
  <2>2. PICK k : k = [j EXCEPT !.pc = IF j.op = "create" THEN "init" ELSE "add",
                               !.ids = ids, !.todo = ids, !.guest = g]
    OBVIOUS
  <2>3. k.pc # "complete"
    BY <1>1, <2>2 DEF Job
  <2>4. config' = config \cup {} /\ {} \in SUBSET Inst /\ UNCHANGED task
    BY <1>4 DEF JobReady
  <2>5. JobGoesTo(j, k)
    BY <2>1, <2>2
  <2>6. QED BY <1>3, <2>3, <2>4, <2>5
<1>5. CASE JobInitiate(j)
  <2>1. [j EXCEPT !.pc = "primary", !.todo = {}].pc # "complete" /\ j.ids \subseteq Inst
    BY <1>1 DEF Job
  <2>2. PICK S \in SUBSET Inst : config' = config \cup S
    <3>1. config' = config \cup j.ids \/ config' = config \cup {}
      BY <1>5 DEF JobInitiate
    <3>2. QED BY <2>1, <3>1
  <2>3. JobGoesTo(j, [j EXCEPT !.pc = "primary", !.todo = {}]) /\ UNCHANGED task
    BY <1>5 DEF JobInitiate
  <2>4. QED BY <1>3, <2>1, <2>2, <2>3
<1>6. CASE JobIsPrimary(j) \/ JobMembersReady(j)
  <2>1. PICK p \in {"members", "complete"} :
            JobGoesTo(j, [j EXCEPT !.pc = p]) /\ (p = "complete" => config # {})
    BY <1>6 DEF JobIsPrimary, JobMembersReady
  <2>2. [j EXCEPT !.pc = p].pc = p
    BY <1>1 DEF Job
  <2>3. config' = config \cup {} /\ {} \in SUBSET Inst /\ UNCHANGED <<task, config>>
    BY <1>6 DEF JobIsPrimary, JobMembersReady
  <2>4. QED BY <1>3, <2>1, <2>2, <2>3
<1>7. CASE JobAddMember(j)
  <2>1. PICK h \in j.todo, p \in {"members", "add"} :
            config' = config \cup {h} /\ JobGoesTo(j, [j EXCEPT !.todo = @ \ {h}, !.pc = p])
    BY <1>7 DEF JobAddMember
  <2>2. [j EXCEPT !.todo = @ \ {h}, !.pc = p].pc # "complete" /\ {h} \in SUBSET Inst
    BY <1>1, <2>1 DEF Job
  <2>3. UNCHANGED task
    BY <1>7 DEF JobAddMember
  <2>4. QED BY <1>3, <2>1, <2>2, <2>3
<1>8. CASE JobComplete(j)
  BY <1>1, <1>2, <1>8 DEF JobComplete, ServesInv, Service!Next, Service!Settle
<1>9. CASE JobFail(j)
  BY <1>2, <1>9 DEF JobFail, ServesInv
<1>10. QED BY <1>4, <1>5, <1>6, <1>7, <1>8, <1>9 DEF JobStep

LEMMA ServesClient ==
    ASSUME SerialInv, ServesInv, OneClient, NEW c \in Clients, ClientStep(c)
    PROVE  ServesInv' /\ [Service!Next]_<<task, config>>
<1>1. \A d \in Clients : api'[d].pc # "remove"
  <2>1. CASE CreateCluster(c) \/ StartGrow(c)
    <3>1. PICK operation \in {"create", "grow"}, start \in {"creating", "mark"} :
              Plan(c, operation, start)
      BY <2>1 DEF CreateCluster, StartGrow
    <3>2. PICK new : RequestGoesTo(c, [Idle EXCEPT !.op = operation, !.pc = start,
                                                   !.ids = new, !.todo = new])
      BY <3>1 DEF Plan
    <3>3. \A d \in Clients : api'[d] = [Idle EXCEPT !.op = operation, !.pc = start,
                                                    !.ids = new, !.todo = new]
      BY <3>2, OneRequest DEF SerialInv
    <3>4. QED BY <3>3 DEF Idle
  <2>2. CASE StartShrink(c)
    <3>1. PICK ids : RequestGoesTo(c, [Idle EXCEPT !.op = "shrink", !.pc = "mark", !.ids = ids])
      BY <2>2 DEF StartShrink
    <3>2. \A d \in Clients : api'[d] = [Idle EXCEPT !.op = "shrink", !.pc = "mark", !.ids = ids]
      BY <3>1, OneRequest DEF SerialInv
    <3>3. QED BY <3>2 DEF Idle
  <2>3. QED BY <2>1, <2>2 DEF ClientStep
<1>2. /\ UNCHANGED <<config, jobs>>
      /\ UNCHANGED task \/ (task = "ABSENT" /\ task' = "BUILDING_INITIAL")
  BY DEF ClientStep, CreateCluster, StartGrow, StartShrink
<1>3. QED BY <1>1, <1>2 DEF ServesInv, Service!Next, Service!Announce

(* With one request at a time the replica-set cluster implements the service *)
(* its users see: members join and leave only under the task status that     *)
(* announces it, the replica set never becomes empty, and a cluster is       *)
(* reported built only with members; for any number of instances, through    *)
(* elections, failures and crashes.                                          *)
THEOREM ReplicaImplementsService == OneClient => (Spec => ImplementsService)
<1> SUFFICES ASSUME OneClient PROVE Spec => ImplementsService
  OBVIOUS
<1>1. Init => ServesInv /\ Service!Init
  BY DEF Init, ServesInv, Service!Init, Idle
<1>2. SerialInv /\ ServesInv /\ [Next]_vars => ServesInv' /\ [Service!Next]_<<task, config>>
  <2> SUFFICES ASSUME SerialInv, ServesInv, [Next]_vars
               PROVE  ServesInv' /\ [Service!Next]_<<task, config>>
    OBVIOUS
  <2>1. CASE TaskManagerCrash \/ Elect \/ LosePrimary
    BY <2>1 DEF TaskManagerCrash, Elect, LosePrimary, ServesInv
  <2>2. CASE UNCHANGED vars
    BY <2>2 DEF vars, ServesInv
  <2>3. QED BY <2>1, <2>2, ServesApi, ServesJob, ServesClient DEF Next
<1>3. Spec => []SerialInv
  BY SerialAlways
<1>4. QED BY <1>1, <1>2, <1>3, PTL DEF Spec, ImplementsService, Service!Spec, Service!vars
=============================================================================
