--------------------------- MODULE ShardedCluster ---------------------------
(***************************************************************************)
(* Life cycle of a sharded MongoDB cluster managed by Trove: the API       *)
(* strategy (controller/api.py, run by the trove-api workers on behalf of  *)
(* Clients), the task-manager strategy (controller/taskmanager.py, jobs    *)
(* started by an RPC cast) and the shard registry kept by the config       *)
(* servers and reached through a query router's guest (service.py).        *)
(*                                                                         *)
(* Simplifications:                                                        *)
(*  - the identifiers of new instances and shards (uuids) are the next     *)
(*    unused numbers; an instance created by a request is reserved when    *)
(*    the request is planned and becomes real when Instance.create runs;   *)
(*  - find_all has no ORDER BY, so "the first" router is any router;       *)
(*  - guest bring-up is a single step of the job that waits for it, whose  *)
(*    alternative is the job's failure; GuestAgent details are elsewhere;  *)
(*  - a request the API refuses changes nothing and is not an action.      *)
(***************************************************************************)
EXTENDS Naturals, FiniteSets

CONSTANTS
    Clients,      \* API requests that may be in progress at the same time
    MaxInst,      \* bound: instances ever requested
    MaxShards,    \* bound: shards ever requested
    InitMembers,  \* members of the first shard
    NumConfig,    \* num_configsvr
    NumRouters,   \* num_mongos
    MaxNew        \* bound: nodes in one grow request

MIN_REPLICA_SET_MEMBERS == 2
MIN_CONFIG_SERVER_MEMBERS == 2
MIN_QUERY_ROUTERS == 1

ASSUME BoundsAssumption == /\ MaxInst \in Nat
                           /\ MaxShards \in Nat \ {0}
                           /\ MaxNew \in Nat

\* The minima that _integer_property and _validate_shard_members enforce.
ASSUME CreateAssumption ==
    /\ InitMembers \in Nat /\ InitMembers >= MIN_REPLICA_SET_MEMBERS
    /\ NumConfig \in Nat /\ NumConfig >= MIN_CONFIG_SERVER_MEMBERS
    /\ NumRouters \in Nat /\ NumRouters >= MIN_QUERY_ROUTERS
    /\ InitMembers + NumConfig + NumRouters <= MaxInst

Inst == 1 .. MaxInst
Shards == 1 .. MaxShards
NoInst == 0
NoShard == 0

VARIABLES
    task,        \* DBCluster.task_status, "ABSENT" before the row exists
    kind,        \* kind[i]: DBInstance.type
    shardOf,     \* shardOf[i]: DBInstance.shard_id
    setName,     \* setName[s]: the n of the replica-set name "rs<n>"
    nInst,       \* instance ids handed out
    nShards,     \* shard ids handed out
    attached,    \* instances whose cluster_id is this cluster
    alive,       \* instances that exist (not deleted)
    configured,  \* routers that run mongos with config-server addresses
    registered,  \* shards listed by listShards
    draining,    \* registered shards on which removeShard was started
    errored,     \* instances marked by update_statuses_on_failure
    api,         \* api[c]: the request client c has in progress
    jobs,        \* task-manager jobs, from their cast on
    wedged       \* history: an operation ended without clearing its task

infoVars == <<kind, shardOf, setName, nInst, nShards>>
mongoVars == <<configured, registered, draining>>
vars == <<task, infoVars, attached, alive, mongoVars, errored, api, jobs,
          wedged>>

TaskStatus == {"ABSENT", "BUILDING_INITIAL", "NONE", "GROWING_CLUSTER",
               "SHRINKING_CLUSTER"}
Kinds == {"none", "member", "config_server", "query_router"}
Ops == {"none", "create", "grow", "shrink"}

Request == [op: Ops,
            pc: {"idle", "creating", "mark", "cast", "drain", "drop",
                 "destroy"},
            ids: SUBSET Inst,           \* new_ids, or requested_ids
            todo: SUBSET Inst,          \* of ids, not processed yet
            shards: SUBSET Shards,      \* target_shards still to be drained
            router: Inst \cup {NoInst}, \* remaining_routers[0]
            victim: Inst \cup {NoInst}] \* detached, about to be deleted

Idle == [op |-> "none", pc |-> "idle", ids |-> {}, todo |-> {},
         shards |-> {}, router |-> NoInst, victim |-> NoInst]

Job == [op: {"create", "grow"},
        pc: {"wait", "config", "routers", "shards", "complete"},
        ids: SUBSET Inst,
        shards: SUBSET Shards,          \* shard_ids still to be created
        router: Inst \cup {NoInst}]     \* query_routers[0]

Of(k, S) == {i \in S : kind[i] = k}
\* Mutant of ShardsOf: the test on the instance type is dropped.
ShardsOfAnyType(S) == {shardOf[i] : i \in S}

ShardsOf(S) == {shardOf[i] : i \in Of("member", S)}
MembersOf(s, S) == {i \in Of("member", S) : shardOf[i] = s}

\* The first of a list in unspecified order, NoInst if the list is empty.
AnyOf(S) == IF S = {} THEN {NoInst} ELSE S

SameName(s) == {t \in registered : setName[t] = setName[s]}

RequestGoesTo(c, r) == api' = [api EXCEPT ![c] = r]

(***************************************************************************)
(* API: create and grow                                                    *)
(***************************************************************************)

\* Client c's request creates the instances nInst+1 .. nInst+n; item k is of
\* kind k2[k] and, for a member, of the new shard nShards + g[k].
Plan(c, operation, n, groups, k2, g, firstName) ==
    LET new == nInst + 1 .. nInst + n
    IN  /\ nInst + n <= MaxInst
        /\ nShards + groups <= MaxShards
        /\ nInst' = nInst + n
        /\ nShards' = nShards + groups
        /\ kind' = [i \in Inst |-> IF i \in new THEN k2[i - nInst]
                                                ELSE kind[i]]
        /\ shardOf' = [i \in Inst |->
                         IF i \in new
                         THEN IF k2[i - nInst] = "member"
                              THEN nShards + g[i - nInst] ELSE NoShard
                         ELSE shardOf[i]]
        /\ setName' = [s \in Shards |->
                         IF s \in nShards + 1 .. nShards + groups
                         THEN firstName + (s - nShards) - 1 ELSE setName[s]]
        /\ RequestGoesTo(c, [Idle EXCEPT !.op = operation, !.pc = "creating",
                                         !.ids = new, !.todo = new])

\* _create_sharded up to the cluster row: one shard "rs1", then the config
\* servers, then the routers.
CreateCluster(c) ==
    LET n == InitMembers + NumConfig + NumRouters
    IN  /\ api[c].pc = "idle"
        /\ task = "ABSENT"
        /\ task' = "BUILDING_INITIAL"
        /\ Plan(c, "create", n, 1,
                [k \in 1 .. n |->
                    IF k <= InitMembers THEN "member"
                    ELSE IF k <= InitMembers + NumConfig THEN "config_server"
                         ELSE "query_router"],
                [k \in 1 .. n |-> IF k <= InitMembers THEN 1 ELSE 0], 1)
        /\ UNCHANGED <<attached, alive, mongoVars, errored, jobs, wedged>>

\* A grow request as _create_sharded_instances orders it: g[k] is the group
\* of a replica item (groups are numbered 1 .. top in order of creation), 0
\* for a query router; routers come last.  Every group is a valid shard.
GrowItems(n, top) ==
    {g \in [1 .. n -> 0 .. top] :
        /\ \A k \in 1 .. n - 1 : \/ g[k + 1] = 0
                                 \/ g[k] > 0 /\ g[k] <= g[k + 1]
        /\ \A m \in 1 .. top : Cardinality({k \in 1 .. n : g[k] = m})
                                  >= MIN_REPLICA_SET_MEMBERS}

\* The number of the first new shard's replica set.
NextShardNumber == Cardinality(ShardsOf(attached)) + 1

\* _grow_sharded up to the first Instance.create: the cluster is available
\* when the request loads it, and the shard names are computed from the
\* instances loaded with it.
StartGrow(c) ==
    /\ api[c].pc = "idle"
    /\ task = "NONE"
    /\ \E n \in 1 .. MaxNew : \E top \in 0 .. n : \E g \in GrowItems(n, top) :
          Plan(c, "grow", n, top,
               [k \in 1 .. n |-> IF g[k] = 0 THEN "query_router"
                                             ELSE "member"],
               g, NextShardNumber)
    /\ UNCHANGED <<task, attached, alive, mongoVars, errored, jobs, wedged>>

\* One Instance.create of the loops of _create_sharded and
\* _create_sharded_instances.
CreateInstance(c) ==
    /\ api[c].pc = "creating"
    /\ \E i \in api[c].todo :
          /\ \A k \in api[c].todo : i <= k
          /\ attached' = attached \cup {i}
          /\ alive' = alive \cup {i}
          /\ RequestGoesTo(c, [api[c] EXCEPT
                !.todo = @ \ {i},
                !.pc = IF api[c].todo # {i} THEN "creating"
                       ELSE IF api[c].op = "create" THEN "cast" ELSE "mark"])
    /\ UNCHANGED <<task, infoVars, mongoVars, errored, jobs, wedged>>

\* Quota, Nova or Cinder refuses one of them.  Grow's handler stores NONE and
\* re-raises; create has no handler.
CreateInstanceFails(c) ==
    /\ api[c].pc = "creating"
    /\ task' = IF api[c].op = "grow" THEN "NONE" ELSE task
    /\ wedged' = (wedged \/ api[c].op = "create")
    /\ RequestGoesTo(c, Idle)
    /\ UNCHANGED <<infoVars, attached, alive, mongoVars, errored, jobs>>

\* Mutant of BusyStatus: grow casts its job without storing its status.
BusyStatusShrinkOnly(op) == IF op = "grow" THEN "NONE"
                                           ELSE "SHRINKING_CLUSTER"

BusyStatus(op) == IF op = "grow" THEN "GROWING_CLUSTER"
                                 ELSE "SHRINKING_CLUSTER"

\* The update_db that announces a grow or a shrink.
MarkTask(c) ==
    /\ api[c].pc = "mark"
    /\ task' = BusyStatus(api[c].op)
    /\ RequestGoesTo(c, [api[c] EXCEPT !.pc = IF api[c].op = "grow" THEN "cast"
                                                              ELSE "drain"])
    /\ UNCHANGED <<infoVars, attached, alive, mongoVars, errored, jobs,
                   wedged>>

\* The RPC cast to the task manager; the request returns.
CastJob(c) ==
    /\ api[c].pc = "cast"
    /\ jobs' = jobs \cup {[op |-> api[c].op, pc |-> "wait",
                           ids |-> api[c].ids, shards |-> {},
                           router |-> NoInst]}
    /\ RequestGoesTo(c, Idle)
    /\ UNCHANGED <<task, infoVars, attached, alive, mongoVars, errored,
                   wedged>>

(***************************************************************************)
(* API: shrink, which the API runs itself                                  *)
(***************************************************************************)

\* Mutant of RoutersKept: off by one.
RoutersKeptOffByOne(ids) ==
    Cardinality(Of("query_router", attached))
        >= Cardinality(Of("query_router", ids))

RoutersKept(ids) ==
    Cardinality(Of("query_router", attached))
        >= Cardinality(Of("query_router", ids)) + MIN_QUERY_ROUTERS

\* What _shrink_sharded accepts: no config server, a router and a shard
\* remain, and only complete shards are removed.
ShrinkAllowed(ids) ==
    /\ ids # {}
    /\ Of("config_server", ids) = {}
    /\ RoutersKept(ids)
    /\ ShardsOf(attached) \ ShardsOf(ids) # {}
    /\ \A s \in ShardsOf(ids) : MembersOf(s, attached) = MembersOf(s, ids)

StartShrink(c) ==
    /\ api[c].pc = "idle"
    /\ task = "NONE"
    /\ \E ids \in SUBSET attached :
          /\ ShrinkAllowed(ids)
          /\ \E r \in AnyOf(Of("query_router", attached \ ids)) :
                RequestGoesTo(c, [Idle EXCEPT !.op = "shrink", !.pc = "mark",
                                              !.ids = ids, !.todo = ids,
                                              !.shards = ShardsOf(ids),
                                              !.router = r])
    /\ UNCHANGED <<task, infoVars, attached, alive, mongoVars, errored, jobs,
                   wedged>>

\* The router's guest answers removeShard only when it runs mongos, and the
\* name is asked from a guest of the shard being removed.
CanDrain(c, s) == /\ api[c].pc = "drain"
                  /\ s \in api[c].shards
                  /\ api[c].router \in configured \cap alive
                  /\ MembersOf(s, api[c].ids) \cap alive # {}

\* First removeShard on a registered name.  MongoDB refuses to drain the last
\* shard that is not draining.
StartDrain(c, s) ==
    /\ CanDrain(c, s)
    /\ \E t \in SameName(s) \ draining :
          /\ registered \ (draining \cup {t}) # {}
          /\ draining' = draining \cup {t}
    /\ UNCHANGED <<task, infoVars, attached, alive, configured, registered,
                   errored, api, jobs, wedged>>

\* Mutant of Completed: any answer of removeShard ends the wait.
CompletedAnyAnswer(s) == s \in Shards

\* removeShard may answer "completed": the shard with this name is draining,
\* or no such shard is listed.
Completed(s) == SameName(s) \subseteq draining

\* A repeated removeShard answers "completed".
FinishDrain(c, s) ==
    /\ CanDrain(c, s)
    /\ Completed(s)
    /\ registered' = registered \ (SameName(s) \cap draining)
    /\ draining' = draining \ SameName(s)
    /\ RequestGoesTo(c, [api[c] EXCEPT !.shards = @ \ {s}])
    /\ UNCHANGED <<task, infoVars, attached, alive, configured, errored,
                   jobs, wedged>>

DrainDone(c) ==
    /\ api[c].pc = "drain"
    /\ api[c].shards = {}
    /\ RequestGoesTo(c, [api[c] EXCEPT !.pc = "drop"])
    /\ UNCHANGED <<task, infoVars, attached, alive, mongoVars, errored, jobs,
                   wedged>>

\* Instance.load and update_db(cluster_id=None) of one requested instance ...
DetachInstance(c) ==
    /\ api[c].pc = "drop"
    /\ \E i \in api[c].todo \cap alive :
          /\ attached' = attached \ {i}
          /\ RequestGoesTo(c, [api[c] EXCEPT !.pc = "destroy",
                                             !.todo = @ \ {i},
                                             !.victim = i])
    /\ UNCHANGED <<task, infoVars, alive, mongoVars, errored, jobs, wedged>>

\* ... and Instance.delete of it.
DestroyInstance(c) ==
    /\ api[c].pc = "destroy"
    /\ alive' = alive \ {api[c].victim}
    /\ RequestGoesTo(c, [api[c] EXCEPT !.pc = "drop", !.victim = NoInst])
    /\ UNCHANGED <<task, infoVars, attached, mongoVars, errored, jobs,
                   wedged>>

\* The loop is over; the finally clause clears the task.
FinishShrink(c) ==
    /\ api[c].pc = "drop"
    /\ api[c].todo = {}
    /\ task' = "NONE"
    /\ RequestGoesTo(c, Idle)
    /\ UNCHANGED <<infoVars, attached, alive, mongoVars, errored, jobs,
                   wedged>>

\* Mutant of ShrinkFails: no finally clause.
ShrinkFailsNoFinally(c) ==
    /\ api[c].pc \in {"drain", "drop", "destroy"}
    /\ RequestGoesTo(c, Idle)
    /\ UNCHANGED <<task, infoVars, attached, alive, mongoVars, errored, jobs,
                   wedged>>

\* An exception (drain deadline, refused removeShard, guest or Nova error)
\* ends the request where it stands; the finally clause clears the task.
ShrinkFails(c) ==
    /\ api[c].pc \in {"drain", "drop", "destroy"}
    /\ task' = "NONE"
    /\ RequestGoesTo(c, Idle)
    /\ UNCHANGED <<infoVars, attached, alive, mongoVars, errored, jobs,
                   wedged>>

(***************************************************************************)
(* Task manager: create_cluster and grow_cluster                           *)
(***************************************************************************)

JobGoesTo(j, k) == jobs' = (jobs \ {j}) \cup {k}

\* _all_instances_ready, then the cluster's instances are loaded.
JobReady(j) ==
    LET ids == IF j.op = "create" THEN attached ELSE j.ids
        existing == attached \ ids
        routers == IF j.op = "grow" /\ Of("query_router", existing) # {}
                   THEN Of("query_router", existing)
                   ELSE Of("query_router", ids)
    IN  /\ j.pc = "wait"
        /\ ids \subseteq alive
        /\ j.op = "grow" => existing # {}
        /\ \E r \in AnyOf(routers) :
              JobGoesTo(j, [j EXCEPT !.pc = IF j.op = "create" THEN "config"
                                                               ELSE "routers",
                                     !.ids = ids,
                                     !.shards = ShardsOf(ids),
                                     !.router = r])
    /\ UNCHANGED <<task, infoVars, attached, alive, mongoVars, errored, api,
                   wedged>>

\* create_cluster: _initialize_replica_set(config_servers).
JobInitConfig(j) ==
    /\ j.pc = "config"
    /\ Of("config_server", j.ids) # {}
    /\ JobGoesTo(j, [j EXCEPT !.pc = "routers"])
    /\ UNCHANGED <<task, infoVars, attached, alive, mongoVars, errored, api,
                   wedged>>

\* add_config_servers on one new router: it becomes a mongos.
JobConfigureRouter(j) ==
    /\ j.pc = "routers"
    /\ Of("config_server", attached) # {}
    /\ \E r \in Of("query_router", j.ids \cap alive) \ configured :
          configured' = configured \cup {r}
    /\ UNCHANGED <<task, infoVars, attached, alive, registered, draining,
                   errored, api, jobs, wedged>>

JobRoutersDone(j) ==
    /\ j.pc = "routers"
    /\ Of("query_router", j.ids) \subseteq configured
    /\ JobGoesTo(j, [j EXCEPT !.pc = "shards"])
    /\ UNCHANGED <<task, infoVars, attached, alive, mongoVars, errored, api,
                   wedged>>

\* What the router's add_shard leaves registered: a name that is listed
\* already is answered {ok: 1, already: true} and nothing is added.
add_shard(s) == IF SameName(s) = {} THEN registered \cup {s} ELSE registered

\* _create_shard: initiate the replica set, then register it.
JobCreateShard(j) ==
    /\ j.pc = "shards"
    /\ j.router \in configured \cap alive
    /\ \E s \in j.shards :
          /\ MembersOf(s, j.ids) \subseteq alive
          /\ registered' = add_shard(s)
          /\ JobGoesTo(j, [j EXCEPT !.shards = @ \ {s}])
    /\ UNCHANGED <<task, infoVars, attached, alive, configured, draining,
                   errored, api, wedged>>

JobShardsDone(j) ==
    /\ j.pc = "shards"
    /\ j.shards = {}
    /\ JobGoesTo(j, [j EXCEPT !.pc = "complete"])
    /\ UNCHANGED <<task, infoVars, attached, alive, mongoVars, errored, api,
                   wedged>>

\* Mutant of JobComplete: reset_task is forgotten.
JobCompleteNoReset(j) ==
    /\ j.pc = "complete"
    /\ j.ids \subseteq alive
    /\ jobs' = jobs \ {j}
    /\ UNCHANGED <<task, infoVars, attached, alive, mongoVars, errored, api,
                   wedged>>

\* cluster_complete on every new guest, then reset_task.
JobComplete(j) ==
    /\ j.pc = "complete"
    /\ j.ids \subseteq alive
    /\ task' = "NONE"
    /\ jobs' = jobs \ {j}
    /\ UNCHANGED <<infoVars, attached, alive, mongoVars, errored, api,
                   wedged>>

\* Mutant of TaskAfterFailure: the task is cleared after a failure too.
TaskAfterFailureCleared == "NONE"

TaskAfterFailure == task

\* _run_with_timeout: a failed readiness poll, the timeout or any exception
\* marks the cluster's instances and leaves the cluster task as it is.
JobFail(j) ==
    /\ errored' = errored \cup attached
    /\ wedged' = TRUE
    /\ jobs' = jobs \ {j}
    /\ task' = TaskAfterFailure
    /\ UNCHANGED <<infoVars, attached, alive, mongoVars, api>>

(***************************************************************************)
(* Crashes: the work of a process is lost where it stands.                 *)
(***************************************************************************)

ApiCrash(c) ==
    /\ api[c].pc # "idle"
    /\ RequestGoesTo(c, Idle)
    /\ wedged' = (wedged \/ task # "NONE")
    /\ UNCHANGED <<task, infoVars, attached, alive, mongoVars, errored, jobs>>

TaskManagerCrash ==
    /\ jobs # {}
    /\ jobs' = {}
    /\ wedged' = TRUE
    /\ UNCHANGED <<task, infoVars, attached, alive, mongoVars, errored, api>>

-----------------------------------------------------------------------------
Init ==
    /\ task = "ABSENT"
    /\ kind = [i \in Inst |-> "none"]
    /\ shardOf = [i \in Inst |-> NoShard]
    /\ setName = [s \in Shards |-> 0]
    /\ nInst = 0
    /\ nShards = 0
    /\ attached = {}
    /\ alive = {}
    /\ configured = {}
    /\ registered = {}
    /\ draining = {}
    /\ errored = {}
    /\ api = [c \in Clients |-> Idle]
    /\ jobs = {}
    /\ wedged = FALSE

\* A new request of client c.
ClientStep(c) == CreateCluster(c) \/ StartGrow(c) \/ StartShrink(c)

\* The request of client c proceeds.
ApiStep(c) ==
    \/ CreateInstance(c) \/ CreateInstanceFails(c) \/ MarkTask(c)
    \/ CastJob(c)
    \/ \E s \in Shards : StartDrain(c, s) \/ FinishDrain(c, s)
    \/ DrainDone(c) \/ DetachInstance(c) \/ DestroyInstance(c)
    \/ FinishShrink(c) \/ ShrinkFails(c)

JobStep(j) ==
    \/ JobReady(j) \/ JobInitConfig(j) \/ JobConfigureRouter(j)
    \/ JobRoutersDone(j) \/ JobCreateShard(j) \/ JobShardsDone(j)
    \/ JobComplete(j) \/ JobFail(j)

Next == \/ \E c \in Clients : ClientStep(c) \/ ApiStep(c) \/ ApiCrash(c)
        \/ \E j \in jobs : JobStep(j)
        \/ TaskManagerCrash

Spec == Init /\ [][Next]_vars

\* Every wait of a request and of a job has a deadline (add_members_timeout,
\* cluster_usage_timeout), so what was started proceeds or fails.  Clients
\* need not issue requests, and processes need not crash.
Fairness == /\ \A c \in Clients : WF_vars(ApiStep(c))
            /\ WF_vars(\E j \in jobs : JobStep(j))

FairSpec == Spec /\ Fairness

-----------------------------------------------------------------------------
(***************************************************************************)
(* Properties                                                              *)
(***************************************************************************)

\* The type of every variable: the cluster row, the instance rows, the shard
\* registry, the requests and the jobs.
TypeOK ==
    /\ task \in TaskStatus
    /\ kind \in [Inst -> Kinds]
    /\ shardOf \in [Inst -> Shards \cup {NoShard}]
    /\ setName \in [Shards -> Nat]
    /\ nInst \in 0 .. MaxInst
    /\ nShards \in 0 .. MaxShards
    /\ attached \subseteq Inst
    /\ alive \subseteq Inst
    /\ configured \subseteq Inst
    /\ registered \subseteq Shards
    /\ draining \subseteq Shards
    /\ errored \subseteq Inst
    /\ api \in [Clients -> Request]
    /\ jobs \subseteq Job
    /\ wedged \in BOOLEAN

\* task_status is the only lock on the topology: when requests come one at a
\* time, a request that passed validate_cluster_available never overlaps the
\* asynchronous job of an earlier one, and jobs never overlap each other.
OneTopologyChange ==
    Cardinality(jobs) + Cardinality({c \in Clients : api[c].pc # "idle"}) <= 1

\* No data is thrown away: as long as the config servers list a shard, every
\* instance created for it is attached to the cluster and exists.  A shrink
\* detaches and deletes instances only after removeShard completed, also when
\* two shards were given the same replica-set name, a drain timed out, or an
\* earlier shrink failed half-way.
RegisteredShardsIntact ==
    \A i \in Inst : kind[i] = "member" /\ shardOf[i] \in registered
                       => i \in attached \cap alive

\* "At least one MongoDB query router must remain": a cluster that serves a
\* shard has a query router attached, and keeps all its config servers.
ServersRemain ==
    registered # {} =>
        /\ Of("query_router", attached) # {}
        /\ Cardinality(Of("config_server", attached \cap alive)) = NumConfig

\* _run_with_timeout's promise: after a failed job the cluster task is not
\* cleared, so no cluster with instances marked failed looks available.
FailureStaysVisible == errored \cap attached # {} => task # "NONE"

\* A busy cluster is being worked on by a request or a job, unless one of them
\* ended by a failure that leaves the task set (wedged).
BusyHasOwner ==
    task \notin {"ABSENT", "NONE"}
        => wedged \/ jobs # {} \/ \E c \in Clients : api[c].pc # "idle"

\* "Additional shards ... can then be added with the normal cluster grow
\* operation": when a job is about to report success, each of its shards is
\* registered.
GrownShardsRegistered ==
    \A j \in jobs : j.pc = "complete" => ShardsOf(j.ids) \subseteq registered

\* Every announced change ends: the cluster becomes available again, or an
\* operation failed in a way that leaves the task set.
ChangeEnds == (task \notin {"ABSENT", "NONE"}) ~> (task = "NONE" \/ wedged)

(***************************************************************************)
(* Users of the cluster see ClusterService.                                *)
(***************************************************************************)
Service == INSTANCE ClusterService WITH status <- task, serving <- registered

\* When requests come one at a time the controller implements ClusterService:
\* the registry of shards only changes in the direction the stored task status
\* announces, and never loses its last shard.
ImplementsService == Service!Spec
=============================================================================
