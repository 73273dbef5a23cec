------------------------- MODULE ReplicaSetCluster --------------------------
(***************************************************************************)
(* Life cycle of a MongoDB replica-set cluster managed by Trove: create    *)
(* and grow (requests of the API that end in a task-manager job), shrink   *)
(* (run by the API itself through the guests), and the replica set, whose  *)
(* members elect and lose primaries on their own.                          *)
(*                                                                         *)
(* Simplifications, beside those of ShardedCluster: a command sent to a    *)
(* guest is one step per member it adds or removes, and the primary may    *)
(* change between any two of them; the replica set always has the majority *)
(* it needs to elect a primary when its members exist.                     *)
(***************************************************************************)
EXTENDS Naturals, FiniteSets

CONSTANTS
    Clients,  \* API requests that may be in progress at the same time
    MaxInst,  \* bound: instances ever requested
    MaxNew    \* bound: instances in one create or grow request

MIN_REPLICA_SET_MEMBERS == 2

ASSUME ReplicaBounds == MaxInst \in Nat /\ MaxNew \in Nat

Inst == 1 .. MaxInst
NoInst == 0

VARIABLES
    task,      \* DBCluster.task_status, "ABSENT" before the row exists
    nInst,     \* instance ids handed out
    attached,  \* instances whose cluster_id is this cluster
    alive,     \* instances that exist (not deleted)
    config,    \* members of the replica-set configuration
    primary,   \* the writable primary, NoInst while there is none
    errored,   \* instances marked by update_statuses_on_failure
    api,       \* api[c]: the request client c has in progress
    jobs,      \* task-manager jobs, from their cast on
    wedged,    \* history: an operation ended without clearing its task
    misread    \* history: members a shrink took for removed unread

vars == <<task, nInst, attached, alive, config, primary, errored, api, jobs,
          wedged, misread>>

TaskStatus == {"ABSENT", "BUILDING_INITIAL", "NONE", "GROWING_CLUSTER",
               "SHRINKING_CLUSTER"}

Request == [op: {"none", "create", "grow", "shrink"},
            pc: {"idle", "mark", "creating", "cast", "elect", "stepdown",
                 "remove", "detach", "destroy"},
            ids: SUBSET Inst,            \* new instances, or requested_ids
            todo: SUBSET Inst,           \* of ids, not processed yet
            target: Inst \cup {NoInst}]  \* primary_host of the last hello

Idle == [op |-> "none", pc |-> "idle", ids |-> {}, todo |-> {},
         target |-> NoInst]

Job == [op: {"create", "grow"},
        pc: {"wait", "init", "primary", "add", "members", "complete"},
        ids: SUBSET Inst,
        todo: SUBSET Inst,               \* of ids, not added yet
        guest: Inst \cup {NoInst}]       \* members[0], existing[0]

RequestGoesTo(c, r) == api' = [api EXCEPT ![c] = r]
JobGoesTo(j, k) == jobs' = (jobs \ {j}) \cup {k}

(***************************************************************************)
(* API: create and grow                                                    *)
(***************************************************************************)

\* The instances of a create or grow request.
Plan(c, operation, start) ==
    \E n \in 1 .. MaxNew :
       LET new == nInst + 1 .. nInst + n
       IN  /\ nInst + n <= MaxInst
           /\ nInst' = nInst + n
           /\ RequestGoesTo(c, [Idle EXCEPT !.op = operation, !.pc = start,
                                            !.ids = new, !.todo = new])

\* create: the row exists before _create_instances looks at the request.
CreateCluster(c) ==
    /\ api[c].pc = "idle"
    /\ task = "ABSENT"
    /\ task' = "BUILDING_INITIAL"
    /\ Plan(c, "create", "creating")
    /\ UNCHANGED <<attached, alive, config, primary, errored, jobs, wedged,
                   misread>>

\* Mutant of StartGrow: validate_cluster_available is dropped.
StartGrowUnchecked(c) ==
    /\ api[c].pc = "idle"
    /\ attached # {}
    /\ Plan(c, "grow", "mark")
    /\ UNCHANGED <<task, attached, alive, config, primary, errored, jobs,
                   wedged, misread>>

\* grow: validate_cluster_available and _validate_growth.
StartGrow(c) ==
    /\ api[c].pc = "idle"
    /\ task = "NONE"
    /\ attached # {}
    /\ Plan(c, "grow", "mark")
    /\ UNCHANGED <<task, attached, alive, config, primary, errored, jobs,
                   wedged, misread>>

\* update_db of grow and shrink.
MarkTask(c) ==
    /\ api[c].pc = "mark"
    /\ IF api[c].op = "grow"
       THEN /\ task' = "GROWING_CLUSTER"
            /\ RequestGoesTo(c, [api[c] EXCEPT !.pc = "creating"])
       ELSE /\ task' = "SHRINKING_CLUSTER"
            /\ RequestGoesTo(c, [api[c] EXCEPT !.pc = "elect"])
    /\ UNCHANGED <<nInst, attached, alive, config, primary, errored, jobs,
                   wedged, misread>>

\* One Instance.create of _create_instances; create enforces the minimum.
CreateInstance(c) ==
    /\ api[c].pc = "creating"
    /\ api[c].op = "create"
          => Cardinality(api[c].ids) >= MIN_REPLICA_SET_MEMBERS
    /\ \E i \in api[c].todo :
          /\ \A k \in api[c].todo : i <= k
          /\ attached' = attached \cup {i}
          /\ alive' = alive \cup {i}
          /\ RequestGoesTo(c, [api[c] EXCEPT
                !.todo = @ \ {i},
                !.pc = IF api[c].todo = {i} THEN "cast" ELSE "creating"])
    /\ UNCHANGED <<task, nInst, config, primary, errored, jobs, wedged,
                   misread>>

\* _create_instances raises: too few instances, a validation, the quota, Nova
\* or Cinder.  Neither create nor grow has a handler.
CreateInstancesFail(c) ==
    /\ api[c].pc = "creating"
    /\ wedged' = TRUE
    /\ RequestGoesTo(c, Idle)
    /\ UNCHANGED <<task, nInst, attached, alive, config, primary, errored,
                   jobs, misread>>

CastJob(c) ==
    /\ api[c].pc = "cast"
    /\ jobs' = jobs \cup {[op |-> api[c].op, pc |-> "wait",
                           ids |-> api[c].ids, todo |-> {},
                           guest |-> NoInst]}
    /\ RequestGoesTo(c, Idle)
    /\ UNCHANGED <<task, nInst, attached, alive, config, primary, errored,
                   wedged, misread>>

(***************************************************************************)
(* API: shrink                                                             *)
(***************************************************************************)

\* Mutant of Retained: off by one.
RetainedOffByOne(ids) ==
    Cardinality(attached) - Cardinality(ids) >= MIN_REPLICA_SET_MEMBERS - 1

Retained(ids) ==
    Cardinality(attached) - Cardinality(ids) >= MIN_REPLICA_SET_MEMBERS

\* shrink up to its update_db; an empty request is let through.
StartShrink(c) ==
    /\ api[c].pc = "idle"
    /\ task = "NONE"
    /\ \E ids \in SUBSET attached :
          /\ Retained(ids)
          /\ RequestGoesTo(c, [Idle EXCEPT !.op = "shrink", !.pc = "mark",
                                           !.ids = ids])
    /\ UNCHANGED <<task, nInst, attached, alive, config, primary, errored,
                   jobs, wedged, misread>>

\* remove_replica_members on a candidate that knows a primary: the guest
\* decides what to run there.
ReadHello(c) ==
    /\ api[c].pc = "elect"
    /\ primary # NoInst
    /\ RequestGoesTo(c, [api[c] EXCEPT
          !.pc = IF primary \in api[c].ids THEN "stepdown" ELSE "remove",
          !.todo = api[c].ids,
          !.target = primary])
    /\ UNCHANGED <<task, nInst, attached, alive, config, primary, errored,
                   jobs, wedged, misread>>

\* Mutant of AfterStepDown: the answer stepped_down is taken for removed.
AfterStepDownRemoved(r) == [r EXCEPT !.pc = "detach", !.todo = r.ids]

AfterStepDown(r) == [r EXCEPT !.pc = "elect"]

\* rs.stepDown on that host; its errors are caught in the script.
StepDown(c) ==
    /\ api[c].pc = "stepdown"
    /\ primary' \in IF primary = api[c].target THEN {primary, NoInst}
                                               ELSE {primary}
    /\ RequestGoesTo(c, AfterStepDown(api[c]))
    /\ UNCHANGED <<task, nInst, attached, alive, config, errored, jobs, wedged,
                   misread>>

\* rs.remove of one host, accepted by the primary only; a host that is not a
\* member (MemberNotFound) is skipped.
RemoveHost(c) ==
    /\ api[c].pc = "remove"
    /\ \E h \in api[c].todo :
          /\ h \in config => primary = api[c].target
          /\ config' = config \ {h}
          /\ RequestGoesTo(c, [api[c] EXCEPT !.todo = @ \ {h}])
    /\ UNCHANGED <<task, nInst, attached, alive, primary, errored, jobs,
                   wedged, misread>>

\* What follows the answer removed: the loops over removal, which are empty
\* for an empty request.
AfterRemoved(r) == [r EXCEPT !.pc = IF r.ids = {} THEN "destroy" ELSE "detach",
                             !.todo = r.ids]

\* The output of either script is no JSON (messages of docker or mongosh mixed
\* into it, a script that died): remove_replica_members answers removed.
Unreadable(c) ==
    /\ api[c].pc \in {"stepdown", "remove"}
    /\ primary' \in IF api[c].pc = "stepdown" /\ primary = api[c].target
                    THEN {primary, NoInst} ELSE {primary}
    /\ misread' = misread \cup (api[c].ids \cap config)
    /\ RequestGoesTo(c, AfterRemoved(api[c]))
    /\ UNCHANGED <<task, nInst, attached, alive, config, errored, jobs,
                   wedged>>

\* The command fails on the way, or its answer is lost; the loop goes on.
RemoveRetried(c) ==
    /\ api[c].pc = "remove"
    /\ RequestGoesTo(c, [api[c] EXCEPT !.pc = "elect"])
    /\ UNCHANGED <<task, nInst, attached, alive, config, primary, errored,
                   jobs, wedged, misread>>

RemoveDone(c) ==
    /\ api[c].pc = "remove"
    /\ api[c].todo = {}
    /\ RequestGoesTo(c, AfterRemoved(api[c]))
    /\ UNCHANGED <<task, nInst, attached, alive, config, primary, errored,
                   jobs, wedged, misread>>

\* The loop of update_db(cluster_id=None) ...
DetachInstance(c) ==
    /\ api[c].pc = "detach"
    /\ \E i \in api[c].todo :
          /\ attached' = attached \ {i}
          /\ RequestGoesTo(c, [api[c] EXCEPT
                !.todo = IF api[c].todo = {i} THEN api[c].ids ELSE @ \ {i},
                !.pc = IF api[c].todo = {i} THEN "destroy" ELSE "detach"])
    /\ UNCHANGED <<task, nInst, alive, config, primary, errored, jobs, wedged,
                   misread>>

\* ... then the loop of Instance.delete.
DestroyInstance(c) ==
    /\ api[c].pc = "destroy"
    /\ \E i \in api[c].todo :
          /\ alive' = alive \ {i}
          /\ primary' = IF primary = i THEN NoInst ELSE primary
          /\ RequestGoesTo(c, [api[c] EXCEPT !.todo = @ \ {i}])
    /\ UNCHANGED <<task, nInst, attached, config, errored, jobs, wedged,
                   misread>>

FinishShrink(c) ==
    /\ api[c].pc = "destroy"
    /\ api[c].todo = {}
    /\ task' = "NONE"
    /\ RequestGoesTo(c, Idle)
    /\ UNCHANGED <<nInst, attached, alive, config, primary, errored, jobs,
                   wedged, misread>>

\* No primary before the deadline, or an exception of the database or Nova;
\* the finally clause clears the task.
ShrinkFails(c) ==
    /\ api[c].pc \in {"elect", "detach", "destroy"}
    /\ task' = "NONE"
    /\ RequestGoesTo(c, Idle)
    /\ UNCHANGED <<nInst, attached, alive, config, primary, errored, jobs,
                   wedged, misread>>

(***************************************************************************)
(* Task manager                                                            *)
(***************************************************************************)

\* _all_instances_ready; the members and the first of them are loaded.
JobReady(j) ==
    LET ids == IF j.op = "create" THEN attached ELSE j.ids
        candidates == IF j.op = "create" THEN ids ELSE attached \ ids
    IN  /\ j.pc = "wait"
        /\ attached \cup ids \subseteq alive
        /\ \E g \in candidates :
              JobGoesTo(j, [j EXCEPT !.pc = IF j.op = "create" THEN "init"
                                                               ELSE "add",
                                     !.ids = ids, !.todo = ids, !.guest = g])
    /\ UNCHANGED <<task, nInst, attached, alive, config, primary, errored, api,
                   wedged, misread>>

\* initialize_replica_set on the first member, unless it was done already.
JobInitiate(j) ==
    /\ j.pc = "init"
    /\ j.ids \subseteq alive
    /\ config' = IF config = {} THEN j.ids ELSE config
    /\ JobGoesTo(j, [j EXCEPT !.pc = "primary", !.todo = {}])
    /\ UNCHANGED <<task, nInst, attached, alive, primary, errored, api, wedged,
                   misread>>

\* _wait_for_primary: this very member must be elected.
JobIsPrimary(j) ==
    /\ j.pc = "primary"
    /\ primary = j.guest
    /\ JobGoesTo(j, [j EXCEPT !.pc = "members"])
    /\ UNCHANGED <<task, nInst, attached, alive, config, primary, errored, api,
                   wedged, misread>>

\* One rs.add of add_replica_members, run on the guest's own mongod.
JobAddMember(j) ==
    /\ j.pc = "add"
    /\ j.guest \in alive
    /\ primary = j.guest
    /\ \E h \in j.todo :
          /\ config' = config \cup {h}
          /\ JobGoesTo(j, [j EXCEPT !.todo = @ \ {h},
                                    !.pc = IF j.todo = {h} THEN "members"
                                                           ELSE "add"])
    /\ UNCHANGED <<task, nInst, attached, alive, primary, errored, api, wedged,
                   misread>>

\* _wait_for_replica_members
JobMembersReady(j) ==
    /\ j.pc = "members"
    /\ j.guest \in config \cap alive
    /\ j.ids \subseteq config \cap alive
    /\ JobGoesTo(j, [j EXCEPT !.pc = "complete"])
    /\ UNCHANGED <<task, nInst, attached, alive, config, primary, errored, api,
                   wedged, misread>>

\* Mutant of JobComplete: reset_task is forgotten.
JobCompleteNoReset(j) ==
    /\ j.pc = "complete"
    /\ j.ids \subseteq alive
    /\ jobs' = jobs \ {j}
    /\ UNCHANGED <<task, nInst, attached, alive, config, primary, errored, api,
                   wedged, misread>>

\* cluster_complete on every member, then reset_task.
JobComplete(j) ==
    /\ j.pc = "complete"
    /\ j.ids \subseteq alive
    /\ task' = "NONE"
    /\ jobs' = jobs \ {j}
    /\ UNCHANGED <<nInst, attached, alive, config, primary, errored, api,
                   wedged, misread>>

\* _run_with_timeout: a deadline or an exception.
JobFail(j) ==
    /\ errored' = errored \cup attached
    /\ wedged' = TRUE
    /\ jobs' = jobs \ {j}
    /\ UNCHANGED <<task, nInst, attached, alive, config, primary, api,
                   misread>>

(***************************************************************************)
(* The replica set, and crashes                                            *)
(***************************************************************************)

Elect ==
    /\ primary = NoInst
    /\ 2 * Cardinality(config \cap alive) > Cardinality(config)
    /\ \E i \in config \cap alive : primary' = i
    /\ UNCHANGED <<task, nInst, attached, alive, config, errored, api, jobs,
                   wedged, misread>>

LosePrimary ==
    /\ primary # NoInst
    /\ primary' = NoInst
    /\ UNCHANGED <<task, nInst, attached, alive, config, errored, api, jobs,
                   wedged, misread>>

ApiCrash(c) ==
    /\ api[c].pc # "idle"
    /\ RequestGoesTo(c, Idle)
    /\ wedged' = (wedged \/ task # "NONE")
    /\ UNCHANGED <<task, nInst, attached, alive, config, primary, errored,
                   jobs, misread>>

TaskManagerCrash ==
    /\ jobs # {}
    /\ jobs' = {}
    /\ wedged' = TRUE
    /\ UNCHANGED <<task, nInst, attached, alive, config, primary, errored, api,
                   misread>>

-----------------------------------------------------------------------------
Init ==
    /\ task = "ABSENT"
    /\ nInst = 0
    /\ attached = {} /\ alive = {} /\ config = {} /\ errored = {}
    /\ primary = NoInst
    /\ api = [c \in Clients |-> Idle]
    /\ jobs = {}
    /\ wedged = FALSE
    /\ misread = {}

ClientStep(c) == CreateCluster(c) \/ StartGrow(c) \/ StartShrink(c)

ApiStep(c) ==
    \/ MarkTask(c) \/ CreateInstance(c) \/ CreateInstancesFail(c)
    \/ CastJob(c) \/ ReadHello(c) \/ StepDown(c) \/ RemoveHost(c)
    \/ Unreadable(c) \/ RemoveRetried(c) \/ RemoveDone(c)
    \/ DetachInstance(c) \/ DestroyInstance(c) \/ FinishShrink(c)
    \/ ShrinkFails(c)

JobStep(j) ==
    \/ JobReady(j) \/ JobInitiate(j) \/ JobIsPrimary(j) \/ JobAddMember(j)
    \/ JobMembersReady(j) \/ JobComplete(j) \/ JobFail(j)

Next == \/ \E c \in Clients : ClientStep(c) \/ ApiStep(c) \/ ApiCrash(c)
        \/ \E j \in jobs : JobStep(j)
        \/ TaskManagerCrash \/ Elect \/ LosePrimary

Spec == Init /\ [][Next]_vars

\* The removal loop of shrink repeats until its deadline: a request that is
\* back at its top again and again finds the deadline passed.  The other waits
\* have deadlines too.
Fairness ==
    /\ \A c \in Clients : WF_vars(ApiStep(c)) /\ SF_vars(ShrinkFails(c))
    /\ WF_vars(\E j \in jobs : JobStep(j))

FairSpec == Spec /\ Fairness

-----------------------------------------------------------------------------
(***************************************************************************)
(* Properties                                                              *)
(***************************************************************************)

\* The type of every variable: the cluster row, the instances, the replica
\* set, the requests and the jobs.
TypeOK ==
    /\ task \in TaskStatus
    /\ nInst \in 0 .. MaxInst
    /\ attached \subseteq Inst
    /\ alive \subseteq Inst
    /\ config \subseteq Inst
    /\ primary \in Inst \cup {NoInst}
    /\ errored \subseteq Inst
    /\ api \in [Clients -> Request]
    /\ jobs \subseteq Job
    /\ wedged \in BOOLEAN
    /\ misread \subseteq Inst

\* "Remove members from this replica set before Nova deletion": every member
\* of the replica-set configuration is an existing instance of the cluster,
\* whatever elections, lost answers and retries do to the removal loop of
\* shrink, save those a shrink took for removed because it could not read the
\* answer; and the member that executes the removals is not removed itself.
MembersExist ==
    /\ config \ misread \subseteq attached \cap alive
    /\ primary # NoInst => primary \in config

\* "A MongoDB replica set must retain at least 2 members": an available
\* cluster has that many instances.
InstancesRetained ==
    task = "NONE" => Cardinality(attached) >= MIN_REPLICA_SET_MEMBERS

\* The same of the replica set itself.
MembersRetained ==
    task = "NONE" => Cardinality(config) >= MIN_REPLICA_SET_MEMBERS

\* Every announced change ends: the cluster becomes available again, or an
\* operation failed in a way that leaves the task set.
ChangeEnds == (task \notin {"ABSENT", "NONE"}) ~> (task = "NONE" \/ wedged)

(***************************************************************************)
(* Users of the cluster see ClusterService.                                *)
(***************************************************************************)
Service == INSTANCE ClusterService WITH
               status <- task, serving <- config, Shards <- Inst

\* When requests come one at a time, members join and leave the replica set
\* only under the status that announces it, and the set never becomes empty.
ImplementsService == Service!Spec
=============================================================================
