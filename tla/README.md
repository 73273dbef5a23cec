# Yggdrasil Home in TLA+

Yggdrasil Home deploys OpenStack with Ansible, kolla-ansible and shell scripts.
Most of it is declarative: its state belongs to the tools it calls. Four parts
have a control flow of their own that runs against services which fail, answer
late and change on their own. Those are what this project models:

1. the MongoDB datastore for Trove (`src/scripts/openstack/trove-mongodb`):
   clusters created, grown and shrunk by an API and a task manager, and the guest
   agent that configures, starts and converts one mongod;
2. the inventory and the emptying of an OpenStack project
   (`src/scripts/openstack/{list,delete}-project-resources.py`);
3. the Senlin profile and load-balancing policy for Zun capsules
   (`src/scripts/kolla-ansible/senlin-images/zun-capsule-profile`);
4. the containerd CRI configuration and the play that applies it
   (`src/scripts/devices/configure_containerd_cri.py`, `devices.yml`).

Paths below are relative to `src/scripts/openstack/trove-mongodb/` for the
MongoDB parts (`api.py` and `taskmanager.py` are under `controller/`).

## Running it

    tlc -config ShardedSerial.cfg MCShardedCluster     # any run of PROJECT.json
    tlapm ShardedCluster_proofs.tla                    # proofs
    tlapm ProjectInventory_proofs.tla                  # any of the eight *_proofs

`PROJECT.json` lists the runs, what each definition models (`map`), a mutant of
the code for each checked property, the findings and the hazards.

## Inventory

| Component | State | Operations | Interacts with | Hard behaviour | What makes it correct |
|---|---|---|---|---|---|
| Sharded cluster, API (`api.py` 135-245, 338-351, 400-547, 574-688) | the `DBCluster` row (`task_status`), `DBInstance` rows (type, shard, cluster), a request in progress | create, grow (which `add_shard_cluster` calls), shrink | casts jobs to the task manager, calls guests of routers, Nova through `Instance.create/delete` | the check of the task and its update are far apart; half of a request may be done when it fails; requests of two workers overlap | no registered shard loses an instance; routers and config servers stay; new shards get registered |
| Sharded cluster, task manager (`taskmanager.py`) | the job in progress | `create_cluster`, `grow_cluster` (also under the name `add_shard_cluster`, which only calls it) | guests; cluster row | timeouts, restarts, a failure must stay visible | a failed cluster is not reported as available; every announced change ends |
| Replica-set cluster (`api.py` 246-336, 549-572, 690-754, `taskmanager.py`) | as above, and the replica-set configuration and its primary | create, grow, shrink | guests; elections happen by themselves | the primary moves between two commands, answers are lost after the command was executed, commands are repeated | members exist; at least two remain; the primary is a member |
| MongoDB guest (`manager.py`, `service.py`) | files (base configuration, overrides, cluster metadata, prepare marker), the metadata and status in memory, the container | prepare, apply overrides, add config servers, cluster complete, the periodic status | called by RPC from both of the above; Docker; Trove's heartbeats | a crash between two writes; a container that fails or cannot be removed; heartbeats while a topology is assembled for a long time | what is applied is active; a converted router stays one; a guest is neither advertised early nor taken for dead |
| mongod configuration (`service.py` 49-139, 212-255) | none | normalise dotted names, drop what MongoDB 8 rejects, merge | guest | several spellings of one option in one group and in groups applied one after another | the user's last value wins, and mongod accepts the file |
| Project inventory (`list-project-resources.py`) | a report | discover endpoints, choose clients, list every type of every service, nested types below their parents | OpenStack SDK, legacy clients and CLIs; users of the cloud | any request may fail; parents vanish between two requests; types wait for parents; the connection may not be the project's | what is missing is reported, but for requests taken for a missing type; nobody else's marked resources; the run ends |
| Project deletion (`delete-project-resources.py`) | the plan, failures, exit code | read, refuse, plan, execute in phases, wait, verify | OpenStack CLIs; report files of earlier runs | asynchronous deletions, stale reports, being killed, resources that create others | no inventory known to be incomplete; exit 0 means gone; verified means empty for good, as far as the answers of commands are read right; an order without conflicts |
| Capsule profile (`capsule.py`) | `capsule_id` / `physical_id` of a node | create, delete, check, details | Zun's REST API; the Senlin engine | lost answers, failing rollback, capsules that vanish | no capsule is forgotten; an active node has had a ready capsule |
| Capsule load balancing (`capsule_loadbalance.py`) | the member recorded for a node | add and remove a member around scaling | Octavia; the profile | a member may exist although its addition failed | traffic stops before a capsule is deleted |
| containerd CRI configuration (`configure_containerd_cri.py`, `devices.yml`) | `config.toml`, backups, a temporary file, the running daemon | copy the CNI files; migrate, edit, validate, compare, install; restart handler, inspection | containerd; administrators who edit the file or restart the daemon | a play that dies before its handler; edits and restarts in between; repeated plays | only accepted files are installed; a stale daemon is noticed; plays converge and then restart nothing |
| Ceilometer pollster, Freezer wrappers, image patches, playbooks, shell scripts | files | one-shot text transformations | - | - | not modelled, see the end |

## Modules

| Module | Models | State ↔ code |
|---|---|---|
| `ClusterService` | the abstract service both kinds of cluster offer: what a user sees of `task_status` and of the data-bearing shards or members | - |
| `ShardedCluster` | API, task manager and shard registry of a sharded cluster | `task` is `DBCluster.task_status`; `kind`, `shardOf`, `attached` are columns of `DBInstance`; `setName` the `n` of `rs<n>`; `registered`/`draining` what `listShards` shows; `api[c]` a request with its program counter, `jobs` the casts and the jobs they became |
| `ReplicaSetCluster` | API, task manager and replica set | as above, with `config` and `primary` in place of the registry |
| `ProjectCleanup` | inventory and deletion of a project, over repeated invocations | `cloud` what became of each resource, `saved` the report file, `report`/`todo`/`errors`/`exit` the variables of `main` and `execute_plan` |
| `CapsuleScaling` | profile and policy of capsule nodes | `cap[n]` is `capsule_id` in `do_create` and `physical_id` after it, `member[n]` Senlin's record, `pool` Octavia's |
| `ProjectInventory` | one run of the inventory beside a changing cloud | `queue`/`providers`/`todo`/`later`/`progressed` are the loops of `main`, `preflight` and `collect`; `known`/`objects` is `objects_by_resource`; `session`/`scope` the projects of the two connections; `cloud` what exists |
| `MongoConfig` | `MongoConfigurationManager` and `_configuration_contents` as operators | a tree of options is the function from its leaf paths to values |
| `MongoGuest` | one guest: agent, files, container, heartbeats (uses `MongoConfig`) | `base`, `override`, `file`, `installed` are files; `cluster` is `self.cluster_config`; `box` the container with the configuration its process read; `seen`/`age` what Trove knows |
| `ContainerdConfig` | script, play and daemon | `text` the script's configuration, `temp`/`file` files, `wrong` the CNI files that differ, `newer` the comparison of mtime and computed start of the daemon, `report` the printed word, `notified` a notified handler |
| `<Module>_proofs` for each of these but `ClusterService` | theorems about the module | - |
| `MC*` | instances for TLC | - |

Common conventions. An action is the part of a handler between two points where
somebody else can act: a database write, an RPC, a REST call, a command line. A
request that the code refuses changes nothing and has no action. A guest or
service that fails, and an answer that is lost after the request was obeyed, are
alternatives of the step that makes the call. Identifiers are small numbers in
order of creation. Names ending in something like `...Unchecked` or preceded by
"Mutant"/"Mutation" are plausible bugs used to test the properties; they are not
part of any specification. History variables (`wedged`, `quiet`, `requested`,
`misread`, `blind`, `lost`, `leaked`, `served`, `dropped`, `kept`, `completed`, `past`,
`source`, `disturbed`, `raced`, `settled`) record what a property needs to know and guard
no action.

### ShardedCluster

The API validates (`validate_cluster_available`), creates instances one at a
time, stores the task status and casts a job; or, for a shrink, drains shards
through a router's guest, polls `removeShard` until it completes or the deadline
passes, and then detaches and deletes instance by instance. The job waits for the
guests, configures routers, registers shards and clears the task. Every step may
raise. An API worker and the task manager may die at any point. `find_all` has no
order, so "the first router" is any router. Bringing up the guest of an instance
is one step of the job which waits for it.

### ReplicaSetCluster

A shrink asks a member for the primary (`hello`), steps the primary down if it is
itself to be removed, and asks the primary to remove the members, over and over
until a deadline. Elections and loss of the primary are actions of their own,
possible between any two steps. What is assumed of MongoDB: a member outside the
configuration is not elected, and a command that needs the primary fails elsewhere.
Any answer may also be no JSON, which `service.py:580-583` reports as removed, for the
step-down script too (`Unreadable`): the request then goes on to detach and delete
instances that may still be members, which `misread` records. A request to
shrink by nothing passes the checks (`api.py:700-707`) and is included.

### ProjectCleanup

One invocation at a time, from a new inventory or a report left by an earlier one.
Resource kinds are reduced to those the control flow or the order of phases tells
apart: deleted by command and waited for or not, by Senlin, by the router
procedure, children that go with their parents, kinds the program does not know.
The cloud finishes and fails deletions, and stacks, clusters and triggers create
servers. `Killed` ends an invocation anywhere. A command that fails may do so in words
that `_missing_output` matches, whether its resource is gone (`DeleteMissing`) or not
(`DeleteMisread`, `Misread`; `misread` keeps what the program wrongly took for gone),
and a kind may be missing from an inventory without an error, as `ProjectInventory`
shows (`blind`, if that happened to the verification). Deletions of capsules and of what
`volume` stands for go on after their command and nothing waits for them (`Unwaited`).
Inventories list resources of the project only; that `ProjectInventory` also finds
unmarked resources of other projects is left out here: they would be deleted as listed,
and no property of this module is about whose they are. `Options` are the command lines
that a run combines.

### CapsuleScaling

Senlin (external) locks a node for the duration of an action, so a node does one
thing at a time; two nodes and Zun interleave freely. Zun may make any existing
capsule fail or vanish. A node's status after an exception, and that a policy
check which fails stops the action, is Senlin's behaviour as the code relies on it.

### ProjectInventory

The steps are those of `main`: endpoints from the catalog or the CLI, one endpoint
per service, the project, the connection, a client for every service (SDK, then
plugin, then a conventional client), and, service by service, one step per request:
direct types, the exclusion of the default security group, containers and objects,
and nested types in passes until a pass lists nothing. Each of the six places that
catch an exception is an alternative of its step. What the code asks about a type
(its parents, whether it is global or not deletable, whether the service honours or
rejects a project filter, whether the resource shows its owner) is the record
`Attr[t]`; heuristics over names are thereby inputs. `Only` stands for the comprehensions that
pick types out of a registry in its order. `CloudCreate` and
`CloudDelete` act between any two requests. Any request may fail, and any failure may
have a text that `_is_missing_resource_error` matches, whatever the reason; the program
then takes the type for missing and says nothing (`TakenForMissing`, recorded in
`dropped`). `CompleteOrReported` excepts these types, and resources created during the
run; `FailuresReported` does not except the types, and fails.

### MongoConfig and MongoGuest

`Normalize` splits dotted keys in the order given, later entries replacing what they
meet; `Sanitize` drops what MongoDB 8 rejects; `Merge` joins trees. The guest
handles one call at a time: `prepare` resets the configuration, stores the cluster
metadata, writes overrides, starts the container and waits; `apply_overrides` writes
and restarts; `add_config_servers` writes the metadata and replaces the container;
`cluster_complete` writes the prepare marker. Between any two steps the container
may fail or recover, the periodic task may run, time may pass and the agent may
crash and lose its memory. Trove's own prepare and its order of calls are external; its
`wait_for_status` replaces the status in memory by what it polls (`PollStatus`), and
`manager.py:33-35` renews only the transitional one. Setting the ready status and
publishing it are two steps (`PublishStatus`). Keys with dots that occur inside a value
stay literal in the code and do not occur in the option lists.
`UserOptionsWin` compares the file with an independent definition (`Reached`, `Given`)
of what a list of options says about a path: the last list that reaches the path, or
one above or below it, decides.

### ContainerdConfig

A configuration is reduced to what the script tells apart: whether it is in the form
`config migrate` prints, the disabled plugins, the Kata handler, and whether
containerd accepts it. The two CNI copy tasks of the play, every command, the two
comparisons, the backup, the temporary file and `os.replace` are steps of their own; a
play may die after each, forgetting its handler, and is then run again. The play's last
check (`Required`) accepts either of two sets of CRI plugins. Others may edit the files,
with or without a new mtime, restart the daemon or see it die at any point. `os.replace`
keeps the mtime of the temporary file. The start of the daemon is computed from a boot
time in whole seconds, so a daemon that starts less than a second after its file was
written (`fresh`) may still look older (`Load`). It is assumed that more than a second
passes between the start of a play and its handler (`StartPlay`). `Files` are the
configurations that TLC tries for installations and edits.

### ClusterService

The status announces a change (`Announce`), data-bearing parts appear only while
building or growing (`Serve`), disappear one at a time, never the last, only while
shrinking (`Retire`), and the cluster is reported as built only if it serves
(`Settle`). Under one request at a time both cluster modules implement it
(`ImplementsService`), with the shard registry or the member list as `serving`.

## Runs

| Run | Bounds | Shows |
|---|---|---|
| `sharded_serial` | 1 client, 9 instances, 3 shards, 4 nodes in a request (273,768 states) | `TypeOK`, `OneTopologyChange`, `RegisteredShardsIntact`, `ServersRemain`, `FailureStaysVisible`, `BusyHasOwner`, refinement `ImplementsService`, liveness `ChangeEnds` |
| `sharded_name_reuse` | 1 client | **violated** `GrownShardsRegistered` |
| `replica_serial` | 1 client, 4 instances, 3 in a request (385,624 states) | `MembersExist`, `InstancesRetained`, `ImplementsService`, `ChangeEnds` |
| `replica_partial_shrink` | 1 client | **violated** `MembersRetained` |
| `cleanup_runs` | 2 invocations, 6 command lines; a stack, a server it may create, a capsule, an unknown resource (1,074,088 states) | `TypeOK`, `CompleteInventoryOnly`, `CleanExit`, `VerifiedStaysEmpty` |
| `cleanup_order` | 1 invocation; cluster, node, router, port, subnet, network (35,684 states) | `OrderAvoidsConflicts`, `Finishes` |
| `cleanup_hidden_errors` | reports may be written with `--hide-errors` | **violated** `CompleteInventoryOnly` |
| `capsule_scaling` | 2 nodes, 2 capsules (25,351 states) | `CapsulesTracked`, `ActiveWasReady`, `TrafficStopsFirst`, `ActionsEnd` |
| `inventory` | 8 services in 7 catalogs, 17 types, a resource that appears and 3 that vanish during the run (114,268 states) | `CompleteOrReported`, `StrictReportIsClean`, `ForeignIsUnmarked`, `DefaultGroupLeft`, `RunEnds` |
| `inventory_silent_drop` | the same | **violated** `FailuresReported` |
| `mongo_guest` | a member or router, 2 option lists, 1 set of config servers, 1 change of configuration, 1 crash (243,183 states) | `UserOptionsWin`, `DaemonAccepts`, `AppliedIsActive`, `RouterConverted`, `NotAdvertisedEarly`, `HeartbeatKept`, `CallsEnd` |
| `containerd` | three CRI plugins and another one, 1 edit, 1 fault, 1 restart by others (1,340,100 states) | `StaleIsNoticed`, `NoNeedlessRestart`, `InstallsAccepted`, `LoadedAtEnd`, `Converges` |

Why the bounds are enough. Sharded: two members, two config servers and one
router make the smallest cluster; four more instances allow a second shard and
routers, a shrink that leaves the second and a grow after it, in one or two
requests, so that names and counters are used after a shrink. Replica set: three
members let a shrink remove the primary and another member; four allow a grow
before or after a shrink. Cleanup: two invocations are what stale reports need; one resource of
each treatment shows every branch, and the ordering run has a pair for every edge
of the network. Capsules: a node owns at most one capsule in its life, and what
two nodes share (Zun, the pool) needs two. Inventory: types nested three deep whose
names sort against their order need three passes; every kind of client, filter,
ownership mark and special type occurs, and services are combined two by two, since
they share nothing but the connection and the error list. Guest: prepare with
contents and overrides and one more change give three layers of options, taken from
the stock template and from a list that mixes dotted and nested spellings; one crash
reaches every pair of writes it can fall between; 512 MB is a memory whose quarter is
below mongod's smallest cache. containerd: one disturbance of each kind can fall
between any two steps of any play, and the number of plays is not bounded.

Deadlock checking is off in the cluster, cleanup and capsule runs: at the bounds a system really stops (no
instance left to create, the last invocation has ended, every node is deleted),
and liveness is stated instead.

### Fairness

- Clusters: a request and a job that can go on do (`WF`). The API worker runs a
  request to its end in one thread; `_run_with_timeout` and the timeouts of guest
  calls end a job's waits, and failing is one of the alternatives of a job's step.
  The removal loop of a replica-set shrink can circle through re-elections, and
  is left by its deadline, `add_members_timeout`: hence strong fairness of
  `ShrinkFails`. Nothing is assumed of clients, elections, crashes or Zun.
- Cleanup: the program goes on (`WF` of `Program`); each wait has a deadline in
  the code (`wait_for_stack_delete`, `delete_senlin_resource`) whose expiry is a
  step of the program. Nothing is assumed of the cloud.
- Capsules: a node's action goes on (`WF` of `NodeStep`), as each request has a
  timeout of 60 s and both waits have deadlines. Nothing is assumed of Zun.
- Inventory: the program goes on (`WF` of `Step`); a request returns or raises.
- Guest: a call goes on (`WF` of `CallStep`), as Docker answers or raises and
  `wait_for_status` has a deadline; a dead agent is restarted by systemd and its
  periodic task is run by oslo (`WF` of `AgentRestart` and `UpdateStatus`). Nothing is
  assumed of the container.
- containerd: a play goes on, and is run again after it ended (`WF` of `PlayStep` and
  `StartPlay`): convergence is a statement about an operator who repeats a failed
  play. Nothing is assumed of edits and restarts but that they stop at the bound.

## What is proved

Every invariant and action property that a run checks, and both refinements, for
every value of the constants under the named assumptions, which TLC evaluates on each
instance:

| Assumption | Says | Because |
|---|---|---|
| `BoundsAssumption`, `ReplicaBounds`, `CapsuleBound`, `GuestBounds`, `ContainerdBounds` | bounds are naturals; heartbeats are due before they expire | bounds of the model; Trove's defaults |
| `CreateAssumption` | minimal numbers of members, config servers and routers | `_integer_property`, `_validate_shard_members` |
| `KindAssumption` | a resource is of a kind the model has, at most one router | the reduction of kinds |
| `OptionsAssumption` (guest) | a list of options has keys that are paths and values that are trees | what yaml and Trove hand over |
| `OptionsAssumption` (cleanup), `FilesAssumption` | the command lines and configurations used are some | - |
| `ServicesAssumption`, `TypesAssumption` | services and the types of a service are distinct, a type is of one service, parents are of the same service | keys of dicts; placeholders of a request's path |
| `StoreAssumption`, `RelatedAssumption`, `DefaultAssumption` | what containers, workflows and security groups show and refer to | the special cases the code singles out by name |
| `ResourcesAssumption` | a resource has one parent of each parent type, of the same project and no younger | nested resources of OpenStack |
| `PluginsAssumption`, `NothingAssumption`, `HostsAssumption`, `ProjectsDiffer`, `IssuesAssumption` | model values differ | - |

`OneClient` (all clients are the same client) is a hypothesis of the theorems that name
it, not an assumption: with two clients serialisation fails (see below).

### `ShardedCluster_proofs`

- `TypeCorrect`: any number of clients. `TypeInv` adds to `TypeOK` that members
  have a shard (or `ShardsOf` would leave its range) and the shape of requests
  (what a request holds at each program counter).
- `NoRegisteredShardLost`, `TopologyChangesSerialised`, with `OneClient`. The invariant
  `SerialInv` is `RegistryInv` (registered shards have different names, and a shard that
  is listed, or that a job is to add, has been handed out) with `Lock` (who may be active under which task status)
  and `Flow` (what a request at each step has already done to its instances, and that
  instances about to be detached belong to no registered shard). `Lock` is needed
  because the only thing that keeps requests and jobs apart is `task_status`,
  `Flow` because deletion happens many steps after `removeShard` completed.
- `FailureVisible`: as above, with `Stopped`: once a job has
  failed nothing runs any more and the cluster is not available.
- `BusyIsOwned`: any number of clients.
- `ServersAlwaysRemain`, with `OneClient`: `ServersInv` says that the first instances
  are numbered members, config servers, routers in that order (`Numbering`), that config
  servers are in no shrink, that a shrink under way keeps a router that is
  attached and not among those it removes, and that some registered shard is not
  draining. These must be carried from the check to the last detachment.
- `ShardedImplementsService`, with `OneClient`: every step of a job or request is a
  step of `ClusterService` or leaves the status and the registry alone. `SerialInv`
  tells which status a step happens under, `ServersInv` that a shrink never removes the
  last shard.

### `ReplicaSetCluster_proofs`

- `ReplicaTypeCorrect`: any number of clients. `OpShape` (only create and grow make
  instances, only grow and shrink mark the task) is what makes a cast job well typed.
- `MembersAlwaysExist`, with `OneClient`: `Lock` as above, `Flow` (hosts already
  processed by the removal loop are out of the configuration, its target is not among
  the hosts it removes, and nothing is detached that is still a member) and `JobInv`
  (one job at most, working on existing instances). `Flow` carries the hard part: the
  loop may be restarted after any election or lost answer, and only its last complete
  pass counts. What an unreadable answer made the request take for removed (`misread`)
  is excepted, in the property as in `Flow`.
- `EnoughInstancesRetained`, with `OneClient`: `RetainInv` says of each request what it
  leaves even when it stops at this step: a shrink counts all it was asked to remove,
  removed or not, so that failing between two removals cannot help.
- `ReplicaImplementsService`, with `OneClient`: `SerialInv` and `ServesInv` (a cluster
  that is not absent or being built has a member, and a removal has a target, which it
  keeps: it never removes the last member).

### `ProjectCleanup_proofs`

- `CleanupTypeCorrect`.
- `RefusesIncompleteInventories`, assuming `~HideErrors`: `Gate` says that past the
  point of refusal the report says of every failed listing that it failed, or a flag
  allowed it, and that the
  operations left and done are within its plan. The run `cleanup_hidden_errors`
  shows that the assumption is needed.
- `ExitZeroMeansGone`: `Progress` says that a planned resource is still to do, is
  being waited for, is settled, or an error was noted; `ReportsBorn` that what a
  report lists was created before, so that gone means gone for good. The statement
  excepts the kinds that nothing waits for and what a failed command was taken to call
  missing (`misread`): there the code gives no such guarantee.
- `VerifiedProjectsStayEmpty`: verification reads an inventory without errors, which is
  complete unless it dropped a kind silently (`blind`), and what does not exist can only
  be created by what does.
- `OrderAlwaysAvoidsConflicts`: by `Undisturbed` everything that exists was listed, so
  by `Progress` what exists is still planned or waited for, and at a phase that is not
  lower than the current one: what the current resource could conflict with is at a
  lower one. For routers `Wired` is needed: a plugged port exists and so does its
  router, so ports are not reached before their router is gone, and after the removal
  of the listed ports none is plugged.

### `ProjectInventory_proofs`

Any services, types, resources and catalogs, any nesting of types. `BaseInv` describes
the loops: which services are closed, which types of the current service are known,
still to list, postponed, or reported (`QueueInv`, `StageInv`, `DirectInv`, `NestedInv`,
`RequestInv`), and that what is listed is of a closed service (`ListedInv`).

- `InventoryTypes`.
- `StrictReportIsAlwaysClean`: `StrictInv`.
- `ForeignIsAlwaysUnmarked`: `ForeignInv` states of the objects kept so far what the
  property states of the report: another project's resource shows no owner and came
  over another connection, or is below one that did; a workflow's execution only with
  its workflow, which the filter at the end of the direct types establishes.
- `DefaultGroupAlwaysLeft`: `DirectComplete` (the groups were listed, or an error says
  not, or their failed listing was taken for a missing type) is needed at the moment the default group is looked for; `DefaultInv` carries
  the exclusion through the nested types into the report.
- `AlwaysCompleteOrReported`: `CompleteInv`. A resource owed by the report has all its
  parents in the cloud (`CloudInv`); a type that is known holds its resources or an
  excuse (`KnownComplete`); while children are requested each is received, or its
  parents are still to be asked, or there is an excuse (`RequestComplete`); a service
  that is closed is in the report (`ClosedComplete`). The last step needs that an
  excuse for a parent type becomes one for its children: they are reported as unlisted,
  which is where the loop over passes comes in.

### `MongoConfig_proofs` and `MongoGuest_proofs`

- `NormalizeIsReference`, `ManagerNormalizes`: for every list of options the recursion
  of `_normalize` gives the tree of the reference definition. Induction over the length
  of the list is done by a least counterexample.
- `GuestTypes`: `TypeInv` adds which call is at which step (`CallInv`), that nothing is
  written before `prepare` (`FreshInv`), and that the metadata in memory is the one on
  disk but for the addresses (`MetadataInv`).
- `AppliedIsAlwaysActive`, `RouterAlwaysConverted`: `ActiveInv` and `RouterInv` state the
  property from the wait for the container on, as the container may fail and recover
  before the call returns.
- `NeverAdvertisedEarly`: `InstalledInv` (a cluster member's prepare marker is written
  by `cluster_complete` only). `HeartbeatAlwaysKept`: `BeatInv` (after `prepare`, until a
  later call polls the container, the status in memory is the transitional one and the
  next heartbeat is due before expiry).
- `UserOptionsAlwaysWin`, `DaemonAlwaysAccepts`: `LayerInv`, with `ManagerNormalizes` for
  each list and lemmas on what `Merge` keeps.

### `CapsuleScaling_proofs`

Any number of nodes and capsules:

- `CapsuleTypeCorrect`, `NoCapsuleForgotten`, `ActiveNodesWereReady`,
  `TrafficStopsBeforeDeletion`. `CapsuleInv` adds `Shape` (what an action has done to
  its node at each step; in particular a node that asks for a capsule has none),
  `Handed` (no two nodes have the same capsule, or one node's addition could put
  another's capsule back into the pool), `ReadyServed` and `PoolKnown` (a member of
  the pool is recorded, about to be recorded, or known to be leaked).

### `ContainerdConfig_proofs`

Any plugins and any number of faults, edits and restarts:

- `ContainerdTypeCorrect`, `OnlyAcceptedIsInstalled` from `TextInv` (what the script
  holds at each step).
- `StaleDaemonsAreNoticed`: with `TempInv`, a temporary file is newer than the daemon
  unless somebody restarted it, which is what `os.replace` passes on.
- `SuccessMeansLoaded`: with `Undisturbed`; the mtime comparison vouches for the
  daemon when nothing changed, the handler when something did.
- `RepeatedPlaysAreQuiet`: `SettledInv`, and `FixedPoint`: the script's output is a
  fixed point of the script. A play counts as settled when it succeeded undisturbed and
  installed nothing: after one that installed its file the daemon may look older than
  the file, and the next play may restart it once more.

### Only model-checked

Liveness: `ChangeEnds`, `Finishes`, `ActionsEnd`, `RunEnds`, `CallsEnd`, `Converges`.
The proof system does not handle fairness. The four violated properties are refuted
by TLC's traces.

## What the runs found

Each run marked **violated** is a disagreement between the code and a statement in
the repository, quoted in `PROJECT.json`:

1. `sharded_name_reuse`: shards are numbered from the count of shards, so a grow
   after a shrink can reuse a name; `add_shard` takes the new shard for one already
   there, and the grow succeeds without registering it.
2. `replica_partial_shrink`: a replica-set shrink counts instances, not members;
   after a removal that failed half-way a later shrink leaves a single member.
3. `cleanup_hidden_errors`: a report written with `--hide-errors` passes for a
   complete one.
4. `inventory_silent_drop`: a request that fails with "404" or "not found" in its text
   leaves its type out of the report without an error, also with `--strict`.

Observed while modelling, and not kept as runs:

- Two overlapping shrinks of a sharded cluster pass the same checks and remove all
  routers; a grow that fails half-way leaves unconfigured routers which a shrink
  counts as remaining; a replica-set shrink's `finally` clears the task of a grow that
  runs at the same time. (`Clients` with two elements shows the first and the last.)
- `grow` sends `rs.add` to `existing[0]`, which need not be the primary, and the job
  then fails (`taskmanager.py:203`, `service.py:573-576`).
- A stack whose deletion failed is followed by the deletion of its trusts; `--verify`
  with a report file is refused only after the deletions; `_missing_output` accepts
  "not found" anywhere in an error text.
- The most likely silent drop: the inventory loses a whole nested type, in a strict run
  too, when one parent is deleted between its listing and the request for its children.
  And when the security groups are dropped that way, the rules of the default group
  reach the report (the exception in `DefaultGroupLeft`).
- A connection that has a project keeps it, whichever it is, and one without may not be
  scoped to the target (`list-project-resources.py:1696-1711`); types that show no owner
  are then listed for another project, although the comment at 319-321 says that they
  are only listed over a project-scoped connection. `ForeignIsUnmarked` says exactly
  which resources these are.
- An answer of a member that is no JSON, such as an error message of the step-down
  script, is reported as a removal (`service.py:580-583`), and the shrink deletes
  instances which are still in the replica set's configuration (`misread`).
- `wait_for_status` of a later call, such as `add_config_servers`, replaces the status
  that `manager.py:33-35` tests, so heartbeats stop from then until `cluster_complete`,
  which is what the comment at 21-35 wants to prevent for long assemblies.
- The handler that a CNI copy notified is lost if the play dies before it runs, and,
  unlike for the configuration file, no later play notices: the file is in place then.
- `add_config_servers` reports success with the old mongod when Docker fails to remove
  its container (`kept`); `apply_overrides` on a configured mongos restarts it but
  mongos reads no configuration file; a flavor without memory (`None`) raises a
  TypeError at `service.py:232`; an agent that restarts while its cluster is being
  built has lost the transitional status, so its heartbeats stop until
  `cluster_complete` (hence `crashes = 0` in `HeartbeatKept`); a controller's retries
  can outlast the RPC timeout of one guest call (`guestagent.py` 23-35).
- A daemon restarted by others between the writing of containerd's temporary file and
  `os.replace` looks newer than the file it has not read (`raced`).
- A POST whose answer is lost leaves a capsule nobody knows (`lost`), and a member whose
  load balancer is not ready after the addition stays in the pool (`leaked`).

## Not modelled, and why

- Rolling configuration updates, restarts and upgrades of a cluster: they delegate
  to Trove's generic code, which is not in the repository. `shrink_cluster` of the
  task manager is never cast.
- Users, databases, backups and the upgrade of a single MongoDB instance: the guest
  delegates to Trove's generic code or refuses. The guest's replica-set and shard
  commands are modelled by the steps of `ReplicaSetCluster` and `ShardedCluster` that
  call them; `MongoGuest` and those modules are not composed in one run, as the
  product exceeds TLC, and meet in the statuses `ready` and `healthy` that the jobs
  wait for.
- Temporary files and backups beside containerd's configuration: no step reads them.
  An edit between the backup and `os.replace` is lost; nothing locks the file.
- Name heuristics of the inventory (which attribute is an id, a parent or an owner):
  inputs of the model (`Attr`).
- Attaching and detaching the load-balancing policy, and the choice of an address.
- Failures of the Senlin engine: neither the profile nor the policy handles them.
- RPC formats, error texts, logging: data no property is about.
- Ceilometer pollster, Freezer wrappers, image patches: stateless conversions.
- Playbooks, shell scripts, dashboards, Terraform and Vagrant files: declarative,
  or sequential calls of other programs.

## Plan

1. The modules above with their runs: done.
2. Theorems for every checked invariant and action property and for both refinements: done.
3. Left: liveness stays with TLC; a composition of `MongoGuest` with the cluster modules
   would need an abstract guest, of which the guest's theorems are the promises.
