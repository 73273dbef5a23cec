----------------------------- MODULE MongoGuest -----------------------------
(* One MongoDB guest: the agent (manager.py), its application (service.py),  *)
(* the files it keeps on the VM, the container that runs mongod or mongos,   *)
(* and the heartbeats that Trove sees.  The agent handles one call at a      *)
(* time; its periodic task, the container, the clock and crashes of the      *)
(* agent come in between any two steps of a call.                            *)
EXTENDS MongoConfig, FiniteSets

CONSTANTS
    OptionLists,  \* configurations and overrides a user may give
    Memories,     \* memory of the flavor in MB
    Types,        \* instance types of a clustered guest
    HostSets,     \* sets of config servers
    Spacing,      \* ticks between two runs of the periodic task
    Expiry,       \* ticks after which Trove takes a silent guest for dead
    MaxApplies,   \* bound: configuration changes
    MaxCrashes    \* bound: crashes of the agent

None == "none"
NoHosts == {}
Standalone == [type |-> None, hosts |-> NoHosts]
Cluster == [type: Types \cup {None}, hosts: HostSets \cup {NoHosts}]

ASSUME GuestBounds ==
    /\ Spacing \in Nat \ {0} /\ Expiry \in Nat /\ Spacing <= Expiry
    /\ MaxApplies \in Nat /\ MaxCrashes \in Nat
ASSUME HostsAssumption == NoHosts \notin HostSets /\ None \notin Types
ASSUME OptionsAssumption == Memories \subseteq Nat /\ \A options \in OptionLists : IsOptionList(options)

VARIABLES
    pc,         \* where the current call is
    op,         \* the current call, or the last one
    arg,        \* its options or hosts
    result,     \* how the last call ended
    up,         \* the agent runs
    base,       \* disk: the base configuration
    override,   \* disk: the user overrides
    cluster,    \* memory: self.cluster_config
    file,       \* disk: MONGODB_CLUSTER_FILE
    box,        \* the container
    status,     \* memory: self.status.status
    installed,  \* disk: the prepare marker
    seen,       \* the last status that Trove received
    age,        \* ticks since then
    due,        \* ticks since the periodic task ran
    crashes,
    kept,       \* history: the last conversion started a container it could not remove
    completed,  \* history: cluster_complete found the daemon healthy
    past        \* history: the options written so far, in order

call == <<pc, op, arg, result>>
disk == <<base, override, file, installed>>
beat == <<status, seen, age, due>>
history == <<crashes, kept, completed, past>>
vars == <<call, up, disk, cluster, box, beat, history>>

Absent == [state |-> "absent", role |-> None, hosts |-> NoHosts, conf |-> Empty, host |-> FALSE]

Init ==
    /\ pc = "idle" /\ op = None /\ arg = None /\ result = None
    /\ up = TRUE /\ base = Empty /\ override = Empty
    /\ cluster = Standalone /\ file = Standalone
    /\ box = Absent /\ status = None /\ installed = FALSE
    /\ seen = None /\ age = 0 /\ due = 0
    /\ crashes = 0 /\ kept = FALSE /\ completed = FALSE /\ past = <<>>

\* The configuration file: the overrides over the base.
File == Merge(base, override)

-----------------------------------------------------------------------------
(* Steps of a call.                                                          *)

Goto(step) == pc' = step /\ UNCHANGED <<op, arg, result>>
End(how) == pc' = "idle" /\ result' = how /\ UNCHANGED <<op, arg>>
Beat(s) == status' = s /\ seen' = s /\ age' = 0 /\ UNCHANGED due
NoBeat == UNCHANGED beat
Polls(s) == status' = s /\ UNCHANGED <<seen, age, due>>

\* A call that raises; Trove's prepare publishes its failure.
Raise == End("error") /\ IF op = "prepare" THEN Beat("failed") ELSE NoBeat

\* A call arrives while none is handled.  Trove prepares a guest first, and
\* calls one that reported success.
Accept == up /\ pc = "idle" /\ seen \in {"ready", "healthy", "shutdown"}

\* External: Trove's prepare, which publishes a status before and after
\* do_prepare.
Prepare ==
    /\ up /\ pc = "idle" /\ op = None
    /\ \E contents \in OptionLists, memory \in Memories, overrides \in OptionLists, t \in Types \cup {None} :
        /\ arg' = [contents |-> contents, memory |-> memory, overrides |-> overrides, type |-> t]
        /\ op' = "prepare" /\ pc' = "reset" /\ UNCHANGED result
    /\ Beat("building")
    /\ UNCHANGED <<up, disk, cluster, box, history>>

\* reset_configuration
ResetConfiguration ==
    /\ up /\ pc = "reset"
    /\ base' = ConfigurationContents(arg.contents, arg.memory)
    /\ past' = Append(past, arg.contents)
    /\ Goto("cluster")
    /\ UNCHANGED <<up, override, file, installed, cluster, box, beat, crashes, kept, completed>>

\* The metadata is persisted before the first container start.
ConfigureCluster ==
    /\ up /\ pc = "cluster"
    /\ cluster' = [type |-> arg.type, hosts |-> NoHosts] /\ file' = cluster'
    /\ Goto("overrides")
    /\ UNCHANGED <<up, base, override, installed, box, beat, history>>

WriteOverrides(options) ==
    /\ override' = Merge(override, normalize(options))
    /\ past' = Append(past, options)
    /\ UNCHANGED <<base, file, installed>>

UpdateOverrides ==
    /\ up /\ pc = "overrides"
    /\ WriteOverrides(arg.overrides)
    /\ Goto("start")
    /\ UNCHANGED <<up, cluster, box, beat, crashes, kept, completed>>

\* The role comes from the metadata: a router without addresses is a mongod.
IsRouter == cluster.type = "query_router" /\ cluster.hosts # NoHosts
Command == IF IsRouter THEN "mongos" ELSE "mongod"
NewContainer ==
    [state |-> "up", role |-> Command, hosts |-> cluster.hosts,
     conf |-> IF IsRouter THEN Empty ELSE File, host |-> cluster.type # None]

\* A container reads its configuration when its process starts.
Started(c) == [c EXCEPT !.state = "up", !.conf = IF c.role = "mongod" THEN File ELSE Empty]

\* start_container starts a container that exists, or creates it.
StartContainer ==
    /\ up /\ pc = "start"
    /\ \/ /\ box' = IF box.state = "absent" THEN NewContainer ELSE Started(box)
          /\ kept' = IF op = "add_config" THEN box.state # "absent" ELSE kept
          /\ Goto("wait") /\ NoBeat
       \/ Raise /\ UNCHANGED <<box, kept>>
    /\ UNCHANGED <<up, disk, cluster, crashes, completed, past>>

Healthy == box.state = "up"

\* mutant: the first health check is waited for without a deadline
WaitForever ==
    /\ up /\ pc = "wait" /\ Healthy
    /\ Raise
    /\ UNCHANGED <<up, disk, cluster, box, history>>

\* External: Trove's wait_for_status keeps in self.status what it polled.
PollStatus ==
    /\ up /\ pc = "wait" /\ ~Healthy
    /\ Polls("shutdown")
    /\ UNCHANGED <<call, up, disk, cluster, box, history>>

\* wait_for_status: healthy, or the deadline; Trove's prepare then publishes
\* the outcome, and what the other calls leave in memory is the last poll.
WaitHealthy ==
    /\ up /\ pc = "wait" /\ Healthy
    /\ End("ok")
    /\ IF op = "prepare"
       THEN IF cluster.type = None
            THEN Beat("healthy") /\ installed' = TRUE
            ELSE Beat("ready") /\ UNCHANGED installed
       ELSE Polls("healthy") /\ UNCHANGED installed
    /\ UNCHANGED <<up, base, override, file, cluster, box, history>>

WaitTimesOut ==
    /\ up /\ pc = "wait"
    /\ End("error")
    /\ IF op = "prepare" THEN Beat("failed") ELSE Polls("shutdown")
    /\ UNCHANGED <<up, disk, cluster, box, history>>

\* mutant: the running daemon is left alone
ApplyOverridesNoRestart(options) ==
    /\ Accept /\ Len(past) < MaxApplies + 2
    /\ WriteOverrides(options)
    /\ op' = "apply" /\ arg' = None /\ pc' = "wait" /\ UNCHANGED result
    /\ UNCHANGED <<up, cluster, box, beat, crashes, kept, completed>>

ApplyOverrides(options) ==
    /\ Accept /\ Len(past) < MaxApplies + 2
    /\ WriteOverrides(options)
    /\ op' = "apply" /\ arg' = None /\ pc' = "restart" /\ UNCHANGED result
    /\ UNCHANGED <<up, cluster, box, beat, crashes, kept, completed>>

Restart ==
    /\ up /\ pc = "restart"
    /\ \/ box.state # "absent" /\ box' = Started(box) /\ Goto("wait") /\ NoBeat
       \/ Raise /\ UNCHANGED box
       \/ box.state # "absent" /\ Raise /\ box' = [box EXCEPT !.state = "down"]
    /\ UNCHANGED <<up, disk, cluster, history>>

\* add_config_servers changes the metadata in memory, then writes it.
AddConfigServers(hosts) ==
    /\ Accept
    /\ op' = "add_config" /\ arg' = None
    /\ \/ /\ cluster.type = "query_router" /\ hosts # NoHosts
          /\ cluster' = [cluster EXCEPT !.hosts = hosts]
          /\ \/ file' = cluster' /\ pc' = "stop" /\ UNCHANGED result
             \/ pc' = "idle" /\ result' = "error" /\ UNCHANGED file
       \/ /\ cluster.type # "query_router" \/ hosts = NoHosts
          /\ pc' = "idle" /\ result' = "error" /\ UNCHANGED <<cluster, file>>
    /\ UNCHANGED <<up, base, override, installed, box, beat, history>>

\* _replace_container: errors of the stop and of the removal are swallowed.
StopContainer ==
    /\ up /\ pc = "stop"
    /\ \/ box.state # "absent" /\ box' = [box EXCEPT !.state = "down"]
       \/ UNCHANGED box
    /\ Goto("remove")
    /\ UNCHANGED <<up, disk, cluster, beat, history>>

\* mutant: the container is stopped and started again
RemoveContainerSkipped ==
    /\ up /\ pc = "remove"
    /\ UNCHANGED box
    /\ pc' = "restart" /\ UNCHANGED <<op, arg, result>>
    /\ UNCHANGED <<up, disk, cluster, beat, history>>

RemoveContainer ==
    /\ up /\ pc = "remove"
    /\ \/ box' = Absent
       \/ UNCHANGED box
    /\ Goto("start")
    /\ UNCHANGED <<up, disk, cluster, beat, history>>

\* cluster_complete: the container must be healthy; set_ready writes the
\* prepare marker ...
ClusterComplete ==
    /\ Accept /\ op # "complete"
    /\ op' = "complete" /\ arg' = None
    /\ \/ /\ Healthy
          /\ installed' = TRUE /\ completed' = TRUE
          /\ pc' = "publish" /\ UNCHANGED result
       \/ pc' = "idle" /\ result' = "error" /\ UNCHANGED <<installed, completed>>
    /\ UNCHANGED <<up, base, override, file, cluster, box, beat, crashes, kept, past>>

\* ... and set_status publishes what was read before.
PublishStatus ==
    /\ up /\ pc = "publish"
    /\ End("ok") /\ Beat("healthy")
    /\ UNCHANGED <<up, disk, cluster, box, history>>

-----------------------------------------------------------------------------
(* The periodic task, the clock, the container and crashes of the agent.     *)

Actual == IF Healthy THEN "healthy" ELSE "shutdown"

\* mutant: only Trove's own update_status
UpdateStatusInstalledOnly ==
    /\ up /\ due' = 0
    /\ IF installed THEN status' = Actual /\ seen' = Actual /\ age' = 0
                    ELSE UNCHANGED <<status, seen, age>>
    /\ UNCHANGED <<call, up, disk, cluster, box, history>>

\* mutant: the transitional state is renewed with the real status
UpdateStatusActual ==
    /\ up /\ due' = 0
    /\ IF installed \/ status = "ready"
       THEN status' = Actual /\ seen' = Actual /\ age' = 0
       ELSE UNCHANGED <<status, seen, age>>
    /\ UNCHANGED <<call, up, disk, cluster, box, history>>

\* update_status: the marker decides between the real status and renewing the
\* transitional one.
UpdateStatus ==
    /\ up /\ due' = 0
    /\ CASE installed -> status' = Actual /\ seen' = Actual /\ age' = 0
         [] ~installed /\ cluster.type # None /\ status = "ready" ->
              status' = "ready" /\ seen' = "ready" /\ age' = 0
         [] OTHER -> UNCHANGED <<status, seen, age>>
    /\ UNCHANGED <<call, up, disk, cluster, box, history>>

\* A running agent runs its periodic task every Spacing ticks.
Tick ==
    /\ seen # None /\ age <= Expiry
    /\ up => due < Spacing
    /\ age' = age + 1 /\ due' = IF up THEN due + 1 ELSE due
    /\ UNCHANGED <<call, up, disk, cluster, box, status, seen, history>>

\* The call is lost with the memory of the agent.
AgentCrash ==
    /\ up /\ crashes < MaxCrashes
    /\ up' = FALSE /\ crashes' = crashes + 1
    /\ pc' = "idle" /\ result' = IF pc = "idle" THEN result ELSE "lost"
    /\ status' = None /\ cluster' = Standalone
    /\ UNCHANGED <<op, arg, disk, box, seen, age, due, kept, completed, past>>

\* MongoDbApp.__init__ reads the metadata back.
AgentRestart ==
    /\ ~up /\ up' = TRUE /\ due' = 0
    /\ cluster' = file
    /\ UNCHANGED <<call, disk, box, status, seen, age, history>>

\* Docker's restart policy brings a failed container back.
ContainerFails ==
    /\ box.state = "up" /\ box' = [box EXCEPT !.state = "down"]
    /\ UNCHANGED <<call, up, disk, cluster, beat, history>>

ContainerRecovers ==
    /\ box.state = "down" /\ box' = Started(box)
    /\ UNCHANGED <<call, up, disk, cluster, beat, history>>

-----------------------------------------------------------------------------
CallStep ==
    \/ ResetConfiguration \/ ConfigureCluster \/ UpdateOverrides \/ StartContainer
    \/ WaitHealthy \/ WaitTimesOut \/ Restart \/ StopContainer \/ RemoveContainer
    \/ PublishStatus

Next ==
    \/ CallStep
    \/ Prepare
    \/ \E options \in OptionLists : ApplyOverrides(options)
    \/ \E hosts \in HostSets \cup {NoHosts} : AddConfigServers(hosts)
    \/ ClusterComplete
    \/ PollStatus \/ UpdateStatus \/ Tick
    \/ AgentCrash \/ AgentRestart
    \/ ContainerFails \/ ContainerRecovers

\* Every step of a call ends: Docker answers or raises, a wait has a deadline.
Fairness == WF_vars(CallStep) /\ WF_vars(AgentRestart) /\ WF_vars(UpdateStatus)
Spec == Init /\ [][Next]_vars /\ Fairness

-----------------------------------------------------------------------------
(* Properties.                                                               *)

Steps == {"idle", "reset", "cluster", "overrides", "start", "wait", "restart", "stop", "remove",
          "publish"}
Statuses == {None, "building", "ready", "healthy", "shutdown", "failed"}

\* The types of the guest's state; only a clustered guest is a router, only a
\* router has config servers, and no call is running in a dead agent.
TypeOK ==
    /\ pc \in Steps /\ op \in {None, "prepare", "apply", "add_config", "complete"}
    /\ result \in {None, "ok", "error", "lost"}
    /\ up \in BOOLEAN /\ installed \in BOOLEAN /\ kept \in BOOLEAN /\ completed \in BOOLEAN
    /\ cluster \in Cluster /\ file \in Cluster
    /\ cluster.type # "query_router" => cluster.hosts = NoHosts
    /\ box.state \in {"absent", "up", "down"} /\ box.role \in {None, "mongod", "mongos"}
    /\ box.hosts \in HostSets \cup {NoHosts} /\ (box.role = "mongos" => box.hosts # NoHosts)
    /\ status \in Statuses /\ seen \in Statuses
    /\ age \in 0 .. Expiry + 1 /\ due \in 0 .. Spacing
    /\ crashes \in 0 .. MaxCrashes /\ Len(past) <= MaxApplies + 2
    /\ ~up => pc = "idle"

\* What a user gives is in the configuration file, the latest call winning and
\* the guest's own settings giving way (MongoConfigurationManager: "configuration
\* groups and the guest's base configuration compose correctly").
UserOptionsWin ==
    \A i \in DOMAIN past : \A p \in Reached(past[i]) :
        (/\ ~Obsolete(p, Given(past[i], p))
         /\ \A j \in DOMAIN past : j > i => \A q \in Reached(past[j]) : ~Related(p, q))
        => p \in DOMAIN File /\ File[p] = Given(past[i], p)

\* Neither the file nor a started mongod has an option that MongoDB 8 rejects,
\* whatever mixture of base, overrides and dotted keys they came from; a cache
\* size that no user gave is one that mongod accepts.
DaemonAccepts ==
    /\ \A p \in DOMAIN File : ~Obsolete(p, File[p])
    /\ \A p \in DOMAIN box.conf : ~Obsolete(p, box.conf[p])
    /\ \A q \in DOMAIN File \cap {CachePath} :
        (\A i \in DOMAIN past : Reaches(past[i], q) = {}) => File[q] >= MinCache

\* A prepare or apply_overrides that returned left mongod running with the
\* complete configuration, through failures, restarts and agent crashes.
AppliedIsActive ==
    (pc = "idle" /\ result = "ok" /\ op \in {"prepare", "apply"} /\ box.role = "mongod")
    => box.conf = File

\* A successful add_config_servers left mongos on the addresses on disk, and a
\* restarted agent still knows them; the exception is a container that Docker
\* failed to remove.  The network mode is the one of the metadata on disk.
RouterConverted ==
    /\ (pc = "idle" /\ result = "ok" /\ op = "add_config" /\ ~kept) =>
          /\ box.role = "mongos" /\ box.hosts = file.hosts
          /\ up => cluster = file
    /\ box.state # "absent" => box.host = (file.type # None)

\* Trove sees a clustered guest as a healthy database only after
\* cluster_complete, across crashes (update_status: "without advertising the
\* database as fully installed before cluster_complete runs").
NotAdvertisedEarly ==
    (file.type # None /\ seen \in {"healthy", "shutdown"}) => completed

\* While the topology is assembled Trove never takes a prepared guest whose
\* agent has stayed up for dead, however long that takes; until a later call
\* waits for the container, whose polls replace the status that is renewed.
HeartbeatKept == (seen = "ready" /\ crashes = 0 /\ op = "prepare") => age <= Expiry

\* Every call to the guest ends, in success or an error.
CallsEnd == (pc # "idle") ~> (pc = "idle")

=============================================================================
