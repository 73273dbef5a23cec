-------------------------- MODULE MongoGuest_proofs --------------------------
(* Proofs about MongoGuest, for every list of options, flavor, instance type *)
(* and set of config servers, every timing with Spacing <= Expiry and any    *)
(* number of configuration changes and agent crashes.                        *)
EXTENDS MongoGuest, MongoConfig_proofs

-----------------------------------------------------------------------------
(* The inductive invariants.                                                 *)

\* The container is a record; its configuration may be any tree.
Box(conf) == [state: {"absent", "up", "down"}, role: {None, "mongod", "mongos"},
              hosts: HostSets \cup {NoHosts}, conf: {conf}, host: BOOLEAN]
BoxShape == box \in Box(box.conf) /\ (box.role = "mongos" => box.hosts # NoHosts)

PrepareArg == [contents: OptionLists, memory: Memories, overrides: OptionLists,
               type: Types \cup {None}]

\* Which call is at which step, and with which argument.
CallInv ==
    /\ pc \in {"reset", "cluster", "overrides"} => op = "prepare" /\ arg \in PrepareArg
    /\ pc = "start" => op \in {"prepare", "add_config"}
    /\ pc = "wait" => op \in {"prepare", "apply", "add_config"}
    /\ pc = "restart" => op = "apply"
    /\ pc \in {"stop", "remove"} => op = "add_config"
    /\ pc = "publish" => op = "complete"

\* A guest that has not got its metadata yet: nothing is written, nothing
\* runs, and Trove has seen no success.
Fresh == op = None \/ pc \in {"reset", "cluster"}
FreshInv ==
    /\ op = None \/ pc = "reset" => past = <<>> /\ override = Empty
    /\ pc \in {"cluster", "overrides"} => Len(past) = 1
    /\ Fresh => /\ cluster = Standalone /\ file = Standalone
                /\ box.state = "absent" /\ ~installed
                /\ seen \notin {"ready", "healthy", "shutdown"}

\* The metadata in memory is the one on disk, except for the addresses after
\* a write that failed.
MetadataInv ==
    /\ file.type # "query_router" => file.hosts = NoHosts
    /\ up => cluster.type = file.type
    /\ ~up => cluster = Standalone

TypeInv == /\ TypeOK /\ BoxShape /\ past \in Seq(OptionLists)
           /\ CallInv /\ FreshInv /\ MetadataInv

Returned == pc = "wait" \/ (pc = "idle" /\ result = "ok")

\* mongod has the file from the wait on.
ActiveInv == (Returned /\ op \in {"prepare", "apply"} /\ box.role = "mongod") => box.conf = File

\* A conversion: the addresses are on disk before the container is touched.
RouterInv ==
    /\ (op = "add_config" /\ (pc # "idle" \/ result = "ok")) =>
          /\ file.type = "query_router" /\ file.hosts # NoHosts
          /\ up => cluster = file
    /\ (op = "add_config" /\ Returned /\ ~kept) => box.role = "mongos" /\ box.hosts = file.hosts
    /\ box.state # "absent" => box.host = (file.type # None)

InstalledInv ==
    file.type # None /\ (installed \/ pc = "publish" \/ seen \in {"healthy", "shutdown"})
        => completed

BeatInv ==
    /\ crashes = 0 => up
    /\ op \in {None, "prepare"} /\ pc # "idle" => status # "ready" /\ seen # "ready"
    /\ seen = "ready" /\ crashes = 0 /\ op = "prepare"
          => status = "ready" /\ cluster.type # None /\ age <= due

\* The layers of the configuration, each without rejected options; only a
\* user's list brings a path into the overrides.
Layers ==
    /\ \A p \in DOMAIN base : ~Obsolete(p, base[p])
    /\ \A p \in DOMAIN override : ~Obsolete(p, override[p])
    /\ \A p \in DOMAIN override : \E i \in DOMAIN past : p \in Reached(past[i])
    /\ CachePath \in DOMAIN base =>
          \/ \E i \in DOMAIN past : CachePath \in Reached(past[i])
          \/ base[CachePath] >= MinCache

LayerInv == Layers /\ \A p \in DOMAIN box.conf : ~Obsolete(p, box.conf[p])

-----------------------------------------------------------------------------
(* The values the container takes.                                           *)

LEMMA DownBox ==
    ASSUME BoxShape, NEW b, b = [box EXCEPT !.state = "down"]
    PROVE  /\ b \in Box(b.conf) /\ b.state = "down"
           /\ b.role = box.role /\ b.hosts = box.hosts /\ b.conf = box.conf /\ b.host = box.host
  BY DEF BoxShape, Box

LEMMA StartedBox ==
    ASSUME BoxShape, NEW b, b = Started(box)
    PROVE  /\ b \in Box(b.conf) /\ b.state = "up"
           /\ b.role = box.role /\ b.hosts = box.hosts /\ b.host = box.host
           /\ b.conf = IF box.role = "mongod" THEN File ELSE Empty
<1>1. PICK f : f = IF box.role = "mongod" THEN File ELSE Empty
  OBVIOUS
<1>2. b = [box EXCEPT !.state = "up", !.conf = f]
  BY <1>1 DEF Started
<1>3. QED BY <1>1, <1>2 DEF BoxShape, Box

LEMMA NewBox ==
    ASSUME cluster \in Cluster, NEW b, b = NewContainer
    PROVE  /\ b \in Box(b.conf) /\ b.state = "up" /\ b.hosts = cluster.hosts
           /\ b.role = (IF IsRouter THEN "mongos" ELSE "mongod")
           /\ b.conf = (IF IsRouter THEN Empty ELSE File)
           /\ b.host = (cluster.type # None)
<1>1. PICK f : f = IF IsRouter THEN Empty ELSE File
  OBVIOUS
<1>2. PICK r : r = Command
  OBVIOUS
<1>3. b = [state |-> "up", role |-> r, hosts |-> cluster.hosts, conf |-> f,
           host |-> cluster.type # None]
  BY <1>1, <1>2 DEF NewContainer
<1>4. r \in {"mongod", "mongos"}
  BY <1>2 DEF Command
<1>5. QED BY <1>1, <1>2, <1>3, <1>4 DEF Box, Cluster, Command

LEMMA AbsentBox ==
    ASSUME NEW b, b = Absent
    PROVE  b \in Box(b.conf) /\ b.state = "absent" /\ b.role = None /\ b.conf = Empty
  BY DEF Absent, Box, None

\* Every step leaves the container alone, stops it, starts it, creates it or
\* removes it.
Stops == /\ box.state # "absent" /\ box'.state = "down"
         /\ box'.role = box.role /\ box'.hosts = box.hosts /\ box'.conf = box.conf
         /\ box'.host = box.host
Starts == /\ box.state # "absent" /\ box'.state = "up"
          /\ box'.role = box.role /\ box'.hosts = box.hosts /\ box'.host = box.host
          /\ box'.conf = IF box.role = "mongod" THEN File ELSE Empty
Creates == /\ box.state = "absent" /\ box'.state = "up" /\ box'.hosts = cluster.hosts
           /\ box'.role = (IF IsRouter THEN "mongos" ELSE "mongod")
           /\ box'.conf = (IF IsRouter THEN Empty ELSE File)
           /\ box'.host = (cluster.type # None)
Removes == box'.state = "absent" /\ box'.role = None /\ box'.conf = Empty

LEMMA BoxStarts ==
    ASSUME TypeInv, up, pc = "start", box' = IF box.state = "absent" THEN NewContainer ELSE Started(box)
    PROVE  BoxShape' /\ (Starts \/ Creates)
<1>0. BoxShape /\ cluster \in Cluster
  BY DEF TypeInv, TypeOK
<1>1. CASE box.state = "absent"
  <2>1. Creates /\ box' \in Box(box'.conf)
    BY <1>0, <1>1, NewBox DEF Creates
  <2>2. QED BY <2>1 DEF Creates, BoxShape, IsRouter
<1>2. CASE box.state # "absent"
  <2>1. Starts /\ box' \in Box(box'.conf)
    BY <1>0, <1>2, StartedBox DEF Starts
  <2>2. QED BY <1>0, <2>1 DEF Starts, BoxShape
<1>3. QED BY <1>1, <1>2

LEMMA BoxRestarts ==
    ASSUME BoxShape, box.state # "absent", box' = Started(box)
    PROVE  BoxShape' /\ Starts
<1>1. Starts /\ box' \in Box(box'.conf)
  BY StartedBox DEF Starts
<1>2. QED BY <1>1 DEF Starts, BoxShape

LEMMA BoxStops ==
    ASSUME BoxShape, box.state # "absent", box' = [box EXCEPT !.state = "down"]
    PROVE  BoxShape' /\ Stops
<1>1. Stops /\ box' \in Box(box'.conf)
  BY DownBox DEF Stops
<1>2. QED BY <1>1 DEF Stops, BoxShape

LEMMA BoxRemoved ==
    ASSUME box' = Absent
    PROVE  BoxShape' /\ Removes
<1>1. Removes /\ box' \in Box(box'.conf)
  BY AbsentBox DEF Removes
<1>2. QED BY <1>1 DEF Removes, BoxShape, None

LEMMA PastGrows ==
    ASSUME past \in Seq(OptionLists), NEW o \in OptionLists, past' = Append(past, o)
    PROVE  past' \in Seq(OptionLists) /\ Len(past') = Len(past) + 1 /\ Len(past) \in Nat
  OBVIOUS

-----------------------------------------------------------------------------
(* Types and the flow of calls.                                              *)

\* TypeOK in two parts.
Flags == up \in BOOLEAN /\ installed \in BOOLEAN /\ kept \in BOOLEAN /\ completed \in BOOLEAN
Ranges ==
    /\ pc \in Steps /\ op \in {None, "prepare", "apply", "add_config", "complete"}
    /\ result \in {None, "ok", "error", "lost"}
    /\ cluster \in Cluster /\ file \in Cluster
    /\ cluster.type # "query_router" => cluster.hosts = NoHosts
    /\ box.state \in {"absent", "up", "down"} /\ box.role \in {None, "mongod", "mongos"}
    /\ box.hosts \in HostSets \cup {NoHosts} /\ (box.role = "mongos" => box.hosts # NoHosts)
    /\ status \in Statuses /\ seen \in Statuses
    /\ age \in 0 .. Expiry + 1 /\ due \in 0 .. Spacing
    /\ crashes \in 0 .. MaxCrashes /\ Len(past) <= MaxApplies + 2
    /\ ~up => pc = "idle"

LEMMA TypeInit == Init => TypeInv
<1> SUFFICES ASSUME Init PROVE TypeInv
  OBVIOUS
<1>1. BoxShape /\ box.state = "absent" /\ box.role = None /\ box.hosts = NoHosts
  BY DEF Init, BoxShape, Absent, Box, None
<1>2. TypeOK
  <2>1. Standalone \in Cluster /\ Standalone.hosts = NoHosts
    BY DEF Standalone, Cluster
  <2>2. Len(past) = 0
    BY DEF Init
  <2>3. Flags
    BY DEF Init, Flags
  <2>4. Ranges
    BY <1>1, <2>1, <2>2, GuestBounds DEF Init, Ranges, Steps, Statuses, None
  <2>5. QED BY <2>3, <2>4 DEF TypeOK, Flags, Ranges
<1>3. past \in Seq(OptionLists)
  BY DEF Init
<1>4. QED BY <1>1, <1>2, <1>3 DEF Init, TypeInv, CallInv, FreshInv, MetadataInv, Fresh, Standalone, None

LEMMA TypeStep == TypeInv /\ [Next]_vars => TypeInv'
<1> SUFFICES ASSUME TypeInv, [Next]_vars PROVE TypeInv'
  OBVIOUS
<1>0. BoxShape /\ past \in Seq(OptionLists) /\ Len(past) \in Nat
  BY DEF TypeInv
<1> USE DEF TypeInv, TypeOK, Steps, Statuses, CallInv, Fresh, FreshInv, MetadataInv, None
<1>1. CASE ResetConfiguration
  <2>1. past' \in Seq(OptionLists) /\ Len(past') = 1
    BY <1>0, <1>1, PastGrows DEF ResetConfiguration, PrepareArg
  <2>2. QED BY <1>1, <2>1, GuestBounds DEF ResetConfiguration, Goto, beat, BoxShape
<1>2. CASE ConfigureCluster
  <2>1. cluster' \in Cluster /\ cluster'.hosts = NoHosts /\ file' = cluster'
    BY <1>2 DEF ConfigureCluster, PrepareArg, Cluster
  <2>2. QED BY <1>2, <2>1 DEF ConfigureCluster, Goto, beat, history, BoxShape
<1>3. CASE UpdateOverrides
  <2>1. past' \in Seq(OptionLists) /\ Len(past') = 2
    <3>1. past' = Append(past, arg.overrides) /\ Len(past) = 1 /\ arg.overrides \in OptionLists
      BY <1>3 DEF UpdateOverrides, WriteOverrides, PrepareArg
    <3>2. QED BY <1>0, <3>1, PastGrows
  <2>2. QED BY <1>3, <2>1, GuestBounds DEF UpdateOverrides, WriteOverrides, Goto, beat, BoxShape
<1>4. CASE StartContainer
  <2>1. CASE /\ box' = (IF box.state = "absent" THEN NewContainer ELSE Started(box))
             /\ kept' = (IF op = "add_config" THEN box.state # "absent" ELSE kept)
             /\ Goto("wait") /\ NoBeat
    <3>1. BoxShape'
      BY <1>4, <2>1, BoxStarts DEF StartContainer
    <3>t1. TypeOK'
      <4>1. Flags'
        BY <1>4, <2>1, <3>1 DEF StartContainer, Goto, NoBeat, beat, disk, Flags
      <4>2. Ranges'
        BY <1>4, <2>1, <3>1 DEF StartContainer, Goto, NoBeat, beat, disk, BoxShape, Box, Ranges
      <4>3. QED BY <4>1, <4>2 DEF Flags, Ranges
    <3>t2. CallInv'
      BY <1>4, <2>1, <3>1 DEF StartContainer, Goto, NoBeat, beat, disk, BoxShape, Box
    <3>t3. FreshInv'
      BY <1>4, <2>1, <3>1 DEF StartContainer, Goto, NoBeat, beat, disk, BoxShape, Box
    <3>t4. MetadataInv'
      BY <1>4, <2>1, <3>1 DEF StartContainer, Goto, NoBeat, beat, disk, BoxShape, Box
    <3>t5. (BoxShape /\ past \in Seq(OptionLists))'
      BY <1>4, <2>1, <3>1 DEF StartContainer, Goto, NoBeat, beat, disk, BoxShape, Box
    <3>t6. QED BY <3>t1, <3>t2, <3>t3, <3>t4, <3>t5
  <2>2. CASE Raise /\ UNCHANGED <<box, kept>>
    BY <1>4, <2>2, GuestBounds DEF StartContainer, Raise, End, Beat, NoBeat, beat, disk, BoxShape
  <2>3. QED BY <1>4, <2>1, <2>2 DEF StartContainer
<1>5. CASE WaitHealthy
  <2>s1. TypeOK'
    <3>1. Flags'
      BY <1>5, GuestBounds DEF WaitHealthy, End, Beat, Polls, history, BoxShape, Flags
    <3>2. Ranges'
      BY <1>5, GuestBounds DEF WaitHealthy, End, Beat, Polls, history, BoxShape, Ranges
    <3>3. QED BY <3>1, <3>2 DEF Flags, Ranges
  <2>s2. CallInv'
    BY <1>5, GuestBounds DEF WaitHealthy, End, Beat, Polls, history, BoxShape
  <2>s3. FreshInv'
    BY <1>5, GuestBounds DEF WaitHealthy, End, Beat, Polls, history, BoxShape
  <2>s4. MetadataInv'
    BY <1>5, GuestBounds DEF WaitHealthy, End, Beat, Polls, history, BoxShape
  <2>s5. (BoxShape /\ past \in Seq(OptionLists))'
    BY <1>5, GuestBounds DEF WaitHealthy, End, Beat, Polls, history, BoxShape
  <2>s6. QED BY <2>s1, <2>s2, <2>s3, <2>s4, <2>s5
<1>6. CASE WaitTimesOut \/ PollStatus \/ PublishStatus
  BY <1>6, GuestBounds DEF WaitTimesOut, PollStatus, PublishStatus, End, Beat, Polls, call, disk,
     history, BoxShape
<1>7. CASE Restart
  <2>1. CASE box.state # "absent" /\ box' = Started(box) /\ Goto("wait") /\ NoBeat
    <3>1. BoxShape'
      BY <1>0, <2>1, BoxRestarts
    <3>2. QED BY <1>7, <2>1, <3>1 DEF Restart, Goto, NoBeat, beat, disk, history, BoxShape, Box
  <2>2. CASE Raise /\ UNCHANGED box
    BY <1>7, <2>2, GuestBounds DEF Restart, Raise, End, Beat, NoBeat, beat, disk, history, BoxShape
  <2>3. CASE box.state # "absent" /\ Raise /\ box' = [box EXCEPT !.state = "down"]
    <3>1. BoxShape'
      BY <1>0, <2>3, BoxStops
    <3>2. QED BY <1>7, <2>3, <3>1, GuestBounds
            DEF Restart, Raise, End, Beat, NoBeat, beat, disk, history, BoxShape, Box
  <2>4. QED BY <1>7, <2>1, <2>2, <2>3 DEF Restart
<1>8. CASE StopContainer
  <2>1. BoxShape'
    BY <1>0, <1>8, BoxStops DEF StopContainer, BoxShape
  <2>2. QED BY <1>8, <2>1 DEF StopContainer, Goto, disk, beat, history, BoxShape, Box
<1>9. CASE RemoveContainer
  <2>1. BoxShape'
    BY <1>0, <1>9, BoxRemoved DEF RemoveContainer, BoxShape
  <2>2. QED BY <1>9, <2>1 DEF RemoveContainer, Goto, disk, beat, history, BoxShape, Box
<1>10. CASE Prepare
  <2>1. arg' \in PrepareArg
    BY <1>10 DEF Prepare, PrepareArg
  <2>2. QED BY <1>10, <2>1, GuestBounds DEF Prepare, Beat, disk, history, BoxShape
<1>11. ASSUME NEW options \in OptionLists, ApplyOverrides(options) PROVE TypeInv'
  <2>1. past' \in Seq(OptionLists) /\ Len(past') <= MaxApplies + 2
    BY <1>0, <1>11, PastGrows, GuestBounds DEF ApplyOverrides, WriteOverrides
  <2>2. op # None
    BY <1>11 DEF ApplyOverrides, Accept
  <2>s1. TypeOK'
    <3>1. Flags'
      BY <1>11, <2>1, <2>2 DEF ApplyOverrides, WriteOverrides, beat, BoxShape, Flags
    <3>2. Ranges'
      BY <1>11, <2>1, <2>2 DEF ApplyOverrides, Accept, WriteOverrides, beat, BoxShape, Ranges
    <3>3. QED BY <3>1, <3>2 DEF Flags, Ranges
  <2>s2. CallInv'
    BY <1>11, <2>1, <2>2 DEF ApplyOverrides, WriteOverrides, beat, BoxShape
  <2>s3. FreshInv'
    BY <1>11, <2>1, <2>2 DEF ApplyOverrides, WriteOverrides, beat, BoxShape
  <2>s4. MetadataInv'
    BY <1>11, <2>1, <2>2 DEF ApplyOverrides, WriteOverrides, beat, BoxShape
  <2>s5. (BoxShape /\ past \in Seq(OptionLists))'
    BY <1>11, <2>1, <2>2 DEF ApplyOverrides, WriteOverrides, beat, BoxShape
  <2>s6. QED BY <2>s1, <2>s2, <2>s3, <2>s4, <2>s5
<1>12. ASSUME NEW hosts \in HostSets \cup {NoHosts}, AddConfigServers(hosts) PROVE TypeInv'
  <2>1. op # None
    BY <1>12 DEF AddConfigServers, Accept
  <2>2. CASE cluster.type = "query_router" /\ cluster' = [cluster EXCEPT !.hosts = hosts]
    <3>1. cluster' \in Cluster /\ cluster'.type = cluster.type
      BY <2>2 DEF Cluster
    <3>t1. TypeOK'
      BY <1>12, <2>1, <2>2, <3>1 DEF AddConfigServers, Accept, beat, history, BoxShape
    <3>t2. CallInv'
      BY <1>12, <2>1, <2>2, <3>1 DEF AddConfigServers, Accept, beat, history, BoxShape
    <3>t3. FreshInv'
      BY <1>12, <2>1, <2>2, <3>1 DEF AddConfigServers, Accept, beat, history, BoxShape
    <3>t4. MetadataInv'
      BY <1>12, <2>1, <2>2, <3>1 DEF AddConfigServers, Accept, beat, history, BoxShape
    <3>t5. (BoxShape /\ past \in Seq(OptionLists))'
      BY <1>12, <2>1, <2>2, <3>1 DEF AddConfigServers, Accept, beat, history, BoxShape
    <3>t6. QED BY <3>t1, <3>t2, <3>t3, <3>t4, <3>t5
  <2>3. CASE UNCHANGED <<cluster, file>> /\ pc' = "idle" /\ result' = "error"
    BY <1>12, <2>1, <2>3 DEF AddConfigServers, Accept, beat, history, BoxShape
  <2>4. QED BY <1>12, <2>2, <2>3 DEF AddConfigServers
<1>13. CASE ClusterComplete
  <2>1. op # None
    BY <1>13 DEF ClusterComplete, Accept
  <2>s1. TypeOK'
    <3>1. Flags'
      BY <1>13, <2>1, GuestBounds DEF ClusterComplete, beat, BoxShape, Flags
    <3>2. Ranges'
      BY <1>13, <2>1, GuestBounds DEF ClusterComplete, Accept, beat, BoxShape, Ranges
    <3>3. QED BY <3>1, <3>2 DEF Flags, Ranges
  <2>s2. CallInv'
    BY <1>13, <2>1, GuestBounds DEF ClusterComplete, beat, BoxShape
  <2>s3. FreshInv'
    BY <1>13, <2>1, GuestBounds DEF ClusterComplete, beat, BoxShape
  <2>s4. MetadataInv'
    BY <1>13, <2>1, GuestBounds DEF ClusterComplete, beat, BoxShape
  <2>s5. (BoxShape /\ past \in Seq(OptionLists))'
    BY <1>13, <2>1, GuestBounds DEF ClusterComplete, beat, BoxShape
  <2>s6. QED BY <2>s1, <2>s2, <2>s3, <2>s4, <2>s5
<1>14. CASE UpdateStatus
  BY <1>14, GuestBounds DEF UpdateStatus, Actual, call, disk, history, BoxShape, Standalone
<1>15. CASE Tick
  BY <1>15, GuestBounds DEF Tick, call, disk, history, BoxShape
<1>16. CASE AgentCrash
  <2>1. Standalone \in Cluster /\ Standalone.type = None /\ Standalone.hosts = NoHosts
    BY DEF Standalone, Cluster
  <2>s1. TypeOK'
    <3>1. Flags'
      BY <1>16, <2>1, GuestBounds DEF AgentCrash, disk, BoxShape, Flags
    <3>2. Ranges'
      BY <1>16, <2>1, GuestBounds DEF AgentCrash, disk, BoxShape, Ranges
    <3>3. QED BY <3>1, <3>2 DEF Flags, Ranges
  <2>s2. CallInv'
    BY <1>16, <2>1, GuestBounds DEF AgentCrash, disk, BoxShape
  <2>s3. FreshInv'
    BY <1>16, <2>1, GuestBounds DEF AgentCrash, disk, BoxShape
  <2>s4. MetadataInv'
    BY <1>16, <2>1, GuestBounds DEF AgentCrash, disk, BoxShape
  <2>s5. (BoxShape /\ past \in Seq(OptionLists))'
    BY <1>16, <2>1, GuestBounds DEF AgentCrash, disk, BoxShape
  <2>s6. QED BY <2>s1, <2>s2, <2>s3, <2>s4, <2>s5
<1>17. CASE AgentRestart
  BY <1>17, GuestBounds DEF AgentRestart, call, disk, history, BoxShape
<1>18. CASE ContainerFails
  <2>1. BoxShape'
    BY <1>0, <1>18, BoxStops DEF ContainerFails
  <2>2. QED BY <1>18, <2>1 DEF ContainerFails, call, disk, beat, history, BoxShape, Box
<1>19. CASE ContainerRecovers
  <2>1. BoxShape'
    BY <1>0, <1>19, BoxRestarts DEF ContainerRecovers
  <2>2. QED BY <1>19, <2>1 DEF ContainerRecovers, call, disk, beat, history, BoxShape, Box
<1>20. CASE UNCHANGED vars
  BY <1>20 DEF vars, call, disk, beat, history, BoxShape
<1>21. QED
  BY <1>1, <1>2, <1>3, <1>4, <1>5, <1>6, <1>7, <1>8, <1>9, <1>10, <1>11, <1>12, <1>13, <1>14,
     <1>15, <1>16, <1>17, <1>18, <1>19, <1>20 DEF Next, CallStep

\* The guest's state has its types in every reachable state, no call runs in a
\* dead agent and only a router has config servers.
THEOREM GuestTypes == Spec => []TypeOK
<1>1. Spec => []TypeInv
  BY TypeInit, TypeStep, PTL DEF Spec
<1>2. TypeInv => TypeOK
  BY DEF TypeInv
<1>3. QED BY <1>1, <1>2, PTL

\* What a step does to the container, to the files and to the call.
LEMMA BoxStep ==
    ASSUME TypeInv, [Next]_vars
    PROVE  \/ UNCHANGED box
           \/ Stops
           \/ Starts /\ UNCHANGED <<base, override, file, cluster>>
           \/ Creates /\ UNCHANGED <<base, override, file, cluster>> /\ up
           \/ Removes /\ pc = "remove" /\ pc' = "start"
<1>0. BoxShape
  BY DEF TypeInv
<1>1. CASE StartContainer
  BY <1>1, BoxStarts DEF StartContainer, disk
<1>2. CASE Restart
  BY <1>0, <1>2, BoxRestarts, BoxStops DEF Restart, disk
<1>3. CASE StopContainer
  BY <1>0, <1>3, BoxStops DEF StopContainer
<1>4. CASE RemoveContainer
  BY <1>4, BoxRemoved DEF RemoveContainer, Goto
<1>5. CASE ContainerFails
  BY <1>0, <1>5, BoxStops DEF ContainerFails
<1>6. CASE ContainerRecovers
  BY <1>0, <1>6, BoxRestarts DEF ContainerRecovers, disk
<1>7. CASE \/ ResetConfiguration \/ ConfigureCluster \/ UpdateOverrides \/ WaitHealthy
           \/ WaitTimesOut \/ Prepare \/ ClusterComplete \/ UpdateStatus \/ Tick
           \/ AgentCrash \/ AgentRestart \/ PollStatus \/ PublishStatus
  BY <1>7 DEF ResetConfiguration, ConfigureCluster, UpdateOverrides, WaitHealthy, WaitTimesOut,
     Prepare, ClusterComplete, UpdateStatus, Tick, AgentCrash, AgentRestart, PollStatus, PublishStatus
<1>8. ASSUME NEW options \in OptionLists, ApplyOverrides(options) PROVE UNCHANGED box
  BY <1>8 DEF ApplyOverrides
<1>9. ASSUME NEW hosts \in HostSets \cup {NoHosts}, AddConfigServers(hosts) PROVE UNCHANGED box
  BY <1>9 DEF AddConfigServers
<1>10. CASE UNCHANGED vars
  BY <1>10 DEF vars
<1>11. QED BY <1>1, <1>2, <1>3, <1>4, <1>5, <1>6, <1>7, <1>8, <1>9, <1>10 DEF Next, CallStep

\* The files change in three steps only, none of which ends a call.
LEMMA FileStep ==
    ASSUME [Next]_vars
    PROVE  \/ UNCHANGED <<base, override, past>>
           \/ ResetConfiguration
           \/ UpdateOverrides
           \/ \E options \in OptionLists : ApplyOverrides(options)
<1>1. ASSUME NEW hosts \in HostSets \cup {NoHosts}, AddConfigServers(hosts)
      PROVE  UNCHANGED <<base, override, past>>
  BY <1>1 DEF AddConfigServers, history
<1>2. QED
  BY <1>1 DEF Next, CallStep, ConfigureCluster, StartContainer, WaitHealthy, WaitTimesOut, Restart,
     StopContainer, RemoveContainer, Prepare, ClusterComplete, UpdateStatus, Tick, AgentCrash,
     AgentRestart, ContainerFails, ContainerRecovers, PollStatus, PublishStatus, vars, disk, history

-----------------------------------------------------------------------------
(* A call that returned left mongod with the file.                           *)

LEMMA ActiveStep == TypeInv /\ ActiveInv /\ [Next]_vars => ActiveInv'
<1> SUFFICES ASSUME TypeInv, ActiveInv, [Next]_vars,
                    Returned', op' \in {"prepare", "apply"}, box'.role = "mongod"
             PROVE  box'.conf = File'
  BY DEF ActiveInv
<1>1. UNCHANGED <<base, override>> /\ File' = File
  <2>1. ~ResetConfiguration /\ ~UpdateOverrides /\ \A options : ~ApplyOverrides(options)
    BY DEF ResetConfiguration, UpdateOverrides, ApplyOverrides, Goto, Returned
  <2>2. QED BY <2>1, FileStep DEF File
<1>2. CASE Starts \/ Creates
  BY <1>1, <1>2 DEF Starts, Creates
<1>3. CASE box'.role = box.role /\ box'.conf = box.conf
  <2>1. CASE StartContainer
    <3>1. box' = (IF box.state = "absent" THEN NewContainer ELSE Started(box))
      BY <2>1 DEF StartContainer, Raise, End, Returned
    <3>2. Starts \/ Creates
      BY <2>1, <3>1, BoxStarts DEF StartContainer
    <3>3. QED BY <1>2, <3>2
  <2>2. CASE Restart
    <3>1. box.state # "absent" /\ box' = Started(box)
      BY <2>2 DEF Restart, Raise, End, Returned
    <3>2. Starts
      BY <3>1, BoxRestarts DEF TypeInv
    <3>3. QED BY <1>2, <3>2
  <2>3. CASE ~StartContainer /\ ~Restart
    <3>1. Returned /\ op \in {"prepare", "apply"}
      <4>1. ASSUME NEW options \in OptionLists PROVE ~ApplyOverrides(options)
        BY DEF ApplyOverrides, Returned
      <4>2. ASSUME NEW hosts \in HostSets \cup {NoHosts} PROVE ~AddConfigServers(hosts)
        BY DEF AddConfigServers
      <4>3. QED
        BY <2>3, <4>1, <4>2 DEF Next, CallStep, ResetConfiguration, ConfigureCluster, UpdateOverrides,
           WaitHealthy, WaitTimesOut, StopContainer, RemoveContainer, Prepare, ClusterComplete,
           UpdateStatus, Tick, AgentCrash, AgentRestart, ContainerFails, ContainerRecovers,
           PollStatus, PublishStatus, vars, call, Raise, Goto, End, Returned, CallInv, TypeInv
    <3>2. QED BY <1>1, <1>3, <3>1 DEF ActiveInv
  <2>4. QED BY <2>1, <2>2, <2>3
<1>4. CASE Removes
  BY <1>4 DEF Removes, None
<1>5. QED BY <1>2, <1>3, <1>4, BoxStep DEF Stops

\* AppliedIsActive: a prepare or apply_overrides that returned left mongod
\* running with the complete configuration file, however the container failed
\* and recovered and the agent crashed since.
THEOREM AppliedIsAlwaysActive == Spec => []AppliedIsActive
<1>1. Init => ActiveInv
  BY DEF Init, ActiveInv, Absent, None
<1>2. Spec => [](TypeInv /\ ActiveInv)
  BY <1>1, TypeInit, TypeStep, ActiveStep, PTL DEF Spec
<1>3. ActiveInv => AppliedIsActive
  BY DEF ActiveInv, AppliedIsActive, Returned
<1>4. QED BY <1>2, <1>3, PTL

-----------------------------------------------------------------------------
(* The conversion of a query router.                                         *)

LEMMA RouterStep == TypeInv /\ RouterInv /\ [Next]_vars => RouterInv'
<1> SUFFICES ASSUME TypeInv, RouterInv, [Next]_vars PROVE RouterInv'
  OBVIOUS
<1>0. BoxShape
  BY DEF TypeInv
<1> USE DEF TypeInv, TypeOK, FreshInv, Fresh, MetadataInv, CallInv, RouterInv, Returned, None
<1>1. CASE ResetConfiguration \/ UpdateOverrides \/ ConfigureCluster \/ Prepare
  <2>1. op' = "prepare" /\ UNCHANGED box /\ (file' = file \/ box.state = "absent")
    BY <1>1 DEF ResetConfiguration, UpdateOverrides, WriteOverrides, ConfigureCluster, Prepare, Goto, disk
  <2>2. QED BY <2>1
<1>2. ASSUME NEW options \in OptionLists, ApplyOverrides(options) PROVE RouterInv'
  BY <1>2 DEF ApplyOverrides, WriteOverrides
<1>3. CASE StartContainer
  <2>1. CASE /\ box' = (IF box.state = "absent" THEN NewContainer ELSE Started(box))
             /\ kept' = (IF op = "add_config" THEN box.state # "absent" ELSE kept)
             /\ Goto("wait") /\ NoBeat
    <3>1. Starts \/ Creates
      BY <1>3, <2>1, BoxStarts DEF StartContainer
    <3>2. UNCHANGED <<file, cluster, up, op>> /\ up
      BY <1>3, <2>1 DEF StartContainer, disk, Goto
    <3>3. QED BY <1>3, <2>1, <3>1, <3>2 DEF Starts, Creates, IsRouter, StartContainer, Goto
  <2>2. CASE Raise /\ UNCHANGED <<box, kept>>
    BY <1>3, <2>2 DEF StartContainer, Raise, End, disk
  <2>3. QED BY <1>3, <2>1, <2>2 DEF StartContainer
<1>4. CASE WaitHealthy \/ WaitTimesOut \/ PollStatus \/ PublishStatus
  BY <1>4 DEF WaitHealthy, WaitTimesOut, PollStatus, PublishStatus, End, call, disk, history
<1>5. CASE Restart
  <2>1. op' = "apply" /\ UNCHANGED <<file, cluster>> /\ (box.state = "absent" => box' = box)
    BY <1>5 DEF Restart, Raise, End, Goto, disk
  <2>2. box'.state # "absent" => box'.host = box.host /\ box.state # "absent"
    BY <1>5, <2>1, BoxStep DEF Stops, Starts, Creates, Removes
  <2>3. QED BY <2>1, <2>2
<1>6. ASSUME NEW hosts \in HostSets \cup {NoHosts}, AddConfigServers(hosts) PROVE RouterInv'
  <2>1. CASE /\ cluster.type = "query_router" /\ hosts # NoHosts
             /\ cluster' = [cluster EXCEPT !.hosts = hosts]
    <3>1. cluster'.type = cluster.type /\ cluster'.hosts = hosts
      BY <2>1 DEF Cluster
    <3>2. QED BY <1>6, <2>1, <3>1 DEF AddConfigServers, Accept, history
  <2>2. CASE pc' = "idle" /\ result' = "error" /\ UNCHANGED <<cluster, file>>
    BY <1>6, <2>2 DEF AddConfigServers, history
  <2>3. QED BY <1>6, <2>1, <2>2 DEF AddConfigServers
<1>7. CASE StopContainer
  <2>1. UNCHANGED <<op, file, cluster, up>> /\ pc' = "remove" /\ pc # "idle"
    BY <1>7 DEF StopContainer, Goto, disk
  <2>2. UNCHANGED box \/ Stops
    BY <1>0, <1>7, BoxStops DEF StopContainer
  <2>3. QED BY <2>1, <2>2 DEF Stops
<1>8. CASE RemoveContainer
  <2>1. UNCHANGED <<op, file, cluster, up>> /\ pc' = "start" /\ pc # "idle"
    BY <1>8 DEF RemoveContainer, Goto, disk
  <2>2. UNCHANGED box \/ Removes
    BY <1>8, BoxRemoved DEF RemoveContainer
  <2>3. QED BY <2>1, <2>2 DEF Removes
<1>9. CASE ClusterComplete
  BY <1>9 DEF ClusterComplete
<1>10. CASE UpdateStatus \/ Tick
  BY <1>10 DEF UpdateStatus, Tick, call, disk, history
<1>11. CASE AgentCrash
  BY <1>11 DEF AgentCrash, disk
<1>12. CASE AgentRestart
  BY <1>12 DEF AgentRestart, call, disk, history
<1>13. CASE ContainerFails
  <2>1. Stops
    BY <1>0, <1>13, BoxStops DEF ContainerFails
  <2>2. QED BY <1>13, <2>1 DEF ContainerFails, Stops, call, disk, history
<1>14. CASE ContainerRecovers
  <2>1. Starts
    BY <1>0, <1>14, BoxRestarts DEF ContainerRecovers
  <2>2. QED BY <1>14, <2>1 DEF ContainerRecovers, Starts, call, disk, history
<1>15. CASE UNCHANGED vars
  BY <1>15 DEF vars, call, disk, history
<1>16. QED
  BY <1>1, <1>2, <1>3, <1>4, <1>5, <1>6, <1>7, <1>8, <1>9, <1>10, <1>11, <1>12, <1>13, <1>14, <1>15
     DEF Next, CallStep

\* RouterConverted: a successful add_config_servers left mongos on the
\* addresses that are on disk and in the agent's memory, unless Docker could
\* not remove the old container; every container has the network mode of the
\* metadata on disk.
THEOREM RouterAlwaysConverted == Spec => []RouterConverted
<1>1. Init => RouterInv
  BY DEF Init, RouterInv, Absent, Returned, None
<1>2. Spec => [](TypeInv /\ RouterInv)
  BY <1>1, TypeInit, TypeStep, RouterStep, PTL DEF Spec
<1>3. RouterInv => RouterConverted
  BY DEF RouterInv, RouterConverted, Returned
<1>4. QED BY <1>2, <1>3, PTL

-----------------------------------------------------------------------------
(* What Trove sees.                                                          *)

LEMMA InstalledStep == TypeInv /\ InstalledInv /\ [Next]_vars => InstalledInv'
<1> SUFFICES ASSUME TypeInv, InstalledInv, [Next]_vars PROVE InstalledInv'
  OBVIOUS
<1> USE DEF TypeInv, TypeOK, FreshInv, Fresh, MetadataInv, CallInv, InstalledInv, None
<1>1. CASE ResetConfiguration \/ UpdateOverrides \/ StopContainer \/ RemoveContainer
           \/ Tick \/ AgentCrash \/ AgentRestart \/ ContainerFails \/ ContainerRecovers
  BY <1>1 DEF ResetConfiguration, UpdateOverrides, WriteOverrides, StopContainer, RemoveContainer,
     Tick, AgentCrash, AgentRestart, ContainerFails, ContainerRecovers, Goto, call, disk, beat, history
<1>2. ASSUME NEW options \in OptionLists, ApplyOverrides(options) PROVE InstalledInv'
  BY <1>2 DEF ApplyOverrides, WriteOverrides, beat
<1>3. CASE ConfigureCluster \/ Prepare
  BY <1>3 DEF ConfigureCluster, Prepare, Goto, Beat, disk, beat, history
<1>4. CASE StartContainer \/ Restart \/ WaitTimesOut \/ PollStatus
  BY <1>4 DEF StartContainer, Restart, WaitTimesOut, PollStatus, Raise, Goto, End, Beat, NoBeat, Polls,
     call, disk, beat, history
<1>5. CASE WaitHealthy \/ PublishStatus
  BY <1>5 DEF WaitHealthy, PublishStatus, End, Beat, Polls, disk, history
<1>6. ASSUME NEW hosts \in HostSets \cup {NoHosts}, AddConfigServers(hosts) PROVE InstalledInv'
  <2>1. file' = file \/ file'.type = file.type
    BY <1>6 DEF AddConfigServers, Accept, Cluster
  <2>2. QED BY <1>6, <2>1 DEF AddConfigServers, beat, history
<1>7. CASE ClusterComplete
  BY <1>7 DEF ClusterComplete, beat
<1>8. CASE UpdateStatus
  BY <1>8 DEF UpdateStatus, call, disk, history
<1>9. CASE UNCHANGED vars
  BY <1>9 DEF vars, call, disk, beat, history
<1>10. QED
  BY <1>1, <1>2, <1>3, <1>4, <1>5, <1>6, <1>7, <1>8, <1>9 DEF Next, CallStep

\* NotAdvertisedEarly: Trove sees a clustered guest as a healthy database only
\* after cluster_complete, across crashes of the agent.
THEOREM NeverAdvertisedEarly == Spec => []NotAdvertisedEarly
<1>1. Init => InstalledInv
  BY DEF Init, InstalledInv, Standalone, None
<1>2. Spec => [](TypeInv /\ InstalledInv)
  BY <1>1, TypeInit, TypeStep, InstalledStep, PTL DEF Spec
<1>3. InstalledInv => NotAdvertisedEarly
  BY DEF InstalledInv, NotAdvertisedEarly
<1>4. QED BY <1>2, <1>3, PTL

LEMMA BeatStep == TypeInv /\ BeatInv /\ [Next]_vars => BeatInv'
<1> SUFFICES ASSUME TypeInv, BeatInv, [Next]_vars PROVE BeatInv'
  OBVIOUS
<1>0. crashes \in Nat /\ age \in Nat /\ due \in Nat
  BY GuestBounds DEF TypeInv, TypeOK
<1> USE DEF TypeInv, TypeOK, FreshInv, Fresh, MetadataInv, CallInv, BeatInv, None
<1>1. CASE ResetConfiguration \/ UpdateOverrides \/ StopContainer \/ RemoveContainer
           \/ ContainerFails \/ ContainerRecovers
  BY <1>1 DEF ResetConfiguration, UpdateOverrides, StopContainer, RemoveContainer,
     ContainerFails, ContainerRecovers, Goto, call, beat, history
<1>2. ASSUME NEW options \in OptionLists, ApplyOverrides(options) PROVE BeatInv'
  BY <1>2 DEF ApplyOverrides, beat
<1>3. CASE ConfigureCluster \/ Prepare
  BY <1>3 DEF ConfigureCluster, Prepare, Goto, Beat, beat, history
<1>4. CASE StartContainer \/ Restart
  BY <1>4 DEF StartContainer, Restart, Raise, Goto, End, Beat, NoBeat, beat, history
<1>5. CASE WaitHealthy \/ WaitTimesOut \/ PollStatus \/ PublishStatus
  BY <1>0, <1>5 DEF WaitHealthy, WaitTimesOut, PollStatus, PublishStatus, End, Beat, Polls, call, history
<1>6. ASSUME NEW hosts \in HostSets \cup {NoHosts}, AddConfigServers(hosts) PROVE BeatInv'
  <2>1. cluster'.type = cluster.type
    BY <1>6 DEF AddConfigServers, Cluster
  <2>2. QED BY <1>6, <2>1 DEF AddConfigServers, beat, history
<1>7. CASE ClusterComplete
  BY <1>7 DEF ClusterComplete, beat
<1>8. CASE UpdateStatus
  BY <1>8 DEF UpdateStatus, Actual, call, history
<1>9. CASE Tick
  BY <1>0, <1>9 DEF Tick, call, history
<1>10. CASE AgentCrash
  BY <1>0, <1>10 DEF AgentCrash
<1>11. CASE AgentRestart
  BY <1>11 DEF AgentRestart, call, history
<1>12. CASE UNCHANGED vars
  BY <1>12 DEF vars, call, beat, history
<1>13. QED
  BY <1>1, <1>2, <1>3, <1>4, <1>5, <1>6, <1>7, <1>8, <1>9, <1>10, <1>11, <1>12 DEF Next, CallStep

\* HeartbeatKept: while the topology is assembled Trove never takes a prepared
\* guest whose agent stayed up for dead, for every spacing of the periodic task
\* that is within the expiry, until a later call of the guest polls its status.
THEOREM HeartbeatAlwaysKept == Spec => []HeartbeatKept
<1>1. Init => BeatInv
  BY DEF Init, BeatInv, None
<1>2. Spec => [](TypeInv /\ BeatInv)
  BY <1>1, TypeInit, TypeStep, BeatStep, PTL DEF Spec
<1>3. TypeInv /\ BeatInv => HeartbeatKept
  <2>1. TypeInv => age \in Nat /\ due \in Nat /\ due <= Spacing
    BY GuestBounds DEF TypeInv, TypeOK
  <2>2. QED BY <2>1, GuestBounds DEF BeatInv, HeartbeatKept
<1>4. QED BY <1>2, <1>3, PTL

-----------------------------------------------------------------------------
(* The configuration file.                                                   *)

LEMMA RelatedSelf == ASSUME NEW p \in Path PROVE Related(p, p)
  BY DEF Related, Path

LEMMA ReachedPath ==
    ASSUME NEW options, IsOptionList(options), NEW p \in Reached(options)
    PROVE  p \in Path
<1>1. PICK k \in DOMAIN options : p \in Leaves(options[k])
  BY DEF Reached
<1>2. options[k].key \in Path /\ DOMAIN options[k].value \subseteq Path
  BY DEF IsOptionList
<1>3. PICK leaf \in Path : p = options[k].key \o leaf
  BY <1>1, <1>2 DEF Leaves
<1>4. QED BY <1>2, <1>3 DEF Path

\* One more layer of overrides, none of which is related to p, leaves the
\* value of p in the file.
LEMMA LayersKeep ==
    ASSUME NEW b, NEW o, NEW n, NEW p \in Path, p \in DOMAIN Merge(b, o),
           \A q \in DOMAIN n : ~Related(p, q)
    PROVE  /\ p \in DOMAIN Merge(b, Merge(o, n))
           /\ Merge(b, Merge(o, n))[p] = Merge(b, o)[p]
<1>1. PICK m : m = Merge(o, n)
  OBVIOUS
<1>2. p \notin DOMAIN n
  BY RelatedSelf
<1>3. \A q \in DOMAIN n : ~Related(q, p)
  BY RelatedSymmetric
<1>4. CASE p \in DOMAIN o
  <2>1. p \in DOMAIN m /\ m[p] = o[p]
    BY <1>1, <1>2, <1>3, <1>4, MergeGives
  <2>2. p \in DOMAIN Merge(b, m) /\ Merge(b, m)[p] = m[p]
    BY <2>1, MergeGives
  <2>3. Merge(b, o)[p] = o[p]
    BY <1>4, MergeGives
  <2>4. QED BY <1>1, <2>1, <2>2, <2>3
<1>5. CASE p \notin DOMAIN o
  <2>1. p \in DOMAIN b /\ (\A q \in DOMAIN o : ~Related(q, p)) /\ Merge(b, o)[p] = b[p]
    BY <1>5, MergeGives
  <2>2. \A q \in DOMAIN m : q \in DOMAIN n \/ q \in DOMAIN o
    BY <1>1, MergeGives
  <2>3. p \notin DOMAIN m /\ \A q \in DOMAIN m : ~Related(q, p)
    BY <1>2, <1>3, <1>5, <2>1, <2>2
  <2>4. p \in DOMAIN Merge(b, m) /\ Merge(b, m)[p] = b[p]
    BY <2>1, <2>3, MergeGives
  <2>5. QED BY <1>1, <2>1, <2>4
<1>6. QED BY <1>4, <1>5

\* The options a call writes come last in the past.
LEMMA PastWith ==
    ASSUME past \in Seq(OptionLists), NEW o \in OptionLists, past' = Append(past, o)
    PROVE  LET n == Len(past) + 1 IN
           /\ DOMAIN past' = DOMAIN past \cup {n} /\ n \notin DOMAIN past /\ past'[n] = o
           /\ \A i \in DOMAIN past : past'[i] = past[i] /\ past[i] \in OptionLists /\ n > i /\ ~(i > n)
           /\ ~(n > n)
<1>1. DOMAIN past = 1 .. Len(past) /\ Len(past) \in Nat
  OBVIOUS
<1>2. DOMAIN past' = 1 .. Len(past) + 1
  BY <1>1
<1>3. past'[Len(past) + 1] = o /\ \A i \in DOMAIN past : past'[i] = past[i] /\ past[i] \in OptionLists
  BY <1>1
<1>4. QED BY <1>1, <1>2, <1>3

\* apply_user_override: the overrides after it.
LEMMA WrittenGives ==
    ASSUME NEW o \in OptionLists, override' = Merge(override, normalize(o)), NEW p
    PROVE  /\ (p \in Reached(o) /\ ~Obsolete(p, Given(o, p))) =>
                p \in DOMAIN override' /\ override'[p] = Given(o, p)
           /\ p \in DOMAIN override' =>
                \/ p \in Reached(o) /\ ~Obsolete(p, override'[p])
                \/ p \in DOMAIN override /\ override'[p] = override[p]
<1>1. IsOptionList(o)
  BY OptionsAssumption
<1>2. PICK n : n = normalize(o)
  OBVIOUS
<1>3. /\ p \in DOMAIN n <=> p \in Reached(o) /\ ~Obsolete(p, Given(o, p))
      /\ p \in DOMAIN n => n[p] = Given(o, p)
  BY <1>1, <1>2, ManagerNormalizes
<1>4. QED BY <1>2, <1>3, MergeGives

LEMMA WinWritten ==
    ASSUME TypeInv, UserOptionsWin, NEW o \in OptionLists, WriteOverrides(o)
    PROVE  UserOptionsWin'
<1>1. past \in Seq(OptionLists) /\ past' = Append(past, o) /\ base' = base
      /\ override' = Merge(override, normalize(o))
  BY DEF TypeInv, WriteOverrides
<1>2. PICK n : n = Len(past) + 1
  OBVIOUS
<1>3. /\ DOMAIN past' = DOMAIN past \cup {n} /\ past'[n] = o
      /\ \A i \in DOMAIN past : past'[i] = past[i] /\ past[i] \in OptionLists /\ n > i /\ ~(i > n)
      /\ n \in DOMAIN past'
  BY <1>1, <1>2, PastWith
<1>4. SUFFICES ASSUME NEW i \in DOMAIN past', NEW p \in Reached(past'[i]),
                      ~Obsolete(p, Given(past'[i], p)),
                      \A j \in DOMAIN past' : j > i => \A q \in Reached(past'[j]) : ~Related(p, q)
               PROVE  p \in DOMAIN File' /\ File'[p] = Given(past'[i], p)
  BY DEF UserOptionsWin
<1>5. CASE i = n
  <2>1. p \in DOMAIN override' /\ override'[p] = Given(o, p)
    BY <1>1, <1>3, <1>4, <1>5, WrittenGives
  <2>2. PICK v : v = override'
    OBVIOUS
  <2>3. p \in DOMAIN Merge(base, v) /\ Merge(base, v)[p] = v[p]
    BY <2>1, <2>2, MergeGives
  <2>4. QED BY <1>1, <1>3, <1>5, <2>1, <2>2, <2>3 DEF File
<1>6. CASE i \in DOMAIN past
  <2>1. p \in DOMAIN File /\ File[p] = Given(past[i], p)
    BY <1>3, <1>4, <1>6 DEF UserOptionsWin
  <2>2. \A q \in DOMAIN normalize(o) : ~Related(p, q)
    <3>1. \A q \in Reached(o) : ~Related(p, q)
      BY <1>3, <1>4, <1>6
    <3>2. \A q \in DOMAIN normalize(o) : q \in Reached(o)
      BY OptionsAssumption, ManagerNormalizes
    <3>3. QED BY <3>1, <3>2
  <2>3. p \in Path
    BY <1>3, <1>4, <1>6, ReachedPath, OptionsAssumption
  <2>4. p \in DOMAIN File' /\ File'[p] = File[p]
    BY <1>1, <2>1, <2>2, <2>3, LayersKeep DEF File
  <2>5. QED BY <1>3, <1>6, <2>1, <2>4
<1>7. QED BY <1>3, <1>5, <1>6

LEMMA WinReset ==
    ASSUME TypeInv, ResetConfiguration
    PROVE  UserOptionsWin'
<1>1. /\ past = <<>> /\ override' = Empty /\ arg.contents \in OptionLists /\ arg.memory \in Nat
      /\ past' = Append(past, arg.contents)
      /\ base' = ConfigurationContents(arg.contents, arg.memory)
  BY OptionsAssumption DEF TypeInv, FreshInv, CallInv, PrepareArg, ResetConfiguration
<1>2. PICK o : o = arg.contents
  OBVIOUS
<1>3. o \in OptionLists /\ IsOptionList(o)
  BY <1>1, <1>2, OptionsAssumption
<1>4. DOMAIN past' = {1} /\ past'[1] = o
  BY <1>1, <1>2
<1>5. SUFFICES ASSUME NEW p \in Reached(o), ~Obsolete(p, Given(o, p))
               PROVE  p \in DOMAIN File' /\ File'[p] = Given(o, p)
  BY <1>4 DEF UserOptionsWin
<1>6. p \in DOMAIN normalize(o) /\ normalize(o)[p] = Given(o, p)
  BY <1>3, <1>5, ManagerNormalizes
<1>7. p \in DOMAIN base' /\ base'[p] = Given(o, p)
  BY <1>1, <1>2, <1>3, <1>6, ContentsGive
<1>8. DOMAIN Empty = {}
  BY DEF Empty
<1>9. PICK b : b = base'
  OBVIOUS
<1>10. p \in DOMAIN Merge(b, Empty) /\ Merge(b, Empty)[p] = b[p]
  BY <1>7, <1>8, <1>9, MergeGives
<1>11. QED BY <1>1, <1>7, <1>9, <1>10 DEF File

LEMMA WinStep == TypeInv /\ UserOptionsWin /\ [Next]_vars => UserOptionsWin'
<1> SUFFICES ASSUME TypeInv, UserOptionsWin, [Next]_vars PROVE UserOptionsWin'
  OBVIOUS
<1>1. CASE UNCHANGED <<base, override, past>>
  BY <1>1 DEF UserOptionsWin, File
<1>2. CASE ResetConfiguration
  BY <1>2, WinReset
<1>3. CASE UpdateOverrides
  <2>1. arg.overrides \in OptionLists
    BY <1>3 DEF UpdateOverrides, TypeInv, CallInv, PrepareArg
  <2>2. QED BY <1>3, <2>1, WinWritten DEF UpdateOverrides
<1>4. ASSUME NEW options \in OptionLists, ApplyOverrides(options) PROVE UserOptionsWin'
  BY <1>4, WinWritten DEF ApplyOverrides
<1>5. QED BY <1>1, <1>2, <1>3, <1>4, FileStep

\* UserOptionsWin: every option that a user gave and no later call touched is
\* in the configuration file with the value the user gave, for every sequence
\* of option lists, dotted or nested, over the guest's own settings.
THEOREM UserOptionsAlwaysWin == Spec => []UserOptionsWin
<1>1. Init => UserOptionsWin
  BY DEF Init, UserOptionsWin
<1>2. Spec => [](TypeInv /\ UserOptionsWin)
  BY <1>1, TypeInit, TypeStep, WinStep, PTL DEF Spec
<1>3. QED BY <1>2, PTL

\* Every layer, and what a container was started with.
LEMMA FileAccepted ==
    ASSUME LayerInv
    PROVE  \A p \in DOMAIN File : ~Obsolete(p, File[p])
<1>1. ASSUME NEW p \in DOMAIN File PROVE ~Obsolete(p, File[p])
  <2>1. CASE p \in DOMAIN override
    BY <2>1, MergeGives DEF File, LayerInv, Layers
  <2>2. CASE p \notin DOMAIN override
    BY <1>1, <2>2, MergeGives DEF File, LayerInv, Layers
  <2>3. QED BY <2>1, <2>2
<1>2. QED BY <1>1

LEMMA BoxAccepted ==
    ASSUME TypeInv, LayerInv, [Next]_vars
    PROVE  \A p \in DOMAIN box'.conf : ~Obsolete(p, box'.conf[p])
<1>1. DOMAIN Empty = {}
  BY DEF Empty
<1>2. box'.conf = box.conf \/ box'.conf = File \/ box'.conf = Empty
  BY BoxStep DEF Stops, Starts, Creates, Removes
<1>3. QED BY <1>1, <1>2, FileAccepted DEF LayerInv

LEMMA LayersWritten ==
    ASSUME TypeInv, Layers, NEW o \in OptionLists, WriteOverrides(o)
    PROVE  Layers'
<1>1. past \in Seq(OptionLists) /\ past' = Append(past, o) /\ base' = base
      /\ override' = Merge(override, normalize(o))
  BY DEF TypeInv, WriteOverrides
<1>2. PICK n : n = Len(past) + 1
  OBVIOUS
<1>3. /\ n \in DOMAIN past' /\ past'[n] = o
      /\ \A i \in DOMAIN past : i \in DOMAIN past' /\ past'[i] = past[i]
  BY <1>1, <1>2, PastWith
<1>4. ASSUME NEW p \in DOMAIN override'
      PROVE  ~Obsolete(p, override'[p]) /\ \E i \in DOMAIN past' : p \in Reached(past'[i])
  <2>1. CASE p \in Reached(o) /\ ~Obsolete(p, override'[p])
    BY <1>3, <2>1
  <2>2. CASE p \in DOMAIN override /\ override'[p] = override[p]
    BY <1>3, <2>2 DEF Layers
  <2>3. QED BY <1>1, <1>4, <2>1, <2>2, WrittenGives
<1>5. QED BY <1>1, <1>3, <1>4 DEF Layers

LEMMA LayersReset ==
    ASSUME TypeInv, Layers, ResetConfiguration
    PROVE  Layers'
<1>1. /\ past = <<>> /\ override' = Empty /\ arg.contents \in OptionLists /\ arg.memory \in Nat
      /\ past' = Append(past, arg.contents)
      /\ base' = ConfigurationContents(arg.contents, arg.memory)
  BY OptionsAssumption DEF TypeInv, FreshInv, CallInv, PrepareArg, ResetConfiguration
<1>2. PICK o : o = arg.contents
  OBVIOUS
<1>3. o \in OptionLists /\ IsOptionList(o)
  BY <1>1, <1>2, OptionsAssumption
<1>4. DOMAIN past' = {1} /\ past'[1] = o
  BY <1>1, <1>2
<1>5. PICK b : b = base'
  OBVIOUS
<1>6. /\ \A p \in DOMAIN b : ~Obsolete(p, b[p])
      /\ (CachePath \in DOMAIN b /\ CachePath \notin DOMAIN normalize(o)) => b[CachePath] >= MinCache
  BY <1>1, <1>2, <1>3, <1>5, ContentsGive
<1>7. CachePath \in DOMAIN normalize(o) => CachePath \in Reached(o)
  BY <1>3, ManagerNormalizes
<1>8. DOMAIN Empty = {}
  BY DEF Empty
<1>9. QED BY <1>1, <1>4, <1>5, <1>6, <1>7, <1>8 DEF Layers

LEMMA LayerStep == TypeInv /\ LayerInv /\ [Next]_vars => LayerInv'
<1> SUFFICES ASSUME TypeInv, LayerInv, [Next]_vars PROVE LayerInv'
  OBVIOUS
<1>0. Layers
  BY DEF LayerInv
<1>1. ASSUME UNCHANGED <<base, override, past>> PROVE Layers'
  BY <1>0, <1>1 DEF Layers
<1>2. ASSUME ResetConfiguration PROVE Layers'
  BY <1>0, <1>2, LayersReset
<1>3. ASSUME UpdateOverrides PROVE Layers'
  <2>1. arg.overrides \in OptionLists
    BY <1>3 DEF UpdateOverrides, TypeInv, CallInv, PrepareArg
  <2>2. QED BY <1>0, <1>3, <2>1, LayersWritten DEF UpdateOverrides
<1>4. ASSUME NEW options \in OptionLists, ApplyOverrides(options) PROVE Layers'
  BY <1>0, <1>4, LayersWritten DEF ApplyOverrides
<1>5. Layers'
  BY <1>1, <1>2, <1>3, <1>4, FileStep
<1>6. QED BY <1>5, BoxAccepted DEF LayerInv

\* DaemonAccepts: neither the file nor the configuration of a started mongod
\* has an option that MongoDB 8 rejects, and a cache size that no user gave is
\* at least the minimum, for every flavor and every sequence of option lists.
THEOREM DaemonAlwaysAccepts == Spec => []DaemonAccepts
<1>1. Init => LayerInv
  BY DEF Init, LayerInv, Layers, Absent, Empty
<1>2. Spec => [](TypeInv /\ LayerInv)
  BY <1>1, TypeInit, TypeStep, LayerStep, PTL DEF Spec
<1>3. LayerInv => DaemonAccepts
  <2>1. SUFFICES ASSUME LayerInv PROVE DaemonAccepts
    OBVIOUS
  <2>2. ASSUME CachePath \in DOMAIN File, \A i \in DOMAIN past : Reaches(past[i], CachePath) = {}
        PROVE  File[CachePath] >= MinCache
    <3>1. \A i \in DOMAIN past : CachePath \notin Reached(past[i])
      BY <2>2, ReachedIsReaches
    <3>2. CachePath \notin DOMAIN override
      BY <2>1, <3>1 DEF LayerInv, Layers
    <3>3. CachePath \in DOMAIN base /\ File[CachePath] = base[CachePath]
      BY <2>2, <3>2, MergeGives DEF File
    <3>4. QED BY <2>1, <3>1, <3>3 DEF LayerInv, Layers
  <2>3. QED BY <2>1, <2>2, FileAccepted DEF DaemonAccepts, LayerInv
<1>4. QED BY <1>2, <1>3, PTL

=============================================================================
