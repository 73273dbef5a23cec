--------------------------- MODULE ProjectCleanup ---------------------------
(* Emptying an OpenStack project: list-project-resources.py takes the        *)
(* inventory, delete-project-resources.py plans, executes and verifies the   *)
(* deletion.  The cloud acts on its own between any two calls: asynchronous  *)
(* deletions finish or fail, and stacks, clusters and triggers that are      *)
(* still there create more resources.                                        *)
EXTENDS Integers, FiniteSets

CONSTANTS
    Resources,   \* the resources the project may ever own
    Kind,        \* what each of them is
    Flaky,       \* the kinds whose listing may fail
    Options,     \* the command lines that are used
    HideErrors,  \* may a report have been written with --hide-errors?
    MaxRuns      \* bound: invocations of delete-project-resources.py

(* Mutation: subnets before their ports.                                     *)
PhasesSubnetFirst ==
    [cron_trigger |-> 10, cluster |-> 40, node |-> 41, stack |-> 40,
     capsule |-> 50, load_balancer |-> 60, server |-> 80, volume |-> 95,
     router |-> 110, port |-> 130, subnet |-> 120, network |-> 140,
     trust |-> 200]

(* The kinds the model tells apart, with the phases the source gives them.   *)
RESOURCE_PHASES ==
    [cron_trigger |-> 10, cluster |-> 40, node |-> 41, stack |-> 40,
     capsule |-> 50, load_balancer |-> 60, server |-> 80, volume |-> 95,
     router |-> 110, port |-> 120, subnet |-> 130, network |-> 140,
     trust |-> 200]

(* Child records that go with their parents, and the project itself: they    *)
(* are listed and skipped.                                                   *)
COVERED_CHILD_RESOURCES == {"listener", "server_action", "project"}

Planned == DOMAIN RESOURCE_PHASES
Clustering == {"cluster", "node"}
(* The CLI returns once the request is accepted; nothing waits for the end.  *)
(* "volume" stands for snapshots, backups, databases and the like too.       *)
Unwaited == {"capsule", "volume"}
(* A deletion that goes on after the request; stacks are waited for by the    *)
(* program, servers and load balancers by the CLI.                           *)
Asynchronous == Unwaited \cup {"stack", "server", "load_balancer"}
(* Resources that create servers for as long as they exist.                  *)
Creators == {"cron_trigger", "stack", "cluster"}

ASSUME KindAssumption ==
    /\ Kind \in [Resources -> Planned \cup COVERED_CHILD_RESOURCES \cup {"unknown"}]
    /\ \A r, q \in Resources : Kind[r] = "router" /\ Kind[q] = "router" => r = q
    /\ HideErrors \in BOOLEAN
    /\ MaxRuns \in Nat

(* The options that make a difference.                                       *)
Args == [source : {"project", "report"}, yes : BOOLEAN, verify : BOOLEAN,
         allow : {"none", "service_api", "all"}]
ASSUME OptionsAssumption == Options \subseteq Args

Categories == {"service_api", "inventory"}
Reports == [listed : SUBSET Resources, errors : SUBSET Categories,
            failed : SUBSET Categories]

VARIABLES
    cloud,       \* what became of each resource
    plugged,     \* ports that are interfaces of the router
    saved,       \* report files on disk (at most one)
    pc, args,    \* the invocation in progress
    report,      \* the report it works from
    todo,        \* planned operations not yet attempted
    ports,       \* router ports still to be removed
    current,     \* the resource a wait is about (a set of at most one)
    errors,      \* has an operation failed?
    requested,   \* resources whose deletion this invocation attempted
    verified,    \* "Verified that no project resources remain."
    exit,        \* exit code; -1 while running or killed
    misread,     \* history: resources that a failed command was taken to say are gone
    blind,       \* history: the verification missed resources without an error
    quiet,       \* nothing but this invocation disturbed the project
    runs

progVars == <<pc, args, report, todo, ports, current, errors, requested,
              verified, exit, misread, blind>>
vars == <<cloud, plugged, saved, progVars, quiet, runs>>

TypeOK ==
    /\ cloud \in [Resources -> {"unborn", "present", "deleting", "failed", "absent"}]
    /\ plugged \subseteq Resources
    /\ saved \in SUBSET Reports /\ Cardinality(saved) <= 1
    /\ pc \in {"idle", "read", "plan", "run", "stack", "senlin", "router",
               "gateway", "verify", "exited"}
    /\ args \in Args
    /\ report \in Reports
    /\ todo \subseteq Resources
    /\ ports \subseteq Resources
    /\ current \subseteq Resources /\ Cardinality(current) <= 1
    /\ errors \in BOOLEAN
    /\ requested \subseteq Resources
    /\ verified \in BOOLEAN
    /\ exit \in {-1, 0, 2, 3}
    /\ misread \subseteq Resources
    /\ blind \in BOOLEAN
    /\ quiet \in BOOLEAN
    /\ runs \in 0..MaxRuns

-----------------------------------------------------------------------------
(* The cloud, external to the repository.                                    *)

Exists(r) == cloud[r] \in {"present", "deleting", "failed"}
Existing == {r \in Resources : Exists(r)}
ExistingOf(k) == {r \in Existing : Kind[r] = k}

(* A resource another one depends on is not deleted.                         *)
InUse(r) ==
    CASE Kind[r] = "network" -> ExistingOf("port") \cup ExistingOf("subnet") # {}
      [] Kind[r] = "subnet"  -> ExistingOf("port") \cup ExistingOf("load_balancer") # {}
      [] Kind[r] = "port"    -> r \in plugged
      [] Kind[r] = "router"  -> plugged # {}
      [] Kind[r] = "volume"  -> ExistingOf("server") # {}
      [] OTHER               -> FALSE

Init ==
    /\ \E born \in SUBSET Resources :
          cloud = [r \in Resources |-> IF r \in born THEN "present" ELSE "unborn"]
    /\ plugged \in SUBSET ExistingOf("port")
    /\ plugged # {} => ExistingOf("router") # {}
    /\ saved = {}
    /\ pc = "idle"
    /\ args = [source |-> "project", yes |-> FALSE, verify |-> FALSE, allow |-> "none"]
    /\ report = [listed |-> {}, errors |-> {}, failed |-> {}]
    /\ todo = {} /\ ports = {} /\ current = {} /\ requested = {} /\ misread = {}
    /\ errors = FALSE /\ verified = FALSE /\ blind = FALSE
    /\ exit = -1
    /\ quiet = TRUE
    /\ runs = 0

(* An accepted deletion ends.  A cluster takes its nodes with it, and a      *)
(* stack's deletion needs the trust Heat acts with.                          *)
CloudDeletes(r) ==
    /\ cloud[r] = "deleting"
    /\ Kind[r] = "stack" => \A t \in Resources : Kind[t] = "trust" => cloud[t] # "absent"
    /\ cloud' = [q \in Resources |->
                    IF q = r \/ (Kind[r] = "cluster" /\ Kind[q] = "node" /\ Exists(q))
                    THEN "absent" ELSE cloud[q]]
    /\ UNCHANGED <<plugged, saved, progVars, quiet, runs>>

CloudFails(r) ==
    /\ cloud[r] = "deleting"
    /\ cloud' = [cloud EXCEPT ![r] = "failed"]
    /\ quiet' = FALSE
    /\ UNCHANGED <<plugged, saved, progVars, runs>>

(* A trigger, stack or cluster creates a server while it is there.           *)
CloudCreates(c, r) ==
    /\ Kind[c] \in Creators /\ Exists(c)
    /\ Kind[r] = "server" /\ cloud[r] = "unborn"
    /\ cloud' = [cloud EXCEPT ![r] = "present"]
    /\ quiet' = FALSE
    /\ UNCHANGED <<plugged, saved, progVars, runs>>

-----------------------------------------------------------------------------
(* list-project-resources.py: what an inventory may answer.  It lacks some   *)
(* kinds: their listings failed, for the reasons "failed", of which the      *)
(* report says "errors"; or, without a reason, an error read like a missing  *)
(* resource and the kind was dropped silently.                               *)
Inventory ==
    {[listed |-> {r \in Existing : Kind[r] \notin KF[1]}, errors |-> KF[2], failed |-> KF[2]] :
        KF \in {q \in (SUBSET Flaky) \X (SUBSET Categories) : q[2] # {} => q[1] # {}}}

(* --strict makes any failure an exit code; the deletion asks for it unless  *)
(* one of the --allow flags is given.                                        *)
StrictFailure(rep) == args.allow = "none" /\ rep.failed # {}

(* An operator redirects the JSON report to a file, to delete from it later: *)
(* with --strict a failure leaves the file empty, --hide-errors drops the    *)
(* errors field.                                                             *)
WriteReport(strict, hide) ==
    /\ pc \in {"idle", "exited"}
    /\ runs < MaxRuns /\ \E a \in Options : a.source = "report"
    /\ \E rep \in Inventory :
          saved' = IF strict /\ rep.failed # {} THEN {}
                   ELSE {[rep EXCEPT !.errors = IF hide THEN {} ELSE rep.errors]}
    /\ UNCHANGED <<cloud, plugged, progVars, quiet, runs>>

-----------------------------------------------------------------------------
(* delete-project-resources.py: reading and planning.                        *)

Exit(code) == pc' = "exited" /\ exit' = code

Start(a) ==
    /\ pc \in {"idle", "exited"}
    /\ runs < MaxRuns
    /\ runs' = runs + 1
    /\ args' = a
    /\ pc' = "read"
    /\ report' = [listed |-> {}, errors |-> {}, failed |-> {}]
    /\ todo' = {} /\ ports' = {} /\ current' = {} /\ requested' = {} /\ misread' = {}
    /\ errors' = FALSE /\ verified' = FALSE /\ blind' = FALSE
    /\ exit' = -1
    /\ UNCHANGED <<cloud, plugged, saved, quiet>>

Accept(rep) ==
    /\ report' = rep
    /\ pc' = "plan"
    /\ quiet' = (Existing \subseteq rep.listed)
    /\ UNCHANGED exit

run_inventory ==
    /\ pc = "read" /\ args.source = "project"
    /\ \E rep \in Inventory :
          \/ StrictFailure(rep) /\ Exit(2) /\ UNCHANGED <<report, quiet>>
          \/ ~StrictFailure(rep) /\ Accept(rep)
    /\ UNCHANGED <<cloud, plugged, saved, args, todo, ports, current, errors,
                   requested, verified, misread, blind, runs>>

load_report ==
    /\ pc = "read" /\ args.source = "report"
    /\ \/ saved = {} /\ Exit(2) /\ UNCHANGED <<report, quiet>>
       \/ \E rep \in saved : Accept(rep)
    /\ UNCHANGED <<cloud, plugged, saved, args, todo, ports, current, errors,
                   requested, verified, misread, blind, runs>>

(* Mutation: service API errors never block.                                 *)
BlockingErrorsLenient(rep) ==
    IF args.allow = "all" THEN {} ELSE rep.errors \ {"service_api"}

BlockingErrors(rep) ==
    CASE args.allow = "all"         -> {}
      [] args.allow = "service_api" -> rep.errors \ {"service_api"}
      [] OTHER                      -> rep.errors

Issues(rep) ==
    {r \in rep.listed : Kind[r] \notin Planned \cup COVERED_CHILD_RESOURCES}

plan_deletions(rep) == {r \in rep.listed : Kind[r] \in Planned}

Refused(rep) == BlockingErrors(rep) # {} \/ Issues(rep) # {}

Refuse ==
    /\ pc = "plan" /\ Refused(report)
    /\ Exit(2)
    /\ UNCHANGED <<cloud, plugged, saved, args, report, todo, ports, current,
                   errors, requested, verified, misread, blind, quiet, runs>>

(* Nothing to delete, or a dry run.                                          *)
PlanOnly ==
    /\ pc = "plan" /\ ~Refused(report)
    /\ plan_deletions(report) = {} \/ ~args.yes
    /\ Exit(0)
    /\ UNCHANGED <<cloud, plugged, saved, args, report, todo, ports, current,
                   errors, requested, verified, misread, blind, quiet, runs>>

BeginExecution ==
    /\ pc = "plan" /\ ~Refused(report)
    /\ plan_deletions(report) # {} /\ args.yes
    /\ todo' = plan_deletions(report)
    /\ pc' = "run"
    /\ UNCHANGED <<cloud, plugged, saved, args, report, ports, current, errors,
                   requested, verified, exit, misread, blind, quiet, runs>>

-----------------------------------------------------------------------------
(* Executing the plan.  The source sorts by phase and then by name; names    *)
(* are arbitrary, so any resource of the lowest phase may come next.         *)

Turn(r) ==
    /\ pc = "run"
    /\ r \in todo
    /\ \A q \in todo : RESOURCE_PHASES[Kind[r]] <= RESOURCE_PHASES[Kind[q]]
    /\ todo' = todo \ {r}
    /\ requested' = requested \cup {r}
    /\ UNCHANGED <<saved, args, report, verified, exit, blind, runs>>

ByCommand(r) == Turn(r) /\ Kind[r] \notin Clustering \cup {"router"}

(* A stack delete command that succeeds is followed by a wait.               *)
ThenWaitForStack(r) ==
    IF Kind[r] = "stack"
    THEN pc' = "stack" /\ current' = {r}
    ELSE UNCHANGED <<pc, current>>

(* _missing_output: "not found" and the like in what a failing command       *)
(* printed counts as success.                                                *)
DeleteMissing(r) ==
    /\ ByCommand(r) /\ ~Exists(r)
    /\ ThenWaitForStack(r)
    /\ UNCHANGED <<cloud, plugged, ports, errors, misread, quiet>>

(* The text may be about something else, before or after the request.        *)
DeleteMisread(r) ==
    /\ ByCommand(r) /\ Exists(r)
    /\ \/ UNCHANGED cloud
       \/ Kind[r] \in Asynchronous /\ ~InUse(r) /\ cloud' = [cloud EXCEPT ![r] = "deleting"]
    /\ misread' = misread \cup {r} /\ quiet' = FALSE
    /\ ThenWaitForStack(r)
    /\ UNCHANGED <<plugged, ports, errors>>

(* Refused, because something still depends on it or for any other reason:   *)
(* noted, and the next operation follows.                                    *)
DeleteRefused(r) ==
    /\ ByCommand(r) /\ Exists(r)
    /\ errors' = TRUE
    /\ quiet' = (quiet /\ InUse(r))
    /\ UNCHANGED <<cloud, plugged, pc, ports, current, misread>>

DeleteDone(r) ==
    /\ ByCommand(r) /\ Exists(r) /\ ~InUse(r)
    /\ Kind[r] \notin Unwaited \cup {"stack"}
    /\ cloud' = [cloud EXCEPT ![r] = "absent"]
    /\ UNCHANGED <<plugged, pc, ports, current, errors, misread, quiet>>

(* Servers and load balancers are deleted with --wait, which may fail.       *)
DeleteWaitFailed(r) ==
    /\ ByCommand(r) /\ Exists(r)
    /\ Kind[r] \in {"server", "load_balancer"}
    /\ cloud' = [cloud EXCEPT ![r] = "deleting"]
    /\ errors' = TRUE
    /\ quiet' = FALSE
    /\ UNCHANGED <<plugged, pc, ports, current, misread>>

DeleteAccepted(r) ==
    /\ ByCommand(r) /\ Exists(r) /\ ~InUse(r)
    /\ Kind[r] \in Unwaited \cup {"stack"}
    /\ cloud' = [cloud EXCEPT ![r] = "deleting"]
    /\ ThenWaitForStack(r)
    /\ UNCHANGED <<plugged, ports, errors, misread, quiet>>

(* A wait ends when the resource is gone or its deletion failed, or when the *)
(* status cannot be read or the deadline passes.                             *)
WaitSucceeds(r) ==
    /\ ~Exists(r)
    /\ UNCHANGED <<errors, misread, quiet>>

(* Mutation: giving up is not reported.                                      *)
WaitFailsSilently ==
    /\ quiet' = FALSE
    /\ UNCHANGED <<errors, misread>>

WaitFails ==
    /\ errors' = TRUE
    /\ quiet' = FALSE
    /\ UNCHANGED misread

(* A failure may read like a missing resource.                               *)
Misread(r) ==
    /\ Exists(r)
    /\ misread' = misread \cup {r} /\ quiet' = FALSE
    /\ UNCHANGED errors

wait_for_stack_delete(r) ==
    /\ pc = "stack" /\ r \in current
    /\ WaitSucceeds(r) \/ WaitFails \/ Misread(r)
    /\ pc' = "run" /\ current' = {}
    /\ UNCHANGED <<cloud, plugged, saved, args, report, todo, ports, requested,
                   verified, exit, blind, runs>>

BySenlin(r) == Turn(r) /\ Kind[r] \in Clustering

SenlinMissing(r) ==
    /\ BySenlin(r) /\ ~Exists(r)
    /\ UNCHANGED <<cloud, plugged, pc, ports, current, errors, misread, quiet>>

(* No SDK connection, the lookup fails, or the delete request fails.         *)
SenlinUnavailable(r) ==
    /\ BySenlin(r)
    /\ errors' = TRUE
    /\ quiet' = FALSE
    /\ UNCHANGED <<cloud, plugged, pc, ports, current, misread>>

SenlinAccepted(r) ==
    /\ BySenlin(r) /\ Exists(r)
    /\ cloud' = [cloud EXCEPT ![r] = "deleting"]
    /\ pc' = "senlin" /\ current' = {r}
    /\ UNCHANGED <<plugged, ports, errors, misread, quiet>>

(* Mutation: no deadline.                                                    *)
WaitForever(r) ==
    /\ pc = "senlin" /\ r \in current
    /\ WaitSucceeds(r)
    /\ pc' = "run" /\ current' = {}
    /\ UNCHANGED <<cloud, plugged, saved, args, report, todo, ports, requested,
                   verified, exit, blind, runs>>

delete_senlin_resource(r) ==
    /\ pc = "senlin" /\ r \in current
    /\ WaitSucceeds(r) \/ WaitFails
    /\ pc' = "run" /\ current' = {}
    /\ UNCHANGED <<cloud, plugged, saved, args, report, todo, ports, requested,
                   verified, exit, blind, runs>>

(* A router: its interfaces first, then its gateway, then the router.  Each  *)
(* of these commands may also fail in words that read like a missing         *)
(* resource; the listing then gives the ports it printed.                    *)
ListRouterPorts(r) ==
    /\ Turn(r) /\ Kind[r] = "router"
    /\ \/ /\ ports' \in SUBSET plugged
          /\ quiet' = (quiet /\ ports' = plugged)
          /\ pc' = "router" /\ current' = {r}
          /\ UNCHANGED errors
       \/ /\ errors' = TRUE /\ quiet' = FALSE
          /\ UNCHANGED <<ports, pc, current>>
    /\ UNCHANGED <<cloud, plugged, misread>>

RemoveRouterPort(p) ==
    /\ pc = "router" /\ p \in ports
    /\ ports' = ports \ {p}
    /\ \/ /\ plugged' = plugged \ {p}
          /\ cloud' = [cloud EXCEPT ![p] = "absent"]
          /\ UNCHANGED <<errors, quiet>>
       \/ /\ UNCHANGED errors \/ errors' = TRUE
          /\ quiet' = FALSE
          /\ UNCHANGED <<cloud, plugged>>
    /\ UNCHANGED <<saved, pc, args, report, todo, current, requested, verified,
                   exit, misread, blind, runs>>

UnsetGateway ==
    /\ pc = "router" /\ ports = {}
    /\ pc' = "gateway"
    /\ \/ UNCHANGED <<errors, quiet>>
       \/ errors' = TRUE /\ quiet' = FALSE
    /\ UNCHANGED <<cloud, plugged, saved, args, report, todo, ports, current,
                   requested, verified, exit, misread, blind, runs>>

delete_router(r) ==
    /\ pc = "gateway" /\ r \in current
    /\ \/ /\ Exists(r) => ~InUse(r)
          /\ cloud' = [cloud EXCEPT ![r] = IF Exists(r) THEN "absent" ELSE cloud[r]]
          /\ UNCHANGED <<errors, misread, quiet>>
       \/ /\ Exists(r)
          /\ errors' = TRUE
          /\ quiet' = (quiet /\ InUse(r))
          /\ UNCHANGED <<cloud, misread>>
       \/ Misread(r) /\ UNCHANGED cloud
    /\ pc' = "run" /\ current' = {}
    /\ UNCHANGED <<plugged, saved, args, report, todo, ports, requested,
                   verified, exit, blind, runs>>

-----------------------------------------------------------------------------
(* The end of an invocation.                                                 *)

(* Mutation: failed operations end like an uncaught exception.               *)
FinishExecutionOne ==
    /\ pc = "run" /\ todo = {} /\ errors
    /\ Exit(1)
    /\ UNCHANGED <<cloud, plugged, saved, args, report, todo, ports, current,
                   errors, requested, verified, misread, blind, quiet, runs>>

FinishExecution ==
    /\ pc = "run" /\ todo = {}
    /\ \/ errors /\ Exit(3)
       \/ ~errors /\ ~args.verify /\ Exit(0)
       \/ ~errors /\ args.verify /\ args.source = "report" /\ Exit(2)
       \/ ~errors /\ args.verify /\ args.source = "project" /\ pc' = "verify" /\ UNCHANGED exit
    /\ UNCHANGED <<cloud, plugged, saved, args, report, todo, ports, current,
                   errors, requested, verified, misread, blind, quiet, runs>>

(* Mutation: only what was planned is looked for.                            *)
RemainingPlanned(rep) == plan_deletions(rep) \cap plan_deletions(report)

Remaining(rep) == plan_deletions(rep)

Verify ==
    /\ pc = "verify"
    /\ \E rep \in Inventory :
          IF StrictFailure(rep) \/ Refused(rep) \/ Remaining(rep) # {}
          THEN Exit(2) /\ UNCHANGED <<verified, blind>>
          ELSE /\ Exit(0) /\ verified' = TRUE
               /\ blind' = (rep.failed = {} /\ ~(Existing \subseteq rep.listed))
    /\ UNCHANGED <<cloud, plugged, saved, args, report, todo, ports, current,
                   errors, requested, misread, quiet, runs>>

(* The process is killed, or an OSError (the openstack executable is gone)    *)
(* ends it with code 2.                                                      *)
Killed ==
    /\ pc \notin {"idle", "exited"}
    /\ Exit(-1) \/ Exit(2)
    /\ UNCHANGED <<cloud, plugged, saved, args, report, todo, ports, current,
                   errors, requested, verified, misread, blind, quiet, runs>>

Program ==
    \/ run_inventory \/ load_report
    \/ Refuse \/ PlanOnly \/ BeginExecution
    \/ \E r \in Resources :
          \/ DeleteMissing(r) \/ DeleteMisread(r) \/ DeleteRefused(r) \/ DeleteDone(r)
          \/ DeleteWaitFailed(r) \/ DeleteAccepted(r) \/ wait_for_stack_delete(r)
          \/ SenlinMissing(r) \/ SenlinUnavailable(r) \/ SenlinAccepted(r)
          \/ delete_senlin_resource(r)
          \/ ListRouterPorts(r) \/ RemoveRouterPort(r) \/ delete_router(r)
    \/ UnsetGateway
    \/ FinishExecution \/ Verify

Cloud ==
    \/ \E r \in Resources : CloudDeletes(r) \/ CloudFails(r)
    \/ \E c, r \in Resources : CloudCreates(c, r)

Next ==
    \/ Program \/ Cloud \/ Killed
    \/ \E strict \in BOOLEAN, hide \in {FALSE, HideErrors} : WriteReport(strict, hide)
    \/ \E a \in Options : Start(a)

Spec == Init /\ [][Next]_vars

(* The program keeps running: every call it makes returns and every wait has *)
(* a deadline.  Nothing is assumed of the cloud.                             *)
FairSpec == Spec /\ WF_vars(Program)

-----------------------------------------------------------------------------
(* Nothing is deleted from an inventory in which a listing failed, or that   *)
(* lists a kind of resource the program does not know, unless a flag allows  *)
(* it; and only what the inventory lists is asked to go.                     *)
CompleteInventoryOnly ==
    requested # {} =>
        /\ args.yes
        /\ requested \subseteq plan_deletions(report)
        /\ Issues(report) = {}
        /\ args.allow = "none" => report.failed = {}

(* Exit code 0 of a deletion means that what was listed is gone, however     *)
(* the cloud's own deletions ended, except what the CLI only asks for and    *)
(* what a failed command was taken to call missing.                          *)
CleanExit ==
    exit = 0 /\ args.yes =>
        \A r \in plan_deletions(report) : ~Exists(r) \/ Kind[r] \in Unwaited \/ r \in misread

(* A verified project stays empty: nothing that could create resources is    *)
(* left behind, and no deletion is still under way, unless the verifying     *)
(* inventory dropped a kind silently.                                        *)
VerifiedStaysEmpty ==
    verified /\ args.allow = "none" /\ ~blind =>
        \A r \in Existing : Kind[r] \in COVERED_CHILD_RESOURCES

(* The order of RESOURCE_PHASES and of the steps of delete_router: when no    *)
(* call fails and nothing else changes the project, no deletion is refused   *)
(* because another resource still depends on it.                             *)
OrderAvoidsConflicts == quiet => ~errors

(* Every invocation ends, whatever the cloud does or fails to do.            *)
Finishes == pc = "read" ~> pc = "exited"

=============================================================================
