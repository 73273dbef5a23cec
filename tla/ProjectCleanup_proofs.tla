------------------------ MODULE ProjectCleanup_proofs -----------------------
(* What delete-project-resources.py guarantees for any set of resources, any *)
(* number of invocations and any behaviour of the cloud.                     *)
EXTENDS ProjectCleanup, FiniteSetTheorems, TLAPS

(* An inventory lists resources that exist.                                  *)
LEMMA InventoryFacts ==
    ASSUME NEW rep \in Inventory
    PROVE  /\ rep \in Reports
           /\ rep.listed \subseteq Existing
           /\ rep.errors = rep.failed
<1>1. PICK KF \in {q \in (SUBSET Flaky) \X (SUBSET Categories) : q[2] # {} => q[1] # {}} :
          rep = [listed |-> {r \in Existing : Kind[r] \notin KF[1]},
                 errors |-> KF[2], failed |-> KF[2]]
  BY DEF Inventory
<1>2. KF[2] \in SUBSET Categories
  BY <1>1
<1>3. {r \in Existing : Kind[r] \notin KF[1]} \subseteq Existing /\ Existing \subseteq Resources
  BY DEF Existing
<1>4. QED BY <1>1, <1>2, <1>3 DEF Reports

LEMMA SmallSets ==
    /\ Cardinality({}) <= 1
    /\ \A x : Cardinality({x}) <= 1
  BY FS_EmptySet, FS_Singleton

-----------------------------------------------------------------------------
(* Types.                                                                    *)

LEMMA TypeInit == Init => TypeOK
<1> SUFFICES ASSUME Init PROVE TypeOK
  OBVIOUS
<1>1. cloud \in [Resources -> {"unborn", "present", "deleting", "failed", "absent"}]
  BY DEF Init
<1>2. plugged \subseteq Resources
  BY DEF Init, ExistingOf, Existing
<1>3. saved \in SUBSET Reports /\ Cardinality(saved) <= 1
  BY SmallSets DEF Init
<1>4. args \in Args
  BY DEF Init, Args
<1>5. report \in Reports
  BY DEF Init, Reports
<1>6. runs \in 0 .. MaxRuns
  BY KindAssumption DEF Init
<1>7. QED BY <1>1, <1>2, <1>3, <1>4, <1>5, <1>6, SmallSets DEF Init, TypeOK

LEMMA TypeCloud == TypeOK /\ (Cloud \/ Killed \/ UNCHANGED vars) => TypeOK'
<1> SUFFICES ASSUME TypeOK, Cloud \/ Killed \/ UNCHANGED vars PROVE TypeOK'
  OBVIOUS
<1> USE DEF TypeOK
<1>1. ASSUME NEW r \in Resources, CloudDeletes(r) PROVE TypeOK'
  BY <1>1 DEF CloudDeletes, progVars
<1>2. ASSUME NEW r \in Resources, CloudFails(r) PROVE TypeOK'
  BY <1>2 DEF CloudFails, progVars
<1>3. ASSUME NEW c \in Resources, NEW r \in Resources, CloudCreates(c, r) PROVE TypeOK'
  BY <1>3 DEF CloudCreates, progVars
<1>4. CASE Killed
  BY <1>4 DEF Killed, Exit
<1>5. CASE UNCHANGED vars
  BY <1>5 DEF vars, progVars
<1>6. QED BY <1>1, <1>2, <1>3, <1>4, <1>5 DEF Cloud

LEMMA TypeOperator ==
    ASSUME TypeOK,
           \/ \E strict \in BOOLEAN, hide \in {FALSE, HideErrors} : WriteReport(strict, hide)
           \/ \E a \in Options : Start(a)
    PROVE  TypeOK'
<1>1. ASSUME NEW strict \in BOOLEAN, NEW hide \in {FALSE, HideErrors},
             WriteReport(strict, hide)
      PROVE  TypeOK'
  <2>1. PICK rep \in Inventory :
            saved' = IF strict /\ rep.failed # {} THEN {}
                     ELSE {[rep EXCEPT !.errors = IF hide THEN {} ELSE rep.errors]}
    BY <1>1 DEF WriteReport
  <2>2. rep \in Reports
    BY InventoryFacts
  <2>3. [rep EXCEPT !.errors = IF hide THEN {} ELSE rep.errors] \in Reports
    BY <2>2 DEF Reports
  <2>4. saved' \in SUBSET Reports /\ Cardinality(saved') <= 1
    BY <2>1, <2>3, SmallSets
  <2>5. QED BY <1>1, <2>4 DEF WriteReport, TypeOK, progVars
<1>2. ASSUME NEW a \in Options, Start(a) PROVE TypeOK'
  <2>1. runs' \in 0 .. MaxRuns
    BY <1>2, TypeOK, KindAssumption DEF Start, TypeOK
  <2>2. report' \in Reports
    BY <1>2 DEF Start, Reports
  <2>3. /\ todo' = {} /\ ports' = {} /\ current' = {} /\ requested' = {}
        /\ errors' = FALSE /\ verified' = FALSE /\ exit' = -1
        /\ misread' = {} /\ blind' = FALSE
        /\ pc' = "read" /\ args' = a /\ a \in Args
        /\ UNCHANGED <<cloud, plugged, saved, quiet>>
    BY <1>2, OptionsAssumption DEF Start
  <2>4. QED BY <2>1, <2>2, <2>3, SmallSets, TypeOK DEF TypeOK
<1>3. QED BY <1>1, <1>2, TypeOK,
    \/ \E strict \in BOOLEAN, hide \in {FALSE, HideErrors} : WriteReport(strict, hide)
    \/ \E a \in Options : Start(a)

LEMMA TypeProgram == TypeOK /\ Program => TypeOK'
<1> SUFFICES ASSUME TypeOK, Program PROVE TypeOK'
  OBVIOUS
<1>1. CASE run_inventory
  BY <1>1, InventoryFacts DEF run_inventory, Accept, Exit, TypeOK
<1>2. CASE load_report
  BY <1>2 DEF load_report, Accept, Exit, TypeOK
<1>3. CASE Refuse \/ PlanOnly
  BY <1>3 DEF Refuse, PlanOnly, Exit, TypeOK
<1>4. CASE BeginExecution
  BY <1>4 DEF BeginExecution, plan_deletions, TypeOK, Reports
<1>5. ASSUME NEW r \in Resources,
             \/ DeleteMissing(r) \/ DeleteMisread(r) \/ DeleteRefused(r) \/ DeleteDone(r)
             \/ DeleteWaitFailed(r) \/ DeleteAccepted(r)
      PROVE  TypeOK'
  <2>1. CASE DeleteMissing(r) \/ DeleteMisread(r)
    BY <2>1, SmallSets DEF DeleteMissing, DeleteMisread, ThenWaitForStack, ByCommand, Turn, TypeOK
  <2>2. CASE DeleteRefused(r) \/ DeleteDone(r)
    BY <2>2, SmallSets DEF DeleteRefused, DeleteDone, ByCommand, Turn, TypeOK
  <2>3. CASE DeleteWaitFailed(r) \/ DeleteAccepted(r)
    BY <2>3, SmallSets DEF DeleteWaitFailed, DeleteAccepted, ThenWaitForStack, ByCommand, Turn, TypeOK
  <2>4. QED BY <1>5, <2>1, <2>2, <2>3
<1>6. ASSUME NEW r \in Resources, wait_for_stack_delete(r) \/ delete_senlin_resource(r)
      PROVE  TypeOK'
  BY <1>6, SmallSets
  DEF wait_for_stack_delete, delete_senlin_resource, WaitSucceeds, WaitFails, Misread, TypeOK
<1>7. ASSUME NEW r \in Resources,
             SenlinMissing(r) \/ SenlinUnavailable(r) \/ SenlinAccepted(r)
      PROVE  TypeOK'
  BY <1>7, SmallSets
  DEF SenlinMissing, SenlinUnavailable, SenlinAccepted, BySenlin, Turn, TypeOK
<1>8. ASSUME NEW r \in Resources, ListRouterPorts(r) \/ RemoveRouterPort(r)
      PROVE  TypeOK'
  BY <1>8, SmallSets DEF ListRouterPorts, RemoveRouterPort, Turn, TypeOK
<1>9. ASSUME NEW r \in Resources, delete_router(r) PROVE TypeOK'
  BY <1>9, SmallSets DEF delete_router, Misread, TypeOK
<1>10. CASE UnsetGateway \/ FinishExecution \/ Verify
  BY <1>10 DEF UnsetGateway, FinishExecution, Verify, Exit, TypeOK
<1>11. QED
  BY <1>1, <1>2, <1>3, <1>4, <1>5, <1>6, <1>7, <1>8, <1>9, <1>10 DEF Program

LEMMA TypeStep == TypeOK /\ [Next]_vars => TypeOK'
  BY TypeCloud, TypeOperator, TypeProgram DEF Next

(* Every variable of the cleanup keeps its type, whatever fails.             *)
THEOREM CleanupTypeCorrect == Spec => []TypeOK
  BY TypeInit, TypeStep, PTL DEF Spec

-----------------------------------------------------------------------------
(* The gate before execution: nothing is attempted before the report was     *)
(* accepted, and everything attempted or still planned is in it.             *)

Executing == {"run", "stack", "senlin", "router", "gateway", "verify"}

Truthful(rep) == rep.errors = rep.failed

Gate ==
    /\ pc \notin Executing \cup {"exited"} => requested = {} /\ todo = {}
    /\ pc \in Executing \/ requested # {} => args.yes /\ ~Refused(report)
    /\ requested \cup todo \subseteq plan_deletions(report)
    /\ ~HideErrors => Truthful(report) /\ \A rep \in saved : Truthful(rep)

GateInv == TypeOK /\ Gate

LEMMA GateInit == Init => Gate
  BY DEF Init, Gate, Executing, plan_deletions, Truthful

LEMMA GateUnmoved ==
    ASSUME Gate, UNCHANGED <<saved, args, report, requested, todo>>,
           pc' \in Executing => pc \in Executing,
           pc \in Executing => pc' \in Executing \cup {"exited"},
           pc = "exited" => pc' = "exited"
    PROVE  Gate'
  BY DEF Gate, Refused, BlockingErrors, Issues, plan_deletions, Truthful

LEMMA GateTurn ==
    ASSUME Gate, NEW r, Turn(r), pc' \in Executing
    PROVE  Gate'
<1>1. /\ pc = "run" /\ r \in todo
      /\ todo' = todo \ {r} /\ requested' = requested \cup {r}
      /\ UNCHANGED <<saved, args, report>>
  BY DEF Turn
<1>2. requested' \cup todo' \subseteq plan_deletions(report)
  BY <1>1 DEF Gate
<1>3. args.yes /\ ~Refused(report)
  BY <1>1 DEF Gate, Executing
<1>4. QED
  BY <1>1, <1>2, <1>3
  DEF Gate, Executing, Refused, BlockingErrors, Issues, plan_deletions, Truthful

LEMMA GateRead ==
    ASSUME GateInv, run_inventory \/ load_report
    PROVE  Gate'
<1>1. /\ pc = "read"
      /\ UNCHANGED <<saved, args, todo, requested>>
      /\ pc' \in {"plan", "exited"}
      /\ \/ UNCHANGED report
         \/ report' \in Inventory
         \/ report' \in saved
  BY DEF run_inventory, load_report, Accept, Exit
<1>2. requested' = {}
  BY <1>1 DEF GateInv, Gate, Executing
<1>3. todo' = {}
  BY <1>1 DEF GateInv, Gate, Executing
<1>4. QED
  BY <1>1, <1>2, <1>3, InventoryFacts DEF GateInv, Gate, Executing, Truthful

LEMMA GateOperator ==
    ASSUME GateInv,
           \/ \E strict \in BOOLEAN, hide \in {FALSE, HideErrors} : WriteReport(strict, hide)
           \/ \E a \in Options : Start(a)
    PROVE  Gate'
<1>1. ASSUME NEW strict \in BOOLEAN, NEW hide \in {FALSE, HideErrors},
             WriteReport(strict, hide)
      PROVE  Gate'
  <2>1. PICK rep \in Inventory :
            saved' = IF strict /\ rep.failed # {} THEN {}
                     ELSE {[rep EXCEPT !.errors = IF hide THEN {} ELSE rep.errors]}
    BY <1>1 DEF WriteReport
  <2>2. rep \in Reports /\ rep.errors = rep.failed
    BY InventoryFacts
  <2>3. ~HideErrors => ~hide
    OBVIOUS
  <2>4. ~hide => Truthful([rep EXCEPT !.errors = IF hide THEN {} ELSE rep.errors])
    BY <2>2 DEF Truthful, Reports
  <2>5. ~HideErrors => \A q \in saved' : Truthful(q)
    BY <2>1, <2>3, <2>4
  <2>6. UNCHANGED progVars
    BY <1>1 DEF WriteReport
  <2>7. QED
    BY <2>5, <2>6, GateInv
    DEF GateInv, Gate, progVars, Refused, BlockingErrors, Issues, plan_deletions, Truthful
<1>2. ASSUME NEW a \in Options, Start(a) PROVE Gate'
  <2>1. /\ pc' = "read" /\ todo' = {} /\ requested' = {}
        /\ report' = [listed |-> {}, errors |-> {}, failed |-> {}]
        /\ UNCHANGED saved
    BY <1>2 DEF Start
  <2>2. QED BY <2>1 DEF GateInv, Gate, Executing, Truthful
<1>3. QED BY <1>1, <1>2

LEMMA GateProgram == GateInv /\ Program => Gate'
<1> SUFFICES ASSUME GateInv, Program PROVE Gate'
  OBVIOUS
<1> USE DEF GateInv
<1>1. CASE run_inventory \/ load_report
  BY <1>1, GateRead
<1>2. CASE Refuse \/ PlanOnly
  BY <1>2 DEF Refuse, PlanOnly, Exit, Gate, Executing, Refused, BlockingErrors, Issues,
      plan_deletions, Truthful
<1>3. CASE BeginExecution
  <2>1. /\ pc = "plan" /\ pc' = "run" /\ args.yes /\ ~Refused(report)
        /\ todo' = plan_deletions(report)
        /\ UNCHANGED <<saved, args, report, requested>>
    BY <1>3 DEF BeginExecution
  <2>2. requested = {}
    BY <2>1 DEF Gate, Executing
  <2>3. QED
    BY <2>1, <2>2
    DEF Gate, Executing, Refused, BlockingErrors, Issues, plan_deletions, Truthful
<1>4. ASSUME NEW r \in Resources,
             \/ DeleteMissing(r) \/ DeleteMisread(r) \/ DeleteRefused(r) \/ DeleteDone(r)
             \/ DeleteWaitFailed(r) \/ DeleteAccepted(r)
             \/ SenlinMissing(r) \/ SenlinUnavailable(r) \/ SenlinAccepted(r)
             \/ ListRouterPorts(r)
      PROVE  Gate'
  <2>1. Turn(r)
    BY <1>4
    DEF DeleteMissing, DeleteMisread, DeleteRefused, DeleteDone, DeleteWaitFailed, DeleteAccepted, ByCommand,
        SenlinMissing, SenlinUnavailable, SenlinAccepted, BySenlin, ListRouterPorts
  <2>2. pc = "run"
    BY <2>1 DEF Turn
  <2>3. pc' \in Executing
    BY <1>4, <2>2
    DEF DeleteMissing, DeleteMisread, DeleteRefused, DeleteDone, DeleteWaitFailed, DeleteAccepted,
        ThenWaitForStack, SenlinMissing, SenlinUnavailable, SenlinAccepted, ListRouterPorts,
        Executing
  <2>4. QED BY <2>1, <2>3, GateTurn
<1>5. ASSUME NEW r \in Resources,
             \/ wait_for_stack_delete(r) \/ delete_senlin_resource(r)
             \/ RemoveRouterPort(r) \/ delete_router(r)
      PROVE  Gate'
  BY <1>5, GateUnmoved
  DEF wait_for_stack_delete, delete_senlin_resource, RemoveRouterPort, delete_router, Executing
<1>6. CASE UnsetGateway \/ FinishExecution \/ Verify
  BY <1>6, GateUnmoved DEF UnsetGateway, FinishExecution, Verify, Exit, Executing
<1>7. QED BY <1>1, <1>2, <1>3, <1>4, <1>5, <1>6 DEF Program

LEMMA GateStep == GateInv /\ [Next]_vars => GateInv'
<1> SUFFICES ASSUME GateInv, [Next]_vars PROVE Gate'
  BY TypeStep DEF GateInv
<1>1. CASE Cloud \/ UNCHANGED vars
  <2>1. UNCHANGED <<progVars, saved>>
    BY <1>1 DEF Cloud, CloudDeletes, CloudFails, CloudCreates, vars
  <2>2. QED BY <2>1, GateUnmoved DEF GateInv, progVars, Executing
<1>2. CASE Killed
  BY <1>2 DEF Killed, Exit, GateInv, Gate, Executing, Refused, BlockingErrors, Issues,
      plan_deletions, Truthful
<1>3. QED BY <1>1, <1>2, GateProgram, GateOperator DEF Next

(* Unless reports are written with --hide-errors, main() deletes nothing from *)
(* an inventory that is incomplete or that it does not understand, for any   *)
(* resources, any failures and any number of runs.                           *)
THEOREM RefusesIncompleteInventories == ~HideErrors => (Spec => []CompleteInventoryOnly)
<1> SUFFICES ASSUME ~HideErrors PROVE Spec => []CompleteInventoryOnly
  OBVIOUS
<1>1. Init => GateInv
  BY TypeInit, GateInit DEF GateInv
<1>2. GateInv => CompleteInventoryOnly
  <2> SUFFICES ASSUME GateInv, requested # {}
               PROVE  /\ args.yes
                      /\ requested \subseteq plan_deletions(report)
                      /\ Issues(report) = {}
                      /\ args.allow = "none" => report.failed = {}
    BY DEF CompleteInventoryOnly
  <2>1. args.yes /\ BlockingErrors(report) = {} /\ Issues(report) = {}
    BY DEF GateInv, Gate, Refused
  <2>2. args.allow = "none" => BlockingErrors(report) = report.errors
    BY DEF BlockingErrors
  <2>3. report.errors = report.failed
    BY DEF GateInv, Gate, Truthful
  <2>4. QED BY <2>1, <2>2, <2>3 DEF GateInv, Gate
<1>3. QED BY <1>1, <1>2, GateStep, PTL DEF Spec

-----------------------------------------------------------------------------
(* Resources only come into existence, once, by being created.               *)

LEMMA ProgramOnlyRemoves ==
    ASSUME TypeOK, Program, NEW q \in Resources
    PROVE  cloud'[q] = cloud[q] \/ (Exists(q) /\ cloud'[q] = "deleting") \/ cloud'[q] = "absent"
<1> USE DEF TypeOK, Exists
<1>1. CASE \/ run_inventory \/ load_report \/ Refuse \/ PlanOnly \/ BeginExecution
           \/ UnsetGateway \/ FinishExecution \/ Verify
  BY <1>1
  DEF run_inventory, load_report, Refuse, PlanOnly, BeginExecution, UnsetGateway,
      FinishExecution, Verify
<1>2. ASSUME NEW r \in Resources,
             \/ DeleteMissing(r) \/ DeleteMisread(r) \/ DeleteRefused(r) \/ DeleteDone(r)
             \/ DeleteWaitFailed(r) \/ DeleteAccepted(r)
      PROVE  cloud'[q] = cloud[q] \/ (Exists(q) /\ cloud'[q] = "deleting") \/ cloud'[q] = "absent"
  BY <1>2 DEF DeleteMissing, DeleteMisread, DeleteRefused, DeleteDone, DeleteWaitFailed, DeleteAccepted
<1>3. ASSUME NEW r \in Resources,
             \/ SenlinMissing(r) \/ SenlinUnavailable(r) \/ SenlinAccepted(r)
             \/ wait_for_stack_delete(r) \/ delete_senlin_resource(r)
      PROVE  cloud'[q] = cloud[q] \/ (Exists(q) /\ cloud'[q] = "deleting") \/ cloud'[q] = "absent"
  BY <1>3
  DEF SenlinMissing, SenlinUnavailable, SenlinAccepted, wait_for_stack_delete,
      delete_senlin_resource
<1>4. ASSUME NEW r \in Resources, ListRouterPorts(r) \/ RemoveRouterPort(r) \/ delete_router(r)
      PROVE  cloud'[q] = cloud[q] \/ (Exists(q) /\ cloud'[q] = "deleting") \/ cloud'[q] = "absent"
  BY <1>4 DEF ListRouterPorts, RemoveRouterPort, delete_router
<1>5. QED BY <1>1, <1>2, <1>3, <1>4 DEF Program

LEMMA BornOnce ==
    ASSUME TypeOK, [Next]_vars, NEW q \in Resources
    PROVE  /\ cloud[q] # "unborn" => cloud'[q] # "unborn"
           /\ cloud[q] = "absent" => cloud'[q] = "absent"
<1> USE DEF TypeOK, Exists
<1>1. CASE Program
  BY <1>1, ProgramOnlyRemoves
<1>2. ASSUME NEW r \in Resources, CloudDeletes(r) \/ CloudFails(r)
      PROVE  /\ cloud[q] # "unborn" => cloud'[q] # "unborn"
             /\ cloud[q] = "absent" => cloud'[q] = "absent"
  BY <1>2 DEF CloudDeletes, CloudFails
<1>3. ASSUME NEW c \in Resources, NEW r \in Resources, CloudCreates(c, r)
      PROVE  /\ cloud[q] # "unborn" => cloud'[q] # "unborn"
             /\ cloud[q] = "absent" => cloud'[q] = "absent"
  BY <1>3 DEF CloudCreates
<1>4. CASE \/ Killed \/ UNCHANGED vars
           \/ \E strict \in BOOLEAN, hide \in {FALSE, HideErrors} : WriteReport(strict, hide)
           \/ \E a \in Options : Start(a)
  BY <1>4 DEF Killed, vars, WriteReport, Start
<1>5. QED BY <1>1, <1>2, <1>3, <1>4 DEF Next, Cloud

-----------------------------------------------------------------------------
(* Reports name resources that were there.                                   *)

Born(S) == \A r \in S : cloud[r] # "unborn"

ReportsBorn == Born(report.listed) /\ \A rep \in saved : Born(rep.listed)

LEMMA ReportsBornStep ==
    ASSUME TypeOK, ReportsBorn, [Next]_vars
    PROVE  ReportsBorn'
<1>1. ASSUME NEW S \in SUBSET Resources, Born(S) PROVE \A r \in S : cloud'[r] # "unborn"
  BY <1>1, BornOnce DEF Born
<1>2. \A rep \in Inventory : rep \in Reports /\ Born(rep.listed)
  BY InventoryFacts DEF Existing, Exists, Born
<1>3. \/ report' = report
      \/ report'.listed = {}
      \/ report' \in saved
      \/ report' \in Inventory
  <2>1. CASE run_inventory \/ load_report
    BY <2>1 DEF run_inventory, load_report, Accept
  <2>2. CASE Program /\ ~run_inventory /\ ~load_report
    BY <2>2
    DEF Program, Refuse, PlanOnly, BeginExecution, UnsetGateway, FinishExecution, Verify,
        DeleteMissing, DeleteMisread, DeleteRefused, DeleteDone, DeleteWaitFailed, DeleteAccepted, ByCommand,
        Turn, SenlinMissing, SenlinUnavailable, SenlinAccepted, BySenlin, wait_for_stack_delete,
        delete_senlin_resource, ListRouterPorts, RemoveRouterPort, delete_router
  <2>3. CASE \/ Cloud \/ Killed \/ UNCHANGED vars
             \/ \E strict \in BOOLEAN, hide \in {FALSE, HideErrors} : WriteReport(strict, hide)
    BY <2>3
    DEF Cloud, CloudDeletes, CloudFails, CloudCreates, Killed, vars, progVars, WriteReport
  <2>4. CASE \E a \in Options : Start(a)
    BY <2>4 DEF Start
  <2>5. QED BY <2>1, <2>2, <2>3, <2>4 DEF Next
<1>4. \A rep \in saved' : rep \in saved \/ \E q \in Inventory : rep.listed = q.listed
  <2>1. CASE \E strict \in BOOLEAN, hide \in {FALSE, HideErrors} : WriteReport(strict, hide)
    <3>1. PICK strict \in BOOLEAN, hide \in {FALSE, HideErrors} : WriteReport(strict, hide)
      BY <2>1
    <3>2. PICK q \in Inventory :
              saved' = IF strict /\ q.failed # {} THEN {}
                       ELSE {[q EXCEPT !.errors = IF hide THEN {} ELSE q.errors]}
      BY <3>1 DEF WriteReport
    <3>3. [q EXCEPT !.errors = IF hide THEN {} ELSE q.errors].listed = q.listed
      BY <1>2 DEF Reports
    <3>4. QED BY <3>2, <3>3
  <2>2. CASE Program
    BY <2>2
    DEF Program, run_inventory, load_report, Refuse, PlanOnly, BeginExecution, UnsetGateway,
        FinishExecution, Verify,
        DeleteMissing, DeleteMisread, DeleteRefused, DeleteDone, DeleteWaitFailed, DeleteAccepted, ByCommand,
        Turn, SenlinMissing, SenlinUnavailable, SenlinAccepted, BySenlin, wait_for_stack_delete,
        delete_senlin_resource, ListRouterPorts, RemoveRouterPort, delete_router
  <2>3. CASE Cloud \/ Killed \/ UNCHANGED vars \/ \E a \in Options : Start(a)
    BY <2>3 DEF Cloud, CloudDeletes, CloudFails, CloudCreates, Killed, vars, Start
  <2>4. QED BY <2>1, <2>2, <2>3 DEF Next
<1>5. \A r \in report'.listed : cloud'[r] # "unborn"
  <2>1. CASE report' = report
    BY <2>1, <1>1, TypeOK DEF TypeOK, Reports, ReportsBorn
  <2>2. CASE report' \in saved
    BY <2>2, <1>1, TypeOK DEF TypeOK, Reports, ReportsBorn
  <2>3. CASE report' \in Inventory
    BY <2>3, <1>1, <1>2 DEF Reports
  <2>4. QED BY <1>3, <2>1, <2>2, <2>3
<1>6. \A rep \in saved' : \A r \in rep.listed : cloud'[r] # "unborn"
  <2> SUFFICES ASSUME NEW rep \in saved' PROVE \A r \in rep.listed : cloud'[r] # "unborn"
    OBVIOUS
  <2>1. CASE rep \in saved
    BY <2>1, <1>1, TypeOK DEF TypeOK, Reports, ReportsBorn
  <2>2. ASSUME NEW q \in Inventory, rep.listed = q.listed
        PROVE  \A r \in rep.listed : cloud'[r] # "unborn"
    BY <2>2, <1>1, <1>2 DEF Reports
  <2>3. QED BY <1>4, <2>1, <2>2
<1>7. QED BY <1>5, <1>6 DEF ReportsBorn, Born

-----------------------------------------------------------------------------
(* The books of execute_plan: what is planned is still to do, being waited   *)
(* for, gone, only asked for, taken for gone, or an error was noted.         *)

Settled(r) == cloud[r] = "absent" \/ Kind[r] \in Unwaited \/ r \in misread

Progress ==
    /\ pc \in Executing =>
          \A r \in plan_deletions(report) : r \in todo \cup current \/ errors \/ Settled(r)
    /\ \A p, q \in current : p = q
    /\ Born(current)
    /\ pc \in {"idle", "read", "plan", "run", "verify"} => current = {}
    /\ pc = "verify" => todo = {} /\ ~errors
    /\ pc # "exited" => exit # 0
    /\ exit = 0 /\ args.yes => \A r \in plan_deletions(report) : Settled(r)

ProgressInv == TypeOK /\ ReportsBorn /\ Progress

LEMMA PlannedAreResources == TypeOK => plan_deletions(report) \subseteq Resources
  BY DEF TypeOK, Reports, plan_deletions

LEMMA StaySettled ==
    ASSUME ProgressInv, [Next]_vars, NEW r \in plan_deletions(report), Settled(r),
           misread \subseteq misread'
    PROVE  Settled(r)'
  BY BornOnce, PlannedAreResources DEF ProgressInv, Settled

LEMMA ProgressInit == Init => ProgressInv
  BY TypeInit DEF Init, ProgressInv, ReportsBorn, Born, Progress, Executing, plan_deletions

(* Steps that leave the invocation alone.                                    *)
LEMMA ProgressUnmoved ==
    ASSUME ProgressInv, [Next]_vars, UNCHANGED progVars
    PROVE  Progress'
<1>1. plan_deletions(report)' = plan_deletions(report)
  BY DEF progVars, plan_deletions
<1>2. \A r \in plan_deletions(report) : Settled(r) => Settled(r)'
  BY StaySettled DEF progVars
<1>3. \A r \in current : cloud'[r] # "unborn"
  BY BornOnce DEF ProgressInv, TypeOK, Progress, Born
<1>4. QED BY <1>1, <1>2, <1>3 DEF ProgressInv, Progress, progVars, Born

(* A step that attempts one operation: r is gone, only asked for, being      *)
(* waited for, or noted as an error.                                         *)
LEMMA ProgressTurn ==
    ASSUME ProgressInv, [Next]_vars, NEW r \in Resources, Turn(r),
           cloud[r] # "unborn", errors => errors', misread \subseteq misread',
           \/ pc' = "run" /\ UNCHANGED current /\ (errors' \/ Settled(r)')
           \/ pc' \in Executing \ {"run", "verify"} /\ current' = {r}
    PROVE  Progress'
<1>1. /\ pc = "run" /\ todo' = todo \ {r} /\ UNCHANGED <<report, args, exit>>
  BY DEF Turn
<1>2. plan_deletions(report)' = plan_deletions(report)
  BY <1>1 DEF plan_deletions
<1>3. current = {} /\ exit # 0
  BY <1>1 DEF ProgressInv, Progress
<1>4. \A q \in plan_deletions(report) : q \in todo \/ errors \/ Settled(q)
  BY <1>1, <1>3 DEF ProgressInv, Progress, Executing
<1>5. \A q \in plan_deletions(report) : q \in todo' \cup current' \/ errors' \/ Settled(q)'
  BY <1>1, <1>4, StaySettled
<1>6. pc' \in Executing /\ pc' # "verify"
  BY DEF Executing
<1>7. \A q \in current' : cloud'[q] # "unborn"
  BY <1>3, BornOnce DEF ProgressInv
<1>8. QED BY <1>1, <1>2, <1>3, <1>5, <1>6, <1>7 DEF Progress, Executing, Born

(* A step that goes on with the operation being waited for, or ends it.      *)
LEMMA ProgressCurrent ==
    ASSUME ProgressInv, [Next]_vars, pc \in Executing \ {"run", "verify"},
           UNCHANGED <<todo, report, args, exit>>,
           errors => errors', misread \subseteq misread',
           \/ pc' \in Executing \ {"run", "verify"} /\ UNCHANGED current
           \/ /\ pc' = "run" /\ current' = {}
              /\ \E r \in current : errors' \/ Settled(r)'
    PROVE  Progress'
<1>1. plan_deletions(report)' = plan_deletions(report)
  BY DEF plan_deletions
<1>2. \A q \in plan_deletions(report) : q \in todo \cup current \/ errors \/ Settled(q)
  BY DEF ProgressInv, Progress
<1>3. \A p, q \in current : p = q
  BY DEF ProgressInv, Progress
<1>4. \A q \in plan_deletions(report) : q \in todo' \cup current' \/ errors' \/ Settled(q)'
  BY <1>2, <1>3, StaySettled
<1>5. exit # 0
  BY DEF ProgressInv, Progress, Executing
<1>6. \A q \in current' : cloud'[q] # "unborn"
  BY BornOnce DEF ProgressInv, TypeOK, Progress, Born
<1>7. QED BY <1>1, <1>3, <1>4, <1>5, <1>6 DEF Progress, Executing, Born

LEMMA NotExistsSettled ==
    ASSUME TypeOK, NEW r \in Resources, cloud[r] # "unborn", ~Exists(r), UNCHANGED cloud
    PROVE  Settled(r)'
  BY DEF TypeOK, Exists, Settled

LEMMA ProgressExecute ==
    ASSUME ProgressInv, Gate, [Next]_vars, NEW r \in Resources,
           \/ DeleteMissing(r) \/ DeleteMisread(r) \/ DeleteRefused(r) \/ DeleteDone(r)
           \/ DeleteWaitFailed(r) \/ DeleteAccepted(r)
           \/ SenlinMissing(r) \/ SenlinUnavailable(r) \/ SenlinAccepted(r)
           \/ ListRouterPorts(r)
    PROVE  Progress'
<1>1. Turn(r)
  BY DEF DeleteMissing, DeleteMisread, DeleteRefused, DeleteDone, DeleteWaitFailed, DeleteAccepted, ByCommand,
         SenlinMissing, SenlinUnavailable, SenlinAccepted, BySenlin, ListRouterPorts
<1>2. pc = "run" /\ cloud[r] # "unborn"
  BY <1>1 DEF Turn, Gate, plan_deletions, ProgressInv, ReportsBorn, Born
<1>3. TypeOK /\ misread \subseteq misread'
  BY DEF ProgressInv, DeleteMissing, DeleteMisread, DeleteRefused, DeleteDone, DeleteWaitFailed,
         DeleteAccepted, SenlinMissing, SenlinUnavailable, SenlinAccepted, ListRouterPorts
<1>14. CASE DeleteMisread(r) /\ Kind[r] # "stack"
  <2>1. pc' = "run" /\ UNCHANGED <<current, errors>> /\ Settled(r)'
    BY <1>2, <1>14 DEF DeleteMisread, ThenWaitForStack, Settled
  <2>2. QED BY <1>1, <1>2, <1>3, <2>1, ProgressTurn
<1>15. CASE DeleteMisread(r) /\ Kind[r] = "stack"
  <2>1. pc' = "stack" /\ current' = {r} /\ UNCHANGED errors
    BY <1>15 DEF DeleteMisread, ThenWaitForStack
  <2>2. QED BY <1>1, <1>2, <1>3, <2>1, ProgressTurn DEF Executing
<1>4. CASE DeleteMissing(r) /\ Kind[r] # "stack"
  <2>1. Settled(r)'
    BY <1>2, <1>3, <1>4, NotExistsSettled DEF DeleteMissing
  <2>2. pc' = "run" /\ UNCHANGED <<current, errors>>
    BY <1>2, <1>4 DEF DeleteMissing, ThenWaitForStack
  <2>3. QED BY <1>1, <1>2, <1>3, <2>1, <2>2, ProgressTurn
<1>5. CASE DeleteMissing(r) /\ Kind[r] = "stack"
  <2>1. pc' = "stack" /\ current' = {r} /\ UNCHANGED errors
    BY <1>5 DEF DeleteMissing, ThenWaitForStack
  <2>2. QED BY <1>1, <1>2, <1>3, <2>1, ProgressTurn DEF Executing
<1>6. CASE DeleteRefused(r) \/ DeleteWaitFailed(r) \/ SenlinUnavailable(r)
  <2>1. pc' = "run" /\ UNCHANGED current /\ errors' = TRUE
    BY <1>2, <1>6 DEF DeleteRefused, DeleteWaitFailed, SenlinUnavailable
  <2>2. QED BY <1>1, <1>2, <1>3, <2>1, ProgressTurn
<1>7. CASE DeleteDone(r)
  <2>1. pc' = "run" /\ UNCHANGED <<current, errors>> /\ Settled(r)'
    BY <1>2, <1>3, <1>7 DEF DeleteDone, Settled, TypeOK
  <2>2. QED BY <1>1, <1>2, <1>3, <2>1, ProgressTurn
<1>8. CASE DeleteAccepted(r) /\ Kind[r] = "stack"
  <2>1. pc' = "stack" /\ current' = {r} /\ UNCHANGED errors
    BY <1>8 DEF DeleteAccepted, ThenWaitForStack
  <2>2. QED BY <1>1, <1>2, <1>3, <2>1, ProgressTurn DEF Executing
<1>9. CASE DeleteAccepted(r) /\ Kind[r] # "stack"
  <2>1. pc' = "run" /\ UNCHANGED <<current, errors>> /\ Settled(r)'
    BY <1>2, <1>9 DEF DeleteAccepted, ThenWaitForStack, Settled
  <2>2. QED BY <1>1, <1>2, <1>3, <2>1, ProgressTurn
<1>10. CASE SenlinMissing(r)
  <2>1. Settled(r)'
    BY <1>2, <1>3, <1>10, NotExistsSettled DEF SenlinMissing
  <2>2. pc' = "run" /\ UNCHANGED <<current, errors>>
    BY <1>2, <1>10 DEF SenlinMissing
  <2>3. QED BY <1>1, <1>2, <1>3, <2>1, <2>2, ProgressTurn
<1>11. CASE SenlinAccepted(r)
  <2>1. pc' = "senlin" /\ current' = {r} /\ UNCHANGED errors
    BY <1>11 DEF SenlinAccepted
  <2>2. QED BY <1>1, <1>2, <1>3, <2>1, ProgressTurn DEF Executing
<1>12. CASE ListRouterPorts(r)
  <2>1. \/ pc' = "router" /\ current' = {r} /\ UNCHANGED errors
        \/ pc' = "run" /\ UNCHANGED current /\ errors' = TRUE
    BY <1>2, <1>12 DEF ListRouterPorts
  <2>2. QED BY <1>1, <1>2, <1>3, <2>1, ProgressTurn DEF Executing
<1>13. QED BY <1>4, <1>5, <1>6, <1>7, <1>8, <1>9, <1>10, <1>11, <1>12, <1>14, <1>15

LEMMA ProgressWaits ==
    ASSUME ProgressInv, [Next]_vars, NEW r \in Resources,
           \/ wait_for_stack_delete(r) \/ delete_senlin_resource(r)
           \/ RemoveRouterPort(r) \/ delete_router(r)
    PROVE  Progress'
<1>1. TypeOK /\ Born(current)
  BY DEF ProgressInv, Progress
<1>2. CASE wait_for_stack_delete(r) \/ delete_senlin_resource(r)
  <2>1. /\ pc \in {"stack", "senlin"} /\ r \in current
        /\ pc' = "run" /\ current' = {}
        /\ UNCHANGED <<cloud, todo, report, args, exit>> /\ misread \subseteq misread'
        /\ \/ ~Exists(r) /\ UNCHANGED errors
           \/ errors' = TRUE
           \/ r \in misread' /\ UNCHANGED errors
    BY <1>2 DEF wait_for_stack_delete, delete_senlin_resource, WaitSucceeds, WaitFails, Misread
  <2>2. ~Exists(r) \/ r \in misread' => Settled(r)'
    BY <1>1, <2>1, NotExistsSettled DEF Born, Settled
  <2>3. \E q \in current : errors' \/ Settled(q)'
    BY <2>1, <2>2
  <2>4. QED BY <2>1, <2>3, ProgressCurrent DEF Executing
<1>3. CASE RemoveRouterPort(r)
  <2>1. /\ pc = "router" /\ UNCHANGED <<pc, current, todo, report, args, exit, misread>>
        /\ errors => errors'
    BY <1>3 DEF RemoveRouterPort
  <2>2. QED BY <2>1, ProgressCurrent DEF Executing
<1>4. CASE delete_router(r)
  <2>1. /\ pc = "gateway" /\ r \in current
        /\ pc' = "run" /\ current' = {}
        /\ UNCHANGED <<todo, report, args, exit>> /\ misread \subseteq misread'
        /\ \/ /\ cloud' = [cloud EXCEPT ![r] = IF Exists(r) THEN "absent" ELSE cloud[r]]
              /\ UNCHANGED errors
           \/ errors' = TRUE
           \/ r \in misread' /\ UNCHANGED errors
    BY <1>4 DEF delete_router, Misread
  <2>2. errors' = TRUE \/ Settled(r)'
    BY <1>1, <2>1 DEF TypeOK, Born, Exists, Settled
  <2>3. \E q \in current : errors' \/ Settled(q)'
    BY <2>1, <2>2
  <2>4. QED BY <2>1, <2>3, ProgressCurrent DEF Executing
<1>5. QED BY <1>2, <1>3, <1>4

LEMMA ProgressProgram ==
    ASSUME ProgressInv, Gate, [Next]_vars, Program
    PROVE  Progress'
<1>1. CASE run_inventory \/ load_report
  <2>1. /\ pc = "read" /\ pc' \in {"plan", "exited"} /\ exit' \in {exit, 2}
        /\ UNCHANGED <<current, args>>
    BY <1>1 DEF run_inventory, load_report, Accept, Exit
  <2>2. current' = {} /\ exit' # 0
    BY <2>1 DEF ProgressInv, Progress
  <2>3. QED BY <2>1, <2>2 DEF Progress, Executing, Born
<1>2. CASE Refuse \/ PlanOnly
  <2>1. /\ pc = "plan" /\ pc' = "exited" /\ UNCHANGED <<current, args, report>>
        /\ \/ exit' = 2
           \/ plan_deletions(report) = {} \/ ~args.yes
    BY <1>2 DEF Refuse, PlanOnly, Exit
  <2>2. current' = {}
    BY <2>1 DEF ProgressInv, Progress
  <2>3. plan_deletions(report)' = plan_deletions(report)
    BY <2>1 DEF plan_deletions
  <2>4. QED BY <2>1, <2>2, <2>3 DEF Progress, Executing, Born
<1>3. CASE BeginExecution
  <2>1. /\ pc = "plan" /\ pc' = "run" /\ todo' = plan_deletions(report)
        /\ UNCHANGED <<current, args, report, exit>>
    BY <1>3 DEF BeginExecution
  <2>2. current' = {} /\ exit' # 0
    BY <2>1 DEF ProgressInv, Progress
  <2>3. plan_deletions(report)' = todo'
    BY <2>1 DEF plan_deletions
  <2>4. QED BY <2>1, <2>2, <2>3 DEF Progress, Executing, Born
<1>4. CASE UnsetGateway
  <2>1. /\ pc = "router" /\ pc' = "gateway"
        /\ UNCHANGED <<current, todo, report, args, exit, misread>>
        /\ errors => errors'
    BY <1>4 DEF UnsetGateway
  <2>2. QED BY <2>1, ProgressCurrent DEF Executing
<1>5. CASE FinishExecution \/ Verify
  <2>1. /\ pc \in {"run", "verify"} /\ UNCHANGED <<cloud, current, todo, report, args, errors, misread>>
        /\ pc = "run" => todo = {}
        /\ \/ pc' = "exited" /\ exit' \in {2, 3}
           \/ pc' = "exited" /\ (pc = "run" => ~errors)
           \/ pc' = "verify" /\ ~errors /\ UNCHANGED exit
    BY <1>5 DEF FinishExecution, Verify, Exit
  <2>2. current = {} /\ exit # 0 /\ (pc = "verify" => todo = {} /\ ~errors)
    BY <2>1 DEF ProgressInv, Progress
  <2>3. \A r \in plan_deletions(report) : errors \/ Settled(r)
    BY <2>1, <2>2 DEF ProgressInv, Progress, Executing
  <2>4. plan_deletions(report)' = plan_deletions(report) /\ \A r : Settled(r) => Settled(r)'
    BY <2>1 DEF plan_deletions, Settled
  <2>5. QED BY <2>1, <2>2, <2>3, <2>4 DEF Progress, Executing, Born
<1>6. QED BY <1>1, <1>2, <1>3, <1>4, <1>5, ProgressExecute, ProgressWaits DEF Program

CleanInv == GateInv /\ ReportsBorn /\ Progress

LEMMA CleanStep == CleanInv /\ [Next]_vars => CleanInv'
<1> SUFFICES ASSUME CleanInv, [Next]_vars PROVE CleanInv'
  OBVIOUS
<1>1. ProgressInv /\ Gate /\ TypeOK
  BY DEF CleanInv, GateInv, ProgressInv
<1>2. GateInv' /\ ReportsBorn'
  BY GateStep, ReportsBornStep, <1>1 DEF CleanInv
<1>3. Progress'
  <2>1. CASE Program
    BY <2>1, <1>1, ProgressProgram
  <2>2. CASE \/ Cloud \/ UNCHANGED vars
             \/ \E strict \in BOOLEAN, hide \in {FALSE, HideErrors} : WriteReport(strict, hide)
    <3>1. UNCHANGED progVars
      BY <2>2 DEF Cloud, CloudDeletes, CloudFails, CloudCreates, WriteReport, vars
    <3>2. QED BY <3>1, <1>1, ProgressUnmoved
  <2>3. CASE Killed
    <3>1. pc' = "exited" /\ exit' # 0 /\ UNCHANGED <<cloud, current>>
      BY <2>3 DEF Killed, Exit
    <3>2. QED BY <3>1, <1>1 DEF ProgressInv, Progress, Executing, Born
  <2>4. CASE \E a \in Options : Start(a)
    <3>1. pc' = "read" /\ exit' # 0 /\ current' = {}
      BY <2>4 DEF Start
    <3>2. QED BY <3>1 DEF Progress, Executing, Born
  <2>5. QED BY <2>1, <2>2, <2>3, <2>4 DEF Next
<1>4. QED BY <1>2, <1>3 DEF CleanInv

(* When main() returns 0 from a deletion, everything listed is gone, except   *)
(* the kinds that the CLI deletes without waiting and the resources that     *)
(* _missing_output took a failing command to call missing: no timeout, other *)
(* failed wait, refused call or restart is mistaken for success.             *)
THEOREM ExitZeroMeansGone == Spec => []CleanExit
<1>1. Init => CleanInv
  BY TypeInit, GateInit, ProgressInit DEF CleanInv, GateInv, ProgressInv
<1>2. CleanInv => CleanExit
  <2> SUFFICES ASSUME CleanInv, exit = 0, args.yes, NEW r \in plan_deletions(report)
               PROVE  ~Exists(r) \/ Kind[r] \in Unwaited \/ r \in misread
    BY DEF CleanExit
  <2>1. Settled(r)
    BY DEF CleanInv, Progress
  <2>2. QED BY <2>1 DEF Settled, Exists
<1>3. QED BY <1>1, <1>2, CleanStep, PTL DEF Spec

-----------------------------------------------------------------------------
(* Verification.                                                             *)

VerifiedInv == TypeOK /\ (verified => pc = "exited") /\ VerifiedStaysEmpty

LEMMA ExistenceNeedsCreation ==
    ASSUME TypeOK, [Next]_vars, NEW q \in Resources, Exists(q)', ~Exists(q)
    PROVE  \E c \in Resources : Kind[c] \in Creators /\ Exists(c)
<1>1. CASE Program
  BY <1>1, ProgramOnlyRemoves DEF Exists
<1>2. ASSUME NEW r \in Resources, CloudDeletes(r) \/ CloudFails(r) PROVE FALSE
  BY <1>2 DEF CloudDeletes, CloudFails, TypeOK, Exists
<1>3. ASSUME NEW c \in Resources, NEW r \in Resources, CloudCreates(c, r)
      PROVE  Kind[c] \in Creators /\ Exists(c)
  BY <1>3 DEF CloudCreates
<1>4. CASE \/ Killed \/ UNCHANGED vars
           \/ \E strict \in BOOLEAN, hide \in {FALSE, HideErrors} : WriteReport(strict, hide)
           \/ \E a \in Options : Start(a)
  BY <1>4 DEF Killed, vars, WriteReport, Start, Exists
<1>5. QED BY <1>1, <1>2, <1>3, <1>4 DEF Next, Cloud

LEMMA VerifyFindsNothing ==
    ASSUME TypeOK, Verify, verified', args.allow = "none", ~verified, ~blind', NEW r \in Existing
    PROVE  Kind[r] \in COVERED_CHILD_RESOURCES
<1>1. PICK rep \in Inventory : /\ ~StrictFailure(rep) /\ ~Refused(rep) /\ Remaining(rep) = {}
                              /\ blind' = (rep.failed = {} /\ ~(Existing \subseteq rep.listed))
  BY DEF Verify
<1>2. Existing \subseteq rep.listed
  BY <1>1 DEF StrictFailure
<1>3. Issues(rep) = {} /\ plan_deletions(rep) = {}
  BY <1>1 DEF Refused, Remaining
<1>4. QED BY <1>2, <1>3 DEF Issues, plan_deletions

LEMMA VerifiedStep == VerifiedInv /\ [Next]_vars => VerifiedInv'
<1> SUFFICES ASSUME VerifiedInv, [Next]_vars PROVE VerifiedInv'
  OBVIOUS
<1>1. TypeOK /\ TypeOK'
  BY TypeStep DEF VerifiedInv
<1>2. CASE verified /\ verified'
  <2>1. pc = "exited" /\ ~Program
    BY <1>2
    DEF VerifiedInv, Program, run_inventory, load_report, Refuse, PlanOnly, BeginExecution,
        UnsetGateway, FinishExecution, Verify,
        DeleteMissing, DeleteMisread, DeleteRefused, DeleteDone, DeleteWaitFailed, DeleteAccepted, ByCommand,
        Turn, SenlinMissing, SenlinUnavailable, SenlinAccepted, BySenlin, wait_for_stack_delete,
        delete_senlin_resource, ListRouterPorts, RemoveRouterPort, delete_router
  <2>2. UNCHANGED progVars
    BY <1>2, <2>1
    DEF Next, Cloud, CloudDeletes, CloudFails, CloudCreates, Killed, WriteReport, Start, vars
  <2>3. args.allow = "none" /\ ~blind => \A q \in Resources : Exists(q) => Kind[q] \notin Creators
    BY <1>2 DEF VerifiedInv, VerifiedStaysEmpty, Existing, COVERED_CHILD_RESOURCES, Creators
  <2>4. args.allow = "none" /\ ~blind => \A q \in Resources : Exists(q)' => Exists(q)
    BY <2>3, <1>1, ExistenceNeedsCreation
  <2>5. VerifiedStaysEmpty'
    BY <2>2, <2>4, <1>2 DEF VerifiedInv, VerifiedStaysEmpty, Existing, progVars
  <2>6. QED BY <1>1, <2>1, <2>2, <2>5 DEF VerifiedInv, progVars
<1>3. CASE ~verified /\ verified'
  <2>1. Verify
    BY <1>3
    DEF Next, Program, run_inventory, load_report, Refuse, PlanOnly, BeginExecution,
        UnsetGateway, FinishExecution,
        DeleteMissing, DeleteMisread, DeleteRefused, DeleteDone, DeleteWaitFailed, DeleteAccepted, ByCommand,
        Turn, SenlinMissing, SenlinUnavailable, SenlinAccepted, BySenlin, wait_for_stack_delete,
        delete_senlin_resource, ListRouterPorts, RemoveRouterPort, delete_router,
        Cloud, CloudDeletes, CloudFails, CloudCreates, Killed, WriteReport, Start, vars, progVars
  <2>2. UNCHANGED <<cloud, args>> /\ pc' = "exited"
    BY <2>1 DEF Verify, Exit
  <2>3. args.allow = "none" /\ ~blind' =>
            \A r \in Existing : Kind[r] \in COVERED_CHILD_RESOURCES
    BY <1>1, <1>3, <2>1, VerifyFindsNothing
  <2>4. QED BY <1>1, <2>2, <2>3 DEF VerifiedInv, VerifiedStaysEmpty, Existing, Exists
<1>4. CASE ~verified'
  BY <1>1, <1>4 DEF VerifiedInv, VerifiedStaysEmpty
<1>5. QED BY <1>1, <1>2, <1>3, <1>4

(* After main() printed that no project resources remain, none remain and    *)
(* none appear, for any number of resources and creators, unless the listing *)
(* behind it dropped a kind without an error.                                *)
THEOREM VerifiedProjectsStayEmpty == Spec => []VerifiedStaysEmpty
<1>1. Init => VerifiedInv
  BY TypeInit DEF Init, VerifiedInv, VerifiedStaysEmpty
<1>2. VerifiedInv => VerifiedStaysEmpty
  BY DEF VerifiedInv
<1>3. QED BY <1>1, <1>2, VerifiedStep, PTL DEF Spec

-----------------------------------------------------------------------------
(* The order of the operations.                                              *)

(* The ports of the router are there for as long as they are plugged, and so  *)
(* is the router; neither is ever deleted behind the program's back.         *)
Wired ==
    /\ \A p \in plugged : Kind[p] = "port" /\ Exists(p)
    /\ plugged # {} => \E r \in Resources : Kind[r] = "router" /\ Exists(r)
    /\ \A p \in ports : Kind[p] = "port"
    /\ pc \in {"router", "gateway"} => \A r \in current : Kind[r] = "router"
    /\ pc = "gateway" => ports = {}
    /\ \A r \in Resources :
          cloud[r] \in {"deleting", "failed"} => Kind[r] \notin {"port", "router"}

(* As long as nothing else disturbs the project, all there is was listed, and *)
(* the router has no ports but those still to be removed.                    *)
Undisturbed ==
    /\ pc \in {"idle", "read", "plan"} => ~errors
    /\ quiet => ~errors
    /\ pc \in {"idle", "read", "plan"} => misread = {}
    /\ quiet /\ pc \in Executing \cup {"plan"} => Existing \subseteq report.listed /\ misread = {}
    /\ quiet /\ pc \in {"router", "gateway"} => plugged \subseteq ports

LEMMA WiredInit == Init => Wired
<1> SUFFICES ASSUME Init PROVE Wired
  OBVIOUS
<1>1. /\ plugged \subseteq ExistingOf("port") /\ (plugged # {} => ExistingOf("router") # {})
      /\ pc = "idle" /\ ports = {}
  BY DEF Init
<1>2. \A r \in Resources : cloud[r] \in {"unborn", "present"}
  BY DEF Init
<1>3. QED BY <1>1, <1>2 DEF Wired, ExistingOf, Existing

LEMMA UndisturbedInit == Init => Undisturbed
  BY DEF Init, Undisturbed, Executing

(* Steps that take neither ports nor routers away.                           *)
LEMMA WiredUnmoved ==
    ASSUME Wired, TypeOK, UNCHANGED <<plugged, ports>>,
           \A q \in Resources : Kind[q] \in {"port", "router"} =>
               (cloud'[q] = cloud[q] \/ (cloud[q] = "unborn" /\ cloud'[q] = "present")),
           pc' \in {"router", "gateway"} => (UNCHANGED <<pc, current>>)
    PROVE  Wired'
<1>1. \A q \in Resources : Kind[q] \in {"port", "router"} /\ Exists(q) => Exists(q)'
  BY DEF Exists
<1>2. plugged \subseteq Resources
  BY DEF TypeOK
<1>3. \A r \in Resources :
          cloud'[r] \in {"deleting", "failed"} => Kind[r] \notin {"port", "router"}
  BY DEF Wired
<1>4. QED BY <1>1, <1>2, <1>3 DEF Wired

LEMMA WiredExecute ==
    ASSUME Wired, TypeOK, NEW r \in Resources,
           \/ DeleteMissing(r) \/ DeleteMisread(r) \/ DeleteRefused(r)
           \/ DeleteWaitFailed(r) \/ DeleteAccepted(r)
           \/ wait_for_stack_delete(r) \/ delete_senlin_resource(r)
           \/ SenlinMissing(r) \/ SenlinUnavailable(r) \/ SenlinAccepted(r)
    PROVE  Wired'
<1>1. UNCHANGED <<plugged, ports>>
  BY DEF DeleteMissing, DeleteMisread, DeleteRefused, DeleteWaitFailed, DeleteAccepted,
         wait_for_stack_delete, delete_senlin_resource,
         SenlinMissing, SenlinUnavailable, SenlinAccepted
<1>2. \/ UNCHANGED cloud
      \/ /\ cloud' = [cloud EXCEPT ![r] = "deleting"]
         /\ Kind[r] \in Asynchronous \cup Clustering
  BY DEF DeleteMissing, DeleteMisread, DeleteRefused, DeleteWaitFailed, DeleteAccepted,
         wait_for_stack_delete, delete_senlin_resource,
         SenlinMissing, SenlinUnavailable, SenlinAccepted, BySenlin, Asynchronous
<1>3. \A q \in Resources : Kind[q] \in {"port", "router"} => cloud'[q] = cloud[q]
  BY <1>2 DEF TypeOK, Asynchronous, Unwaited, Clustering
<1>4. pc' \notin {"router", "gateway"}
  BY DEF DeleteMissing, DeleteMisread, DeleteRefused, DeleteWaitFailed, DeleteAccepted, ByCommand, Turn,
         ThenWaitForStack, wait_for_stack_delete, delete_senlin_resource,
         SenlinMissing, SenlinUnavailable, SenlinAccepted, BySenlin
<1>5. QED BY <1>1, <1>3, <1>4, WiredUnmoved

LEMMA WiredDeleteDone ==
    ASSUME Wired, TypeOK, NEW r \in Resources, DeleteDone(r)
    PROVE  Wired'
<1>1. /\ pc' = "run" /\ UNCHANGED <<plugged, ports>>
      /\ cloud' = [cloud EXCEPT ![r] = "absent"]
      /\ ~InUse(r) /\ Kind[r] # "router"
  BY DEF DeleteDone, ByCommand, Turn
<1>2. Kind[r] = "port" => r \notin plugged
  BY <1>1 DEF InUse
<1>3. r \notin plugged
  BY <1>2 DEF Wired
<1>4. \A q \in Resources : q # r => cloud'[q] = cloud[q]
  BY <1>1 DEF TypeOK
<1>5. cloud'[r] = "absent"
  BY <1>1 DEF TypeOK
<1>6. \A q \in Resources : q # r /\ Exists(q) => Exists(q)'
  BY <1>4 DEF Exists
<1>7. plugged \subseteq Resources
  BY DEF TypeOK
<1>8. \A p \in plugged' : Kind[p] = "port" /\ Exists(p)'
  BY <1>1, <1>3, <1>6, <1>7 DEF Wired
<1>9. plugged' # {} => \E q \in Resources : Kind[q] = "router" /\ Exists(q)'
  BY <1>1, <1>6 DEF Wired
<1>10. \A q \in Resources :
          cloud'[q] \in {"deleting", "failed"} => Kind[q] \notin {"port", "router"}
  BY <1>4, <1>5 DEF Wired
<1>11. QED BY <1>1, <1>8, <1>9, <1>10 DEF Wired

LEMMA WiredRouter ==
    ASSUME Wired, TypeOK, NEW r \in Resources,
           ListRouterPorts(r) \/ RemoveRouterPort(r) \/ delete_router(r)
    PROVE  Wired'
<1>0. plugged \subseteq Resources
  BY DEF TypeOK
<1>1. CASE ListRouterPorts(r)
  <2>1. /\ UNCHANGED <<cloud, plugged>> /\ pc = "run" /\ Kind[r] = "router"
        /\ \/ ports' \subseteq plugged /\ pc' = "router" /\ current' = {r}
           \/ UNCHANGED <<ports, pc>>
    BY <1>1 DEF ListRouterPorts, Turn
  <2>2. \A p \in ports' : Kind[p] = "port"
    BY <2>1 DEF Wired
  <2>3. QED BY <2>1, <2>2 DEF Wired, Exists
<1>2. CASE RemoveRouterPort(r)
  <2>1. /\ pc = "router" /\ r \in ports /\ ports' = ports \ {r} /\ UNCHANGED <<pc, current>>
        /\ \/ plugged' = plugged \ {r} /\ cloud' = [cloud EXCEPT ![r] = "absent"]
           \/ UNCHANGED <<cloud, plugged>>
    BY <1>2 DEF RemoveRouterPort
  <2>2. Kind[r] = "port"
    BY <2>1 DEF Wired
  <2>3. CASE UNCHANGED <<cloud, plugged>>
    BY <2>1, <2>3 DEF Wired, Exists
  <2>4. CASE plugged' = plugged \ {r} /\ cloud' = [cloud EXCEPT ![r] = "absent"]
    <3>1. cloud'[r] = "absent" /\ \A q \in Resources : q # r => cloud'[q] = cloud[q]
      BY <2>4 DEF TypeOK
    <3>2. \A q \in Resources : q # r /\ Exists(q) => Exists(q)'
      BY <3>1 DEF Exists
    <3>3. \A p \in plugged' : Kind[p] = "port" /\ Exists(p)'
      BY <1>0, <2>4, <3>2 DEF Wired
    <3>4. plugged' # {} => \E q \in Resources : Kind[q] = "router" /\ Exists(q)'
      BY <2>2, <2>4, <3>2 DEF Wired
    <3>5. \A q \in Resources :
              cloud'[q] \in {"deleting", "failed"} => Kind[q] \notin {"port", "router"}
      BY <3>1 DEF Wired
    <3>6. QED BY <2>1, <3>3, <3>4, <3>5 DEF Wired
  <2>5. QED BY <2>1, <2>3, <2>4
<1>3. CASE delete_router(r)
  <2>1. /\ pc = "gateway" /\ pc' = "run" /\ r \in current /\ UNCHANGED <<plugged, ports>>
        /\ \/ /\ Exists(r) => ~InUse(r)
              /\ cloud' = [cloud EXCEPT ![r] = IF Exists(r) THEN "absent" ELSE cloud[r]]
           \/ UNCHANGED cloud
    BY <1>3 DEF delete_router
  <2>2. Kind[r] = "router"
    BY <2>1 DEF Wired
  <2>3. CASE UNCHANGED cloud
    BY <2>1, <2>3 DEF Wired, Exists
  <2>4. CASE ~Exists(r) /\ cloud' = [cloud EXCEPT ![r] = IF Exists(r) THEN "absent" ELSE cloud[r]]
    <3>1. \A q \in Resources : cloud'[q] = cloud[q]
      BY <2>4 DEF TypeOK
    <3>2. QED BY <2>1, <3>1, WiredUnmoved
  <2>5. CASE /\ Exists(r) /\ ~InUse(r)
             /\ cloud' = [cloud EXCEPT ![r] = IF Exists(r) THEN "absent" ELSE cloud[r]]
    <3>1. plugged = {}
      BY <2>2, <2>5 DEF InUse
    <3>2. cloud'[r] = "absent" /\ \A q \in Resources : q # r => cloud'[q] = cloud[q]
      BY <2>5 DEF TypeOK
    <3>3. \A q \in Resources :
              cloud'[q] \in {"deleting", "failed"} => Kind[q] \notin {"port", "router"}
      BY <3>2 DEF Wired
    <3>4. QED BY <2>1, <3>1, <3>3 DEF Wired
  <2>6. QED BY <2>1, <2>3, <2>4, <2>5
<1>4. QED BY <1>1, <1>2, <1>3

LEMMA WiredStep ==
    ASSUME Wired, TypeOK, [Next]_vars
    PROVE  Wired'
<1>1. CASE \/ run_inventory \/ load_report \/ Refuse \/ PlanOnly \/ BeginExecution
           \/ FinishExecution \/ Verify \/ Killed
  <2>1. UNCHANGED <<cloud, plugged, ports>> /\ pc' \notin {"router", "gateway"}
    BY <1>1
    DEF run_inventory, load_report, Accept, Exit, Refuse, PlanOnly, BeginExecution,
        FinishExecution, Verify, Killed
  <2>2. QED BY <2>1, WiredUnmoved
<1>2. CASE UnsetGateway
  BY <1>2 DEF UnsetGateway, Wired, Exists
<1>3. CASE \/ UNCHANGED vars
           \/ \E strict \in BOOLEAN, hide \in {FALSE, HideErrors} : WriteReport(strict, hide)
  <2>1. UNCHANGED <<cloud, plugged, ports, pc, current>>
    BY <1>3 DEF WriteReport, vars, progVars
  <2>2. QED BY <2>1, WiredUnmoved
<1>4. CASE \E a \in Options : Start(a)
  BY <1>4 DEF Start, Wired, Exists
<1>5. CASE Cloud
  <2>1. UNCHANGED <<plugged, progVars>>
    BY <1>5 DEF Cloud, CloudDeletes, CloudFails, CloudCreates
  <2>2. ASSUME NEW q \in Resources, Kind[q] \in {"port", "router"}
        PROVE  cloud'[q] = cloud[q] \/ (cloud[q] = "unborn" /\ cloud'[q] = "present")
    <3>1. cloud[q] # "deleting"
      BY <2>2 DEF Wired
    <3>2. QED BY <1>5, <2>2, <3>1 DEF Cloud, CloudDeletes, CloudFails, CloudCreates, TypeOK
  <2>3. QED BY <2>1, <2>2, WiredUnmoved DEF progVars
<1>6. QED
  BY <1>1, <1>2, <1>3, <1>4, <1>5, WiredExecute, WiredDeleteDone, WiredRouter
  DEF Next, Program

-----------------------------------------------------------------------------
(* Undisturbed, a resource that another one depends on is still planned, and  *)
(* at a later phase.                                                         *)

OrderInv == CleanInv /\ Wired /\ Undisturbed

LEMMA ExistingIsStillPlanned ==
    ASSUME OrderInv, quiet, NEW r, Turn(r), NEW q \in Resources, Exists(q),
           Kind[q] \in Planned \ Unwaited
    PROVE  q \in todo /\ RESOURCE_PHASES[Kind[r]] <= RESOURCE_PHASES[Kind[q]]
<1>1. pc = "run" /\ \A p \in todo : RESOURCE_PHASES[Kind[r]] <= RESOURCE_PHASES[Kind[p]]
  BY DEF Turn
<1>2. Existing \subseteq report.listed /\ ~errors /\ misread = {}
  BY <1>1 DEF OrderInv, Undisturbed, Executing
<1>3. q \in plan_deletions(report)
  BY <1>2 DEF Existing, plan_deletions
<1>4. ~Settled(q)
  BY <1>2 DEF Settled, Exists
<1>5. current = {}
  BY <1>1 DEF OrderInv, CleanInv, Progress
<1>6. q \in todo
  BY <1>1, <1>2, <1>3, <1>4, <1>5 DEF OrderInv, CleanInv, Progress, Executing
<1>7. QED BY <1>1, <1>6

LEMMA NothingInUse ==
    ASSUME OrderInv, quiet, NEW r \in Resources, ByCommand(r)
    PROVE  ~InUse(r)
<1>1. Turn(r) /\ Kind[r] # "router"
  BY DEF ByCommand
<1>2. {"port", "subnet", "load_balancer", "router", "server"} \subseteq Planned \ Unwaited
  BY DEF Planned, Unwaited, RESOURCE_PHASES
<1>3. ASSUME NEW q \in Resources, Exists(q),
             Kind[q] \in {"port", "subnet", "load_balancer", "router", "server"}
      PROVE  RESOURCE_PHASES[Kind[r]] <= RESOURCE_PHASES[Kind[q]]
  BY <1>1, <1>2, <1>3, ExistingIsStillPlanned
<1>4. /\ RESOURCE_PHASES["port"] = 120 /\ RESOURCE_PHASES["subnet"] = 130
      /\ RESOURCE_PHASES["load_balancer"] = 60 /\ RESOURCE_PHASES["router"] = 110
      /\ RESOURCE_PHASES["server"] = 80 /\ RESOURCE_PHASES["volume"] = 95
      /\ RESOURCE_PHASES["network"] = 140
  BY DEF RESOURCE_PHASES
<1>5. CASE Kind[r] = "network"
  <2>1. \A q \in Resources : Exists(q) => Kind[q] \notin {"port", "subnet"}
    BY <1>3, <1>4, <1>5
  <2>2. ExistingOf("port") = {} /\ ExistingOf("subnet") = {}
    BY <2>1 DEF ExistingOf, Existing
  <2>3. QED BY <1>5, <2>2 DEF InUse
<1>6. CASE Kind[r] = "subnet"
  <2>1. \A q \in Resources : Exists(q) => Kind[q] \notin {"port", "load_balancer"}
    BY <1>3, <1>4, <1>6
  <2>2. ExistingOf("port") = {} /\ ExistingOf("load_balancer") = {}
    BY <2>1 DEF ExistingOf, Existing
  <2>3. QED BY <1>6, <2>2 DEF InUse
<1>7. CASE Kind[r] = "port"
  <2>1. \A q \in Resources : Exists(q) => Kind[q] # "router"
    BY <1>3, <1>4, <1>7
  <2>2. plugged = {}
    BY <2>1 DEF OrderInv, Wired
  <2>3. QED BY <1>7, <2>2 DEF InUse
<1>8. CASE Kind[r] = "volume"
  <2>1. \A q \in Resources : Exists(q) => Kind[q] # "server"
    BY <1>3, <1>4, <1>8
  <2>2. ExistingOf("server") = {}
    BY <2>1 DEF ExistingOf, Existing
  <2>3. QED BY <1>8, <2>2 DEF InUse
<1>9. CASE Kind[r] \notin {"network", "subnet", "port", "volume"}
  BY <1>1, <1>9 DEF InUse
<1>10. QED BY <1>5, <1>6, <1>7, <1>8, <1>9

(* Steps that notice no error and forget nothing.                            *)
LEMMA UndisturbedUnmoved ==
    ASSUME Undisturbed, UNCHANGED report,
           quiet' => (quiet /\ (errors' => errors) /\ Existing' \subseteq Existing
                        /\ misread' \subseteq misread),
           pc' \in {"idle", "read", "plan"} => (UNCHANGED <<pc, errors, misread>>),
           pc' \in Executing \cup {"plan"} => pc \in Executing \cup {"plan"},
           quiet' /\ pc' \in {"router", "gateway"} => plugged' \subseteq ports'
    PROVE  Undisturbed'
  BY DEF Undisturbed

LEMMA QuietCreatesNothing ==
    ASSUME TypeOK, [Next]_vars, quiet'
    PROVE  Existing' \subseteq Existing
<1>1. ASSUME NEW q \in Resources, Exists(q)', ~Exists(q) PROVE FALSE
  <2>1. CASE Program
    BY <1>1, <2>1, ProgramOnlyRemoves DEF Exists
  <2>2. ASSUME NEW r \in Resources, CloudDeletes(r) \/ CloudFails(r) PROVE FALSE
    BY <1>1, <2>2 DEF CloudDeletes, CloudFails, TypeOK, Exists
  <2>3. ASSUME NEW c \in Resources, NEW r \in Resources, CloudCreates(c, r) PROVE FALSE
    BY <2>3, quiet' DEF CloudCreates
  <2>4. CASE \/ Killed \/ UNCHANGED vars
             \/ \E strict \in BOOLEAN, hide \in {FALSE, HideErrors} : WriteReport(strict, hide)
             \/ \E a \in Options : Start(a)
    BY <1>1, <2>4 DEF Killed, vars, WriteReport, Start, Exists
  <2>5. QED BY <2>1, <2>2, <2>3, <2>4 DEF Next, Cloud
<1>2. QED BY <1>1 DEF Existing

LEMMA UndisturbedRead ==
    ASSUME OrderInv, run_inventory \/ load_report
    PROVE  Undisturbed'
<1>1. /\ pc = "read" /\ UNCHANGED <<cloud, errors, misread>>
      /\ \/ pc' = "exited" /\ UNCHANGED quiet
         \/ pc' = "plan" /\ quiet' = (Existing \subseteq report'.listed)
  BY DEF run_inventory, load_report, Accept, Exit
<1>2. ~errors' /\ misread' = {}
  BY <1>1 DEF OrderInv, Undisturbed
<1>3. Existing' = Existing
  BY <1>1 DEF Existing, Exists
<1>4. QED BY <1>1, <1>2, <1>3 DEF Undisturbed, Executing

LEMMA UndisturbedExecute ==
    ASSUME OrderInv, [Next]_vars, NEW r \in Resources,
           \/ DeleteMissing(r) \/ DeleteMisread(r) \/ DeleteRefused(r) \/ DeleteDone(r)
           \/ DeleteWaitFailed(r) \/ DeleteAccepted(r)
           \/ SenlinMissing(r) \/ SenlinUnavailable(r) \/ SenlinAccepted(r)
           \/ wait_for_stack_delete(r) \/ delete_senlin_resource(r)
    PROVE  Undisturbed'
<1>1. /\ pc \in Executing /\ pc' \in {"run", "stack", "senlin"} /\ UNCHANGED report
  BY DEF DeleteMissing, DeleteMisread, DeleteRefused, DeleteDone, DeleteWaitFailed, DeleteAccepted, ByCommand,
         ThenWaitForStack, SenlinMissing, SenlinUnavailable, SenlinAccepted, BySenlin, Turn,
         wait_for_stack_delete, delete_senlin_resource, Executing
<1>2. quiet' => quiet /\ (errors' => errors) /\ misread' \subseteq misread
  <2>1. CASE DeleteRefused(r)
    <3>1. ByCommand(r) /\ (quiet' <=> (quiet /\ InUse(r)))
      BY <2>1 DEF DeleteRefused
    <3>2. QED BY <3>1, NothingInUse
  <2>2. CASE ~DeleteRefused(r)
    BY <2>2
    DEF DeleteMissing, DeleteMisread, DeleteDone, DeleteWaitFailed, DeleteAccepted,
        SenlinMissing, SenlinUnavailable, SenlinAccepted,
        wait_for_stack_delete, delete_senlin_resource, WaitSucceeds, WaitFails, Misread
  <2>3. QED BY <2>1, <2>2
<1>3. quiet' => Existing' \subseteq Existing
  BY QuietCreatesNothing DEF OrderInv, CleanInv, GateInv
<1>4. QED BY <1>1, <1>2, <1>3, UndisturbedUnmoved DEF OrderInv, Executing

LEMMA UndisturbedRouter ==
    ASSUME OrderInv, [Next]_vars, NEW r \in Resources,
           ListRouterPorts(r) \/ RemoveRouterPort(r) \/ delete_router(r)
    PROVE  Undisturbed'
<1>1. quiet' => Existing' \subseteq Existing
  BY QuietCreatesNothing DEF OrderInv, CleanInv, GateInv
<1>2. CASE ListRouterPorts(r)
  <2>1. /\ pc = "run" /\ pc' \in {"run", "router"} /\ UNCHANGED <<report, plugged>>
        /\ quiet' => quiet /\ (errors' => errors) /\ ports' = plugged /\ misread' = misread
    <3>1. pc = "run" /\ UNCHANGED <<report, plugged, misread>>
      BY <1>2 DEF ListRouterPorts, Turn
    <3>2. \/ quiet' = (quiet /\ ports' = plugged) /\ pc' = "router" /\ errors' = errors
          \/ quiet' = FALSE /\ pc' = pc
      BY <1>2, Zenon DEF ListRouterPorts
    <3>3. CASE quiet' = (quiet /\ ports' = plugged) /\ pc' = "router" /\ errors' = errors
      <4>1. quiet' => quiet /\ ports' = plugged
        <5>1. CASE quiet /\ ports' = plugged
          BY <5>1
        <5>2. CASE ~(quiet /\ ports' = plugged)
          <6>1. (quiet /\ ports' = plugged) = FALSE
            BY <5>2
          <6>2. QED BY <3>3, <6>1
        <5>3. QED BY <5>1, <5>2
      <4>2. QED BY <3>1, <3>3, <4>1
    <3>4. CASE quiet' = FALSE /\ pc' = pc
      BY <3>1, <3>4
    <3>5. QED BY <3>2, <3>3, <3>4
  <2>2. QED BY <1>1, <2>1, UndisturbedUnmoved DEF OrderInv, Executing
<1>3. CASE RemoveRouterPort(r)
  <2>1. /\ pc = "router" /\ UNCHANGED <<pc, report>> /\ ports' = ports \ {r}
        /\ quiet' => quiet /\ (errors' => errors) /\ plugged' = plugged \ {r} /\ misread' = misread
    <3>1. /\ pc = "router" /\ UNCHANGED <<pc, report, misread>> /\ ports' = ports \ {r}
          /\ \/ plugged' = plugged \ {r} /\ UNCHANGED <<errors, quiet>>
             \/ quiet' = FALSE
      BY <1>3 DEF RemoveRouterPort
    <3>2. QED BY <3>1
  <2>2. quiet' => plugged' \subseteq ports'
    BY <2>1 DEF OrderInv, Undisturbed
  <2>3. QED BY <1>1, <2>1, <2>2, UndisturbedUnmoved DEF OrderInv, Executing
<1>4. CASE delete_router(r)
  <2>1. /\ pc = "gateway" /\ pc' = "run" /\ r \in current /\ UNCHANGED report
        /\ \/ UNCHANGED <<errors, quiet, misread>>
           \/ quiet' <=> (quiet /\ InUse(r))
           \/ ~quiet'
    BY <1>4 DEF delete_router, Misread
  <2>2. Kind[r] = "router" /\ ports = {}
    BY <2>1 DEF OrderInv, Wired
  <2>3. quiet => plugged = {}
    BY <2>1, <2>2 DEF OrderInv, Undisturbed
  <2>4. quiet => ~InUse(r)
    BY <2>2, <2>3 DEF InUse
  <2>5. quiet' => quiet /\ (errors' => errors) /\ misread' \subseteq misread
    BY <2>1, <2>4
  <2>6. QED BY <1>1, <2>1, <2>5, UndisturbedUnmoved DEF OrderInv, Executing
<1>5. QED BY <1>2, <1>3, <1>4

LEMMA UndisturbedStep ==
    ASSUME OrderInv, [Next]_vars
    PROVE  Undisturbed'
<1>0. (quiet' => Existing' \subseteq Existing) /\ Undisturbed
  BY QuietCreatesNothing DEF OrderInv, CleanInv, GateInv
<1>1. CASE Refuse \/ PlanOnly \/ BeginExecution \/ FinishExecution \/ Verify \/ Killed
  <2>1. /\ UNCHANGED <<report, errors, quiet, misread>>
        /\ pc' \in {"run", "verify", "exited"}
        /\ pc' # "exited" => pc \in {"plan", "run"}
    BY <1>1 DEF Refuse, PlanOnly, BeginExecution, FinishExecution, Verify, Killed, Exit
  <2>2. QED BY <1>0, <2>1, UndisturbedUnmoved DEF Executing
<1>2. CASE UnsetGateway
  <2>1. /\ pc = "router" /\ pc' = "gateway" /\ UNCHANGED <<report, plugged, ports, misread>>
        /\ quiet' => quiet /\ (errors' => errors)
    BY <1>2 DEF UnsetGateway
  <2>2. quiet' => plugged' \subseteq ports'
    BY <1>0, <2>1 DEF Undisturbed
  <2>3. QED BY <1>0, <2>1, <2>2, UndisturbedUnmoved DEF Executing
<1>3. CASE \/ Cloud \/ UNCHANGED vars
           \/ \E strict \in BOOLEAN, hide \in {FALSE, HideErrors} : WriteReport(strict, hide)
  <2>1. UNCHANGED <<progVars, plugged>> /\ (quiet' => quiet)
    BY <1>3 DEF Cloud, CloudDeletes, CloudFails, CloudCreates, WriteReport, vars
  <2>2. UNCHANGED <<pc, report, errors, ports, misread>>
    BY <2>1 DEF progVars
  <2>3. quiet' /\ pc' \in {"router", "gateway"} => plugged' \subseteq ports'
    BY <1>0, <2>1, <2>2 DEF Undisturbed
  <2>4. QED BY <1>0, <2>1, <2>2, <2>3, UndisturbedUnmoved
<1>4. CASE \E a \in Options : Start(a)
  <2>1. pc' = "read" /\ ~errors' /\ misread' = {}
    BY <1>4 DEF Start
  <2>2. QED BY <2>1 DEF Undisturbed, Executing
<1>5. QED
  BY <1>1, <1>2, <1>3, <1>4, UndisturbedRead, UndisturbedExecute, UndisturbedRouter
  DEF Next, Program

(* For any resources and any order within a phase: when no call fails and     *)
(* nothing else changes the project, execute_plan meets no resource that     *)
(* another one still depends on.  The phases of RESOURCE_PHASES, the waits   *)
(* between them and the steps of delete_router suffice.                      *)
THEOREM OrderAlwaysAvoidsConflicts == Spec => []OrderAvoidsConflicts
<1>1. Init => OrderInv
  BY TypeInit, GateInit, ProgressInit, WiredInit, UndisturbedInit
  DEF OrderInv, CleanInv, GateInv, ProgressInv
<1>2. OrderInv => OrderAvoidsConflicts
  BY DEF OrderInv, Undisturbed, OrderAvoidsConflicts
<1>3. OrderInv /\ [Next]_vars => OrderInv'
  <2> SUFFICES ASSUME OrderInv, [Next]_vars PROVE OrderInv'
    OBVIOUS
  <2>1. CleanInv' /\ TypeOK
    BY CleanStep DEF OrderInv, CleanInv, GateInv
  <2>2. Wired' /\ Undisturbed'
    BY <2>1, WiredStep, UndisturbedStep DEF OrderInv
  <2>3. QED BY <2>1, <2>2 DEF OrderInv
<1>4. QED BY <1>1, <1>2, <1>3, PTL DEF Spec
=============================================================================
