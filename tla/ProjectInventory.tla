-------------------------- MODULE ProjectInventory --------------------------
(* list-project-resources.py: the inventory of what a project owns.  One run *)
(* discovers the endpoints, resolves a client for every service, and then    *)
(* asks each service for its resource types one request at a time, nested    *)
(* types once per parent, while the cloud goes on creating and deleting.     *)
EXTENDS Naturals, Sequences, FiniteSets

CONSTANTS
    Target,        \* the project of the inventory
    AdminProject,  \* the project of the administrator's token
    NoProject,     \* a token without a project (system scope)
    Interface,     \* --interface
    Region,        \* --region, or NoRegion
    NoRegion,
    Catalogs,      \* the endpoint lists that Keystone or the CLI may return
    ServiceOrder,  \* the service types, in the order of sorted()
    Ignored,       \* services of IGNORED_SERVICE_TYPES
    Unscoped,      \* services listed over the original connection
    KwargsFilter,  \* services whose legacy managers take project_id in **kwargs
    ObjectStore,   \* services whose objects are listed per container
    ContainerType, \* the two types of such a service
    ObjectType,
    Network,       \* services with security groups
    Clients,       \* Clients[s]: what trying each kind of client may give
    Type,          \* resource types
    Registry,      \* Registry[s]: types of the SDK, by placeholders and name
    Managers,      \* Managers[s]: types of the legacy client, by name
    Attr,          \* Attr[t]: what the code asks about a type
    Res,           \* resources of the cloud
    Info,          \* Info[r]: the resource's type, owner and relations
    Late,          \* resources that do not exist at first
    Doomed         \* bound: the resources that may be deleted meanwhile

Elements(seq) == {seq[i] : i \in DOMAIN seq}
Distinct(seq) == \A i, j \in DOMAIN seq : seq[i] = seq[j] => i = j
\* The elements of a sequence that are in a set, in order: sorted(...) over a
\* condition, or a comprehension over a registry.
Only(seq, S) ==
    LET kept1[i \in 0 .. Len(seq)] ==
          IF i = 0 THEN <<>>
          ELSE IF seq[i] \in S THEN Append(kept1[i - 1], seq[i]) ELSE kept1[i - 1]
    IN  kept1[Len(seq)]

Service == Elements(ServiceOrder)
TypesOf(s) == Elements(Registry[s]) \cup Elements(Managers[s])
Project == {Target, AdminProject, NoProject}
Backend == {"absent", "fails", "works"}
Issue == Service \X (Type \cup {"(client)", "(provider)"})

TypeAttr == [parents: SUBSET Type, isGlobal: BOOLEAN, nonDeletable: BOOLEAN,
             exception: BOOLEAN, field: BOOLEAN, shows: {"owner", "connection", "nothing"},
             filter: {"none", "honoured", "rejected"}, wide: BOOLEAN,
             served: BOOLEAN, addressed: BOOLEAN, related: BOOLEAN]

\* The names of a registry and the services are the keys of dicts, and a type
\* is of one service.
ASSUME ServicesAssumption ==
    /\ ServiceOrder \in Seq(Service)
    /\ Registry \in [Service -> Seq(Type)]
    /\ Managers \in [Service -> Seq(Type)]
    /\ Clients \in [Service -> SUBSET [sdk: Backend, plugin: Backend, generic: Backend]]
    /\ Distinct(ServiceOrder) /\ \A s \in Service : Distinct(Registry[s]) /\ Distinct(Managers[s])
    /\ \A s, u \in Service : s # u => TypesOf(s) \cap TypesOf(u) = {}
    /\ \A catalog \in Catalogs : \A e \in catalog : e.service \in Service /\ e.rank \in Nat
\* The path of a request names parents of the same service.
ASSUME TypesAssumption ==
    /\ Attr \in [Type -> TypeAttr]
    /\ \A s \in Service : \A t \in TypesOf(s) : Attr[t].parents \subseteq TypesOf(s)
\* Containers have no owner of their own, and objects are in a container.
ASSUME StoreAssumption ==
    /\ ContainerType \in Type /\ Attr[ContainerType].parents = {}
    /\ Attr[ContainerType].shows # "owner" /\ ~Attr[ContainerType].related
    /\ ObjectType \in Type /\ Attr[ObjectType].parents = {ContainerType}
\* A resource has one parent of each of its type's parent types, belongs to
\* the project of each of them and is not older than they are.
ASSUME ResourcesAssumption ==
    /\ Info \in [Res -> [type: Type, owner: Project \ {NoProject}, parents: SUBSET Res,
                         ref: SUBSET Res, default: BOOLEAN]]
    /\ \A r \in Res : \A p \in Info[r].parents : Info[p].owner = Info[r].owner
    /\ \A r \in Res : \A p \in Info[r].ref : Info[p].owner = Info[r].owner
    /\ \A r \in Res : {Info[p].type : p \in Info[r].parents} = Attr[Info[r].type].parents
    /\ \A r \in Res : \A p, q \in Info[r].parents : Info[p].type = Info[q].type => p = q
    /\ \A r \in Res \ Late : (Info[r].parents \cup Info[r].ref) \cap Late = {}
\* What an execution refers to is a workflow, listed directly, of its service.
ASSUME RelatedAssumption ==
    \A r \in Res : Attr[Info[r].type].related => \A w \in Info[r].ref :
        /\ Info[w].type # ContainerType /\ Attr[Info[w].type].parents = {}
        /\ ~Attr[Info[w].type].related /\ Info[w].ref = {} /\ ~Info[w].default
        /\ \A s \in Service : Info[r].type \in TypesOf(s) => Info[w].type \in TypesOf(s)
\* Security groups and rules have a project, which Neutron filters by.
ASSUME DefaultAssumption ==
    \A s \in Service \cap Network : \A r \in Res : Info[r].type \in TypesOf(s) =>
        \A g \in {r} \cup Info[r].ref : Info[g].default =>
            \A t \in {Info[r].type, Info[g].type} :
                /\ t \in Elements(Registry[s]) /\ Attr[t].parents = {} /\ ~Attr[t].related
                /\ ~Attr[t].isGlobal /\ ~Attr[t].nonDeletable /\ Attr[t].field
                /\ Attr[t].shows = "owner" /\ Attr[t].filter = "honoured"
ASSUME ProjectsDiffer == Target # AdminProject /\ Target # NoProject
ASSUME IssuesAssumption == {"(client)", "(provider)"} \cap Type = {}

VARIABLES
    pc,
    strict,      \* --strict
    session,     \* project of the connection the program opens
    scope,       \* project of target_connection
    endpoints,   \* endpoints found, then the ones selected
    queue,       \* services still to resolve or to collect
    providers,   \* services with a client, in order
    kind,        \* kind[s]: the client resolved for s
    errors,      \* errors of the report so far
    todo,        \* specs or nested managers still to list in this pass
    later,       \* remaining (SDK) or unlisted_nested (legacy)
    progressed,
    combos,      \* parents whose children are still to be requested
    got,         \* children received for the current type
    known,       \* keys of objects_by_resource
    objects,     \* its values
    listed,      \* resources of the services collected
    dropped,     \* history: types of which a failed request was taken for a missing type
    rc,          \* exit code
    cloud        \* resources that exist

setup == <<strict, session, scope, endpoints, providers, kind>>
pass == <<todo, later, progressed>>
request == <<combos, got>>
found == <<known, objects>>
vars == <<pc, setup, queue, errors, pass, request, found, listed, dropped, rc, cloud>>

TypeOK ==
    /\ pc \in {"discover", "select", "project", "connect", "resolve", "collect",
               "direct", "nested", "request", "done", "failed"}
    /\ strict \in BOOLEAN
    /\ session \in Project /\ scope \in Project
    /\ queue \in Seq(Service) /\ providers \in Seq(Service)
    /\ kind \in [Service -> {"none", "sdk", "legacy"}]
    /\ errors \subseteq Issue
    /\ todo \in Seq(Type) /\ later \in Seq(Type) /\ progressed \in BOOLEAN
    /\ combos \subseteq SUBSET Res /\ got \subseteq Res
    /\ known \subseteq Type /\ objects \in [Type -> SUBSET Res]
    /\ listed \subseteq Res /\ dropped \subseteq Type /\ cloud \subseteq Res
    /\ rc \in {0, 2}

Init ==
    /\ pc = "discover" /\ strict \in BOOLEAN
    /\ session \in Project /\ scope = NoProject
    /\ endpoints = {} /\ queue = <<>> /\ providers = <<>>
    /\ kind = [s \in Service |-> "none"]
    /\ errors = {} /\ todo = <<>> /\ later = <<>> /\ progressed = FALSE
    /\ combos = {} /\ got = {}
    /\ known = {} /\ objects = [t \in Type |-> {}]
    /\ listed = {} /\ dropped = {} /\ rc = 0
    /\ cloud = Res \ Late

\* An InventoryError reaches main: nothing is printed, the exit code is 2.
Abort == pc' = "failed" /\ rc' = 2

-----------------------------------------------------------------------------
(* Endpoints, project and connection.                                        *)

Enabled(catalog) == {e \in catalog : e.enabled}

\* The Keystone catalog, or the CLI when it cannot be read or is empty.
DiscoverEndpoints ==
    /\ pc = "discover"
    /\ \/ \E sdk \in Catalogs, cli \in Catalogs :
            LET found1 == IF Enabled(sdk) # {} THEN Enabled(sdk) ELSE Enabled(cli)
            IN  IF found1 = {} THEN Abort /\ UNCHANGED endpoints
                ELSE endpoints' = found1 /\ pc' = "select" /\ UNCHANGED rc
       \/ Abort /\ UNCHANGED endpoints
    /\ UNCHANGED <<strict, session, scope, providers, kind, queue, errors, pass,
                   request, found, listed, dropped, cloud>>

Candidates == {e \in endpoints : /\ e.service \notin Ignored
                                 /\ Region # NoRegion => e.region = Region}

Matching(s) == {e \in Candidates : e.service = s /\ e.interface = Interface}

\* sorted(matching, key=rank)[0]
Best(s) == CHOOSE e \in Matching(s) : \A f \in Matching(s) : e.rank <= f.rank

\* One endpoint per service; a service without one of this interface ends it.
SelectEndpoints ==
    /\ pc = "select"
    /\ LET named == {e.service : e \in Candidates}
       IN  IF named = {} \/ \E s \in named : Matching(s) = {}
           THEN Abort /\ UNCHANGED <<endpoints, queue>>
           ELSE /\ endpoints' = {Best(s) : s \in named}
                /\ queue' = Only(ServiceOrder, named)
                /\ pc' = "project" /\ UNCHANGED rc
    /\ UNCHANGED <<strict, session, scope, providers, kind, errors, pass, request,
                   found, listed, dropped, cloud>>

\* get_project, or find_project when that fails or finds nothing.
ResolveProject ==
    /\ pc = "project"
    /\ \/ pc' = "connect" /\ UNCHANGED rc
       \/ Abort
    /\ UNCHANGED <<setup, queue, errors, pass, request, found, listed, dropped, cloud>>

\* A connection with a project is kept, whatever the project; one without is
\* scoped to the target unless Keystone refuses.
AsProjectConnection ==
    /\ pc = "connect"
    /\ scope' \in IF session = NoProject THEN {Target, NoProject} ELSE {session}
    /\ pc' = "resolve"
    /\ UNCHANGED <<strict, session, endpoints, providers, kind, queue, errors, pass,
                   request, found, listed, dropped, rc, cloud>>

ProviderConnection(s) == IF s \in Unscoped THEN session ELSE scope

\* A working SDK, then the plugin, whose failure is final; the conventional
\* client only when neither exists.
Provider(c) ==
    CASE c.sdk = "works" -> "sdk"
      [] c.sdk # "works" /\ c.plugin = "works" -> "legacy"
      [] c.sdk = "absent" /\ c.plugin = "absent" /\ c.generic = "works" -> "legacy"
      [] OTHER -> "none"

ResolveProvider ==
    /\ pc = "resolve" /\ queue # <<>>
    /\ \E c \in Clients[Head(queue)] :
        LET s == Head(queue) IN
        /\ kind' = [kind EXCEPT ![s] = Provider(c)]
        /\ providers' = IF Provider(c) = "none" THEN providers ELSE Append(providers, s)
        /\ errors' = IF Provider(c) = "none" THEN errors \cup {<<s, "(client)">>} ELSE errors
    /\ queue' = Tail(queue)
    /\ UNCHANGED <<pc, strict, session, scope, endpoints, pass, request, found,
                   listed, dropped, rc, cloud>>

\* Every client is resolved before any resource is requested.
Preflight ==
    /\ pc = "resolve" /\ queue = <<>>
    /\ IF strict /\ errors # {}
       THEN Abort /\ UNCHANGED queue
       ELSE pc' = "collect" /\ queue' = providers /\ UNCHANGED rc
    /\ UNCHANGED <<setup, errors, pass, request, found, listed, dropped, cloud>>

-----------------------------------------------------------------------------
(* What is listed.                                                           *)

Sdk(s) == kind[s] = "sdk"

IsGlobal(s, t) == Attr[t].isGlobal /\ (Sdk(s) => ~Attr[t].exception)
NonDeletableResource(t) == Attr[t].nonDeletable
Skipped(s, t) == IsGlobal(s, t) \/ NonDeletableResource(t)

Names(s) == IF Sdk(s) THEN Registry[s] ELSE Managers[s]
InStore(s) == Sdk(s) /\ s \in ObjectStore

DirectSpecs(s) == Only(Names(s), {t \in Type :
    /\ ~Skipped(s, t) /\ Attr[t].parents = {}
    /\ Sdk(s) => Attr[t].field \/ Attr[t].exception})

NestedSpecs(s) == Only(Names(s), {t \in Type :
    ~Skipped(s, t) /\ Attr[t].parents # {} /\ ~(InStore(s) /\ t = ObjectType)})

\* The container-aware block needs both types: the containers, unless listed
\* already, then the objects of each.
StoreBroken(s) == InStore(s) /\ ~({ContainerType, ObjectType} \subseteq Elements(Names(s)))
ObjectSpecs(s) ==
    IF ~InStore(s) \/ StoreBroken(s) THEN <<>>
    ELSE IF ContainerType \in known THEN <<ObjectType>> ELSE <<ContainerType, ObjectType>>

\* External: the resources of a type that a service returns to a connection.
Answer(t, project, filtered) ==
    {r \in cloud : /\ Info[r].type = t
                   /\ IF filtered THEN Info[r].owner = Target
                      ELSE Attr[t].wide \/ project \in {NoProject, Info[r].owner}}

\* External: the resources of a type below the given parents.
Below(t, c) == {r \in cloud : Info[r].type = t /\ Info[r].parents = c}

\* The project filter of a request; the SDK retries without a rejected one.
ProjectFilter(s, t) == Attr[t].filter = "honoured" \/ (~Sdk(s) /\ s \in KwargsFilter)

\* The project a resource names: its own field, or the location that the SDK
\* fills in from the connection.
ProjectValue(s, r) ==
    LET shows == Attr[Info[r].type].shows IN
    CASE shows = "owner" -> Info[r].owner
      [] shows = "connection" /\ Sdk(s) -> ProviderConnection(s)
      [] OTHER -> NoProject

\* A resource that names no project counts as the target's.
BelongsToProject(s, r) == ProjectValue(s, r) \in {NoProject, Target}

-----------------------------------------------------------------------------
(* One service: direct types.                                                *)

Current == Head(queue)

\* A request failed: it is noted, and ends a strict run.
Note(what) == errors' = errors \cup {<<Current, what>>}
\* mutant: a failed request is never fatal
AfterFailureIgnored == UNCHANGED <<pc, rc>>

AfterFailure == IF strict THEN Abort ELSE UNCHANGED <<pc, rc>>

\* _is_missing_resource_error: a request failed with "404" or "not found" in the
\* text, which is taken for a type that the service does not have: nothing is
\* noted, in a strict run neither.
TakenForMissing(t) == dropped' = dropped \cup {t} /\ UNCHANGED <<pc, errors, rc>>

StartCollect ==
    /\ pc = "collect" /\ queue # <<>>
    /\ known' = {} /\ objects' = [t \in Type |-> {}]
    /\ IF ~Sdk(Current) /\ DirectSpecs(Current) = <<>> /\ NestedSpecs(Current) = <<>>
       THEN Note("(provider)")
       ELSE UNCHANGED errors
    /\ IF strict /\ errors' # errors
       THEN Abort /\ UNCHANGED pass
       ELSE pc' = "direct" /\ todo' = DirectSpecs(Current) /\ UNCHANGED <<later, progressed, rc>>
    /\ UNCHANGED <<setup, queue, request, listed, dropped, cloud>>

Keep(t, values) ==
    /\ known' = known \cup {t}
    /\ objects' = [objects EXCEPT ![t] = values]
    /\ todo' = Tail(todo)

ListDirect ==
    /\ pc = "direct" /\ todo # <<>>
    /\ LET t == Head(todo) IN
        \/ /\ Attr[t].served /\ (~Sdk(Current) => Attr[t].filter # "rejected")
           /\ Keep(t, {r \in Answer(t, ProviderConnection(Current), ProjectFilter(Current, t)) :
                          BelongsToProject(Current, r)})
           /\ UNCHANGED <<pc, errors, dropped, rc>>
        \/ Keep(t, {}) /\ TakenForMissing(t)
        \/ /\ Note(t)
           /\ Keep(t, {})
           /\ AfterFailure /\ UNCHANGED dropped
    /\ UNCHANGED <<setup, queue, later, progressed, request, listed, cloud>>

\* Neutron's default group and its rules are left to the project deletion.
DefaultGroups == {r \in UNION {objects[t] : t \in known} : Info[r].default}
\* mutant: the rules of the default group stay
ExcludeDefaultGroupOnly(rs) == rs \ DefaultGroups

ExcludeDefaultSecurityGroup(rs) ==
    IF Sdk(Current) /\ Current \in Network
    THEN {r \in rs : r \notin DefaultGroups /\ Info[r].ref \cap DefaultGroups = {}}
    ELSE rs

\* mutant: every execution that the service returns
FilterRelatedNothing(t, rs) == rs

\* Workflow executions are kept only below a workflow of the project.
FilterRelatedResources(t, rs) ==
    IF Attr[t].related
    THEN {r \in rs : \E w \in Info[r].ref : w \in objects[Info[w].type]}
    ELSE rs

EndDirect ==
    /\ pc = "direct" /\ todo = <<>>
    /\ objects' = [t \in Type |->
                     FilterRelatedResources(t, ExcludeDefaultSecurityGroup(objects[t]))]
    /\ IF StoreBroken(Current)
       THEN Note("(provider)")
       ELSE UNCHANGED errors
    /\ IF StoreBroken(Current) /\ strict
       THEN Abort /\ UNCHANGED pass
       ELSE /\ todo' = ObjectSpecs(Current) \o NestedSpecs(Current)
            /\ later' = <<>> /\ progressed' = FALSE
            /\ pc' = "nested" /\ UNCHANGED rc
    /\ UNCHANGED <<setup, queue, request, known, listed, dropped, cloud>>

-----------------------------------------------------------------------------
(* One service: types below parents.                                         *)

ParentsUnknown(t) == ~(Attr[t].parents \subseteq known)
ParentsEmpty(t) == \E p \in Attr[t].parents : objects[p] = {}

\* One resource of each parent type whose id the request can carry.
Combinations(t) ==
    {c \in SUBSET UNION {objects[p] : p \in Attr[t].parents} :
        /\ Attr[t].addressed
        /\ {Info[r].type : r \in c} = Attr[t].parents
        /\ \A q, r \in c : Info[q].type = Info[r].type => q = r}

\* The SDK comes back to a type whose parents are not there yet; a legacy
\* manager without a parent collection is given up, one without parents empty.
NextNested ==
    /\ pc = "nested" /\ todo # <<>>
    /\ LET t == Head(todo) IN
        \/ /\ ParentsUnknown(t) \/ (Sdk(Current) /\ ParentsEmpty(t))
           /\ later' = Append(later, t) /\ todo' = Tail(todo)
           /\ UNCHANGED <<pc, progressed, request, found>>
        \/ /\ ~Sdk(Current) /\ ~ParentsUnknown(t) /\ ParentsEmpty(t)
           /\ Keep(t, {})
           /\ UNCHANGED <<pc, later, progressed, request>>
        \/ /\ ~ParentsUnknown(t) /\ ~ParentsEmpty(t)
           /\ combos' = Combinations(t) /\ got' = {}
           /\ later' = IF ~Sdk(Current) /\ ~Attr[t].addressed THEN Append(later, t) ELSE later
           /\ pc' = "request"
           /\ UNCHANGED <<todo, progressed, found>>
    /\ UNCHANGED <<setup, queue, errors, listed, dropped, rc, cloud>>

\* A failed request loses the children of one parent, or, in the SDK's generic
\* loop, whatever was received for the type.
PerParent(s, t) == ~Sdk(s) \/ (InStore(s) /\ t \in {ContainerType, ObjectType})

GiveUp(t, c) ==
    /\ combos' = IF PerParent(Current, t) THEN combos \ {c} ELSE {}
    /\ got' = IF PerParent(Current, t) THEN got ELSE {}

Children(t, c) ==
    IF c = {} THEN Answer(t, ProviderConnection(Current), FALSE)
    ELSE {r \in Below(t, c) : ~PerParent(Current, t) => BelongsToProject(Current, r)}

RequestChildren ==
    /\ pc = "request"
    /\ \E c \in combos :
        LET t == Head(todo) IN
        \/ /\ Attr[t].served
           /\ got' = got \cup Children(t, c) /\ combos' = combos \ {c}
           /\ UNCHANGED <<pc, errors, dropped, rc>>
        \* no child is lost when just this parent is given up and it is gone
        \/ /\ GiveUp(t, c)
           /\ IF PerParent(Current, t) /\ ~(c \subseteq cloud)
              THEN UNCHANGED <<pc, errors, dropped, rc>>
              ELSE TakenForMissing(t)
        \/ /\ Note(t)
           /\ GiveUp(t, c)
           /\ AfterFailure /\ UNCHANGED dropped
    /\ UNCHANGED <<setup, queue, pass, found, listed, cloud>>

\* mutant: progressed is never set
EndNestedNoProgress ==
    /\ pc = "request" /\ combos = {}
    /\ Keep(Head(todo), got)
    /\ pc' = "nested"
    /\ UNCHANGED <<setup, queue, errors, later, progressed, request, listed, dropped, rc, cloud>>

EndNested ==
    /\ pc = "request" /\ combos = {}
    /\ Keep(Head(todo), got)
    /\ progressed' = TRUE /\ pc' = "nested"
    /\ UNCHANGED <<setup, queue, errors, later, request, listed, dropped, rc, cloud>>

\* mutant: pending types are tried again although nothing changed
NextPassAlways ==
    /\ pc = "nested" /\ todo = <<>> /\ Sdk(Current) /\ later # <<>>
    /\ todo' = later /\ later' = <<>> /\ progressed' = FALSE
    /\ UNCHANGED <<pc, setup, queue, errors, request, found, listed, dropped, rc, cloud>>

\* while pending: another pass as long as the last one listed something.
NextPass ==
    /\ pc = "nested" /\ todo = <<>> /\ Sdk(Current) /\ progressed /\ later # <<>>
    /\ todo' = later /\ later' = <<>> /\ progressed' = FALSE
    /\ UNCHANGED <<pc, setup, queue, errors, request, found, listed, dropped, rc, cloud>>

\* Legacy managers that could not be enumerated are errors.
Unlisted == IF Sdk(Current) THEN {} ELSE {<<Current, later[i]>> : i \in DOMAIN later}

EndCollect ==
    /\ pc = "nested" /\ todo = <<>> /\ ~(Sdk(Current) /\ progressed /\ later # <<>>)
    /\ errors' = errors \cup Unlisted
    /\ IF strict /\ Unlisted # {}
       THEN Abort /\ UNCHANGED <<listed, queue>>
       ELSE /\ listed' = listed \cup UNION {objects[t] : t \in known}
            /\ queue' = Tail(queue)
            /\ pc' = "collect" /\ UNCHANGED rc
    /\ UNCHANGED <<setup, pass, request, found, dropped, cloud>>

\* Any other exception inside collect loses the service, or ends a strict run.
CollectCrash ==
    /\ pc \in {"direct", "nested", "request"}
    /\ errors' = errors \cup {<<Current, "(provider)">>}
    /\ IF strict THEN Abort /\ UNCHANGED queue
       ELSE pc' = "collect" /\ queue' = Tail(queue) /\ UNCHANGED rc
    /\ UNCHANGED <<setup, pass, request, found, listed, dropped, cloud>>

Report ==
    /\ pc = "collect" /\ queue = <<>>
    /\ rc' = IF strict /\ errors # {} THEN 2 ELSE 0
    /\ pc' = "done"
    /\ UNCHANGED <<setup, queue, errors, pass, request, found, listed, dropped, cloud>>

-----------------------------------------------------------------------------
(* External: the cloud's users, at any moment.                               *)

CloudCreate(r) ==
    /\ r \in Late \ cloud /\ Info[r].parents \cup Info[r].ref \subseteq cloud
    /\ cloud' = cloud \cup {r}
    /\ UNCHANGED <<pc, setup, queue, errors, pass, request, found, listed, dropped, rc>>

CloudDelete(r) ==
    /\ r \in Doomed \cap cloud
    /\ \A q \in cloud : r \notin Info[q].parents \cup Info[q].ref
    /\ cloud' = cloud \ {r}
    /\ UNCHANGED <<pc, setup, queue, errors, pass, request, found, listed, dropped, rc>>

Step ==
    \/ DiscoverEndpoints \/ SelectEndpoints \/ ResolveProject \/ AsProjectConnection
    \/ ResolveProvider \/ Preflight
    \/ StartCollect \/ ListDirect \/ EndDirect
    \/ NextNested \/ RequestChildren \/ EndNested \/ NextPass \/ EndCollect
    \/ CollectCrash \/ Report

Finished == pc \in {"done", "failed"} /\ UNCHANGED vars

Next == Step \/ Finished \/ \E r \in Res : CloudCreate(r) \/ CloudDelete(r)

\* The program runs to its end: each request returns or fails.
Spec == Init /\ [][Next]_vars /\ WF_vars(Step)

-----------------------------------------------------------------------------
(* Properties.                                                               *)

Asked(s) == Elements(DirectSpecs(s)) \cup Elements(NestedSpecs(s))
              \cup (IF StoreBroken(s) THEN {} ELSE IF InStore(s) THEN {ContainerType, ObjectType} ELSE {})

\* A top-level resource that the service shows and the ownership check keeps.
Visible(s, r) ==
    LET t == Info[r].type
        filtered == t \in Elements(DirectSpecs(s)) /\ ProjectFilter(s, t)
    IN  /\ filtered \/ Attr[t].wide \/ ProviderConnection(s) \in {NoProject, Target}
        /\ BelongsToProject(s, r)

\* The project's resources that were there all along and that the report of s
\* owes: those below a listed resource included.
Expected(s) ==
    {r \in cloud \ Late :
        /\ Info[r].owner = Target /\ Info[r].type \in Asked(s)
        /\ Sdk(s) => Attr[Info[r].type].addressed /\ BelongsToProject(s, r)
        /\ IF Info[r].parents = {} THEN Visible(s, r) ELSE Info[r].parents \subseteq listed
        /\ Sdk(s) /\ s \in Network => ~(\E g \in {r} \cup Info[r].ref : Info[g].default)
        /\ Attr[Info[r].type].related => Info[r].ref \cap listed # {}}

Excused(s, t) == ~Attr[t].served \/ errors \cap {<<s, t>>, <<s, "(provider)">>} # {}

\* A report is complete or says where it is not: a resource of the project that
\* existed all along and that its service shows is listed, also below other
\* resources and after several passes, or an error names its type or service;
\* the one exception is a type of which a request failed and was taken for a
\* missing type by the text of its error (298-307).
CompleteOrReported ==
    pc = "done" =>
        /\ \A s \in Elements(providers) : \A r \in Expected(s) :
              r \in listed \/ Excused(s, Info[r].type) \/ Info[r].type \in dropped
        /\ \A e \in endpoints : kind[e.service] = "none" => <<e.service, "(client)">> \in errors

\* A strict run that prints a report met no error, on any of the paths that
\* note one (clients, direct and nested types, unlisted managers).
StrictReportIsClean == strict /\ pc = "done" => errors = {} /\ rc = 0

\* A resource of another project is listed only when nothing shows its owner
\* and the connection was not the target's: everything else is caught by the
\* filter, the ownership check or the workflow relation, or is below such a
\* resource.
ForeignIsUnmarked ==
    \A s \in Elements(providers) : \A r \in listed :
        Info[r].type \in Elements(Names(s)) /\ Info[r].owner # Target =>
            \/ Info[r].parents # {} /\ Info[r].parents \subseteq listed
            \/ /\ Attr[Info[r].type].shows # "owner"
               /\ Attr[Info[r].type].wide \/ ProviderConnection(s) # Target
               /\ Attr[Info[r].type].related => Info[r].ref \cap listed # {}

\* "Resource request failures are included in the report [...]  Use --strict
\* when an incomplete inventory should be a hard failure" (11-14): there is no
\* such exception.
FailuresReported ==
    pc = "done" =>
        \A s \in Elements(providers) : \A r \in Expected(s) :
            r \in listed \/ Excused(s, Info[r].type)

\* The default security group and its rules never reach a deletion plan, unless
\* listing the groups failed.
DefaultGroupLeft ==
    pc = "done" =>
        \A s \in Elements(providers) \cap Network : \A r \in listed :
            \A g \in ({r} \cup Info[r].ref) \cap (cloud \ Late) :
                Info[r].type \in Elements(Names(s)) /\ Info[g].default /\ Sdk(s)
                    => Excused(s, Info[g].type) \/ Info[g].type \in dropped

\* The program ends: the passes over nested types stop however the cloud moves.
\* "Resource request failures [...] do not prevent other resources from being
\* listed" (11-13): without --strict the listing ends in a report.
RunEnds ==
    /\ <>(pc \in {"done", "failed"})
    /\ ~strict /\ pc = "collect" ~> pc = "done"
=============================================================================
