------------------------- MODULE MCProjectInventory -------------------------
(* A cloud with eight services: capsules and databases known to legacy       *)
(* clients only, DNS with three levels of types, a network service with a    *)
(* default security group, object stores, one of them without the types that *)
(* the container-aware block needs, and workflows.                           *)
EXTENDS ProjectInventory

Ep(s, i, rank) == [service |-> s, interface |-> i, region |-> "one", enabled |-> TRUE, rank |-> rank]
Both(s) == {Ep(s, "public", 1), Ep(s, "public", 2), Ep(s, "internal", 0)}

MCServiceOrder == <<"app", "blob", "db", "dns", "metric", "net", "store", "wf">>

\* Small catalogs, so that the services are combined two by two; one has only
\* disabled endpoints, one a service without the interface, one another region.
MCCatalogs == {
    Both("dns") \cup Both("metric") \cup Both("db"),
    Both("net") \cup {[Ep("db", "public", 0) EXCEPT !.region = "two"]},
    Both("store"), Both("wf"), Both("app") \cup Both("blob"),
    {Ep("db", "internal", 1)},
    {[Ep("db", "public", 1) EXCEPT !.enabled = FALSE]}}

Client(sdk, plugin, generic) == [sdk |-> sdk, plugin |-> plugin, generic |-> generic]
MCClients == [s \in Elements(MCServiceOrder) |->
    CASE s \in {"app", "db"} -> {Client("absent", "absent", "works"), Client("absent", "fails", "works")}
      [] s = "dns" -> {Client("works", "absent", "absent"), Client("fails", "absent", "works")}
      [] s = "wf" -> {Client("works", "absent", "absent"), Client("fails", "works", "absent")}
      [] s = "store" -> {Client("works", "absent", "absent"), Client("absent", "works", "absent")}
      [] OTHER -> {Client("works", "absent", "absent"), Client("absent", "absent", "absent")}]

\* "entry" is below "recordset" and sorts before it; "member" is below a type
\* that is never listed; "port" is not served here.
MCType == {"capsule", "instance", "zone", "recordset", "entry", "group", "rule", "port", "flavor",
           "container", "object", "workflow", "execution", "task", "member", "log", "bucket"}
MCRegistry == [s \in Elements(MCServiceOrder) |->
    CASE s = "dns" -> <<"log", "zone", "entry", "recordset">>
      [] s = "net" -> <<"group", "port", "rule">>
      [] s = "store" -> <<"container", "object">>
      [] s = "blob" -> <<"bucket">>
      [] s = "wf" -> <<"execution", "flavor", "workflow", "member", "task">>
      [] OTHER -> <<>>]
MCManagers == [s \in Elements(MCServiceOrder) |->
    CASE s = "app" -> <<"capsule">>
      [] s = "db" -> <<"instance">>
      [] s = "wf" -> <<"execution", "flavor", "member", "task", "workflow">>
      [] OTHER -> <<>>]

Plain == [parents |-> {}, isGlobal |-> FALSE, nonDeletable |-> FALSE, exception |-> FALSE,
          field |-> TRUE, shows |-> "owner", filter |-> "honoured", wide |-> FALSE,
          served |-> TRUE, addressed |-> TRUE, related |-> FALSE]
Unmarked == [Plain EXCEPT !.exception = TRUE, !.field = FALSE, !.shows = "connection", !.filter = "none"]
MCAttr == [t \in MCType |->
    CASE t \in {"capsule", "instance"} -> Unmarked
      [] t = "zone" -> [Plain EXCEPT !.filter = "rejected", !.wide = TRUE]
      [] t = "recordset" -> [Plain EXCEPT !.parents = {"zone"}]
      [] t = "entry" -> [Unmarked EXCEPT !.parents = {"recordset"}]
      [] t = "port" -> [Plain EXCEPT !.served = FALSE]
      [] t = "flavor" -> [Plain EXCEPT !.isGlobal = TRUE]
      [] t = "log" -> [Plain EXCEPT !.nonDeletable = TRUE]
      [] t = "container" -> [Unmarked EXCEPT !.exception = FALSE]
      [] t = "object" -> [Unmarked EXCEPT !.parents = {"container"}]
      [] t = "workflow" -> Unmarked
      [] t = "execution" -> [Unmarked EXCEPT !.wide = TRUE, !.related = TRUE, !.shows = "nothing"]
      [] t = "task" -> [Plain EXCEPT !.parents = {"execution"}]
      [] t = "member" -> [Plain EXCEPT !.parents = {"flavor"}]
      [] OTHER -> Plain]

R(t, o, parents, ref) == [type |-> t, owner |-> o, parents |-> parents, ref |-> ref, default |-> FALSE]
MCRes == {"k1", "k2", "i1", "i2", "z1", "z2", "z3", "rs1", "en1", "g0", "g1", "ru0", "ru1",
          "c1", "c2", "o1", "o2", "w1", "w2", "x1", "x2", "t1", "t2"}
MCInfo == [r \in MCRes |->
    CASE r = "k1" -> R("capsule", Target, {}, {})
      [] r = "k2" -> R("capsule", AdminProject, {}, {})
      [] r = "i1" -> R("instance", Target, {}, {})
      [] r = "i2" -> R("instance", AdminProject, {}, {})
      [] r \in {"z1", "z2"} -> R("zone", Target, {}, {})
      [] r = "z3" -> R("zone", AdminProject, {}, {})
      [] r = "rs1" -> R("recordset", Target, {"z1"}, {})
      [] r = "en1" -> R("entry", Target, {"rs1"}, {})
      [] r = "g0" -> [R("group", Target, {}, {}) EXCEPT !.default = TRUE]
      [] r = "g1" -> R("group", Target, {}, {})
      [] r = "ru0" -> R("rule", Target, {}, {"g0"})
      [] r = "ru1" -> R("rule", Target, {}, {"g1"})
      [] r = "c1" -> R("container", Target, {}, {})
      [] r = "c2" -> R("container", AdminProject, {}, {})
      [] r = "o1" -> R("object", Target, {"c1"}, {})
      [] r = "o2" -> R("object", AdminProject, {"c2"}, {})
      [] r = "w1" -> R("workflow", Target, {}, {})
      [] r = "w2" -> R("workflow", AdminProject, {}, {})
      [] r = "x1" -> R("execution", Target, {}, {"w1"})
      [] r = "x2" -> R("execution", AdminProject, {}, {"w2"})
      [] r = "t1" -> R("task", Target, {"x1"}, {})
      [] OTHER -> R("task", AdminProject, {"x2"}, {})]
=============================================================================
