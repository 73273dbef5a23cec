-------------------------- MODULE MCProjectCleanup --------------------------
(* Instances of ProjectCleanup for TLC: a resource is named after its kind.  *)
EXTENDS ProjectCleanup, TLC

\* Servers not there at the start stand for those that a creator may add later.
MCKind == [r \in Resources |->
              CASE r \in {"server1", "server2"} -> "server"
                [] r \in {"port1", "port2"} -> "port"
                [] OTHER -> r]

Option(source, yes, verify, allow) ==
    [source |-> source, yes |-> yes, verify |-> verify, allow |-> allow]

\* A dry run, and deletions in the combinations of source, --verify and --allow
\* that take different paths.
RunOptions ==
    {Option("project", FALSE, FALSE, "none"), Option("project", TRUE, FALSE, "all"),
     Option("project", TRUE, TRUE, "none"), Option("project", TRUE, TRUE, "service_api"),
     Option("report", TRUE, FALSE, "none"), Option("report", TRUE, TRUE, "service_api")}

OrderOptions == {Option("project", TRUE, TRUE, "none")}
=============================================================================
