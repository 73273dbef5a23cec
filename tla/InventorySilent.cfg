SPECIFICATION Spec
CONSTANTS
    Target = "target"
    AdminProject = "admin"
    NoProject = "none"
    Interface = "public"
    Region = "one"
    NoRegion = "any"
    Catalogs <- MCCatalogs
    ServiceOrder <- MCServiceOrder
    Ignored = {"metric"}
    Unscoped = {"app"}
    KwargsFilter = {"app"}
    ObjectStore = {"store", "blob"}
    ContainerType = "container"
    ObjectType = "object"
    Network = {"net"}
    Clients <- MCClients
    Type <- MCType
    Registry <- MCRegistry
    Managers <- MCManagers
    Attr <- MCAttr
    Res <- MCRes
    Info <- MCInfo
    Late = {"o1"}
    Doomed = {"z2", "x1", "t1"}
INVARIANT
    FailuresReported
