CONSTANTS
    r1 = r1
    r2 = r2
    inv = inv
    a = a
    b = b
    t1 = t1
    t2 = t2
    None = None
    Requests = {r1, r2}
    Kind <- KindById
    Connections = {a, b}
    Caller <- CallerOf
    Clients = {t1, t2}
    Targets <- TargetsOf
    OnChannels = {}
    Renames <- NoRenames
SPECIFICATION Spec
INVARIANTS
    TypeOK
    QueriesLeftExact
    ContextsLive
PROPERTIES
    ImplementsService
