CONSTANTS
    r1 = r1
    r2 = r2
    inv = inv
    a = a
    b = b
    t1 = t1
    t2 = t2
    None = None
    Requests = {r2, inv}
    Kind <- KindByNick
    Connections = {b}
    Caller <- CallerOf
    Clients = {t1, t2}
    Targets <- TargetsByNick
    OnChannels = {}
    Renames <- RenamesBoth
SPECIFICATION Spec
INVARIANTS
    ReferencesExact
PROPERTIES
    ImplementsService
