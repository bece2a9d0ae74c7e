CONSTANTS
    c1 = c1
    c2 = c2
    c3 = c3
    k1 = k1
    k2 = k2
    None = None
    Clients = {c1, c2, c3}
    Channels = {"ch"}
    Keys = {k1, k2}
    PublicKey <- SharedPublicKey
    PrivateKeys <- SharedPrivateKeys
    Passphrases = {}
    ServerType = "router"
    Operators = {c3}
    ModeBits = {"PRIVKEY", "FOUNDER_AUTH", "CIPHER"}
    UModeBits = {"CHANFO", "CHANOP"}
    ListItems = {}
    ListLimit = 1
    UserLimits = {}
    ChLimit = 1
    StatModulus = 4
SPECIFICATION Spec
SYMMETRY SameKeyClients
INVARIANTS
    TypeOK
    UserCountExact
    KeyAgreement
    SoleFounder
    RekeyPending
    StatExact
