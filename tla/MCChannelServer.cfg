CONSTANTS
    c1 = c1
    c2 = c2
    c3 = c3
    k1 = k1
    k2 = k2
    None = None
    Clients = {c1, c3}
    Channels = {"ch"}
    Keys = {k1, k2}
    PublicKey <- SharedPublicKey
    PrivateKeys <- TwoPrivateKeys
    Passphrases = {"pw"}
    ServerType = "server"
    Operators = {}
    ModeBits = {"INVITE", "PASSPHRASE", "FOUNDER_AUTH"}
    UModeBits = {"CHANFO", "CHANOP"}
    ListItems = {k2}
    ListLimit = 1
    UserLimits = {}
    ChLimit = 1
    StatModulus = 4
SPECIFICATION Spec
INVARIANTS
    CrossReference
    EmptyIsPermanent
PROPERTIES
    FounderSettings
    RightsAreGranted
