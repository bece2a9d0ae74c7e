SPECIFICATION FairSpec
CONSTANTS
    Configs <- MCConfigs
    RetryCount = 1
    MaxRekeys = 1
    MaxFaults = 1
    MaxResent = 1
    MaxAborts = 1
    MaxData = 1
    None = None
INVARIANTS KeysInStep Negotiated SameVerdict ContextSafe
PROPERTIES Agreement ExchangeEnds
CHECK_DEADLOCK FALSE
