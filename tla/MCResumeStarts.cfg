CONSTANTS
    P = P
    B = B
    Servers = {s1}
    NoSock = NoSock
    MaxFaults = 1
    MaxRounds = 2
    RestartLimit = 0
    Checks = 1
    CallbackKept = FALSE
SPECIFICATION FairSpec
CHECK_DEADLOCK FALSE
PROPERTY ResumeStarts
