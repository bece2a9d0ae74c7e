CONSTANTS
    s1 = s1
    s2 = s2
    c1 = c1
    c2 = c2
    c3 = c3
    c4 = c4
    R = R
    Servers = {s1, s2}
    Clients = {c1, c2, c3, c4}
    Home <- MCHome
    InitUsers <- MCInitUsers
    Keys = {1, 2, 3, 4, 5, 6, 7, 8, 9}
    MaxCommands = 2
    MaxCrashes = 1
SPECIFICATION FairSpec
INVARIANTS MembersAgree KeysAgree OneFounder
PROPERTY KeysConverge
CHECK_DEADLOCK FALSE
