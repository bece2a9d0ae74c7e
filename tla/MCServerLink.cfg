CONSTANTS
    None = None
    Streams = {1, 2, 3}
    Conns = {1, 2, 3}
    MaxFaults = 2
CHECK_DEADLOCK FALSE
SPECIFICATION Spec
INVARIANTS
    EndsAgree
    NotLeftAlone
PROPERTIES
    Reconnects
