CONSTANTS
    None = None
    Streams = {1, 2}
    Conns = {1, 2, 3}
    MaxFaults = 1
CHECK_DEADLOCK FALSE
SPECIFICATION Spec
PROPERTY AuthCompletes
