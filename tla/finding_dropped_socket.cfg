CONSTANTS
    c1 = c1  c2 = c2  c3 = c3
    Conns = {c1, c2, c3}
    NoConn = NoConn
    HighWater = 2
    LowWater = 0
    Scopes <- StreamingOnly
SPECIFICATION Spec
PROPERTIES DropKeepsAgent
CHECK_DEADLOCK FALSE
