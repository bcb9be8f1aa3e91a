CONSTANTS
    r1 = r1  r2 = r2  r3 = r3
    c1 = c1  c2 = c2  c3 = c3
    v1 = v1  v2 = v2
    Nobody = Nobody
    Runners = {r1, r2}
    Convs = {c1, c2}
    ConvOf <- TwoRunners
    Reverts = {}
    MaxQueue = 1
    MaxConvs = 2
    MaxSends = 4
    MaxOlder = 0
    StopPhases = {"run"}
    Hazards = {}
SPECIFICATION Spec
INVARIANTS OneWriter
CHECK_DEADLOCK FALSE
