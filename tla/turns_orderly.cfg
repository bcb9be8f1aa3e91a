CONSTANTS
    r1 = r1  r2 = r2  r3 = r3
    c1 = c1  c2 = c2  c3 = c3
    v1 = v1  v2 = v2
    Nobody = Nobody
    Runners = {r1, r2, r3}
    Convs = {c1, c2, c3}
    ConvOf <- OneRunnerEach
    Reverts = {v1}
    MaxQueue = 1
    MaxConvs = 3
    MaxSends = 3
    MaxOlder = 0
    StopPhases = {"none", "drain"}
    Hazards = {"disconnect"}
SPECIFICATION Spec
INVARIANTS TurnHoldsLease OneWriter BusyHasDriver
PROPERTIES OneTurnAtATime
CHECK_DEADLOCK FALSE
