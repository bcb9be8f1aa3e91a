CONSTANTS
    r1 = r1  r2 = r2  r3 = r3
    c1 = c1  c2 = c2  c3 = c3
    v1 = v1  v2 = v2
    Nobody = Nobody
    Runners = {r1, r2, r3}
    Convs = {c1, c2}
    ConvOf <- Reopened
    Reverts = {v1}
    MaxQueue = 1
    MaxConvs = 2
    MaxSends = 2
    MaxOlder = 1
    StopPhases = {"none", "run", "post", "drain", "wake"}
    Hazards = {"rejoin", "recycle", "expiry", "slow_pipe", "abandoned_revert"}
SPECIFICATION Spec
INVARIANTS TypeOK HolderNeverWaits LeaseHasReleaser
CHECK_DEADLOCK FALSE
