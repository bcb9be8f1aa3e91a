CONSTANTS
    w1 = w1  w2 = w2  s1 = s1
    Wires = {w1, w2}
    Shells = {s1}
    NoOwner = NoOwner
    NoIO = NoIO
    NoProc = NoProc
    NoGen = NoGen
    Environments <- EachHazard
SPECIFICATION FairSpec
INVARIANTS TypeOK OneOwner NoOrphanRequest
PROPERTIES TimeoutOnlyOffDuty TurnNeverEvicted SuccessorSpared ZombiesStandDown NotBricked
CHECK_DEADLOCK FALSE
