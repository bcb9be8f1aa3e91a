CONSTANTS
    w1 = w1  w2 = w2  s1 = s1
    Wires = {w1, w2}
    Shells = {s1}
    NoOwner = NoOwner
    NoIO = NoIO
    NoProc = NoProc
    NoGen = NoGen
    Environments <- Orderly
SPECIFICATION Spec
INVARIANTS BusyOnlyIfRefused
CHECK_DEADLOCK FALSE
