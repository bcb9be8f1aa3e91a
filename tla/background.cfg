CONSTANTS
    t1 = t1  t2 = t2
    Tasks = {t1}
    Events <- TaskEnds
    NoIO = NoIO
    Limit = 1
    MaxRunning = 1
    MaxAsks = 2
    MaxFaults = 1
    Environments <- EachHazard
SPECIFICATION FairSpec
INVARIANTS TypeOK TerminalMeansDead ApprovalShown OnceInContext
PROPERTIES TerminalStays NoPhantomTask KillEnds Delivers
CHECK_DEADLOCK FALSE
