CONSTANTS
    m1 = m1  m2 = m2
    Messages = {m1, m2}
    NoMessage = NoMessage
    Depth = 1
    RamKeep = 1
    Keep = 2
    MaxTurns = 5
    Scopes <- EachScope
SPECIFICATION FairSpec
INVARIANTS TypeOK NoDoublePrompt FollowExact JournalSettles
PROPERTIES FollowReturns
CHECK_DEADLOCK FALSE
