CONSTANTS
    Producers = {p1}
    Cmds = {c1, c2}
    None = None
    Torn = Torn
    QueueCap = 4
    MaxCmds = 6
SPECIFICATION FairSpec
INVARIANTS TypeOK QueuedIntact
PROPERTIES FifoSpec EventuallySent
CHECK_DEADLOCK FALSE
