CONSTANTS
    PollCmds <- MCPollCmds
    Lines <- MCLines
    Watched <- MCWatched
    Ack = "ack"
    AcksCommands = TRUE
    RawMax = 3
    BufMax = 6
    QueueCap = 2
    MaxReconnects = 1
    MaxFaults = 1
    MaxSplits = 1
    MaxChanges = 2
    MaxCmds = 1
    MaxStops = 1
SPECIFICATION Spec
INVARIANTS TypeOK ToldMatchesPrev WellFramed
PROPERTIES EdgesAlternate MonotoneReads
CHECK_DEADLOCK FALSE
