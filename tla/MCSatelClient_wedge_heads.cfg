CONSTANTS
    PollCmds <- MCPollCmds
    Lines <- MCLines
    Watched <- MCWatched
    Ack = "ack"
    AcksCommands = TRUE
    RawMax = 3
    BufMax = 8
    QueueCap = 2
    MaxReconnects = 1
    MaxFaults = 3
    MaxSplits = 3
    MaxChanges = 0
    MaxCmds = 0
    MaxStops = 0
SPECIFICATION FairSpec
PROPERTIES KeepsPolling
