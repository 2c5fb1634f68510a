CONSTANTS
    PollCmds <- MCPollCmds
    Lines <- MCLines
    Watched <- MCWatched
    Ack = "ack"
    AcksCommands = TRUE
    RawMax = 4
    BufMax = 8
    QueueCap = 2
    MaxReconnects = 1
    MaxFaults = 1
    MaxSplits = 1
    MaxChanges = 1
    MaxCmds = 1
    MaxStops = 0
SPECIFICATION FairSpec
PROPERTIES EventuallyTold KeepsPolling
