CONSTANTS
    CmdBytes = {0, 13, 254}
    DataBytes = {254, 240, 13}
    MaxData = 2
    MaxFrame = 128
    MaxPayload = 64
    BufSize = 512
    Chunks = {1, 2, 16}
    Pass <- MCPass
    MaxBreaks = 1
SPECIFICATION FrameSpec
INVARIANTS RoundTrip NothingLost Resynchronises
CHECK_DEADLOCK FALSE
