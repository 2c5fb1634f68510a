CONSTANTS
    Tasks = {tuya, satel}
    NoTask = none
    BufSize = 3
    MaxReply = 3
    MaxChunk = 2
SYMMETRY TaskSymmetry
SPECIFICATION Spec
INVARIANTS TypeOK OwnReplyAlone InBoundsAlone
