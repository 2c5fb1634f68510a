CONSTANTS
    Modes = {HOME, NIGHT}
    Night = NIGHT
    Day = 5
    From = 3
    To = 0
    AutoOff = 2
    MaxTriggers = 3
    MaxFaults = 1
SPECIFICATION FairSpec
INVARIANTS TypeOK LightCovered
PROPERTIES HeldFullTimeAlone RunsInWindow LightGoesOff
