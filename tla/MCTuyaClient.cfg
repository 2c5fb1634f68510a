CONSTANTS
    Ids = {d1, d2}
    Values = {off, on}
    None = none
    Slots = 2
    MaxListed = 2
    MaxReconnects = 1
    MaxFaults = 2
    MaxChanges = 1
    MaxLists = 1
SPECIFICATION FairSpec
INVARIANTS TypeOK ToldIsStored ReadyHasToken
PROPERTIES RepeatsOnlyFirst EventuallyTold
