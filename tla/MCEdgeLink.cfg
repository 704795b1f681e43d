SPECIFICATION FairSpec
CONSTANTS
    Capacity = 2
    MaxFlush = 1
    MaxSeq = 4
    Nothing = Nothing
INVARIANTS TypeOK NothingLost OldestGiveWay NoIdleDuplicate OnlineAnnounced
PROPERTY BacklogDrains
