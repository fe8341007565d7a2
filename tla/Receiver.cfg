SPECIFICATION LiveSpec
CONSTANTS
    Clients <- ClientNames
    Requests <- Mixed
    Wake = Wake
    Idles = TRUE
    MaxLive = 2
    ChannelBound = 1
    MaxBatch = 2
    MaxFaults = 1
INVARIANTS TypeOK OkIsStored NothingLeftBehind
PROPERTIES StopEnds EveryoneAnswered
CHECK_DEADLOCK FALSE
