SPECIFICATION FairSpec
CONSTANTS
    a = a
    MaxMachines = 2
    Chans <- OneChan
    Cap = 1
    MaxCases = 4
INVARIANTS
    StoppedSaysSo
    OnlyIfCancelled
    ExitReachesRun
    WaitsInItsCases
PROPERTIES
    CancelledEnds
    WatchersEnd
