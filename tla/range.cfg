SPECIFICATION RangeSpec
CONSTANTS
    Ops <- RangeOps
    MaxActs = 4
    MaxPanics = 1
    Template = FALSE
    Addrs <- RangeAddrs
    MaxNested = 3
INVARIANTS
    LoopsKept
    NoLoopOfPanicked
