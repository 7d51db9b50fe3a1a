SPECIFICATION StackSpec
CONSTANTS
    Ops <- StackOps
    MaxActs = 5
    MaxPanics = 1
    Template = FALSE
    StackSize = 16
    Sizes <- StackSizes
INVARIANTS
    RegistersKept
    FramesInOrder
    ReturnedResult
