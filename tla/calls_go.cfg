SPECIFICATION Spec
CONSTANTS
    Ops <- GoOps
    MaxActs = 5
    MaxPanics = 3
    Template = FALSE
INVARIANTS
    NeverWithoutFunction
    ChainCoversPanics
PROPERTY GoSpec
