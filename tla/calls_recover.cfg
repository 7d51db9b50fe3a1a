SPECIFICATION Spec
CONSTANTS
    Ops <- GoOps
    MaxActs = 5
    MaxPanics = 3
    Template = FALSE
INVARIANT RecoversCurrentPanic
