SPECIFICATION Spec
CONSTANTS
    Ops <- NativeOps
    MaxActs = 4
    MaxPanics = 1
    Template = FALSE
PROPERTY PanicReachesCallers
