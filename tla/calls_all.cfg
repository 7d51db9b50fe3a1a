SPECIFICATION FairSpec
CONSTANTS
    Ops <- EveryOp
    MaxActs = 5
    MaxPanics = 2
    Template = TRUE
INVARIANTS
    TypeOK
    PanickedHasPanic
    NoForeignRenderer
PROPERTY NextCallEnds
