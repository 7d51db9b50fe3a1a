SPECIFICATION Spec
CONSTANTS
  WordBits = 5
  ByteBits = 3
  MaxRegisters = 22
  Suites <- MCSuites
  Emitted <- MCEmitted
  InGo <- MCInGo
  Execution <- MCExecution
  Named <- MCNamed
INVARIANT RunsLikeGo
INVARIANT SharesLikeGo
INVARIANT NamesWhatItUses
CHECK_DEADLOCK FALSE
