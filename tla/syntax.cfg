SPECIFICATION Spec
CONSTANTS
  Texts <- MCTexts
  Trees <- MCTrees
  Statements <- MCStatements
  Parse <- MCParse
  TextOf <- String
  CloneOf <- CloneNode
  DumpOf <- Dump
INVARIANT ParsesLikeTheGrammar
INVARIANT StringRoundTrips
INVARIANT ClonesAreEqual
INVARIANT DumpShowsTheTree
CHECK_DEADLOCK FALSE
