SPECIFICATION FairSpec
CONSTANTS
  Formats = {"HTML", "Markdown", "Program", "Text", "JS"}
  Symbols <- MCSymbols
  Statements <- MCStatements
  Bodies <- MCBodies
  Code <- MCCode
  Imported = {"Text"}
  MaxNested <- MCMaxNested
  MaxAncestors = 5
  Buffer = 1
INVARIANTS
  PanicHasAReason
  ContextsFollowBlocks
  BlocksMatch
PROPERTIES
  TagReturns
  ParserReturns
CHECK_DEADLOCK FALSE
