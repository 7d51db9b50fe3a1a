SPECIFICATION BuildSpec
CONSTANTS
  Dirs <- MCDirs
  MaxImports = 2
  Files <- MCFiles
  Root = "index"
  Formats <- MCFormats
  MaxNodes = 2
  Imported <- MCImported
  MaxInits = 2
  Focus <- MCFocus
  Names <- MCNames
  maxRegistersCount = 3
  MaxStatements = 4
  MaxNested = 3
INVARIANTS
  ProgramIsComplete
  UsedInOneWay
  TreesAreFinite
  ImportsAreInitializedFirst
  JumpsFollowSource
  VariablesKeepRegisters
CHECK_DEADLOCK FALSE
