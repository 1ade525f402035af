SPECIFICATION MCSpec
CONSTANTS
  Paths <- MCPaths
  Texts <- MCTexts
  Flags <- MCFlags
  Handles = {h1}
  Chunk = 2
  MaxSize = 2
  MaxMade = 2
VIEW StateView
INVARIANTS
  NamespaceIsTree
  
PROPERTIES
  AppendNeverOverwrites
  ImplementsNamespace
