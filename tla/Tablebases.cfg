SPECIFICATION Spec
CONSTANTS
  Walk = 1
  Tables <- MCTables
  Placements <- MCPlacements
  Half = 4
  LenTabMaxBits = 2
  SymCount = 16
  Spans = {2, 4}
  BlockWords = {2}
  Paddings = {0, 1}
  MaxSymbols = 4
  Shapes <- MCShapes
  Probers = {1, 2}
  Materials <- MCMaterials
  Keys = {"KQvK", "KvKQ", "KRvKR", "KBvK"}
  Homes = {0, 1, 3}
  Size = 4
  Directories <- MCDirectories
  MaxInits = 2
  MaxProbes = 2
  Fifty = 4
  MaxLine = 9
  Aborts = {1, 2, 99}
  Library <- MCLibrary
  Setups <- MCSetups
INVARIANTS
  TablesReadBack
  VerdictsAreTrue
  FilesMappedOnce
CHECK_DEADLOCK FALSE
