SPECIFICATION Spec
CONSTANTS
  Configs = {{0, 2, 5, 6}, {2, 4, 5, 6}}
  Scancodes = {{1, 2, 3, 4}}
  MaxKeys = 2
  PAGE = 4
  BufferSizes = {4, 10}
  Maps <- MCMaps
  MaxEvents = 4
INVARIANTS
  TypeOK
  BlocksApart
  BlocksFree
  MouseReady
PROPERTIES
  BootEnds
  ReadReturns
CHECK_DEADLOCK FALSE
