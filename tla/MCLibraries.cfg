SPECIFICATION Spec
CONSTANTS
  VGA_WIDTH = 4
  VGA_HEIGHT = 2
  TabWidth = 2
  Glyphs <- MCGlyphs
  Colors = {7, 12}
  DefaultColor = 7
  INT_MAX = 3
  Formats <- MCFormats
  Arguments <- MCArguments
  Typed = 8
  MAX_COLS = 3
  MAX_ROWS = 3
  Byte = 4
  Messages <- MCMessages
  Spots <- MCSpots
  Vectors = {3, 14}
  MaxTop = 4
  MaxCalls = 3
  Numbers <- MCNumbers
  Word = 64
  HEAP_START = 16
  HEAP_SIZE = 24
  Requests = {0, 1, 4, 6, 20, 24, 55, 61}
  MaxBlocks = 4
  Size = 4
  Values = {0, 1, 2}
  KBD_BUFFER_SIZE = 4
  MaxBytes = 9
  Width = 14
  Height = 11
  BoxSize = 4
  KeyStep = 3
  StartX = 5
  StartY = 5
  StartDx = 2
  StartDy = 1
  NumColors = 4
  MaxSpeed = 12
INVARIANTS
  PrintfOutput
  ShowsPage
  NumeralCorrect
  HeapApart
  LibcCorrect
  HoldsNewest
  NothingLostUntilOvertaken
  BoxOnScreen
  BouncesInTime
PROPERTIES
  ImplementsPage
  ImplementsFifo
  LeavesEdge
  ConsoleReturns
CHECK_DEADLOCK FALSE
