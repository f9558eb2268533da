SPECIFICATION Spec
CONSTANTS
  Pic2MaskPort = 33
  Scancodes = {57}
  MouseBytes = {0}
  StrayLines = {4, 8}
  StartX = 1
  StartY = 1
  MouseMax = 1
  DelayTicks = 2
INVARIANT
  OnlyOpenLines
