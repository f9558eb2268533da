SPECIFICATION Spec
CONSTANTS
  Pic2MaskPort = 33
  Scancodes = {57, 80}
  MouseBytes = {0}
  StrayLines = {}
  StartX = 1
  StartY = 1
  MouseMax = 1
  DelayTicks = 2
PROPERTIES
  DelayReturns
