SPECIFICATION Spec
CONSTANTS
  Keys = {1, 17}
  HeldAtStart = {17}
  DeviceLines = {0, 8}
  QueueSize = 2
INVARIANTS
  VectorsGated
  OnlyLineOneLeft
PROPERTIES
  OneScancodeOnly
  TimerServed
