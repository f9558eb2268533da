SPECIFICATION Spec
CONSTANTS
  Pic2MaskPort = 161
  Scancodes = {57, 80}
  MouseBytes = {1, 255}
  StrayLines = {8}
  StartX = 1
  StartY = 1
  MouseMax = 0
  DelayTicks = 2
INVARIANTS
  ServiceDrained
  OnlyOpenLines
  KeyActsOnce
  PacketAligned
PROPERTIES
  RequestKept
  DelayReturns
  LatchedByteIsRead
  KeyIsConsumed
