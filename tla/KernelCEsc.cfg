SPECIFICATION Spec
CONSTANTS
  Keys = {1, 17}
  HeldAtStart = {}
  DeviceLines = {0, 8}
  QueueSize = 2
PROPERTY
  EscExits
