SPECIFICATION Spec
CONSTANTS
  BiosMasks = {{3, 4, 5, 7}, {}}
  WithKeyboard = {TRUE, FALSE}
  Faults = {0, 14}
  DeviceLines = {0, 8}
INVARIANTS
  OnlyKeyboardDelivered
  ServiceDrained
PROPERTIES
  KeyServed
CHECK_DEADLOCK FALSE
