SPECIFICATION Spec
CONSTANT Sizes <- MCSizes
INVARIANTS
  StaysOnTrack
  KernelInPlace
  KernelComplete
  SmallKernelIsSafe
PROPERTY
  BootEnds
CHECK_DEADLOCK FALSE
