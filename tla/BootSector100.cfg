SPECIFICATION Spec
CONSTANT Sizes = {100}
INVARIANT
  LoaderIntact
CHECK_DEADLOCK FALSE
