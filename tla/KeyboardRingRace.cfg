SPECIFICATION RingSpec
CONSTANTS
  KBD_BUFFER_SIZE = 4
  MaxBytes = 9
INVARIANT
  NothingLost
