CONSTANTS
  Kind = "ssh"
  RetryLoopCount = 1
  MaxOut = 2
  MaxErr = 3
  Capacity = 2
  BufferSize = 3
  Faults = {}
SPECIFICATION FairSpec
CHECK_DEADLOCK FALSE
PROPERTY Returns
