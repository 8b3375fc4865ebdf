CONSTANTS
  Kind = "ssh"
  RetryLoopCount = 2
  MaxOut = 2
  MaxErr = 1
  Capacity = 2
  BufferSize = 2
  Faults = {"init","session","start","read","lost","broker"}
SPECIFICATION FairSpec
CHECK_DEADLOCK FALSE
INVARIANT TypeOK
INVARIANT ResultIsComplete
INVARIANT StreamMatchesConsole
PROPERTY Returns
 
