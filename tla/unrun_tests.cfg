CONSTANTS
  Names = {"m1","m2"}
  Groups = {"","g"}
  Files = {"nodes","more","empty"}
  Adders = {"a1","a2","a3"}
  Addition <- MCAddition
  OldFiles <- MCOldFiles
  Workers = {"w1","w2"}
  RetryLoopCount = 2
  MaxErrors = 2
  Lenient = {"m1","m2"}
  Kill = TRUE
  Jobs <- MCJobs
SPECIFICATION MCSpec
CHECK_DEADLOCK FALSE
INVARIANT TestsWereRun
