CONSTANTS
  Clients = {"r1","r2","r3","toolkit"}
  Publishers = {"r1","r2","r3"}
  SendQueues = {"send","other"}
  Topics = {"t1","t2","t3"}
  QueueName <- MCQueueName
  Topic <- MCTopic
  Existing = {"none","direct"}
SPECIFICATION Spec
CHECK_DEADLOCK FALSE
INVARIANT TypeOK
INVARIANT RequestsArrive
INVARIANT NoStrayRequests
 
