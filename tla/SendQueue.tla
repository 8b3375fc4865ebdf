------------------------------ MODULE SendQueue -----------------------------
(***************************************************************************)
(* The durable send queue (JMSAMQPQueue, pkg/queue/jmsqueue.go) that takes *)
(* build requests from requestors to the Jenkins trigger.  All requests of *)
(* one project carry the same CI message here, so the queue is the number  *)
(* of requests waiting for each project.                                   *)
(***************************************************************************)
EXTENDS Messages

VARIABLE requests   \* requests[p]: build requests Jenkins has yet to take

SendQueueTypeOK == requests \in [Projects -> Nat]

SendQueueInit == requests = [p \in Projects |-> 0]

\* JMSAMQPQueue.Publish of a RemoteBuildRequestMessage for project p.
PublishRequest(p) == requests' = [requests EXCEPT ![p] = @ + 1]

\* The CI trigger of project p takes one request.
TakeRequest(p) ==
  /\ requests[p] > 0
  /\ requests' = [requests EXCEPT ![p] = @ - 1]

=============================================================================
