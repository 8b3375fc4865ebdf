------------------------------ MODULE RcvQueue ------------------------------
(***************************************************************************)
(* The receive queue of a request: AMQPQueue (pkg/queue/queue.go) and the  *)
(* broker behind it, which the code uses and does not contain.  The queue  *)
(* is transient and auto-deleted: the broker deletes it, with what is in   *)
(* it, when its last consumer goes away, and drops what is published to a  *)
(* queue that does not exist.  There is no prefetch limit, so a message    *)
(* goes to some consumer as soon as there is one; it stays unacknowledged  *)
(* in inbox until it is handled, and goes back to the head of the queue if *)
(* its consumer disconnects first.                                         *)
(***************************************************************************)
EXTENDS Messages, Sequences

CONSTANT Requestors   \* the requestor processes, all with one receive queue

VARIABLES
  declared,   \* whether the broker has the queue
  ready,      \* messages in the queue that no consumer has been given
  consumers,  \* the requestors with an open consumer on the queue
  inbox       \* inbox[r]: deliveries r's handler has yet to finish with

queueVars == <<declared, ready, consumers, inbox>>

\* All messages on their way to a requestor are in S.
QueueHolds(S) ==
  /\ ready \in Seq(S)
  /\ inbox \in [Requestors -> Seq(S)]

QueueTypeOK ==
  /\ declared \in BOOLEAN
  /\ consumers \in SUBSET Requestors
  /\ QueueHolds(Message)

QueueInit ==
  /\ declared = FALSE
  /\ ready = <<>>
  /\ consumers = {}
  /\ inbox = [r \in Requestors |-> <<>>]

\* AMQPQueue.Init: dial, open a channel, declare the queue (idempotent).
QueueDeclare ==
  /\ declared' = TRUE
  /\ UNCHANGED <<ready, consumers, inbox>>

\* AMQPQueue.Publish: neither mandatory nor confirmed, to the default exchange.
Publish(m) ==
  /\ ready' = IF declared THEN Append(ready, m) ELSE ready
  /\ UNCHANGED <<declared, consumers, inbox>>

\* AMQPQueue.Consume: the broker refuses a consumer on a missing queue.
Consume(r) ==
  /\ declared
  /\ consumers' = consumers \union {r}
  /\ UNCHANGED <<declared, ready, inbox>>

\* The broker pushes the first ready message to one of the consumers.
Deliver(r) ==
  /\ r \in consumers
  /\ ready # <<>>
  /\ inbox' = [inbox EXCEPT ![r] = Append(@, Head(ready))]
  /\ ready' = Tail(ready)
  /\ UNCHANGED <<declared, consumers>>

\* d.Ack(false), at the end of an iteration of the handler's loop.
Ack(r) ==
  /\ inbox' = [inbox EXCEPT ![r] = Tail(@)]
  /\ UNCHANGED <<declared, ready, consumers>>

\* The purge of Shutdown(true) drops the ready messages only.
QueuePurge ==
  /\ ready' = <<>>
  /\ UNCHANGED <<declared, consumers, inbox>>

\* The broker sees the channel of r closed, with kept the deliveries that
\* stay in the memory of r's process.
ChannelClosed(r, kept) ==
  /\ consumers' = consumers \ {r}
  /\ inbox' = [inbox EXCEPT ![r] = kept]
  /\ IF r \in consumers /\ consumers' = {}
     THEN declared' = FALSE /\ ready' = <<>>
     ELSE /\ ready' = IF r \in consumers THEN inbox[r] \o ready ELSE ready
          /\ UNCHANGED declared

=============================================================================
