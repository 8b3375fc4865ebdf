------------------------------ MODULE JMSQueue ------------------------------
(***************************************************************************)
(* The send queue itself (JMSAMQPQueue, pkg/queue/jmsqueue.go): requestors *)
(* and `toolkit sendq create' processes declare the queue, the exchange    *)
(* and the binding between them, each in calls of its own, on a broker     *)
(* where an operator may have made them already; requestors then publish   *)
(* one request each.  SendQueue is what this comes to for the rest of the  *)
(* system.                                                                 *)
(***************************************************************************)
CONSTANTS
  Clients,     \* the processes
  Publishers,  \* those that are requestors
  SendQueues,
  Topics,
  QueueName,   \* QueueName[c], Topic[c]: the options of c
  Topic,
  Existing     \* kinds the exchange may have at the start, or "none"

ExchangeKinds == {"none", "direct", "fanout"}

ASSUME JMSQueueAssumption ==
  /\ Publishers \subseteq Clients
  /\ QueueName \in [Clients -> SendQueues]
  /\ Topic \in [Clients -> Topics]
  /\ Existing \subseteq ExchangeKinds

VARIABLES
  exchange,  \* the kind of the exchange, when there is one
  queues,    \* the queues there are
  bindings,  \* the bindings of queues to the exchange, by topic
  waiting,   \* waiting[q]: whose requests are in q
  taken,     \* taken[q]: whose requests Jenkins took from q (history)
  jpc,       \* jpc[c]: the call c is at
  dropped,   \* the clients whose connection was lost
  lost       \* those whose request was lost with a connection or a broker (history)

vars == <<exchange, queues, bindings, waiting, taken, jpc, dropped, lost>>

brokerVars == <<exchange, queues, bindings, waiting, taken, lost>>

TypeOK ==
  /\ exchange \in ExchangeKinds
  /\ queues \subseteq SendQueues
  /\ bindings \subseteq Topics \X queues
  /\ waiting \in [SendQueues -> SUBSET Publishers]
  /\ taken \in [SendQueues -> SUBSET Publishers]
  /\ jpc \in [Clients -> {"queue", "exchange", "bind", "publish", "shutdown", "done", "failed"}]
  /\ dropped \subseteq Clients
  /\ lost \subseteq Publishers

\* An operator makes the exchange, some queues, and their bindings.
Init ==
  /\ exchange \in Existing
  /\ queues \in SUBSET SendQueues
  /\ bindings = IF exchange = "none" THEN {}
                ELSE {<<Topic[c], QueueName[c]>> : c \in {d \in Clients : QueueName[d] \in queues}}
  /\ waiting = [q \in SendQueues |-> {}]
  /\ taken = [q \in SendQueues |-> {}]
  /\ jpc = [c \in Clients |-> "queue"]
  /\ dropped = {}
  /\ lost = {}

Goes(c, from, to) == jpc[c] = from /\ jpc' = [jpc EXCEPT ![c] = to]

\* A call that needs the broker to answer.
Calls(c, from, to) == c \notin dropped /\ Goes(c, from, to) /\ UNCHANGED dropped

-----------------------------------------------------------------------------
(* JMSAMQPQueue.Init, Publish and Shutdown. *)

\* Mutant of QueueDeclare: the queue is taken for one that exists.
QueueExpected(c) ==
  /\ Calls(c, "queue", "exchange")
  /\ UNCHANGED brokerVars

\* Durable, as it is made by an operator.
QueueDeclare(c) ==
  /\ Calls(c, "queue", "exchange")
  /\ queues' = queues \union {QueueName[c]}
  /\ UNCHANGED <<exchange, bindings, waiting, taken, lost>>

\* Mutant of ExchangeDeclare: the kind is the one the README names.
ExchangeDeclareFanout(c) ==
  /\ Calls(c, "exchange", IF exchange = "direct" THEN "failed" ELSE "bind")
  /\ exchange' = IF exchange = "none" THEN "fanout" ELSE exchange
  /\ UNCHANGED <<queues, bindings, waiting, taken, lost>>

\* The broker refuses to declare an exchange that is there with another kind.
ExchangeDeclare(c) ==
  /\ Calls(c, "exchange", IF exchange = "fanout" THEN "failed" ELSE "bind")
  /\ exchange' = IF exchange = "none" THEN "direct" ELSE exchange
  /\ UNCHANGED <<queues, bindings, waiting, taken, lost>>

\* The toolkit is through with Init; it publishes nothing.
AfterInit(c) == IF c \in Publishers THEN "publish" ELSE "shutdown"

\* Mutant of QueueBind: a queue that has a binding is not bound again.
QueueBindOnce(c) ==
  /\ Calls(c, "bind", AfterInit(c))
  /\ bindings' = IF \E t \in Topics : <<t, QueueName[c]>> \in bindings
                 THEN bindings ELSE bindings \union {<<Topic[c], QueueName[c]>>}
  /\ UNCHANGED <<exchange, queues, waiting, taken, lost>>

QueueBind(c) ==
  /\ Calls(c, "bind", AfterInit(c))
  /\ bindings' = bindings \union {<<Topic[c], QueueName[c]>>}
  /\ UNCHANGED <<exchange, queues, waiting, taken, lost>>

\* The queues the exchange gives a message with this topic to.
Routed(topic) ==
  {q \in queues : \E t \in Topics : <<t, q>> \in bindings /\ (exchange = "fanout" \/ t = topic)}

\* Neither mandatory nor confirmed: what is not routed is dropped silently.
Publish(c) ==
  /\ Calls(c, "publish", "shutdown")
  /\ waiting' = [q \in SendQueues |->
                   IF q \in Routed(Topic[c]) THEN waiting[q] \union {c} ELSE waiting[q]]
  /\ UNCHANGED <<exchange, queues, bindings, taken, lost>>

\* The connection is gone and the client has not noticed.
PublishLost(c) ==
  /\ c \in dropped
  /\ Goes(c, "publish", "shutdown")
  /\ lost' = lost \union {c}
  /\ UNCHANGED <<exchange, queues, bindings, waiting, taken, dropped>>

Shutdown(c) ==
  /\ Calls(c, "shutdown", "done")
  /\ UNCHANGED brokerVars

\* A call over a lost connection.
CallFails(c) ==
  /\ c \in dropped
  /\ jpc[c] \notin {"done", "failed"}
  /\ jpc' = [jpc EXCEPT ![c] = "failed"]
  /\ UNCHANGED <<brokerVars, dropped>>

-----------------------------------------------------------------------------
(* The broker and Jenkins. *)

TakeRequest(q) ==
  \E c \in waiting[q] :
    /\ waiting' = [waiting EXCEPT ![q] = @ \ {c}]
    /\ taken' = [taken EXCEPT ![q] = @ \union {c}]
    /\ UNCHANGED <<exchange, queues, bindings, jpc, dropped, lost>>

ConnectionLost(c) ==
  /\ dropped' = dropped \union {c}
  /\ UNCHANGED <<brokerVars, jpc>>

\* Exchange, queues and bindings are durable, the requests are transient.
BrokerRestarts ==
  /\ waiting' = [q \in SendQueues |-> {}]
  /\ lost' = lost \union UNION {waiting[q] : q \in SendQueues}
  /\ dropped' = dropped \union {c \in Clients : jpc[c] # "queue"}
  /\ UNCHANGED <<exchange, queues, bindings, taken, jpc>>

ClientStep(c) ==
  QueueDeclare(c) \/ ExchangeDeclare(c) \/ QueueBind(c) \/ Publish(c) \/ PublishLost(c)
    \/ Shutdown(c) \/ CallFails(c) \/ ConnectionLost(c)

Next ==
  \/ \E c \in Clients : ClientStep(c)
  \/ \E q \in SendQueues : TakeRequest(q)
  \/ BrokerRestarts

Spec == Init /\ [][Next]_vars

-----------------------------------------------------------------------------

\* A request that was published is in the queue Jenkins listens on, or was
\* taken from it, unless it went down with a connection or the broker: whoever
\* declares what, in whatever order, and dies in between.
RequestsArrive ==
  \A c \in Publishers :
    jpc[c] \in {"shutdown", "done"} => c \in waiting[QueueName[c]] \union taken[QueueName[c]] \union lost

\* A request is not given to the queue of another Jenkins, for which nobody
\* bound its topic.
NoStrayRequests ==
  \A q \in SendQueues : \A c \in waiting[q] \union taken[q] :
    \E d \in Clients : QueueName[d] = q /\ Topic[d] = Topic[c]

\* A process that prepares or uses the send queue fails only when its
\* connection does: declaring is idempotent ("[Idempotent] Creating send
\* queue") and takes over what "already exists".
FailsOnlyWithConnection == \A c \in Clients : jpc[c] = "failed" => c \in dropped

=============================================================================
