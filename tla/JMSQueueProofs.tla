--------------------------- MODULE JMSQueueProofs ---------------------------
(***************************************************************************)
(* What requestors and the toolkit make of the send queue, for any number  *)
(* of processes, queues and topics.                                        *)
(***************************************************************************)
EXTENDS JMSQueue, TLAPS

Bound(c) == <<Topic[c], QueueName[c]>> \in bindings

\* Who got through a call has its effect, which nobody takes away: queue,
\* exchange and binding outlive connections and the broker.  Bindings are those
\* the processes ask for.
DeclaredInv ==
  /\ \A c \in Clients :
       /\ jpc[c] = "publish" => c \in Publishers
       /\ jpc[c] \notin {"queue", "failed"} => QueueName[c] \in queues
       /\ jpc[c] \in {"bind", "publish", "shutdown", "done"} => exchange = "direct"
       /\ c \in Publishers /\ jpc[c] \in {"publish", "shutdown", "done"} => Bound(c)
  /\ \A t \in Topics, q \in SendQueues :
       <<t, q>> \in bindings => \E d \in Clients : QueueName[d] = q /\ Topic[d] = t

IInv == TypeOK /\ DeclaredInv /\ RequestsArrive /\ NoStrayRequests

LEMMA InitIInv ==
  ASSUME Init
  PROVE  IInv
<1> USE JMSQueueAssumption DEF Init
<1>1. TypeOK
  BY DEF TypeOK
<1>2. DeclaredInv
  BY DEF DeclaredInv, Bound
<1>3. RequestsArrive /\ NoStrayRequests
  BY DEF RequestsArrive, NoStrayRequests
<1>4. QED
  BY <1>1, <1>2, <1>3 DEF IInv

\* One step per call, and one per thing that happens to the broker.  The type
\* of the bindings needs that a client binds a queue it declared.
LEMMA NextDeclared ==
  ASSUME TypeOK, DeclaredInv, [Next]_vars
  PROVE  TypeOK' /\ DeclaredInv'
<1> USE JMSQueueAssumption DEF Calls, Goes, brokerVars
<1>1. ASSUME NEW c \in Clients, QueueDeclare(c) PROVE TypeOK' /\ DeclaredInv'
  <2>1. TypeOK'
    BY <1>1 DEF QueueDeclare, TypeOK
  <2>2. DeclaredInv'
    BY <1>1 DEF QueueDeclare, TypeOK, DeclaredInv, Bound
  <2>3. QED
    BY <2>1, <2>2
<1>2. ASSUME NEW c \in Clients, ExchangeDeclare(c) PROVE TypeOK' /\ DeclaredInv'
  <2>1. TypeOK'
    BY <1>2 DEF ExchangeDeclare, TypeOK, ExchangeKinds
  <2>2. DeclaredInv'
    BY <1>2 DEF ExchangeDeclare, TypeOK, ExchangeKinds, DeclaredInv, Bound
  <2>3. QED
    BY <2>1, <2>2
<1>3. ASSUME NEW c \in Clients, QueueBind(c) PROVE TypeOK' /\ DeclaredInv'
  <2>1. TypeOK'
    BY <1>3 DEF QueueBind, AfterInit, TypeOK, DeclaredInv
  <2>2. DeclaredInv'
    BY <1>3 DEF QueueBind, AfterInit, TypeOK, DeclaredInv, Bound
  <2>3. QED
    BY <2>1, <2>2
<1>4. ASSUME NEW c \in Clients, Publish(c) PROVE TypeOK' /\ DeclaredInv'
  <2>1. TypeOK'
    BY <1>4 DEF Publish, TypeOK, DeclaredInv
  <2>2. DeclaredInv'
    BY <1>4 DEF Publish, TypeOK, DeclaredInv, Bound
  <2>3. QED
    BY <2>1, <2>2
<1>5. ASSUME NEW c \in Clients, PublishLost(c) PROVE TypeOK' /\ DeclaredInv'
  <2>1. TypeOK'
    BY <1>5 DEF PublishLost, TypeOK, DeclaredInv
  <2>2. DeclaredInv'
    BY <1>5 DEF PublishLost, TypeOK, DeclaredInv, Bound
  <2>3. QED
    BY <2>1, <2>2
<1>6. ASSUME NEW c \in Clients, Shutdown(c) \/ CallFails(c) \/ ConnectionLost(c)
      PROVE  TypeOK' /\ DeclaredInv'
  <2>1. TypeOK'
    BY <1>6 DEF Shutdown, CallFails, ConnectionLost, TypeOK
  <2>2. DeclaredInv'
    BY <1>6 DEF Shutdown, CallFails, ConnectionLost, TypeOK, DeclaredInv, Bound
  <2>3. QED
    BY <2>1, <2>2
<1>7. ASSUME NEW q \in SendQueues, TakeRequest(q) PROVE TypeOK' /\ DeclaredInv'
  BY <1>7 DEF TakeRequest, TypeOK, DeclaredInv, Bound
<1>8. CASE BrokerRestarts
  BY <1>8 DEF BrokerRestarts, TypeOK, DeclaredInv, Bound
<1>9. CASE UNCHANGED vars
  BY <1>9 DEF vars, TypeOK, DeclaredInv, Bound
<1>10. QED
  BY <1>1, <1>2, <1>3, <1>4, <1>5, <1>6, <1>7, <1>8, <1>9 DEF Next, ClientStep

\* A request is routed when it is published: its sender is bound, and the
\* exchange is direct, so that others get it only for its topic.  From then on
\* it is moved, or counted as lost.
LEMMA NextRequests ==
  ASSUME IInv, [Next]_vars
  PROVE  RequestsArrive' /\ NoStrayRequests'
<1> USE JMSQueueAssumption DEF IInv, TypeOK
<1>1. ASSUME NEW c \in Clients, Publish(c) PROVE RequestsArrive' /\ NoStrayRequests'
  <2>1. c \in Publishers /\ c \notin dropped /\ exchange = "direct" /\ Bound(c)
    BY <1>1 DEF Publish, Calls, Goes, DeclaredInv
  <2>2. QueueName[c] \in Routed(Topic[c])
    BY <2>1 DEF Routed, Bound
  <2>3. \A q \in Routed(Topic[c]) : \E d \in Clients : QueueName[d] = q /\ Topic[d] = Topic[c]
    BY <2>1 DEF Routed, DeclaredInv
  <2>4. RequestsArrive'
    BY <1>1, <2>1, <2>2 DEF Publish, Calls, Goes, RequestsArrive
  <2>5. NoStrayRequests'
    BY <1>1, <2>3 DEF Publish, NoStrayRequests
  <2>6. QED
    BY <2>4, <2>5
<1>2. ASSUME NEW c \in Clients, PublishLost(c) PROVE RequestsArrive' /\ NoStrayRequests'
  BY <1>2 DEF PublishLost, Goes, RequestsArrive, NoStrayRequests
<1>3. ASSUME NEW c \in Clients,
             QueueDeclare(c) \/ ExchangeDeclare(c) \/ QueueBind(c) \/ Shutdown(c) \/ CallFails(c)
               \/ ConnectionLost(c)
      PROVE  RequestsArrive' /\ NoStrayRequests'
  <2>1. /\ waiting' = waiting /\ taken' = taken /\ lost' = lost
        /\ \A d \in Publishers :
             jpc'[d] \in {"shutdown", "done"} => d \notin Publishers \/ jpc[d] \in {"shutdown", "done"}
    BY <1>3 DEF QueueDeclare, ExchangeDeclare, QueueBind, AfterInit, Shutdown, CallFails,
                ConnectionLost, Calls, Goes, brokerVars
  <2>2. QED
    BY <2>1 DEF RequestsArrive, NoStrayRequests
<1>4. ASSUME NEW q \in SendQueues, TakeRequest(q) PROVE RequestsArrive' /\ NoStrayRequests'
  BY <1>4 DEF TakeRequest, RequestsArrive, NoStrayRequests
<1>5. CASE BrokerRestarts
  BY <1>5 DEF BrokerRestarts, RequestsArrive, NoStrayRequests
<1>6. CASE UNCHANGED vars
  BY <1>6 DEF vars, RequestsArrive, NoStrayRequests
<1>7. QED
  BY <1>1, <1>2, <1>3, <1>4, <1>5, <1>6 DEF Next, ClientStep

LEMMA Inductive == Spec => []IInv
<1>1. Init => IInv
  BY InitIInv
<1>2. IInv /\ [Next]_vars => IInv'
  BY NextDeclared, NextRequests DEF IInv
<1>3. QED
  BY <1>1, <1>2, PTL DEF Spec

\* Every variable of the send queue and the processes at it keeps its type, and
\* a binding is one of a queue there is.
THEOREM TypeCorrect == Spec => []TypeOK
<1>1. IInv => TypeOK
  BY DEF IInv
<1>2. QED
  BY <1>1, Inductive, PTL

\* A request that was published is in its queue or was taken from it, unless
\* it went down with a connection or the broker.
THEOREM PublishedArrive == Spec => []RequestsArrive
<1>1. IInv => RequestsArrive
  BY DEF IInv
<1>2. QED
  BY <1>1, Inductive, PTL

\* No queue gets a request whose topic nobody bound to it.
THEOREM NoneStray == Spec => []NoStrayRequests
<1>1. IInv => NoStrayRequests
  BY DEF IInv
<1>2. QED
  BY <1>1, Inductive, PTL

-----------------------------------------------------------------------------
(* When nobody made a fanout exchange, as the README has it, before. *)

CallsSucceed == exchange # "fanout" /\ FailsOnlyWithConnection

\* A process fails only when its connection does, unless the exchange was
\* there as a fanout exchange: the code itself never makes one.
THEOREM DeclaringSucceeds ==
  ASSUME "fanout" \notin Existing
  PROVE  Spec => []FailsOnlyWithConnection
<1>1. Init => CallsSucceed
  BY DEF Init, CallsSucceed, FailsOnlyWithConnection
<1>2. IInv /\ CallsSucceed /\ [Next]_vars => CallsSucceed'
  <2> SUFFICES ASSUME IInv, CallsSucceed, [Next]_vars PROVE CallsSucceed'
    OBVIOUS
  <2> USE DEF IInv, TypeOK, CallsSucceed, FailsOnlyWithConnection, Calls, Goes, brokerVars
  <2>1. ASSUME NEW c \in Clients, ClientStep(c) PROVE CallsSucceed'
    <3>1. CASE QueueDeclare(c) \/ ExchangeDeclare(c) \/ QueueBind(c)
      BY <3>1 DEF QueueDeclare, ExchangeDeclare, QueueBind, AfterInit
    <3>2. CASE Publish(c) \/ PublishLost(c) \/ Shutdown(c) \/ CallFails(c) \/ ConnectionLost(c)
      BY <3>2 DEF Publish, PublishLost, Shutdown, CallFails, ConnectionLost
    <3>3. QED
      BY <2>1, <3>1, <3>2 DEF ClientStep
  <2>2. ASSUME NEW q \in SendQueues, TakeRequest(q) PROVE CallsSucceed'
    BY <2>2 DEF TakeRequest
  <2>3. CASE BrokerRestarts
    BY <2>3 DEF BrokerRestarts
  <2>4. CASE UNCHANGED vars
    BY <2>4 DEF vars
  <2>5. QED
    BY <2>1, <2>2, <2>3, <2>4 DEF Next
<1>3. CallsSucceed => FailsOnlyWithConnection
  BY DEF CallsSucceed
<1>4. QED
  BY <1>1, <1>2, <1>3, Inductive, PTL DEF Spec

=============================================================================
