-------------------------- MODULE CIFirewallProofs --------------------------
(***************************************************************************)
(* Safety of CIFirewall for any number of requestors, projects, builds and *)
(* pipeline stages, any faults, and receive queues that are shared or not. *)
(***************************************************************************)
EXTENDS CIFirewall, SequenceTheorems, TLAPS

-----------------------------------------------------------------------------
(* The receive queue neither makes up nor alters messages: what is on its   *)
(* way to requestors stays within any set S that has what is published.     *)

LEMMA QueueInitHolds ==
  ASSUME NEW S, QueueInit
  PROVE  QueueHolds(S)
BY EmptySeq DEF QueueInit, QueueHolds

LEMMA DeclareHolds ==
  ASSUME NEW S, QueueHolds(S), QueueDeclare
  PROVE  ready' \in Seq(S) /\ inbox' \in [Requestors -> Seq(S)]
BY DEF QueueHolds, QueueDeclare

LEMMA PublishHolds ==
  ASSUME NEW S, NEW m \in S, QueueHolds(S), Publish(m)
  PROVE  ready' \in Seq(S) /\ inbox' \in [Requestors -> Seq(S)]
BY DEF QueueHolds, Publish

LEMMA ConsumeHolds ==
  ASSUME NEW S, NEW r \in Requestors, QueueHolds(S), Consume(r)
  PROVE  ready' \in Seq(S) /\ inbox' \in [Requestors -> Seq(S)]
BY DEF QueueHolds, Consume

LEMMA DeliverHolds ==
  ASSUME NEW S, NEW r \in Requestors, QueueHolds(S), Deliver(r)
  PROVE  ready' \in Seq(S) /\ inbox' \in [Requestors -> Seq(S)]
<1>1. Head(ready) \in S /\ Tail(ready) \in Seq(S)
  BY HeadTailProperties DEF QueueHolds, Deliver
<1>2. Append(inbox[r], Head(ready)) \in Seq(S)
  BY <1>1 DEF QueueHolds
<1>3. QED
  BY <1>1, <1>2 DEF QueueHolds, Deliver

LEMMA AckHolds ==
  ASSUME NEW S, NEW r \in Requestors, inbox[r] # <<>>, QueueHolds(S), Ack(r)
  PROVE  ready' \in Seq(S) /\ inbox' \in [Requestors -> Seq(S)]
<1>1. Tail(inbox[r]) \in Seq(S)
  BY HeadTailProperties DEF QueueHolds
<1>2. QED
  BY <1>1 DEF QueueHolds, Ack

LEMMA PurgeHolds ==
  ASSUME NEW S, QueueHolds(S), QueuePurge
  PROVE  ready' \in Seq(S) /\ inbox' \in [Requestors -> Seq(S)]
BY EmptySeq DEF QueueHolds, QueuePurge

LEMMA ChannelClosedHolds ==
  ASSUME NEW S, NEW r \in Requestors, NEW kept \in Seq(S),
         QueueHolds(S), ChannelClosed(r, kept)
  PROVE  ready' \in Seq(S) /\ inbox' \in [Requestors -> Seq(S)]
<1>1. inbox' \in [Requestors -> Seq(S)]
  BY DEF QueueHolds, ChannelClosed
<1>2. inbox[r] \o ready \in Seq(S) /\ <<>> \in Seq(S)
  BY ConcatProperties, EmptySeq DEF QueueHolds
<1>3. ready' \in Seq(S)
  BY <1>2 DEF QueueHolds, ChannelClosed
<1>4. QED
  BY <1>1, <1>3

\* Whatever a requestor, or the broker around it, does to the messages.
LEMMA RequestorMovesMessages ==
  ASSUME NEW S, NEW r \in Requestors, QueueHolds(S), RequestorStep(r)
  PROVE  ready' \in Seq(S) /\ inbox' \in [Requestors -> Seq(S)]
<1>1. CASE UNCHANGED queueVars
  BY <1>1 DEF queueVars, QueueHolds
<1>2. CASE InitQueus(r)
  BY <1>2, DeclareHolds DEF InitQueus
<1>3. CASE ConsumeMessages(r)
  BY <1>3, ConsumeHolds DEF ConsumeMessages
<1>4. CASE ShutDownPurge(r)
  BY <1>1, <1>4, PurgeHolds DEF ShutDownPurge
<1>5. CASE ShutDownClose(r) \/ BrokerReaps(r)
  BY <1>5, ChannelClosedHolds, EmptySeq DEF ShutDownClose, BrokerReaps
<1>6. CASE ConnectionLost(r)
  <2>1. inbox[r] \in Seq(S)
    BY DEF QueueHolds
  <2>2. QED
    BY <1>6, <2>1, ChannelClosedHolds DEF ConnectionLost
<1>7. CASE Deliver(r)
  BY <1>7, DeliverHolds
<1>8. CASE Ack(r) /\ Handling(r)
  BY <1>8, AckHolds DEF Handling
<1>9. QED
  BY <1>1, <1>2, <1>3, <1>4, <1>5, <1>6, <1>7, <1>8
     DEF RequestorStep, MainGoesOn, Handler, Around, SendBuildRequest, ConsumeFails,
         ReceiveDone, TimeOut, Crash, HandleBuild, HandleCancel, HandleLog,
         HandleStatus, HandleFinal, SkipMessage, DeliveriesClosed

\* What a worker of b may publish in this step.
Sayable(b) ==
  {NewCancelMessage(b), NewBuildMessage(b), NewLogsMessage(b)}
    \union {m \in {NewStatusMessage(b, result[b])} :
               passed' = [passed EXCEPT ![b] = @ /\ result[b]]}
    \union {m \in {NewFinalMessage(b)} : finished' = finished \union {b}}

\* Whatever the worker of b does to the messages.
LEMMA WorkerMovesMessages ==
  ASSUME NEW S, NEW b \in Builds, QueueHolds(S), Sayable(b) \subseteq S, WorkerNext(b)
  PROVE  ready' \in Seq(S) /\ inbox' \in [Requestors -> Seq(S)]
<1>1. CASE UNCHANGED queueVars
  BY <1>1 DEF queueVars, QueueHolds
<1>2. CASE InitQueues(b)
  BY <1>2, DeclareHolds DEF InitQueues
<1>3. CASE SendCancelMessage(b)
  BY <1>3, PublishHolds DEF SendCancelMessage, Sayable
<1>4. CASE SendBuildInfo(b)
  BY <1>4, PublishHolds DEF SendBuildInfo, Sayable
<1>5. CASE FlushToQueue(b)
  BY <1>5, PublishHolds DEF FlushToQueue, Sayable
<1>6. CASE SendStatusMessage(b)
  BY <1>6, PublishHolds DEF SendStatusMessage, Sayable
<1>7. CASE SendFinalizeMessage(b)
  BY <1>1, <1>7, PublishHolds DEF SendFinalizeMessage, Sayable
<1>8. QED
  BY <1>1, <1>2, <1>3, <1>4, <1>5, <1>6, <1>7
     DEF WorkerNext, WorkerStep, Run, RunStep, CheckForNewerBuilds, MoveForward,
         NotMovingForward, CleanupOldBuilds, RunReturns, RunDone, NextStage, EndBuild,
         PollFindsNewer, Stopped, TriggerBuild, Rebuild, WorkerStarts, WorkerFails, queueVars

-----------------------------------------------------------------------------
(* Type correctness. *)

LEMMA MessageTypes ==
  ASSUME NEW b \in Builds
  PROVE  /\ NewCancelMessage(b) \in Message
         /\ NewBuildMessage(b) \in Message
         /\ NewLogsMessage(b) \in Message
         /\ \A ok \in BOOLEAN : NewStatusMessage(b, ok) \in Message
         /\ NewFinalMessage(b) \in Message
BY DEF NewCancelMessage, NewBuildMessage, NewLogsMessage, NewStatusMessage,
       NewFinalMessage, newMessage, Message, Kinds, Builds

LEMMA InitTypeOK == Init => TypeOK
<1> SUFFICES ASSUME Init PROVE TypeOK
  OBVIOUS
<1>1. QueueTypeOK
  BY QueueInitHolds DEF Init, QueueInit, QueueTypeOK
<1>2. SendQueueTypeOK /\ RequestorTypeOK
  BY DEF Init, SendQueueInit, SendQueueTypeOK, RequestorInit, RequestorTypeOK
<1>3. JenkinsTypeOK /\ WorkerTypeOK
  BY MaxBuildAssumption, WorkerAssumption
     DEF Init, JenkinsInit, JenkinsTypeOK, WorkerInit, WorkerTypeOK
<1>4. SinceTypeOK
  BY DEF Init, SinceTypeOK
<1>5. QED
  BY <1>1, <1>2, <1>3, <1>4 DEF TypeOK

\* The queue's part of the type invariant, for a requestor's step.
LEMMA RequestorStepQueueTypeOK ==
  ASSUME QueueTypeOK, NEW r \in Requestors, RequestorStep(r)
  PROVE  QueueTypeOK'
<1>1. QueueHolds(Message)'
  BY RequestorMovesMessages DEF QueueTypeOK, QueueHolds, Message
<1>2. declared' \in BOOLEAN /\ consumers' \in SUBSET Requestors
  BY DEF QueueTypeOK, RequestorStep, MainGoesOn, Handler, Around, InitQueus,
         SendBuildRequest, ConsumeMessages, ConsumeFails, ReceiveDone, TimeOut,
         ShutDownPurge, ShutDownClose, Crash, BrokerReaps, ConnectionLost, Deliver,
         HandleBuild, HandleCancel, HandleLog, HandleStatus, HandleFinal, SkipMessage,
         DeliveriesClosed, QueueDeclare, Consume, Ack, QueuePurge, ChannelClosed, queueVars
<1>3. QED
  BY <1>1, <1>2 DEF QueueTypeOK

\* The part of the type invariant a requestor's step can disturb.
LEMMA RequestorStepTypeOK ==
  ASSUME TypeOK, NEW r \in Requestors, RequestorNext(r)
  PROVE  TypeOK'
<1> USE DEF TypeOK
<1>1. JenkinsTypeOK' /\ WorkerTypeOK'
  BY DEF RequestorNext, jenkinsVars, workerVars, JenkinsTypeOK, WorkerTypeOK
<1>2. QueueTypeOK' /\ SinceTypeOK'
  <2>1. lastBuild[JenkinsProject[r]] \in BuildNumbers \union {0}
    BY RequestorAssumption, MaxBuildAssumption DEF JenkinsTypeOK, BuildNumbers
  <2>2. SinceTypeOK'
    BY <2>1 DEF RequestorNext, SetsOut, SinceTypeOK
  <2>3. QED
    BY <2>2, RequestorStepQueueTypeOK DEF RequestorNext
<1>3. SUFFICES SendQueueTypeOK' /\ RequestorTypeOK'
  BY <1>1, <1>2
<1>4. Handling(r) => Head(inbox[r]) \in Message
  BY HeadTailProperties DEF Handling, QueueTypeOK, QueueHolds
<1> USE RequestorAssumption DEF SendQueueTypeOK, RequestorTypeOK
<1>5. CASE InitQueus(r)
  BY <1>5 DEF InitQueus, MainGoes
<1>6. CASE SendBuildRequest(r)
  BY <1>6 DEF SendBuildRequest, MainGoes, PublishRequest
<1>7. CASE ConsumeMessages(r) \/ ConsumeFails(r)
  BY <1>7 DEF ConsumeMessages, ConsumeFails, MainGoes
<1>8. CASE ReceiveDone(r) \/ TimeOut(r)
  BY <1>8 DEF ReceiveDone, TimeOut, MainGoes
<1>9. CASE ShutDownPurge(r) \/ ShutDownClose(r) \/ Crash(r)
  BY <1>9 DEF ShutDownPurge, ShutDownClose, Crash, MainGoes
<1>10. CASE UNCHANGED <<requests, requestorVars>>
  BY <1>10 DEF requestorVars
<1>11. CASE HandleBuild(r) \/ HandleCancel(r)
  <2>1. Head(inbox[r]).Build \in BuildNumbers
    BY <1>4, <1>11 DEF HandleBuild, HandleCancel, Message
  <2>2. CASE HandleBuild(r)
    BY <2>1, <2>2 DEF HandleBuild
  <2>3. CASE HandleCancel(r)
    BY <2>1, <2>3 DEF HandleCancel
  <2>4. QED
    BY <1>11, <2>2, <2>3
<1>12. CASE HandleStatus(r)
  <2>1. success' \in [Requestors -> BOOLEAN]
    BY <1>4, <1>12 DEF HandleStatus, Message
  <2>2. QED
    BY <1>12, <2>1 DEF HandleStatus
<1>13. CASE HandleLog(r) \/ HandleFinal(r) \/ DeliveriesClosed(r)
  BY <1>13 DEF HandleLog, HandleFinal, DeliveriesClosed
<1>14. QED
  BY <1>5, <1>6, <1>7, <1>8, <1>9, <1>10, <1>11, <1>12, <1>13
     DEF RequestorNext, RequestorStep, MainGoesOn, Handler, Around, BrokerReaps,
         ConnectionLost, SkipMessage

\* The queue's part of the type invariant, for a worker's step.
LEMMA WorkerStepQueueTypeOK ==
  ASSUME TypeOK, NEW b \in Builds, WorkerNext(b)
  PROVE  QueueTypeOK'
<1>1. Sayable(b) \subseteq Message
  BY MessageTypes DEF Sayable, TypeOK, WorkerTypeOK
<1>2. QueueHolds(Message)'
  BY <1>1, WorkerMovesMessages DEF TypeOK, QueueTypeOK, QueueHolds, Message
<1>3. declared' \in BOOLEAN /\ consumers' \in SUBSET Requestors
  BY DEF TypeOK, QueueTypeOK, WorkerNext, WorkerStep, Run, RunStep, CheckForNewerBuilds,
         MoveForward, NotMovingForward, CleanupOldBuilds, InitQueues, SendCancelMessage,
         SendBuildInfo, FlushToQueue, RunReturns, RunDone, SendStatusMessage,
         SendFinalizeMessage, NextStage, EndBuild, PollFindsNewer, Stopped, TriggerBuild,
         Rebuild, WorkerStarts, WorkerFails, QueueDeclare, Publish, queueVars
<1>4. QED
  BY <1>2, <1>3 DEF QueueTypeOK

\* The part of the type invariant a worker's step can disturb.
LEMMA WorkerStepTypeOK ==
  ASSUME TypeOK, NEW b \in Builds, WorkerNext(b)
  PROVE  TypeOK'
<1> USE DEF TypeOK
<1>1. RequestorTypeOK' /\ QueueTypeOK' /\ SinceTypeOK'
  BY WorkerStepQueueTypeOK DEF WorkerNext, requestorVars, RequestorTypeOK, SinceTypeOK
<1>2. SUFFICES SendQueueTypeOK' /\ JenkinsTypeOK' /\ WorkerTypeOK'
  BY <1>1
<1> USE WorkerAssumption, MaxBuildAssumption
    DEF SendQueueTypeOK, JenkinsTypeOK, WorkerTypeOK
<1>3. CASE CheckForNewerBuilds(b) \/ MoveForward(b) \/ NotMovingForward(b)
  BY <1>3 DEF CheckForNewerBuilds, MoveForward, NotMovingForward, WorkerGoes, WorkerExits,
              jenkinsVars
<1>4. CASE CleanupOldBuilds(b)
  <2>1. OldBuilds(b) \in SUBSET Builds
    BY DEF OldBuilds
  <2>2. QED
    BY <1>4, <2>1 DEF CleanupOldBuilds
<1>5. CASE InitQueues(b) \/ SendCancelMessage(b) \/ SendBuildInfo(b)
  BY <1>5 DEF InitQueues, SendCancelMessage, SendBuildInfo, WorkerGoes, jenkinsVars
<1>6. CASE FlushToQueue(b)
  BY <1>6 DEF FlushToQueue, jenkinsVars
<1>7. CASE RunReturns(b)
  BY <1>7 DEF RunReturns, RunDone, WorkerGoes, jenkinsVars
<1>8. CASE SendStatusMessage(b)
  <2>1. (passed[b] /\ result[b]) \in BOOLEAN
    OBVIOUS
  <2>2. passed' \in [Builds -> BOOLEAN]
    BY <1>8, <2>1 DEF SendStatusMessage
  <2>3. QED
    BY <1>8, <2>2 DEF SendStatusMessage, WorkerGoes, jenkinsVars
<1>9. CASE SendFinalizeMessage(b)
  BY <1>9 DEF SendFinalizeMessage, WorkerGoes, jenkinsVars
<1>10. CASE NextStage(b)
  BY <1>10 DEF NextStage, WorkerGoes, jenkinsVars
<1>11. CASE EndBuild(b) \/ PollFindsNewer(b) \/ Stopped(b)
  BY <1>11 DEF EndBuild, PollFindsNewer, Stopped, WorkerExits
<1>12. ASSUME WorkerStarts(b)
       PROVE  JenkinsTypeOK' /\ WorkerTypeOK'
  <2>1. b[1] \in Projects /\ b[2] \in 1 .. MaxBuild
    BY DEF Builds, BuildNumbers
  <2>2. QED
    BY <1>12, <2>1 DEF WorkerStarts, StartBuild
<1>13. CASE TriggerBuild(b)
  <2>1. requests[b[1]] \in Nat
    BY DEF Builds
  <2>2. requests[b[1]] - 1 \in Nat
    BY <1>13, <2>1 DEF TriggerBuild, TakeRequest
  <2>3. SendQueueTypeOK'
    BY <1>13, <2>2 DEF TriggerBuild, TakeRequest
  <2>4. QED
    BY <1>12, <1>13, <2>3 DEF TriggerBuild
<1>14. CASE Rebuild(b)
  BY <1>12, <1>14 DEF Rebuild
<1>15. ASSUME NEW stopped \in SUBSET running, WorkerFails(b, stopped)
       PROVE  SendQueueTypeOK' /\ JenkinsTypeOK' /\ WorkerTypeOK'
  BY <1>15 DEF WorkerFails
<1>16. QED
  BY <1>3, <1>4, <1>5, <1>6, <1>7, <1>8, <1>9, <1>10, <1>11, <1>13, <1>14, <1>15
     DEF WorkerNext, WorkerStep, Run, RunStep

LEMMA StutterTypeOK ==
  ASSUME TypeOK, UNCHANGED vars
  PROVE  TypeOK'
BY DEF TypeOK, vars, queueVars, requestorVars, jenkinsVars, workerVars, QueueTypeOK,
       QueueHolds, SendQueueTypeOK, RequestorTypeOK, JenkinsTypeOK, WorkerTypeOK, SinceTypeOK

\* Every variable keeps its type: in particular builds keep the numbers that
\* Jenkins gave them and the queue holds nothing but worker messages.
THEOREM TypeCorrect == Spec => []TypeOK
<1>1. TypeOK /\ [Next]_vars => TypeOK'
  BY RequestorStepTypeOK, WorkerStepTypeOK, StutterTypeOK DEF Next
<1>2. QED
  BY <1>1, InitTypeOK, PTL DEF Spec

-----------------------------------------------------------------------------
(* Verdicts.  VerdictInv is inductive given TypeOK: a requestor's step      *)
(* leaves the builds' history alone and only moves truthful messages; a     *)
(* worker's step makes more messages truthful and tells the truth itself.   *)

LEMMA InitVerdictInv == Init => VerdictInv
<1> SUFFICES ASSUME Init PROVE VerdictInv
  OBVIOUS
<1>1. QueueHolds(Truthful)
  BY EmptySeq DEF Init, QueueInit, QueueHolds
<1>2. BeliefsJustified
  BY DEF Init, RequestorInit, BeliefsJustified, HasVerdict
<1>3. QED
  BY <1>1, <1>2 DEF VerdictInv

\* The handler only believes what truthful messages tell it.
LEMMA HandlerBelieves ==
  ASSUME TypeOK, VerdictInv, NEW r \in Requestors, Handler(r),
         UNCHANGED <<passed, finished>>
  PROVE  BeliefsJustified'
<1> DEFINE m == Head(inbox[r])
<1>1. Handling(r) => m \in Truthful
  BY HeadTailProperties DEF Handling, VerdictInv, QueueHolds
<1>2. ~Handling(r) => DeliveriesClosed(r)
  BY DEF Handler, HandleBuild, HandleCancel, HandleLog, HandleStatus, HandleFinal, SkipMessage
<1>3. hpc[r] = "loop" /\ ~HasVerdict(r)
  BY <1>2 DEF Handling, DeliveriesClosed, VerdictInv, BeliefsJustified
<1> USE DEF TypeOK, RequestorTypeOK, VerdictInv, BeliefsJustified, HasVerdict,
            SomeBuildFailed, Followed
<1>4. CASE HandleBuild(r)
  BY <1>3, <1>4 DEF HandleBuild
<1>5. CASE HandleCancel(r)
  BY <1>3, <1>5 DEF HandleCancel
<1>6. CASE HandleLog(r)
  BY <1>3, <1>6 DEF HandleLog
<1>7. CASE HandleStatus(r)
  <2>1. m \in Message /\ m.JenkinsProject = JenkinsProject[r]
    BY <1>1, <1>7 DEF HandleStatus, Truthful, Current, Mine
  <2>2. m.Build \in BuildNumbers /\ m.Success \in BOOLEAN
    BY <2>1 DEF Message
  <2>3. ~m.Success => SomeBuildFailed(r)
    BY <1>1, <1>7, <2>1, <2>2 DEF HandleStatus, Is, Truthful, About
  <2>4. ~success'[r] => SomeBuildFailed(r)
    BY <1>7, <2>2, <2>3 DEF HandleStatus
  <2>5. QED
    BY <1>3, <1>7, <2>4 DEF HandleStatus
<1>8. CASE HandleFinal(r)
  <2>1. Followed(r) = About(m)
    BY <1>8 DEF HandleFinal, Current, Mine, About
  <2>2. Followed(r) \in finished
    BY <1>1, <1>8, <2>1 DEF HandleFinal, Is, Truthful
  <2>3. QED
    BY <1>3, <1>8, <2>2 DEF HandleFinal
<1>9. CASE SkipMessage(r)
  BY <1>9 DEF SkipMessage, requestorVars
<1>10. CASE DeliveriesClosed(r)
  BY <1>3, <1>10 DEF DeliveriesClosed
<1>11. QED
  BY <1>4, <1>5, <1>6, <1>7, <1>8, <1>9, <1>10 DEF Handler

LEMMA RequestorStepVerdictInv ==
  ASSUME TypeOK, VerdictInv, NEW r \in Requestors, RequestorNext(r)
  PROVE  VerdictInv'
<1>1. UNCHANGED <<passed, finished>>
  BY DEF RequestorNext, workerVars
<1>2. Truthful' = Truthful
  BY <1>1 DEF Truthful
<1>3. QueueHolds(Truthful)'
  BY <1>2, RequestorMovesMessages DEF RequestorNext, VerdictInv, QueueHolds
<1>4. BeliefsJustified'
  <2> USE <1>1 DEF TypeOK, RequestorTypeOK, VerdictInv, BeliefsJustified, HasVerdict,
                   SomeBuildFailed, Followed
  <2>1. CASE Handler(r)
    BY <2>1, HandlerBelieves
  <2>2. CASE InitQueus(r) \/ SendBuildRequest(r) \/ ConsumeFails(r)
    BY <2>2 DEF InitQueus, SendBuildRequest, ConsumeFails, MainGoes
  <2>3. CASE ConsumeMessages(r)
    BY <2>3 DEF ConsumeMessages, MainGoes
  <2>4. CASE ReceiveDone(r)
    BY <2>4 DEF ReceiveDone, MainGoes
  <2>5. CASE TimeOut(r)
    BY <2>5 DEF TimeOut, MainGoes
  <2>6. CASE ShutDownPurge(r) \/ ShutDownClose(r)
    BY <2>6 DEF ShutDownPurge, ShutDownClose, MainGoes
  <2>7. CASE Crash(r)
    BY <2>7 DEF Crash
  <2>8. CASE UNCHANGED requestorVars
    BY <2>8 DEF requestorVars
  <2>9. QED
    BY <2>1, <2>2, <2>3, <2>4, <2>5, <2>6, <2>7, <2>8
       DEF RequestorNext, RequestorStep, MainGoesOn, Around, BrokerReaps, ConnectionLost
<1>5. QED
  BY <1>3, <1>4 DEF VerdictInv

\* A build that finished stays finished, and one that failed stays failed.
LEMMA HistoryGrows ==
  ASSUME TypeOK, NEW b \in Builds, WorkerNext(b)
  PROVE  /\ finished \subseteq finished'
         /\ \A o \in Builds : ~passed[o] => ~passed'[o]
<1>1. CASE UNCHANGED <<passed, finished>>
  BY <1>1
<1>2. CASE SendStatusMessage(b)
  BY <1>2 DEF SendStatusMessage, TypeOK, WorkerTypeOK
<1>3. CASE SendFinalizeMessage(b)
  BY <1>3 DEF SendFinalizeMessage
<1>4. QED
  BY <1>1, <1>2, <1>3
     DEF WorkerNext, WorkerStep, Run, RunStep, CheckForNewerBuilds, MoveForward,
         NotMovingForward, CleanupOldBuilds, InitQueues, SendCancelMessage, SendBuildInfo,
         FlushToQueue, RunReturns, RunDone, NextStage, EndBuild, PollFindsNewer, Stopped,
         TriggerBuild, Rebuild, WorkerStarts, WorkerFails

LEMMA WorkerStepVerdictInv ==
  ASSUME TypeOK, VerdictInv, NEW b \in Builds, WorkerNext(b)
  PROVE  VerdictInv'
<1>1. \A m \in Message : About(m) \in Builds
  BY DEF Message, About, Builds
<1>2. Truthful \subseteq Truthful'
  BY <1>1, HistoryGrows DEF Truthful, About
<1>3. QueueHolds(Truthful')
  BY <1>2, SeqMonotonic DEF VerdictInv, QueueHolds
<1>4. Sayable(b) \subseteq Truthful'
  <2>1. {NewCancelMessage(b), NewBuildMessage(b), NewLogsMessage(b)} \subseteq Truthful'
    BY MessageTypes DEF Truthful, NewCancelMessage, NewBuildMessage, NewLogsMessage, newMessage
  <2>2. ASSUME passed' = [passed EXCEPT ![b] = @ /\ result[b]]
        PROVE  NewStatusMessage(b, result[b]) \in Truthful'
    <3> DEFINE m == NewStatusMessage(b, result[b])
    <3>1. m \in Message /\ About(m) = b /\ m.Kind = "Status" /\ m.Success = result[b]
      BY MessageTypes
         DEF About, NewStatusMessage, newMessage, Builds, TypeOK, WorkerTypeOK
    <3>2. ~result[b] => ~passed'[b]
      BY <2>2 DEF TypeOK, WorkerTypeOK
    <3>3. QED
      BY <3>1, <3>2 DEF Truthful, About
  <2>3. finished' = finished \union {b} => NewFinalMessage(b) \in Truthful'
    <3>1. About(NewFinalMessage(b)) = b
      BY DEF About, NewFinalMessage, newMessage, Builds
    <3>2. NewFinalMessage(b).Kind = "Final"
      BY DEF NewFinalMessage, newMessage
    <3>3. QED
      BY <3>1, <3>2, MessageTypes DEF Truthful, About
  <2>4. QED
    BY <2>1, <2>2, <2>3 DEF Sayable
<1>5. QueueHolds(Truthful)'
  BY <1>3, <1>4, WorkerMovesMessages DEF QueueHolds
<1>6. BeliefsJustified'
  <2>1. UNCHANGED requestorVars
    BY DEF WorkerNext
  <2>2. \A r \in Requestors : SomeBuildFailed(r) => SomeBuildFailed(r)'
    BY HistoryGrows, RequestorAssumption DEF SomeBuildFailed, Builds
  <2>3. QED
    BY <2>1, <2>2, HistoryGrows
       DEF VerdictInv, BeliefsJustified, HasVerdict, Followed, requestorVars
<1>7. QED
  BY <1>5, <1>6 DEF VerdictInv

LEMMA StutterVerdictInv ==
  ASSUME VerdictInv, UNCHANGED vars
  PROVE  VerdictInv'
BY DEF VerdictInv, QueueHolds, Truthful, BeliefsJustified, HasVerdict, Followed,
       SomeBuildFailed, vars, queueVars, requestorVars, workerVars

\* What is on its way to a requestor is true of the builds, and what it
\* believes is what true messages told it.
THEOREM VerdictInvariance == Spec => []VerdictInv
<1>1. TypeOK /\ VerdictInv /\ [Next]_vars => VerdictInv'
  BY RequestorStepVerdictInv, WorkerStepVerdictInv, StutterVerdictInv DEF Next
<1>2. QED
  BY <1>1, InitVerdictInv, TypeCorrect, PTL DEF Spec

\* However the messages of a receive queue are dealt out between requestors
\* that share it, redelivered when one of them leaves, or lost, a requestor
\* reports a verdict only of a build of its project that ran to its end.
THEOREM VerdictsAreOfFinishedBuilds == Spec => []VerdictFromFinishedBuild
<1>1. VerdictInv => VerdictFromFinishedBuild
  BY DEF VerdictInv, BeliefsJustified, VerdictFromFinishedBuild
<1>2. QED
  BY <1>1, VerdictInvariance, PTL

\* Under the same conditions a requestor reports a failure only when some
\* stage of some build of its project failed.
THEOREM FailuresHaveCauses == Spec => []FailureHasCause
<1>1. VerdictInv => FailureHasCause
  BY DEF VerdictInv, BeliefsJustified, FailureHasCause
<1>2. QED
  BY <1>1, VerdictInvariance, PTL

-----------------------------------------------------------------------------
(* Builds that replace each other.  NumberingInv is inductive because       *)
(* lastBuild only grows, and a worker compares other builds with its own    *)
(* number, which Jenkins has already given out.                             *)

LEMMA BuildParts ==
  ASSUME NEW b \in Builds
  PROVE  /\ b[1] \in Projects
         /\ b[2] \in 1 .. MaxBuild
         /\ b = <<b[1], b[2]>>
BY DEF Builds, BuildNumbers

LEMMA NewBuildNumbering ==
  ASSUME TypeOK, NumberingInv, NEW b \in Builds, WorkerStarts(b)
  PROVE  NumberingInv'
<1> SUFFICES ASSUME NEW o \in Builds
             PROVE  /\ o \in running' \/ wpc'[o] # "none" => Started(o)'
                    /\ o \in stopping' \/ wpc'[o] = "replaced" => o[2] < lastBuild'[o[1]]
  BY DEF NumberingInv
<1>1. lastBuild[o[1]] \in Nat /\ lastBuild'[o[1]] \in Nat
      /\ lastBuild[o[1]] <= lastBuild'[o[1]] /\ lastBuild'[b[1]] = b[2]
  BY BuildParts, MaxBuildAssumption DEF WorkerStarts, StartBuild, TypeOK, JenkinsTypeOK
<1>2. CASE o = b
  <2>1. o[2] \notin {n \in Nat : n < lastBuild[o[1]]}
    BY <1>1, <1>2, BuildParts, MaxBuildAssumption
       DEF WorkerStarts, StartBuild, TypeOK, JenkinsTypeOK
  <2>2. o \notin stopping'
    BY <1>1, <2>1, BuildParts, MaxBuildAssumption DEF NumberingInv, WorkerStarts, StartBuild
  <2>3. wpc'[o] = "check"
    BY <1>2 DEF WorkerStarts, TypeOK, WorkerTypeOK
  <2>4. QED
    BY <1>1, <1>2, <2>2, <2>3, BuildParts, MaxBuildAssumption DEF Started
<1>3. CASE o # b
  BY <1>1, <1>3, BuildParts, MaxBuildAssumption
     DEF NumberingInv, WorkerStarts, StartBuild, Started, TypeOK, WorkerTypeOK
<1>4. QED
  BY <1>2, <1>3

LEMMA WorkerStepNumbering ==
  ASSUME TypeOK, NumberingInv, NEW b \in Builds, WorkerNext(b)
  PROVE  NumberingInv'
<1> USE DEF TypeOK, WorkerTypeOK, NumberingInv, Started
<1>1. CASE CheckForNewerBuilds(b)
  <2>1. NewerBuildsExist(b) => b[2] < lastBuild[b[1]]
    BY BuildParts, MaxBuildAssumption DEF NewerBuildsExist, BuildNumbers, JenkinsTypeOK
  <2>2. QED
    BY <1>1, <2>1 DEF CheckForNewerBuilds, jenkinsVars
<1>2. CASE CleanupOldBuilds(b) \/ \E stopped \in SUBSET running : WorkerFails(b, stopped)
  <2>1. \A o \in OldBuilds(b) : wpc[b] = "cleanup" => o[2] < lastBuild[o[1]]
    BY BuildParts, MaxBuildAssumption DEF OldBuilds, JenkinsTypeOK
  <2>2. CASE CleanupOldBuilds(b)
    BY <2>1, <2>2 DEF CleanupOldBuilds
  <2>3. ASSUME NEW stopped \in SUBSET running, WorkerFails(b, stopped)
        PROVE  NumberingInv'
    BY <2>1, <2>3 DEF WorkerFails
  <2>4. QED
    BY <1>2, <2>2, <2>3
<1>3. CASE WorkerStarts(b)
  BY <1>3, NewBuildNumbering
<1>4. CASE UNCHANGED jenkinsVars /\ wpc[b] # "none"
           /\ \E to \in {"cleanup", "connect", "cancel", "build", "run", "status", "final",
                         "shutdown", "check"} : wpc' = [wpc EXCEPT ![b] = to]
  BY <1>4 DEF jenkinsVars
<1>5. CASE WorkerExits(b) /\ wpc[b] # "none"
  BY <1>5 DEF WorkerExits
<1>6. CASE Stopped(b)
  BY <1>6 DEF Stopped, WorkerExits
<1>7. CASE FlushToQueue(b)
  BY <1>7 DEF FlushToQueue, jenkinsVars
<1>8. QED
  <2>1. CASE MoveForward(b) \/ InitQueues(b) \/ SendCancelMessage(b) \/ SendBuildInfo(b)
             \/ RunReturns(b) \/ SendStatusMessage(b) \/ SendFinalizeMessage(b) \/ NextStage(b)
    BY <1>4, <2>1
       DEF MoveForward, InitQueues, SendCancelMessage, SendBuildInfo, RunReturns, RunDone,
           SendStatusMessage, SendFinalizeMessage, NextStage, WorkerGoes
  <2>2. CASE NotMovingForward(b) \/ EndBuild(b) \/ PollFindsNewer(b)
    BY <1>5, <2>2 DEF NotMovingForward, EndBuild, PollFindsNewer
  <2>3. QED
    BY <1>1, <1>2, <1>3, <1>6, <1>7, <2>1, <2>2
       DEF WorkerNext, WorkerStep, Run, RunStep, TriggerBuild, Rebuild

LEMMA NumberingInvariance == Spec => []NumberingInv
<1>1. Init => NumberingInv
  BY DEF Init, JenkinsInit, WorkerInit, NumberingInv
<1>2. TypeOK /\ NumberingInv /\ [Next]_vars => NumberingInv'
  <2> SUFFICES ASSUME TypeOK, NumberingInv, [Next]_vars PROVE NumberingInv'
    OBVIOUS
  <2>1. CASE \E b \in Builds : WorkerNext(b)
    BY <2>1, WorkerStepNumbering
  <2>2. CASE UNCHANGED <<jenkinsVars, workerVars>>
    BY <2>2 DEF NumberingInv, Started, jenkinsVars, workerVars
  <2>3. QED
    BY <2>1, <2>2 DEF Next, RequestorNext, vars
<1>3. QED
  BY <1>1, <1>2, TypeCorrect, PTL DEF Spec

\* The newest build of a project is never asked to stop, and never stops
\* itself for a newer one, whichever builds list and clean up at once.
THEOREM NewestBuildIsSafe == Spec => []NewestIsLeftAlone
<1>1. NumberingInv => NewestIsLeftAlone
  BY DEF NumberingInv, NewestIsLeftAlone
<1>2. QED
  BY <1>1, NumberingInvariance, PTL

=============================================================================
