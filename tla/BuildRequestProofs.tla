------------------------- MODULE BuildRequestProofs -------------------------
(***************************************************************************)
(* CIFirewall implements BuildRequest when each requestor has the receive  *)
(* queue to itself and a build has one stage.                              *)
(***************************************************************************)
EXTENDS DeliveryProofs

\* Main answers at the end of its select, and only once.
UnansweredInv ==
  \A r \in Requestors :
    rpc[r] \in {"init", "send", "consume", "select"} => outcome[r] = "none"

LEMMA RequestorStepUnanswered ==
  ASSUME TypeOK, UnansweredInv, NEW r \in Requestors, RequestorNext(r)
  PROVE  UnansweredInv'
<1> USE DEF TypeOK, RequestorTypeOK, UnansweredInv, MainGoes
<1>1. CASE InitQueus(r) \/ SendBuildRequest(r) \/ ConsumeMessages(r) \/ ConsumeFails(r)
  BY <1>1 DEF InitQueus, SendBuildRequest, ConsumeMessages, ConsumeFails
<1>2. CASE ReceiveDone(r) \/ TimeOut(r)
  BY <1>2 DEF ReceiveDone, TimeOut
<1>3. CASE ShutDownPurge(r) \/ ShutDownClose(r) \/ Crash(r)
  BY <1>3 DEF ShutDownPurge, ShutDownClose, Crash
<1>4. CASE UNCHANGED <<rpc, outcome>>
  BY <1>4
<1>5. QED
  BY <1>1, <1>2, <1>3, <1>4
     DEF RequestorNext, RequestorStep, MainGoesOn, Around, BrokerReaps, ConnectionLost, Handler,
         HandleBuild, HandleCancel, HandleLog, HandleStatus, HandleFinal, SkipMessage,
         DeliveriesClosed, requestorVars

LEMMA UnansweredInvariance == Spec => []UnansweredInv
<1>1. Init => UnansweredInv
  BY DEF Init, RequestorInit, UnansweredInv
<1>2. TypeOK /\ UnansweredInv /\ [Next]_vars => UnansweredInv'
  <2>1. UnansweredInv /\ UNCHANGED requestorVars => UnansweredInv'
    BY DEF UnansweredInv, requestorVars
  <2>2. QED
    BY <2>1, RequestorStepUnanswered DEF Next, WorkerNext, vars
<1>3. QED
  BY <1>1, <1>2, TypeCorrect, PTL DEF Spec

-----------------------------------------------------------------------------
(* Each step of the system is one of BuildRequest, or a stutter. *)

\* What is known of the tests of b.
Known(b) == IF ~passed[b] THEN "failed" ELSE IF b \in finished THEN "passed" ELSE "pending"

KnownTests == [b \in Builds |-> Known(b)]

\* The messages of a worker are steps of its tests, if they are news at all.
LEMMA WorkerStepImplements ==
  ASSUME TypeOK, \A d \in finished : wpc[d] \in PublishedAt.Final,
         NEW b \in Builds, WorkerNext(b)
  PROVE  [Abstract!Next]_<<KnownTests, outcome>>
<1>1. UNCHANGED outcome
  BY DEF WorkerNext, requestorVars
<1>2. CASE UNCHANGED <<passed, finished>>
  BY <1>1, <1>2 DEF KnownTests, Known
<1>3. ASSUME NEW m \in Message, Publishes(b, m)
      PROVE  [Abstract!Next]_<<KnownTests, outcome>>
  <2>1. \A c \in Builds : c # b => Known(c)' = Known(c)
    <3> SUFFICES ASSUME NEW c \in Builds, c # b PROVE Known(c)' = Known(c)
      OBVIOUS
    <3>1. ~IsFailure(m, c)
      BY <1>3 DEF Publishes, IsFailure
    <3>2. passed'[c] = passed[c]
      BY <1>3, <3>1 DEF Publishes, TypeOK, WorkerTypeOK
    <3>3. c \in finished' <=> c \in finished
      BY <1>3 DEF Publishes
    <3>4. QED
      BY <3>2, <3>3 DEF Known
  <2>2. b \notin finished
    BY <1>3, MessageParts DEF Publishes, PublishingAt, PublishedAt, Kinds
  <2>3. Known(b)' = Known(b) \/ Known(b) = "pending"
    BY <1>3, <2>2 DEF Publishes, Known
  <2>4. KnownTests' = [KnownTests EXCEPT ![b] = Known(b)']
    BY <2>1 DEF KnownTests
  <2>5. CASE Known(b)' = Known(b)
    BY <1>1, <2>1, <2>5 DEF KnownTests
  <2>6. CASE Known(b)' # Known(b)
    <3>1. KnownTests[b] = "pending" /\ Known(b)' \in {"passed", "failed"}
      BY <2>3, <2>6 DEF KnownTests, Known
    <3>2. PICK how \in {"passed", "failed"} : how = Known(b)'
      BY <3>1
    <3>3. Abstract!TestsEnd(b, how)
      BY <1>1, <2>4, <3>1, <3>2 DEF Abstract!TestsEnd, KnownTests, Known
    <3>4. QED
      BY <3>3 DEF Abstract!Next
  <2>7. QED
    BY <2>5, <2>6
<1>4. QED
  BY <1>2, <1>3, WorkerPublishes

\* A requestor answers with what main takes from the handler, or gives up.
LEMMA RequestorStepImplements ==
  ASSUME TypeOK, VerdictInv, VerdictComplete, UnansweredInv, NEW r \in Requestors,
         RequestorNext(r)
  PROVE  [Abstract!Next]_<<KnownTests, outcome>>
<1>1. UNCHANGED KnownTests
  BY DEF RequestorNext, workerVars, KnownTests, Known
<1>2. CASE UNCHANGED outcome
  BY <1>1, <1>2
<1>3. CASE TimeOut(r)
  <2>1. Abstract!GiveUp(r)
    BY <1>1, <1>3 DEF TimeOut, MainGoes, UnansweredInv, Abstract!GiveUp, KnownTests, Known
  <2>2. QED
    BY <2>1 DEF Abstract!Next
<1>4. CASE ReceiveDone(r)
  <2>1. outcome[r] = "none" /\ rpc[r] = "select" /\ hpc[r] = "sending"
        /\ outcome' = [outcome EXCEPT ![r] = IF success[r] THEN "passed" ELSE "failed"]
    BY <1>4 DEF ReceiveDone, MainGoes, UnansweredInv
  <2>2. Followed(r) \in finished /\ Followed(r) \in Builds /\ Followed(r)[1] = JenkinsProject[r]
    BY <2>1 DEF VerdictInv, BeliefsJustified, TypeOK, WorkerTypeOK, Followed
  <2>3. CASE success[r]
    <3>1. Known(Followed(r)) = "passed"
      BY <2>1, <2>2, <2>3 DEF VerdictComplete, VerdictAgrees, Known
    <3>2. Abstract!Answer(r, "passed")
      BY <1>1, <2>1, <2>2, <2>3, <3>1 DEF Abstract!Answer, KnownTests, Known
    <3>3. QED
      BY <3>2 DEF Abstract!Next
  <2>4. CASE ~success[r]
    <3>1. PICK n \in BuildNumbers : ~passed[<<JenkinsProject[r], n>>]
      BY <2>4 DEF VerdictInv, BeliefsJustified, SomeBuildFailed
    <3>2. <<JenkinsProject[r], n>> \in Builds /\ Known(<<JenkinsProject[r], n>>) = "failed"
      BY <3>1, RequestorAssumption DEF Builds, Known
    <3>3. Abstract!Answer(r, "failed")
      BY <1>1, <2>1, <2>4, <3>2 DEF Abstract!Answer, KnownTests, Known
    <3>4. QED
      BY <3>3 DEF Abstract!Next
  <2>5. QED
    BY <2>3, <2>4
<1>5. QED
  BY <1>2, <1>3, <1>4
     DEF RequestorNext, RequestorStep, MainGoesOn, Around, InitQueus, SendBuildRequest,
         ConsumeMessages, ConsumeFails, ShutDownPurge, ShutDownClose, Crash, BrokerReaps,
         ConnectionLost, Handler, HandleBuild, HandleCancel, HandleLog, HandleStatus, HandleFinal,
         SkipMessage, DeliveriesClosed, requestorVars

LEMMA InitImplements == Init => Abstract!Init
BY DEF Init, RequestorInit, WorkerInit, Abstract!Init

LEMMA StepImplements ==
  ASSUME TypeOK, VerdictInv, VerdictComplete, UnansweredInv,
         \A d \in finished : wpc[d] \in PublishedAt.Final, [Next]_vars
  PROVE  [Abstract!Next]_<<KnownTests, outcome>>
<1>1. UNCHANGED vars => UNCHANGED <<KnownTests, outcome>>
  BY DEF vars, requestorVars, workerVars, KnownTests, Known
<1>2. QED
  BY <1>1, WorkerStepImplements, RequestorStepImplements DEF Next

\* The system keeps its promise to those who ask for builds: a request is
\* answered at most once, with the result of tests that ended, however its
\* builds are replaced and its messages lost.
THEOREM SystemImplements == ~SharedQueue /\ Stages = 1 => (Spec => ImplementsBuildRequest)
<1> SUFFICES ASSUME ~SharedQueue, Stages = 1 PROVE Spec => ImplementsBuildRequest
  OBVIOUS
<1>1. TypeOK /\ VerdictInv /\ DeliveryInv /\ UnansweredInv /\ [Next]_vars
        => [Abstract!Next]_<<KnownTests, outcome>>
  <2>1. TypeOK /\ HistoryInv => \A d \in finished : wpc[d] \in PublishedAt.Final
    BY DEF HistoryInv, TypeOK, WorkerTypeOK
  <2>2. QED
    BY <2>1, StepImplements DEF DeliveryInv
<1>2. QED
  BY <1>1, InitImplements, TypeCorrect, VerdictInvariance, DeliveryInvariance,
     UnansweredInvariance, PTL
     DEF Spec, ImplementsBuildRequest, Abstract!Spec, KnownTests, Known

=============================================================================
