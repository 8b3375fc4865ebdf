---------------------------- MODULE PipelineProofs ---------------------------
(***************************************************************************)
(* Verdicts about builds of any number of stages, for requestors who do    *)
(* not share a queue: a build that began after its requestor had declared  *)
(* the queue is heard out.                                                 *)
(***************************************************************************)
EXTENDS BuildRequestProofs

-----------------------------------------------------------------------------
(* What a sequence has for one who saw all that came before it. *)

LEMMA TailFinalIsLast ==
  ASSUME NEW s \in Seq(Message), s # <<>>, NEW b, FinalIsLast(s, b)
  PROVE  /\ FinalIsLast(Tail(s), b)
         /\ Head(s).Kind = "Final" /\ About(Head(s)) = b =>
              \A i \in 1 .. Len(Tail(s)) : About(Tail(s)[i]) # b
<1>1. \A i \in 1 .. Len(Tail(s)) :
        i \in Nat /\ i + 1 \in 1 .. Len(s) /\ Tail(s)[i] = s[i + 1] /\ 1 < i + 1
  BY TailElements
<1>2. \A i, j \in 1 .. Len(Tail(s)) : i < j => i + 1 < j + 1
  BY <1>1
<1>3. 1 \in 1 .. Len(s) /\ Head(s) = s[1]
  BY TailElements
<1>4. QED
  BY <1>1, <1>2, <1>3 DEF FinalIsLast

\* Before its build message there is nothing of a build to act on.
LEMMA TailAnnounces ==
  ASSUME NEW s \in Seq(Message), s # <<>>, NEW b, Announces(s, b)
  PROVE  /\ About(Head(s)) = b => Head(s).Kind \notin {"Log", "Status", "Final"}
         /\ ~(About(Head(s)) = b /\ Head(s).Kind = "Build") => Announces(Tail(s), b)
<1>1. 1 \in 1 .. Len(s) /\ Head(s) = s[1] /\ \A i \in 1 .. 1 : i = 1
  BY TailElements
<1>2. About(Head(s)) = b => Head(s).Kind \notin {"Log", "Status", "Final"}
  BY <1>1 DEF Announces
<1>3. ASSUME ~(About(Head(s)) = b /\ Head(s).Kind = "Build"), NEW j \in 1 .. Len(Tail(s)),
             About(Tail(s)[j]) = b, Tail(s)[j].Kind \in {"Log", "Status", "Final"}
      PROVE  \E i \in 1 .. j : About(Tail(s)[i]) = b /\ Tail(s)[i].Kind = "Build"
  <2>1. j \in Nat /\ j + 1 \in 1 .. Len(s) /\ Tail(s)[j] = s[j + 1]
    BY TailElements
  <2>2. PICK i \in 1 .. j + 1 : About(s[i]) = b /\ s[i].Kind = "Build"
    BY <1>3, <2>1 DEF Announces
  <2>3. i # 1
    BY <1>1, <1>3, <2>2
  <2>4. i - 1 \in 1 .. j /\ Tail(s)[i - 1] = s[i]
    BY <2>1, <2>2, <2>3, TailElements
  <2>5. QED
    BY <2>2, <2>4
<1>4. QED
  BY <1>2, <1>3 DEF Announces

LEMMA TailReports ==
  ASSUME NEW s \in Seq(Message), s # <<>>, NEW b, NEW open, NEW follows, NEW ok \in BOOLEAN,
         NEW n \in Nat, NEW won, NEW lines, Reports(s, b, open, follows, ok, n, won, lines)
  PROVE  Reports(Tail(s), b, open, TRUE, ok /\ ~IsFailure(Head(s), b),
                 n + (IF IsLog(Head(s), b) THEN 1 ELSE 0), won, lines)
<1>1. FinalIsLast(Tail(s), b)
  BY TailFinalIsLast DEF Reports
<1>2. ASSUME open \/ Carries(Tail(s), "Final", b)
      PROVE  Tells(Tail(s), b, ok /\ ~IsFailure(Head(s), b),
                   n + (IF IsLog(Head(s), b) THEN 1 ELSE 0), won, lines)
  <2>1. Tells(s, b, ok, n, won, lines)
    BY <1>2, TailCarries DEF Reports
  <2>2. QED
    BY <2>1, TailTells
<1>3. QED
  BY <1>1, <1>2 DEF Reports

\* A message that is no log line and no failure moves nothing.
LEMMA QuietReports ==
  ASSUME NEW s \in Seq(Message), s # <<>>, NEW b, NEW open, NEW follows, NEW ok \in BOOLEAN,
         NEW n \in Nat, NEW won, NEW lines, Reports(s, b, open, follows, ok, n, won, lines),
         ~IsLog(Head(s), b), ~IsFailure(Head(s), b)
  PROVE  Reports(Tail(s), b, open, TRUE, ok, n, won, lines)
<1>1. Reports(Tail(s), b, open, TRUE, ok /\ ~IsFailure(Head(s), b),
              n + (IF IsLog(Head(s), b) THEN 1 ELSE 0), won, lines)
  BY TailReports
<1>2. ok = (ok /\ ~IsFailure(Head(s), b)) /\ n = n + (IF IsLog(Head(s), b) THEN 1 ELSE 0)
  OBVIOUS
<1>3. QED
  BY <1>1, <1>2

\* Who does not follow b yet passes over all but its build message.
LEMMA PassOverReports ==
  ASSUME NEW s \in Seq(Message), s # <<>>, NEW b, NEW open, NEW ok \in BOOLEAN,
         NEW n \in Nat, NEW won, NEW lines, Reports(s, b, open, FALSE, ok, n, won, lines),
         ~(About(Head(s)) = b /\ Head(s).Kind = "Build")
  PROVE  Reports(Tail(s), b, open, FALSE, ok, n, won, lines)
<1>1. Announces(Tail(s), b) /\ ~IsLog(Head(s), b) /\ ~IsFailure(Head(s), b)
  BY TailAnnounces DEF Reports, IsLog, IsFailure
<1>2. Reports(Tail(s), b, open, TRUE, ok, n, won, lines)
  BY <1>1, QuietReports
<1>3. QED
  BY <1>1, <1>2 DEF Reports

\* Who does follow b from now on may be told it failed, but not that it won.
LEMMA FollowReports ==
  ASSUME NEW s \in Seq(Message), s # <<>>, NEW b, NEW open, NEW ok \in BOOLEAN,
         NEW won, NEW lines, Reports(s, b, open, FALSE, TRUE, 0, won, lines),
         Head(s).Kind = "Build"
  PROVE  Reports(Tail(s), b, open, TRUE, ok, 0, won, lines)
<1>1. ~IsLog(Head(s), b) /\ ~IsFailure(Head(s), b)
  BY DEF IsLog, IsFailure
<1>2. Reports(Tail(s), b, open, TRUE, TRUE, 0, won, lines)
  BY <1>1, QuietReports
<1>3. QED
  BY <1>2 DEF Reports, Tells

LEMMA LogReports ==
  ASSUME NEW s \in Seq(Message), s # <<>>, NEW b, NEW open, NEW follows, NEW ok \in BOOLEAN,
         NEW n \in Nat, NEW won, NEW lines, Reports(s, b, open, follows, ok, n, won, lines),
         IsLog(Head(s), b)
  PROVE  Reports(Tail(s), b, open, TRUE, ok, n + 1, won, lines)
<1>1. Reports(Tail(s), b, open, TRUE, ok /\ ~IsFailure(Head(s), b),
              n + (IF IsLog(Head(s), b) THEN 1 ELSE 0), won, lines)
  BY TailReports
<1>2. ok = (ok /\ ~IsFailure(Head(s), b))
  BY DEF IsLog, IsFailure
<1>3. n + 1 = n + (IF IsLog(Head(s), b) THEN 1 ELSE 0)
  OBVIOUS
<1>4. QED
  BY <1>1, <1>2, <1>3

LEMMA StatusReports ==
  ASSUME NEW s \in Seq(Message), s # <<>>, NEW b, NEW open, NEW follows, NEW ok \in BOOLEAN,
         NEW n \in Nat, NEW won, NEW lines, Reports(s, b, open, follows, ok, n, won, lines),
         Head(s).Kind = "Status", About(Head(s)) = b
  PROVE  Reports(Tail(s), b, open, TRUE, ok /\ Head(s).Success, n, won, lines)
<1>1. Reports(Tail(s), b, open, TRUE, ok /\ ~IsFailure(Head(s), b),
              n + (IF IsLog(Head(s), b) THEN 1 ELSE 0), won, lines)
  BY TailReports
<1>2. (ok /\ Head(s).Success) = (ok /\ ~IsFailure(Head(s), b))
  BY TailElements, MessageParts DEF IsFailure
<1>3. n = n + (IF IsLog(Head(s), b) THEN 1 ELSE 0)
  BY DEF IsLog
<1>4. QED
  BY <1>1, <1>2, <1>3

\* The final message finds the reader with all there is to know.
LEMMA FinalReports ==
  ASSUME NEW s \in Seq(Message), s # <<>>, NEW b, NEW open, NEW follows, NEW ok \in BOOLEAN,
         NEW n \in Nat, NEW won, NEW lines, Reports(s, b, open, follows, ok, n, won, lines),
         Head(s).Kind = "Final", About(Head(s)) = b
  PROVE  (ok => won) /\ n = lines
<1>1. Carries(s, "Final", b)
  BY TailElements DEF Carries
<1>2. Tells(s, b, ok, n, won, lines)
  BY <1>1 DEF Reports
<1>3. \A i \in 1 .. Len(Tail(s)) : About(Tail(s)[i]) # b
  BY TailFinalIsLast DEF Reports
<1>4. ~CarriesFailure(s, b)
  <2>1. ~CarriesFailure(Tail(s), b)
    BY <1>3 DEF CarriesFailure
  <2>2. QED
    BY <2>1, TailCarries
<1>5. ~Carries(s, "Log", b)
  <2>1. ~Carries(Tail(s), "Log", b)
    BY <1>3 DEF Carries
  <2>2. QED
    BY <2>1, TailCarries
<1>6. LogsIn(s, b) = {}
  BY <1>5 DEF LogsIn, Carries
<1>7. QED
  BY <1>2, <1>4, <1>6, FS_EmptySet DEF Tells

\* A worker adds a message, not behind a final message, and none but a cancel
\* or a build message before it has announced the build.
LEMMA AppendReports ==
  ASSUME NEW s \in Seq(Message), NEW m \in Message, NEW b, NEW follows, NEW ok,
         NEW n \in Nat, NEW won, NEW lines \in Nat,
         Reports(s, b, TRUE, follows, ok, n, won, lines),
         About(m) = b => ~Carries(s, "Final", b),
         About(m) = b /\ m.Kind \in {"Log", "Status", "Final"} => follows \/ Carries(s, "Build", b)
  PROVE  Reports(Append(s, m), b, TRUE, follows, ok, n, won /\ ~IsFailure(m, b),
                 lines + (IF IsLog(m, b) THEN 1 ELSE 0))
<1>1. Tells(Append(s, m), b, ok, n, won /\ ~IsFailure(m, b),
            lines + (IF IsLog(m, b) THEN 1 ELSE 0))
  BY AppendTells DEF Reports
<1>2. FinalIsLast(Append(s, m), b)
  <2> SUFFICES ASSUME NEW i \in 1 .. Len(Append(s, m)), NEW j \in 1 .. Len(Append(s, m)), i < j,
                      About(Append(s, m)[i]) = b, About(Append(s, m)[j]) = b
               PROVE  Append(s, m)[i].Kind # "Final"
    BY DEF FinalIsLast
  <2>1. i \in 1 .. Len(s) /\ Append(s, m)[i] = s[i]
    BY AppendElements
  <2>2. CASE j \in 1 .. Len(s)
    BY <2>1, <2>2, AppendElements DEF Reports, FinalIsLast
  <2>3. CASE j = Len(s) + 1
    BY <2>1, <2>3, AppendElements DEF Carries
  <2>4. QED
    BY <2>2, <2>3, AppendElements
<1>3. ASSUME ~follows PROVE Announces(Append(s, m), b)
  <2> SUFFICES ASSUME NEW j \in 1 .. Len(Append(s, m)), About(Append(s, m)[j]) = b,
                      Append(s, m)[j].Kind \in {"Log", "Status", "Final"}
               PROVE  \E i \in 1 .. j : /\ About(Append(s, m)[i]) = b
                                        /\ Append(s, m)[i].Kind = "Build"
    BY DEF Announces
  <2>1. Len(s) \in Nat /\ \A i \in 1 .. Len(s) : Append(s, m)[i] = s[i]
    BY AppendElements
  <2>2. CASE j \in 1 .. Len(s)
    <3>1. PICK i \in 1 .. j : About(s[i]) = b /\ s[i].Kind = "Build"
      BY <1>3, <2>1, <2>2 DEF Reports, Announces
    <3>2. i \in 1 .. Len(s)
      BY <2>1, <2>2, <3>1
    <3>3. QED
      BY <2>1, <3>1, <3>2
  <2>3. CASE j = Len(s) + 1
    <3>1. Carries(s, "Build", b)
      BY <1>3, <2>3, AppendElements
    <3>2. PICK i \in 1 .. Len(s) : About(s[i]) = b /\ s[i].Kind = "Build"
      BY <3>1 DEF Carries
    <3>3. i \in 1 .. j
      BY <2>1, <2>3, <3>2
    <3>4. QED
      BY <2>1, <3>2, <3>3
  <2>4. QED
    BY <2>2, <2>3, AppendElements
<1>4. QED
  BY <1>1, <1>2, <1>3 DEF Reports

\* Who is cut off from t keeps what the final message in s stands for.
LEMMA CloseReports ==
  ASSUME NEW s \in Seq(Message), NEW t \in Seq(Message), NEW b, NEW follows, NEW ok, NEW n,
         NEW won, NEW lines, Reports(s \o t, b, TRUE, follows, ok, n, won, lines)
  PROVE  Reports(s, b, FALSE, follows, ok, n, won, lines)
<1>1. /\ Len(s) \in Nat /\ Len(t) \in Nat /\ Len(s \o t) = Len(s) + Len(t)
      /\ \A i \in 1 .. Len(s) : i \in 1 .. Len(s \o t) /\ (s \o t)[i] = s[i]
  BY ConcatProperties, LenProperties
<1>2. FinalIsLast(s, b)
  BY <1>1 DEF Reports, FinalIsLast
<1>3. ASSUME Announces(s \o t, b) PROVE Announces(s, b)
  <2> SUFFICES ASSUME NEW j \in 1 .. Len(s), About(s[j]) = b,
                      s[j].Kind \in {"Log", "Status", "Final"}
               PROVE  \E i \in 1 .. j : About(s[i]) = b /\ s[i].Kind = "Build"
    BY DEF Announces
  <2>1. PICK i \in 1 .. j : About((s \o t)[i]) = b /\ (s \o t)[i].Kind = "Build"
    BY <1>1, <1>3 DEF Announces
  <2>2. i \in 1 .. Len(s)
    BY <1>1, <2>1
  <2>3. QED
    BY <1>1, <2>1, <2>2
<1>4. ASSUME Carries(s, "Final", b) PROVE Tells(s, b, ok, n, won, lines)
  <2>1. PICK i \in 1 .. Len(s) : s[i].Kind = "Final" /\ About(s[i]) = b
    BY <1>4 DEF Carries
  <2>2. \A j \in 1 .. Len(s \o t) : j \notin 1 .. Len(s) => i < j
    BY <1>1, <2>1
  <2>3. \A j \in 1 .. Len(s \o t) : j \notin 1 .. Len(s) => About((s \o t)[j]) # b
    BY <1>1, <2>1, <2>2 DEF Reports, FinalIsLast
  <2>4. LogsIn(s \o t, b) = LogsIn(s, b)
    BY <1>1, <2>3 DEF LogsIn
  <2>5. CarriesFailure(s \o t, b) => CarriesFailure(s, b)
    BY <1>1, <2>3 DEF CarriesFailure
  <2>6. QED
    BY <2>4, <2>5 DEF Tells, Reports
<1>5. QED
  BY <1>2, <1>3, <1>4 DEF Reports

-----------------------------------------------------------------------------
(* Nothing of a build before it begins, nothing behind its final message. *)

\* The messages of builds that have begun.
Begun == {m \in Message : wpc[About(m)] # "none"}

LEMMA RequestorStepBegun ==
  ASSUME BegunInv, NEW r \in Requestors, RequestorNext(r)
  PROVE  BegunInv'
<1>1. UNCHANGED workerVars
  BY DEF RequestorNext
<1>2. Begun' = Begun
  BY <1>1 DEF Begun, workerVars
<1>3. QueueHolds(Begun)'
  BY <1>2, RequestorMovesMessages DEF RequestorNext, QueueHolds, BegunInv, Begun
<1>4. QED
  BY <1>1, <1>3 DEF BegunInv, Begun, workerVars

\* A worker that has begun stays so, and one that has finished stays finished.
LEMMA WorkerStays ==
  ASSUME TypeOK, NumberingInv, BegunInv, NEW b \in Builds, WorkerNext(b), NEW c \in Builds
  PROVE  /\ wpc[c] # "none" => wpc'[c] # "none"
         /\ c \in finished => wpc'[c] \in PublishedAt.Final /\ stage'[c] = Stages
<1> USE DEF TypeOK, WorkerTypeOK
<1>1. CASE c # b
  <2>1. (\E to : wpc' = [wpc EXCEPT ![b] = to]) /\ stage'[c] = stage[c]
    BY <1>1
       DEF WorkerNext, WorkerStep, Run, RunStep, CheckForNewerBuilds, MoveForward,
           NotMovingForward, CleanupOldBuilds, InitQueues, SendCancelMessage, SendBuildInfo,
           FlushToQueue, RunReturns, RunDone, SendStatusMessage, SendFinalizeMessage, NextStage,
           EndBuild, PollFindsNewer, Stopped, TriggerBuild, Rebuild, WorkerStarts, WorkerFails,
           WorkerGoes, WorkerExits
  <2>2. wpc'[c] = wpc[c]
    BY <1>1, <2>1
  <2>3. QED
    BY <2>1, <2>2 DEF BegunInv
<1>2. CASE c = b
  <2>1. wpc'[c] # "none"
    BY <1>2
       DEF WorkerNext, WorkerStep, Run, RunStep, CheckForNewerBuilds, MoveForward,
           NotMovingForward, CleanupOldBuilds, InitQueues, SendCancelMessage, SendBuildInfo,
           FlushToQueue, RunReturns, RunDone, SendStatusMessage, SendFinalizeMessage, NextStage,
           EndBuild, PollFindsNewer, Stopped, TriggerBuild, Rebuild, WorkerStarts, WorkerFails,
           WorkerGoes, WorkerExits
  <2>2. CASE ~WorkerStarts(b)
    <3>1. c \in finished => wpc[c] \in {"shutdown", "exited"} /\ stage[c] = Stages
      BY DEF BegunInv, PublishedAt
    <3>2. c \in finished => wpc'[c] \in {"shutdown", "exited"} /\ stage'[c] = Stages
      BY <1>2, <2>2, <3>1, WorkerAssumption
         DEF WorkerNext, WorkerStep, Run, RunStep, CheckForNewerBuilds, MoveForward,
             NotMovingForward, CleanupOldBuilds, InitQueues, SendCancelMessage, SendBuildInfo,
             FlushToQueue, RunReturns, RunDone, SendStatusMessage, SendFinalizeMessage, NextStage,
             EndBuild, PollFindsNewer, Stopped, TriggerBuild, Rebuild, WorkerFails,
             WorkerGoes, WorkerExits
    <3>3. QED
      BY <2>1, <3>2 DEF PublishedAt
  <2>3. CASE WorkerStarts(b)
    <3>1. wpc[b] = "none"
      BY <2>3, BuildParts, MaxBuildAssumption
         DEF WorkerStarts, StartBuild, NumberingInv, Started, JenkinsTypeOK
    <3>2. QED
      BY <1>2, <2>1, <3>1 DEF BegunInv, PublishedAt
  <2>4. QED
    BY <2>2, <2>3
<1>3. QED
  BY <1>1, <1>2

LEMMA WorkerStepBegun ==
  ASSUME TypeOK, NumberingInv, BegunInv, NEW b \in Builds, WorkerNext(b)
  PROVE  BegunInv'
<1>1. ASSUME NEW c \in Builds, wpc'[c] = "none" PROVE logs'[c] = 0 /\ passed'[c]
  <2>1. logs[c] = 0 /\ passed[c]
    BY <1>1, WorkerStays DEF BegunInv
  <2>2. ASSUME NEW m \in Message, Publishes(b, m) PROVE logs'[c] = 0 /\ passed'[c]
    <3>1. c # b
      BY <1>1, <2>2, MessageParts DEF Publishes, PublishedAt, Kinds
    <3>2. ~IsLog(m, c) /\ ~IsFailure(m, c)
      BY <2>2, <3>1 DEF Publishes, IsLog, IsFailure
    <3>3. logs'[c] = logs[c] + 0
      BY <2>2, <3>2 DEF Publishes
    <3>4. passed'[c]
      BY <2>1, <2>2, <3>2 DEF Publishes
    <3>5. QED
      BY <2>1, <3>3, <3>4
  <2>3. QED
    BY <2>1, <2>2, WorkerPublishes
<1>2. QueueHolds(Begun)'
  <2>1. Begun \subseteq Begun'
    BY WorkerStays, MessageParts DEF Begun
  <2>2. ready \in Seq(Begun') /\ inbox \in [Requestors -> Seq(Begun')]
    BY <2>1, SeqMonotonic DEF BegunInv, Begun, QueueHolds
  <2>3. CASE UNCHANGED <<ready, inbox>>
    BY <2>2, <2>3 DEF QueueHolds
  <2>4. ASSUME NEW m \in Message, Publishes(b, m) PROVE QueueHolds(Begun)'
    <3>1. m \in Begun'
      BY <2>4, MessageParts DEF Publishes, Begun, PublishedAt, Kinds
    <3>2. QED
      BY <2>2, <2>4, <3>1 DEF Publishes, Publish, QueueHolds
  <2>5. QED
    BY <2>3, <2>4, WorkerPublishes
<1>3. ASSUME NEW c \in finished' PROVE wpc'[c] \in PublishedAt.Final /\ stage'[c] = Stages
  <2>1. CASE c \in finished
    BY <2>1, WorkerStays DEF TypeOK, WorkerTypeOK
  <2>2. CASE c \notin finished
    <3>1. c = b /\ SendFinalizeMessage(b) /\ stage[b] = Stages
      BY <1>3, <2>2
         DEF WorkerNext, WorkerStep, Run, RunStep, CheckForNewerBuilds, MoveForward,
             NotMovingForward, CleanupOldBuilds, InitQueues, SendCancelMessage, SendBuildInfo,
             FlushToQueue, RunReturns, RunDone, SendStatusMessage, SendFinalizeMessage, NextStage,
             EndBuild, PollFindsNewer, Stopped, TriggerBuild, Rebuild, WorkerStarts, WorkerFails
    <3>2. QED
      BY <3>1 DEF SendFinalizeMessage, WorkerGoes, PublishedAt, TypeOK, WorkerTypeOK
  <2>3. QED
    BY <2>1, <2>2
<1>4. QED
  BY <1>1, <1>2, <1>3 DEF BegunInv, Begun

-----------------------------------------------------------------------------
(* Reports, when requestors move. *)

LEMMA AheadTypes ==
  ASSUME TypeOK, NEW r \in Requestors, NEW b \in Ahead(r)
  PROVE  /\ b \in Builds /\ b = <<JenkinsProject[r], b[2]>> /\ b[2] \in Nat \ {0}
         /\ jenkinsBuild[r] \in Int /\ jenkinsBuild[r] <= b[2]
         /\ \A m \in Message :
              /\ m.Build \in Nat \ {0}
              /\ About(m) = b <=> m.JenkinsProject = JenkinsProject[r] /\ m.Build = b[2]
<1>1. b \in Builds /\ b[1] = JenkinsProject[r] /\ jenkinsBuild[r] <= b[2]
  BY DEF Ahead
<1>2. b = <<b[1], b[2]>> /\ b[2] \in BuildNumbers
  BY <1>1 DEF Builds
<1>3. \A m \in Message : m.Build \in BuildNumbers
  BY DEF Message
<1>4. BuildNumbers \subseteq Nat \ {0}
  BY MaxBuildAssumption DEF BuildNumbers
<1>5. jenkinsBuild[r] \in Int
  BY MaxBuildAssumption DEF TypeOK, RequestorTypeOK, BuildNumbers, NoBuild
<1>6. \A m \in Message : About(m) = b <=> m.JenkinsProject = JenkinsProject[r] /\ m.Build = b[2]
  BY <1>1, <1>2 DEF About
<1>7. QED
  BY <1>1, <1>2, <1>3, <1>4, <1>5, <1>6

\* The queue of one who waits is nobody else's.
LEMMA BystanderReports ==
  ASSUME TypeOK, QueueToItself, NEW r \in Requestors, RequestorNext(r),
         NEW o \in Requestors, o # r, Expects(o)'
  PROVE  /\ Expects(o) /\ Stream(o)' = Stream(o) /\ Open(o)' = Open(o) /\ Ahead(o)' = Ahead(o)
         /\ UNCHANGED <<jenkinsBuild[o], success[o], shown[o]>>
<1>1. UNCHANGED <<rpc[o], hpc[o], jenkinsBuild[o], success[o], announced[o], shown[o], inbox[o]>>
      /\ (o \in consumers' <=> o \in consumers)
  BY DEF TypeOK, QueueTypeOK, QueueHolds, RequestorTypeOK, RequestorNext, RequestorStep,
         MainGoesOn, Handler, Around, InitQueus, SendBuildRequest, ConsumeMessages,
         ConsumeFails, ReceiveDone, TimeOut, ShutDownPurge, ShutDownClose, Crash, BrokerReaps,
         ConnectionLost, Deliver, HandleBuild, HandleCancel, HandleLog, HandleStatus,
         HandleFinal, SkipMessage, DeliveriesClosed, QueueDeclare, Consume, Ack, QueuePurge,
         ChannelClosed, MainGoes, queueVars, requestorVars
<1>2. Expects(o) /\ Open(o)' = Open(o) /\ Present(o)
  BY <1>1 DEF Expects, Open, Starting, Present, Exited
<1>3. r \notin consumers
  BY <1>2 DEF QueueToItself, Present
<1>4. UNCHANGED ready
  <2>1. \A kept : ChannelClosed(r, kept) => UNCHANGED ready
    BY <1>3 DEF ChannelClosed
  <2>2. QED
    BY <1>3, <2>1
       DEF RequestorNext, RequestorStep, MainGoesOn, Handler, Around, InitQueus,
           SendBuildRequest, ConsumeMessages, ConsumeFails, ReceiveDone, TimeOut,
           ShutDownPurge, ShutDownClose, Crash, BrokerReaps, ConnectionLost, Deliver,
           HandleBuild, HandleCancel, HandleLog, HandleStatus, HandleFinal, SkipMessage,
           DeliveriesClosed, QueueDeclare, Consume, Ack, QueuePurge, queueVars
<1>5. since'[o] = since[o]
  BY DEF TypeOK, SinceTypeOK, RequestorNext, SetsOut
<1>6. Ahead(o)' = Ahead(o)
  BY <1>1, <1>5 DEF Ahead
<1>7. QED
  BY <1>1, <1>2, <1>4, <1>6 DEF Stream

LEMMA HeadIsMessage ==
  ASSUME TypeOK, NEW r \in Requestors, Handling(r)
  PROVE  Head(inbox[r]) \in Message /\ Head(inbox[r]).Build \in BuildNumbers
<1>1. Head(inbox[r]) \in Message
  BY HeadTailProperties DEF Handling, TypeOK, QueueTypeOK, QueueHolds
<1>2. QED
  BY <1>1 DEF Message

\* What the handler has ahead it had ahead before; and if it was following
\* one of them, it obeys no cancel message and follows no other.
LEMMA HandlerAhead ==
  ASSUME TypeOK, NEW r \in Requestors, Handler(r), UNCHANGED since, NEW b \in Ahead(r)'
  PROVE  /\ b \in Ahead(r)
         /\ HandleBuild(r) \/ HandleCancel(r) => jenkinsBuild[r] # b[2]
<1>1. b \in Builds /\ b[1] = JenkinsProject[r] /\ b[2] > since[r] /\ b[2] >= announced'[r]
      /\ b[2] >= jenkinsBuild'[r] /\ b[2] \in Int
  BY DEF Ahead, Builds, BuildNumbers
<1>2. jenkinsBuild[r] \in Int /\ announced[r] \in Int
  BY MaxBuildAssumption DEF TypeOK, RequestorTypeOK, BuildNumbers, NoBuild
<1>3. CASE HandleBuild(r)
  <2>1. Head(inbox[r]).Build > jenkinsBuild[r] /\ jenkinsBuild'[r] = Head(inbox[r]).Build
        /\ UNCHANGED announced
    BY <1>3 DEF HandleBuild, Newer, TypeOK, RequestorTypeOK
  <2>2. Head(inbox[r]).Build \in Int
    BY <1>3, HeadIsMessage DEF HandleBuild, BuildNumbers
  <2>3. b[2] > jenkinsBuild[r]
    BY <1>1, <1>2, <2>1, <2>2
  <2>4. QED
    BY <1>1, <1>2, <2>1, <2>3 DEF Ahead
<1>4. CASE HandleCancel(r)
  <2>1. Head(inbox[r]).Build > jenkinsBuild[r]
        /\ announced'[r] = IF Head(inbox[r]).Build > announced[r]
                           THEN Head(inbox[r]).Build ELSE announced[r]
    BY <1>4 DEF HandleCancel, Newer, TypeOK, RequestorTypeOK
  <2>2. Head(inbox[r]).Build \in Int
    BY <1>4, HeadIsMessage DEF HandleCancel, BuildNumbers
  <2>3. b[2] > jenkinsBuild[r] /\ b[2] >= announced[r]
    BY <1>1, <1>2, <2>1, <2>2
  <2>4. QED
    BY <1>1, <1>2, <2>3 DEF Ahead
<1>5. CASE UNCHANGED <<jenkinsBuild, announced>> /\ ~HandleBuild(r) /\ ~HandleCancel(r)
  BY <1>1, <1>5 DEF Ahead
<1>6. QED
  BY <1>3, <1>4, <1>5
     DEF Handler, HandleLog, HandleStatus, HandleFinal, SkipMessage, DeliveriesClosed, requestorVars

LEMMA HandlerReports ==
  ASSUME TypeOK, NEW r \in Requestors, Handler(r), UNCHANGED <<since, wpc, passed, logs>>,
         hpc[r] = "loop", hpc'[r] = "loop", NEW b \in Ahead(r)', Supplied(r, b)
  PROVE  Supplied(r, b)'
<1> DEFINE s == Stream(r)
           m == Head(inbox[r])
           follows == jenkinsBuild[r] = b[2]
           follows2 == jenkinsBuild'[r] = b[2]
<1>1. b \in Ahead(r) /\ (HandleBuild(r) \/ HandleCancel(r) => ~follows)
  BY HandlerAhead
<1>2. /\ Reports(s, b, Open(r), follows, follows => success[r], IF follows THEN shown[r] ELSE 0,
                 passed[b], logs[b])
      /\ Open(r) /\ wpc[b] \in {"run", "status", "final"} => follows \/ Carries(s, "Build", b)
  BY DEF Supplied
<1>3. Handling(r) /\ Ack(r) /\ UNCHANGED rpc
  BY DEF Handler, HandleBuild, HandleCancel, HandleLog, HandleStatus, HandleFinal, SkipMessage,
         DeliveriesClosed, requestorVars, TypeOK, RequestorTypeOK
<1>4. s \in Seq(Message) /\ s # <<>> /\ Head(s) = m /\ m \in Message
      /\ Stream(r)' = Tail(s) /\ Open(r)' = Open(r)
  BY <1>3, AckedStream, StreamTypes, TailElements
<1>5. success[r] \in BOOLEAN /\ shown[r] \in Nat
  BY StreamTypes
<1>6. /\ b[2] \in Nat \ {0} /\ jenkinsBuild[r] \in Int /\ jenkinsBuild[r] <= b[2]
      /\ m.Build \in Nat \ {0} /\ (About(m) = b <=> Mine(r) /\ m.Build = b[2])
  BY <1>1, <1>4, AheadTypes DEF Mine
<1>7. Carries(s, "Build", b) =>
        Carries(Tail(s), "Build", b) \/ (m.Kind = "Build" /\ About(m) = b)
  BY <1>4, TailCarries
<1>8. SUFFICES
        /\ Reports(Tail(s), b, Open(r), follows2, follows2 => success'[r],
                   IF follows2 THEN shown'[r] ELSE 0, passed[b], logs[b])
        /\ follows \/ Carries(s, "Build", b) => follows2 \/ Carries(Tail(s), "Build", b)
  BY <1>2, <1>4 DEF Supplied
<1> HIDE DEF s, m
<1>9. ASSUME follows, follows2, success'[r] \in BOOLEAN,
             Reports(Tail(s), b, Open(r), TRUE, success'[r], shown'[r], passed[b], logs[b])
      PROVE  /\ Reports(Tail(s), b, Open(r), follows2, follows2 => success'[r],
                        IF follows2 THEN shown'[r] ELSE 0, passed[b], logs[b])
             /\ follows \/ Carries(s, "Build", b) => follows2 \/ Carries(Tail(s), "Build", b)
  <2>1. /\ follows2 = TRUE /\ (follows2 => success'[r]) = success'[r]
        /\ (IF follows2 THEN shown'[r] ELSE 0) = shown'[r]
    BY <1>9
  <2>2. QED
    BY <1>9, <2>1
<1>10. ASSUME ~follows
       PROVE  Reports(s, b, Open(r), FALSE, TRUE, 0, passed[b], logs[b])
  <2>1. /\ follows = FALSE /\ (follows => success[r]) = TRUE
        /\ (IF follows THEN shown[r] ELSE 0) = 0
    BY <1>10
  <2>2. QED
    BY <1>2, <2>1
<1>11. ASSUME ~follows, ~follows2, ~(About(m) = b /\ m.Kind = "Build")
       PROVE  /\ Reports(Tail(s), b, Open(r), follows2, follows2 => success'[r],
                         IF follows2 THEN shown'[r] ELSE 0, passed[b], logs[b])
              /\ follows \/ Carries(s, "Build", b) => follows2 \/ Carries(Tail(s), "Build", b)
  <2>1. Reports(Tail(s), b, Open(r), FALSE, TRUE, 0, passed[b], logs[b])
    BY <1>4, <1>10, <1>11, PassOverReports
  <2>2. /\ follows2 = FALSE /\ (follows2 => success'[r]) = TRUE
        /\ (IF follows2 THEN shown'[r] ELSE 0) = 0
    BY <1>11
  <2>3. QED
    BY <1>7, <1>11, <2>1, <2>2
<1>12. ASSUME follows
       PROVE  Reports(s, b, Open(r), TRUE, success[r], shown[r], passed[b], logs[b])
  <2>1. /\ follows = TRUE /\ (follows => success[r]) = success[r]
        /\ (IF follows THEN shown[r] ELSE 0) = shown[r]
    BY <1>5, <1>12
  <2>2. QED
    BY <1>2, <2>1
<1>13. CASE HandleBuild(r)
  <2>1. /\ ~follows /\ Mine(r) /\ m.Kind = "Build" /\ jenkinsBuild'[r] = m.Build
        /\ success'[r] = success[r] /\ shown'[r] = 0
    BY <1>1, <1>13 DEF HandleBuild, Newer, Is, m, TypeOK, RequestorTypeOK
  <2>2. CASE follows2
    <3>1. Reports(Tail(s), b, Open(r), TRUE, success[r], 0, passed[b], logs[b])
      BY <1>4, <1>5, <1>10, <2>1, FollowReports
    <3>2. /\ follows2 = TRUE /\ (follows2 => success'[r]) = success[r]
          /\ (IF follows2 THEN shown'[r] ELSE 0) = 0
      BY <1>5, <2>1, <2>2
    <3>3. QED
      BY <2>2, <3>1, <3>2
  <2>3. CASE ~follows2
    BY <1>6, <1>11, <2>1, <2>3
  <2>4. QED
    BY <2>2, <2>3
<1>14. CASE HandleCancel(r)
  <2>1. ~follows /\ m.Kind = "Cancel" /\ jenkinsBuild'[r] = NoBuild
    BY <1>1, <1>14 DEF HandleCancel, Is, m, TypeOK, RequestorTypeOK
  <2>2. ~follows2
    BY <1>6, <2>1 DEF NoBuild
  <2>3. QED
    BY <1>11, <2>1, <2>2
<1>15. CASE HandleLog(r)
  <2>1. /\ Mine(r) /\ m.Build = jenkinsBuild[r] /\ m.Kind = "Log" /\ jenkinsBuild'[r] = jenkinsBuild[r]
        /\ success'[r] = success[r] /\ shown'[r] = shown[r] + 1
    BY <1>15 DEF HandleLog, Current, Is, m, TypeOK, RequestorTypeOK
  <2>2. CASE follows
    <3>1. IsLog(m, b)
      BY <1>6, <2>1, <2>2 DEF IsLog
    <3>2. Reports(Tail(s), b, Open(r), TRUE, success[r], shown[r] + 1, passed[b], logs[b])
      BY <1>4, <1>5, <1>12, <2>2, <3>1, LogReports
    <3>3. QED
      BY <1>5, <1>9, <2>1, <2>2, <3>2
  <2>3. CASE ~follows
    BY <1>11, <2>1, <2>3
  <2>4. QED
    BY <2>2, <2>3
<1>16. CASE HandleStatus(r)
  <2>1. /\ Mine(r) /\ m.Build = jenkinsBuild[r] /\ m.Kind = "Status"
        /\ jenkinsBuild'[r] = jenkinsBuild[r]
        /\ success'[r] = (success[r] /\ m.Success) /\ shown'[r] = shown[r]
    BY <1>16 DEF HandleStatus, Current, Is, m, TypeOK, RequestorTypeOK
  <2>2. CASE follows
    <3>1. Head(s).Kind = "Status" /\ About(Head(s)) = b /\ m = Head(s)
      BY <1>4, <1>6, <2>1, <2>2
    <3>2. Reports(Tail(s), b, Open(r), TRUE, success[r] /\ Head(s).Success, shown[r],
                  passed[b], logs[b])
      <4> HIDE DEF follows
      <4>1. QED
        BY <1>4, <1>5, <1>12, <2>2, <3>1, StatusReports
    <3>3. success'[r] = (success[r] /\ Head(s).Success) /\ success'[r] \in BOOLEAN
      BY <2>1, <3>1
    <3>4. Reports(Tail(s), b, Open(r), TRUE, success'[r], shown'[r], passed[b], logs[b])
      BY <2>1, <3>2, <3>3
    <3>5. QED
      BY <1>9, <2>1, <2>2, <3>3, <3>4
  <2>3. CASE ~follows
    BY <1>11, <2>1, <2>3
  <2>4. QED
    BY <2>2, <2>3
<1>17. CASE SkipMessage(r)
  <2>1. UNCHANGED <<jenkinsBuild, success, shown>>
    BY <1>17 DEF SkipMessage, requestorVars
  <2>2. CASE follows
    <3>1. ~IsLog(m, b) /\ ~IsFailure(m, b)
      BY <1>6, <1>17, <2>2 DEF SkipMessage, Current, IsLog, IsFailure, Is, m
    <3>2. Reports(Tail(s), b, Open(r), TRUE, success[r], shown[r], passed[b], logs[b])
      BY <1>4, <1>5, <1>12, <2>2, <3>1, QuietReports
    <3>3. QED
      BY <1>5, <1>9, <2>1, <2>2, <3>2
  <2>3. CASE ~follows
    <3>1. About(m) = b => Newer(r)
      BY <1>6, <2>3 DEF Newer, m
    <3>2. ~(About(m) = b /\ m.Kind = "Build")
      BY <1>17, <3>1 DEF SkipMessage, Is, m
    <3>3. QED
      BY <1>11, <2>1, <2>3, <3>2
  <2>4. QED
    BY <2>2, <2>3
<1>18. CASE HandleFinal(r) \/ DeliveriesClosed(r)
  BY <1>18 DEF HandleFinal, DeliveriesClosed, TypeOK, RequestorTypeOK
<1>19. QED
  BY <1>13, <1>14, <1>15, <1>16, <1>17, <1>18 DEF Handler

\* There is nothing yet of a build to come, for a requestor that sets out.
LEMMA FirstReports ==
  ASSUME TypeOK, NumberingInv, QueueToItself, BegunInv, NEW r \in Requestors, rpc[r] = "init",
         NEW b \in Builds, b[1] = JenkinsProject[r], b[2] > lastBuild[b[1]]
  PROVE  Supplied(r, b)
<1> DEFINE s == Stream(r)
<1>1. Starting(r)
  BY DEF Starting
<1>2. wpc[b] = "none"
  <2>1. b[2] \in Int /\ lastBuild[b[1]] \in Int
    BY RequestorAssumption DEF Builds, BuildNumbers, TypeOK, JenkinsTypeOK
  <2>2. ~Started(b)
    BY <2>1 DEF Started
  <2>3. QED
    BY <2>2 DEF NumberingInv
<1>3. logs[b] = 0 /\ passed[b] = TRUE
  BY <1>2 DEF BegunInv, TypeOK, WorkerTypeOK
<1>4. jenkinsBuild[r] = NoBuild
  BY <1>1 DEF QueueToItself
<1>5. (jenkinsBuild[r] = b[2]) = FALSE
  BY <1>4 DEF NoBuild, Builds, BuildNumbers
<1>6. s \in Seq(Begun)
  <2>1. inbox[r] \in Seq(Begun) /\ ready \in Seq(Begun)
    BY DEF BegunInv, QueueHolds, Begun
  <2>2. QED
    BY <2>1, ConcatProperties DEF Stream
<1>7. \A i \in 1 .. Len(s) : About(s[i]) # b
  <2>1. \A i \in 1 .. Len(s) : s[i] \in Begun
    BY <1>6, ElementOfSeq
  <2>2. QED
    BY <1>2, <2>1 DEF Begun
<1>8. FinalIsLast(s, b) /\ Announces(s, b)
  BY <1>7 DEF FinalIsLast, Announces
<1>9. Tells(s, b, TRUE, 0, TRUE, 0)
  <2>1. LogsIn(s, b) = {}
    BY <1>7 DEF LogsIn
  <2>2. QED
    BY <2>1, FS_EmptySet DEF Tells
<1>10. Reports(s, b, Open(r), FALSE, TRUE, 0, TRUE, 0)
  BY <1>8, <1>9 DEF Reports
<1>11. Reports(s, b, Open(r), jenkinsBuild[r] = b[2], jenkinsBuild[r] = b[2] => success[r],
               IF jenkinsBuild[r] = b[2] THEN shown[r] ELSE 0, passed[b], logs[b])
  <2> HIDE DEF s
  <2>1. (jenkinsBuild[r] = b[2] => success[r]) = TRUE
        /\ (IF jenkinsBuild[r] = b[2] THEN shown[r] ELSE 0) = 0
    BY <1>5
  <2>2. QED
    BY <1>3, <1>5, <1>10, <2>1
<1>12. QED
  BY <1>2, <1>11 DEF Supplied

\* One who follows b counts on what it has seen of b; one who does not has
\* nothing to count on.
LEMMA SameSupplied ==
  ASSUME NEW r \in Requestors, NEW b, Supplied(r, b), Stream(r)' = Stream(r), Open(r)' = Open(r),
         UNCHANGED <<jenkinsBuild[r], shown[r], wpc, passed, logs>>,
         jenkinsBuild[r] = b[2] => success'[r] = success[r]
  PROVE  Supplied(r, b)'
<1>1. (jenkinsBuild[r] = b[2] => success'[r]) = (jenkinsBuild[r] = b[2] => success[r])
  OBVIOUS
<1>2. QED
  BY <1>1 DEF Supplied

LEMMA OwnReports ==
  ASSUME TypeOK, NumberingInv, QueueToItself, BegunInv, ReportsComeIn,
         NEW r \in Requestors, RequestorNext(r), Expects(r)', NEW b \in Ahead(r)'
  PROVE  Supplied(r, b)'
<1>1. UNCHANGED <<wpc, passed, logs>> /\ SetsOut(r)
  BY DEF RequestorNext, workerVars
<1>2. rpc[r] # "init" => UNCHANGED since
  BY <1>1 DEF SetsOut, TypeOK, SinceTypeOK
<1>3. Expects(r) /\ b \in Ahead(r) => Supplied(r, b)
  BY DEF ReportsComeIn
<1>4. ASSUME rpc[r] # "init", UNCHANGED <<jenkinsBuild, announced>> PROVE b \in Ahead(r)
  BY <1>2, <1>4 DEF Ahead
<1> USE DEF TypeOK, RequestorTypeOK, Expects
<1>5. CASE InitQueus(r)
  <2>1. rpc[r] = "init" /\ Starting(r) /\ Open(r) /\ Open(r)'
        /\ UNCHANGED <<inbox, ready, jenkinsBuild, success, shown>>
    BY <1>5 DEF InitQueus, MainGoes, QueueDeclare, Open, Starting
  <2>2. b \in Builds /\ b[1] = JenkinsProject[r] /\ b[2] > lastBuild[b[1]]
    BY <1>1, <2>1 DEF Ahead, SetsOut, SinceTypeOK
  <2>3. Supplied(r, b)
    BY <2>1, <2>2, FirstReports
  <2>4. Stream(r)' = Stream(r) /\ Open(r)' = Open(r)
    BY <2>1 DEF Stream, Open, Starting
  <2>5. QED
    BY <1>1, <2>1, <2>3, <2>4, SameSupplied
<1>6. CASE SendBuildRequest(r) \/ ConsumeMessages(r)
  <2>1. rpc[r] \in {"send", "consume"} /\ Starting(r) /\ Open(r) /\ Open(r)'
        /\ UNCHANGED <<inbox, ready, jenkinsBuild, announced, shown>>
    BY <1>6
       DEF SendBuildRequest, ConsumeMessages, MainGoes, Consume, queueVars, Open, Starting
  <2>2. b \in Ahead(r) /\ Expects(r)
    BY <1>4, <2>1
  <2>3. jenkinsBuild[r] # b[2]
    BY <2>1, <2>2 DEF QueueToItself, NoBuild, Ahead, Builds, BuildNumbers
  <2>4. Stream(r)' = Stream(r) /\ Open(r)' = Open(r)
    BY <2>1 DEF Stream, Open, Starting
  <2>5. QED
    BY <1>1, <1>3, <2>1, <2>2, <2>3, <2>4, SameSupplied
<1>7. CASE ConsumeFails(r) \/ ReceiveDone(r) \/ TimeOut(r) \/ ShutDownPurge(r) \/ ShutDownClose(r)
           \/ Crash(r) \/ BrokerReaps(r)
  BY <1>7 DEF ConsumeFails, ReceiveDone, TimeOut, ShutDownPurge, ShutDownClose, Crash, BrokerReaps,
              MainGoes, Exited, requestorVars
<1>8. CASE ConnectionLost(r)
  <2> DEFINE follows == jenkinsBuild[r] = b[2]
             ok == follows => success[r]
             seen == IF follows THEN shown[r] ELSE 0
  <2>1. r \in consumers /\ r \notin consumers' /\ UNCHANGED requestorVars
    BY <1>8 DEF ConnectionLost, ChannelClosed
  <2>2. Expects(r) /\ ~Starting(r) /\ Open(r) = TRUE /\ Open(r)' = FALSE
    BY <2>1 DEF requestorVars, QueueToItself, Open, Starting
  <2>3. b \in Ahead(r)
    BY <1>4, <2>1, <2>2 DEF requestorVars, Starting
  <2>4. Stream(r) = inbox[r] \o ready /\ Stream(r)' = inbox[r]
    BY <1>8, <2>2 DEF Stream, ConnectionLost, ChannelClosed, QueueTypeOK, QueueHolds
  <2>5. Reports(inbox[r] \o ready, b, Open(r), follows, ok, seen, passed[b], logs[b])
    BY <1>3, <2>2, <2>3, <2>4 DEF Supplied
  <2>6. Reports(inbox[r], b, FALSE, follows, ok, seen, passed[b], logs[b])
    <3> HIDE DEF follows, ok, seen
    <3>1. QED
      BY <2>2, <2>5, CloseReports, StreamTypes
  <2>7. QED
    BY <1>1, <2>1, <2>2, <2>4, <2>6 DEF Supplied, requestorVars
<1>9. CASE Deliver(r) /\ UNCHANGED requestorVars
  <2>1. Expects(r) /\ Open(r)' = Open(r) /\ Open(r) /\ rpc[r] # "init"
    BY <1>9 DEF Deliver, Open, Starting, requestorVars
  <2>2. inbox'[r] = Append(inbox[r], Head(ready)) /\ ready' = Tail(ready) /\ ready # <<>>
    BY <1>9 DEF Deliver, QueueTypeOK, QueueHolds
  <2>3. Stream(r)' = Stream(r)
    BY <2>1, <2>2, DeliverStream, StreamTypes DEF Stream
  <2>4. b \in Ahead(r)
    BY <1>4, <1>9, <2>1 DEF requestorVars
  <2>5. QED
    BY <1>1, <1>3, <1>9, <2>1, <2>3, <2>4, SameSupplied DEF requestorVars
<1>10. CASE Handler(r)
  <2>1. hpc[r] = "loop" /\ UNCHANGED rpc
    BY <1>10 DEF Handler, HandleBuild, HandleCancel, HandleLog, HandleStatus, HandleFinal,
                 SkipMessage, DeliveriesClosed, Handling, requestorVars
  <2>2. ~Starting(r) /\ hpc'[r] = "loop" /\ Expects(r)
    <3>1. ~Starting(r)
      BY <2>1 DEF QueueToItself
    <3>2. QED
      BY <2>1, <3>1 DEF Starting
  <2>3. UNCHANGED since
    BY <1>2, <2>2 DEF Starting
  <2>4. b \in Ahead(r)
    BY <1>10, <2>3, HandlerAhead
  <2>5. QED
    BY <1>1, <1>3, <1>10, <2>1, <2>2, <2>3, <2>4, HandlerReports
<1>11. QED
  BY <1>5, <1>6, <1>7, <1>8, <1>9, <1>10 DEF RequestorNext, RequestorStep, MainGoesOn, Around

LEMMA RequestorStepReports ==
  ASSUME TypeOK, NumberingInv, QueueToItself, BegunInv, ReportsComeIn,
         NEW r \in Requestors, RequestorNext(r)
  PROVE  ReportsComeIn'
<1>1. ASSUME NEW o \in Requestors, o # r, Expects(o)', NEW b \in Ahead(o)'
      PROVE  Supplied(o, b)'
  <2>1. UNCHANGED <<wpc, passed, logs>>
    BY DEF RequestorNext, workerVars
  <2>2. Supplied(o, b) /\ Stream(o)' = Stream(o) /\ Open(o)' = Open(o)
        /\ UNCHANGED <<jenkinsBuild[o], success[o], shown[o]>>
    BY <1>1, BystanderReports DEF ReportsComeIn
  <2>3. QED
    BY <2>1, <2>2, SameSupplied
<1>2. QED
  BY <1>1, OwnReports DEF ReportsComeIn

-----------------------------------------------------------------------------
(* Reports, when workers publish. *)

\* A worker publishes logs, status and final message behind a build message
\* of the same stage.
LEMMA RunsAnnounced ==
  ASSUME TypeOK, NEW b \in Builds, WorkerNext(b), NEW c \in Builds,
         wpc'[c] \in {"run", "status", "final"}, wpc[c] \notin {"run", "status", "final"}
  PROVE  c = b /\ SendBuildInfo(b)
<1> USE DEF TypeOK, WorkerTypeOK
<1>1. c = b
  <2>1. \E to : wpc' = [wpc EXCEPT ![b] = to]
    BY DEF WorkerNext, WorkerStep, Run, RunStep, CheckForNewerBuilds, MoveForward,
           NotMovingForward, CleanupOldBuilds, InitQueues, SendCancelMessage, SendBuildInfo,
           FlushToQueue, RunReturns, RunDone, SendStatusMessage, SendFinalizeMessage, NextStage,
           EndBuild, PollFindsNewer, Stopped, TriggerBuild, Rebuild, WorkerStarts, WorkerFails,
           WorkerGoes, WorkerExits
  <2>2. QED
    BY <2>1
<1>2. QED
  BY <1>1
     DEF WorkerNext, WorkerStep, Run, RunStep, CheckForNewerBuilds, MoveForward,
         NotMovingForward, CleanupOldBuilds, InitQueues, SendCancelMessage,
         FlushToQueue, RunReturns, RunDone, SendStatusMessage, SendFinalizeMessage, NextStage,
         EndBuild, PollFindsNewer, Stopped, TriggerBuild, Rebuild, WorkerStarts, WorkerFails,
         WorkerGoes, WorkerExits

LEMMA CarriesFinished ==
  ASSUME QueueHolds(Truthful), NEW r \in Requestors, NEW b, Carries(Stream(r), "Final", b)
  PROVE  b \in finished
<1>1. inbox[r] \in Seq(Truthful) /\ ready \in Seq(Truthful)
  BY DEF QueueHolds
<1>2. Stream(r) \in Seq(Truthful)
  BY <1>1, ConcatProperties DEF Stream
<1>3. PICK i \in 1 .. Len(Stream(r)) : Stream(r)[i].Kind = "Final" /\ About(Stream(r)[i]) = b
  BY DEF Carries
<1>4. Stream(r)[i] \in Truthful
  BY <1>2, ElementOfSeq
<1>5. QED
  BY <1>3, <1>4 DEF Truthful

LEMMA WorkerStepReports ==
  ASSUME TypeOK, VerdictInv, QueueToItself, BegunInv, ReportsComeIn, NEW b \in Builds, WorkerNext(b)
  PROVE  ReportsComeIn'
<1>1. UNCHANGED requestorVars /\ UNCHANGED since
  BY DEF WorkerNext
<1> SUFFICES ASSUME NEW o \in Requestors, Expects(o)', NEW c \in Ahead(o)'
             PROVE  Supplied(o, c)'
  BY DEF ReportsComeIn
<1> DEFINE s == Stream(o)
           follows == jenkinsBuild[o] = c[2]
           ok == follows => success[o]
           seen == IF follows THEN shown[o] ELSE 0
           Late(k) == wpc[k] \in {"run", "status", "final"}
<1>2. UNCHANGED <<inbox, consumers>>
  BY WorkerPublishes DEF Publishes, Publish
<1>3. Expects(o) /\ Open(o)' = Open(o) /\ c \in Ahead(o)
  BY <1>1, <1>2 DEF requestorVars, Expects, Open, Starting, Ahead
<1>4. Reports(s, c, Open(o), follows, ok, seen, passed[c], logs[c])
      /\ (Open(o) /\ Late(c) => follows \/ Carries(s, "Build", c))
  BY <1>3 DEF ReportsComeIn, Supplied
<1>5. c \in Builds /\ s \in Seq(Message) /\ logs[c] \in Nat
  <2>1. c \in Builds
    BY <1>3 DEF Ahead
  <2>2. QED
    BY <2>1, StreamTypes, WorkerAssumption DEF TypeOK, WorkerTypeOK
<1>6. seen \in Nat
  BY StreamTypes
<1>7. \A d \in finished : wpc[d] \in PublishedAt.Final
  BY DEF BegunInv
<1>8. Carries(s, "Final", c) => c \in finished /\ passed'[c] = passed[c] /\ logs'[c] = logs[c]
  BY <1>7, CarriesFinished, FinishedHistory DEF VerdictInv
<1>9. SUFFICES /\ Reports(Stream(o)', c, Open(o), follows, ok, seen, passed'[c], logs'[c])
               /\ Open(o) /\ Late(c)' => follows \/ Carries(Stream(o)', "Build", c)
  BY <1>1, <1>3 DEF Supplied, requestorVars
<1>10. CASE ~Open(o)
  <2>1. Stream(o)' = s
    BY <1>2, <1>3, <1>10 DEF Stream
  <2> HIDE DEF s, follows, ok, seen
  <2>2. Reports(s, c, Open(o), follows, ok, seen, passed'[c], logs'[c])
    BY <1>4, <1>8, <1>10 DEF Reports
  <2>3. QED
    BY <1>10, <2>1, <2>2
<1>11. ASSUME Open(o), NEW m \in Message, Publishes(b, m)
       PROVE  /\ Reports(Stream(o)', c, Open(o), follows, ok, seen, passed'[c], logs'[c])
              /\ Late(c)' => follows \/ Carries(Stream(o)', "Build", c)
  <2>1. declared
    BY <1>3, <1>11 DEF Expects, Open, Starting, QueueToItself, DeclaredQueueSurvives
  <2>2. Stream(o)' = Append(s, m)
    <3>1. Stream(o)' = inbox[o] \o ready' /\ ready' = Append(ready, m)
      BY <1>2, <1>3, <1>11, <2>1 DEF Stream, Publishes, Publish
    <3>2. inbox[o] \o Append(ready, m) = Append(inbox[o] \o ready, m)
      BY PublishStream, StreamTypes
    <3>3. QED
      BY <1>11, <3>1, <3>2 DEF Stream
  <2>3. About(m) = b /\ wpc[b] = PublishingAt[m.Kind] /\ m.Kind \in Kinds
    BY <1>11, MessageParts DEF Publishes
  <2>4. About(m) = c => ~Carries(s, "Final", c)
    BY <1>7, <1>8, <2>3 DEF PublishingAt, PublishedAt, Kinds
  <2>5. About(m) = c /\ m.Kind \in {"Log", "Status", "Final"} => follows \/ Carries(s, "Build", c)
    BY <1>4, <1>11, <2>3 DEF PublishingAt
  <2>6. passed'[c] = (passed[c] /\ ~IsFailure(m, c))
        /\ logs'[c] = logs[c] + (IF IsLog(m, c) THEN 1 ELSE 0)
    BY <1>5, <1>11 DEF Publishes
  <2>7. Open(o) = TRUE
    BY <1>11 DEF Open, Starting
  <2>8. Late(c)' => follows \/ Carries(Append(s, m), "Build", c)
    <3>1. CASE Late(c)
      BY <1>4, <1>5, <1>11, <3>1, AppendCarries
    <3>2. CASE ~Late(c) /\ Late(c)'
      <4>1. c = b /\ SendBuildInfo(b)
        BY <1>5, <3>2, RunsAnnounced
      <4>2. m.Kind = "Build" /\ About(m) = c
        BY <2>3, <4>1 DEF SendBuildInfo, WorkerGoes, PublishingAt, Kinds
      <4>3. QED
        BY <1>5, <4>2, AppendCarries
    <3>3. QED
      BY <3>1, <3>2
  <2> HIDE DEF s, follows, ok, seen
  <2>9. Reports(s, c, TRUE, follows, ok, seen, passed[c], logs[c])
    BY <1>4, <2>7
  <2>10. Reports(Append(s, m), c, TRUE, follows, ok, seen,
                 passed[c] /\ ~IsFailure(m, c), logs[c] + (IF IsLog(m, c) THEN 1 ELSE 0))
    BY <1>5, <1>6, <2>4, <2>5, <2>9, AppendReports
  <2>11. Reports(Append(s, m), c, TRUE, follows, ok, seen, passed'[c], logs'[c])
    BY <2>6, <2>10
  <2>12. QED
    BY <2>2, <2>7, <2>8, <2>11
<1>12. ASSUME Open(o), UNCHANGED <<ready, logs, passed>>
       PROVE  /\ Reports(Stream(o)', c, Open(o), follows, ok, seen, passed'[c], logs'[c])
              /\ Late(c)' => follows \/ Carries(Stream(o)', "Build", c)
  <2>1. declared
    BY <1>3, <1>12 DEF Expects, Open, Starting, QueueToItself, DeclaredQueueSurvives
  <2>2. ~SendBuildInfo(b)
    <3>1. SendBuildInfo(b) => ready' = Append(ready, NewBuildMessage(b))
      BY <2>1 DEF SendBuildInfo, Publish
    <3>2. NewBuildMessage(b) \in Message
      BY NewMessageParts DEF NewBuildMessage, Kinds
    <3>3. Append(ready, NewBuildMessage(b)) # ready
      BY <3>2, StreamTypes, AppendElements
    <3>4. QED
      BY <1>12, <3>1, <3>3
  <2>3. Late(c)' => Late(c)
    BY <1>5, <2>2, RunsAnnounced
  <2>4. Stream(o)' = s
    BY <1>2, <1>3, <1>12 DEF Stream
  <2>5. QED
    BY <1>4, <1>12, <2>3, <2>4
<1>13. QED
  BY <1>10, <1>11, <1>12, WorkerPublishes

-----------------------------------------------------------------------------
(* Verdicts about builds heard out. *)

\* The handler reads the final message of the build it follows.
LEMMA HandleFinalReports ==
  ASSUME TypeOK, ReportsComeIn, NEW r \in Requestors, HeardOut(r), HandleFinal(r),
         rpc[r] = "select"
  PROVE  shown[r] = logs[Followed(r)] /\ (success[r] => passed[Followed(r)])
<1> DEFINE s == Stream(r)
           b == Followed(r)
           follows == jenkinsBuild[r] = b[2]
<1>1. Handling(r) /\ Head(inbox[r]).Kind = "Final" /\ About(Head(inbox[r])) = b
  BY DEF HandleFinal, Is, Current, Mine, About, Followed
<1>2. s \in Seq(Message) /\ s # <<>> /\ Head(s) = Head(inbox[r])
  BY <1>1, AckStream, StreamTypes, TailElements DEF Handling, Stream
<1>3. b \in Ahead(r) /\ follows
  <2>1. jenkinsBuild[r] \in BuildNumbers /\ jenkinsBuild[r] \in Int
    BY <1>1, HeadIsMessage DEF HandleFinal, Current, BuildNumbers
  <2>2. QED
    BY <2>1, RequestorAssumption DEF HeardOut, Ahead, Followed, Builds
<1>4. Supplied(r, b)
  BY <1>1, <1>3 DEF Handling, Expects, ReportsComeIn
<1>5. success[r] \in BOOLEAN /\ shown[r] \in Nat
  BY StreamTypes
<1>6. Reports(s, b, Open(r), follows, success[r], shown[r], passed[b], logs[b])
  <2>1. (follows => success[r]) = success[r] /\ (IF follows THEN shown[r] ELSE 0) = shown[r]
    BY <1>3, <1>5
  <2>2. QED
    BY <1>4, <2>1 DEF Supplied
<1>7. s # <<>> /\ Head(s).Kind = "Final" /\ About(Head(s)) = b
  BY <1>1, <1>2
<1> HIDE DEF s, b, follows
<1>8. (success[r] => passed[b]) /\ shown[r] = logs[b]
  BY <1>2, <1>5, <1>6, <1>7, FinalReports
<1>9. QED
  BY <1>8 DEF b

\* Nobody comes to hear out a build with a verdict in hand: the handler that
\* turns to another build has none.
LEMMA NewlyHeardOut ==
  ASSUME TypeOK, VerdictInv, NEW r \in Requestors, RequestorNext(r),
         NEW o \in Requestors, ~HeardOut(o), HeardOut(o)'
  PROVE  VerdictAgrees(o)'
<1> USE DEF TypeOK, RequestorTypeOK, SinceTypeOK, HeardOut
<1>1. o = r
  BY DEF RequestorNext, SetsOut, RequestorStep, MainGoesOn, Handler, Around, InitQueus,
         SendBuildRequest, ConsumeMessages, ConsumeFails, ReceiveDone, TimeOut, ShutDownPurge,
         ShutDownClose, Crash, BrokerReaps, ConnectionLost, HandleBuild, HandleCancel, HandleLog,
         HandleStatus, HandleFinal, SkipMessage, DeliveriesClosed, MainGoes, requestorVars
<1>2. CASE rpc[r] = "init"
  <2>1. ~HasVerdict(r) /\ rpc'[r] # "select" /\ UNCHANGED outcome
    BY <1>2
       DEF VerdictInv, BeliefsJustified, RequestorNext, RequestorStep, MainGoesOn, Handler, Around,
           InitQueus, SendBuildRequest, ConsumeMessages, ConsumeFails, ReceiveDone, TimeOut,
           ShutDownPurge, ShutDownClose, Crash, BrokerReaps, ConnectionLost, HandleBuild,
           HandleCancel, HandleLog, HandleStatus, HandleFinal, SkipMessage, DeliveriesClosed,
           MainGoes, requestorVars
  <2>2. QED
    BY <1>1, <2>1 DEF VerdictAgrees, HasVerdict
<1>3. CASE rpc[r] # "init"
  <2>1. UNCHANGED since
    BY <1>3 DEF RequestorNext, SetsOut
  <2>2. HandleBuild(r) \/ HandleCancel(r)
    BY <1>1, <2>1
       DEF RequestorNext, RequestorStep, MainGoesOn, Handler, Around, InitQueus,
           SendBuildRequest, ConsumeMessages, ConsumeFails, ReceiveDone, TimeOut, ShutDownPurge,
           ShutDownClose, Crash, BrokerReaps, ConnectionLost, HandleLog, HandleStatus,
           HandleFinal, SkipMessage, DeliveriesClosed, MainGoes, requestorVars
  <2>3. hpc[r] = "loop" /\ UNCHANGED <<hpc, outcome>>
    BY <2>2 DEF HandleBuild, HandleCancel, Handling
  <2>4. ~HasVerdict(r)
    BY <2>3 DEF VerdictInv, BeliefsJustified
  <2>5. QED
    BY <1>1, <2>3, <2>4 DEF VerdictAgrees, HasVerdict
<1>4. QED
  BY <1>2, <1>3

-----------------------------------------------------------------------------
(* The inductive invariant. *)

LEMMA InitPipeline == Init => PipelineInv
<1> SUFFICES ASSUME Init PROVE PipelineInv
  OBVIOUS
<1>1. QueueToItself /\ VerdictComplete
  BY InitDelivery DEF DeliveryInv
<1>2. BegunInv
  <2>1. QueueHolds(Begun)
    BY QueueInitHolds DEF Init
  <2>2. QED
    BY <2>1 DEF Init, WorkerInit, BegunInv, Begun
<1>3. ReportsComeIn
  BY DEF Init, RequestorInit, ReportsComeIn, Expects
<1>4. QED
  BY <1>1, <1>2, <1>3 DEF PipelineInv, VerdictComplete

LEMMA StutterPipeline ==
  ASSUME PipelineInv, UNCHANGED vars
  PROVE  PipelineInv'
<1> USE DEF vars, queueVars, requestorVars, jenkinsVars, workerVars
<1>1. QueueToItself'
  BY DEF PipelineInv, QueueToItself, Present, Starting, Exited, DeclaredQueueSurvives
<1>2. BegunInv'
  BY DEF PipelineInv, BegunInv, QueueHolds
<1>3. ReportsComeIn'
  BY DEF PipelineInv, ReportsComeIn, Expects, Ahead, Supplied, Open, Starting, Stream
<1>4. ASSUME NEW r \in Requestors, HeardOut(r)' PROVE VerdictAgrees(r)'
  BY <1>4 DEF PipelineInv, HeardOut, VerdictAgrees, HasVerdict, Followed
<1>5. QED
  BY <1>1, <1>2, <1>3, <1>4 DEF PipelineInv

\* When no queue is shared, each requestor that waits has before it all that a
\* build begun since it set out has to say that it has not seen: whatever the
\* number of stages, requests, builds and faults.
THEOREM PipelineInvariance == ~SharedQueue => (Spec => []PipelineInv)
<1> SUFFICES ASSUME ~SharedQueue PROVE Spec => []PipelineInv
  OBVIOUS
<1>1. TypeOK /\ NumberingInv /\ VerdictInv /\ PipelineInv /\ [Next]_vars => PipelineInv'
  <2> SUFFICES ASSUME TypeOK, NumberingInv, VerdictInv, PipelineInv, [Next]_vars
               PROVE  PipelineInv'
    OBVIOUS
  <2>1. QueueToItself /\ BegunInv /\ ReportsComeIn
        /\ \A r \in Requestors : HeardOut(r) => VerdictAgrees(r)
    BY DEF PipelineInv
  <2>2. ASSUME NEW b \in Builds, WorkerNext(b) PROVE PipelineInv'
    <3>1. \A d \in finished : wpc[d] \in PublishedAt.Final
      BY <2>1 DEF BegunInv
    <3>2. ASSUME NEW o \in Requestors, HeardOut(o)' PROVE VerdictAgrees(o)'
      <4>1. HeardOut(o)
        BY <2>2, <3>2 DEF WorkerNext, requestorVars, HeardOut
      <4>2. QED
        BY <2>1, <2>2, <3>1, <4>1, WorkerStepVerdictAgrees
    <3>3. QueueToItself'
      BY <2>1, <2>2, WorkerStepQueueToItself
    <3>4. BegunInv'
      BY <2>1, <2>2, WorkerStepBegun
    <3>5. ReportsComeIn'
      BY <2>1, <2>2, WorkerStepReports
    <3>6. QED
      BY <3>2, <3>3, <3>4, <3>5 DEF PipelineInv
  <2>3. ASSUME NEW r \in Requestors, RequestorNext(r) PROVE PipelineInv'
    <3>1. QueueToItself'
      BY <2>1, <2>3, RequestorStepQueueToItself DEF RequestorNext
    <3>2. ASSUME NEW o \in Requestors, HeardOut(o)' PROVE VerdictAgrees(o)'
      <4>1. CASE ~HeardOut(o)
        BY <2>3, <3>2, <4>1, NewlyHeardOut
      <4>2. CASE HeardOut(o)
        <5>1. VerdictAgrees(o)
          BY <2>1, <4>2
        <5>2. o = r /\ HandleFinal(r) /\ rpc[r] = "select" =>
                shown[r] = logs[Followed(r)] /\ (success[r] => passed[Followed(r)])
          BY <2>1, <4>2, HandleFinalReports
        <5>3. QED
          BY <2>3, <5>1, <5>2, RequestorStepVerdictAgrees
      <4>3. QED
        BY <4>1, <4>2
    <3>3. BegunInv'
      BY <2>1, <2>3, RequestorStepBegun
    <3>4. ReportsComeIn'
      BY <2>1, <2>3, RequestorStepReports
    <3>5. QED
      BY <3>1, <3>2, <3>3, <3>4 DEF PipelineInv
  <2>4. QED
    BY <2>2, <2>3, StutterPipeline DEF Next
<1>2. QED
  BY <1>1, InitPipeline, TypeCorrect, NumberingInvariance, VerdictInvariance, PTL DEF Spec

\* A verdict about a build that began after its requestor had declared the
\* queue is the verdict of all its stages, with all their logs, however often
\* the build was replaced, asked for again or cut short.
THEOREM HeardOutVerdictsAreRight == ~SharedQueue => (Spec => []HeardOutVerdicts)
<1>1. VerdictInv /\ PipelineInv => HeardOutVerdicts
  BY DEF VerdictInv, BeliefsJustified, PipelineInv, VerdictAgrees, HasVerdict, HeardOutVerdicts
<1>2. QED
  BY <1>1, PipelineInvariance, VerdictInvariance, PTL

-----------------------------------------------------------------------------
(* A build that is the only one of its project is heard out. *)

LEMMA RequestorStepAsked ==
  ASSUME TypeOK, OneBuildEach, AskedInv, NEW r \in Requestors, RequestorNext(r)
  PROVE  AskedInv'
<1> USE DEF TypeOK, RequestorTypeOK, SendQueueTypeOK
<1>1. UNCHANGED jenkinsVars /\ SetsOut(r)
  BY DEF RequestorNext
<1>2. ASSUME NEW o \in Requestors, rpc'[o] \in {"init", "send"}
      PROVE  requests'[JenkinsProject[o]] = 0 /\ lastBuild'[JenkinsProject[o]] = 0
  <2>1. rpc[o] \in {"init", "send"}
    BY <1>2
       DEF RequestorNext, RequestorStep, MainGoesOn, Handler, Around, InitQueus, SendBuildRequest,
           ConsumeMessages, ConsumeFails, ReceiveDone, TimeOut, ShutDownPurge, ShutDownClose, Crash,
           BrokerReaps, ConnectionLost, HandleBuild, HandleCancel, HandleLog, HandleStatus,
           HandleFinal, SkipMessage, DeliveriesClosed, MainGoes, requestorVars
  <2>2. requests'[JenkinsProject[o]] = requests[JenkinsProject[o]]
    <3>1. CASE SendBuildRequest(r)
      <4>1. o # r
        BY <1>2, <3>1 DEF SendBuildRequest, MainGoes
      <4>2. JenkinsProject[o] # JenkinsProject[r]
        BY <4>1 DEF OneBuildEach
      <4>3. QED
        BY <3>1, <4>2, RequestorAssumption DEF SendBuildRequest, PublishRequest
    <3>2. CASE ~SendBuildRequest(r)
      <4>1. UNCHANGED requests
        BY <3>2
           DEF RequestorNext, RequestorStep, MainGoesOn, Handler, Around, InitQueus,
               ConsumeMessages, ConsumeFails, ReceiveDone, TimeOut, ShutDownPurge, ShutDownClose,
               Crash, BrokerReaps, ConnectionLost, HandleBuild, HandleCancel, HandleLog,
               HandleStatus, HandleFinal, SkipMessage, DeliveriesClosed
      <4>2. QED
        BY <4>1
    <3>3. QED
      BY <3>1, <3>2
  <2>3. QED
    BY <1>1, <2>1, <2>2 DEF AskedInv, jenkinsVars
<1>3. ASSUME NEW o \in Requestors PROVE since'[o] = 0
  BY <1>1 DEF AskedInv, SetsOut, SinceTypeOK
<1>4. QED
  BY <1>2, <1>3 DEF AskedInv

LEMMA WorkerStepAsked ==
  ASSUME TypeOK, AskedInv, NEW b \in Builds, WorkerNext(b)
  PROVE  AskedInv'
<1>1. UNCHANGED requestorVars /\ UNCHANGED since
  BY DEF WorkerNext
<1>2. ASSUME NEW r \in Requestors, rpc'[r] \in {"init", "send"}
      PROVE  requests'[JenkinsProject[r]] = 0 /\ lastBuild'[JenkinsProject[r]] = 0
  <2>1. requests[JenkinsProject[r]] = 0 /\ lastBuild[JenkinsProject[r]] = 0
    BY <1>1, <1>2 DEF AskedInv, requestorVars
  <2>2. CASE TriggerBuild(b) \/ Rebuild(b)
    <3>1. b[1] # JenkinsProject[r]
      BY <2>1, <2>2 DEF TriggerBuild, TakeRequest, Rebuild
    <3>2. QED
      BY <2>1, <2>2, <3>1, RequestorAssumption
         DEF TriggerBuild, TakeRequest, Rebuild, WorkerStarts, StartBuild, TypeOK, SendQueueTypeOK,
             JenkinsTypeOK
  <2>3. CASE ~TriggerBuild(b) /\ ~Rebuild(b)
    <3>1. UNCHANGED <<requests, lastBuild>>
      BY <2>3
         DEF WorkerNext, WorkerStep, Run, RunStep, CheckForNewerBuilds, MoveForward,
             NotMovingForward, CleanupOldBuilds, InitQueues, SendCancelMessage, SendBuildInfo,
             FlushToQueue, RunReturns, RunDone, SendStatusMessage, SendFinalizeMessage, NextStage,
             EndBuild, PollFindsNewer, Stopped, WorkerFails, WorkerGoes, WorkerExits, jenkinsVars
    <3>2. QED
      BY <2>1, <3>1
  <2>4. QED
    BY <2>2, <2>3
<1>3. QED
  BY <1>1, <1>2 DEF AskedInv

LEMMA AskedInvariance == OneBuildEach => (Spec => []AskedInv)
<1> SUFFICES ASSUME OneBuildEach PROVE Spec => []AskedInv
  OBVIOUS
<1>1. Init => AskedInv
  BY RequestorAssumption DEF Init, SendQueueInit, JenkinsInit, AskedInv
<1>2. TypeOK /\ AskedInv /\ [Next]_vars => AskedInv'
  <2> SUFFICES ASSUME TypeOK, AskedInv, [Next]_vars PROVE AskedInv'
    OBVIOUS
  <2>1. UNCHANGED vars => AskedInv'
    BY DEF AskedInv, vars, requestorVars, jenkinsVars
  <2>2. QED
    BY <2>1, RequestorStepAsked, WorkerStepAsked DEF Next
<1>3. QED
  BY <1>1, <1>2, TypeCorrect, PTL DEF Spec

LEMMA OnlyBuildHeardOut ==
  ASSUME TypeOK, OneBuildEach, VerdictInv, AskedInv, PipelineInv
  PROVE  VerdictComplete
<1> SUFFICES ASSUME NEW r \in Requestors, hpc[r] = "sending" \/ HasVerdict(r)
             PROVE  VerdictAgrees(r)
  BY DEF VerdictComplete, VerdictAgrees
<1>1. Followed(r) \in Builds
  BY DEF VerdictInv, BeliefsJustified, TypeOK, WorkerTypeOK
<1>2. BuildNumbers = {1}
  BY DEF OneBuildEach, BuildNumbers
<1>3. jenkinsBuild[r] = 1
  BY <1>1, <1>2 DEF Followed, Builds
<1>4. HeardOut(r)
  BY <1>2, <1>3 DEF HeardOut, AskedInv, TypeOK, RequestorTypeOK
<1>5. QED
  BY <1>4 DEF PipelineInv

LEMMA OnlyBuildVerdicts == ~SharedQueue /\ OneBuildEach => (Spec => []VerdictComplete)
<1>1. TypeOK /\ OneBuildEach /\ VerdictInv /\ AskedInv /\ PipelineInv => VerdictComplete
  BY OnlyBuildHeardOut
<1> SUFFICES ASSUME ~SharedQueue, OneBuildEach PROVE Spec => []VerdictComplete
  OBVIOUS
<1>2. Spec => []AskedInv
  BY AskedInvariance
<1>3. Spec => []PipelineInv
  BY PipelineInvariance
<1>4. TypeOK /\ VerdictInv /\ AskedInv /\ PipelineInv => VerdictComplete
  BY <1>1
<1>5. QED
  BY <1>2, <1>3, <1>4, TypeCorrect, VerdictInvariance, PTL

\* No false success about a pipeline: the failure of any stage decides, and
\* only the last stage ends the request.
THEOREM PipelineVerdictsAreRight == ~SharedQueue /\ OneBuildEach => (Spec => []SafeVerdict)
<1>1. VerdictInv /\ VerdictComplete => SafeVerdict
  BY DEF VerdictInv, BeliefsJustified, VerdictComplete, VerdictAgrees, HasVerdict, SafeVerdict
<1>2. QED
  BY <1>1, OnlyBuildVerdicts, VerdictInvariance, PTL

\* The logs of all stages have been shown by the time of the verdict.
THEOREM PipelineOutputIsComplete == ~SharedQueue /\ OneBuildEach => (Spec => []AllLogsShown)
<1>1. VerdictComplete => AllLogsShown
  BY DEF VerdictComplete, VerdictAgrees, AllLogsShown
<1>2. QED
  BY <1>1, OnlyBuildVerdicts, PTL

\* A request whose build is neither replaced nor asked for again is answered
\* at most once, and with the result of all its stages.
THEOREM PipelineImplements == ~SharedQueue /\ OneBuildEach => (Spec => ImplementsBuildRequest)
<1> SUFFICES ASSUME ~SharedQueue, OneBuildEach PROVE Spec => ImplementsBuildRequest
  OBVIOUS
<1>1. TypeOK /\ VerdictInv /\ PipelineInv /\ VerdictComplete /\ UnansweredInv /\ [Next]_vars
        => [Abstract!Next]_<<KnownTests, outcome>>
  <2>1. PipelineInv => \A d \in finished : wpc[d] \in PublishedAt.Final
    BY DEF PipelineInv, BegunInv
  <2>2. QED
    BY <2>1, StepImplements
<1>2. QED
  BY <1>1, InitImplements, TypeCorrect, VerdictInvariance, PipelineInvariance, OnlyBuildVerdicts,
     UnansweredInvariance, PTL
     DEF Spec, ImplementsBuildRequest, Abstract!Spec, KnownTests, Known

=============================================================================
