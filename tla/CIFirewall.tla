----------------------------- MODULE CIFirewall -----------------------------
(***************************************************************************)
(* Requestors, the receive queue, Jenkins and the workers of its builds,   *)
(* together: from a build request to the verdict its requestor reports.    *)
(***************************************************************************)
EXTENDS Requestor, Worker

VARIABLE
  since   \* history: the newest build of its project when r declared its queue

vars == <<queueVars, requests, requestorVars, jenkinsVars, workerVars, since>>

SinceTypeOK == since \in [Requestors -> BuildNumbers \union {0}]

TypeOK ==
  /\ QueueTypeOK
  /\ SendQueueTypeOK
  /\ RequestorTypeOK
  /\ JenkinsTypeOK
  /\ WorkerTypeOK
  /\ SinceTypeOK

Init ==
  /\ QueueInit
  /\ SendQueueInit
  /\ RequestorInit
  /\ JenkinsInit
  /\ WorkerInit
  /\ since = [r \in Requestors |-> 0]

\* What a step of r adds to the history: InitQueus is the first.
SetsOut(r) ==
  since' = [since EXCEPT ![r] = IF rpc[r] = "init" THEN lastBuild[JenkinsProject[r]] ELSE @]

RequestorNext(r) == RequestorStep(r) /\ SetsOut(r) /\ UNCHANGED <<jenkinsVars, workerVars>>

WorkerNext(b) ==
  /\ \/ WorkerStep(b)
     \/ "abort" \in Faults /\ \E stopped \in SUBSET running : WorkerFails(b, stopped)
     \/ "rebuild" \in Faults /\ Rebuild(b)
  /\ UNCHANGED <<requestorVars, since>>

Next ==
  \/ \E r \in Requestors : RequestorNext(r)
  \/ \E b \in Builds : WorkerNext(b)

Spec == Init /\ [][Next]_vars

-----------------------------------------------------------------------------
(* Fairness: goroutines are scheduled, the broker delivers and notices dead *)
(* consumers, Jenkins starts requested builds and stops those it was asked  *)
(* to stop.  Nobody is obliged to ask for a build, to rebuild or to fail,   *)
(* and the tests may hang.                                                  *)

Fairness ==
  /\ \A r \in Requestors :
       /\ WF_vars(MainGoesOn(r) /\ UNCHANGED <<jenkinsVars, workerVars, since>>)
       /\ WF_vars(Handler(r) /\ UNCHANGED <<jenkinsVars, workerVars, since>>)
       /\ WF_vars(Deliver(r) /\ UNCHANGED <<requests, requestorVars, jenkinsVars, workerVars, since>>)
       /\ WF_vars(BrokerReaps(r) /\ UNCHANGED <<jenkinsVars, workerVars, since>>)
  /\ \A b \in Builds :
       /\ WF_vars(RunStep(b) /\ UNCHANGED <<requestorVars, since>>)
       /\ WF_vars(PollFindsNewer(b) /\ UNCHANGED <<requestorVars, since>>)
       /\ WF_vars(Stopped(b) /\ UNCHANGED <<requestorVars, since>>)
       /\ WF_vars(TriggerBuild(b) /\ UNCHANGED <<requestorVars, since>>)

FairSpec == Spec /\ Fairness

\* The tests of every build come to an end: no part of the fairness, since tests
\* may hang, but what RequestAnswered presumes.
TestsEnd == \A b \in Builds : WF_vars(RunReturns(b) /\ UNCHANGED <<requestorVars, since>>)

-----------------------------------------------------------------------------
(* Safety. *)

HasVerdict(r) == outcome[r] \in {"passed", "failed"}

\* No false success: a request reported as passed followed a build that ran
\* to its end and none of whose stages failed (HandleStatus, HandleFinal,
\* and the FIFO order of the receive queue they rely on).
SafeVerdict ==
  \A r \in Requestors :
    outcome[r] = "passed" => Followed(r) \in finished /\ passed[Followed(r)]

\* A verdict, of either kind, comes from a build of the requested project
\* that published its final message, however messages were dealt out,
\* redelivered or lost.
VerdictFromFinishedBuild ==
  \A r \in Requestors : HasVerdict(r) => Followed(r) \in finished

SomeBuildFailed(r) == \E n \in BuildNumbers : ~passed[<<JenkinsProject[r], n>>]

\* A reported failure is the failure of some build of the project: neither
\* a lost message nor a cancelled build makes one up.
FailureHasCause == \A r \in Requestors : outcome[r] = "failed" => SomeBuildFailed(r)

\* A verdict is preceded by all the log messages of the build it is about.
AllLogsShown ==
  \A r \in Requestors : HasVerdict(r) => shown[r] = logs[Followed(r)]

\* r follows a build that began after r had declared its queue, and did not
\* come back to it from the cancel message of a newer one.
HeardOut(r) == jenkinsBuild[r] > since[r] /\ jenkinsBuild[r] >= announced[r]

\* A verdict about such a build is the whole of it, however many stages it
\* has and whatever builds were there before or are beside it: all its logs
\* have been shown, and a success is a success of all its stages.
HeardOutVerdicts ==
  \A r \in Requestors : HasVerdict(r) /\ HeardOut(r) =>
    /\ shown[r] = logs[Followed(r)]
    /\ outcome[r] = "passed" => Followed(r) \in finished /\ passed[Followed(r)]

\* Once the cancel message of a build has been obeyed, no older build is
\* followed (sendCancelMessage: "in order to ensure requester stops
\* following any older builds").
NeverFallsBack ==
  \A r \in Requestors : jenkinsBuild[r] # NoBuild => jenkinsBuild[r] >= announced[r]

\* The newest build of a project is never stopped on behalf of another, nor
\* does it stop itself: two builds of one request cannot end each other.
NewestIsLeftAlone ==
  \A b \in Builds : b \in stopping \/ wpc[b] = "replaced" => b[2] < lastBuild[b[1]]

\* The inductive invariant behind it: Jenkins has numbered the builds it ran.
NumberingInv ==
  \A b \in Builds :
    /\ b \in running \/ wpc[b] # "none" => Started(b)
    /\ b \in stopping \/ wpc[b] = "replaced" => b[2] < lastBuild[b[1]]

\* The receive queue that InitQueus declared is there when Consume needs it,
\* though it is deleted as soon as another consumer leaves.
DeclaredQueueSurvives ==
  \A r \in Requestors : rpc[r] \in {"send", "consume"} => declared

-----------------------------------------------------------------------------
(* Why the verdicts are right when messages go anywhere: what is on its way *)
(* is true, and what a requestor believes it was told.                      *)

About(m) == <<m.JenkinsProject, m.Build>>

\* The messages that say nothing false: a final message is about a build
\* that finished, a failed status about one that failed.
Truthful ==
  {m \in Message : /\ m.Kind = "Final" => About(m) \in finished
                   /\ m.Kind = "Status" /\ ~m.Success => ~passed[About(m)]}

\* The handler's memory and main's outcome agree with what the builds did,
\* and no handler runs on behind a verdict (HandleBuild would replace the
\* build the verdict is about).
BeliefsJustified ==
  \A r \in Requestors :
    /\ hpc[r] = "sending" \/ HasVerdict(r) => Followed(r) \in finished
    /\ HasVerdict(r) => hpc[r] = "ended" /\ rpc[r] \notin {"init", "send", "consume"}
    /\ ~success[r] \/ outcome[r] = "failed" => SomeBuildFailed(r)

\* The inductive invariant, beside TypeOK.
VerdictInv == QueueHolds(Truthful) /\ BeliefsJustified

-----------------------------------------------------------------------------
(* Liveness. *)

\* When nothing fails and tests end, a request gets a verdict rather than a
\* timeout, even if its build is replaced by a newer one.
RequestAnswered == TestsEnd => \A r \in Requestors : rpc[r] = "select" ~> HasVerdict(r)

\* A build for which there is a newer one of the same request ends, even if
\* its tests hang (checkForNewerBuilds, cleanupOldBuilds).
OldBuildEnds ==
  \A b \in Builds : wpc[b] # "none" /\ b[2] < lastBuild[b[1]] ~> wpc[b] = "exited"

-----------------------------------------------------------------------------
(* The system implements BuildRequest: a build is known to have failed with *)
(* its first failed status, and to have passed with its final message.      *)

Abstract == INSTANCE BuildRequest WITH
  Candidates <- [r \in Requestors |-> {b \in Builds : b[1] = JenkinsProject[r]}],
  tested <- [b \in Builds |-> IF ~passed[b] THEN "failed"
                              ELSE IF b \in finished THEN "passed" ELSE "pending"],
  answer <- outcome

\* Every behaviour of the system is one BuildRequest allows.
ImplementsBuildRequest == Abstract!Spec

=============================================================================
