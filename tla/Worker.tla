------------------------------- MODULE Worker -------------------------------
(***************************************************************************)
(* `ci-firewall work' inside a Jenkins build: Worker.Run of                *)
(* pkg/worker/worker.go, as far as Jenkins and the requestor can see it.   *)
(* What happens between the build message and the status is log messages   *)
(* and a result.  A build may run the worker several times, one after the  *)
(* other, as the stages of a pipeline: only the last has the final flag.   *)
(***************************************************************************)
EXTENDS RcvQueue, Jenkins

CONSTANTS
  Stages,    \* how many times a build runs the worker
  MaxLogs    \* bound: log messages of one stage

ASSUME WorkerAssumption == Stages \in Nat \ {0} /\ MaxLogs \in Nat

VARIABLES
  wpc,        \* where the worker of a build is
  stage,      \* which stage of the build it is
  result,     \* success, in Run
  logs,       \* history: log messages of the build so far
  passed,     \* history: no status message so far said failure
  finished    \* history: the builds that published the final message

workerVars == <<wpc, stage, result, logs, passed, finished>>

WorkerTypeOK ==
  /\ wpc \in [Builds -> {"none", "check", "checked", "replaced", "cleanup", "connect", "cancel",
                         "build", "run", "status", "final", "shutdown", "exited"}]
  /\ stage \in [Builds -> 1 .. Stages]
  /\ result \in [Builds -> BOOLEAN]
  /\ logs \in [Builds -> 0 .. MaxLogs]
  /\ passed \in [Builds -> BOOLEAN]
  /\ finished \in SUBSET Builds

WorkerInit ==
  /\ wpc = [b \in Builds |-> "none"]
  /\ stage = [b \in Builds |-> 1]
  /\ result = [b \in Builds |-> FALSE]
  /\ logs = [b \in Builds |-> 0]
  /\ passed = [b \in Builds |-> TRUE]
  /\ finished = {}

\* The worker of b goes on, inside its process.
WorkerGoes(b, from, to) ==
  /\ wpc[b] = from
  /\ wpc' = [wpc EXCEPT ![b] = to]
  /\ UNCHANGED <<requests, jenkinsVars>>

\* The process of b, and with it its variables and the build, ends.
WorkerExits(b) ==
  /\ wpc' = [wpc EXCEPT ![b] = "exited"]
  /\ result' = [result EXCEPT ![b] = FALSE]
  /\ running' = running \ {b}
  /\ UNCHANGED <<requests, lastBuild, stopping>>

-----------------------------------------------------------------------------
(* Worker.Run, step by step. *)

\* The builds are listed; Run acts on the answer twenty seconds later.
CheckForNewerBuilds(b) ==
  /\ wpc[b] = "check"
  /\ wpc' = [wpc EXCEPT ![b] = IF NewerBuildsExist(b) THEN "replaced" ELSE "checked"]
  /\ UNCHANGED <<queueVars, requests, jenkinsVars, stage, result, logs, passed, finished>>

MoveForward(b) ==
  /\ WorkerGoes(b, "checked", "cleanup")
  /\ UNCHANGED <<queueVars, stage, result, logs, passed, finished>>

NotMovingForward(b) ==
  /\ wpc[b] = "replaced"
  /\ WorkerExits(b)
  /\ UNCHANGED <<queueVars, stage, logs, passed, finished>>

CleanupOldBuilds(b) ==
  /\ wpc[b] = "cleanup"
  /\ wpc' = [wpc EXCEPT ![b] = "connect"]
  /\ stopping' = stopping \union OldBuilds(b)
  /\ UNCHANGED <<queueVars, requests, lastBuild, running, stage, result, logs, passed, finished>>

InitQueues(b) ==
  /\ WorkerGoes(b, "connect", "cancel")
  /\ QueueDeclare
  /\ UNCHANGED <<stage, result, logs, passed, finished>>

SendCancelMessage(b) ==
  /\ WorkerGoes(b, "cancel", "build")
  /\ Publish(NewCancelMessage(b))
  /\ UNCHANGED <<stage, result, logs, passed, finished>>

SendBuildInfo(b) ==
  /\ WorkerGoes(b, "build", "run")
  /\ Publish(NewBuildMessage(b))
  /\ UNCHANGED <<stage, result, logs, passed, finished>>

\* Mutant of FlushToQueue: the buffer is flushed behind the final message too.
FlushAnytime(b) ==
  /\ wpc[b] \in {"run", "status", "final", "shutdown"}
  /\ logs[b] < MaxLogs
  /\ logs' = [logs EXCEPT ![b] = @ + 1]
  /\ Publish(NewLogsMessage(b))
  /\ UNCHANGED <<requests, jenkinsVars, wpc, stage, result, passed, finished>>

\* One flush of the print stream buffer while the commands run.
FlushToQueue(b) ==
  /\ wpc[b] = "run"
  /\ logs[b] < MaxLogs
  /\ logs' = [logs EXCEPT ![b] = @ + 1]
  /\ Publish(NewLogsMessage(b))
  /\ UNCHANGED <<requests, jenkinsVars, wpc, stage, result, passed, finished>>

\* run() returns without an error.
RunDone(b, ok) ==
  /\ WorkerGoes(b, "run", "status")
  /\ result' = [result EXCEPT ![b] = ok]
  /\ UNCHANGED <<queueVars, stage, logs, passed, finished>>

SendStatusMessage(b) ==
  /\ WorkerGoes(b, "status", "final")
  /\ Publish(NewStatusMessage(b, result[b]))
  /\ passed' = [passed EXCEPT ![b] = @ /\ result[b]]
  /\ UNCHANGED <<stage, result, logs, finished>>

\* Mutant of SendFinalizeMessage: every stage is taken for the last.
SendFinalAlways(b) ==
  /\ WorkerGoes(b, "final", "shutdown")
  /\ Publish(NewFinalMessage(b))
  /\ finished' = finished \union {b}
  /\ UNCHANGED <<stage, result, logs, passed>>

SendFinalizeMessage(b) ==
  /\ WorkerGoes(b, "final", "shutdown")
  /\ IF stage[b] = Stages
     THEN Publish(NewFinalMessage(b)) /\ finished' = finished \union {b}
     ELSE UNCHANGED <<queueVars, finished>>
  /\ UNCHANGED <<stage, result, logs, passed>>

\* Shutdown closes the channel of a process that consumes nothing.  Jenkins
\* then runs the next stage, or ends the build: after the last stage, or
\* because a stage whose tests failed exits with an error.
NextStage(b) ==
  /\ stage[b] < Stages
  /\ WorkerGoes(b, "shutdown", "check")
  /\ stage' = [stage EXCEPT ![b] = @ + 1]
  /\ UNCHANGED <<queueVars, result, logs, passed, finished>>

\* Mutant of EndBuild: Shutdown takes the receive queue with it.
EndBuildAndQueue(b) ==
  /\ wpc[b] = "shutdown"
  /\ stage[b] = Stages \/ ~result[b]
  /\ WorkerExits(b)
  /\ declared' = FALSE
  /\ ready' = <<>>
  /\ UNCHANGED <<consumers, inbox, stage, logs, passed, finished>>

EndBuild(b) ==
  /\ wpc[b] = "shutdown"
  /\ stage[b] = Stages \/ ~result[b]
  /\ WorkerExits(b)
  /\ UNCHANGED <<queueVars, stage, logs, passed, finished>>

-----------------------------------------------------------------------------
(* What ends a worker early.  None of it publishes anything. *)

\* The goroutine Run starts after the first check: log.Fatalf.
PollFindsNewer(b) ==
  /\ wpc[b] \in {"cleanup", "connect", "cancel", "build", "run", "status", "final", "shutdown"}
  /\ NewerBuildsExist(b)
  /\ WorkerExits(b)
  /\ UNCHANGED <<queueVars, stage, logs, passed, finished>>

\* Jenkins gets round to stopping the build.
Stopped(b) ==
  /\ b \in stopping \intersect running
  /\ WorkerExits(b)
  /\ UNCHANGED <<queueVars, stage, logs, passed, finished>>

\* An error is returned by a step of Run, or the process dies.  A cleanup
\* that fails has stopped some of the old builds.
WorkerFails(b, stopped) ==
  /\ wpc[b] \notin {"none", "exited"}
  /\ stopped \subseteq (IF wpc[b] = "cleanup" THEN OldBuilds(b) ELSE {})
  /\ wpc' = [wpc EXCEPT ![b] = "exited"]
  /\ result' = [result EXCEPT ![b] = FALSE]
  /\ running' = running \ {b}
  /\ stopping' = stopping \union stopped
  /\ UNCHANGED <<queueVars, requests, lastBuild, stage, logs, passed, finished>>

\* Jenkins starts b with the first stage of the worker.
WorkerStarts(b) ==
  /\ StartBuild(b)
  /\ wpc' = [wpc EXCEPT ![b] = "check"]
  /\ UNCHANGED <<queueVars, stage, result, logs, passed, finished>>

\* The trigger takes a request from the send queue.
TriggerBuild(b) == WorkerStarts(b) /\ TakeRequest(b[1])

\* Somebody has Jenkins build once more with the parameters of an old build.
Rebuild(b) ==
  /\ lastBuild[b[1]] > 0
  /\ WorkerStarts(b)
  /\ UNCHANGED requests

RunReturns(b) == \E ok \in BOOLEAN : RunDone(b, ok)

\* The steps of Run that wait for nothing but Jenkins and the broker.
RunStep(b) ==
  \/ CheckForNewerBuilds(b) \/ MoveForward(b) \/ NotMovingForward(b)
  \/ CleanupOldBuilds(b) \/ InitQueues(b) \/ SendCancelMessage(b) \/ SendBuildInfo(b)
  \/ SendStatusMessage(b) \/ SendFinalizeMessage(b) \/ NextStage(b) \/ EndBuild(b)

Run(b) == RunStep(b) \/ FlushToQueue(b) \/ RunReturns(b)

WorkerStep(b) ==
  \/ Run(b) \/ PollFindsNewer(b) \/ Stopped(b) \/ TriggerBuild(b)

=============================================================================
