------------------------------ MODULE Requestor -----------------------------
(***************************************************************************)
(* `ci-firewall request' (pkg/requestor/requestor.go, and the select of    *)
(* pkg/ci-firewall/cli/requestor/request.go).  Two goroutines: main sends  *)
(* the request and then waits for a verdict or the timeout; the handler    *)
(* reads the receive queue, follows a build and forms the verdict.  They   *)
(* meet on the unbuffered channel done.  A requestor is one process, run   *)
(* once: asking again for the same target is another requestor.            *)
(***************************************************************************)
EXTENDS RcvQueue, SendQueue

CONSTANTS
  JenkinsProject,  \* JenkinsProject[r]: the project r asks for a build of
  SharedQueue,     \* whether requestors with the same queue may overlap
  Faults           \* the faults that may happen, of FaultKinds

FaultKinds == {"crash", "disconnect", "timeout", "abort", "rebuild"}

ASSUME RequestorAssumption ==
  /\ JenkinsProject \in [Requestors -> Projects]
  /\ SharedQueue \in BOOLEAN
  /\ Faults \subseteq FaultKinds

VARIABLES
  rpc,           \* where main is
  hpc,           \* where the handler goroutine is
  jenkinsBuild,  \* number of the build being followed, or NoBuild
  success,       \* the handler's local verdict
  outcome,       \* what main's select got
  announced,     \* history: the newest build whose cancel message was obeyed
  shown          \* history: log messages printed of the build being followed

requestorVars == <<rpc, hpc, jenkinsBuild, success, outcome, announced, shown>>

RequestorTypeOK ==
  /\ rpc \in [Requestors -> {"init", "send", "consume", "select", "purge",
                             "close", "exit0", "exit1"}]
  /\ hpc \in [Requestors -> {"idle", "loop", "sending", "ended"}]
  /\ jenkinsBuild \in [Requestors -> BuildNumbers \union {NoBuild}]
  /\ success \in [Requestors -> BOOLEAN]
  /\ outcome \in [Requestors -> {"none", "passed", "failed", "timedOut"}]
  /\ announced \in [Requestors -> BuildNumbers \union {0}]
  /\ shown \in [Requestors -> Nat]

RequestorInit ==
  /\ rpc = [r \in Requestors |-> "init"]
  /\ hpc = [r \in Requestors |-> "idle"]
  /\ jenkinsBuild = [r \in Requestors |-> NoBuild]
  /\ success = [r \in Requestors |-> TRUE]
  /\ outcome = [r \in Requestors |-> "none"]
  /\ announced = [r \in Requestors |-> 0]
  /\ shown = [r \in Requestors |-> 0]

Exited(r) == rpc[r] \in {"exit0", "exit1"}

\* The build r follows, when there is one.
Followed(r) == <<JenkinsProject[r], jenkinsBuild[r]>>

-----------------------------------------------------------------------------
(* The main goroutine. *)

MainGoes(r, from, to) == rpc[r] = from /\ rpc' = [rpc EXCEPT ![r] = to]

\* Unless queues may be shared, a request for the same target starts only
\* when the broker has seen the last of the requestor before it.
MayStart(r) ==
  SharedQueue \/ \A o \in Requestors \ {r} :
                   o \notin consumers /\ (rpc[o] = "init" \/ Exited(o))

InitQueus(r) ==
  /\ MayStart(r)
  /\ MainGoes(r, "init", "send")
  /\ QueueDeclare
  /\ UNCHANGED <<requests, hpc, jenkinsBuild, success, outcome, announced, shown>>

SendBuildRequest(r) ==
  /\ MainGoes(r, "send", "consume")
  /\ PublishRequest(JenkinsProject[r])
  /\ UNCHANGED <<queueVars, hpc, jenkinsBuild, success, outcome, announced, shown>>

\* Consume starts the handler goroutine, which sets success to true.
ConsumeMessages(r) ==
  /\ MainGoes(r, "consume", "select")
  /\ Consume(r)
  /\ hpc' = [hpc EXCEPT ![r] = "loop"]
  /\ success' = [success EXCEPT ![r] = TRUE]
  /\ UNCHANGED <<requests, jenkinsBuild, outcome, announced, shown>>

\* The queue declared by InitQueus is gone: Consume fails and Run returns it.
ConsumeFails(r) ==
  /\ ~declared
  /\ MainGoes(r, "consume", "exit1")
  /\ UNCHANGED <<queueVars, requests, hpc, jenkinsBuild, success, outcome, announced, shown>>

\* Mutant of ReceiveDone: the handler goes on reading, as it does after its
\* sends on done that no return follows.
ReceiveDoneAndReadOn(r) ==
  /\ MainGoes(r, "select", "purge")
  /\ hpc[r] = "sending"
  /\ hpc' = [hpc EXCEPT ![r] = "loop"]
  /\ outcome' = [outcome EXCEPT ![r] = IF success[r] THEN "passed" ELSE "failed"]
  /\ UNCHANGED <<queueVars, requests, jenkinsBuild, success, announced, shown>>

\* done := <-ro.requestor.Done(), which lets the handler goroutine return.
ReceiveDone(r) ==
  /\ MainGoes(r, "select", "purge")
  /\ hpc[r] = "sending"
  /\ hpc' = [hpc EXCEPT ![r] = "ended"]
  /\ outcome' = [outcome EXCEPT ![r] = IF success[r] THEN "passed" ELSE "failed"]
  /\ UNCHANGED <<queueVars, requests, jenkinsBuild, success, announced, shown>>

\* Mutant of TimeOut: it fires behind a verdict.
TimeOutLate(r) ==
  /\ "timeout" \in Faults
  /\ rpc[r] \in {"select", "purge"}
  /\ rpc' = [rpc EXCEPT ![r] = "purge"]
  /\ outcome' = [outcome EXCEPT ![r] = "timedOut"]
  /\ UNCHANGED <<queueVars, requests, hpc, jenkinsBuild, success, announced, shown>>

\* <-time.After(ro.timeout): the handler goroutine is left running.
TimeOut(r) ==
  /\ "timeout" \in Faults
  /\ MainGoes(r, "select", "purge")
  /\ outcome' = [outcome EXCEPT ![r] = "timedOut"]
  /\ UNCHANGED <<queueVars, requests, hpc, jenkinsBuild, success, announced, shown>>

\* ShutDown, first half: the send queue is closed and the receive queue
\* purged; a purge over a lost connection fails and is only logged.
ShutDownPurge(r) ==
  /\ MainGoes(r, "purge", "close")
  /\ IF r \in consumers THEN QueuePurge ELSE UNCHANGED queueVars
  /\ UNCHANGED <<requests, hpc, jenkinsBuild, success, outcome, announced, shown>>

\* ShutDown, second half: close the channel and the connection, and exit; a
\* channel whose connection was lost cannot be closed, which is an error.
ShutDownClose(r) ==
  /\ rpc[r] = "close"
  /\ rpc' = [rpc EXCEPT ![r] =
               IF outcome[r] = "passed" /\ r \in consumers THEN "exit0" ELSE "exit1"]
  /\ ChannelClosed(r, <<>>)
  /\ hpc' = [hpc EXCEPT ![r] = "ended"]
  /\ UNCHANGED <<requests, jenkinsBuild, success, outcome, announced, shown>>

\* The process ends at any point: killed, or an error returned by Run or
\* ShutDown.  Nothing is closed; BrokerReaps follows.
Crash(r) ==
  /\ "crash" \in Faults
  /\ ~Exited(r)
  /\ rpc' = [rpc EXCEPT ![r] = "exit1"]
  /\ hpc' = [hpc EXCEPT ![r] = "ended"]
  /\ UNCHANGED <<queueVars, requests, jenkinsBuild, success, outcome, announced, shown>>

\* The broker notices that the process behind a consumer is gone.
BrokerReaps(r) ==
  /\ Exited(r)
  /\ r \in consumers
  /\ ChannelClosed(r, <<>>)
  /\ UNCHANGED <<requests, requestorVars>>

\* The connection drops under a running requestor; nothing reconnects it.
ConnectionLost(r) ==
  /\ "disconnect" \in Faults
  /\ ~Exited(r)
  /\ r \in consumers
  /\ ChannelClosed(r, inbox[r])
  /\ UNCHANGED <<requests, requestorVars>>

-----------------------------------------------------------------------------
(* The handler goroutine: one action per branch of its loop body, each      *)
(* with the acknowledgement at the end of the body.                         *)

Handling(r) == hpc[r] = "loop" /\ inbox[r] # <<>>

Mine(r) == Head(inbox[r]).JenkinsProject = JenkinsProject[r]

\* Mutant of Newer: a build that is followed is not replaced.
FirstOnly(r) == Mine(r) /\ jenkinsBuild[r] = NoBuild

Newer(r) == Mine(r) /\ Head(inbox[r]).Build > jenkinsBuild[r]

\* Mutants of Current: the build number is not compared; or is not while no
\* build is followed.
CurrentOfAnyBuild(r) == Mine(r)
CurrentOrNone(r) == Mine(r) /\ jenkinsBuild[r] \in {Head(inbox[r]).Build, NoBuild}

Current(r) == Mine(r) /\ Head(inbox[r]).Build = jenkinsBuild[r]

Is(r, kind) == Head(inbox[r]).Kind = kind

HandleBuild(r) ==
  /\ Handling(r) /\ Newer(r) /\ Is(r, "Build")
  /\ jenkinsBuild' = [jenkinsBuild EXCEPT ![r] = Head(inbox[r]).Build]
  /\ shown' = [shown EXCEPT ![r] = 0]
  /\ Ack(r)
  /\ UNCHANGED <<requests, rpc, hpc, success, outcome, announced>>

\* Mutant of HandleCancel: no build is number 0.
HandleCancelToZero(r) ==
  /\ Handling(r) /\ Newer(r) /\ Is(r, "Cancel")
  /\ jenkinsBuild' = [jenkinsBuild EXCEPT ![r] = 0]
  /\ success' = [success EXCEPT ![r] = TRUE]
  /\ announced' = [announced EXCEPT ![r] =
                     IF Head(inbox[r]).Build > @ THEN Head(inbox[r]).Build ELSE @]
  /\ Ack(r)
  /\ UNCHANGED <<requests, rpc, hpc, outcome, shown>>

\* A cancel message makes the requestor forget the build and its verdict.
HandleCancel(r) ==
  /\ Handling(r) /\ Newer(r) /\ Is(r, "Cancel")
  /\ jenkinsBuild' = [jenkinsBuild EXCEPT ![r] = NoBuild]
  /\ success' = [success EXCEPT ![r] = TRUE]
  /\ announced' = [announced EXCEPT ![r] =
                     IF Head(inbox[r]).Build > @ THEN Head(inbox[r]).Build ELSE @]
  /\ Ack(r)
  /\ UNCHANGED <<requests, rpc, hpc, outcome, shown>>

HandleLog(r) ==
  /\ Handling(r) /\ Current(r) /\ Is(r, "Log")
  /\ shown' = [shown EXCEPT ![r] = @ + 1]
  /\ Ack(r)
  /\ UNCHANGED <<requests, rpc, hpc, jenkinsBuild, success, outcome, announced>>

\* Mutant of HandleStatus: the last status wins.
HandleLastStatus(r) ==
  /\ Handling(r) /\ Current(r) /\ Is(r, "Status")
  /\ success' = [success EXCEPT ![r] = Head(inbox[r]).Success]
  /\ Ack(r)
  /\ UNCHANGED <<requests, rpc, hpc, jenkinsBuild, outcome, announced, shown>>

\* A failure is sticky: later stages of the build cannot undo it.
HandleStatus(r) ==
  /\ Handling(r) /\ Current(r) /\ Is(r, "Status")
  /\ success' = [success EXCEPT ![r] = @ /\ Head(inbox[r]).Success]
  /\ Ack(r)
  /\ UNCHANGED <<requests, rpc, hpc, jenkinsBuild, outcome, announced, shown>>

\* The final message ends the loop before its acknowledgement: the handler
\* blocks on done until main takes the verdict, or for ever.
HandleFinal(r) ==
  /\ Handling(r) /\ Current(r) /\ Is(r, "Final")
  /\ hpc' = [hpc EXCEPT ![r] = "sending"]
  /\ UNCHANGED <<queueVars, requests, rpc, jenkinsBuild, success, outcome, announced, shown>>

SkipMessage(r) ==
  /\ Handling(r)
  /\ ~(Newer(r) /\ (Is(r, "Build") \/ Is(r, "Cancel")))
  /\ ~(Current(r) /\ (Is(r, "Log") \/ Is(r, "Status") \/ Is(r, "Final")))
  /\ Ack(r)
  /\ UNCHANGED <<requests, requestorVars>>

\* Mutants of DeliveriesClosed: the end of the loop is taken for a verdict,
\* whatever it is so far, or for a failure.
DeliveriesClosedVerdict(r) ==
  /\ hpc[r] = "loop"
  /\ r \notin consumers
  /\ hpc' = [hpc EXCEPT ![r] = "sending"]
  /\ UNCHANGED <<queueVars, requests, rpc, jenkinsBuild, success, outcome, announced, shown>>

DeliveriesClosedFailure(r) ==
  /\ hpc[r] = "loop"
  /\ r \notin consumers
  /\ hpc' = [hpc EXCEPT ![r] = "sending"]
  /\ success' = [success EXCEPT ![r] = FALSE]
  /\ UNCHANGED <<queueVars, requests, rpc, jenkinsBuild, outcome, announced, shown>>

\* The deliveries channel is closed: the loop ends, whether or not the
\* deliveries still buffered in the client were read, and sends no verdict.
DeliveriesClosed(r) ==
  /\ hpc[r] = "loop"
  /\ r \notin consumers
  /\ hpc' = [hpc EXCEPT ![r] = "ended"]
  /\ UNCHANGED <<queueVars, requests, rpc, jenkinsBuild, success, outcome, announced, shown>>

Handler(r) ==
  \/ HandleBuild(r) \/ HandleCancel(r) \/ HandleLog(r)
  \/ HandleStatus(r) \/ HandleFinal(r) \/ SkipMessage(r)
  \/ DeliveriesClosed(r)

\* What main does once it has decided to ask for a build.
MainGoesOn(r) ==
  \/ SendBuildRequest(r) \/ ConsumeMessages(r) \/ ConsumeFails(r) \/ ReceiveDone(r)
  \/ TimeOut(r) \/ ShutDownPurge(r) \/ ShutDownClose(r)

\* What the broker and the environment do to a requestor.
Around(r) ==
  \/ Deliver(r) /\ UNCHANGED <<requests, requestorVars>>
  \/ Crash(r) \/ BrokerReaps(r) \/ ConnectionLost(r)

RequestorStep(r) == InitQueus(r) \/ MainGoesOn(r) \/ Handler(r) \/ Around(r)

=============================================================================
