------------------------------ MODULE Delivery ------------------------------
(***************************************************************************)
(* Why a verdict of CIFirewall is complete when each requestor has the     *)
(* receive queue to itself.  When a build has one stage, its messages are  *)
(* in the order of Worker.Run, and a requestor that has the build message  *)
(* gets all that comes behind it.  When it has several, a requestor whose  *)
(* build is the only one gets all of its messages from the first on.       *)
(***************************************************************************)
EXTENDS CIFirewall, FiniteSets

-----------------------------------------------------------------------------
(* The queue belongs to one requestor at a time. *)

\* A requestor is there until it has exited and the broker has noticed.
Present(r) == (rpc[r] # "init" /\ ~Exited(r)) \/ r \in consumers

Starting(r) == rpc[r] \in {"init", "send", "consume"}

QueueToItself ==
  /\ \A r, o \in Requestors : Present(r) /\ Present(o) => r = o
  /\ consumers # {} \/ ready # <<>> => declared
  /\ \A r \in Requestors : Starting(r) =>
       hpc[r] = "idle" /\ jenkinsBuild[r] = NoBuild /\ r \notin consumers /\ inbox[r] = <<>>
  /\ DeclaredQueueSurvives

-----------------------------------------------------------------------------
(* The worker's side: what it has published, given where it is. *)

\* Where the worker of a build is when a message of a kind is on its way.
PublishedAt ==
  [Cancel |-> {"build", "run", "status", "final", "shutdown", "exited"},
   Build  |-> {"run", "status", "final", "shutdown", "exited"},
   Log    |-> {"run", "status", "final", "shutdown", "exited"},
   Status |-> {"final", "shutdown", "exited"},
   Final  |-> {"shutdown", "exited"}]

Said == {m \in Message : wpc[About(m)] \in PublishedAt[m.Kind]}

\* A worker that has yet to announce its build has logged nothing, and one
\* that has yet to publish its status has not failed.
HistoryInv ==
  \A b \in Builds :
    /\ wpc[b] \notin PublishedAt.Build => logs[b] = 0
    /\ wpc[b] \notin PublishedAt.Status => passed[b]
    /\ b \in finished => wpc[b] \in PublishedAt.Final

-----------------------------------------------------------------------------
(* What is in a sequence s of messages for one who reads it to its end. *)

\* What one build may publish behind a message of a kind.
Behind ==
  [Cancel |-> {"Build", "Log", "Status", "Final"},
   Build  |-> {"Log", "Status", "Final"},
   Log    |-> {"Log", "Status", "Final"},
   Status |-> {"Final"},
   Final  |-> {}]

InOrder(s) ==
  \A i, j \in 1 .. Len(s) :
    i < j /\ About(s[i]) = About(s[j]) => s[j].Kind \in Behind[s[i].Kind]

Carries(s, kind, b) == \E i \in 1 .. Len(s) : s[i].Kind = kind /\ About(s[i]) = b

CarriesFailure(s, b) ==
  \E i \in 1 .. Len(s) : s[i].Kind = "Status" /\ About(s[i]) = b /\ ~s[i].Success

LogsIn(s, b) == {i \in 1 .. Len(s) : s[i].Kind = "Log" /\ About(s[i]) = b}

\* Who follows b, with verdict ok and n logs so far, comes by way of s to
\* the truth about b: that it won, if so, and how many lines it logged.
Tells(s, b, ok, n, won, lines) ==
  /\ ok /\ ~CarriesFailure(s, b) => won
  /\ n + Cardinality(LogsIn(s, b)) = lines

\* The same of whom s may make follow b, and of f, which is followed.  When
\* the reader is cut off from what comes behind s, not open, it is said only
\* of builds whose final message is in s.
Informs(s, open, f, ok, n, won, lines) ==
  /\ InOrder(s)
  /\ \A b \in Builds : open \/ Carries(s, "Final", b) =>
       /\ Carries(s, "Build", b) => Tells(s, b, TRUE, 0, won[b], lines[b])
       /\ b = f => Tells(s, b, ok, n, won[b], lines[b])

-----------------------------------------------------------------------------
(* The requestor's side. *)

\* Whether r gets what is published from now on.
Open(r) == r \in consumers \/ Starting(r)

\* The messages before r's handler.
Stream(r) == IF Open(r) THEN inbox[r] \o ready ELSE inbox[r]

\* Until r has its verdict, or gives up.
Listens(r) == Starting(r) \/ (rpc[r] = "select" /\ hpc[r] = "loop")

StreamsTell ==
  \A r \in Requestors : Listens(r) =>
    Informs(Stream(r), Open(r), Followed(r), success[r], shown[r], passed, logs)

\* A verdict that main has, or waits to take, agrees with the build.
VerdictAgrees(r) ==
  /\ rpc[r] = "select" /\ hpc[r] = "sending" =>
       shown[r] = logs[Followed(r)] /\ (success[r] => passed[Followed(r)])
  /\ HasVerdict(r) =>
       shown[r] = logs[Followed(r)] /\ (outcome[r] = "passed" => passed[Followed(r)])

VerdictComplete == \A r \in Requestors : VerdictAgrees(r)

\* The inductive invariant, beside TypeOK, NumberingInv and VerdictInv: what
\* makes SafeVerdict and AllLogsShown true of the whole system.
DeliveryInv ==
  /\ QueueToItself
  /\ QueueHolds(Said)
  /\ HistoryInv
  /\ StreamsTell
  /\ VerdictComplete

-----------------------------------------------------------------------------
(* Builds of any number of stages: verdicts about a build that began after   *)
(* its requestor had declared the queue.                                     *)

\* There is nothing of a build before it begins, and no stage of it behind its
\* final message.
BegunInv ==
  /\ \A b \in Builds : wpc[b] = "none" => logs[b] = 0 /\ passed[b]
  /\ QueueHolds({m \in Message : wpc[About(m)] # "none"})
  /\ \A b \in finished : wpc[b] \in PublishedAt.Final /\ stage[b] = Stages

\* The first log, status or final message of b is behind a build message.
Announces(s, b) ==
  \A j \in 1 .. Len(s) : About(s[j]) = b /\ s[j].Kind \in {"Log", "Status", "Final"} =>
    \E i \in 1 .. j : About(s[i]) = b /\ s[i].Kind = "Build"

FinalIsLast(s, b) ==
  \A i, j \in 1 .. Len(s) : i < j /\ About(s[i]) = b /\ About(s[j]) = b => s[i].Kind # "Final"

\* Whether r waits for messages of the build that it has set out to ask for.
Expects(r) == rpc[r] \in {"send", "consume"} \/ (rpc[r] = "select" /\ hpc[r] = "loop")

\* What s has for one who saw all the messages of b before s: follows says
\* whether there was a build message among them.
Reports(s, b, open, follows, ok, n, won, lines) ==
  /\ FinalIsLast(s, b)
  /\ ~follows => Announces(s, b) /\ ok /\ n = 0
  /\ open \/ Carries(s, "Final", b) => Tells(s, b, ok, n, won, lines)

\* The builds that r may yet report on having heard all of them: it follows
\* one of them, or may come to.
Ahead(r) ==
  {b \in Builds : /\ b[1] = JenkinsProject[r]
                  /\ b[2] > since[r] /\ b[2] >= announced[r] /\ b[2] >= jenkinsBuild[r]}

\* r gets all of b that is missing to it, and the build message first.
Supplied(r, b) ==
  LET follows == jenkinsBuild[r] = b[2]
      ok == follows => success[r]
      seen == IF follows THEN shown[r] ELSE 0
  IN  /\ Reports(Stream(r), b, Open(r), follows, ok, seen, passed[b], logs[b])
      /\ Open(r) /\ wpc[b] \in {"run", "status", "final"} =>
           follows \/ Carries(Stream(r), "Build", b)

ReportsComeIn == \A r \in Requestors : Expects(r) => \A b \in Ahead(r) : Supplied(r, b)

\* The inductive invariant for any number of stages, beside TypeOK,
\* NumberingInv and VerdictInv.
PipelineInv ==
  /\ QueueToItself
  /\ BegunInv
  /\ ReportsComeIn
  /\ \A r \in Requestors : HeardOut(r) => VerdictAgrees(r)

-----------------------------------------------------------------------------
(* A requestor whose build is the only one of its project, neither replaced  *)
(* nor asked for twice, hears it out.                                        *)

OneBuildEach ==
  /\ MaxBuild = 1
  /\ \A r, o \in Requestors : JenkinsProject[r] = JenkinsProject[o] => r = o

\* Nobody has asked for a build, and there is none, before its one requestor
\* does.
AskedInv ==
  /\ \A r \in Requestors : rpc[r] \in {"init", "send"} =>
       requests[JenkinsProject[r]] = 0 /\ lastBuild[JenkinsProject[r]] = 0
  /\ \A r \in Requestors : since[r] = 0

=============================================================================
