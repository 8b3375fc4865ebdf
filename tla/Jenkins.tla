------------------------------- MODULE Jenkins ------------------------------
(***************************************************************************)
(* The Jenkins server as the worker uses it (pkg/jenkins/jenkins.go): it   *)
(* numbers the builds of a project, runs the worker inside a build, and    *)
(* stops a build some time after it was asked to.  A build is recognised   *)
(* as one of the same request by comparing its CI message parameter with   *)
(* the CI message of the worker that looks.                                *)
(***************************************************************************)
EXTENDS SendQueue

CONSTANTS
  SetupScript, RunScript   \* the scripts of the CI message, of ScriptForms

\* How a script path of the CI message begins: not there at all, with a
\* dot, with anything else, or with the "./" that Complete puts before it.
ScriptForms == {"empty", "dotted", "bare"}

ASSUME ScriptAssumption ==
  /\ SetupScript \in ScriptForms
  /\ RunScript \in ScriptForms \ {"empty"}

VARIABLES
  lastBuild,   \* lastBuild[p]: how many builds of p there are
  running,     \* the builds whose worker process is alive
  stopping     \* the builds Jenkins was asked to stop

jenkinsVars == <<lastBuild, running, stopping>>

JenkinsTypeOK ==
  /\ lastBuild \in [Projects -> 0 .. MaxBuild]
  /\ running \in SUBSET Builds
  /\ stopping \in SUBSET Builds

JenkinsInit ==
  /\ lastBuild = [p \in Projects |-> 0]
  /\ running = {}
  /\ stopping = {}

Started(b) == b[2] <= lastBuild[b[1]]

\* Mutant of Completed: every script gets "./".
CompletedAlways(script) == IF script = "bare" THEN "./bare" ELSE "././dotted"

\* WorkOptions.Complete: a script that does not begin with a dot gets "./".
Completed(script) == IF script = "bare" THEN "./bare" ELSE script

\* initFilterFunc: the parameter of the other build, as it was sent, against
\* the completed CI message of this worker; the other fields are equal.
FilterMatches ==
  /\ SetupScript = Completed(SetupScript)
  /\ RunScript = Completed(RunScript)

\* NewerBuildsExist: whether running or not.
NewerBuildsExist(b) ==
  FilterMatches /\ \E n \in BuildNumbers : n > b[2] /\ n <= lastBuild[b[1]]

\* Mutant of OldBuilds: newer builds are stopped as well.
OtherBuilds(b) ==
  IF FilterMatches THEN {o \in running : o[1] = b[1] /\ o[2] # b[2]} ELSE {}

\* CleanupOldBuilds: the running builds it stops when nothing fails.
OldBuilds(b) ==
  IF FilterMatches THEN {o \in running : o[1] = b[1] /\ o[2] < b[2]} ELSE {}

\* A new build b of a project starts.
StartBuild(b) ==
  /\ b[2] = lastBuild[b[1]] + 1
  /\ lastBuild' = [lastBuild EXCEPT ![b[1]] = b[2]]
  /\ running' = running \union {b}
  /\ UNCHANGED stopping

=============================================================================
