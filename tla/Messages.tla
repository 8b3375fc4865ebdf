------------------------------ MODULE Messages ------------------------------
(***************************************************************************)
(* The messages a worker publishes on the receive queue of a request       *)
(* (pkg/messages/workermessage.go), and the builds they speak of.  A build *)
(* is a Jenkins project and the number Jenkins gave the build in it; the   *)
(* text of a log line is left out.                                         *)
(***************************************************************************)
EXTENDS Integers

CONSTANTS
  Projects,   \* the Jenkins projects (jobs)
  MaxBuild    \* bound: the builds Jenkins starts in each project

ASSUME MaxBuildAssumption == MaxBuild \in Nat \ {0}

\* The value of Requestor.jenkinsBuild while no build is followed.
NoBuild == -1

BuildNumbers == 1 .. MaxBuild

Builds == Projects \X BuildNumbers

Kinds == {"Build", "Log", "Status", "Final", "Cancel"}

\* Success is what json.Unmarshal leaves in StatusMessage; the other kinds
\* have no such field and carry the zero value of the Go type.
Message == [Kind : Kinds, JenkinsProject : Projects, Build : BuildNumbers, Success : BOOLEAN]

newMessage(kind, b, success) ==
  [Kind |-> kind, JenkinsProject |-> b[1], Build |-> b[2], Success |-> success]

NewCancelMessage(b) == newMessage("Cancel", b, FALSE)
NewBuildMessage(b) == newMessage("Build", b, FALSE)
NewLogsMessage(b) == newMessage("Log", b, FALSE)
NewStatusMessage(b, success) == newMessage("Status", b, success)
NewFinalMessage(b) == newMessage("Final", b, FALSE)

=============================================================================
