------------------------------ MODULE Executor ------------------------------
(***************************************************************************)
(* The two executors of pkg/executor and the one command each runs at a    *)
(* time.  The command writes lines to stdout and stderr and ends; its      *)
(* output is read through io.MultiReader, stderr only after the end of     *)
(* stdout.  What the operating system, the SSH client library and the      *)
(* command do is modelled from how the executors use them.                 *)
(***************************************************************************)
EXTENDS Integers, Sequences, FiniteSets

CONSTANTS
  Kind,       \* which executor: "local" or "ssh"
  MaxOut,     \* bound: lines a command writes to stdout
  MaxErr,     \* bound: lines a command writes to stderr
  Capacity,   \* lines that fit a pipe, or the window of an SSH channel
  Faults      \* what may fail, of FaultKinds

FaultKinds == {"init", "session", "start", "read", "lost", "broker"}

ASSUME ExecutorAssumption ==
  /\ Kind \in {"local", "ssh"}
  /\ MaxOut \in Nat /\ MaxErr \in Nat
  /\ Capacity \in Nat \ {0}
  /\ Faults \subseteq FaultKinds

Streams == {"out", "err"}

VARIABLES
  command,  \* how far the command of the current attempt is
  plan,     \* plan[s]: lines the command is going to write to stream s
  wrote,    \* wrote[s]: lines it has written
  got,      \* got[s]: lines of them that were read
  clients   \* SSH connections that are open

executorVars == <<command, plan, wrote, got, clients>>

Ended == {"passed", "failed", "lost"}

ExecutorTypeOK ==
  /\ command \in {"none", "ready", "running", "unstartable"} \union Ended
  /\ plan \in [Streams -> Nat]
  /\ wrote \in [Streams -> Nat]
  /\ got \in [Streams -> Nat]
  /\ clients \in Nat

Nothing == [s \in Streams |-> 0]

ExecutorInit ==
  /\ command = "none"
  /\ plan = Nothing
  /\ wrote = Nothing
  /\ got = Nothing
  /\ clients = 0

\* InitCommand: for the SSH executor this dials and opens a session.
InitCommand ==
  /\ command' = "ready"
  /\ plan' = Nothing
  /\ wrote' = Nothing
  /\ got' = Nothing
  /\ clients' = IF Kind = "ssh" THEN clients + 1 ELSE clients

\* InitCommand returns an error: nothing was opened, or a connection was and
\* no session could be.  There is no command, and nobody will call Close.
InitCommandFails ==
  /\ \/ "init" \in Faults /\ UNCHANGED clients
     \/ "session" \in Faults /\ Kind = "ssh" /\ clients' = clients + 1
  /\ command' = "none"
  /\ UNCHANGED <<plan, wrote, got>>

StartCommand ==
  /\ command' = "running"
  /\ plan' \in {[s \in Streams |-> IF s = "out" THEN o ELSE e] : o \in 0 .. MaxOut, e \in 0 .. MaxErr}
  /\ UNCHANGED <<wrote, got, clients>>

StartFails ==
  /\ "start" \in Faults
  /\ command' = "unstartable"
  /\ UNCHANGED <<plan, wrote, got, clients>>

\* Two pipes have room of their own; two streams of a channel share a window.
HasRoom(s) ==
  IF Kind = "local"
  THEN wrote[s] - got[s] < Capacity
  ELSE (wrote["out"] - got["out"]) + (wrote["err"] - got["err"]) < Capacity

CommandWrites(s) ==
  /\ command = "running"
  /\ wrote[s] < plan[s]
  /\ HasRoom(s)
  /\ wrote' = [wrote EXCEPT ![s] = @ + 1]
  /\ UNCHANGED <<command, plan, got, clients>>

CommandEnds ==
  /\ command = "running"
  /\ wrote = plan
  /\ command' \in {"passed", "failed"}
  /\ UNCHANGED <<plan, wrote, got, clients>>

\* The connection, or the process, is gone before there is an exit status.
CommandLost ==
  /\ "lost" \in Faults
  /\ command = "running"
  /\ command' = "lost"
  /\ clients' = IF Kind = "ssh" THEN clients - 1 ELSE clients
  /\ UNCHANGED <<plan, wrote, got>>

\* The stream io.MultiReader reads: stderr is not looked at before stdout ends.
Source == IF command \in Ended /\ got["out"] = wrote["out"] THEN "err" ELSE "out"

LineAvailable == got[Source] < wrote[Source]

AtEOF == command \in Ended /\ got = wrote

ReadLine ==
  /\ LineAvailable
  /\ got' = [got EXCEPT ![Source] = @ + 1]
  /\ UNCHANGED <<command, plan, wrote, clients>>

\* LocalExecutor.Wait: an exit status other than 0 is an error of exec.Cmd.
ExitStatusIsError == Kind = "local" /\ command = "failed"

\* Wait: the SSH executor tells an ssh.ExitError from the other errors.
WaitFails == command = "lost" \/ ExitStatusIsError

\* Mutant of CloseExecutor: a client the connection of which is lost is closed again.
CloseExecutorTwice ==
  /\ clients' = IF Kind = "ssh" /\ command \notin {"passed", "failed"} THEN clients - 1 ELSE clients
  /\ UNCHANGED <<command, plan, wrote, got>>

\* Close: the channel of a session that ended is closed already, so closing
\* it is an error, and NodeSSHExecutor.Close returns before it closes the
\* client.  A command that still runs is cut off with its connection, while a
\* local one is left running.
CloseExecutor ==
  /\ IF Kind = "ssh" /\ command \notin Ended
     THEN /\ clients' = clients - 1
          /\ command' = IF command = "running" THEN "lost" ELSE command
     ELSE UNCHANGED <<clients, command>>
  /\ UNCHANGED <<plan, wrote, got>>

=============================================================================
