------------------------------- MODULE Command ------------------------------
(***************************************************************************)
(* Worker.runCommand (pkg/worker/worker.go): one command of a test run,    *)
(* tried up to RetryLoopCount times.  Every attempt has a goroutine of its *)
(* own that reads the output and reports on the unbuffered channel done;   *)
(* main receives from that channel once.  Both print to the same buffer    *)
(* without a lock.                                                         *)
(***************************************************************************)
EXTENDS Executor, PrintStreamBuffer

CONSTANT RetryLoopCount

ASSUME RetryLoopCountAssumption == RetryLoopCount \in Nat \ {0}

Attempts == 1 .. RetryLoopCount

Line == Attempts \X Streams \X (Nat \ {0})

VARIABLES
  oldsuccess,  \* whether the command before this one succeeded
  pc,          \* where main is
  retry,       \* the number of the current attempt
  errList,     \* how many errors were recorded
  err,         \* whether the current attempt is returning an error
  outcome,     \* what runCommand returned
  reader,      \* reader[a]: where the goroutine of attempt a is
  stale        \* stale[a]: what that goroutine read of message, unlocked

runVars == <<oldsuccess, pc, retry, errList, err, outcome, reader, stale>>

vars == <<executorVars, psbVars, runVars>>

TypeOK ==
  /\ ExecutorTypeOK
  /\ PsbTypeOK(Line)
  /\ oldsuccess \in BOOLEAN
  /\ pc \in {"begin", "loop", "init", "start", "await", "wait", "flush", "close", "returned"}
  /\ retry \in 0 .. RetryLoopCount + 1
  /\ errList \in 0 .. RetryLoopCount
  /\ err \in BOOLEAN
  /\ outcome \in {"none", "passed", "failed", "error"}
  /\ reader \in [Attempts -> {"none", "reading", "failing", "leftover", "copied",
                              "finishing", "stuck", "strayed", "ended"}]
  /\ stale \in [Attempts -> Seq(Line)]

Init ==
  /\ ExecutorInit
  /\ PsbInit
  /\ oldsuccess \in BOOLEAN
  /\ pc = "begin"
  /\ retry = 0
  /\ errList = 0
  /\ err = FALSE
  /\ outcome = "none"
  /\ reader = [a \in Attempts |-> "none"]
  /\ stale = [a \in Attempts |-> <<>>]

-----------------------------------------------------------------------------
(* The main goroutine. *)

Goes(from, to) == pc = from /\ pc' = to

Begin ==
  /\ oldsuccess
  /\ Goes("begin", "loop")
  /\ Announce
  /\ UNCHANGED <<executorVars, oldsuccess, retry, errList, err, outcome, reader, stale>>

Skip ==
  /\ ~oldsuccess
  /\ Goes("begin", "returned")
  /\ outcome' = "failed"
  /\ Announce
  /\ UNCHANGED <<executorVars, oldsuccess, retry, errList, err, reader, stale>>

NextAttempt ==
  /\ retry < RetryLoopCount
  /\ Goes("loop", "init")
  /\ retry' = retry + 1
  /\ err' = FALSE
  /\ Announce
  /\ UNCHANGED <<executorVars, oldsuccess, errList, outcome, reader, stale>>

\* Mutant of GiveUp: the last attempt is not made.
GiveUpEarly ==
  /\ retry > 0 /\ retry + 1 >= RetryLoopCount
  /\ Goes("loop", "returned")
  /\ retry' = retry + 1
  /\ outcome' = "error"
  /\ Announce
  /\ UNCHANGED <<executorVars, oldsuccess, errList, err, reader, stale>>

GiveUp ==
  /\ retry >= RetryLoopCount
  /\ Goes("loop", "returned")
  /\ retry' = retry + 1
  /\ outcome' = "error"
  /\ Announce
  /\ UNCHANGED <<executorVars, oldsuccess, errList, err, reader, stale>>

Initialize ==
  /\ Goes("init", "start")
  /\ InitCommand
  /\ reader' = [reader EXCEPT ![retry] = "reading"]
  /\ UNCHANGED <<psbVars, oldsuccess, retry, errList, err, outcome, stale>>

InitializeFails ==
  /\ Goes("init", "loop")
  /\ InitCommandFails
  /\ errList' = errList + 1
  /\ UNCHANGED <<psbVars, oldsuccess, retry, err, outcome, reader, stale>>

Start ==
  /\ Goes("start", "await")
  /\ StartCommand
  /\ UNCHANGED <<psbVars, oldsuccess, retry, errList, err, outcome, reader, stale>>

\* Mutant of StartCommandFails: the error does not keep main from waiting.
StartErrorIgnored ==
  /\ Goes("start", "await")
  /\ StartFails
  /\ err' = TRUE
  /\ reader' = [reader EXCEPT ![retry] = "stuck"]
  /\ UNCHANGED <<psbVars, oldsuccess, retry, errList, outcome, stale>>

\* Nobody will receive from done: when the pipes are closed the goroutine
\* sends an error, or nil, and waits for ever.
StartCommandFails ==
  /\ Goes("start", "close")
  /\ StartFails
  /\ err' = TRUE
  /\ reader' = [reader EXCEPT ![retry] = "stuck"]
  /\ UNCHANGED <<psbVars, oldsuccess, retry, errList, outcome, stale>>

\* err = <-done
ReceiveError ==
  /\ Goes("await", "close")
  /\ reader[retry] = "failing"
  /\ err' = TRUE
  /\ reader' = [reader EXCEPT ![retry] = "leftover"]
  /\ UNCHANGED <<executorVars, psbVars, oldsuccess, retry, errList, outcome, stale>>

ReceiveNil ==
  /\ Goes("await", "wait")
  /\ reader[retry] = "finishing"
  /\ reader' = [reader EXCEPT ![retry] = "ended"]
  /\ UNCHANGED <<executorVars, psbVars, oldsuccess, retry, errList, err, outcome, stale>>

Wait ==
  /\ command \in Ended
  /\ Goes("wait", IF WaitFails THEN "close" ELSE "flush")
  /\ err' = WaitFails
  /\ UNCHANGED <<executorVars, psbVars, oldsuccess, retry, errList, outcome, reader, stale>>

\* Mutant of FlushOutput: the rest of the output waits for the next message.
FlushOutputLater ==
  /\ Goes("flush", "close")
  /\ UNCHANGED <<executorVars, psbVars, oldsuccess, retry, errList, err, outcome, reader, stale>>

FlushOutput ==
  /\ Goes("flush", "close")
  /\ FlushToQueue
  /\ err' = FlushFails
  /\ UNCHANGED <<executorVars, oldsuccess, retry, errList, outcome, reader, stale>>

\* The deferred Close, whose error is dropped, and the end of the attempt.
Close ==
  /\ Goes("close", IF err THEN "loop" ELSE "returned")
  /\ CloseExecutor
  /\ IF err
     THEN errList' = errList + 1 /\ UNCHANGED outcome
     ELSE outcome' = command /\ UNCHANGED errList
  /\ UNCHANGED <<psbVars, oldsuccess, retry, err, reader, stale>>

Main ==
  \/ Begin \/ Skip \/ NextAttempt \/ GiveUp \/ Initialize \/ InitializeFails
  \/ Start \/ StartCommandFails \/ ReceiveError \/ ReceiveNil \/ Wait
  \/ FlushOutput \/ Close

-----------------------------------------------------------------------------
(* The goroutine of an attempt. *)

ReaderGoes(from, to) == reader[retry] = from /\ reader' = [reader EXCEPT ![retry] = to]

NextLine == <<retry, Source, got[Source] + 1>>

\* A line is printed; a failed publish is ignored.
ReadString ==
  /\ retry \in Attempts
  /\ reader[retry] = "reading"
  /\ ReadLine
  /\ PsbPrint(<<NextLine>>, FALSE)
  /\ UNCHANGED runVars

ReadEOF ==
  /\ retry \in Attempts
  /\ AtEOF
  /\ ReaderGoes("reading", "finishing")
  /\ UNCHANGED <<executorVars, psbVars, oldsuccess, pc, retry, errList, err, outcome, stale>>

ReadFails ==
  /\ "read" \in Faults
  /\ retry \in Attempts
  /\ command \in Ended \union {"running"}
  /\ ReaderGoes("reading", "failing")
  /\ UNCHANGED <<executorVars, psbVars, oldsuccess, pc, retry, errList, err, outcome, stale>>

\* After its error was received a goroutine prints the incomplete line it
\* has, if any, while main prints too: it reads message, main may print or
\* flush, and it writes message; or main overwrites what it wrote.  Then it
\* sends nil, and nobody receives.
LeftoverCopied(a) ==
  /\ reader[a] = "leftover"
  /\ reader' = [reader EXCEPT ![a] = "copied"]
  /\ stale' = [stale EXCEPT ![a] = message]
  /\ UNCHANGED <<executorVars, psbVars, oldsuccess, pc, retry, errList, err, outcome>>

LeftoverPrinted(a) ==
  /\ reader[a] = "copied"
  /\ reader' = [reader EXCEPT ![a] = "strayed"]
  /\ PrintAfter(stale[a], <<>>, FALSE)
  /\ stale' = [stale EXCEPT ![a] = <<>>]
  /\ UNCHANGED <<executorVars, oldsuccess, pc, retry, errList, err, outcome>>

LeftoverLost(a) ==
  /\ reader[a] = "leftover"
  /\ reader' = [reader EXCEPT ![a] = "strayed"]
  /\ UNCHANGED <<executorVars, psbVars, oldsuccess, pc, retry, errList, err, outcome, stale>>

Reader ==
  \/ ReadString \/ ReadEOF \/ ReadFails
  \/ \E a \in Attempts : LeftoverCopied(a) \/ LeftoverPrinted(a) \/ LeftoverLost(a)

-----------------------------------------------------------------------------
(* The command, and the connection to the broker. *)

CommandRuns == (CommandEnds \/ \E s \in Streams : CommandWrites(s)) /\ UNCHANGED <<psbVars, runVars>>

Around ==
  \/ CommandLost /\ UNCHANGED <<psbVars, runVars>>
  \/ "broker" \in Faults /\ StreamLost /\ UNCHANGED <<executorVars, runVars>>

Next == Main \/ Reader \/ CommandRuns \/ Around

Spec == Init /\ [][Next]_vars

\* Goroutines are scheduled, and a command that can go on does.
FairSpec ==
  Spec /\ WF_vars(Main) /\ WF_vars(ReadString \/ ReadEOF) /\ WF_vars(CommandRuns)

-----------------------------------------------------------------------------

Returned == pc = "returned"

\* The lines of attempt a, as io.MultiReader orders them.
Output(a) ==
  [i \in 1 .. wrote["out"] |-> <<a, "out", i>>] \o [i \in 1 .. wrote["err"] |-> <<a, "err", i>>]

\* No goroutine of a failed read is, or was, printing beside main: such a one
\* can put back lines that were published, and drop lines that were not.
RaceFree == \A a \in Attempts : reader[a] \notin {"leftover", "copied", "strayed"}

\* Sequence t is the end of s, and nothing before it is of attempt a.
EndsWith(s, t, a) ==
  LET before == Len(s) - Len(t) IN
  /\ before >= 0
  /\ \A i \in 1 .. before : s[i][1] # a
  /\ \A i \in 1 .. Len(t) : s[before + i] = t[i]

\* A result is that of the command of the last attempt, and the requestor was
\* sent all that command wrote, in order and behind the output of the attempts
\* before, by the time the result is known: reader, buffer and flush are done
\* with it.
ResultIsComplete ==
  RaceFree /\ Returned /\ outcome \in {"passed", "failed"} /\ oldsuccess =>
    /\ outcome = command
    /\ wrote = plan
    /\ EndsWith(streamed, Output(retry), retry)

\* What is published, with what is still in the buffer, is what the console of
\* the build shows, in its order: failed publishes neither lose nor repeat
\* lines, and neither do attempts that follow each other.
StreamMatchesConsole == RaceFree => streamed \o message = console

\* runCommand "returns success and error": whatever fails, and whatever the
\* command writes, it comes to an end with the command.
Returns == <>Returned

-----------------------------------------------------------------------------

Abstract == INSTANCE RunCommand WITH
  errors <- errList,
  StatusIsError <- Kind = "local"

\* runCommand keeps to what its callers take it for: a command that was skipped
\* is not run, the result of a command that ended is returned at once, and an
\* error is returned only when every attempt failed, whichever goroutine,
\* connection or publish it was that failed.
ImplementsRunCommand == Abstract!Spec

=============================================================================
