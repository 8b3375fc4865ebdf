------------------------- MODULE CommandOutputProofs ------------------------
(***************************************************************************)
(* What becomes of the output of a command: type correctness of Command,   *)
(* the buffer keeps to the console, and a result is behind all the output. *)
(***************************************************************************)
EXTENDS CommandProofs, SequenceTheorems

\* An attempt has a command from its start to the end of its Close.
Held == {"start", "await", "wait", "flush", "close"}

\* The result of a command was returned.
Answered == Returned /\ oldsuccess /\ outcome \in {"passed", "failed"}

\* The command has ended well for main, and is about to be answered.
Succeeding == pc \in {"wait", "flush"} \/ (pc = "close" /\ ~err)

ExecutorInv ==
  /\ pc \in Held => command # "none"
  /\ pc = "start" => command = "ready" /\ wrote = Nothing
  /\ Kind = "ssh" /\ command = "running" => pc \in Held
  /\ Kind = "ssh" /\ command \notin Ended /\ pc \in Held => clients > 0

ReaderInv ==
  /\ \A a \in Attempts : a > retry \/ (a = retry /\ pc = "init") => reader[a] = "none"
  /\ \A a \in Attempts : a = retry /\ pc = "start" => reader[a] = "reading"
  /\ \A a \in Attempts : a = retry /\ reader[a] \in {"reading", "failing", "finishing"} =>
       pc \in {"start", "await"}
  /\ \A a \in Attempts : a = retry /\ reader[a] = "finishing" => AtEOF
  /\ Succeeding \/ Answered => AtEOF

BufferInv ==
  /\ StreamMatchesConsole
  /\ counter = 0 => message = <<>>
  /\ (pc = "close" /\ ~err) \/ Answered => (RaceFree => message = <<>>)

\* The console ends with what was read in this attempt.
Shows(a) ==
  LET before == Len(console) - (got["out"] + got["err"]) IN
  /\ before >= 0
  /\ \A i \in 1 .. before : console[i][1] < a
  /\ \A i \in 1 .. got["out"] : console[before + i] = <<a, "out", i>>
  /\ \A i \in 1 .. got["err"] : console[before + got["out"] + i] = <<a, "err", i>>

ConsoleInv ==
  /\ \A i \in 1 .. Len(console) : console[i][1] <= retry
  /\ pc = "init" => \A i \in 1 .. Len(console) : console[i][1] < retry
  /\ pc \in Held \/ Answered => Shows(retry)
  /\ pc \in Held /\ got["err"] > 0 => command \in Ended /\ got["out"] = wrote["out"]

AnswerInv ==
  /\ command \in {"passed", "failed"} => wrote = plan
  /\ Answered => outcome = command

\* The inductive invariant, beside AttemptsInv.
OutputInv == TypeOK /\ ExecutorInv /\ ReaderInv /\ BufferInv /\ ConsoleInv /\ AnswerInv

-----------------------------------------------------------------------------
(* The buffer. *)

LEMMA Regrouped ==
  ASSUME NEW s \in Seq(Line), NEW t \in Seq(Line), NEW u \in Seq(Line)
  PROVE  s \o (t \o u) = (s \o t) \o u
<1>1. (s \o t) \o u = s \o (t \o u)
  BY ConcatAssociative
<1>2. QED
  BY <1>1

LEMMA NothingAppended ==
  ASSUME NEW s \in Seq(Line)
  PROVE  s \o <<>> = s
BY ConcatEmptySeq

\* Whatever is read of message, and whether or not it is published: what is
\* printed goes to the end of the console, and of what is on its way.
LEMMA PrintKeeps ==
  ASSUME PsbTypeOK(Line), NEW msg \in Seq(Line), NEW lines \in Seq(Line), NEW now \in BOOLEAN,
         PrintAfter(msg, lines, now)
  PROVE  /\ PsbTypeOK(Line)'
         /\ streamed' \o message' = (streamed \o msg) \o lines
         /\ console' = console \o lines
         /\ counter' = 0 => message' = <<>>
<1>0. streamed \in Seq(Line) /\ console \in Seq(Line) /\ counter \in Nat /\ online \in BOOLEAN
  BY DEF PsbTypeOK
<1>1. msg \o lines \in Seq(Line) /\ streamed \o (msg \o lines) \in Seq(Line)
      /\ console \o lines \in Seq(Line)
  BY <1>0, ConcatProperties
<1>2. streamed \o (msg \o lines) = (streamed \o msg) \o lines
  BY <1>0, Regrouped
<1>3. console' = console \o lines /\ UNCHANGED online
  BY DEF PrintAfter
<1>4. CASE streamed' = streamed \o (msg \o lines) /\ message' = <<>> /\ counter' = 0
  <2>1. PsbTypeOK(Line)'
    BY <1>0, <1>1, <1>3, <1>4, EmptySeq DEF PsbTypeOK
  <2>2. streamed' \o message' = (streamed \o msg) \o lines
    BY <1>1, <1>2, <1>4, NothingAppended, Zenon
  <2>3. QED
    BY <1>3, <1>4, <2>1, <2>2
<1>5. CASE message' = msg \o lines /\ counter' = counter + 1 /\ UNCHANGED streamed
  <2>1. PsbTypeOK(Line)' /\ counter' # 0
    BY <1>0, <1>1, <1>3, <1>5 DEF PsbTypeOK
  <2>2. QED
    BY <1>2, <1>3, <1>5, <2>1
<1>6. QED
  BY <1>4, <1>5 DEF PrintAfter, Flush

\* A flush takes nothing from what is on its way, nor adds to it; without an
\* error it leaves nothing in the buffer.
LEMMA FlushKeeps ==
  ASSUME PsbTypeOK(Line), counter = 0 => message = <<>>, FlushToQueue
  PROVE  /\ PsbTypeOK(Line)'
         /\ streamed' \o message' = streamed \o message
         /\ console' = console
         /\ counter' = 0 => message' = <<>>
         /\ ~FlushFails => message' = <<>>
<1> USE DEF PsbTypeOK
<1>1. streamed \o message \in Seq(Line)
  BY ConcatProperties
<1>2. CASE counter > 0 /\ online
  <2>1. streamed' = streamed \o message /\ message' = <<>> /\ counter' = 0
        /\ UNCHANGED <<console, online>>
    BY <1>2 DEF FlushToQueue, Flush
  <2>2. streamed' \in Seq(Line) /\ streamed' \o <<>> = streamed'
    BY <1>1, <2>1, ConcatEmptySeq
  <2>3. QED
    BY <2>1, <2>2, EmptySeq
<1>3. CASE ~(counter > 0 /\ online)
  BY <1>3 DEF FlushToQueue, Flush, FlushFails
<1>4. QED
  BY <1>2, <1>3

\* The worker's own announcements leave all of it alone.
LEMMA AnnounceKeeps ==
  ASSUME PsbTypeOK(Line), Announce
  PROVE  /\ PsbTypeOK(Line)'
         /\ streamed' \o message' = streamed \o message
         /\ console' = console
         /\ counter' = 0 => message' = <<>>
<1>1. <<>> \in Seq(Line) /\ message \in Seq(Line) /\ console \in Seq(Line)
      /\ streamed \o message \in Seq(Line)
  BY EmptySeq, ConcatProperties DEF PsbTypeOK
<1>2. PrintAfter(message, <<>>, TRUE)
  BY DEF Announce, PsbPrint
<1>3. QED
  BY <1>1, <1>2, PrintKeeps, ConcatEmptySeq

-----------------------------------------------------------------------------
(* Type correctness. *)

LEMMA SourceTypes ==
  ASSUME TypeOK, retry \in Attempts
  PROVE  NextLine \in Line /\ <<NextLine>> \in Seq(Line) /\ Source \in Streams
<1>1. Source \in Streams
  BY DEF Source, Streams
<1>2. got[Source] + 1 \in Nat \ {0}
  BY <1>1 DEF TypeOK, ExecutorTypeOK
<1>3. QED
  BY <1>1, <1>2 DEF NextLine, Line

LEMMA MainTypes ==
  ASSUME TypeOK, AttemptsInv, ExecutorInv, BufferInv, Main
  PROVE  TypeOK'
<1> USE RetryLoopCountAssumption, ExecutorAssumption
    DEF TypeOK, AttemptsInv, Busy, Goes, ExecutorTypeOK, runVars, executorVars
<1>1. CASE Begin \/ Skip \/ NextAttempt \/ GiveUp
  <2>1. PsbTypeOK(Line)'
    BY <1>1, AnnounceKeeps DEF Begin, Skip, NextAttempt, GiveUp
  <2>2. CASE Begin
    BY <2>1, <2>2 DEF Begin
  <2>3. CASE Skip
    BY <2>1, <2>3 DEF Skip
  <2>4. CASE NextAttempt
    <3>1. err' \in BOOLEAN
      BY <2>4, Zenon DEF NextAttempt
    <3>2. UNCHANGED <<executorVars, oldsuccess, errList, outcome, reader, stale>>
          /\ pc' = "init" /\ retry' \in 0 .. RetryLoopCount + 1
      BY <2>4 DEF NextAttempt
    <3>3. QED
      BY <2>1, <3>1, <3>2
  <2>5. CASE GiveUp
    BY <2>1, <2>5 DEF GiveUp
  <2>6. QED
    BY <1>1, <2>2, <2>3, <2>4, <2>5
<1>2. CASE FlushOutput
  <2>1. PsbTypeOK(Line)'
    BY <1>2, FlushKeeps DEF FlushOutput, BufferInv
  <2>2. FlushFails \in BOOLEAN
    BY DEF FlushFails
  <2>3. QED
    BY <1>2, <2>1, <2>2 DEF FlushOutput
<1>3. CASE UNCHANGED psbVars
  <2>1. PsbTypeOK(Line)'
    BY <1>3 DEF psbVars, PsbTypeOK
  <2>2. CASE Initialize
    BY <2>1, <2>2 DEF Initialize, InitCommand, Nothing, Attempts
  <2>3. CASE InitializeFails
    BY <2>1, <2>3 DEF InitializeFails, InitCommandFails
  <2>4. CASE Start
    <3>1. plan' \in [Streams -> Nat]
      <4>1. PICK o \in 0 .. MaxOut, e \in 0 .. MaxErr :
              plan' = [s \in Streams |-> IF s = "out" THEN o ELSE e]
        BY <2>4 DEF Start, StartCommand
      <4>2. QED
        BY <4>1
    <3>2. QED
      BY <2>1, <2>4, <3>1 DEF Start, StartCommand
  <2>5. CASE StartCommandFails
    BY <2>1, <2>5 DEF StartCommandFails, StartFails
  <2>6. CASE ReceiveError \/ ReceiveNil
    BY <2>1, <2>6 DEF ReceiveError, ReceiveNil
  <2>7. CASE Wait
    <3>1. WaitFails \in BOOLEAN
      BY DEF WaitFails, ExitStatusIsError
    <3>2. QED
      BY <2>1, <2>7, <3>1 DEF Wait
  <2>8. CASE Close
    <3>1. command' \in {"none", "ready", "running", "unstartable"} \union Ended
      BY <2>8 DEF Close, CloseExecutor, Ended
    <3>2. clients' \in Nat
      BY <2>8 DEF Close, CloseExecutor, ExecutorInv, Held
    <3>3. outcome' \in {"none", "passed", "failed", "error"} /\ errList' \in 0 .. RetryLoopCount
      BY <2>8 DEF Close
    <3>4. QED
      BY <2>1, <2>8, <3>1, <3>2, <3>3 DEF Close, CloseExecutor
  <2>9. QED
    BY <1>3, <1>1, <1>2, <2>2, <2>3, <2>4, <2>5, <2>6, <2>7, <2>8 DEF Main
<1>4. QED
  BY <1>1, <1>2, <1>3
     DEF Main, Initialize, InitializeFails, Start, StartCommandFails, ReceiveError, ReceiveNil,
         Wait, Close

\* What leaves the variables of a component alone leaves their types alone.
LEMMA UnchangedTypes ==
  /\ ExecutorTypeOK /\ UNCHANGED executorVars => ExecutorTypeOK'
  /\ PsbTypeOK(Line) /\ UNCHANGED psbVars => PsbTypeOK(Line)'
<1>1. ExecutorTypeOK /\ UNCHANGED executorVars => ExecutorTypeOK'
  BY DEF ExecutorTypeOK, executorVars
<1>2. PsbTypeOK(Line) /\ UNCHANGED psbVars => PsbTypeOK(Line)'
  BY DEF PsbTypeOK, psbVars
<1>3. QED
  BY <1>1, <1>2

LEMMA OtherTypes ==
  ASSUME TypeOK, ExecutorInv, Reader \/ CommandRuns \/ Around
  PROVE  TypeOK'
<1> USE DEF TypeOK, runVars
<1>1. CASE ReadString
  <2>1. PsbTypeOK(Line)'
    BY <1>1, SourceTypes, PrintKeeps DEF ReadString, PsbPrint, PsbTypeOK
  <2>2. got' \in [Streams -> Nat]
    BY <1>1, SourceTypes DEF ReadString, ReadLine, ExecutorTypeOK
  <2>3. ExecutorTypeOK'
    BY <1>1, <2>2 DEF ReadString, ReadLine, ExecutorTypeOK
  <2>4. QED
    BY <1>1, <2>1, <2>3 DEF ReadString
<1>2. CASE ReadEOF \/ ReadFails
  BY <1>2, UnchangedTypes DEF ReadEOF, ReadFails, ReaderGoes
<1>3. ASSUME NEW a \in Attempts, LeftoverPrinted(a) PROVE TypeOK'
  <2>1. stale[a] \in Seq(Line) /\ <<>> \in Seq(Line)
    BY EmptySeq
  <2>2. PsbTypeOK(Line)'
    BY <1>3, <2>1, PrintKeeps DEF LeftoverPrinted
  <2>3. /\ reader' = [reader EXCEPT ![a] = "strayed"] /\ stale' = [stale EXCEPT ![a] = <<>>]
        /\ UNCHANGED <<oldsuccess, pc, retry, errList, err, outcome>>
    BY <1>3 DEF LeftoverPrinted
  <2>4. ExecutorTypeOK'
    BY <1>3, UnchangedTypes DEF LeftoverPrinted
  <2>5. QED
    BY <2>1, <2>2, <2>3, <2>4
<1>4. ASSUME NEW a \in Attempts, LeftoverCopied(a) \/ LeftoverLost(a) PROVE TypeOK'
  <2>1. ExecutorTypeOK' /\ PsbTypeOK(Line)'
    BY <1>4, UnchangedTypes DEF LeftoverCopied, LeftoverLost
  <2>2. message \in Seq(Line)
    BY DEF PsbTypeOK
  <2>3. QED
    BY <1>4, <2>1, <2>2 DEF LeftoverCopied, LeftoverLost
<1>5. CASE CommandRuns
  <2>1. command' \in {"none", "ready", "running", "unstartable"} \union Ended
    BY <1>5 DEF CommandRuns, CommandEnds, CommandWrites, Ended, ExecutorTypeOK
  <2>2. wrote' \in [Streams -> Nat]
    BY <1>5 DEF CommandRuns, CommandEnds, CommandWrites, ExecutorTypeOK
  <2>3. ExecutorTypeOK'
    BY <1>5, <2>1, <2>2 DEF CommandRuns, CommandEnds, CommandWrites, ExecutorTypeOK
  <2>4. QED
    BY <1>5, <2>3, UnchangedTypes DEF CommandRuns
<1>6. CASE Around
  <2>1. CASE CommandLost /\ UNCHANGED <<psbVars, runVars>>
    <3>1. clients' \in Nat
      BY <2>1 DEF CommandLost, ExecutorInv, ExecutorTypeOK, Ended
    <3>2. ExecutorTypeOK'
      BY <2>1, <3>1 DEF CommandLost, ExecutorTypeOK, Ended
    <3>3. QED
      BY <2>1, <3>2, UnchangedTypes
  <2>2. CASE StreamLost /\ UNCHANGED <<executorVars, runVars>>
    <3>1. PsbTypeOK(Line)'
      BY <2>2 DEF StreamLost, PsbTypeOK
    <3>2. QED
      BY <2>2, <3>1, UnchangedTypes
  <2>3. QED
    BY <1>6, <2>1, <2>2 DEF Around
<1>7. QED
  BY <1>1, <1>2, <1>3, <1>4, <1>5, <1>6 DEF Reader

-----------------------------------------------------------------------------
(* The invariant, part by part.                                            *)

\* What the goroutines, the command and its surroundings leave to main.
LEMMA OthersLeave ==
  ASSUME TypeOK, Reader \/ CommandRuns \/ Around
  PROVE  /\ UNCHANGED <<oldsuccess, pc, retry, errList, err, outcome, plan>>
         /\ command' = command \/ (command = "running" /\ command' \in Ended)
         /\ wrote' = wrote \/ command = "running"
BY DEF Reader, ReadString, ReadEOF, ReadFails, LeftoverCopied, LeftoverPrinted, LeftoverLost,
       ReadLine, CommandRuns, CommandEnds, CommandWrites, Around, CommandLost, Ended, runVars,
       executorVars

LEMMA ExecutorStep ==
  ASSUME TypeOK, ExecutorInv, Main \/ Reader \/ CommandRuns \/ Around
  PROVE  ExecutorInv'
<1> USE DEF TypeOK, ExecutorTypeOK, ExecutorInv, Held, Ended, Goes, executorVars
<1>1. CASE Begin \/ Skip \/ NextAttempt \/ GiveUp
  BY <1>1 DEF Begin, Skip, NextAttempt, GiveUp
<1>2. CASE Initialize \/ InitializeFails
  BY <1>2 DEF Initialize, InitCommand, InitializeFails, InitCommandFails
<1>3. CASE Start \/ StartCommandFails
  BY <1>3 DEF Start, StartCommand, StartCommandFails, StartFails
<1>4. CASE ReceiveError \/ ReceiveNil \/ Wait \/ FlushOutput
  BY <1>4 DEF ReceiveError, ReceiveNil, Wait, FlushOutput
<1>5. CASE Close
  BY <1>5 DEF Close, CloseExecutor
<1>6. CASE Reader \/ (Around /\ UNCHANGED executorVars)
  <2>1. UNCHANGED <<command, wrote, clients, pc>>
    BY <1>6 DEF Reader, ReadString, ReadEOF, ReadFails, LeftoverCopied, LeftoverPrinted,
                LeftoverLost, ReadLine, Around, runVars
  <2>2. QED
    BY <2>1
<1>7. CASE CommandRuns
  BY <1>7 DEF CommandRuns, CommandEnds, CommandWrites, runVars
<1>8. CASE CommandLost /\ UNCHANGED runVars
  BY <1>8 DEF CommandLost, runVars
<1>9. QED
  BY <1>1, <1>2, <1>3, <1>4, <1>5, <1>6, <1>7, <1>8 DEF Main, Around

\* The goroutine of an attempt reads while main waits for it.
LEMMA ReaderStep ==
  ASSUME TypeOK, AttemptsInv, ExecutorInv, ReaderInv, AnswerInv,
         Main \/ Reader \/ CommandRuns \/ Around
  PROVE  ReaderInv'
<1> USE RetryLoopCountAssumption
    DEF TypeOK, ExecutorTypeOK, ReaderInv, Succeeding, Answered, Returned, Goes, AtEOF
<1>1. CASE Begin \/ Skip \/ NextAttempt \/ GiveUp
  <2>1. UNCHANGED <<reader, command, wrote, got>> /\ pc \in {"begin", "loop"}
        /\ pc' \in {"loop", "init", "returned"}
    BY <1>1 DEF Begin, Skip, NextAttempt, GiveUp, executorVars
  <2>2. retry' \in Nat /\ (retry' = retry \/ retry' = retry + 1) /\ (pc' = "init" => retry' = retry + 1)
    BY <1>1 DEF Begin, Skip, NextAttempt, GiveUp
  <2>3. ~Answered'
    BY <1>1 DEF Begin, Skip, NextAttempt, GiveUp
  <2>4. \A a \in Attempts : a >= retry' /\ a # retry => reader[a] = "none"
    BY <2>2 DEF Attempts
  <2>5. QED
    BY <2>1, <2>2, <2>3, <2>4 DEF Attempts
<1>2. CASE Initialize \/ InitializeFails
  BY <1>2 DEF Initialize, InitializeFails, AttemptsInv
<1>3. CASE Start
  BY <1>3 DEF Start, Attempts
<1>4. CASE StartCommandFails
  BY <1>4 DEF StartCommandFails
<1>5. CASE ReceiveError \/ ReceiveNil
  BY <1>5 DEF ReceiveError, ReceiveNil, executorVars, AttemptsInv, Busy, Attempts
<1>6. CASE Wait
  BY <1>6 DEF Wait, executorVars
<1>7. CASE FlushOutput
  BY <1>7 DEF FlushOutput, executorVars
<1>8. CASE Close
  BY <1>8 DEF Close, CloseExecutor, AttemptsInv
<1>9. CASE ReadString
  BY <1>9 DEF ReadString, ReadLine, LineAvailable, runVars
<1>10. CASE ReadEOF \/ ReadFails
  BY <1>10 DEF ReadEOF, ReadFails, ReaderGoes, executorVars, ExecutorInv, Held, Ended
<1>11. ASSUME NEW a \in Attempts, LeftoverCopied(a) \/ LeftoverPrinted(a) \/ LeftoverLost(a)
       PROVE  ReaderInv'
  <2>1. reader[a] \in {"leftover", "copied"}
        /\ \E to \in {"copied", "strayed"} : reader' = [reader EXCEPT ![a] = to]
    BY <1>11 DEF LeftoverCopied, LeftoverPrinted, LeftoverLost
  <2>2. UNCHANGED <<oldsuccess, pc, retry, err, outcome, command, wrote, got>>
    BY <1>11 DEF LeftoverCopied, LeftoverPrinted, LeftoverLost, executorVars
  <2>3. AtEOF' = AtEOF /\ Succeeding' = Succeeding /\ Answered' = Answered
    BY <2>2
  <2>4. \A c \in Attempts : reader'[c] # reader[c] => reader'[c] \in {"copied", "strayed"}
                                              /\ reader[c] \in {"leftover", "copied"}
    BY <2>1
  <2> HIDE DEF TypeOK, ExecutorTypeOK, AtEOF, Succeeding, Answered
  <2>5. QED
    BY <2>2, <2>3, <2>4
<1>12. CASE CommandRuns \/ Around
  <2>1. UNCHANGED runVars /\ UNCHANGED got
    BY <1>12 DEF CommandRuns, CommandEnds, CommandWrites, Around, CommandLost, executorVars
  <2>2. CASE UNCHANGED <<command, wrote>>
    BY <2>1, <2>2 DEF runVars
  <2>3. CASE command = "running"
    <3>1. ~Succeeding /\ ~Answered /\ ~AtEOF
      BY <2>3 DEF AnswerInv, Ended
    <3>2. ~Succeeding' /\ ~Answered'
      BY <2>1, <3>1, <2>3, <1>12
         DEF runVars, CommandRuns, CommandEnds, CommandWrites, Around, CommandLost, executorVars,
             Ended
    <3> HIDE DEF TypeOK, ExecutorTypeOK, AtEOF, Succeeding, Answered
    <3>3. QED
      BY <2>1, <3>1, <3>2 DEF runVars
  <2>4. QED
    BY <1>12, <2>2, <2>3
       DEF CommandRuns, CommandEnds, CommandWrites, Around, CommandLost, executorVars
<1>13. QED
  BY <1>1, <1>2, <1>3, <1>4, <1>5, <1>6, <1>7, <1>8, <1>9, <1>10, <1>11, <1>12 DEF Main, Reader

LEMMA AnswerStep ==
  ASSUME TypeOK, AttemptsInv, ExecutorInv, AnswerInv, Main \/ Reader \/ CommandRuns \/ Around
  PROVE  AnswerInv'
<1> USE DEF AnswerInv, Answered, Returned, Goes
<1>1. CASE Begin \/ Skip \/ NextAttempt \/ GiveUp
  BY <1>1 DEF Begin, Skip, NextAttempt, GiveUp, executorVars
<1>2. CASE Initialize \/ InitializeFails \/ Start \/ StartCommandFails
  BY <1>2 DEF Initialize, InitCommand, InitializeFails, InitCommandFails, Start, StartCommand,
              StartCommandFails, StartFails
<1>3. CASE ReceiveError \/ ReceiveNil \/ Wait \/ FlushOutput
  BY <1>3 DEF ReceiveError, ReceiveNil, Wait, FlushOutput, executorVars
<1>4. CASE Close
  BY <1>4 DEF Close, CloseExecutor, Ended, AttemptsInv, Busy
<1>5. CASE Reader
  <2>1. UNCHANGED <<command, wrote, plan, pc, oldsuccess, outcome>>
    BY <1>5 DEF Reader, ReadString, ReadEOF, ReadFails, LeftoverCopied, LeftoverPrinted,
                LeftoverLost, ReadLine, runVars, executorVars
  <2>2. QED
    BY <2>1
<1>6. CASE CommandRuns \/ Around
  BY <1>6 DEF CommandRuns, CommandEnds, CommandWrites, Around, CommandLost, runVars, executorVars
<1>7. QED
  BY <1>1, <1>2, <1>3, <1>4, <1>5, <1>6 DEF Main

\* A goroutine that goes astray never comes back.
LEMMA RaceFreeStep ==
  ASSUME TypeOK, AttemptsInv, ReaderInv, Main \/ Reader \/ CommandRuns \/ Around, RaceFree'
  PROVE  RaceFree
<1> USE DEF TypeOK, ReaderInv, RaceFree
<1>1. CASE UNCHANGED reader
  BY <1>1
<1>2. CASE Initialize \/ StartCommandFails \/ ReceiveError \/ ReceiveNil
  BY <1>2 DEF Initialize, StartCommandFails, ReceiveError, ReceiveNil, Goes
<1>3. CASE ReadEOF \/ ReadFails
  BY <1>3 DEF ReadEOF, ReadFails, ReaderGoes
<1>4. CASE \E a \in Attempts : LeftoverCopied(a) \/ LeftoverPrinted(a) \/ LeftoverLost(a)
  BY <1>4 DEF LeftoverCopied, LeftoverPrinted, LeftoverLost
<1>5. QED
  BY <1>1, <1>2, <1>3, <1>4
     DEF Main, Begin, Skip, NextAttempt, GiveUp, InitializeFails, Start, Wait, FlushOutput, Close,
         Reader, ReadString, CommandRuns, Around, runVars

LEMMA BufferStep ==
  ASSUME TypeOK, AttemptsInv, ReaderInv, BufferInv, Main \/ Reader \/ CommandRuns \/ Around
  PROVE  BufferInv'
<1> USE DEF BufferInv, StreamMatchesConsole, Answered, Returned, Goes
<1>1. RaceFree' => RaceFree
  BY RaceFreeStep
<1>2. PsbTypeOK(Line)
  BY DEF TypeOK
<1>3. CASE Begin \/ Skip \/ NextAttempt \/ GiveUp
  <2>1. Announce /\ pc' # "close" /\ ~Answered'
    BY <1>3 DEF Begin, Skip, NextAttempt, GiveUp
  <2>2. QED
    BY <1>1, <1>2, <2>1, AnnounceKeeps
<1>4. CASE FlushOutput
  <2>1. FlushToQueue /\ pc' = "close" /\ err' = FlushFails
    BY <1>4 DEF FlushOutput
  <2>2. QED
    BY <1>1, <1>2, <2>1, FlushKeeps
<1>5. CASE ReadString
  <2>1. PrintAfter(message, <<NextLine>>, FALSE) /\ UNCHANGED <<pc, oldsuccess, outcome, err>>
    BY <1>5 DEF ReadString, PsbPrint, runVars
  <2>2. pc \in {"start", "await"}
    BY <1>5 DEF ReadString, ReaderInv
  <2>3. <<NextLine>> \in Seq(Line) /\ message \in Seq(Line)
    BY <1>2, <1>5, SourceTypes DEF ReadString, PsbTypeOK
  <2>4. streamed' \o message' = (streamed \o message) \o <<NextLine>>
        /\ console' = console \o <<NextLine>> /\ (counter' = 0 => message' = <<>>)
    BY <1>2, <2>1, <2>3, PrintKeeps
  <2>5. QED
    BY <1>1, <2>1, <2>2, <2>4
<1>6. ASSUME NEW a \in Attempts, LeftoverPrinted(a)
      PROVE  BufferInv'
  <2>1. stale[a] \in Seq(Line) /\ <<>> \in Seq(Line)
    BY EmptySeq DEF TypeOK
  <2>2. counter' = 0 => message' = <<>>
    BY <1>2, <1>6, <2>1, PrintKeeps DEF LeftoverPrinted
  <2>3. ~RaceFree'
    BY <1>6 DEF LeftoverPrinted, RaceFree, TypeOK
  <2>4. QED
    BY <2>2, <2>3
<1>7. ASSUME UNCHANGED <<streamed, message, console, counter>>,
             (pc' = "close" /\ ~err') \/ Answered' => (pc = "close" /\ ~err) \/ Answered
      PROVE  BufferInv'
  BY <1>1, <1>7
<1>8. CASE Initialize \/ InitializeFails \/ Start \/ StartCommandFails \/ ReceiveError \/ ReceiveNil
  BY <1>7, <1>8 DEF Initialize, InitializeFails, Start, StartCommandFails, ReceiveError,
                    ReceiveNil, psbVars
<1>9. CASE Wait
  BY <1>7, <1>9 DEF Wait, psbVars
<1>10. CASE Close
  BY <1>7, <1>10 DEF Close, psbVars
<1>11. CASE ReadEOF \/ ReadFails
  BY <1>7, <1>11 DEF ReadEOF, ReadFails, psbVars
<1>12. ASSUME NEW a \in Attempts, LeftoverCopied(a) \/ LeftoverLost(a)
       PROVE  BufferInv'
  BY <1>7, <1>12 DEF LeftoverCopied, LeftoverLost, psbVars
<1>13. CASE CommandRuns \/ Around
  BY <1>7, <1>13 DEF CommandRuns, Around, StreamLost, psbVars, runVars
<1>14. QED
  BY <1>3, <1>4, <1>5, <1>6, <1>8, <1>9, <1>10, <1>11, <1>12, <1>13 DEF Main, Reader

\* A line that is read is shown behind those that were.
LEMMA ReadShows ==
  ASSUME TypeOK, AttemptsInv, ReaderInv, ConsoleInv, ReadString
  PROVE  ConsoleInv'
<1> DEFINE before == Len(console) - (got["out"] + got["err"])
           line == <<retry, Source, got[Source] + 1>>
<1>1. console \in Seq(Line) /\ got \in [Streams -> Nat] /\ Len(console) \in Nat
  BY DEF TypeOK, PsbTypeOK, ExecutorTypeOK
<1>2. console' = Append(console, line)
  <2>1. PrintAfter(message, <<NextLine>>, FALSE) /\ NextLine \in Line
    BY SourceTypes DEF ReadString, PsbPrint
  <2>2. console' = console \o <<NextLine>>
    BY <2>1 DEF PrintAfter
  <2>3. QED
    BY <1>1, <2>1, <2>2, AppendIsConcat DEF NextLine
<1>3. line \in Line /\ line[1] = retry /\ Source \in Streams
  BY SourceTypes DEF ReadString, NextLine
<1>4. /\ Len(console') = Len(console) + 1
      /\ \A i \in 1 .. Len(console) : console'[i] = console[i]
      /\ console'[Len(console) + 1] = line
  BY <1>1, <1>2, <1>3, AppendProperties
<1>5. UNCHANGED <<pc, retry, err, oldsuccess, outcome, command, wrote>>
      /\ got' = [got EXCEPT ![Source] = @ + 1] /\ pc \in {"start", "await"}
  BY DEF ReadString, ReadLine, runVars, ReaderInv
<1>6. \A i \in 1 .. Len(console') : console'[i][1] <= retry
  BY <1>1, <1>3, <1>4 DEF ConsoleInv, AttemptsInv
<1>7. before \in Nat
      /\ (\A i \in 1 .. before : console[i][1] < retry)
      /\ (\A i \in 1 .. got["out"] : console[before + i] = <<retry, "out", i>>)
      /\ (\A i \in 1 .. got["err"] : console[before + got["out"] + i] = <<retry, "err", i>>)
  BY <1>1, <1>5 DEF ConsoleInv, Shows, Held, Streams
<1>8. got["err"] > 0 => Source = "err"
  BY <1>5 DEF ConsoleInv, Held, Source
<1>9. Source = "err" => command \in Ended /\ got["out"] = wrote["out"]
  BY DEF Source
<1>10. got["out"] \in Nat /\ got["err"] \in Nat /\ Len(console) = before + got["out"] + got["err"]
  BY <1>1, <1>7 DEF Streams
<1> HIDE DEF before, line
<1>11. CASE Source = "out"
  <2>1. got'["out"] = got["out"] + 1 /\ got'["err"] = 0 /\ got["err"] = 0
    BY <1>1, <1>5, <1>8, <1>10, <1>11 DEF Streams
  <2>2. line = <<retry, "out", got["out"] + 1>>
    BY <1>11 DEF line
  <2>3. Len(console') - (got'["out"] + got'["err"]) = before
    BY <1>4, <1>7, <1>10, <2>1
  <2>4. \A i \in 1 .. before : console'[i][1] < retry
    BY <1>4, <1>7, <1>10
  <2>5. \A i \in 1 .. got'["out"] : console'[before + i] = <<retry, "out", i>>
    <3> SUFFICES ASSUME NEW i \in 1 .. got'["out"] PROVE console'[before + i] = <<retry, "out", i>>
      OBVIOUS
    <3>1. CASE i \in 1 .. got["out"]
      <4>1. before + i \in 1 .. Len(console)
        BY <1>7, <1>10, <3>1
      <4>2. QED
        BY <1>4, <1>7, <3>1, <4>1
    <3>2. CASE i = got["out"] + 1
      <4>1. before + i = Len(console) + 1
        BY <1>7, <1>10, <2>1, <3>2
      <4>2. QED
        BY <1>4, <2>2, <3>2, <4>1
    <3>3. QED
      BY <1>10, <2>1, <3>1, <3>2
  <2>6. Shows(retry)'
    BY <1>5, <1>7, <2>1, <2>3, <2>4, <2>5 DEF Shows
  <2>7. QED
    BY <1>5, <1>6, <2>1, <2>6 DEF ConsoleInv
<1>12. CASE Source = "err"
  <2>1. got'["err"] = got["err"] + 1 /\ got'["out"] = got["out"]
    BY <1>1, <1>5, <1>12 DEF Streams
  <2>2. line = <<retry, "err", got["err"] + 1>>
    BY <1>12 DEF line
  <2>3. Len(console') - (got'["out"] + got'["err"]) = before
    BY <1>4, <1>7, <1>10, <2>1
  <2>4. \A i \in 1 .. before : console'[i][1] < retry
    BY <1>4, <1>7, <1>10
  <2>5. \A i \in 1 .. got'["out"] : console'[before + i] = <<retry, "out", i>>
    <3>1. \A i \in 1 .. got["out"] : before + i \in 1 .. Len(console)
      BY <1>7, <1>10
    <3>2. QED
      BY <1>4, <1>7, <2>1, <3>1
  <2>6. \A i \in 1 .. got'["err"] : console'[before + got'["out"] + i] = <<retry, "err", i>>
    <3> SUFFICES ASSUME NEW i \in 1 .. got'["err"]
                 PROVE  console'[before + got["out"] + i] = <<retry, "err", i>>
      BY <2>1
    <3>1. CASE i \in 1 .. got["err"]
      <4>1. before + got["out"] + i \in 1 .. Len(console)
        BY <1>7, <1>10, <3>1
      <4>2. QED
        BY <1>4, <1>7, <3>1, <4>1
    <3>2. CASE i = got["err"] + 1
      <4>1. before + got["out"] + (got["err"] + 1) = Len(console) + 1
        <5>1. before \in Nat
          BY <1>7
        <5>2. got["err"] \in Nat /\ got["out"] \in Nat
              /\ Len(console) = before + got["out"] + got["err"]
          BY <1>10
        <5> HIDE DEF TypeOK, ConsoleInv
        <5>3. QED
          BY <5>1, <5>2
      <4>2. QED
        BY <1>4, <2>2, <3>2, <4>1
    <3>3. QED
      BY <1>10, <2>1, <3>1, <3>2
  <2>7. Shows(retry)'
    <3> DEFINE now == Len(console') - (got'["out"] + got'["err"])
    <3>1. now = before
      BY <2>3
    <3> HIDE DEF now
    <3>2. /\ now >= 0
          /\ \A i \in 1 .. now : console'[i][1] < retry'
          /\ \A i \in 1 .. got'["out"] : console'[now + i] = <<retry', "out", i>>
          /\ \A i \in 1 .. got'["err"] : console'[now + got'["out"] + i] = <<retry', "err", i>>
      BY <1>5, <1>7, <2>4, <2>5, <2>6, <3>1
    <3>3. QED
      BY <3>2 DEF Shows, now
  <2>8. QED
    BY <1>5, <1>6, <1>9, <1>12, <2>1, <2>7 DEF ConsoleInv
<1>13. QED
  BY <1>3, <1>11, <1>12 DEF Streams

LEMMA ConsoleStep ==
  ASSUME TypeOK, AttemptsInv, ExecutorInv, ReaderInv, ConsoleInv,
         Main \/ Reader \/ CommandRuns \/ Around
  PROVE  ConsoleInv'
<1> USE DEF ConsoleInv, Held, Answered, Returned, Goes, Succeeding
<1>1. console \in Seq(Line) /\ Len(console) \in Nat /\ PsbTypeOK(Line)
      /\ \A i \in 1 .. Len(console) : console[i][1] \in Int
  <2>1. console \in Seq(Line) /\ Len(console) \in Nat /\ PsbTypeOK(Line)
    BY DEF TypeOK, PsbTypeOK
  <2>2. \A i \in 1 .. Len(console) : console[i] \in Line
    BY <2>1, ElementOfSeq
  <2>3. QED
    BY <2>1, <2>2 DEF Line, Attempts
<1>2. CASE Begin \/ Skip \/ NextAttempt \/ GiveUp
  <2>1. UNCHANGED <<console, got, command, wrote>>
    BY <1>1, <1>2, AnnounceKeeps DEF Begin, Skip, NextAttempt, GiveUp, executorVars
  <2>2. pc' \notin Held /\ ~Answered' /\ retry \in Nat /\ (retry' = retry \/ retry' = retry + 1)
        /\ (pc' = "init" => retry' = retry + 1)
    BY <1>2 DEF Begin, Skip, NextAttempt, GiveUp, AttemptsInv
  <2>3. QED
    BY <1>1, <2>1, <2>2
<1>3. CASE Initialize
  <2>1. UNCHANGED <<console, retry>> /\ got' = Nothing /\ pc = "init" /\ pc' = "start"
    BY <1>3 DEF Initialize, InitCommand, psbVars
  <2>2. got'["out"] = 0 /\ got'["err"] = 0
    BY <2>1 DEF Nothing, Streams
  <2>3. Shows(retry)'
    BY <1>1, <2>1, <2>2 DEF Shows
  <2>4. QED
    BY <2>1, <2>2, <2>3
<1>4. ASSUME UNCHANGED <<console, retry, got>>, pc' # "init" \/ pc = "init",
             pc' \in Held \/ Answered' => pc \in Held \/ Answered,
             pc' \in Held /\ got["err"] > 0 => pc \in Held
               /\ (command \in Ended => command' \in Ended) /\ (command' = "running" \/ wrote' = wrote)
      PROVE  ConsoleInv'
  <2>1. pc' \in Held \/ Answered' => Shows(retry)'
    BY <1>4 DEF Shows
  <2>2. pc' \in Held /\ got["err"] > 0 => command' \in Ended /\ got["out"] = wrote'["out"]
    BY <1>4 DEF Ended
  <2>3. QED
    BY <1>4, <2>1, <2>2
<1>5. CASE InitializeFails
  BY <1>4, <1>5 DEF InitializeFails, InitCommandFails, psbVars
<1>6. CASE Start \/ StartCommandFails
  <2>1. got["err"] > 0 => FALSE
    BY <1>6 DEF Start, StartCommandFails, ExecutorInv, Ended
  <2>2. QED
    BY <1>4, <1>6, <2>1 DEF Start, StartCommand, StartCommandFails, StartFails, psbVars
<1>7. CASE ReceiveError \/ ReceiveNil \/ Wait
  BY <1>4, <1>7 DEF ReceiveError, ReceiveNil, Wait, psbVars, executorVars
<1>8. CASE FlushOutput
  <2>1. UNCHANGED console
    BY <1>8 DEF FlushOutput, FlushToQueue
  <2>2. QED
    BY <1>4, <1>8, <2>1 DEF FlushOutput, executorVars
<1>9. CASE Close
  BY <1>4, <1>9 DEF Close, CloseExecutor, psbVars
<1>10. CASE ReadString
  BY <1>10, ReadShows
<1>11. CASE ReadEOF \/ ReadFails
  BY <1>4, <1>11 DEF ReadEOF, ReadFails, psbVars, executorVars
<1>12. ASSUME NEW a \in Attempts, LeftoverCopied(a) \/ LeftoverPrinted(a) \/ LeftoverLost(a)
       PROVE  ConsoleInv'
  <2>1. UNCHANGED console
    BY <1>1, <1>12, ConcatEmptySeq
       DEF LeftoverCopied, LeftoverPrinted, LeftoverLost, PrintAfter, psbVars
  <2>2. QED
    BY <1>4, <1>12, <2>1 DEF LeftoverCopied, LeftoverPrinted, LeftoverLost, executorVars
<1>13. CASE CommandRuns \/ Around
  <2>1. UNCHANGED <<console, got, retry, pc, oldsuccess, outcome>>
    BY <1>13 DEF CommandRuns, CommandEnds, CommandWrites, Around, CommandLost, StreamLost,
                 runVars, psbVars, executorVars
  <2>2. /\ command \in Ended => command' \in Ended
        /\ command \in Ended => wrote' = wrote
    BY <1>13 DEF CommandRuns, CommandEnds, CommandWrites, Around, CommandLost, Ended, executorVars
  <2>3. pc' \in Held /\ got'["err"] > 0 => command' \in Ended /\ got'["out"] = wrote'["out"]
    BY <2>1, <2>2
  <2>4. pc' \in Held \/ Answered' => Shows(retry)'
    BY <2>1 DEF Shows
  <2>5. QED
    BY <2>1, <2>3, <2>4
<1>14. QED
  BY <1>2, <1>3, <1>5, <1>6, <1>7, <1>8, <1>9, <1>10, <1>11, <1>12, <1>13 DEF Main, Reader

-----------------------------------------------------------------------------
(* The invariant, and what it is for. *)

LEMMA InitOutput == Init => OutputInv
<1> SUFFICES ASSUME Init PROVE OutputInv
  OBVIOUS
<1> USE EmptySeq DEF Init, ExecutorInit, PsbInit, Nothing
<1>1. TypeOK
  <2>1. ExecutorTypeOK /\ PsbTypeOK(Line)
    BY DEF ExecutorTypeOK, PsbTypeOK
  <2>2. retry \in 0 .. RetryLoopCount + 1 /\ errList \in 0 .. RetryLoopCount
    BY RetryLoopCountAssumption
  <2>3. stale \in [Attempts -> Seq(Line)]
    OBVIOUS
  <2>4. QED
    BY <2>1, <2>2, <2>3 DEF TypeOK
<1>2. ExecutorInv
  BY DEF ExecutorInv, Held
<1>3. ReaderInv
  BY DEF ReaderInv, Succeeding, Answered
<1>4. BufferInv
  <2>1. streamed \o message = console
    OBVIOUS
  <2>2. QED
    BY <2>1 DEF BufferInv, StreamMatchesConsole
<1>5. ConsoleInv
  BY DEF ConsoleInv, Held, Answered
<1>6. AnswerInv
  BY DEF AnswerInv, Answered
<1>7. QED
  BY <1>1, <1>2, <1>3, <1>4, <1>5, <1>6 DEF OutputInv

LEMMA StutterOutput ==
  ASSUME OutputInv, UNCHANGED vars
  PROVE  OutputInv'
<1> USE DEF OutputInv, vars, executorVars, psbVars, runVars
<1>1. TypeOK' /\ ExecutorInv'
  BY DEF TypeOK, ExecutorTypeOK, PsbTypeOK, ExecutorInv
<1>2. ReaderInv' /\ AnswerInv'
  BY DEF ReaderInv, AnswerInv, AtEOF, Succeeding, Answered, Returned
<1>3. BufferInv' /\ ConsoleInv'
  BY DEF BufferInv, StreamMatchesConsole, RaceFree, ConsoleInv, Shows, Answered, Returned
<1>4. QED
  BY <1>1, <1>2, <1>3

LEMMA OutputInvariance == Spec => []OutputInv
<1>1. AttemptsInv /\ OutputInv /\ [Next]_vars => AttemptsInv' /\ OutputInv'
  <2> SUFFICES ASSUME AttemptsInv, OutputInv, [Next]_vars PROVE OutputInv'
    BY NextAttempts
  <2>1. CASE Main \/ Reader \/ CommandRuns \/ Around
    BY <2>1, MainTypes, OtherTypes, ExecutorStep, ReaderStep, BufferStep, ConsoleStep, AnswerStep
       DEF OutputInv
  <2>2. QED
    BY <2>1, StutterOutput DEF Next
<1>2. QED
  BY <1>1, InitAttempts, InitOutput, PTL DEF Spec

\* Every variable of a command keeps its type: in particular no SSH client is
\* closed that is not open, and no attempt is one too many.
THEOREM CommandTypeCorrect == Spec => []TypeOK
<1>1. OutputInv => TypeOK
  BY DEF OutputInv
<1>2. QED
  BY <1>1, OutputInvariance, PTL

\* However many publishes fail, the buffer neither loses nor repeats a line,
\* as long as no goroutine of a failed read prints beside main.
THEOREM StreamIsConsole == Spec => []StreamMatchesConsole
<1>1. OutputInv => StreamMatchesConsole
  BY DEF OutputInv, BufferInv
<1>2. QED
  BY <1>1, OutputInvariance, PTL

\* The lines of an attempt, by their place.
LEMMA OutputLines ==
  ASSUME NEW a, NEW o \in Nat, NEW e \in Nat, wrote["out"] = o, wrote["err"] = e
  PROVE  /\ Len(Output(a)) = o + e
         /\ \A i \in 1 .. o : Output(a)[i] = <<a, "out", i>>
         /\ \A i \in 1 .. e : Output(a)[o + i] = <<a, "err", i>>
<1> DEFINE L == {a} \X Streams \X Nat
           s == [i \in 1 .. o |-> <<a, "out", i>>]
           t == [i \in 1 .. e |-> <<a, "err", i>>]
<1>1. s \in Seq(L) /\ Len(s) = o /\ t \in Seq(L) /\ Len(t) = e
  BY DEF Streams
<1>2. Output(a) = s \o t
  BY DEF Output
<1>3. (\A i \in 1 .. o : s[i] = <<a, "out", i>>) /\ (\A i \in 1 .. e : t[i] = <<a, "err", i>>)
  OBVIOUS
<1> HIDE DEF L, s, t
<1>4. /\ Len(s \o t) = o + e
      /\ \A i \in 1 .. o : (s \o t)[i] = s[i]
      /\ \A i \in 1 .. e : (s \o t)[o + i] = t[i]
  <2>1. /\ Len(s \o t) = o + e
        /\ \A i \in 1 .. o + e : (s \o t)[i] = IF i <= o THEN s[i] ELSE t[i - o]
    <3>1. /\ Len(s \o t) = Len(s) + Len(t)
          /\ \A i \in 1 .. Len(s) + Len(t) :
               (s \o t)[i] = IF i <= Len(s) THEN s[i] ELSE t[i - Len(s)]
      BY <1>1, ConcatProperties
    <3>2. QED
      BY <1>1, <3>1
  <2>2. \A i \in 1 .. e : o + i \in 1 .. o + e /\ ~(o + i <= o) /\ (o + i) - o = i
    OBVIOUS
  <2>3. \A i \in 1 .. o : i \in 1 .. o + e /\ i <= o
    OBVIOUS
  <2>4. QED
    BY <2>1, <2>2, <2>3
<1>5. QED
  BY <1>2, <1>3, <1>4

\* No result without its output: what runCommand returns is the status of a
\* command that ended, and all its lines were sent, in the order they were
\* read, before it returned, after however many attempts and lost connections.
THEOREM ResultsAreComplete == Spec => []ResultIsComplete
<1>1. AttemptsInv /\ OutputInv => ResultIsComplete
  <2> SUFFICES ASSUME AttemptsInv, OutputInv, RaceFree, Answered
               PROVE  outcome = command /\ wrote = plan /\ EndsWith(streamed, Output(retry), retry)
    BY DEF ResultIsComplete, Answered
  <2>1. outcome = command /\ wrote = plan
    BY DEF OutputInv, AnswerInv, Answered
  <2>2. got = wrote /\ wrote \in [Streams -> Nat]
    BY DEF OutputInv, ReaderInv, AtEOF, TypeOK, ExecutorTypeOK
  <2>3. streamed = console
    <3>1. streamed \in Seq(Line) /\ streamed \o <<>> = console
      BY DEF OutputInv, BufferInv, StreamMatchesConsole, TypeOK, PsbTypeOK
    <3>2. QED
      BY <3>1, ConcatEmptySeq
  <2> DEFINE o == wrote["out"]
             e == wrote["err"]
             before == Len(streamed) - (o + e)
  <2>4. o \in Nat /\ e \in Nat
    BY <2>2 DEF Streams
  <2>5. /\ before >= 0
        /\ \A i \in 1 .. before : streamed[i][1] < retry
        /\ \A i \in 1 .. o : streamed[before + i] = <<retry, "out", i>>
        /\ \A i \in 1 .. e : streamed[before + o + i] = <<retry, "err", i>>
    BY <2>2, <2>3 DEF OutputInv, ConsoleInv, Shows
  <2>6. /\ Len(Output(retry)) = o + e
        /\ \A i \in 1 .. o : Output(retry)[i] = <<retry, "out", i>>
        /\ \A i \in 1 .. e : Output(retry)[o + i] = <<retry, "err", i>>
    BY <2>4, OutputLines
  <2>7. streamed \in Seq(Line) /\ Len(streamed) \in Nat /\ before \in Int
    BY <2>4 DEF OutputInv, TypeOK, PsbTypeOK
  <2> HIDE DEF o, e, before
  <2>8. \A i \in 1 .. before : streamed[i][1] # retry
    <3> SUFFICES ASSUME NEW i \in 1 .. before, streamed[i][1] = retry PROVE FALSE
      OBVIOUS
    <3>1. retry < retry /\ retry \in Nat
      BY <2>5 DEF AttemptsInv
    <3>2. QED
      BY <3>1
  <2>9. \A i \in 1 .. o + e : streamed[before + i] = Output(retry)[i]
    <3> SUFFICES ASSUME NEW i \in 1 .. o + e PROVE streamed[before + i] = Output(retry)[i]
      OBVIOUS
    <3>1. CASE i \in 1 .. o
      BY <2>5, <2>6, <3>1
    <3>2. CASE i \notin 1 .. o
      <4>1. i - o \in 1 .. e /\ before + o + (i - o) = before + i /\ o + (i - o) = i
        BY <2>4, <2>7, <3>2
      <4>2. streamed[before + o + (i - o)] = <<retry, "err", i - o>>
            /\ Output(retry)[o + (i - o)] = <<retry, "err", i - o>>
        BY <2>5, <2>6, <4>1
      <4>3. QED
        BY <4>1, <4>2
    <3>3. QED
      BY <3>1, <3>2
  <2>10. EndsWith(streamed, Output(retry), retry)
    <3>1. before = Len(streamed) - Len(Output(retry))
      BY <2>6 DEF before
    <3>2. QED
      BY <2>5, <2>6, <2>8, <2>9, <3>1 DEF EndsWith
  <2>11. QED
    BY <2>1, <2>10
<1>2. Spec => []AttemptsInv
  BY InitAttempts, NextAttempts, PTL DEF Spec
<1>3. QED
  BY <1>1, <1>2, OutputInvariance, PTL

=============================================================================
