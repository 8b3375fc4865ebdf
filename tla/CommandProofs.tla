---------------------------- MODULE CommandProofs ---------------------------
(***************************************************************************)
(* Command implements RunCommand, for any number of attempts, any executor *)
(* and any faults.                                                         *)
(***************************************************************************)
EXTENDS Command, TLAPS

Busy == {"init", "start", "await", "wait", "flush", "close"}

\* Between attempts all of them have failed, during one all but that; and what
\* an attempt without an error is about to return is the status of a command
\* that ended, which neither the executor nor a lost connection turns into an
\* error any more.
AttemptsInv ==
  /\ retry \in Nat /\ errList \in Nat /\ err \in BOOLEAN
  /\ pc = "begin" => retry = 0 /\ errList = 0
  /\ pc = "loop" => retry = errList /\ retry <= RetryLoopCount
  /\ pc \in Busy => retry = errList + 1 /\ retry <= RetryLoopCount
  /\ pc \in Busy \union {"loop"} => oldsuccess
  /\ pc # "returned" => outcome = "none"
  /\ pc = "flush" \/ (pc = "close" /\ ~err) =>
       command = "passed" \/ (command = "failed" /\ Kind # "local")

LEMMA InitAttempts ==
  ASSUME Init
  PROVE  AttemptsInv
BY DEF Init, AttemptsInv, Busy

\* The goroutines and the command leave alone what main counts; a command that
\* has ended has ended.
LEMMA OthersKeepAttempts ==
  ASSUME AttemptsInv, UNCHANGED <<oldsuccess, pc, retry, errList, err, outcome>>,
         command' = command \/ command \notin {"passed", "failed"}
  PROVE  AttemptsInv'
BY DEF AttemptsInv, Busy

LEMMA ReaderKeepsMain ==
  ASSUME Reader \/ CommandRuns \/ Around
  PROVE  /\ UNCHANGED <<oldsuccess, pc, retry, errList, err, outcome>>
         /\ command' = command \/ command \notin {"passed", "failed"}
<1>1. CASE Reader
  BY <1>1 DEF Reader, ReadString, ReadEOF, ReadFails, LeftoverCopied, LeftoverPrinted, LeftoverLost,
              ReadLine, runVars, executorVars
<1>2. CASE CommandRuns
  BY <1>2 DEF CommandRuns, CommandEnds, CommandWrites, runVars
<1>3. CASE Around
  BY <1>3 DEF Around, CommandLost, runVars, executorVars
<1>4. QED
  BY <1>1, <1>2, <1>3

\* Every step of main counts, and is a step of RunCommand or one it does not see.
LEMMA MainAttempts ==
  ASSUME AttemptsInv, Main
  PROVE  AttemptsInv' /\ (Abstract!Next \/ UNCHANGED Abstract!vars)
<1> USE RetryLoopCountAssumption DEF AttemptsInv, Busy, Goes, Abstract!vars
<1>1. CASE Begin
  BY <1>1 DEF Begin, executorVars
<1>2. CASE Skip
  BY <1>2 DEF Skip, executorVars, Abstract!Next, Abstract!Skip, Abstract!Returns
<1>3. CASE NextAttempt
  <2>1. err' \in BOOLEAN
    BY <1>3, Zenon DEF NextAttempt
  <2>2. /\ pc = "loop" /\ pc' = "init" /\ retry < RetryLoopCount /\ retry' = retry + 1
        /\ UNCHANGED <<command, oldsuccess, errList, outcome>>
    BY <1>3 DEF NextAttempt, executorVars
  <2>3. AttemptsInv'
    BY <2>1, <2>2
  <2>4. QED
    BY <2>2, <2>3
<1>4. CASE GiveUp
  BY <1>4 DEF GiveUp, executorVars, Abstract!Next, Abstract!GiveUp, Abstract!Returns
<1>5. CASE Initialize
  BY <1>5 DEF Initialize, InitCommand
<1>6. CASE InitializeFails
  BY <1>6 DEF InitializeFails, Abstract!Next, Abstract!AttemptErrs
<1>7. CASE Start
  BY <1>7 DEF Start
<1>8. CASE StartCommandFails
  BY <1>8 DEF StartCommandFails
<1>9. CASE ReceiveError
  BY <1>9 DEF ReceiveError
<1>10. CASE ReceiveNil
  BY <1>10 DEF ReceiveNil
<1>11. CASE Wait
  BY <1>11 DEF Wait, WaitFails, ExitStatusIsError, Ended, executorVars
<1>12. CASE FlushOutput
  BY <1>12 DEF FlushOutput, FlushFails, executorVars
<1>13. CASE Close
  <2>1. CASE err
    BY <1>13, <2>1 DEF Close, Abstract!Next, Abstract!AttemptErrs
  <2>2. CASE ~err
    BY <1>13, <2>2 DEF Close, CloseExecutor, Abstract!Next, Abstract!CommandPasses, Abstract!CommandFails, Abstract!Returns
  <2>3. QED
    BY <2>1, <2>2
<1>14. QED
  BY <1>1, <1>2, <1>3, <1>4, <1>5, <1>6, <1>7, <1>8, <1>9, <1>10, <1>11, <1>12, <1>13 DEF Main

LEMMA NextAttempts ==
  ASSUME AttemptsInv, [Next]_vars
  PROVE  AttemptsInv' /\ (Abstract!Next \/ UNCHANGED Abstract!vars)
<1>1. CASE Main
  BY <1>1, MainAttempts
<1>2. CASE Reader \/ CommandRuns \/ Around
  BY <1>2, ReaderKeepsMain, OthersKeepAttempts DEF Abstract!vars
<1>3. CASE UNCHANGED vars
  BY <1>3, OthersKeepAttempts DEF vars, runVars, executorVars, Abstract!vars
<1>4. QED
  BY <1>1, <1>2, <1>3 DEF Next

\* runCommand keeps what it promises, whatever fails and however its goroutines
\* interleave: no result but that of a command that ended, and no error before
\* every attempt has failed.
THEOREM CommandImplements == Spec => ImplementsRunCommand
<1>1. Init => AttemptsInv
  BY InitAttempts
<1>2. AttemptsInv /\ [Next]_vars => AttemptsInv'
  BY NextAttempts
<1>3. Init => Abstract!Init
  BY DEF Init, Abstract!Init
<1>4. AttemptsInv /\ [Next]_vars => [Abstract!Next]_(Abstract!vars)
  BY NextAttempts
<1>5. QED
  BY <1>1, <1>2, <1>3, <1>4, PTL DEF Spec, ImplementsRunCommand, Abstract!Spec

=============================================================================
