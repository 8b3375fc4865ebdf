----------------------------- MODULE RunCommand -----------------------------
(***************************************************************************)
(* What Worker.runCommand promises its callers, without processes, output  *)
(* or connections: "returns success and error".  TestRun is written with   *)
(* these steps; Command implements them.                                   *)
(***************************************************************************)
EXTENDS Integers

CONSTANTS
  RetryLoopCount,
  StatusIsError   \* whether an exit status is an error (the local executor)

VARIABLES
  oldsuccess,  \* whether the command before this one succeeded
  errors,      \* attempts that ended in an error
  outcome      \* what runCommand returned

vars == <<oldsuccess, errors, outcome>>

Init ==
  /\ oldsuccess \in BOOLEAN
  /\ errors = 0
  /\ outcome = "none"

Returns(how) ==
  /\ outcome = "none"
  /\ outcome' = how
  /\ UNCHANGED <<oldsuccess, errors>>

Skip == ~oldsuccess /\ Returns("failed")

CommandPasses == oldsuccess /\ errors < RetryLoopCount /\ Returns("passed")

CommandFails == oldsuccess /\ ~StatusIsError /\ errors < RetryLoopCount /\ Returns("failed")

AttemptErrs ==
  /\ oldsuccess
  /\ outcome = "none"
  /\ errors < RetryLoopCount
  /\ errors' = errors + 1
  /\ UNCHANGED <<oldsuccess, outcome>>

\* Only when every attempt it was allowed has failed.
GiveUp == errors = RetryLoopCount /\ Returns("error")

Next == Skip \/ CommandPasses \/ CommandFails \/ AttemptErrs \/ GiveUp

Spec == Init /\ [][Next]_vars

=============================================================================
