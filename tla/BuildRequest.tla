---------------------------- MODULE BuildRequest ----------------------------
(***************************************************************************)
(* What ci-firewall promises those who ask for builds, without queues,     *)
(* messages or processes: a build's tests end at most once, a request is   *)
(* answered at most once, and the answer is one some build justifies.      *)
(***************************************************************************)
CONSTANTS
  Requestors, Builds,
  Candidates   \* Candidates[r]: the set of builds that may answer r

VARIABLES
  tested,   \* tested[b]: how the tests of b went, when that is known
  answer    \* answer[r]: what r was told

Init ==
  /\ tested = [b \in Builds |-> "pending"]
  /\ answer = [r \in Requestors |-> "none"]

TestsEnd(b, how) ==
  /\ tested[b] = "pending"
  /\ tested' = [tested EXCEPT ![b] = how]
  /\ UNCHANGED answer

Answer(r, how) ==
  /\ answer[r] = "none"
  /\ \E b \in Candidates[r] : tested[b] = how
  /\ answer' = [answer EXCEPT ![r] = how]
  /\ UNCHANGED tested

GiveUp(r) ==
  /\ answer[r] = "none"
  /\ answer' = [answer EXCEPT ![r] = "timedOut"]
  /\ UNCHANGED tested

Next ==
  \/ \E b \in Builds, how \in {"passed", "failed"} : TestsEnd(b, how)
  \/ \E r \in Requestors, how \in {"passed", "failed"} : Answer(r, how)
  \/ \E r \in Requestors : GiveUp(r)

Spec == Init /\ [][Next]_<<tested, answer>>

=============================================================================
