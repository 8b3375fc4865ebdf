---------------------------- MODULE MCCIFirewall ----------------------------
(***************************************************************************)
(* Instances of CIFirewall for TLC, with the invariant behind verdicts.    *)
(***************************************************************************)
EXTENDS Delivery

CONSTANTS r1, r2, p1

\* Everybody asks for the one project.
OneProject == [r \in Requestors |-> p1]

\* The state without the history of who set out when, on which no step and
\* none of the invariants of a run that takes this view depend.
ButSince == <<queueVars, requests, requestorVars, jenkinsVars, workerVars>>

=============================================================================
