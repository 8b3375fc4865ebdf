-------------------------------- MODULE Work --------------------------------
(***************************************************************************)
(* The work command (pkg/ci-firewall/cli/worker): it checks that its node  *)
(* files are there, reads them, chooses nodes of their groups, runs the    *)
(* tests on these nodes, and exits with what they came to.  Other builds   *)
(* of the request and addnode processes go on meanwhile.                   *)
(***************************************************************************)
EXTENDS NodeFile, TestRun

CONSTANT Jobs  \* the requests, each with the options of its builds

Job == [kind : {"PR", "BRANCH", "TAG"}, git : BOOLEAN, setup : BOOLEAN, url : BOOLEAN,
        sshNodesFiles : Seq(Files), processNodeGroup : {"", "random-one-per-group"}]

ASSUME WorkAssumption == Jobs \subseteq Job /\ Local \notin Node

VARIABLES
  phase,  \* phase[w]: how far the command of worker w is
  next,   \* next[w]: the position of the node file it reads next
  list,   \* list[w]: the nodes it has read
  exit    \* exit[w]: how it ended

workVars == <<phase, next, list, exit>>

vars == <<job, fileVars, runVars, workVars>>

TypeOK ==
  /\ job \in Jobs
  /\ FileTypeOK
  /\ RunTypeOK(Node \union {Local})
  /\ phase \in [Workers -> {"validate", "read", "group", "run", "end"}]
  /\ next \in [Workers -> Nat \ {0}]
  /\ list \in [Workers -> Seq(Node)]
  /\ exit \in [Workers -> {"none", "passed", "failed", "error", "panic"}]

\* A build that is never started is at its end.
Init ==
  /\ job \in Jobs
  /\ FileInit
  /\ RunInit
  /\ phase \in [Workers -> {"validate", "end"}]
  /\ next = [w \in Workers |-> 1]
  /\ list = [w \in Workers |-> <<>>]
  /\ exit = [w \in Workers |-> "none"]

Passes(w, from, to) == phase[w] = from /\ phase' = [phase EXCEPT ![w] = to]

Exits(w, from, how) == Passes(w, from, "end") /\ exit' = [exit EXCEPT ![w] = how]

-----------------------------------------------------------------------------

\* Validate: every node file can be stat-ed.
Validate(w) ==
  /\ IF \E f \in Listed(job.sshNodesFiles) : file[f].state = "missing"
     THEN Exits(w, "validate", "error")
     ELSE Passes(w, "validate", "read") /\ UNCHANGED exit
  /\ UNCHANGED <<job, fileVars, runVars, next, list>>

\* Mutant of NodesFromFile: what does not parse is no node.
NodesFromAnyFile(w) ==
  /\ phase[w] = "read"
  /\ next[w] <= Len(job.sshNodesFiles)
  /\ list' = [list EXCEPT ![w] = @ \o file[job.sshNodesFiles[next[w]]].nodes]
  /\ next' = [next EXCEPT ![w] = @ + 1]
  /\ UNCHANGED <<job, fileVars, runVars, phase, exit>>

\* NodesFromFiles reads one file after the other.
NodesFromFile(w) ==
  /\ phase[w] = "read"
  /\ next[w] <= Len(job.sshNodesFiles)
  /\ LET f == file[job.sshNodesFiles[next[w]]] IN
     IF f.state = "list"
     THEN /\ list' = [list EXCEPT ![w] = @ \o f.nodes]
          /\ next' = [next EXCEPT ![w] = @ + 1]
          /\ UNCHANGED <<phase, exit>>
     ELSE /\ Exits(w, "read", "error")
          /\ UNCHANGED <<next, list>>
  /\ UNCHANGED <<job, fileVars, runVars>>

NodesRead(w) ==
  /\ next[w] > Len(job.sshNodesFiles)
  /\ Passes(w, "read", "group")
  /\ UNCHANGED <<job, fileVars, runVars, next, list, exit>>

\* Without node files the list is nil, and the test is run locally.
RunLocally(w) ==
  /\ job.sshNodesFiles = <<>>
  /\ job.processNodeGroup = ""
  /\ Passes(w, "group", "run")
  /\ StartRun(w, <<Local>>)
  /\ UNCHANGED <<job, fileVars, next, list, exit>>

\* ProcessNodeGroup takes the nodes of a list that is nil.
Panics(w) ==
  /\ job.sshNodesFiles = <<>>
  /\ job.processNodeGroup # ""
  /\ Exits(w, "group", "panic")
  /\ UNCHANGED <<job, fileVars, runVars, next, list>>

RunOnNodes(w) ==
  /\ job.sshNodesFiles # <<>>
  /\ Passes(w, "group", "run")
  /\ \E nl \in ProcessNodeGroup(list[w], job.processNodeGroup) : StartRun(w, nl)
  /\ list' = [list EXCEPT ![w] = <<>>]
  /\ UNCHANGED <<job, fileVars, next, exit>>

WorkerRuns(w) ==
  /\ RunStep(w) \/ Killed(w)
  /\ UNCHANGED <<job, fileVars, workVars>>

\* What Run of the command makes of what Run of the worker returned.
ExitWith(w) ==
  /\ pc[w] = "returned"
  /\ Exits(w, "run", result[w])
  /\ UNCHANGED <<job, fileVars, runVars, next, list>>

WorkStep(w) ==
  Validate(w) \/ NodesFromFile(w) \/ NodesRead(w) \/ RunLocally(w) \/ Panics(w)
    \/ RunOnNodes(w) \/ WorkerRuns(w) \/ ExitWith(w)

AddNode(a) == AddNodeToFile(a) /\ UNCHANGED <<job, runVars, workVars>>

Next == (\E w \in Workers : WorkStep(w)) \/ (\E a \in Adders : AddNode(a))

Spec == Init /\ [][Next]_vars

\* Processes are scheduled, and a command ends or its attempt does.
FairSpec == Spec /\ \A w \in Workers : WF_vars(WorkStep(w))

-----------------------------------------------------------------------------

\* Whether a test on node m does for node n.
Covers(m, n) ==
  \/ m = n
  \/ job.processNodeGroup # "" /\ m.group = n.group

\* No node is left out: a success covers every node the files held from the
\* start, or one of its group, with a script command that passed there,
\* whatever is written to the files meanwhile and however that is cut off.
SuccessCoversFiles ==
  \A w \in Workers : exit[w] = "passed" =>
    \A f \in Listed(job.sshNodesFiles) : \A n \in Listed(OldFiles[f].nodes) :
      \E i \in 1 .. Len(nodes[w]) : Covers(nodes[w][i], n) /\ tested[w][i].tree # "none"

\* With nodes or without, whatever fails: the command comes to an end.
WorkEnds == \A w \in Workers : <>(phase[w] = "end" \/ pc[w] = "killed")

=============================================================================
