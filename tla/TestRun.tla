------------------------------- MODULE TestRun -------------------------------
(***************************************************************************)
(* Worker.run (pkg/worker/worker.go): the tests of a build on each of its  *)
(* nodes, one node after the other, or on the machine of the worker.  A    *)
(* test is a sequence of commands, each of them a call of runCommand       *)
(* (module Command): skipped, ended with a status, or given up after       *)
(* RetryLoopCount attempts.                                                *)
(*                                                                         *)
(* Builds of one request have the same base directory (its name is that of *)
(* the receive queue) and an instance directory each.  Over SSH the base   *)
(* directory is that of the user on the node; every local build has a      *)
(* Jenkins workspace of its own.                                           *)
(***************************************************************************)
EXTENDS Integers, Sequences

CONSTANTS
  Workers,         \* builds of one request
  RetryLoopCount,
  MaxErrors,       \* bound: execution errors of all workers
  Lenient,         \* machines whose sh takes a "." without a file for a success
  Kill             \* whether workers may be killed

ASSUME TestRunAssumption ==
  /\ RetryLoopCount \in Nat \ {0}
  /\ MaxErrors \in Nat
  /\ Kill \in BOOLEAN

Local == [name |-> "local", group |-> ""]

\* What an instance directory holds: nothing yet, an empty repository
\* directory, a fresh clone, the main branch, main with the pull request
\* merged, the branch or tag.
Repository == {"cloned", "main", "merged", "target"}

Tree == {"none", "empty"} \union Repository

Commands == {"rm", "mkdir", "clone", "user", "email", "fetch", "main", "merge",
             "checkout", "curl", "script", "teardown"}

\* What a run of the script command came to: the tree it was on, whether the
\* pull request had been fetched, and which of the scripts were run.
Verdict == [tree : Tree, fetched : BOOLEAN, scripts : {"none", "run", "both"}]

NotTested == [tree |-> "none", fetched |-> FALSE, scripts |-> "none"]

VARIABLES
  job,      \* the request and the options of its builds
  nodes,    \* nodes[w]: the nodes worker w tests on
  pc,       \* pc[w]: the command worker w is at
  at,       \* at[w]: the position of the node it is on
  status,   \* status[w]: whether the commands on this node succeeded so far
  fetched,  \* fetched[w]: whether the pull request was fetched (status1)
  errors,   \* errors[w]: attempts at this command that ended in an error
  total,    \* total[w]: whether the tests on the nodes so far succeeded
  result,   \* result[w]: what run returned
  tree,     \* tree[w][i]: what the instance directory on the i-th node holds
  tested,   \* tested[w][i]: the script command that passed there (history)
  faults    \* execution errors so far (history)

runVars == <<nodes, pc, at, status, fetched, errors, total, result, tree, tested, faults>>

RunTypeOK(NodeOf) ==
  /\ nodes \in [Workers -> Seq(NodeOf)]
  /\ pc \in [Workers -> Commands \union {"off", "begin", "returned", "killed"}]
  /\ at \in [Workers -> Nat]
  /\ status \in [Workers -> BOOLEAN]
  /\ fetched \in [Workers -> BOOLEAN]
  /\ errors \in [Workers -> 0 .. RetryLoopCount]
  /\ total \in [Workers -> BOOLEAN]
  /\ result \in [Workers -> {"none", "passed", "failed", "error"}]
  /\ tree \in [Workers -> Seq(Tree)]
  /\ tested \in [Workers -> Seq(Verdict)]
  /\ faults \in 0 .. MaxErrors
  /\ \A w \in Workers :
       /\ Len(tree[w]) = Len(nodes[w])
       /\ Len(tested[w]) = Len(nodes[w])
       /\ pc[w] \in Commands \union {"begin"} => at[w] \in 1 .. Len(nodes[w])

RunInit ==
  /\ nodes = [w \in Workers |-> <<>>]
  /\ pc = [w \in Workers |-> "off"]
  /\ at = [w \in Workers |-> 0]
  /\ status = [w \in Workers |-> FALSE]
  /\ fetched = [w \in Workers |-> FALSE]
  /\ errors = [w \in Workers |-> 0]
  /\ total = [w \in Workers |-> TRUE]
  /\ result = [w \in Workers |-> "none"]
  /\ tree = [w \in Workers |-> <<>>]
  /\ tested = [w \in Workers |-> <<>>]
  /\ faults = 0

Here(w) == nodes[w][at[w]]

OnNode(w) == Here(w) # Local

-----------------------------------------------------------------------------
(* Commands on the trees. *)

\* Whether the command has what it needs to end with success.  The SSH
\* executor joins the words of a command with blanks, so that what a node runs
\* is  sh -c . <script>: the "." with no file, which some shells take for an
\* error.
CanPass(w) ==
  LET t == tree[w][at[w]] IN
  /\ pc[w] = "clone" => t \notin Repository
  /\ pc[w] \in {"user", "email", "fetch", "main", "merge", "checkout"} => t \in Repository
  /\ pc[w] \in {"curl", "script"} => t # "none"
  /\ pc[w] = "script" /\ OnNode(w) => Here(w).name \in Lenient

Left(c, t) ==
  CASE c = "mkdir" /\ t = "none" -> "empty"
    [] c = "clone" -> "cloned"
    [] c = "main" -> "main"
    [] c = "merge" -> "merged"
    [] c = "checkout" -> "target"
    [] OTHER -> t

\* Whether the i-th instance directory of x is in the base directory w is at.
SameBase(w, x, i) == nodes[x][i].name = Here(w).name /\ (OnNode(w) \/ x = w)

TreeAfter(w) ==
  [x \in Workers |-> [i \in 1 .. Len(tree[x]) |->
     IF pc[w] \in {"rm", "teardown"}
     THEN IF SameBase(w, x, i) THEN "none" ELSE tree[x][i]
     ELSE IF x = w /\ i = at[w] THEN Left(pc[w], tree[x][i]) ELSE tree[x][i]]]

\* A command that was cut off has had its effect, or has not.
CutOff(w) == IF status[w] /\ CanPass(w) THEN {tree, TreeAfter(w)} ELSE {tree}

\* Behind  && , if there is a setup script, the run script is sourced by the
\* login shell of the node.  A local sh gets both scripts in one word.
ScriptsRun(w) == IF ~OnNode(w) THEN "both" ELSE IF job.setup THEN "run" ELSE "none"

TestedAfter(w) ==
  IF pc[w] = "script"
  THEN [tested EXCEPT ![w][at[w]] =
          [tree |-> tree[w][at[w]], fetched |-> fetched[w], scripts |-> ScriptsRun(w)]]
  ELSE tested

-----------------------------------------------------------------------------
(* What follows a result of runCommand: the code between the calls. *)

Goes(w, c, ok) ==
  /\ pc' = [pc EXCEPT ![w] = c]
  /\ status' = [status EXCEPT ![w] = ok]
  /\ UNCHANGED <<at, total, result>>

\* The end of run, with what it returns.
Return(w, r) ==
  /\ pc' = [pc EXCEPT ![w] = "returned"]
  /\ result' = [result EXCEPT ![w] = r]
  /\ UNCHANGED <<at, status, total>>

\* Mutant of NextNode: the status of the last node decides.
LastNodeDecides(w, ok) ==
  IF at[w] < Len(nodes[w])
  THEN /\ pc' = [pc EXCEPT ![w] = "begin"]
       /\ at' = [at EXCEPT ![w] = @ + 1]
       /\ total' = [total EXCEPT ![w] = ok]
       /\ UNCHANGED <<status, result>>
  ELSE Return(w, IF ok THEN "passed" ELSE "failed")

\* The loop of run, after test.
NextNode(w, ok) ==
  IF at[w] < Len(nodes[w])
  THEN /\ pc' = [pc EXCEPT ![w] = "begin"]
       /\ at' = [at EXCEPT ![w] = @ + 1]
       /\ total' = [total EXCEPT ![w] = @ /\ ok]
       /\ UNCHANGED <<status, result>>
  ELSE Return(w, IF total[w] /\ ok THEN "passed" ELSE "failed")

\* Mutant of TearDownTests: it is skipped after a success.
TearDownFailures(w, ok) == IF ok THEN NextNode(w, ok) ELSE Goes(w, "teardown", TRUE)

TearDownTests(w, ok) == IF ok THEN Goes(w, "teardown", ok) ELSE NextNode(w, ok)

RunTests(w, ok) ==
  IF ok
  THEN Goes(w, IF job.url THEN "curl" ELSE "script", ok)
  ELSE TearDownTests(w, ok)

CheckOut(w, ok) == Goes(w, IF job.kind = "PR" THEN "fetch" ELSE "checkout", ok)

\* setupGit returns true whatever came of git config user.email.
SetupGit(w, ok) ==
  \/ pc[w] = "user" /\ Goes(w, "email", ok)
  \/ pc[w] = "email" /\ CheckOut(w, TRUE)

\* The main branch is checked out with status true, whatever came before.
SetupTests(w, ok) ==
  \/ pc[w] = "rm" /\ Goes(w, "mkdir", ok)
  \/ pc[w] = "mkdir" /\ Goes(w, "clone", ok)
  \/ pc[w] = "clone" /\ IF ok /\ job.git THEN Goes(w, "user", ok) ELSE CheckOut(w, ok)
  \/ pc[w] = "fetch" /\ Goes(w, "main", TRUE)
  \/ pc[w] = "main" /\ IF fetched[w] THEN Goes(w, "merge", ok) ELSE RunTests(w, ok)
  \/ pc[w] \in {"merge", "checkout"} /\ RunTests(w, ok)

Proceed(w, ok) ==
  /\ errors' = [errors EXCEPT ![w] = 0]
  /\ fetched' = [fetched EXCEPT ![w] = IF pc[w] = "fetch" THEN ok ELSE @]
  /\ \/ SetupTests(w, ok)
     \/ SetupGit(w, ok)
     \/ pc[w] = "curl" /\ Goes(w, "script", ok)
     \/ pc[w] = "script" /\ TearDownTests(w, ok)
     \/ pc[w] = "teardown" /\ NextNode(w, ok)

-----------------------------------------------------------------------------
(* The steps of run. *)

\* An empty list of nodes is a success.
StartRun(w, nl) ==
  /\ pc[w] = "off"
  /\ nodes' = [nodes EXCEPT ![w] = nl]
  /\ tree' = [tree EXCEPT ![w] = [i \in 1 .. Len(nl) |-> "none"]]
  /\ tested' = [tested EXCEPT ![w] = [i \in 1 .. Len(nl) |-> NotTested]]
  /\ at' = [at EXCEPT ![w] = 1]
  /\ IF nl = <<>>
     THEN /\ pc' = [pc EXCEPT ![w] = "returned"]
          /\ result' = [result EXCEPT ![w] = "passed"]
     ELSE /\ pc' = [pc EXCEPT ![w] = "begin"]
          /\ UNCHANGED result
  /\ UNCHANGED <<status, fetched, errors, total, faults>>

BeginTest(w) ==
  /\ pc[w] = "begin"
  /\ Goes(w, "rm", TRUE)
  /\ UNCHANGED <<nodes, fetched, errors, tree, tested, faults>>

\* A node without a password and with no key, or with one that cannot be parsed.
ExecutorFails(w) ==
  /\ pc[w] = "begin"
  /\ OnNode(w)
  /\ Return(w, "error")
  /\ UNCHANGED <<nodes, fetched, errors, tree, tested, faults>>

CommandSkipped(w) ==
  /\ pc[w] \in Commands
  /\ ~status[w]
  /\ Proceed(w, FALSE)
  /\ UNCHANGED <<nodes, tree, tested, faults>>

CommandPasses(w) ==
  /\ pc[w] \in Commands
  /\ status[w]
  /\ errors[w] < RetryLoopCount
  /\ CanPass(w)
  /\ tree' = TreeAfter(w)
  /\ tested' = TestedAfter(w)
  /\ Proceed(w, TRUE)
  /\ UNCHANGED <<nodes, faults>>

\* An exit status other than 0.
CommandFails(w) ==
  /\ pc[w] \in Commands
  /\ status[w]
  /\ errors[w] < RetryLoopCount
  /\ OnNode(w)
  /\ Proceed(w, FALSE)
  /\ UNCHANGED <<nodes, tree, tested, faults>>

\* Mutant of AttemptErrs: one attempt more than there may be.
OneMoreAttemptErrs(w) ==
  /\ pc[w] \in Commands
  /\ status[w]
  /\ errors[w] <= RetryLoopCount
  /\ errors' = [errors EXCEPT ![w] = @ + 1]
  /\ UNCHANGED <<nodes, pc, at, status, fetched, total, result, tree, tested, faults>>

\* The connection was not made or was lost, before or after the command had
\* its effect; or the output could not be published.  To the local executor
\* an exit status is an error too.
AttemptErrs(w) ==
  /\ pc[w] \in Commands
  /\ status[w]
  /\ errors[w] < RetryLoopCount
  /\ errors' = [errors EXCEPT ![w] = @ + 1]
  /\ IF CanPass(w) \/ OnNode(w)
     THEN faults < MaxErrors /\ faults' = faults + 1
     ELSE UNCHANGED faults
  /\ tree' \in CutOff(w)
  /\ UNCHANGED <<nodes, pc, at, status, fetched, total, result, tested>>

\* Mutant of CommandErrs: it starts over.
CommandRepeats(w) ==
  /\ pc[w] \in Commands
  /\ errors[w] = RetryLoopCount
  /\ errors' = [errors EXCEPT ![w] = 0]
  /\ UNCHANGED <<nodes, pc, at, status, fetched, total, result, tree, tested, faults>>

\* runCommand returns an error.  It ends the run, unless it is that of the
\* first rm, or of git config user.email.
CommandErrs(w) ==
  /\ pc[w] \in Commands
  /\ errors[w] = RetryLoopCount
  /\ IF pc[w] \in {"rm", "email"}
     THEN Proceed(w, FALSE)
     ELSE Return(w, "error") /\ UNCHANGED <<fetched, errors>>
  /\ UNCHANGED <<nodes, tree, tested, faults>>

\* Jenkins, or the polling goroutine, ends the worker; the command it is at
\* may still have its effect.
Killed(w) ==
  /\ Kill
  /\ pc[w] \in Commands
  /\ pc' = [pc EXCEPT ![w] = "killed"]
  /\ tree' \in CutOff(w)
  /\ UNCHANGED <<nodes, at, status, fetched, errors, total, result, tested, faults>>

RunStep(w) ==
  BeginTest(w) \/ ExecutorFails(w) \/ CommandSkipped(w) \/ CommandPasses(w)
    \/ CommandFails(w) \/ AttemptErrs(w) \/ CommandErrs(w)

-----------------------------------------------------------------------------

\* What the request asks to be tested.  A pull request that cannot be fetched
\* is tested as the main branch.
AskedFor(gotPR) == IF job.kind # "PR" THEN "target" ELSE IF gotPR THEN "merged" ELSE "main"

\* A success is reported only when, on every node of the list, the script
\* command passed on a tree with what the request asks for: whatever was
\* skipped, tried again or removed by another build on the way.
SuccessIsEarned ==
  \A w \in Workers : result[w] = "passed" =>
    \A i \in 1 .. Len(nodes[w]) : tested[w][i].tree = AskedFor(tested[w][i].fetched)

\* After a success nothing of the build is left on its nodes.
NoLeftovers ==
  \A w \in Workers : result[w] = "passed" =>
    \A i \in 1 .. Len(nodes[w]) : tree[w][i] = "none"

\* "running tests on node %s via ssh": a success means that the run script
\* was run on every node.
TestsWereRun ==
  \A w \in Workers : result[w] = "passed" =>
    \A i \in 1 .. Len(nodes[w]) : tested[w][i].scripts # "none"

=============================================================================
