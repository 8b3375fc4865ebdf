----------------------------- MODULE WorkProofs -----------------------------
(***************************************************************************)
(* Safety of Work for any number of builds, nodes, node files, addnode     *)
(* processes and attempts.                                                 *)
(***************************************************************************)
EXTENDS Work, SequenceTheorems, FiniteSetTheorems, TLAPS

ANode == Node \union {Local}

-----------------------------------------------------------------------------
(* Trees and verdicts. *)

\* A sequence stays one of its length when its elements are replaced.
LEMMA MappedSeq ==
  ASSUME NEW S, NEW n \in Nat, NEW f \in [1 .. n -> S]
  PROVE  f \in Seq(S) /\ Len(f) = n
BY SeqDef, LenProperties

LEMMA LeftIsTree ==
  ASSUME NEW c, NEW t \in Tree
  PROVE  Left(c, t) \in Tree
BY DEF Left, Tree, Repository

\* What a command leaves behind: it changes its own tree, or removes trees.
LEMMA TreeAfterFacts ==
  ASSUME RunTypeOK(ANode), NEW w \in Workers, pc[w] \in Commands
  PROVE  /\ TreeAfter(w) \in [Workers -> Seq(Tree)]
         /\ \A x \in Workers : Len(TreeAfter(w)[x]) = Len(tree[x])
         /\ \A x \in Workers : \A i \in 1 .. Len(tree[x]) :
              (x # w \/ i # at[w]) => TreeAfter(w)[x][i] \in {tree[x][i], "none"}
         /\ pc[w] \in {"rm", "teardown"} => TreeAfter(w)[w][at[w]] = "none"
         /\ pc[w] \notin {"rm", "teardown"} =>
              TreeAfter(w)[w][at[w]] = Left(pc[w], tree[w][at[w]])
<1> DEFINE New(x, i) == IF pc[w] \in {"rm", "teardown"}
                        THEN IF SameBase(w, x, i) THEN "none" ELSE tree[x][i]
                        ELSE IF x = w /\ i = at[w] THEN Left(pc[w], tree[x][i]) ELSE tree[x][i]
           Row(x) == [i \in 1 .. Len(tree[x]) |-> New(x, i)]
<1>1. TreeAfter(w) = [x \in Workers |-> Row(x)]
  BY DEF TreeAfter
<1>2. ASSUME NEW x \in Workers
      PROVE  Row(x) \in Seq(Tree) /\ Len(Row(x)) = Len(tree[x])
  <2>1. Len(tree[x]) \in Nat /\ \A i \in 1 .. Len(tree[x]) : tree[x][i] \in Tree
    BY LenProperties, ElementOfSeq DEF RunTypeOK
  <2>2. \A i \in 1 .. Len(tree[x]) : New(x, i) \in Tree
    BY <2>1, LeftIsTree DEF Tree
  <2>3. Row(x) \in [1 .. Len(tree[x]) -> Tree]
    BY <2>2
  <2>4. QED
    BY <2>1, <2>3, MappedSeq
<1>3. at[w] \in 1 .. Len(tree[w])
  BY DEF RunTypeOK
<1>4. SameBase(w, w, at[w])
  BY DEF SameBase, Here
<1>5. \A x \in Workers : TreeAfter(w)[x] = Row(x)
  <2> HIDE DEF Row
  <2>1. QED
    BY <1>1
<1>6. \A x \in Workers : \A i \in 1 .. Len(tree[x]) : TreeAfter(w)[x][i] = New(x, i)
  <2>1. \A x \in Workers : \A i \in 1 .. Len(tree[x]) : Row(x)[i] = New(x, i)
    OBVIOUS
  <2> HIDE DEF Row, New
  <2>2. QED
    BY <1>5, <2>1
<1>7. TreeAfter(w) \in [Workers -> Seq(Tree)] /\ \A x \in Workers : Len(TreeAfter(w)[x]) = Len(tree[x])
  BY <1>1, <1>2, <1>5
<1>8. \A x \in Workers : \A i \in 1 .. Len(tree[x]) :
        (x # w \/ i # at[w]) => TreeAfter(w)[x][i] \in {tree[x][i], "none"}
  BY <1>6
<1>9. TreeAfter(w)[w][at[w]] = New(w, at[w])
  BY <1>3, <1>6
<1>10. QED
  BY <1>4, <1>7, <1>8, <1>9

\* Only the verdict on the node the worker is on is written.
LEMMA TestedAfterFacts ==
  ASSUME RunTypeOK(ANode), NEW w \in Workers, pc[w] \in Commands
  PROVE  /\ TestedAfter(w) \in [Workers -> Seq(Verdict)]
         /\ \A x \in Workers : Len(TestedAfter(w)[x]) = Len(tested[x])
         /\ \A x \in Workers : \A i \in 1 .. Len(tested[x]) :
              (x # w \/ i # at[w]) => TestedAfter(w)[x][i] = tested[x][i]
         /\ pc[w] # "script" => TestedAfter(w) = tested
         /\ pc[w] = "script" =>
              /\ TestedAfter(w)[w][at[w]].tree = tree[w][at[w]]
              /\ TestedAfter(w)[w][at[w]].fetched = fetched[w]
<1>1. CASE pc[w] # "script"
  BY <1>1 DEF TestedAfter, RunTypeOK
<1>2. CASE pc[w] = "script"
  <2> DEFINE v == [tree |-> tree[w][at[w]], fetched |-> fetched[w], scripts |-> ScriptsRun(w)]
             row == [tested[w] EXCEPT ![at[w]] = v]
  <2>1. at[w] \in 1 .. Len(tree[w]) /\ at[w] \in 1 .. Len(tested[w])
    BY DEF RunTypeOK
  <2>2. v \in Verdict
    BY <2>1, ElementOfSeq DEF RunTypeOK, Verdict, ScriptsRun
  <2>3. tested[w] \in Seq(Verdict)
    BY DEF RunTypeOK
  <2>4. row \in Seq(Verdict) /\ Len(row) = Len(tested[w])
    BY <2>1, <2>2, <2>3, ExceptSeq
  <2>5. TestedAfter(w) = [tested EXCEPT ![w] = row]
    BY <1>2 DEF TestedAfter
  <2>6. TestedAfter(w)[w] = row /\ \A x \in Workers : x # w => TestedAfter(w)[x] = tested[x]
    BY <2>5 DEF RunTypeOK
  <2>7. row[at[w]] = v /\ \A i \in 1 .. Len(tested[w]) : i # at[w] => row[i] = tested[w][i]
    BY <2>1, <2>3, LenProperties
  <2>8. TestedAfter(w) \in [Workers -> Seq(Verdict)]
    BY <2>4, <2>5 DEF RunTypeOK
  <2>9. TestedAfter(w)[w][at[w]] = v
    BY <2>6, <2>7
  <2>10. \A x \in Workers : \A i \in 1 .. Len(tested[x]) :
           (x # w \/ i # at[w]) => TestedAfter(w)[x][i] = tested[x][i]
    BY <2>6, <2>7
  <2>11. \A x \in Workers : Len(TestedAfter(w)[x]) = Len(tested[x])
    BY <2>4, <2>6
  <2>12. v.tree = tree[w][at[w]] /\ v.fetched = fetched[w]
    OBVIOUS
  <2>13. QED
    BY <1>2, <2>8, <2>9, <2>10, <2>11, <2>12
<1>3. QED
  BY <1>1, <1>2

-----------------------------------------------------------------------------
(* The control of run. *)

PC == Commands \union {"off", "begin", "returned", "killed"}

\* The control of w keeps its type, and that of the others does not change.
Control(w) ==
  /\ pc' \in [Workers -> PC]
  /\ at' \in [Workers -> Nat]
  /\ status' \in [Workers -> BOOLEAN]
  /\ total' \in [Workers -> BOOLEAN]
  /\ result' \in [Workers -> {"none", "passed", "failed", "error"}]
  /\ \A x \in Workers : x # w =>
       /\ pc'[x] = pc[x] /\ at'[x] = at[x] /\ status'[x] = status[x]
       /\ total'[x] = total[x] /\ result'[x] = result[x]

\* The step of w is to another command on the same node ...
ToCommand(w, ok) ==
  /\ pc'[w] \in Commands
  /\ at'[w] = at[w] /\ total'[w] = total[w] /\ result'[w] = result[w]
  /\ pc'[w] = "rm" => pc[w] = "begin"
  /\ pc'[w] \in {"fetch", "main"} => job.kind = "PR" \/ pc[w] = "fetch"
  /\ pc'[w] = "checkout" => job.kind # "PR"
  /\ pc'[w] = "merge" => pc[w] = "main" /\ fetched[w] /\ status'[w] = ok
  /\ pc'[w] \in {"curl", "script"} /\ status'[w] =>
       ok /\ (pc[w] \in {"merge", "checkout", "curl"} \/ (pc[w] = "main" /\ ~fetched[w]))
  /\ pc'[w] = "teardown" => pc[w] = "script" /\ ok

\* ... or to the next node ...
ToNextNode(w, ok) ==
  /\ pc'[w] = "begin"
  /\ at[w] < Len(nodes[w]) /\ at'[w] = at[w] + 1
  /\ total'[w] => total[w] /\ ok /\ pc[w] = "teardown"
  /\ result'[w] = result[w]

\* ... or to the end.
ToEnd(w, ok) ==
  /\ pc'[w] = "returned"
  /\ at'[w] = at[w]
  /\ result'[w] = "passed" => total[w] /\ ok /\ pc[w] = "teardown" /\ at[w] >= Len(nodes[w])

LEMMA GoesFacts ==
  ASSUME RunTypeOK(ANode), NEW w \in Workers, NEW c \in PC, NEW ok \in BOOLEAN, Goes(w, c, ok)
  PROVE  /\ Control(w)
         /\ pc'[w] = c /\ status'[w] = ok
         /\ at'[w] = at[w] /\ total'[w] = total[w] /\ result'[w] = result[w]
BY DEF RunTypeOK, Goes, Control, PC

LEMMA ReturnFacts ==
  ASSUME RunTypeOK(ANode), NEW w \in Workers, Return(w, "error")
  PROVE  Control(w) /\ pc'[w] = "returned" /\ at'[w] = at[w] /\ result'[w] = "error"
BY DEF RunTypeOK, Return, Control, PC

LEMMA NextNodeFacts ==
  ASSUME RunTypeOK(ANode), NEW w \in Workers, NEW ok \in BOOLEAN,
         ok => pc[w] = "teardown", NextNode(w, ok)
  PROVE  Control(w) /\ (ToNextNode(w, ok) \/ ToEnd(w, ok))
<1>1. at[w] \in Nat /\ Len(nodes[w]) \in Nat /\ total[w] \in BOOLEAN
  BY LenProperties DEF RunTypeOK
<1>2. CASE at[w] < Len(nodes[w])
  <2> DEFINE b == total[w] /\ ok
  <2>1. b \in BOOLEAN /\ (b => total[w] /\ ok)
    OBVIOUS
  <2>2. total' = [total EXCEPT ![w] = b]
    BY <1>2 DEF NextNode
  <2> HIDE DEF b
  <2>3. /\ total' \in [Workers -> BOOLEAN] /\ total'[w] = b
        /\ \A x \in Workers : x # w => total'[x] = total[x]
    BY <2>1, <2>2 DEF RunTypeOK
  <2>4. /\ pc' = [pc EXCEPT ![w] = "begin"]
        /\ at' = [at EXCEPT ![w] = @ + 1]
        /\ UNCHANGED <<status, result>>
    BY <1>2 DEF NextNode
  <2>9. Control(w)
    BY <1>1, <2>3, <2>4 DEF RunTypeOK, Control, PC
  <2>5. total'[w] => total[w] /\ ok /\ pc[w] = "teardown"
    BY <2>1, <2>3
  <2>6. /\ pc'[w] = "begin" /\ at'[w] = at[w] + 1 /\ result'[w] = result[w]
    BY <1>1, <2>4 DEF RunTypeOK
  <2>7. ToNextNode(w, ok)
    BY <1>2, <2>5, <2>6 DEF ToNextNode
  <2>8. QED
    BY <2>7, <2>9
<1>3. CASE ~(at[w] < Len(nodes[w]))
  <2>1. Return(w, IF total[w] /\ ok THEN "passed" ELSE "failed")
    BY <1>3 DEF NextNode
  <2>2. Control(w)
    BY <2>1 DEF RunTypeOK, Return, Control, PC
  <2>3. ToEnd(w, ok)
    BY <1>1, <1>3, <2>1 DEF RunTypeOK, Return, ToEnd
  <2>4. QED
    BY <2>2, <2>3
<1>4. QED
  BY <1>2, <1>3

LEMMA TearDownFacts ==
  ASSUME RunTypeOK(ANode), NEW w \in Workers, NEW ok \in BOOLEAN,
         ok => pc[w] = "script", TearDownTests(w, ok)
  PROVE  Control(w) /\ (ToCommand(w, ok) \/ ToNextNode(w, ok) \/ ToEnd(w, ok))
<1>1. CASE ok
  <2>1. Goes(w, "teardown", ok)
    BY <1>1 DEF TearDownTests
  <2>2. /\ Control(w) /\ pc'[w] = "teardown"
        /\ at'[w] = at[w] /\ total'[w] = total[w] /\ result'[w] = result[w]
    BY <2>1, GoesFacts DEF PC, Commands
  <2>3. QED
    BY <1>1, <2>2 DEF ToCommand, Commands
<1>2. CASE ~ok
  BY <1>2, NextNodeFacts DEF TearDownTests, ToNextNode, ToEnd
<1>3. QED
  BY <1>1, <1>2

LEMMA RunTestsFacts ==
  ASSUME RunTypeOK(ANode), NEW w \in Workers, NEW ok \in BOOLEAN, RunTests(w, ok),
         pc[w] \in {"merge", "checkout"} \/ (pc[w] = "main" /\ ~fetched[w])
  PROVE  Control(w) /\ (ToCommand(w, ok) \/ ToNextNode(w, ok) \/ ToEnd(w, ok))
<1>1. CASE ok
  <2>1. Goes(w, "curl", ok) \/ Goes(w, "script", ok)
    BY <1>1 DEF RunTests
  <2>2. /\ Control(w) /\ pc'[w] \in {"curl", "script"}
        /\ at'[w] = at[w] /\ total'[w] = total[w] /\ result'[w] = result[w]
    BY <2>1, GoesFacts DEF PC, Commands
  <2>3. QED
    BY <1>1, <2>2 DEF ToCommand, Commands
<1>2. CASE ~ok
  BY <1>2, TearDownFacts DEF RunTests
<1>3. QED
  BY <1>1, <1>2

LEMMA CheckOutFacts ==
  ASSUME RunTypeOK(ANode), NEW w \in Workers, NEW ok \in BOOLEAN, NEW b \in BOOLEAN, CheckOut(w, b)
  PROVE  Control(w) /\ ToCommand(w, ok)
<1>1. CASE job.kind = "PR"
  <2>1. Goes(w, "fetch", b)
    BY <1>1 DEF CheckOut
  <2>2. QED
    BY <1>1, <2>1, GoesFacts DEF ToCommand, PC, Commands
<1>2. CASE job.kind # "PR"
  <2>1. Goes(w, "checkout", b)
    BY <1>2 DEF CheckOut
  <2>2. QED
    BY <1>2, <2>1, GoesFacts DEF ToCommand, PC, Commands
<1>3. QED
  BY <1>1, <1>2

\* Every result of a command leads to one of the three.
LEMMA ProceedFacts ==
  ASSUME RunTypeOK(ANode), NEW w \in Workers, pc[w] \in Commands,
         NEW ok \in BOOLEAN, Proceed(w, ok)
  PROVE  Control(w) /\ (ToCommand(w, ok) \/ ToNextNode(w, ok) \/ ToEnd(w, ok))
<1> USE DEF PC, Commands
<1>1. CASE pc[w] = "rm" /\ Goes(w, "mkdir", ok)
  BY <1>1, GoesFacts DEF ToCommand
<1>2. CASE pc[w] = "mkdir" /\ Goes(w, "clone", ok)
  BY <1>2, GoesFacts DEF ToCommand
<1>3. CASE pc[w] = "clone" /\ (Goes(w, "user", ok) \/ CheckOut(w, ok))
  BY <1>3, GoesFacts, CheckOutFacts DEF ToCommand
<1>4. CASE pc[w] = "fetch" /\ Goes(w, "main", TRUE)
  BY <1>4 DEF RunTypeOK, Goes, Control, ToCommand
<1>5. CASE pc[w] = "main" /\ ((fetched[w] /\ Goes(w, "merge", ok)) \/ (~fetched[w] /\ RunTests(w, ok)))
  BY <1>5, GoesFacts, RunTestsFacts DEF ToCommand
<1>6. CASE pc[w] \in {"merge", "checkout"} /\ RunTests(w, ok)
  BY <1>6, RunTestsFacts
<1>7. CASE pc[w] = "user" /\ Goes(w, "email", ok)
  BY <1>7, GoesFacts DEF ToCommand
<1>8. CASE pc[w] = "email" /\ CheckOut(w, TRUE)
  BY <1>8, CheckOutFacts
<1>9. CASE pc[w] = "curl" /\ Goes(w, "script", ok)
  BY <1>9, GoesFacts DEF ToCommand
<1>10. CASE pc[w] = "script" /\ TearDownTests(w, ok)
  BY <1>10, TearDownFacts
<1>11. CASE pc[w] = "teardown" /\ NextNode(w, ok)
  BY <1>11, NextNodeFacts
<1>12. QED
  BY <1>1, <1>2, <1>3, <1>4, <1>5, <1>6, <1>7, <1>8, <1>9, <1>10, <1>11
     DEF Proceed, SetupTests, SetupGit

-----------------------------------------------------------------------------
(* The steps of run. *)

\* What a step of w leaves alone: the nodes, the control of the others, every
\* verdict but the one w is at, and every tree but that, which may be removed.
Frame(w) ==
  /\ nodes' = nodes
  /\ Control(w)
  /\ tree' \in [Workers -> Seq(Tree)]
  /\ tested' \in [Workers -> Seq(Verdict)]
  /\ \A x \in Workers : Len(tree'[x]) = Len(tree[x]) /\ Len(tested'[x]) = Len(tested[x])
  /\ \A x \in Workers : \A i \in 1 .. Len(tree[x]) : (x # w \/ i # at[w]) =>
       /\ tree'[x][i] \in {tree[x][i], "none"}
       /\ tested'[x][i] = tested[x][i]
  /\ \A x \in Workers : x # w => fetched'[x] = fetched[x]

\* The node a worker is on, and its counters.
Ranges(w) ==
  /\ pc'[w] \in Commands \union {"begin"} => at'[w] \in 1 .. Len(nodes[w])
  /\ fetched' \in [Workers -> BOOLEAN]
  /\ errors' \in [Workers -> 0 .. RetryLoopCount]
  /\ faults' \in 0 .. MaxErrors

LEMMA FrameKeepsTypes ==
  ASSUME RunTypeOK(ANode), NEW w \in Workers, Frame(w), Ranges(w)
  PROVE  RunTypeOK(ANode)'
<1>1. \A x \in Workers : x # w => pc'[x] = pc[x] /\ at'[x] = at[x]
  BY DEF Frame, Control
<1>2. \A x \in Workers : pc'[x] \in Commands \union {"begin"} => at'[x] \in 1 .. Len(nodes'[x])
  BY <1>1 DEF RunTypeOK, Frame, Ranges
<1>3. \A x \in Workers : Len(tree'[x]) = Len(nodes'[x]) /\ Len(tested'[x]) = Len(nodes'[x])
  BY DEF RunTypeOK, Frame
<1>4. QED
  BY <1>2, <1>3 DEF RunTypeOK, Frame, Ranges, Control, PC

\* Trees and verdicts that do not change.
LEMMA UnchangedTrees ==
  ASSUME RunTypeOK(ANode), NEW w \in Workers, Control(w),
         UNCHANGED <<nodes, tree, tested>>,
         \A x \in Workers : x # w => fetched'[x] = fetched[x]
  PROVE  Frame(w)
BY DEF RunTypeOK, Frame

\* Where a result leads is on the list of nodes.
LEMMA ProceedRanges ==
  ASSUME RunTypeOK(ANode), NEW w \in Workers, pc[w] \in Commands,
         NEW ok \in BOOLEAN, Proceed(w, ok), UNCHANGED faults
  PROVE  Ranges(w) /\ \A x \in Workers : x # w => fetched'[x] = fetched[x]
<1>1. at[w] \in 1 .. Len(nodes[w]) /\ Len(nodes[w]) \in Nat
  BY LenProperties DEF RunTypeOK
<1>2. pc'[w] \in Commands \union {"begin"} => at'[w] \in 1 .. Len(nodes[w])
  BY <1>1, ProceedFacts DEF ToCommand, ToNextNode, ToEnd, Commands
<1>3. errors' \in [Workers -> 0 .. RetryLoopCount]
  BY TestRunAssumption DEF RunTypeOK, Proceed
<1>4. /\ fetched' \in [Workers -> BOOLEAN]
      /\ \A x \in Workers : x # w => fetched'[x] = fetched[x]
  BY DEF RunTypeOK, Proceed
<1>5. QED
  BY <1>2, <1>3, <1>4 DEF Ranges, RunTypeOK

LEMMA BeginTestFrame ==
  ASSUME RunTypeOK(ANode), NEW w \in Workers, BeginTest(w)
  PROVE  Frame(w) /\ Ranges(w)
<1>1. Control(w) /\ pc'[w] = "rm" /\ at'[w] = at[w]
  BY DEF RunTypeOK, BeginTest, Goes, Control, PC, Commands
<1>2. QED
  BY <1>1, UnchangedTrees DEF BeginTest, RunTypeOK, Ranges

LEMMA ExecutorFailsFrame ==
  ASSUME RunTypeOK(ANode), NEW w \in Workers, ExecutorFails(w)
  PROVE  Frame(w) /\ Ranges(w)
<1>1. Control(w) /\ pc'[w] = "returned"
  BY ReturnFacts DEF ExecutorFails
<1>2. QED
  BY <1>1, UnchangedTrees DEF ExecutorFails, RunTypeOK, Ranges, Commands

LEMMA CommandSkippedFrame ==
  ASSUME RunTypeOK(ANode), NEW w \in Workers, CommandSkipped(w)
  PROVE  Frame(w) /\ Ranges(w)
<1>1. pc[w] \in Commands /\ Proceed(w, FALSE) /\ UNCHANGED <<nodes, tree, tested, faults>>
  BY DEF CommandSkipped
<1>2. QED
  BY <1>1, ProceedFacts, ProceedRanges, UnchangedTrees

LEMMA CommandFailsFrame ==
  ASSUME RunTypeOK(ANode), NEW w \in Workers, CommandFails(w)
  PROVE  Frame(w) /\ Ranges(w)
<1>1. pc[w] \in Commands /\ Proceed(w, FALSE) /\ UNCHANGED <<nodes, tree, tested, faults>>
  BY DEF CommandFails
<1>2. QED
  BY <1>1, ProceedFacts, ProceedRanges, UnchangedTrees

LEMMA CommandPassesFrame ==
  ASSUME RunTypeOK(ANode), NEW w \in Workers, CommandPasses(w)
  PROVE  Frame(w) /\ Ranges(w)
<1>1. /\ pc[w] \in Commands /\ Proceed(w, TRUE) /\ UNCHANGED <<nodes, faults>>
      /\ tree' = TreeAfter(w) /\ tested' = TestedAfter(w)
  BY DEF CommandPasses
<1>2. Control(w) /\ Ranges(w) /\ \A x \in Workers : x # w => fetched'[x] = fetched[x]
  BY <1>1, ProceedFacts, ProceedRanges
<1>3. \A x \in Workers : Len(tested[x]) = Len(tree[x])
  BY DEF RunTypeOK
<1>4. QED
  BY <1>1, <1>2, <1>3, TreeAfterFacts, TestedAfterFacts DEF Frame

\* A command that was cut off writes no verdict.
LEMMA CutOffFrame ==
  ASSUME RunTypeOK(ANode), NEW w \in Workers, pc[w] \in Commands, Control(w),
         tree' \in CutOff(w), UNCHANGED <<nodes, tested, fetched>>
  PROVE  Frame(w)
<1>1. CASE tree' = tree
  BY <1>1, UnchangedTrees
<1>2. CASE tree' = TreeAfter(w)
  <2>1. \A x \in Workers : Len(tested[x]) = Len(tree[x])
    BY DEF RunTypeOK
  <2>2. QED
    BY <1>2, <2>1, TreeAfterFacts DEF Frame, RunTypeOK
<1>3. QED
  BY <1>1, <1>2 DEF CutOff

LEMMA AttemptErrsFrame ==
  ASSUME RunTypeOK(ANode), NEW w \in Workers, AttemptErrs(w)
  PROVE  Frame(w) /\ Ranges(w)
<1>1. Control(w)
  BY DEF RunTypeOK, AttemptErrs, Control, PC
<1>2. faults' \in 0 .. MaxErrors
  BY TestRunAssumption DEF RunTypeOK, AttemptErrs
<1>3. errors' \in [Workers -> 0 .. RetryLoopCount]
  BY TestRunAssumption DEF RunTypeOK, AttemptErrs
<1>4. Ranges(w)
  BY <1>2, <1>3 DEF RunTypeOK, AttemptErrs, Ranges
<1>5. QED
  BY <1>1, <1>4, CutOffFrame DEF AttemptErrs

LEMMA CommandErrsFrame ==
  ASSUME RunTypeOK(ANode), NEW w \in Workers, CommandErrs(w)
  PROVE  Frame(w) /\ Ranges(w)
<1>1. pc[w] \in Commands /\ UNCHANGED <<nodes, tree, tested, faults>>
  BY DEF CommandErrs
<1>2. CASE Proceed(w, FALSE)
  BY <1>1, <1>2, ProceedFacts, ProceedRanges, UnchangedTrees
<1>3. CASE Return(w, "error") /\ UNCHANGED <<fetched, errors>>
  BY <1>1, <1>3, ReturnFacts, UnchangedTrees DEF RunTypeOK, Ranges, Commands
<1>4. QED
  BY <1>2, <1>3 DEF CommandErrs

LEMMA KilledFrame ==
  ASSUME RunTypeOK(ANode), NEW w \in Workers, Killed(w)
  PROVE  Frame(w) /\ Ranges(w)
<1>1. Control(w) /\ pc'[w] = "killed"
  BY DEF RunTypeOK, Killed, Control, PC
<1>2. Ranges(w)
  BY <1>1 DEF RunTypeOK, Killed, Ranges, Commands
<1>3. QED
  BY <1>1, <1>2, CutOffFrame DEF Killed

LEMMA RunStepFrame ==
  ASSUME RunTypeOK(ANode), NEW w \in Workers, RunStep(w) \/ Killed(w)
  PROVE  Frame(w) /\ Ranges(w)
BY BeginTestFrame, ExecutorFailsFrame, CommandSkippedFrame, CommandPassesFrame,
   CommandFailsFrame, AttemptErrsFrame, CommandErrsFrame, KilledFrame DEF RunStep

-----------------------------------------------------------------------------
(* Lists of nodes. *)

LEMMA GroupsFinite ==
  ASSUME NEW nl \in Seq(Node)
  PROVE  Cardinality(GroupsOf(nl)) \in Nat
<1> DEFINE f == [i \in 1 .. Len(nl) |-> nl[i].group]
<1>1. Len(nl) \in Nat /\ DOMAIN nl = 1 .. Len(nl)
  BY LenProperties
<1>2. f \in Surjection(1 .. Len(nl), GroupsOf(nl))
  BY <1>1 DEF Surjection, GroupsOf, Listed
<1>3. IsFiniteSet(GroupsOf(nl))
  BY <1>1, <1>2, FS_NatSurjection DEF ExistsSurjection
<1>4. QED
  BY <1>3, FS_CardinalityType

\* The nodes chosen are nodes of the list, and every group is there.
LEMMA GroupedList ==
  ASSUME NEW nl \in Seq(Node), NEW kind, NEW s \in ProcessNodeGroup(nl, kind)
  PROVE  /\ s \in Seq(Node)
         /\ kind # "random-one-per-group" => s = nl
         /\ \A n \in Listed(nl) : \E i \in 1 .. Len(s) :
              s[i] = n \/ (kind = "random-one-per-group" /\ s[i].group = n.group)
<1>1. Len(nl) \in Nat /\ DOMAIN nl = 1 .. Len(nl) /\ Listed(nl) \subseteq Node
  BY LenProperties, ElementOfSeq DEF Listed
<1>2. CASE kind = "random-one-per-group"
  <2> DEFINE k == Cardinality(GroupsOf(nl))
  <2>1. k \in Nat
    BY GroupsFinite
  <2>2. /\ s \in [1 .. k -> Listed(nl)]
        /\ {s[i].group : i \in DOMAIN s} = GroupsOf(nl)
    BY <1>2 DEF ProcessNodeGroup, OnePerGroup
  <2> HIDE DEF k
  <2>3. s \in Seq(Node) /\ Len(s) = k
    BY <1>1, <2>1, <2>2, MappedSeq
  <2>4. \A n \in Listed(nl) : n.group \in {s[i].group : i \in DOMAIN s}
    BY <2>2 DEF GroupsOf
  <2>5. \A n \in Listed(nl) : \E i \in 1 .. Len(s) : s[i].group = n.group
    BY <2>2, <2>3, <2>4
  <2>6. QED
    BY <1>2, <2>3, <2>5
<1>3. CASE kind # "random-one-per-group"
  <2>1. s = nl
    BY <1>3 DEF ProcessNodeGroup
  <2>2. QED
    BY <1>1, <1>3, <2>1 DEF Listed
<1>4. QED
  BY <1>2, <1>3

LEMMA StartRunFacts ==
  ASSUME RunTypeOK(ANode), NEW w \in Workers, NEW nl \in Seq(ANode), StartRun(w, nl)
  PROVE  /\ RunTypeOK(ANode)'
         /\ nodes'[w] = nl /\ at'[w] = 1 /\ pc'[w] \in {"begin", "returned"}
         /\ pc'[w] = "returned" => nl = <<>>
         /\ pc'[w] = "begin" => result'[w] = result[w]
         /\ \A x \in Workers : x # w =>
              /\ nodes'[x] = nodes[x] /\ pc'[x] = pc[x] /\ at'[x] = at[x]
              /\ result'[x] = result[x] /\ tree'[x] = tree[x] /\ tested'[x] = tested[x]
         /\ UNCHANGED <<status, fetched, total>>
<1> DEFINE trees == [i \in 1 .. Len(nl) |-> "none"]
           verdicts == [i \in 1 .. Len(nl) |-> NotTested]
<1>1. Len(nl) \in Nat /\ (nl # <<>> => Len(nl) > 0)
  BY LenProperties, EmptySeq
<1>2. trees \in [1 .. Len(nl) -> Tree] /\ verdicts \in [1 .. Len(nl) -> Verdict]
  BY DEF Tree, Verdict, NotTested
<1>3. trees \in Seq(Tree) /\ Len(trees) = Len(nl) /\ verdicts \in Seq(Verdict) /\ Len(verdicts) = Len(nl)
  BY <1>1, <1>2, MappedSeq
<1>4. /\ nodes' = [nodes EXCEPT ![w] = nl]
      /\ tree' = [tree EXCEPT ![w] = trees]
      /\ tested' = [tested EXCEPT ![w] = verdicts]
      /\ at' = [at EXCEPT ![w] = 1]
      /\ UNCHANGED <<status, fetched, errors, total, faults>>
  BY DEF StartRun
<1> HIDE DEF trees, verdicts
<1>5. /\ nodes' \in [Workers -> Seq(ANode)] /\ tree' \in [Workers -> Seq(Tree)]
      /\ tested' \in [Workers -> Seq(Verdict)] /\ at' \in [Workers -> Nat]
  BY <1>3, <1>4 DEF RunTypeOK
<1>6. \A x \in Workers : Len(tree'[x]) = Len(nodes'[x]) /\ Len(tested'[x]) = Len(nodes'[x])
  BY <1>3, <1>4 DEF RunTypeOK
<1>7. CASE nl = <<>>
  <2>1. pc' = [pc EXCEPT ![w] = "returned"] /\ result' = [result EXCEPT ![w] = "passed"]
    BY <1>7 DEF StartRun
  <2>2. \A x \in Workers : pc'[x] \in Commands \union {"begin"} => at'[x] \in 1 .. Len(nodes'[x])
    BY <1>4, <2>1 DEF RunTypeOK, Commands
  <2>3. RunTypeOK(ANode)'
    BY <1>4, <1>5, <1>6, <2>1, <2>2 DEF RunTypeOK
  <2>4. QED
    BY <1>4, <1>7, <2>1, <2>3 DEF RunTypeOK
<1>8. CASE nl # <<>>
  <2>1. pc' = [pc EXCEPT ![w] = "begin"] /\ UNCHANGED result
    BY <1>8 DEF StartRun
  <2>2. \A x \in Workers : pc'[x] \in Commands \union {"begin"} => at'[x] \in 1 .. Len(nodes'[x])
    BY <1>1, <1>4, <1>8, <2>1 DEF RunTypeOK
  <2>3. RunTypeOK(ANode)'
    BY <1>4, <1>5, <1>6, <2>1, <2>2 DEF RunTypeOK
  <2>4. QED
    BY <1>4, <2>1, <2>3 DEF RunTypeOK
<1>9. QED
  BY <1>7, <1>8

-----------------------------------------------------------------------------
(* Type correctness. *)

LEMMA InitTypeOK ==
  ASSUME Init
  PROVE  TypeOK
<1>1. FileTypeOK
  BY NodeFileAssumption, EmptySeq DEF Init, FileInit, FileTypeOK
<1>2. RunTypeOK(ANode)
  BY TestRunAssumption, EmptySeq DEF Init, RunInit, RunTypeOK, Commands
<1>3. QED
  BY <1>1, <1>2, EmptySeq DEF Init, TypeOK, ANode

LEMMA AddNodeTypes ==
  ASSUME FileTypeOK, NEW a \in Adders, AddNodeToFile(a)
  PROVE  FileTypeOK'
<1>1. File(a) \in Files /\ NewNode(a) \in Node
  BY NodeFileAssumption DEF File, NewNode, Node
<1>2. Torn \in Content /\ NodeList(held[a]) \in Content
  BY EmptySeq DEF Torn, NodeList, Content, FileTypeOK
<1>3. file[File(a)].nodes \in Seq(Node)
  BY <1>1 DEF FileTypeOK, Content
<1>4. Append(file[File(a)].nodes, NewNode(a)) \in Seq(Node) /\ <<>> \in Seq(Node)
  BY <1>1, <1>3, EmptySeq
<1>5. CASE ReadNodeList(a)
  BY <1>1, <1>4, <1>5 DEF ReadNodeList, FileTypeOK, AdderGoes
<1>6. CASE AddFails(a)
  BY <1>4, <1>6 DEF AddFails, FileTypeOK, AdderGoes
<1>7. CASE TruncateFile(a)
  BY <1>2, <1>7 DEF TruncateFile, FileTypeOK, AdderGoes
<1>8. CASE WriteList(a)
  BY <1>2, <1>4, <1>8 DEF WriteList, FileTypeOK, AdderGoes
<1>9. CASE WriteFails(a)
  BY <1>1, <1>4, <1>9 DEF WriteFails, FileTypeOK, AdderGoes
<1>10. QED
  BY <1>5, <1>6, <1>7, <1>8, <1>9 DEF AddNodeToFile

LEMMA LocalList == <<Local>> \in Seq(ANode) /\ Len(<<Local>>) = 1 /\ <<Local>>[1] = Local
BY DEF ANode

LEMMA NextTypeOK ==
  ASSUME TypeOK, [Next]_vars
  PROVE  TypeOK'
<1>1. RunTypeOK(ANode)
  BY DEF TypeOK, ANode
<1>2. RunTypeOK(ANode)' /\ FileTypeOK' /\ job' \in Jobs
      /\ phase' \in [Workers -> {"validate", "read", "group", "run", "end"}]
      /\ next' \in [Workers -> Nat \ {0}] /\ list' \in [Workers -> Seq(Node)]
      /\ exit' \in [Workers -> {"none", "passed", "failed", "error", "panic"}]
      => TypeOK'
  BY DEF TypeOK, ANode
<1>3. ASSUME UNCHANGED runVars PROVE RunTypeOK(ANode)'
  BY <1>1, <1>3 DEF RunTypeOK, runVars
<1>4. ASSUME UNCHANGED fileVars PROVE FileTypeOK'
  BY <1>4 DEF TypeOK, FileTypeOK, fileVars
<1>5. ASSUME NEW w \in Workers, Validate(w) PROVE TypeOK'
  BY <1>2, <1>3, <1>4, <1>5 DEF TypeOK, Validate, Exits, Passes
<1>6. ASSUME NEW w \in Workers, NodesFromFile(w) PROVE TypeOK'
  <2> DEFINE f == file[job.sshNodesFiles[next[w]]]
  <2>1. job.sshNodesFiles \in Seq(Files)
    BY WorkAssumption DEF TypeOK, Job
  <2>2. next[w] \in 1 .. Len(job.sshNodesFiles)
    BY <1>6, <2>1, LenProperties DEF TypeOK, NodesFromFile
  <2>3. f \in Content
    BY <2>1, <2>2, ElementOfSeq DEF TypeOK, FileTypeOK
  <2>4. list[w] \in Seq(Node) /\ f.nodes \in Seq(Node)
    BY <2>3 DEF TypeOK, Content
  <2>5. list[w] \o f.nodes \in Seq(Node)
    BY <2>4, ConcatProperties
  <2>6. UNCHANGED <<job, fileVars, runVars>>
    BY <1>6 DEF NodesFromFile
  <2>7. CASE f.state = "list"
    <3>1. /\ list' = [list EXCEPT ![w] = @ \o f.nodes]
          /\ next' = [next EXCEPT ![w] = @ + 1]
          /\ UNCHANGED <<phase, exit>>
      BY <1>6, <2>7 DEF NodesFromFile
    <3> HIDE DEF f
    <3>2. QED
      BY <1>2, <1>3, <1>4, <2>5, <2>6, <3>1 DEF TypeOK
  <2>8. CASE f.state # "list"
    <3>1. Exits(w, "read", "error") /\ UNCHANGED <<next, list>>
      BY <1>6, <2>8 DEF NodesFromFile
    <3>2. QED
      BY <1>2, <1>3, <1>4, <2>6, <3>1 DEF TypeOK, Exits, Passes
  <2>9. QED
    BY <2>7, <2>8
<1>7. ASSUME NEW w \in Workers, NodesRead(w) PROVE TypeOK'
  BY <1>2, <1>3, <1>4, <1>7 DEF TypeOK, NodesRead, Passes
<1>8. ASSUME NEW w \in Workers, RunLocally(w) PROVE TypeOK'
  <2>1. RunTypeOK(ANode)'
    BY <1>1, <1>8, LocalList, StartRunFacts DEF RunLocally
  <2>2. QED
    BY <1>2, <1>4, <1>8, <2>1 DEF TypeOK, RunLocally, Passes
<1>9. ASSUME NEW w \in Workers, Panics(w) PROVE TypeOK'
  BY <1>2, <1>3, <1>4, <1>9 DEF TypeOK, Panics, Exits, Passes
<1>10. ASSUME NEW w \in Workers, RunOnNodes(w) PROVE TypeOK'
  <2>1. PICK nl \in ProcessNodeGroup(list[w], job.processNodeGroup) : StartRun(w, nl)
    BY <1>10 DEF RunOnNodes
  <2>2. nl \in Seq(Node)
    BY <2>1, GroupedList DEF TypeOK
  <2>3. nl \in Seq(ANode)
    BY <2>2, SeqMonotonic DEF ANode
  <2>4. RunTypeOK(ANode)'
    BY <1>1, <2>1, <2>3, StartRunFacts
  <2>5. <<>> \in Seq(Node)
    BY EmptySeq
  <2>6. QED
    BY <1>2, <1>4, <1>10, <2>4, <2>5 DEF TypeOK, RunOnNodes, Passes
<1>11. ASSUME NEW w \in Workers, WorkerRuns(w) PROVE TypeOK'
  <2>1. RunTypeOK(ANode)'
    BY <1>1, <1>11, RunStepFrame, FrameKeepsTypes DEF WorkerRuns
  <2>2. QED
    BY <1>2, <1>4, <1>11, <2>1 DEF TypeOK, WorkerRuns, workVars
<1>12. ASSUME NEW w \in Workers, ExitWith(w) PROVE TypeOK'
  <2>1. result[w] \in {"none", "passed", "failed", "error"}
    BY <1>1 DEF RunTypeOK
  <2>2. QED
    BY <1>2, <1>3, <1>4, <1>12, <2>1 DEF TypeOK, ExitWith, Exits, Passes
<1>13. ASSUME NEW a \in Adders, AddNode(a) PROVE TypeOK'
  <2>1. FileTypeOK'
    BY <1>13, AddNodeTypes DEF TypeOK, AddNode
  <2>2. QED
    BY <1>2, <1>3, <1>13, <2>1 DEF TypeOK, AddNode, workVars
<1>14. CASE UNCHANGED vars
  BY <1>2, <1>3, <1>4, <1>14 DEF TypeOK, vars, workVars
<1>15. QED
  BY <1>5, <1>6, <1>7, <1>8, <1>9, <1>10, <1>11, <1>12, <1>13, <1>14 DEF Next, WorkStep

\* Every variable of the work command keeps its type, and a worker is always
\* on a node of its list, whatever is written to the node files meanwhile.
THEOREM TypeCorrect == Spec => []TypeOK
<1>1. Init => TypeOK
  BY InitTypeOK
<1>2. TypeOK /\ [Next]_vars => TypeOK'
  BY NextTypeOK
<1>3. QED
  BY <1>1, <1>2, PTL DEF Spec

-----------------------------------------------------------------------------
(* What a success rests on. *)

Passed(w, i) ==
  tested[w][i].tree = AskedFor(tested[w][i].fetched) /\ tree[w][i] = "none"

\* As long as total is true the nodes before this one have passed and are
\* clean; the commands get to the script only on the tree that is asked for,
\* or with no tree at all, and to the teardown only behind such a script.
Earned(w) ==
  /\ pc[w] \in Commands \union {"begin"} /\ total[w] => \A i \in 1 .. at[w] - 1 : Passed(w, i)
  /\ pc[w] \in {"fetch", "main", "merge"} => job.kind = "PR"
  /\ pc[w] = "checkout" => job.kind # "PR"
  /\ pc[w] = "merge" => fetched[w]
  /\ pc[w] \in {"curl", "script"} /\ status[w] => tree[w][at[w]] \in {"none", AskedFor(fetched[w])}
  /\ pc[w] = "teardown" => tested[w][at[w]].tree = AskedFor(tested[w][at[w]].fetched)
  /\ result[w] = "passed" =>
       pc[w] = "returned" /\ \A i \in 1 .. Len(nodes[w]) : Passed(w, i)

EarnedInv == \A w \in Workers : Earned(w)

Old(f) == Listed(OldFiles[f].nodes)

Covered(w) ==
  \A f \in Listed(job.sshNodesFiles) : \A n \in Old(f) :
    \E i \in 1 .. Len(nodes[w]) : Covers(nodes[w][i], n)

-----------------------------------------------------------------------------
(* EarnedInv. *)

\* A tree that is gone stays gone, and a verdict stays.
LEMMA PassedStays ==
  ASSUME RunTypeOK(ANode), NEW w \in Workers, Frame(w), UNCHANGED job,
         NEW x \in Workers, NEW i \in 1 .. Len(nodes[x]), x # w \/ i # at[w], Passed(x, i)
  PROVE  Passed(x, i)'
<1>1. i \in 1 .. Len(tree[x])
  BY DEF RunTypeOK
<1>2. tree'[x][i] = "none" /\ tested'[x][i] = tested[x][i]
  BY <1>1 DEF Frame, Passed
<1>3. QED
  BY <1>2 DEF Passed, AskedFor

\* Whatever one build does, what the others have earned stays theirs.
LEMMA OthersEarned ==
  ASSUME RunTypeOK(ANode), NEW w \in Workers, Frame(w), UNCHANGED job,
         NEW x \in Workers, x # w, Earned(x)
  PROVE  Earned(x)'
<1>1. /\ nodes' = nodes /\ pc'[x] = pc[x] /\ at'[x] = at[x] /\ status'[x] = status[x]
      /\ total'[x] = total[x] /\ result'[x] = result[x] /\ fetched'[x] = fetched[x]
  BY DEF Frame, Control
<1>2. Len(nodes[x]) \in Nat /\ Len(tree[x]) = Len(nodes[x])
  BY LenProperties DEF RunTypeOK
<1>3. pc[x] \in Commands \union {"begin"} => at[x] \in 1 .. Len(nodes[x])
  BY DEF RunTypeOK
<1>4. \A i \in 1 .. Len(nodes[x]) : Passed(x, i) => Passed(x, i)'
  BY PassedStays
<1>5. pc[x] \in Commands =>
        /\ tree'[x][at[x]] \in {tree[x][at[x]], "none"}
        /\ tested'[x][at[x]] = tested[x][at[x]]
  BY <1>2, <1>3 DEF Frame
<1>6. (pc[x] \in Commands \union {"begin"} /\ total[x] => \A i \in 1 .. at[x] - 1 : Passed(x, i))'
  BY <1>1, <1>2, <1>3, <1>4 DEF Earned
<1>7. (result[x] = "passed" =>
         pc[x] = "returned" /\ \A i \in 1 .. Len(nodes[x]) : Passed(x, i))'
  BY <1>1, <1>4 DEF Earned
<1>8. (pc[x] \in {"curl", "script"} /\ status[x] => tree[x][at[x]] \in {"none", AskedFor(fetched[x])})'
  BY <1>1, <1>5 DEF Earned, AskedFor, Commands
<1>9. (pc[x] = "teardown" => tested[x][at[x]].tree = AskedFor(tested[x][at[x]].fetched))'
  BY <1>1, <1>5 DEF Earned, AskedFor, Commands
<1>10. QED
  BY <1>1, <1>6, <1>7, <1>8, <1>9 DEF Earned

\* The nodes before this one stay as they are.
LEMMA NodesBefore ==
  ASSUME RunTypeOK(ANode), NEW w \in Workers, Frame(w), UNCHANGED job, Earned(w),
         pc[w] \in Commands \union {"begin"}, total[w]
  PROVE  \A i \in 1 .. at[w] - 1 : i \in 1 .. Len(nodes[w]) /\ Passed(w, i)'
<1>1. at[w] \in 1 .. Len(nodes[w]) /\ Len(nodes[w]) \in Nat
  BY LenProperties DEF RunTypeOK
<1>2. \A i \in 1 .. at[w] - 1 : i \in 1 .. Len(nodes[w]) /\ i # at[w] /\ Passed(w, i)
  BY <1>1 DEF Earned
<1>3. QED
  BY <1>2, PassedStays

\* The code between two commands, with what the first one left behind.
LEMMA ProceedEarned ==
  ASSUME RunTypeOK(ANode), NEW w \in Workers, Frame(w), UNCHANGED job, Earned(w),
         pc[w] \in Commands, NEW ok \in BOOLEAN, Proceed(w, ok),
         ok => status[w] /\ CanPass(w) /\ tree' = TreeAfter(w) /\ tested' = TestedAfter(w)
  PROVE  Earned(w)'
<1>1. at[w] \in 1 .. Len(nodes[w]) /\ Len(nodes[w]) \in Nat
  BY LenProperties DEF RunTypeOK
<1>2. nodes' = nodes
  BY DEF Frame
<1>3. fetched'[w] = IF pc[w] = "fetch" THEN ok ELSE fetched[w]
  BY DEF Proceed, RunTypeOK
<1>4. result[w] # "passed"
  BY DEF Earned, Commands
<1>5. ok => /\ pc[w] \in {"rm", "teardown"} => tree'[w][at[w]] = "none"
            /\ pc[w] \notin {"rm", "teardown"} => tree'[w][at[w]] = Left(pc[w], tree[w][at[w]])
            /\ pc[w] # "script" => tested' = tested
            /\ pc[w] = "script" => /\ tested'[w][at[w]].tree = tree[w][at[w]]
                                   /\ tested'[w][at[w]].fetched = fetched[w]
  BY TreeAfterFacts, TestedAfterFacts
<1>6. ok /\ pc[w] = "teardown" => \A i \in 1 .. Len(nodes[w]) : i = at[w] => Passed(w, i)'
  BY <1>5 DEF Earned, Passed, AskedFor
<1>7. CASE ToCommand(w, ok)
  <2>1. /\ pc'[w] \in Commands
        /\ at'[w] = at[w] /\ total'[w] = total[w] /\ result'[w] = result[w]
    BY <1>7 DEF ToCommand
  <2>2. (pc[w] \in Commands \union {"begin"} /\ total[w] => \A i \in 1 .. at[w] - 1 : Passed(w, i))'
    BY <2>1, NodesBefore
  <2>3. /\ pc'[w] \in {"fetch", "main", "merge"} => job'.kind = "PR"
        /\ pc'[w] = "checkout" => job'.kind # "PR"
        /\ pc'[w] = "merge" => fetched'[w]
    BY <1>3, <1>7 DEF ToCommand, Earned
  <2>4. ASSUME pc'[w] \in {"curl", "script"}, status'[w]
        PROVE  tree'[w][at'[w]] \in {"none", AskedFor(fetched[w])'}
    <3>1. /\ ok
          /\ pc[w] \in {"merge", "checkout", "curl"} \/ (pc[w] = "main" /\ ~fetched[w])
      BY <1>7, <2>4 DEF ToCommand
    <3>2. fetched'[w] = fetched[w] /\ tree'[w][at[w]] = Left(pc[w], tree[w][at[w]])
      BY <1>3, <1>5, <3>1
    <3>3. QED
      BY <2>1, <3>1, <3>2 DEF Left, Earned, AskedFor
  <2>5. ASSUME pc'[w] = "teardown"
        PROVE  tested'[w][at'[w]].tree = AskedFor(tested[w][at[w]].fetched)'
    <3>1. ok /\ pc[w] = "script"
      BY <1>7, <2>5 DEF ToCommand
    <3>2. tree[w][at[w]] = AskedFor(fetched[w])
      BY <3>1 DEF Earned, CanPass
    <3>3. QED
      BY <1>5, <2>1, <3>1, <3>2 DEF AskedFor
  <2>6. QED
    BY <1>4, <2>1, <2>2, <2>3, <2>4, <2>5 DEF Earned
<1>8. CASE ToNextNode(w, ok)
  <2>1. pc'[w] = "begin" /\ at'[w] = at[w] + 1 /\ result'[w] = result[w]
    BY <1>8 DEF ToNextNode
  <2>2. total'[w] => total[w] /\ \A i \in 1 .. Len(nodes[w]) : i = at[w] => Passed(w, i)'
    BY <1>6, <1>8 DEF ToNextNode
  <2>3. total'[w] => \A i \in 1 .. at'[w] - 1 : Passed(w, i)'
    BY <1>1, <2>1, <2>2, NodesBefore
  <2>4. QED
    BY <1>4, <2>1, <2>3 DEF Earned, Commands
<1>9. CASE ToEnd(w, ok)
  <2>1. pc'[w] = "returned"
    BY <1>9 DEF ToEnd
  <2>2. result'[w] = "passed" =>
          /\ total[w] /\ at[w] = Len(nodes[w])
          /\ \A i \in 1 .. Len(nodes[w]) : i = at[w] => Passed(w, i)'
    BY <1>1, <1>6, <1>9 DEF ToEnd
  <2>3. result'[w] = "passed" => \A i \in 1 .. Len(nodes[w]) : Passed(w, i)'
    BY <1>1, <2>2, NodesBefore
  <2>4. QED
    BY <1>2, <2>1, <2>3 DEF Earned, Commands
<1>10. QED
  BY <1>7, <1>8, <1>9, ProceedFacts

\* A command that is cut off may change the tree, and nothing that was earned.
LEMMA CutOffEarned ==
  ASSUME RunTypeOK(ANode), NEW w \in Workers, Frame(w), UNCHANGED job, Earned(w),
         pc[w] \in Commands, tree' \in CutOff(w),
         pc'[w] \in {pc[w], "killed"}, UNCHANGED <<at, status, fetched, total, result, tested>>
  PROVE  Earned(w)'
<1>1. result[w] # "passed"
  BY DEF Earned, Commands
<1>2. (pc[w] \in Commands \union {"begin"} /\ total[w] => \A i \in 1 .. at[w] - 1 : Passed(w, i))'
  BY NodesBefore
<1>3. pc[w] \in {"curl", "script"} => tree'[w][at[w]] = tree[w][at[w]]
  BY TreeAfterFacts DEF CutOff, Left
<1>4. QED
  BY <1>1, <1>2, <1>3 DEF Earned, AskedFor

LEMMA RunStepEarned ==
  ASSUME RunTypeOK(ANode), NEW w \in Workers, RunStep(w) \/ Killed(w), UNCHANGED job, Earned(w)
  PROVE  Earned(w)'
<1>1. Frame(w)
  BY RunStepFrame
<1>2. CASE BeginTest(w)
  <2>1. pc[w] = "begin" /\ pc'[w] = "rm" /\ UNCHANGED <<at, total, result>>
    BY <1>2 DEF BeginTest, Goes, RunTypeOK
  <2>2. (pc[w] \in Commands \union {"begin"} /\ total[w] => \A i \in 1 .. at[w] - 1 : Passed(w, i))'
    BY <1>1, <2>1, NodesBefore
  <2>3. QED
    BY <2>1, <2>2 DEF Earned
<1>3. CASE ExecutorFails(w)
  BY <1>3, ReturnFacts DEF ExecutorFails, Earned, Commands
<1>4. CASE CommandSkipped(w)
  BY <1>1, <1>4, ProceedEarned DEF CommandSkipped
<1>5. CASE CommandPasses(w)
  BY <1>1, <1>5, ProceedEarned DEF CommandPasses
<1>6. CASE CommandFails(w)
  BY <1>1, <1>6, ProceedEarned DEF CommandFails
<1>7. CASE AttemptErrs(w)
  BY <1>1, <1>7, CutOffEarned DEF AttemptErrs
<1>8. CASE CommandErrs(w)
  <2>1. pc[w] \in Commands
    BY <1>8 DEF CommandErrs
  <2>2. CASE Proceed(w, FALSE)
    BY <1>1, <2>1, <2>2, ProceedEarned
  <2>3. CASE Return(w, "error")
    BY <2>3, ReturnFacts DEF Earned, Commands
  <2>4. QED
    BY <1>8, <2>2, <2>3 DEF CommandErrs
<1>9. CASE Killed(w)
  <2>1. pc'[w] = "killed"
    BY <1>9 DEF Killed, RunTypeOK
  <2>2. QED
    BY <1>1, <1>9, <2>1, CutOffEarned DEF Killed
<1>10. QED
  BY <1>2, <1>3, <1>4, <1>5, <1>6, <1>7, <1>8, <1>9 DEF RunStep

\* A run starts with nothing earned, and one without nodes with nothing to earn.
LEMMA StartRunEarned ==
  ASSUME RunTypeOK(ANode), NEW w \in Workers, NEW nl \in Seq(ANode), StartRun(w, nl),
         UNCHANGED job, EarnedInv
  PROVE  EarnedInv'
<1>1. ASSUME NEW x \in Workers, x # w PROVE Earned(x)'
  <2>1. /\ nodes'[x] = nodes[x] /\ pc'[x] = pc[x] /\ at'[x] = at[x]
        /\ result'[x] = result[x] /\ tree'[x] = tree[x] /\ tested'[x] = tested[x]
        /\ UNCHANGED <<status, fetched, total>>
    BY <1>1, StartRunFacts
  <2>2. Earned(x)
    BY DEF EarnedInv
  <2>3. QED
    BY <2>1, <2>2 DEF Earned, Passed, AskedFor
<1>2. Earned(w)'
  <2>1. /\ nodes'[w] = nl /\ at'[w] = 1 /\ pc'[w] \in {"begin", "returned"}
        /\ pc'[w] = "returned" => nl = <<>>
        /\ pc'[w] = "begin" => result'[w] = result[w]
    BY StartRunFacts
  <2>2. result[w] # "passed"
    BY DEF EarnedInv, Earned, StartRun
  <2>3. 1 .. at'[w] - 1 = {} /\ (pc'[w] = "returned" => 1 .. Len(nodes'[w]) = {})
    BY <2>1, EmptySeq
  <2>4. QED
    BY <2>1, <2>2, <2>3 DEF Earned, Commands
<1>3. QED
  BY <1>1, <1>2 DEF EarnedInv


LEMMA NextEarned ==
  ASSUME TypeOK, EarnedInv, [Next]_vars
  PROVE  EarnedInv'
<1>1. RunTypeOK(ANode)
  BY DEF TypeOK, ANode
<1>2. ASSUME UNCHANGED <<job, runVars>> PROVE EarnedInv'
  BY <1>2 DEF EarnedInv, Earned, Passed, AskedFor, runVars
<1>3. ASSUME NEW w \in Workers, RunLocally(w) PROVE EarnedInv'
  BY <1>1, <1>3, LocalList, StartRunEarned DEF RunLocally
<1>4. ASSUME NEW w \in Workers, RunOnNodes(w) PROVE EarnedInv'
  <2>1. PICK nl \in ProcessNodeGroup(list[w], job.processNodeGroup) : StartRun(w, nl)
    BY <1>4 DEF RunOnNodes
  <2>2. nl \in Seq(Node)
    BY <2>1, GroupedList DEF TypeOK
  <2>3. nl \in Seq(ANode)
    BY <2>2, SeqMonotonic DEF ANode
  <2>4. QED
    BY <1>1, <1>4, <2>1, <2>3, StartRunEarned DEF RunOnNodes
<1>5. ASSUME NEW w \in Workers, WorkerRuns(w) PROVE EarnedInv'
  <2>1. (RunStep(w) \/ Killed(w)) /\ UNCHANGED job
    BY <1>5 DEF WorkerRuns
  <2>2. Frame(w)
    <3>1. RunStep(w) \/ Killed(w)
      BY <2>1
    <3>2. QED
      BY <1>1, <3>1, RunStepFrame
  <2>3. \A x \in Workers : Earned(x)
    BY DEF EarnedInv
  <2>4. ASSUME NEW x \in Workers, x # w PROVE Earned(x)'
    BY <1>1, <2>1, <2>2, <2>3, <2>4, OthersEarned
  <2>5. Earned(w)'
    <3>1. Earned(w) /\ (RunStep(w) \/ Killed(w))
      BY <2>1, <2>3
    <3>2. UNCHANGED job
      BY Zenon, <2>1
    <3>3. QED
      BY <1>1, <3>1, <3>2, RunStepEarned
  <2>6. QED
    BY <2>4, <2>5 DEF EarnedInv
<1>6. ASSUME NEW w \in Workers,
             Validate(w) \/ NodesFromFile(w) \/ NodesRead(w) \/ Panics(w) \/ ExitWith(w)
      PROVE  EarnedInv'
  BY Zenon, <1>2, <1>6 DEF Validate, NodesFromFile, NodesRead, Panics, ExitWith
<1>7. ASSUME NEW a \in Adders, AddNode(a) PROVE EarnedInv'
  BY <1>2, <1>7 DEF AddNode
<1>8. CASE UNCHANGED vars
  BY <1>2, <1>8 DEF vars
<1>9. QED
  BY <1>3, <1>4, <1>5, <1>6, <1>7, <1>8 DEF Next, WorkStep

-----------------------------------------------------------------------------
(* CoverInv. *)

\* What is appended comes on top of what was there.
LEMMA ListedGrows ==
  ASSUME NEW S, NEW s \in Seq(S)
  PROVE  /\ \A t \in Seq(S) : Listed(s \o t) = Listed(s) \union Listed(t)
         /\ \A e \in S : Listed(Append(s, e)) = Listed(s) \union {e}
         /\ Listed(s) = {s[i] : i \in 1 .. Len(s)}
<1>1. Len(s) \in Nat /\ DOMAIN s = 1 .. Len(s)
  BY LenProperties
<1>2. ASSUME NEW t \in Seq(S) PROVE Listed(s \o t) = Listed(s) \union Listed(t)
  <2>1. Len(t) \in Nat /\ DOMAIN t = 1 .. Len(t)
    BY LenProperties
  <2>2. s \o t \in Seq(S) /\ Len(s \o t) = Len(s) + Len(t)
    BY ConcatProperties
  <2>3. DOMAIN (s \o t) = 1 .. Len(s) + Len(t)
    BY <2>2, LenProperties
  <2>4. \A i \in 1 .. Len(s) + Len(t) :
          (s \o t)[i] = IF i <= Len(s) THEN s[i] ELSE t[i - Len(s)]
    BY ConcatProperties
  <2>5. Listed(s \o t) \subseteq Listed(s) \union Listed(t)
    BY <1>1, <2>1, <2>3, <2>4 DEF Listed
  <2>6. Listed(s) \subseteq Listed(s \o t)
    BY <1>1, <2>1, <2>3, <2>4 DEF Listed
  <2>7. ASSUME NEW i \in 1 .. Len(t) PROVE t[i] \in Listed(s \o t)
    <3>1. i + Len(s) \in 1 .. Len(s) + Len(t) /\ ~(i + Len(s) <= Len(s)) /\ (i + Len(s)) - Len(s) = i
      BY <1>1, <2>1
    <3>2. (s \o t)[i + Len(s)] = t[i]
      BY <2>4, <3>1
    <3>3. QED
      BY <2>3, <3>1, <3>2 DEF Listed
  <2>8. Listed(t) \subseteq Listed(s \o t)
    BY <2>1, <2>7 DEF Listed
  <2>9. QED
    BY <2>5, <2>6, <2>8
<1>3. ASSUME NEW e \in S PROVE Listed(Append(s, e)) = Listed(s) \union {e}
  <2>1. DOMAIN Append(s, e) = 1 .. Len(s) + 1
    BY AppendProperties, LenProperties
  <2>2. Append(s, e)[Len(s) + 1] = e /\ \A i \in 1 .. Len(s) : Append(s, e)[i] = s[i]
    BY AppendProperties
  <2>3. 1 .. Len(s) + 1 = 1 .. Len(s) \union {Len(s) + 1}
    BY <1>1
  <2>4. QED
    BY <1>1, <2>1, <2>2, <2>3 DEF Listed
<1>4. QED
  BY <1>1, <1>2, <1>3 DEF Listed

\* No process writes a list without what the file held first.
FilesCover ==
  /\ \A f \in Files : file[f].state # "torn" => Old(f) \subseteq Listed(file[f].nodes)
  /\ \A a \in Adders : apc[a] \in {"write", "truncated"} => Old(File(a)) \subseteq Listed(held[a])

LEMMA AddNodeCovers ==
  ASSUME FileTypeOK, FilesCover, NEW a \in Adders, AddNodeToFile(a)
  PROVE  FilesCover'
<1>1. File(a) \in Files /\ NewNode(a) \in Node
  BY NodeFileAssumption DEF File, NewNode, Node
<1>2. file[File(a)] \in Content /\ file[File(a)].nodes \in Seq(Node)
  BY <1>1 DEF FileTypeOK, Content
<1>3. CASE ReadNodeList(a)
  <2>1. Old(File(a)) \subseteq Listed(Append(file[File(a)].nodes, NewNode(a)))
    BY <1>1, <1>2, <1>3, ListedGrows DEF ReadNodeList, FilesCover
  <2>2. QED
    BY <1>3, <2>1 DEF ReadNodeList, AdderGoes, FilesCover, FileTypeOK, Old, File
<1>4. CASE AddFails(a)
  BY <1>4 DEF AddFails, AdderGoes, FilesCover, FileTypeOK, Old, File
<1>5. CASE TruncateFile(a)
  BY <1>5 DEF TruncateFile, AdderGoes, FilesCover, FileTypeOK, Old, File, Torn
<1>6. CASE WriteList(a)
  <2>1. Old(File(a)) \subseteq Listed(held[a])
    BY <1>6 DEF WriteList, AdderGoes, FilesCover
  <2>2. \A f \in Files : (file[f].state # "torn" => Old(f) \subseteq Listed(file[f].nodes))'
    <3>1. \/ file' = [file EXCEPT ![File(a)] = NodeList(held[a])]
          \/ file' = [file EXCEPT ![File(a)] = Torn]
      BY <1>6 DEF WriteList
    <3>2. file'[File(a)].state = "torn" \/ file'[File(a)].nodes = held[a]
      BY <1>1, <3>1 DEF FileTypeOK, NodeList, Torn
    <3>3. \A f \in Files : f # File(a) => file'[f] = file[f]
      BY <3>1 DEF FileTypeOK
    <3>4. QED
      BY <2>1, <3>2, <3>3 DEF FilesCover, Old
  <2>3. QED
    BY <1>6, <2>2 DEF WriteList, AdderGoes, FilesCover, FileTypeOK, Old, File
<1>7. CASE WriteFails(a)
  BY <1>7 DEF WriteFails, AdderGoes, FilesCover, FileTypeOK, Old, File
<1>8. QED
  BY <1>3, <1>4, <1>5, <1>6, <1>7 DEF AddNodeToFile

\* What a worker has read, and what it goes on with.
WorkerCovers(w) ==
  /\ phase[w] = "validate" => next[w] = 1
  /\ phase[w] = "read" => \A j \in 1 .. Len(job.sshNodesFiles) :
       j < next[w] => Old(job.sshNodesFiles[j]) \subseteq Listed(list[w])
  /\ phase[w] = "group" => \A f \in Listed(job.sshNodesFiles) : Old(f) \subseteq Listed(list[w])
  /\ phase[w] = "run" => Covered(w)
  /\ exit[w] = "passed" => phase[w] = "end" /\ result[w] = "passed" /\ Covered(w)

\* No list, in a file or in a process, is without the nodes there were first.
CoverInv == FilesCover /\ \A w \in Workers : WorkerCovers(w)

LEMMA OthersCover ==
  ASSUME NEW x \in Workers, WorkerCovers(x), UNCHANGED job,
         phase'[x] = phase[x], next'[x] = next[x], list'[x] = list[x], exit'[x] = exit[x],
         nodes'[x] = nodes[x], result'[x] = result[x]
  PROVE  WorkerCovers(x)'
<1>1. Covered(x)' = Covered(x)
  BY DEF Covered, Covers, Old
<1>2. \A f : Old(f)' = Old(f)
  BY DEF Old
<1>3. QED
  BY <1>1, <1>2 DEF WorkerCovers

LEMMA StartRunCovers ==
  ASSUME TypeOK, NEW w \in Workers, NEW nl \in Seq(ANode), StartRun(w, nl), UNCHANGED <<job, next, exit>>,
         Passes(w, "group", "run"), \A x \in Workers : x # w => list'[x] = list[x],
         \A x \in Workers : WorkerCovers(x),
         \A f \in Listed(job.sshNodesFiles) : \A n \in Old(f) : \E i \in 1 .. Len(nl) : Covers(nl[i], n)
  PROVE  \A x \in Workers : WorkerCovers(x)'
<1>1. RunTypeOK(ANode)
  BY DEF TypeOK, ANode
<1>2. nodes'[w] = nl /\ \A x \in Workers : x # w => nodes'[x] = nodes[x] /\ result'[x] = result[x]
  BY <1>1, StartRunFacts
<1>3. phase[w] = "group" /\ phase'[w] = "run" /\ \A x \in Workers : x # w => phase'[x] = phase[x]
  BY DEF Passes, TypeOK
<1>4. ASSUME NEW x \in Workers, x # w PROVE WorkerCovers(x)'
  BY <1>2, <1>3, <1>4, OthersCover
<1>5. Covered(w)'
  <2>1. ASSUME NEW f \in Listed(job.sshNodesFiles), NEW n \in Old(f)
        PROVE  (\E i \in 1 .. Len(nodes[w]) : Covers(nodes[w][i], n))'
    <3>1. PICK i \in 1 .. Len(nl) : Covers(nl[i], n)
      BY <2>1
    <3>2. nodes'[w] = nl /\ UNCHANGED job
      BY <1>2
    <3>3. QED
      BY <3>1, <3>2 DEF Covers
  <2>2. QED
    BY <2>1 DEF Covered, Old
<1>6. exit'[w] = exit[w] /\ exit[w] # "passed"
  BY <1>3 DEF WorkerCovers
<1>7. WorkerCovers(w)'
  BY <1>3, <1>5, <1>6 DEF WorkerCovers
<1>8. QED
  BY <1>4, <1>7

LEMMA NextCovers ==
  ASSUME TypeOK, EarnedInv, CoverInv, [Next]_vars
  PROVE  CoverInv'
<1>1. RunTypeOK(ANode) /\ job.sshNodesFiles \in Seq(Files)
  BY WorkAssumption DEF TypeOK, ANode, Job
<1>2. ASSUME UNCHANGED fileVars PROVE FilesCover'
  BY <1>2 DEF CoverInv, FilesCover, fileVars, Old, File
<1>3. ASSUME NEW w \in Workers, UNCHANGED <<job, runVars>>,
             \A x \in Workers : x # w =>
               phase'[x] = phase[x] /\ next'[x] = next[x] /\ list'[x] = list[x] /\ exit'[x] = exit[x]
      PROVE  \A x \in Workers : x # w => WorkerCovers(x)'
  BY <1>3, OthersCover DEF CoverInv, runVars
<1>4. ASSUME NEW w \in Workers, Validate(w) PROVE CoverInv'
  <2>1. \A x \in Workers : x # w => WorkerCovers(x)'
    BY <1>3, <1>4 DEF Validate, Exits, Passes, TypeOK
  <2>2. phase[w] = "validate" /\ next[w] = 1 /\ exit[w] # "passed"
    BY <1>4 DEF Validate, Exits, Passes, CoverInv, WorkerCovers
  <2>3. /\ phase'[w] \in {"end", "read"} /\ next'[w] = 1
        /\ exit'[w] \in {exit[w], "error"}
    BY <1>4, <2>2 DEF Validate, Exits, Passes, TypeOK
  <2>4. WorkerCovers(w)'
    BY <1>1, <2>2, <2>3 DEF WorkerCovers
  <2>5. QED
    BY <1>2, <1>4, <2>1, <2>4 DEF CoverInv, Validate
<1>5. ASSUME NEW w \in Workers, NodesFromFile(w) PROVE CoverInv'
  <2> DEFINE g == job.sshNodesFiles[next[w]]
  <2>1. \A x \in Workers : x # w => WorkerCovers(x)'
    BY <1>3, <1>5 DEF NodesFromFile, Exits, Passes, TypeOK
  <2>2. phase[w] = "read" /\ exit[w] # "passed" /\ next[w] \in Nat \ {0}
    BY <1>5 DEF NodesFromFile, CoverInv, WorkerCovers, TypeOK
  <2>3. next[w] \in 1 .. Len(job.sshNodesFiles) /\ g \in Files
    BY <1>1, <1>5, <2>2, LenProperties, ElementOfSeq DEF NodesFromFile
  <2>4. list[w] \in Seq(Node) /\ file[g] \in Content /\ file[g].nodes \in Seq(Node)
    BY <2>3 DEF TypeOK, FileTypeOK, Content
  <2>5. CASE file[g].state = "list"
    <3>1. /\ list'[w] = list[w] \o file[g].nodes /\ next'[w] = next[w] + 1
          /\ UNCHANGED <<job, phase, exit>>
      <4>1. w \in DOMAIN list /\ w \in DOMAIN next
        BY DEF TypeOK
      <4>2. QED
        BY <1>5, <2>5, <4>1 DEF NodesFromFile
    <3>2. Old(g) \subseteq Listed(file[g].nodes)
      BY <2>3, <2>5 DEF CoverInv, FilesCover
    <3>3. Listed(list'[w]) = Listed(list[w]) \union Listed(file[g].nodes)
      BY <2>4, <3>1, ListedGrows
    <3>4. ASSUME NEW j \in 1 .. Len(job.sshNodesFiles), j < next'[w]
          PROVE  Old(job.sshNodesFiles[j]) \subseteq Listed(list'[w])
      <4>1. j < next[w] \/ j = next[w]
        BY <2>3, <3>1, <3>4
      <4>2. QED
        BY <2>2, <3>2, <3>3, <4>1 DEF CoverInv, WorkerCovers
    <3>5. WorkerCovers(w)'
      BY <2>2, <3>1, <3>4 DEF WorkerCovers, Old
    <3>6. UNCHANGED <<job, fileVars>>
      BY <1>5 DEF NodesFromFile
    <3>7. QED
      BY <1>2, <2>1, <3>5, <3>6 DEF CoverInv
  <2>6. CASE file[g].state # "list"
    <3>1. phase'[w] = "end" /\ exit'[w] = "error"
      BY <1>5, <2>6 DEF NodesFromFile, Exits, Passes, TypeOK
    <3>2. WorkerCovers(w)'
      BY <3>1 DEF WorkerCovers
    <3>3. QED
      BY <1>2, <1>5, <2>1, <3>2 DEF CoverInv, NodesFromFile
  <2>7. QED
    BY <2>5, <2>6
<1>6. ASSUME NEW w \in Workers, NodesRead(w) PROVE CoverInv'
  <2>1. \A x \in Workers : x # w => WorkerCovers(x)'
    <3>1. UNCHANGED <<job, runVars, next, list, exit>> /\ phase' = [phase EXCEPT ![w] = "group"]
      BY <1>6 DEF NodesRead, Passes
    <3>2. QED
      BY <1>3, <3>1
  <2>2. /\ phase[w] = "read" /\ phase'[w] = "group" /\ next[w] > Len(job.sshNodesFiles)
        /\ UNCHANGED <<job, list, exit>>
    BY <1>6 DEF NodesRead, Passes, TypeOK
  <2>3. next[w] \in Nat /\ Len(job.sshNodesFiles) \in Nat
    BY <1>1, LenProperties DEF TypeOK
  <2>4. \A j \in 1 .. Len(job.sshNodesFiles) : Old(job.sshNodesFiles[j]) \subseteq Listed(list[w])
    <3>1. WorkerCovers(w)
      BY DEF CoverInv
    <3>2. \A j \in 1 .. Len(job.sshNodesFiles) :
            j < next[w] => Old(job.sshNodesFiles[j]) \subseteq Listed(list[w])
      BY <2>2, <3>1 DEF WorkerCovers
    <3>3. \A j \in 1 .. Len(job.sshNodesFiles) : j < next[w]
      BY <2>2, <2>3
    <3>4. QED
      BY <3>2, <3>3
  <2>5. \A f \in Listed(job.sshNodesFiles) : Old(f) \subseteq Listed(list[w])
    BY <1>1, <2>4, ListedGrows
  <2>6. WorkerCovers(w)'
    BY <2>2, <2>5 DEF CoverInv, WorkerCovers, Old
  <2>7. QED
    BY <1>2, <1>6, <2>1, <2>6 DEF CoverInv, NodesRead
<1>7. ASSUME NEW w \in Workers, RunLocally(w) PROVE CoverInv'
  <2>1. Listed(job.sshNodesFiles) = {}
    <3>1. Len(job.sshNodesFiles) = 0
      BY <1>7, EmptySeq DEF RunLocally
    <3>2. QED
      BY <1>1, <3>1, ListedGrows
  <2>2. \A x \in Workers : WorkerCovers(x)'
    BY <1>7, <2>1, LocalList, StartRunCovers DEF RunLocally, CoverInv
  <2>3. QED
    BY <1>2, <1>7, <2>2 DEF CoverInv, RunLocally
<1>8. ASSUME NEW w \in Workers, Panics(w) PROVE CoverInv'
  <2>1. \A x \in Workers : x # w => WorkerCovers(x)'
    BY <1>3, <1>8 DEF Panics, Exits, Passes, TypeOK
  <2>2. phase'[w] = "end" /\ exit'[w] = "panic"
    BY <1>8 DEF Panics, Exits, Passes, TypeOK
  <2>3. WorkerCovers(w)'
    BY <2>2 DEF WorkerCovers
  <2>4. QED
    BY <1>2, <1>8, <2>1, <2>3 DEF CoverInv, Panics
<1>9. ASSUME NEW w \in Workers, RunOnNodes(w) PROVE CoverInv'
  <2>1. PICK nl \in ProcessNodeGroup(list[w], job.processNodeGroup) : StartRun(w, nl)
    BY <1>9 DEF RunOnNodes
  <2>2. /\ nl \in Seq(Node)
        /\ \A n \in Listed(list[w]) : \E i \in 1 .. Len(nl) :
             nl[i] = n \/ (job.processNodeGroup = "random-one-per-group" /\ nl[i].group = n.group)
    BY <2>1, GroupedList DEF TypeOK
  <2>3. nl \in Seq(ANode)
    BY <2>2, SeqMonotonic DEF ANode
  <2>4. \A f \in Listed(job.sshNodesFiles) : Old(f) \subseteq Listed(list[w])
    BY <1>9 DEF RunOnNodes, Passes, CoverInv, WorkerCovers
  <2>5. \A f \in Listed(job.sshNodesFiles) : \A n \in Old(f) : \E i \in 1 .. Len(nl) : Covers(nl[i], n)
    BY <2>2, <2>4 DEF Covers
  <2>6. \A x \in Workers : x # w => list'[x] = list[x]
    BY <1>9 DEF RunOnNodes, TypeOK
  <2>7. \A x \in Workers : WorkerCovers(x)'
    BY <1>9, <2>1, <2>3, <2>5, <2>6, StartRunCovers DEF RunOnNodes, CoverInv
  <2>8. QED
    BY <1>2, <1>9, <2>7 DEF CoverInv, RunOnNodes
<1>10. ASSUME NEW w \in Workers, WorkerRuns(w) PROVE CoverInv'
  <2>1. (RunStep(w) \/ Killed(w)) /\ UNCHANGED <<job, fileVars, workVars>>
    BY <1>10 DEF WorkerRuns
  <2>2. nodes' = nodes /\ \A x \in Workers : x # w => result'[x] = result[x]
    BY <1>1, <2>1, RunStepFrame DEF Frame, Control
  <2>3. result[w] # "passed"
    BY <2>1 DEF EarnedInv, Earned, RunStep, BeginTest, ExecutorFails, CommandSkipped, CommandPasses,
                CommandFails, AttemptErrs, CommandErrs, Killed, Commands
  <2>4. \A x \in Workers : x # w => WorkerCovers(x)'
    BY <2>1, <2>2, OthersCover DEF CoverInv, workVars
  <2>5. WorkerCovers(w)'
    <3>1. Covered(w)' = Covered(w) /\ \A f : Old(f)' = Old(f)
      BY <2>1, <2>2 DEF Covered, Covers, Old
    <3>2. UNCHANGED <<job, phase, next, list, exit>>
      BY <2>1 DEF workVars
    <3>3. WorkerCovers(w) /\ exit[w] # "passed"
      BY <2>3 DEF CoverInv, WorkerCovers
    <3>4. QED
      BY <3>1, <3>2, <3>3 DEF WorkerCovers
  <2>6. QED
    BY <1>2, <2>1, <2>4, <2>5 DEF CoverInv
<1>11. ASSUME NEW w \in Workers, ExitWith(w) PROVE CoverInv'
  <2>1. \A x \in Workers : x # w => WorkerCovers(x)'
    BY <1>3, <1>11 DEF ExitWith, Exits, Passes, TypeOK
  <2>2. /\ phase[w] = "run" /\ phase'[w] = "end" /\ exit'[w] = result[w]
        /\ UNCHANGED <<job, nodes, result>>
    BY <1>11 DEF ExitWith, Exits, Passes, TypeOK, runVars
  <2>3. Covered(w)
    BY <2>2 DEF CoverInv, WorkerCovers
  <2>4. Covered(w)'
    BY <2>2, <2>3 DEF Covered, Covers, Old
  <2>5. WorkerCovers(w)'
    BY <2>2, <2>4 DEF WorkerCovers
  <2>6. QED
    BY <1>2, <1>11, <2>1, <2>5 DEF CoverInv, ExitWith
<1>12. ASSUME NEW a \in Adders, AddNode(a) PROVE CoverInv'
  <2>1. FilesCover'
    BY <1>12, AddNodeCovers DEF AddNode, CoverInv, TypeOK
  <2>2. UNCHANGED <<job, runVars, workVars>>
    BY <1>12 DEF AddNode
  <2>3. \A x \in Workers : WorkerCovers(x)'
    BY <2>2, OthersCover DEF CoverInv, runVars, workVars
  <2>4. QED
    BY <2>1, <2>3 DEF CoverInv
<1>13. CASE UNCHANGED vars
  <2>1. \A x \in Workers : WorkerCovers(x)'
    BY <1>13, OthersCover DEF CoverInv, vars, runVars, workVars
  <2>2. QED
    BY <1>2, <1>13, <2>1 DEF CoverInv, vars
<1>14. QED
  BY <1>4, <1>5, <1>6, <1>7, <1>8, <1>9, <1>10, <1>11, <1>12, <1>13 DEF Next, WorkStep

-----------------------------------------------------------------------------
(* StayInv. *)

AtFile(a, f) == File(a) = f /\ apc[a] \in {"write", "truncated"}

\* As long as nobody interfered with a file, at most one process is at it, and
\* the file or the list of that process has what was added.
OneHolds(f) == \A a, b \in Adders : AtFile(a, f) /\ AtFile(b, f) => a = b

HeldHasOwn(f) ==
  \A b \in Adders : AtFile(b, f) =>
    /\ apc[b] = "truncated" => file[f].state = "torn"
    /\ NewNode(b) \in Listed(held[b])

AddedIsKept(f) ==
  \A a \in Adders : File(a) = f /\ apc[a] = "added" =>
    /\ \/ \E b \in Adders : File(b) = f /\ apc[b] = "truncated"
       \/ NewNode(a) \in Listed(file[f].nodes)
    /\ \A b \in Adders : AtFile(b, f) => NewNode(a) \in Listed(held[b])

Stays(f) == OneHolds(f) /\ HeldHasOwn(f) /\ AddedIsKept(f)

StayInv == \A f \in Files \ interfered : Stays(f)

LEMMA AddNodeStays ==
  ASSUME FileTypeOK, StayInv, NEW a \in Adders, AddNodeToFile(a)
  PROVE  StayInv'
<1>1. File(a) \in Files /\ NewNode(a) \in Node
  BY NodeFileAssumption DEF File, NewNode, Node
<1>2. file[File(a)] \in Content /\ file[File(a)].nodes \in Seq(Node)
  BY <1>1 DEF FileTypeOK, Content
<1>3. \A b \in Adders : File(b)' = File(b) /\ NewNode(b)' = NewNode(b)
  BY DEF File, NewNode
<1>4. \A b \in Adders : b # a => apc'[b] = apc[b] /\ held'[b] = held[b]
  BY DEF AddNodeToFile, ReadNodeList, AddFails, TruncateFile, WriteList, WriteFails, AdderGoes, FileTypeOK
<1>5. interfered \subseteq interfered' /\ \A f \in Files : f # File(a) => file'[f] = file[f]
  BY DEF AddNodeToFile, ReadNodeList, AddFails, TruncateFile, WriteList, WriteFails, FileTypeOK
<1>6. \A f \in Files \ interfered : Stays(f)
  BY DEF StayInv
<1> USE DEF Stays, OneHolds, HeldHasOwn, AddedIsKept
<1>7. ASSUME NEW f \in Files \ interfered', f # File(a) PROVE Stays(f)'
  BY <1>3, <1>4, <1>5, <1>6, <1>7 DEF AtFile
<1>8. ASSUME File(a) \notin interfered' PROVE Stays(File(a))'
  <2> DEFINE g == File(a)
  <2>1. Stays(g)
    BY <1>1, <1>5, <1>6, <1>8
  <2>2. CASE ReadNodeList(a)
    <3>1. /\ apc[a] = "begin" /\ apc'[a] = "write" /\ UNCHANGED file
          /\ held'[a] = Append(file[g].nodes, NewNode(a))
          /\ ~Busy(g)
      BY <1>1, <1>8, <2>2 DEF ReadNodeList, AdderGoes, FileTypeOK
    <3>2. \A b \in Adders : ~AtFile(b, g)
      BY <3>1 DEF Busy, AtFile
    <3>3. Listed(held'[a]) = Listed(file[g].nodes) \union {NewNode(a)}
      BY <1>1, <1>2, <3>1, ListedGrows
    <3>4. \A b \in Adders : AtFile(b, g)' => b = a
      BY <1>3, <1>4, <3>2 DEF AtFile
    <3>5. \A c \in Adders : File(c) = g /\ apc'[c] = "added" =>
            c # a /\ apc[c] = "added" /\ NewNode(c) \in Listed(file[g].nodes)
      BY <1>4, <2>1, <3>1, <3>2 DEF AtFile
    <3>6. QED
      BY <1>3, <3>1, <3>3, <3>4, <3>5
  <2>3. CASE AddFails(a)
    <3>1. apc[a] \in {"begin", "write"} /\ apc'[a] = "failed" /\ UNCHANGED file
      BY <2>3 DEF AddFails, AdderGoes, FileTypeOK
    <3>2. QED
      BY <1>3, <1>4, <2>1, <3>1 DEF AtFile
  <2>4. CASE TruncateFile(a)
    <3>1. apc[a] = "write" /\ apc'[a] = "truncated" /\ UNCHANGED held /\ file'[g].state = "torn"
      BY <1>1, <2>4 DEF TruncateFile, AdderGoes, FileTypeOK, Torn
    <3>2. QED
      BY <1>3, <1>4, <2>1, <3>1 DEF AtFile
  <2>5. CASE WriteList(a)
    <3>1. apc[a] = "truncated" /\ apc'[a] = "added"
      BY <2>5 DEF WriteList, AdderGoes, FileTypeOK
    <3>2. file[g].state = "torn" /\ NewNode(a) \in Listed(held[a])
      BY <2>1, <3>1 DEF AtFile
    <3>3. file'[g].nodes = held[a]
      BY <1>1, <2>5, <3>2 DEF WriteList, FileTypeOK, NodeList
    <3>4. \A b \in Adders : ~AtFile(b, g)'
      BY <1>3, <1>4, <2>1, <3>1 DEF AtFile
    <3>5. \A c \in Adders : File(c) = g /\ apc'[c] = "added" => NewNode(c) \in Listed(held[a])
      BY <1>4, <2>1, <3>1, <3>2 DEF AtFile
    <3>6. QED
      BY <1>3, <3>3, <3>4, <3>5
  <2>6. CASE WriteFails(a)
    BY <1>8, <2>6 DEF WriteFails
  <2>7. QED
    BY <2>2, <2>3, <2>4, <2>5, <2>6 DEF AddNodeToFile
<1>9. \A f \in Files \ interfered' : Stays(f)'
  BY <1>7, <1>8
<1>10. QED
  BY <1>9 DEF StayInv

LEMMA NextStays ==
  ASSUME TypeOK, StayInv, [Next]_vars
  PROVE  StayInv'
<1>1. ASSUME UNCHANGED fileVars PROVE StayInv'
  <2>1. \A b \in Adders, f \in Files :
          File(b)' = File(b) /\ NewNode(b)' = NewNode(b) /\ AtFile(b, f)' = AtFile(b, f)
    BY <1>1 DEF AtFile, fileVars, File, NewNode
  <2>2. UNCHANGED <<file, apc, held, interfered>>
    BY <1>1 DEF fileVars
  <2>3. ASSUME NEW f \in Files \ interfered PROVE Stays(f)'
    <3>1. Stays(f)
      BY DEF StayInv
    <3>2. OneHolds(f)'
      BY <2>1, <3>1 DEF Stays, OneHolds
    <3>3. HeldHasOwn(f)'
      BY <2>1, <2>2, <3>1 DEF Stays, HeldHasOwn
    <3>4. AddedIsKept(f)'
      BY Zenon, <2>1, <2>2, <3>1 DEF Stays, AddedIsKept
    <3>5. QED
      BY <3>2, <3>3, <3>4 DEF Stays
  <2>4. QED
    BY <2>2, <2>3 DEF StayInv
<1>2. ASSUME NEW w \in Workers, WorkStep(w) PROVE UNCHANGED fileVars
  BY Zenon, <1>2 DEF WorkStep, Validate, NodesFromFile, NodesRead, RunLocally, Panics, RunOnNodes,
              WorkerRuns, ExitWith
<1>3. ASSUME NEW a \in Adders, AddNode(a) PROVE StayInv'
  BY <1>3, AddNodeStays DEF AddNode, TypeOK
<1>4. CASE UNCHANGED vars
  BY <1>1, <1>4 DEF vars
<1>5. QED
  BY <1>1, <1>2, <1>3, <1>4 DEF Next

-----------------------------------------------------------------------------
(* What the runs check, for every value of the constants. *)

IInv == TypeOK /\ EarnedInv /\ CoverInv /\ StayInv

LEMMA InitIInv ==
  ASSUME Init
  PROVE  IInv
<1>1. EarnedInv
  BY DEF Init, RunInit, EarnedInv, Earned, Commands
<1>2. FilesCover
  BY DEF Init, FileInit, FilesCover, Old
<1>3. \A w \in Workers : WorkerCovers(w)
  BY DEF Init, WorkerCovers
<1>4. StayInv
  BY DEF Init, FileInit, StayInv, Stays, OneHolds, HeldHasOwn, AddedIsKept, AtFile
<1>5. QED
  BY <1>1, <1>2, <1>3, <1>4, InitTypeOK DEF IInv, CoverInv

LEMMA Inductive == Spec => []IInv
<1>1. Init => IInv
  BY InitIInv
<1>2. IInv /\ [Next]_vars => IInv'
  BY NextTypeOK, NextEarned, NextCovers, NextStays DEF IInv
<1>3. QED
  BY <1>1, <1>2, PTL DEF Spec

\* A success is reported only when the script command passed, on every node of
\* the list, on a tree with what the request asks for: a status that is carried
\* past skipped commands, attempts that are repeated and builds that remove each
\* other's directories never make a success of less.
THEOREM EarnedSuccess == Spec => []SuccessIsEarned
<1>1. IInv => SuccessIsEarned
  BY DEF IInv, EarnedInv, Earned, Passed, SuccessIsEarned
<1>2. QED
  BY <1>1, Inductive, PTL

\* After a success nothing is left in any instance directory of the build.
THEOREM CleanSuccess == Spec => []NoLeftovers
<1>1. IInv => NoLeftovers
  BY DEF IInv, EarnedInv, Earned, Passed, NoLeftovers
<1>2. QED
  BY <1>1, Inductive, PTL

\* However many addnode processes run one after the other on a file, each node
\* that was added is still there.
THEOREM NodesStay == Spec => []AddedNodesStay
<1>1. IInv => AddedNodesStay
  <2> SUFFICES ASSUME IInv, NEW a \in Adders,
                      apc[a] = "added", File(a) \notin interfered, ~Busy(File(a))
               PROVE  NewNode(a) \in Listed(file[File(a)].nodes)
    BY DEF AddedNodesStay
  <2>1. File(a) \in Files
    BY NodeFileAssumption DEF File
  <2>2. ~ \E b \in Adders : File(b) = File(a) /\ apc[b] = "truncated"
    BY DEF Busy
  <2>3. QED
    BY <2>1, <2>2 DEF IInv, StayInv, Stays, AddedIsKept
<1>2. QED
  BY <1>1, Inductive, PTL

\* A success covers every node that was in the node files from the start, or
\* one of its group: files that are rewritten while a worker reads them make it
\* fail, and never leave out a node.
THEOREM FilesCovered == Spec => []SuccessCoversFiles
<1>1. IInv => SuccessCoversFiles
  <2> SUFFICES ASSUME IInv, NEW w \in Workers, exit[w] = "passed",
                      NEW f \in Listed(job.sshNodesFiles), NEW n \in Old(f)
               PROVE  \E i \in 1 .. Len(nodes[w]) :
                        Covers(nodes[w][i], n) /\ tested[w][i].tree # "none"
    BY DEF SuccessCoversFiles, Old
  <2>1. result[w] = "passed" /\ Covered(w)
    BY DEF IInv, CoverInv, WorkerCovers
  <2>2. PICK i \in 1 .. Len(nodes[w]) : Covers(nodes[w][i], n)
    BY <2>1 DEF Covered
  <2>3. tested[w][i].tree = AskedFor(tested[w][i].fetched)
    BY <2>1 DEF IInv, EarnedInv, Earned, Passed
  <2>4. tested[w][i].tree # "none"
    BY <2>3 DEF AskedFor
  <2>5. QED
    BY <2>2, <2>4
<1>2. QED
  BY <1>1, Inductive, PTL

=============================================================================
