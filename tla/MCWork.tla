------------------------------- MODULE MCWork -------------------------------
(***************************************************************************)
(* Work for TLC: node files and jobs.                                      *)
(***************************************************************************)
EXTENDS Work

N(name, group) == [name |-> name, group |-> group]

\* Two processes add a node each to a file with two nodes of a group, and a
\* third makes a new file.  A list may have no nodes.
MCOldFiles ==
  [f \in Files |-> IF f = "nodes" THEN NodeList(<<N("m1", "g"), N("m2", "g")>>)
                   ELSE IF f = "empty" THEN NodeList(<<>>) ELSE Missing]

MCAddition ==
  [a \in Adders |-> [file |-> IF a = "a3" THEN "more" ELSE "nodes",
                     node |-> N(IF a = "a1" THEN "m1" ELSE "m2", "g")]]

J(kind, git, setup, url, files, grouping) ==
  [kind |-> kind, git |-> git, setup |-> setup, url |-> url,
   sshNodesFiles |-> files, processNodeGroup |-> grouping]

MCJobs ==
  {J("PR", TRUE, TRUE, FALSE, <<"nodes">>, "random-one-per-group"),
   J("BRANCH", FALSE, TRUE, TRUE, <<"nodes">>, ""),
   J("BRANCH", FALSE, TRUE, FALSE, <<"nodes", "more">>, "random-one-per-group"),
   J("TAG", FALSE, FALSE, FALSE, <<>>, ""),
   J("TAG", FALSE, FALSE, FALSE, <<"nodes">>, ""),
   J("BRANCH", TRUE, TRUE, FALSE, <<"empty">>, ""),
   J("PR", FALSE, TRUE, FALSE, <<>>, ""),
   J("PR", FALSE, TRUE, FALSE, <<>>, "random-one-per-group")}

OneBuild == \E w \in Workers : phase[w] = "end"

FilesLeftAlone == \A a \in Adders : apc[a] = "failed"

\* One build of any job; two builds, each on a node of its choice, which may be
\* the same; or one build of two files, which processes write meanwhile.
MCInit ==
  /\ Init
  /\ \/ FilesLeftAlone /\ OneBuild
     \/ FilesLeftAlone /\ job.processNodeGroup # ""
     \/ OneBuild /\ Len(job.sshNodesFiles) = 2

MCSpec == MCInit /\ [][Next]_vars /\ \A w \in Workers : WF_vars(WorkStep(w))
=============================================================================
