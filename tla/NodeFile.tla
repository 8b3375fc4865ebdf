------------------------------ MODULE NodeFile ------------------------------
(***************************************************************************)
(* Node files (pkg/node) and the processes that add a node to one          *)
(* (toolkit nodefile addnode).  A process reads the whole list, adds its   *)
(* node and writes the whole list back: ioutil.WriteFile truncates the     *)
(* file and then writes.  Nothing keeps two of them apart.                 *)
(***************************************************************************)
EXTENDS Integers, Sequences, FiniteSets

CONSTANTS
  Names,     \* names of machines
  Groups,    \* groups of nodes; "" is the default
  Files,     \* paths of node files
  Adders,    \* addnode processes
  Addition,  \* Addition[a]: the file process a was given, and its node
  OldFiles   \* what the files held before

Node == [name : Names, group : Groups]

\* A missing file, one that does not parse, or a list of nodes.
Content == [state : {"missing", "torn", "list"}, nodes : Seq(Node)]

Missing == [state |-> "missing", nodes |-> <<>>]

Torn == [state |-> "torn", nodes |-> <<>>]

NodeList(nodes) == [state |-> "list", nodes |-> nodes]

ASSUME NodeFileAssumption ==
  /\ "" \in Groups
  /\ Addition \in [Adders -> [file : Files, node : Node]]
  /\ OldFiles \in [Files -> Content]
  /\ \A f \in Files : OldFiles[f].state # "list" => OldFiles[f].nodes = <<>>

Listed(nl) == {nl[i] : i \in DOMAIN nl}

VARIABLES
  file,        \* file[f]: what is in file f
  apc,         \* apc[a]: where process a is
  held,        \* held[a]: the list process a is going to write
  interfered   \* files two processes had read and not yet written, or whose
               \* writing was cut off (history)

fileVars == <<file, apc, held, interfered>>

FileTypeOK ==
  /\ file \in [Files -> Content]
  /\ apc \in [Adders -> {"begin", "write", "truncated", "added", "failed"}]
  /\ held \in [Adders -> Seq(Node)]
  /\ interfered \subseteq Files

\* A process that is never started, or whose options are not valid, counts as
\* failed.
FileInit ==
  /\ file = OldFiles
  /\ apc \in [Adders -> {"begin", "failed"}]
  /\ held = [a \in Adders |-> <<>>]
  /\ interfered = {}

AdderGoes(a, from, to) == apc[a] = from /\ apc' = [apc EXCEPT ![a] = to]

File(a) == Addition[a].file

\* newNode takes the group and leaves it out of the node.
NewNode(a) == [name |-> Addition[a].node.name, group |-> ""]

Busy(f) == \E a \in Adders : File(a) = f /\ apc[a] \in {"write", "truncated"}

-----------------------------------------------------------------------------

\* Only a file that is not there counts as empty.
ReadNodeList(a) ==
  /\ AdderGoes(a, "begin", "write")
  /\ file[File(a)].state # "torn"
  /\ held' = [held EXCEPT ![a] = Append(file[File(a)].nodes, NewNode(a))]
  /\ interfered' = interfered \union {f \in {File(a)} : Busy(f)}
  /\ UNCHANGED file

\* The private key cannot be read or parsed, the node file cannot, or the
\* process is killed.
AddFails(a) ==
  /\ AdderGoes(a, "begin", "failed") \/ AdderGoes(a, "write", "failed")
  /\ held' = [held EXCEPT ![a] = <<>>]
  /\ UNCHANGED <<file, interfered>>

\* Mutant of TruncateFile: the list is appended to what is there.
LeaveFile(a) ==
  /\ AdderGoes(a, "write", "truncated")
  /\ UNCHANGED <<file, held, interfered>>

\* WriteFile opens the file: it is empty, and does not parse.
TruncateFile(a) ==
  /\ AdderGoes(a, "write", "truncated")
  /\ file' = [file EXCEPT ![File(a)] = Torn]
  /\ UNCHANGED <<held, interfered>>

\* What another process wrote since is overwritten from the first byte on;
\* where it is longer its end stays.
WriteList(a) ==
  /\ AdderGoes(a, "truncated", "added")
  /\ \/ file' = [file EXCEPT ![File(a)] = NodeList(held[a])]
     \/ file[File(a)].state = "list" /\ file' = [file EXCEPT ![File(a)] = Torn]
  /\ held' = [held EXCEPT ![a] = <<>>]
  /\ UNCHANGED interfered

\* The disk is full, or the process is killed.
WriteFails(a) ==
  /\ AdderGoes(a, "truncated", "failed")
  /\ interfered' = interfered \union {File(a)}
  /\ held' = [held EXCEPT ![a] = <<>>]
  /\ UNCHANGED file

AddNodeToFile(a) ==
  ReadNodeList(a) \/ AddFails(a) \/ TruncateFile(a) \/ WriteList(a) \/ WriteFails(a)

-----------------------------------------------------------------------------
(* What a worker makes of the files. *)

GroupsOf(nl) == {n.group : n \in Listed(nl)}

\* Any one node of each group, the groups in any order (a map of Go has none).
OnePerGroup(nl) ==
  {s \in [1 .. Cardinality(GroupsOf(nl)) -> Listed(nl)] :
     {s[i].group : i \in DOMAIN s} = GroupsOf(nl)}

ProcessNodeGroup(nl, processkind) ==
  IF processkind = "random-one-per-group" THEN OnePerGroup(nl) ELSE {nl}

-----------------------------------------------------------------------------

\* "succesfully added node to": a node that was added is in the file from then
\* on, unless processes overlapped on the file or the writing was cut off.
\* The nodes others added meanwhile, one after the other, are there too.
AddedNodesStay ==
  \A a \in Adders :
    apc[a] = "added" /\ File(a) \notin interfered /\ ~Busy(File(a))
      => NewNode(a) \in Listed(file[File(a)].nodes)

=============================================================================
