-------------------------- MODULE PrintStreamBuffer -------------------------
(***************************************************************************)
(* The buffer between the output of commands and the receive queue         *)
(* (pkg/printstreambuffer).  Everything printed goes to the console of the *)
(* Jenkins build at once and to the queue in batches.  What is printed is  *)
(* a sequence of lines; the worker's own announcements, which no property  *)
(* is about, are printed as the empty sequence.  Redaction is left out.    *)
(***************************************************************************)
EXTENDS Integers, Sequences

CONSTANT BufferSize   \* prints after which the buffer is flushed

ASSUME BufferSizeAssumption == BufferSize \in Nat \ {0}

VARIABLES
  message,   \* lines printed and not yet published
  counter,   \* prints since the last flush
  console,   \* history: the lines on the console of the build
  streamed,  \* history: the lines published to the receive queue
  online     \* whether the connection to the broker is up

psbVars == <<message, counter, console, streamed, online>>

PsbTypeOK(Line) ==
  /\ message \in Seq(Line)
  /\ counter \in Nat
  /\ console \in Seq(Line)
  /\ streamed \in Seq(Line)
  /\ online \in BOOLEAN

PsbInit ==
  /\ message = <<>>
  /\ counter = 0
  /\ console = <<>>
  /\ streamed = <<>>
  /\ online = TRUE

\* Mutant of Flush: what could not be published is dropped.
FlushDrops(msg, n) ==
  /\ streamed' = IF n > 0 /\ online THEN streamed \o msg ELSE streamed
  /\ message' = <<>>
  /\ counter' = 0

\* FlushToQueue with msg and n in the buffer; a failed publish keeps them.
Flush(msg, n) ==
  IF n > 0 /\ online
  THEN /\ streamed' = streamed \o msg
       /\ message' = <<>>
       /\ counter' = 0
  ELSE /\ message' = msg
       /\ counter' = n
       /\ UNCHANGED streamed

FlushToQueue ==
  /\ Flush(message, counter)
  /\ UNCHANGED <<console, online>>

FlushFails == counter > 0 /\ ~online

\* Print, given what it read of message.
PrintAfter(msg, lines, flushnow) ==
  /\ console' = console \o lines
  /\ IF flushnow \/ counter + 1 >= BufferSize
     THEN Flush(msg \o lines, counter + 1)
     ELSE /\ message' = msg \o lines
          /\ counter' = counter + 1
          /\ UNCHANGED streamed
  /\ UNCHANGED online

PsbPrint(lines, flushnow) == PrintAfter(message, lines, flushnow)

\* printAndStreamInfo and its like; their callers ignore a failed publish.
Announce == PsbPrint(<<>>, TRUE)

\* The connection to the broker is lost; nothing dials again.
StreamLost ==
  /\ online
  /\ online' = FALSE
  /\ UNCHANGED <<message, counter, console, streamed>>

=============================================================================
