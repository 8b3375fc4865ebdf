----------------------------- MODULE MCJMSQueue -----------------------------
(***************************************************************************)
(* JMSQueue for TLC: two requestors and the toolkit at one send queue, with *)
(* two topics, and a requestor at another.                                 *)
(***************************************************************************)
EXTENDS JMSQueue

MCQueueName == [c \in Clients |-> IF c = "r3" THEN "other" ELSE "send"]

MCTopic == [c \in Clients |-> IF c = "r3" THEN "t3" ELSE IF c = "r2" THEN "t2" ELSE "t1"]

=============================================================================
