--------------------------- MODULE DeliveryProofs ---------------------------
(***************************************************************************)
(* Safety of CIFirewall when requestors do not share a receive queue: the  *)
(* queue that was declared is there, and, for builds of one stage, verdicts *)
(* are right and complete.                                                 *)
(***************************************************************************)
EXTENDS Delivery, CIFirewallProofs, FiniteSetTheorems

-----------------------------------------------------------------------------
(* Sequences of messages, read at the head and written at the tail. *)

LEMMA TailElements ==
  ASSUME NEW s \in Seq(Message), s # <<>>
  PROVE  /\ Tail(s) \in Seq(Message)
         /\ Head(s) = s[1] /\ Head(s) \in Message
         /\ Len(s) \in Nat \ {0}
         /\ Len(Tail(s)) = Len(s) - 1
         /\ \A i \in 1 .. Len(s) - 1 : Tail(s)[i] = s[i + 1]
BY HeadTailProperties, EmptySeq

LEMMA AppendElements ==
  ASSUME NEW s \in Seq(Message), NEW m \in Message
  PROVE  /\ Append(s, m) \in Seq(Message)
         /\ Len(s) \in Nat
         /\ Len(Append(s, m)) = Len(s) + 1
         /\ \A i \in 1 .. Len(s) : Append(s, m)[i] = s[i]
         /\ Append(s, m)[Len(s) + 1] = m
BY AppendProperties, LenProperties

\* What is carried behind the head.
LEMMA TailCarries ==
  ASSUME NEW s \in Seq(Message), s # <<>>, NEW kind, NEW b
  PROVE  /\ Carries(Tail(s), kind, b) => Carries(s, kind, b)
         /\ CarriesFailure(Tail(s), b) => CarriesFailure(s, b)
         /\ Carries(s, kind, b) =>
              Carries(Tail(s), kind, b) \/ (Head(s).Kind = kind /\ About(Head(s)) = b)
         /\ CarriesFailure(s, b) =>
              CarriesFailure(Tail(s), b)
              \/ (Head(s).Kind = "Status" /\ About(Head(s)) = b /\ ~Head(s).Success)
<1>1. \A i \in 1 .. Len(Tail(s)) : i + 1 \in 1 .. Len(s) /\ Tail(s)[i] = s[i + 1]
  BY TailElements
<1>2. \A i \in 1 .. Len(s) :
        s[i] = Head(s) \/ (i - 1 \in 1 .. Len(Tail(s)) /\ Tail(s)[i - 1] = s[i])
  BY TailElements
<1>3. /\ Carries(Tail(s), kind, b) => Carries(s, kind, b)
      /\ CarriesFailure(Tail(s), b) => CarriesFailure(s, b)
  BY <1>1 DEF Carries, CarriesFailure
<1>4. Carries(s, kind, b) =>
        Carries(Tail(s), kind, b) \/ (Head(s).Kind = kind /\ About(Head(s)) = b)
  BY <1>2 DEF Carries
<1>5. CarriesFailure(s, b) =>
        CarriesFailure(Tail(s), b) \/ (Head(s).Kind = "Status" /\ About(Head(s)) = b /\ ~Head(s).Success)
  BY <1>2 DEF CarriesFailure
<1>6. QED
  BY <1>3, <1>4, <1>5

LEMMA AppendCarries ==
  ASSUME NEW s \in Seq(Message), NEW m \in Message, NEW kind, NEW b
  PROVE  /\ Carries(Append(s, m), kind, b) <=>
              Carries(s, kind, b) \/ (m.Kind = kind /\ About(m) = b)
         /\ CarriesFailure(Append(s, m), b) <=>
              CarriesFailure(s, b) \/ (m.Kind = "Status" /\ About(m) = b /\ ~m.Success)
<1>1. \A i \in 1 .. Len(s) : i \in 1 .. Len(Append(s, m)) /\ Append(s, m)[i] = s[i]
  BY AppendElements
<1>2. \A i \in 1 .. Len(Append(s, m)) :
        (i \in 1 .. Len(s) /\ Append(s, m)[i] = s[i]) \/ Append(s, m)[i] = m
  BY AppendElements
<1>3. Len(s) + 1 \in 1 .. Len(Append(s, m)) /\ Append(s, m)[Len(s) + 1] = m
  BY AppendElements
<1>4. QED
  BY <1>1, <1>2, <1>3 DEF Carries, CarriesFailure

LEMMA LogsFinite ==
  ASSUME NEW s \in Seq(Message), NEW b
  PROVE  IsFiniteSet(LogsIn(s, b)) /\ Cardinality(LogsIn(s, b)) \in Nat
<1>1. IsFiniteSet(1 .. Len(s))
  BY FS_Interval, LenProperties
<1>2. LogsIn(s, b) \in SUBSET (1 .. Len(s))
  BY DEF LogsIn
<1>3. QED
  BY <1>1, <1>2, FS_Subset, FS_CardinalityType

\* Reading a log message of b leaves one less, reading another as many.
LEMMA TailLogs ==
  ASSUME NEW s \in Seq(Message), s # <<>>, NEW b
  PROVE  Cardinality(LogsIn(s, b)) =
           Cardinality(LogsIn(Tail(s), b))
             + IF Head(s).Kind = "Log" /\ About(Head(s)) = b THEN 1 ELSE 0
<1> DEFINE rest == LogsIn(s, b) \ {1}
           shift == [i \in LogsIn(Tail(s), b) |-> i + 1]
<1>1. shift \in Bijection(LogsIn(Tail(s), b), rest)
  <2>1. \A i \in LogsIn(Tail(s), b) : i \in Nat /\ i + 1 \in rest
    BY TailElements DEF LogsIn
  <2>2. shift \in Injection(LogsIn(Tail(s), b), rest)
    <3>1. shift \in [LogsIn(Tail(s), b) -> rest]
      BY <2>1
    <3>2. \A i, j \in LogsIn(Tail(s), b) : shift[i] = shift[j] => i = j
      BY <2>1
    <3>3. QED
      <4> HIDE DEF rest, shift
      <4>1. QED
        BY <3>1, <3>2 DEF Injection, IsInjective
  <2>3. \A j \in rest : j - 1 \in LogsIn(Tail(s), b) /\ shift[j - 1] = j
    BY TailElements DEF LogsIn
  <2>4. shift \in Surjection(LogsIn(Tail(s), b), rest)
    <3>1. \A j \in rest : \E i \in LogsIn(Tail(s), b) : shift[i] = j
      BY <2>3
    <3>2. QED
      BY <2>1, <3>1 DEF Surjection
  <2>5. QED
    BY <2>2, <2>4 DEF Bijection
<1>2. Cardinality(rest) = Cardinality(LogsIn(Tail(s), b))
  <2> HIDE DEF rest, shift
  <2>1. ExistsBijection(LogsIn(Tail(s), b), rest)
    BY <1>1 DEF ExistsBijection
  <2>2. IsFiniteSet(LogsIn(Tail(s), b))
    BY LogsFinite, TailElements
  <2>3. QED
    BY <2>1, <2>2, FS_Bijection
<1>3. 1 \in LogsIn(s, b) <=> Head(s).Kind = "Log" /\ About(Head(s)) = b
  BY TailElements DEF LogsIn
<1>4. Cardinality(rest) = IF 1 \in LogsIn(s, b) THEN Cardinality(LogsIn(s, b)) - 1
                          ELSE Cardinality(LogsIn(s, b))
  BY FS_RemoveElement, LogsFinite
<1>5. QED
  BY <1>2, <1>3, <1>4, LogsFinite

LEMMA AppendLogs ==
  ASSUME NEW s \in Seq(Message), NEW m \in Message, NEW b
  PROVE  Cardinality(LogsIn(Append(s, m), b)) =
           Cardinality(LogsIn(s, b)) + IF m.Kind = "Log" /\ About(m) = b THEN 1 ELSE 0
<1>1. CASE m.Kind = "Log" /\ About(m) = b
  <2>1. LogsIn(Append(s, m), b) = LogsIn(s, b) \union {Len(s) + 1}
    BY <1>1, AppendElements DEF LogsIn
  <2>2. Len(s) + 1 \notin LogsIn(s, b)
    BY AppendElements DEF LogsIn
  <2>3. Cardinality(LogsIn(s, b) \union {Len(s) + 1}) = Cardinality(LogsIn(s, b)) + 1
    BY <2>2, FS_AddElement, LogsFinite
  <2>4. QED
    BY <1>1, <2>1, <2>3
<1>2. CASE ~(m.Kind = "Log" /\ About(m) = b)
  <2>1. LogsIn(Append(s, m), b) = LogsIn(s, b)
    BY <1>2, AppendElements DEF LogsIn
  <2>2. QED
    BY <1>2, <2>1, LogsFinite
<1>3. QED
  BY <1>1, <1>2

LEMMA TailInOrder ==
  ASSUME NEW s \in Seq(Message), s # <<>>, InOrder(s)
  PROVE  /\ InOrder(Tail(s))
         /\ \A kind, b : Carries(Tail(s), kind, b) /\ About(Head(s)) = b =>
              kind \in Behind[Head(s).Kind]
         /\ \A b : CarriesFailure(Tail(s), b) /\ About(Head(s)) = b =>
              "Status" \in Behind[Head(s).Kind]
<1>1. \A i \in 1 .. Len(Tail(s)) : i \in Nat /\ i + 1 \in 1 .. Len(s) /\ Tail(s)[i] = s[i + 1]
  BY TailElements
<1>2. 1 \in 1 .. Len(s) /\ Head(s) = s[1] /\ \A i \in 1 .. Len(Tail(s)) : 1 < i + 1
  BY TailElements
<1>3. \A i, j \in 1 .. Len(Tail(s)) : i < j => i + 1 < j + 1
  BY TailElements
<1>4. InOrder(Tail(s))
  BY <1>1, <1>3 DEF InOrder
<1>5. \A i \in 1 .. Len(Tail(s)) :
        About(Tail(s)[i]) = About(Head(s)) => Tail(s)[i].Kind \in Behind[Head(s).Kind]
  BY <1>1, <1>2 DEF InOrder
<1>6. \A kind, b : Carries(Tail(s), kind, b) /\ About(Head(s)) = b => kind \in Behind[Head(s).Kind]
  BY <1>5 DEF Carries
<1>7. \A b : CarriesFailure(Tail(s), b) /\ About(Head(s)) = b => "Status" \in Behind[Head(s).Kind]
  BY <1>5 DEF CarriesFailure
<1>8. QED
  BY <1>4, <1>6, <1>7

LEMMA MessageParts ==
  ASSUME NEW m \in Message
  PROVE  m.Kind \in Kinds /\ m.Success \in BOOLEAN /\ About(m) \in Builds
BY DEF Message, About, Builds

LEMMA AppendInOrder ==
  ASSUME NEW s \in Seq(Message), NEW m \in Message, InOrder(s),
         \A kind \in Kinds : Carries(s, kind, About(m)) => m.Kind \in Behind[kind]
  PROVE  InOrder(Append(s, m))
<1>1. \A i \in 1 .. Len(s) : About(s[i]) = About(m) => m.Kind \in Behind[s[i].Kind]
  <2>1. \A i \in 1 .. Len(s) : s[i] \in Message
    BY ElementOfSeq
  <2>2. \A i \in 1 .. Len(s) : s[i].Kind \in Kinds
    BY <2>1, MessageParts
  <2>3. QED
    BY <2>2 DEF Carries
<1>2. SUFFICES ASSUME NEW i \in 1 .. Len(Append(s, m)), NEW j \in 1 .. Len(Append(s, m)),
                      i < j, About(Append(s, m)[i]) = About(Append(s, m)[j])
               PROVE  Append(s, m)[j].Kind \in Behind[Append(s, m)[i].Kind]
  BY DEF InOrder
<1>3. i \in 1 .. Len(s) /\ Append(s, m)[i] = s[i]
  BY <1>2, AppendElements
<1>4. CASE j \in 1 .. Len(s)
  BY <1>2, <1>3, <1>4, AppendElements DEF InOrder
<1>5. CASE j = Len(s) + 1
  BY <1>1, <1>2, <1>3, <1>5, AppendElements
<1>6. QED
  BY <1>4, <1>5, AppendElements

-----------------------------------------------------------------------------
(* What a sequence tells its reader, step by step. *)

IsLog(m, b) == m.Kind = "Log" /\ About(m) = b

IsFailure(m, b) == m.Kind = "Status" /\ About(m) = b /\ ~m.Success

\* Reading one message moves what it says from s to the reader.
LEMMA TailTells ==
  ASSUME NEW s \in Seq(Message), s # <<>>, NEW b, NEW ok \in BOOLEAN, NEW n \in Nat,
         NEW won, NEW lines, Tells(s, b, ok, n, won, lines)
  PROVE  Tells(Tail(s), b, ok /\ ~IsFailure(Head(s), b),
               n + (IF IsLog(Head(s), b) THEN 1 ELSE 0), won, lines)
<1>1. ok /\ ~IsFailure(Head(s), b) /\ ~CarriesFailure(Tail(s), b) => won
  BY TailCarries DEF Tells, IsFailure
<1>2. Cardinality(LogsIn(Tail(s), b)) \in Nat
  BY LogsFinite, TailElements
<1>3. n + (IF IsLog(Head(s), b) THEN 1 ELSE 0) + Cardinality(LogsIn(Tail(s), b)) = lines
  BY <1>2, TailLogs DEF Tells, IsLog
<1>4. QED
  BY <1>1, <1>3 DEF Tells

\* Nothing but the announcement of a build may come before its logs and status.
LEMMA TailTellsFromBuild ==
  ASSUME NEW s \in Seq(Message), s # <<>>, InOrder(s), NEW b \in Builds,
         NEW won, NEW lines,
         Carries(Tail(s), "Build", b) \/ (Head(s).Kind = "Build" /\ About(Head(s)) = b),
         Tells(s, b, TRUE, 0, won, lines)
  PROVE  Tells(Tail(s), b, TRUE, 0, won, lines)
<1>1. About(Head(s)) = b => Head(s).Kind \notin {"Log", "Status"}
  <2>1. Carries(Tail(s), "Build", b) /\ About(Head(s)) = b => "Build" \in Behind[Head(s).Kind]
    BY TailInOrder
  <2>2. QED
    BY <2>1 DEF Behind
<1>2. Tells(Tail(s), b, TRUE /\ ~IsFailure(Head(s), b),
            0 + (IF IsLog(Head(s), b) THEN 1 ELSE 0), won, lines)
  BY TailTells
<1>3. ~IsFailure(Head(s), b) /\ ~IsLog(Head(s), b)
  BY <1>1 DEF IsFailure, IsLog
<1>4. QED
  BY <1>2, <1>3 DEF Tells

LEMMA TailInforms ==
  ASSUME NEW s \in Seq(Message), s # <<>>, NEW open, NEW f, NEW ok \in BOOLEAN, NEW n \in Nat,
         NEW won, NEW lines, Informs(s, open, f, ok, n, won, lines)
  PROVE  Informs(Tail(s), open, f, ok /\ ~IsFailure(Head(s), f),
                 n + (IF IsLog(Head(s), f) THEN 1 ELSE 0), won, lines)
<1>1. InOrder(Tail(s))
  BY TailInOrder DEF Informs
<1>2. ASSUME NEW b \in Builds, open \/ Carries(Tail(s), "Final", b), Carries(Tail(s), "Build", b)
      PROVE  Tells(Tail(s), b, TRUE, 0, won[b], lines[b])
  BY <1>2, TailCarries, TailTellsFromBuild DEF Informs
<1>3. ASSUME f \in Builds, open \/ Carries(Tail(s), "Final", f)
      PROVE  Tells(Tail(s), f, ok /\ ~IsFailure(Head(s), f),
                   n + (IF IsLog(Head(s), f) THEN 1 ELSE 0), won[f], lines[f])
  BY <1>3, TailCarries, TailTells DEF Informs
<1>4. QED
  BY <1>1, <1>2, <1>3 DEF Informs

\* A reader who begins to follow the build that the head announces.
LEMMA FollowInforms ==
  ASSUME NEW s \in Seq(Message), s # <<>>, NEW open, NEW f, NEW ok \in BOOLEAN, NEW n \in Nat,
         NEW won, NEW lines, Informs(s, open, f, ok, n, won, lines), Head(s).Kind = "Build"
  PROVE  Informs(Tail(s), open, About(Head(s)), ok, 0, won, lines)
<1> DEFINE g == About(Head(s))
<1>1. g \in Builds
  BY TailElements, MessageParts
<1>2. Informs(Tail(s), open, f, ok /\ ~IsFailure(Head(s), f),
              n + (IF IsLog(Head(s), f) THEN 1 ELSE 0), won, lines)
  BY TailInforms
<1>3. Carries(s, "Build", g)
  BY TailElements DEF Carries
<1>4. ASSUME open \/ Carries(Tail(s), "Final", g)
      PROVE  Tells(Tail(s), g, ok, 0, won[g], lines[g])
  <2>1. Tells(s, g, TRUE, 0, won[g], lines[g])
    BY <1>1, <1>3, <1>4, TailCarries DEF Informs
  <2>2. Tells(Tail(s), g, TRUE, 0, won[g], lines[g])
    BY <1>1, <2>1, TailTellsFromBuild DEF Informs
  <2>3. QED
    BY <2>2 DEF Tells
<1>5. QED
  BY <1>2, <1>4 DEF Informs

\* A reader who follows nothing.
LEMMA ForgetInforms ==
  ASSUME NEW s, NEW open, NEW f, NEW ok, NEW n, NEW won, NEW lines,
         Informs(s, open, f, ok, n, won, lines),
         NEW g, g \notin Builds, NEW ok2, NEW n2
  PROVE  Informs(s, open, g, ok2, n2, won, lines)
BY DEF Informs

LEMMA EmptyInforms ==
  ASSUME NEW open, NEW f, f \notin Builds, NEW ok, NEW n, NEW won, NEW lines
  PROVE  Informs(<<>>, open, f, ok, n, won, lines)
BY EmptySeq DEF Informs, InOrder, Carries

\* The final message finds the reader informed.
LEMMA FinalInforms ==
  ASSUME NEW s \in Seq(Message), s # <<>>, NEW open, NEW f \in Builds,
         NEW ok \in BOOLEAN, NEW n \in Nat, NEW won, NEW lines,
         Informs(s, open, f, ok, n, won, lines),
         Head(s).Kind = "Final", About(Head(s)) = f
  PROVE  (ok => won[f]) /\ n = lines[f]
<1>1. Carries(s, "Final", f)
  BY TailElements DEF Carries
<1>2. Tells(s, f, ok, n, won[f], lines[f])
  BY <1>1 DEF Informs
<1>3. ~CarriesFailure(s, f)
  <2>1. ~CarriesFailure(Tail(s), f)
    BY TailInOrder DEF Informs, Behind
  <2>2. QED
    BY <2>1, TailCarries
<1>4. \A i \in 1 .. Len(s) : s[i].Kind = "Log" => About(s[i]) # f
  <2>1. ~Carries(Tail(s), "Log", f)
    <3>1. Carries(Tail(s), "Log", f) => "Log" \in Behind[Head(s).Kind]
      BY TailInOrder DEF Informs
    <3>2. QED
      BY <3>1 DEF Behind
  <2>2. ~Carries(s, "Log", f)
    BY <2>1, TailCarries
  <2>3. QED
    BY <2>2 DEF Carries
<1>5. LogsIn(s, f) = {}
  BY <1>4 DEF LogsIn
<1>6. QED
  BY <1>2, <1>3, <1>5, FS_EmptySet DEF Tells

\* The three ways to read a message that neither begins nor ends anything.
LEMMA SkipInforms ==
  ASSUME NEW s \in Seq(Message), s # <<>>, NEW open, NEW f, NEW ok \in BOOLEAN, NEW n \in Nat,
         NEW won, NEW lines, Informs(s, open, f, ok, n, won, lines),
         ~IsLog(Head(s), f), ~IsFailure(Head(s), f)
  PROVE  Informs(Tail(s), open, f, ok, n, won, lines)
<1>1. Informs(Tail(s), open, f, ok /\ ~IsFailure(Head(s), f),
              n + (IF IsLog(Head(s), f) THEN 1 ELSE 0), won, lines)
  BY TailInforms
<1>2. ok = (ok /\ ~IsFailure(Head(s), f)) /\ n = n + (IF IsLog(Head(s), f) THEN 1 ELSE 0)
  OBVIOUS
<1>3. QED
  BY <1>1, <1>2

LEMMA LogInforms ==
  ASSUME NEW s \in Seq(Message), s # <<>>, NEW open, NEW f, NEW ok \in BOOLEAN, NEW n \in Nat,
         NEW won, NEW lines, Informs(s, open, f, ok, n, won, lines), IsLog(Head(s), f)
  PROVE  Informs(Tail(s), open, f, ok, n + 1, won, lines)
<1>1. Informs(Tail(s), open, f, ok /\ ~IsFailure(Head(s), f),
              n + (IF IsLog(Head(s), f) THEN 1 ELSE 0), won, lines)
  BY TailInforms
<1>2. ok = (ok /\ ~IsFailure(Head(s), f))
  BY DEF IsLog, IsFailure
<1>3. n + 1 = n + (IF IsLog(Head(s), f) THEN 1 ELSE 0)
  OBVIOUS
<1>4. QED
  BY <1>1, <1>2, <1>3

LEMMA StatusInforms ==
  ASSUME NEW s \in Seq(Message), s # <<>>, NEW open, NEW f, NEW ok \in BOOLEAN, NEW n \in Nat,
         NEW won, NEW lines, Informs(s, open, f, ok, n, won, lines),
         Head(s).Kind = "Status", About(Head(s)) = f
  PROVE  Informs(Tail(s), open, f, ok /\ Head(s).Success, n, won, lines)
<1>1. Informs(Tail(s), open, f, ok /\ ~IsFailure(Head(s), f),
              n + (IF IsLog(Head(s), f) THEN 1 ELSE 0), won, lines)
  BY TailInforms
<1>2. (ok /\ Head(s).Success) = (ok /\ ~IsFailure(Head(s), f))
  BY TailElements, MessageParts DEF IsFailure
<1>3. n = n + (IF IsLog(Head(s), f) THEN 1 ELSE 0)
  BY DEF IsLog
<1>4. QED
  BY <1>1, <1>2, <1>3

LEMMA OpenInforms ==
  ASSUME NEW s, NEW open, NEW open2, NEW f, NEW ok, NEW n, NEW won, NEW lines,
         Informs(s, open, f, ok, n, won, lines), open2 => open
  PROVE  Informs(s, open2, f, ok, n, won, lines)
BY DEF Informs

\* A worker adds a message to what s has, and to the history of its build.
LEMMA AppendTells ==
  ASSUME NEW s \in Seq(Message), NEW m \in Message, NEW b, NEW ok, NEW n \in Nat,
         NEW won, NEW lines \in Nat, Tells(s, b, ok, n, won, lines)
  PROVE  Tells(Append(s, m), b, ok, n, won /\ ~IsFailure(m, b),
               lines + (IF IsLog(m, b) THEN 1 ELSE 0))
<1>1. ok /\ ~CarriesFailure(Append(s, m), b) => won /\ ~IsFailure(m, b)
  BY AppendCarries DEF Tells, IsFailure
<1>2. Cardinality(LogsIn(s, b)) \in Nat
  BY LogsFinite
<1>3. n + Cardinality(LogsIn(Append(s, m), b)) = lines + (IF IsLog(m, b) THEN 1 ELSE 0)
  BY <1>2, AppendLogs DEF Tells, IsLog
<1>4. QED
  BY <1>1, <1>3 DEF Tells

\* The announcement of a build that has no history.
LEMMA AnnounceTells ==
  ASSUME NEW s \in Seq(Message), NEW m \in Message, m.Kind = "Build",
         ~Carries(s, "Log", About(m))
  PROVE  Tells(Append(s, m), About(m), TRUE, 0, TRUE, 0)
<1>1. \A i \in 1 .. Len(s) : s[i].Kind = "Log" => About(s[i]) # About(m)
  BY DEF Carries
<1>2. LogsIn(s, About(m)) = {}
  BY <1>1 DEF LogsIn
<1>3. Cardinality(LogsIn(Append(s, m), About(m))) = 0
  <2>1. Cardinality(LogsIn(Append(s, m), About(m))) = Cardinality(LogsIn(s, About(m))) + 0
    BY AppendLogs
  <2>2. QED
    BY <1>2, <2>1, FS_EmptySet
<1>4. QED
  BY <1>3 DEF Tells

LEMMA AppendInforms ==
  ASSUME NEW s \in Seq(Message), NEW m \in Message, NEW f, NEW ok, NEW n \in Nat,
         NEW won, NEW lines \in [Builds -> Nat], NEW won2, NEW lines2,
         Informs(s, TRUE, f, ok, n, won, lines),
         \A kind \in Kinds : Carries(s, kind, About(m)) => m.Kind \in Behind[kind],
         m.Kind = "Build" => won[About(m)] /\ lines[About(m)] = 0,
         \A b \in Builds : won2[b] = (won[b] /\ ~IsFailure(m, b)),
         \A b \in Builds : lines2[b] = lines[b] + (IF IsLog(m, b) THEN 1 ELSE 0)
  PROVE  Informs(Append(s, m), TRUE, f, ok, n, won2, lines2)
<1>1. InOrder(Append(s, m))
  BY AppendInOrder DEF Informs
<1>2. ASSUME NEW b \in Builds, Tells(s, b, TRUE, 0, won[b], lines[b])
      PROVE  Tells(Append(s, m), b, TRUE, 0, won2[b], lines2[b])
  BY <1>2, AppendTells
<1>3. ASSUME NEW b \in Builds, Carries(Append(s, m), "Build", b)
      PROVE  Tells(Append(s, m), b, TRUE, 0, won2[b], lines2[b])
  <2>1. CASE Carries(s, "Build", b)
    BY <1>2, <2>1 DEF Informs
  <2>2. CASE m.Kind = "Build" /\ About(m) = b
    <3>1. ~Carries(s, "Log", b)
      BY <2>2 DEF Behind, Kinds
    <3>2. won[b] /\ lines[b] = 0 /\ ~IsFailure(m, b) /\ ~IsLog(m, b)
      BY <2>2 DEF IsFailure, IsLog
    <3>3. won2[b] = TRUE
      BY <3>2
    <3>4. lines2[b] = 0
      <4>1. lines2[b] = lines[b] + 0
        BY <2>2 DEF IsLog
      <4>2. QED
        BY <3>2, <4>1
    <3>5. Tells(Append(s, m), About(m), TRUE, 0, TRUE, 0)
      BY <2>2, <3>1, AnnounceTells
    <3>6. QED
      BY <2>2, <3>3, <3>4, <3>5
  <2>3. QED
    BY <1>3, <2>1, <2>2, AppendCarries
<1>4. ASSUME f \in Builds
      PROVE  Tells(Append(s, m), f, ok, n, won2[f], lines2[f])
  <2>1. Tells(s, f, ok, n, won[f], lines[f])
    BY <1>4 DEF Informs
  <2>2. Tells(Append(s, m), f, ok, n, won[f] /\ ~IsFailure(m, f),
              lines[f] + (IF IsLog(m, f) THEN 1 ELSE 0))
    BY <1>4, <2>1, AppendTells
  <2>3. QED
    BY <1>4, <2>2
<1>5. QED
  BY <1>1, <1>3, <1>4 DEF Informs

\* Who is cut off from t keeps what the final messages in s stand for.
LEMMA CloseInforms ==
  ASSUME NEW s \in Seq(Message), NEW t \in Seq(Message), NEW f, NEW ok, NEW n,
         NEW won, NEW lines, Informs(s \o t, TRUE, f, ok, n, won, lines)
  PROVE  Informs(s, FALSE, f, ok, n, won, lines)
<1>1. /\ Len(s) \in Nat /\ Len(t) \in Nat /\ Len(s \o t) = Len(s) + Len(t)
      /\ \A i \in 1 .. Len(s) : i \in 1 .. Len(s \o t) /\ (s \o t)[i] = s[i]
  BY ConcatProperties, LenProperties
<1>2. InOrder(s)
  BY <1>1 DEF Informs, InOrder
<1>3. ASSUME NEW b \in Builds, Carries(s, "Final", b), NEW k, NEW c,
             Tells(s \o t, b, k, c, won[b], lines[b])
      PROVE  Tells(s, b, k, c, won[b], lines[b])
  <2>1. PICK i \in 1 .. Len(s) : s[i].Kind = "Final" /\ About(s[i]) = b
    BY <1>3 DEF Carries
  <2>2. \A j \in 1 .. Len(s \o t) : j \notin 1 .. Len(s) => i < j
    BY <1>1, <2>1
  <2>3. \A j \in 1 .. Len(s \o t) : j \notin 1 .. Len(s) => About((s \o t)[j]) # b
    BY <1>1, <2>1, <2>2 DEF Informs, InOrder, Behind
  <2>4. LogsIn(s \o t, b) = LogsIn(s, b)
    BY <1>1, <2>3 DEF LogsIn
  <2>5. CarriesFailure(s \o t, b) => CarriesFailure(s, b)
    BY <1>1, <2>3 DEF CarriesFailure
  <2>6. QED
    BY <1>3, <2>4, <2>5 DEF Tells
<1>4. \A kind, b : Carries(s, kind, b) => Carries(s \o t, kind, b)
  BY <1>1 DEF Carries
<1>5. QED
  BY <1>2, <1>3, <1>4 DEF Informs

\* A closed sequence is about builds whose history is complete.
LEMMA ClosedInforms ==
  ASSUME NEW s, NEW f, NEW ok, NEW n, NEW won, NEW lines, NEW won2, NEW lines2,
         Informs(s, FALSE, f, ok, n, won, lines),
         \A b \in Builds : Carries(s, "Final", b) => won2[b] = won[b] /\ lines2[b] = lines[b]
  PROVE  Informs(s, FALSE, f, ok, n, won2, lines2)
BY DEF Informs

-----------------------------------------------------------------------------
(* A stream is what was delivered, and then what is ready. *)

LEMMA DeliverStream ==
  ASSUME NEW s \in Seq(Message), NEW t \in Seq(Message), t # <<>>
  PROVE  Append(s, Head(t)) \o Tail(t) = s \o t
<1>1. Head(t) \in Message /\ Tail(t) \in Seq(Message) /\ <<Head(t)>> \in Seq(Message)
  BY TailElements
<1>2. t = <<Head(t)>> \o Tail(t)
  BY <1>1, TailElements
<1>3. QED
  BY <1>1, <1>2, AppendIsConcat, ConcatAssociative

LEMMA AckStream ==
  ASSUME NEW s \in Seq(Message), NEW t \in Seq(Message), s # <<>>
  PROVE  /\ s \o t \in Seq(Message) /\ s \o t # <<>>
         /\ Head(s \o t) = Head(s)
         /\ Tail(s \o t) = Tail(s) \o t
<1>1. s \o t \in Seq(Message) /\ s \o t # <<>>
  BY ConcatProperties, TailElements, ConcatSimplifications
<1>2. Head(s \o t) = Head(s)
  BY <1>1, TailElements, ConcatProperties
<1>3. Tail(s \o t) = Tail(s) \o t
  <2>1. Tail(s) \o t \in Seq(Message) /\ Tail(s \o t) \in Seq(Message)
    BY <1>1, TailElements, ConcatProperties
  <2>2. Len(Tail(s \o t)) = Len(Tail(s) \o t)
    BY <1>1, TailElements, ConcatProperties, LenProperties
  <2>3. \A i \in 1 .. Len(Tail(s \o t)) : Tail(s \o t)[i] = (Tail(s) \o t)[i]
    BY <1>1, TailElements, ConcatProperties, LenProperties
  <2>4. QED
    BY <2>1, <2>2, <2>3, SeqEqual
<1>4. QED
  BY <1>1, <1>2, <1>3

LEMMA PublishStream ==
  ASSUME NEW s \in Seq(Message), NEW t \in Seq(Message), NEW m \in Message
  PROVE  s \o Append(t, m) = Append(s \o t, m)
<1>1. <<m>> \in Seq(Message) /\ s \o t \in Seq(Message)
  BY ConcatProperties
<1>2. QED
  BY <1>1, AppendIsConcat, ConcatAssociative

-----------------------------------------------------------------------------
(* The queue belongs to one requestor at a time. *)

\* The sole consumer leaves, and the queue goes with it.
LEMMA SoleConsumerLeaves ==
  ASSUME QueueToItself, NEW r \in Requestors, NEW kept, ChannelClosed(r, kept),
         consumers \in SUBSET Requestors
  PROVE  /\ r \in consumers => consumers' = {} /\ declared' = FALSE /\ ready' = <<>>
         /\ r \notin consumers => UNCHANGED <<consumers, declared, ready>>
<1>1. r \in consumers => consumers \ {r} = {}
  BY DEF QueueToItself, Present
<1>2. QED
  BY <1>1 DEF ChannelClosed

LEMMA RequestorStepQueueToItself ==
  ASSUME TypeOK, QueueToItself, ~SharedQueue, NEW r \in Requestors, RequestorStep(r)
  PROVE  QueueToItself'
<1> USE DEF TypeOK, QueueTypeOK, QueueHolds, RequestorTypeOK, QueueToItself, Present, Starting,
            Exited, DeclaredQueueSurvives
<1>1. CASE InitQueus(r)
  <2>1. /\ rpc[r] = "init" /\ rpc' = [rpc EXCEPT ![r] = "send"] /\ declared'
        /\ UNCHANGED <<consumers, ready, inbox, hpc, jenkinsBuild>>
        /\ \A o \in Requestors \ {r} : o \notin consumers /\ (rpc[o] = "init" \/ Exited(o))
    BY <1>1 DEF InitQueus, MayStart, MainGoes, QueueDeclare
  <2>2. \A o \in Requestors \ {r} : ~Present(o)'
    BY <2>1 DEF Present
  <2>3. rpc'[r] = "send" /\ \A o \in Requestors \ {r} : rpc'[o] = rpc[o]
    BY <2>1
  <2>4. \A o, q \in Requestors : Present(o)' /\ Present(q)' => o = q
    BY <2>2
  <2>5. \A o \in Requestors : Starting(o)' => Starting(o)
    BY <2>1, <2>3
  <2>6. DeclaredQueueSurvives'
    BY <2>1
  <2>7. \A o \in Requestors : Starting(o) =>
          hpc[o] = "idle" /\ jenkinsBuild[o] = NoBuild /\ o \notin consumers /\ inbox[o] = <<>>
    OBVIOUS
  <2> HIDE DEF TypeOK, QueueTypeOK, RequestorTypeOK, QueueHolds, Present, Starting,
              DeclaredQueueSurvives
  <2>8. \A o \in Requestors : Starting(o)' =>
          hpc'[o] = "idle" /\ jenkinsBuild'[o] = NoBuild /\ o \notin consumers' /\ inbox'[o] = <<>>
    BY <2>1, <2>5, <2>7
  <2>9. QED
    BY <2>1, <2>4, <2>6, <2>8
<1>2. CASE SendBuildRequest(r)
  BY <1>2 DEF SendBuildRequest, MainGoes, queueVars
<1>3. CASE ConsumeMessages(r)
  BY <1>3 DEF ConsumeMessages, MainGoes, Consume
<1>4. CASE ConsumeFails(r)
  BY <1>4 DEF ConsumeFails, MainGoes, queueVars
<1>5. CASE ReceiveDone(r) \/ TimeOut(r)
  <2>1. UNCHANGED <<queueVars, jenkinsBuild>> /\ rpc[r] = "select"
        /\ rpc' = [rpc EXCEPT ![r] = "purge"] /\ \A o \in Requestors \ {r} : hpc'[o] = hpc[o]
    BY <1>5 DEF ReceiveDone, TimeOut, MainGoes
  <2>2. ~Starting(r)' /\ \A o \in Requestors : Present(o)' = Present(o) /\ (Starting(o)' => Starting(o))
    BY <2>1 DEF queueVars
  <2>3. DeclaredQueueSurvives'
    BY <2>1 DEF queueVars
  <2> HIDE DEF TypeOK, QueueTypeOK, RequestorTypeOK, QueueHolds, Present, Starting,
              DeclaredQueueSurvives
  <2>4. QED
    BY <2>1, <2>2, <2>3 DEF queueVars
<1>6. CASE ShutDownPurge(r)
  BY <1>6 DEF ShutDownPurge, MainGoes, QueuePurge, queueVars
<1>7. ASSUME NEW kept, ChannelClosed(r, kept), rpc[r] \notin {"init", "send", "consume"},
             rpc'[r] \notin {"init", "send", "consume"}, r \in consumers \/ Exited(r)',
             \A o \in Requestors \ {r} : UNCHANGED <<rpc[o], hpc[o], jenkinsBuild[o]>>
      PROVE  QueueToItself'
  <2>1. \A o \in Requestors \ {r} : UNCHANGED inbox[o]
    BY <1>7 DEF ChannelClosed
  <2>2. CASE r \in consumers
    <3>1. consumers' = {} /\ declared' = FALSE /\ ready' = <<>>
      BY <1>7, <2>2, SoleConsumerLeaves
    <3>2. \A o \in Requestors \ {r} : rpc[o] = "init" \/ rpc[o] = "exit0" \/ rpc[o] = "exit1"
      BY <2>2
    <3>3. \A o \in Requestors \ {r} : ~Present(o)' /\ rpc'[o] \notin {"send", "consume"}
                                       /\ Starting(o)' = Starting(o)
      BY <1>7, <3>1, <3>2
    <3>4. ~Starting(r)' /\ rpc'[r] \notin {"send", "consume"}
      BY <1>7
    <3> HIDE DEF TypeOK, QueueTypeOK, RequestorTypeOK, QueueHolds, Present, Starting, Exited
    <3>5. QED
      BY <1>7, <2>1, <3>1, <3>3, <3>4
  <2>3. CASE r \notin consumers
    <3>1. UNCHANGED <<consumers, declared, ready>>
      BY <1>7, <2>3, SoleConsumerLeaves
    <3>2. ~Present(r)' /\ \A o \in Requestors \ {r} : Present(o)' = Present(o)
      BY <1>7, <2>3, <3>1
    <3>3. ~Starting(r)' /\ rpc'[r] \notin {"send", "consume"}
      BY <1>7
    <3>4. \A o \in Requestors \ {r} : Starting(o)' = Starting(o) /\ rpc'[o] = rpc[o]
      BY <1>7
    <3> HIDE DEF TypeOK, QueueTypeOK, RequestorTypeOK, QueueHolds, Present, Starting, Exited
    <3>5. QED
      BY <1>7, <2>1, <3>1, <3>2, <3>3, <3>4
  <2>4. QED
    BY <2>2, <2>3
<1>8. CASE ShutDownClose(r)
  BY <1>7, <1>8 DEF ShutDownClose
<1>9. CASE BrokerReaps(r) \/ ConnectionLost(r)
  BY <1>7, <1>9 DEF BrokerReaps, ConnectionLost, requestorVars
<1>10. CASE Crash(r)
  BY <1>10 DEF Crash, queueVars
<1>11. CASE Deliver(r) /\ UNCHANGED requestorVars
  BY <1>11 DEF Deliver, requestorVars
<1>12. CASE Handler(r)
  <2>1. hpc[r] = "loop" /\ UNCHANGED <<rpc, consumers, declared, ready>>
    BY <1>12
       DEF Handler, HandleBuild, HandleCancel, HandleLog, HandleStatus, HandleFinal, SkipMessage,
           DeliveriesClosed, Handling, Ack, queueVars, requestorVars
  <2>2. \A o \in Requestors \ {r} : UNCHANGED <<inbox[o], hpc[o], jenkinsBuild[o]>>
    BY <1>12
       DEF Handler, HandleBuild, HandleCancel, HandleLog, HandleStatus, HandleFinal, SkipMessage,
           DeliveriesClosed, Ack, queueVars, requestorVars
  <2>3. QED
    BY <2>1, <2>2
<1>13. QED
  BY <1>1, <1>2, <1>3, <1>4, <1>5, <1>6, <1>7, <1>8, <1>9, <1>10, <1>11, <1>12
     DEF RequestorStep, MainGoesOn, Around

LEMMA WorkerStepQueueToItself ==
  ASSUME QueueToItself, NEW b \in Builds, WorkerNext(b)
  PROVE  QueueToItself'
<1>1. UNCHANGED <<requestorVars, consumers, inbox>> /\ (declared => declared')
      /\ (ready' # ready => declared')
  BY DEF WorkerNext, WorkerStep, Run, RunStep, CheckForNewerBuilds, MoveForward, NotMovingForward,
         CleanupOldBuilds, InitQueues, SendCancelMessage, SendBuildInfo, FlushToQueue,
         RunReturns, RunDone, SendStatusMessage, SendFinalizeMessage, NextStage, EndBuild,
         PollFindsNewer, Stopped, TriggerBuild, Rebuild, WorkerStarts, WorkerFails, Publish,
         QueueDeclare, queueVars
<1>2. QED
  BY <1>1 DEF QueueToItself, Present, Starting, Exited, DeclaredQueueSurvives, requestorVars

\* A requestor with a queue of its own finds it there when it begins to
\* consume: nobody else's leaving deletes it in between.
THEOREM DeclaredQueueIsThere == ~SharedQueue => (Spec => []DeclaredQueueSurvives)
<1> SUFFICES ASSUME ~SharedQueue PROVE Spec => []DeclaredQueueSurvives
  OBVIOUS
<1>1. Init => QueueToItself
  BY DEF Init, QueueInit, RequestorInit, QueueToItself, Present, Starting, Exited,
         DeclaredQueueSurvives
<1>2. TypeOK /\ QueueToItself /\ [Next]_vars => QueueToItself'
  <2> SUFFICES ASSUME TypeOK, QueueToItself, [Next]_vars PROVE QueueToItself'
    OBVIOUS
  <2>1. CASE UNCHANGED vars
    BY <2>1 DEF vars, queueVars, requestorVars, QueueToItself, Present, Starting, Exited,
                DeclaredQueueSurvives
  <2>2. QED
    BY <2>1, RequestorStepQueueToItself, WorkerStepQueueToItself DEF Next, RequestorNext
<1>3. QueueToItself => DeclaredQueueSurvives
  BY DEF QueueToItself
<1>4. QED
  BY <1>1, <1>2, <1>3, TypeCorrect, PTL DEF Spec

-----------------------------------------------------------------------------
(* What a worker publishes, and when. *)

PublishingAt ==
  [Cancel |-> "cancel", Build |-> "build", Log |-> "run", Status |-> "status", Final |-> "final"]

\* In this step the worker of b publishes m.
Publishes(b, m) ==
  /\ m \in Message /\ About(m) = b
  /\ Publish(m)
  /\ wpc[b] = PublishingAt[m.Kind] /\ wpc'[b] \in PublishedAt[m.Kind]
  /\ \A c \in Builds : passed'[c] = (passed[c] /\ ~IsFailure(m, c))
  /\ \A c \in Builds : logs'[c] = logs[c] + (IF IsLog(m, c) THEN 1 ELSE 0)
  /\ finished' = IF m.Kind = "Final" THEN finished \union {b} ELSE finished

LEMMA NewMessageParts ==
  ASSUME NEW b \in Builds, NEW kind \in Kinds, NEW ok \in BOOLEAN
  PROVE  /\ newMessage(kind, b, ok) \in Message
         /\ About(newMessage(kind, b, ok)) = b
         /\ newMessage(kind, b, ok).Kind = kind
         /\ newMessage(kind, b, ok).Success = ok
BY DEF newMessage, Message, About, Builds

LEMMA WorkerPublishes ==
  ASSUME TypeOK, NEW b \in Builds, WorkerNext(b)
  PROVE  \/ UNCHANGED <<ready, inbox, consumers, logs, passed, finished>>
         \/ \E m \in Message : Publishes(b, m)
<1> USE DEF TypeOK, WorkerTypeOK
<1>1. ASSUME NEW kind \in {"Cancel", "Build", "Final"}, NEW m, m = newMessage(kind, b, FALSE),
             Publish(m), UNCHANGED <<passed, logs>>,
             wpc[b] = PublishingAt[kind], wpc'[b] \in PublishedAt[kind],
             finished' = IF kind = "Final" THEN finished \union {b} ELSE finished
      PROVE  Publishes(b, m)
  <2>1. m \in Message /\ About(m) = b /\ m.Kind = kind
    <3>1. kind \in Kinds /\ FALSE \in BOOLEAN
      BY DEF Kinds
    <3>2. newMessage(kind, b, FALSE) \in Message /\ About(newMessage(kind, b, FALSE)) = b
          /\ newMessage(kind, b, FALSE).Kind = kind
      BY <3>1, NewMessageParts
    <3>3. QED
      BY <1>1, <3>2
  <2>2. \A c \in Builds : ~IsFailure(m, c)
    BY <2>1 DEF IsFailure
  <2>3. \A c \in Builds : passed'[c] = (passed[c] /\ ~IsFailure(m, c))
    BY <1>1, <2>2
  <2>4. \A c \in Builds : logs'[c] = logs[c] + (IF IsLog(m, c) THEN 1 ELSE 0)
    <3>1. \A c \in Builds : logs[c] \in Nat
      BY WorkerAssumption
    <3>2. m.Kind # "Log"
      BY <2>1
    <3>3. \A c \in Builds : logs[c] = logs[c] + (IF IsLog(m, c) THEN 1 ELSE 0)
      BY <3>1, <3>2 DEF IsLog
    <3>4. QED
      BY <1>1, <3>3
  <2>5. QED
    BY <1>1, <2>1, <2>3, <2>4 DEF Publishes
<1>2. CASE SendCancelMessage(b)
  BY <1>1, <1>2
     DEF SendCancelMessage, WorkerGoes, NewCancelMessage, PublishingAt, PublishedAt, Publishes
<1>3. CASE SendBuildInfo(b)
  BY <1>1, <1>3
     DEF SendBuildInfo, WorkerGoes, NewBuildMessage, PublishingAt, PublishedAt, Publishes
<1>4. CASE SendFinalizeMessage(b)
  <2>1. CASE stage[b] = Stages
    BY <1>1, <1>4, <2>1
       DEF SendFinalizeMessage, WorkerGoes, NewFinalMessage, PublishingAt, PublishedAt, Publishes
  <2>2. CASE stage[b] # Stages
    BY <1>4, <2>2 DEF SendFinalizeMessage, queueVars
  <2>3. QED
    BY <2>1, <2>2
<1>5. CASE FlushToQueue(b)
  <2> DEFINE m == newMessage("Log", b, FALSE)
  <2>1. m \in Message /\ About(m) = b /\ m.Kind = "Log"
    BY NewMessageParts DEF Kinds
  <2> HIDE DEF m
  <2>2. \A c \in Builds : passed'[c] = (passed[c] /\ ~IsFailure(m, c))
    BY <1>5, <2>1 DEF FlushToQueue, IsFailure
  <2>3. \A c \in Builds : logs'[c] = logs[c] + (IF IsLog(m, c) THEN 1 ELSE 0)
    BY <1>5, <2>1 DEF FlushToQueue, IsLog
  <2>4. wpc[b] = PublishingAt["Log"] /\ wpc'[b] \in PublishedAt["Log"]
    BY <1>5 DEF FlushToQueue, PublishingAt, PublishedAt
  <2>5. Publish(m)
    BY <1>5 DEF FlushToQueue, NewLogsMessage, m
  <2>6. QED
    BY <1>5, <2>1, <2>2, <2>3, <2>4, <2>5 DEF FlushToQueue, Publishes
<1>6. CASE SendStatusMessage(b)
  <2> DEFINE m == newMessage("Status", b, result[b])
  <2>1. m \in Message /\ About(m) = b /\ m.Kind = "Status" /\ m.Success = result[b]
    BY NewMessageParts DEF Kinds
  <2> HIDE DEF m
  <2>2. \A c \in Builds : passed'[c] = (passed[c] /\ ~IsFailure(m, c))
    <3> SUFFICES ASSUME NEW c \in Builds PROVE passed'[c] = (passed[c] /\ ~IsFailure(m, c))
      OBVIOUS
    <3>1. IsFailure(m, c) <=> c = b /\ ~result[b]
      BY <2>1 DEF IsFailure
    <3>2. passed' = [passed EXCEPT ![b] = passed[b] /\ result[b]]
      BY <1>6 DEF SendStatusMessage
    <3>3. CASE c = b
      BY <3>1, <3>2, <3>3
    <3>4. CASE c # b
      BY <3>1, <3>2, <3>4
    <3>5. QED
      BY <3>3, <3>4
  <2>3. \A c \in Builds : logs'[c] = logs[c] + (IF IsLog(m, c) THEN 1 ELSE 0)
    BY <1>6, <2>1 DEF SendStatusMessage, IsLog
  <2>4. wpc[b] = PublishingAt["Status"] /\ wpc'[b] \in PublishedAt["Status"]
    BY <1>6 DEF SendStatusMessage, WorkerGoes, PublishingAt, PublishedAt
  <2>5. Publish(m)
    BY <1>6 DEF SendStatusMessage, NewStatusMessage, m
  <2>6. QED
    BY <1>6, <2>1, <2>2, <2>3, <2>4, <2>5 DEF SendStatusMessage, Publishes
<1>7. QED
  BY <1>2, <1>3, <1>4, <1>5, <1>6
     DEF WorkerNext, WorkerStep, Run, RunStep, CheckForNewerBuilds, MoveForward, NotMovingForward,
         CleanupOldBuilds, InitQueues, RunReturns, RunDone, NextStage, EndBuild,
         PollFindsNewer, Stopped, TriggerBuild, Rebuild, WorkerStarts, WorkerFails,
         QueueDeclare, queueVars

\* With one stage a worker never goes back to before a message.
LEMMA WorkerProgress ==
  ASSUME TypeOK, NumberingInv, Stages = 1, NEW b \in Builds, WorkerNext(b),
         NEW c \in Builds, NEW kind \in Kinds, wpc[c] \in PublishedAt[kind]
  PROVE  wpc'[c] \in PublishedAt[kind]
<1> USE DEF TypeOK, WorkerTypeOK, PublishedAt, Kinds
<1>1. CASE c # b
  <2>1. \E to : wpc' = [wpc EXCEPT ![b] = to]
    BY DEF WorkerNext, WorkerStep, Run, RunStep, CheckForNewerBuilds, MoveForward,
           NotMovingForward, CleanupOldBuilds, InitQueues, SendCancelMessage, SendBuildInfo,
           FlushToQueue, RunReturns, RunDone, SendStatusMessage, SendFinalizeMessage, NextStage,
           EndBuild, PollFindsNewer, Stopped, TriggerBuild, Rebuild, WorkerStarts, WorkerFails,
           WorkerGoes, WorkerExits
  <2>2. QED
    BY <1>1, <2>1
<1>2. CASE c = b
  <2>1. CASE WorkerStarts(b)
    <3>1. wpc[b] = "none"
      BY <2>1, BuildParts, MaxBuildAssumption
         DEF WorkerStarts, StartBuild, NumberingInv, Started, JenkinsTypeOK
    <3>2. QED
      BY <1>2, <3>1
  <2>2. CASE NextStage(b)
    BY <2>2 DEF NextStage
  <2>3. QED
    BY <1>2, <2>1, <2>2
       DEF WorkerNext, WorkerStep, Run, RunStep, CheckForNewerBuilds, MoveForward,
           NotMovingForward, CleanupOldBuilds, InitQueues, SendCancelMessage, SendBuildInfo,
           FlushToQueue, RunReturns, RunDone, SendStatusMessage, SendFinalizeMessage,
           EndBuild, PollFindsNewer, Stopped, TriggerBuild, Rebuild, WorkerFails,
           WorkerGoes, WorkerExits
<1>3. QED
  BY <1>1, <1>2

LEMMA WorkerStepSaid ==
  ASSUME TypeOK, NumberingInv, QueueHolds(Said), Stages = 1, NEW b \in Builds, WorkerNext(b)
  PROVE  QueueHolds(Said)'
<1>1. Said \subseteq Said'
  BY WorkerProgress, MessageParts DEF Said
<1>2. ready \in Seq(Said') /\ inbox \in [Requestors -> Seq(Said')]
  BY <1>1, SeqMonotonic DEF QueueHolds
<1>3. CASE UNCHANGED <<ready, inbox>>
  BY <1>2, <1>3 DEF QueueHolds
<1>4. ASSUME NEW m \in Message, Publishes(b, m) PROVE QueueHolds(Said)'
  <2>1. m \in Said'
    BY <1>4 DEF Publishes, Said, About
  <2>2. QED
    BY <1>2, <1>4, <2>1 DEF Publishes, Publish, QueueHolds
<1>5. QED
  BY <1>3, <1>4, WorkerPublishes

LEMMA WorkerStepHistory ==
  ASSUME TypeOK, NumberingInv, HistoryInv, Stages = 1, NEW b \in Builds, WorkerNext(b)
  PROVE  HistoryInv'
<1> SUFFICES ASSUME NEW c \in Builds
             PROVE  /\ wpc'[c] \notin PublishedAt.Build => logs'[c] = 0
                    /\ wpc'[c] \notin PublishedAt.Status => passed'[c]
                    /\ c \in finished' => wpc'[c] \in PublishedAt.Final
  BY DEF HistoryInv
<1>1. \A kind \in {"Build", "Status", "Final"} :
        wpc[c] \in PublishedAt[kind] => wpc'[c] \in PublishedAt[kind]
  BY WorkerProgress DEF Kinds
<1>2. CASE UNCHANGED <<logs, passed, finished>>
  BY <1>1, <1>2 DEF HistoryInv
<1>3. ASSUME NEW m \in Message, Publishes(b, m)
      PROVE  /\ wpc'[c] \notin PublishedAt.Build => logs'[c] = 0
             /\ wpc'[c] \notin PublishedAt.Status => passed'[c]
             /\ c \in finished' => wpc'[c] \in PublishedAt.Final
  <2>1. IsLog(m, c) => wpc'[c] \in PublishedAt.Build
    BY <1>3 DEF Publishes, IsLog, PublishedAt
  <2>2. IsFailure(m, c) => wpc'[c] \in PublishedAt.Status
    BY <1>3 DEF Publishes, IsFailure
  <2>3. c \in finished' => c \in finished \/ wpc'[c] \in PublishedAt.Final
    BY <1>3 DEF Publishes
  <2>4. ~IsLog(m, c) => logs'[c] = logs[c]
    BY <1>3 DEF Publishes, TypeOK, WorkerTypeOK
  <2>5. ~IsFailure(m, c) => passed'[c] = passed[c]
    BY <1>3 DEF Publishes, TypeOK, WorkerTypeOK
  <2>6. QED
    BY <1>1, <2>1, <2>2, <2>3, <2>4, <2>5 DEF HistoryInv
<1>4. QED
  BY <1>2, <1>3, WorkerPublishes

-----------------------------------------------------------------------------
(* Streams, when requestors move.                                           *)

LEMMA StreamTypes ==
  ASSUME TypeOK, NEW o \in Requestors
  PROVE  /\ inbox[o] \in Seq(Message) /\ ready \in Seq(Message)
         /\ Stream(o) \in Seq(Message)
         /\ success[o] \in BOOLEAN /\ shown[o] \in Nat
BY ConcatProperties DEF TypeOK, QueueTypeOK, QueueHolds, RequestorTypeOK, Stream

LEMMA FollowsNothing ==
  ASSUME QueueToItself, NEW o \in Requestors, Starting(o)
  PROVE  Followed(o) \notin Builds /\ Stream(o) = inbox[o] \o ready /\ inbox[o] = <<>>
BY DEF QueueToItself, Followed, NoBuild, Builds, BuildNumbers, Stream, Open

\* What r does to the queue is nothing to one who does not know of r, other
\* than messages that go missing at the head of what is to come.
LEMMA BystanderStream ==
  ASSUME TypeOK, QueueToItself, StreamsTell, NEW r \in Requestors, RequestorNext(r),
         NEW o \in Requestors, o # r, Listens(o)'
  PROVE  Informs(Stream(o)', Open(o)', Followed(o)', success'[o], shown'[o], passed', logs')
<1>1. UNCHANGED <<rpc[o], hpc[o], jenkinsBuild[o], success[o], shown[o], inbox[o]>>
      /\ UNCHANGED <<passed, logs>> /\ (o \in consumers' <=> o \in consumers)
  BY DEF TypeOK, QueueTypeOK, QueueHolds, RequestorTypeOK, RequestorNext, RequestorStep,
         MainGoesOn, Handler, Around, InitQueus, SendBuildRequest, ConsumeMessages,
         ConsumeFails, ReceiveDone, TimeOut, ShutDownPurge, ShutDownClose, Crash, BrokerReaps,
         ConnectionLost, Deliver, HandleBuild, HandleCancel, HandleLog, HandleStatus,
         HandleFinal, SkipMessage, DeliveriesClosed, QueueDeclare, Consume, Ack, QueuePurge,
         ChannelClosed, MainGoes, queueVars, requestorVars, workerVars
<1>2. Listens(o) /\ Open(o)' = Open(o) /\ Followed(o)' = Followed(o)
  BY <1>1 DEF Listens, Open, Starting, Followed
<1>3. Informs(Stream(o), Open(o), Followed(o), success[o], shown[o], passed, logs)
  BY <1>2 DEF StreamsTell
<1>4. CASE ready' = ready
  <2>1. Stream(o)' = Stream(o)
    BY <1>1, <1>2, <1>4 DEF Stream
  <2>2. QED
    BY <1>1, <1>2, <1>3, <2>1
<1>5. CASE ready' # ready
  <2>1. r \in consumers /\ (ready' = <<>> \/ (ready # <<>> /\ ready' = Tail(ready)))
    <3>1. \A kept : ChannelClosed(r, kept) => r \in consumers /\ ready' = <<>>
      BY <1>5, SoleConsumerLeaves DEF TypeOK, QueueTypeOK
    <3>2. QED
      BY <1>5, <3>1
         DEF RequestorNext, RequestorStep, MainGoesOn, Handler, Around, InitQueus,
             SendBuildRequest, ConsumeMessages, ConsumeFails, ReceiveDone, TimeOut,
             ShutDownPurge, ShutDownClose, Crash, BrokerReaps, ConnectionLost, Deliver,
             HandleBuild, HandleCancel, HandleLog, HandleStatus, HandleFinal, SkipMessage,
             DeliveriesClosed, QueueDeclare, Consume, Ack, QueuePurge, queueVars
  <2>2. Starting(o)
    BY <1>2, <2>1 DEF QueueToItself, Present, Listens, Exited
  <2>3. Followed(o) \notin Builds /\ Stream(o) = ready
    BY <2>2, FollowsNothing, StreamTypes, ConcatEmptySeq
  <2>4. Stream(o)' = ready'
    <3>1. Open(o) /\ inbox[o] = <<>>
      BY <2>2, FollowsNothing DEF Open
    <3>2. ready' \in Seq(Message)
      BY <2>1, StreamTypes, TailElements, EmptySeq
    <3>3. QED
      BY <1>1, <1>2, <3>1, <3>2, ConcatEmptySeq DEF Stream
  <2>5. CASE ready' = <<>>
    BY <1>2, <2>3, <2>4, <2>5, EmptyInforms
  <2>6. CASE ready # <<>> /\ ready' = Tail(ready)
    <3>1. ~IsLog(Head(ready), Followed(o)) /\ ~IsFailure(Head(ready), Followed(o))
      BY <2>3, <2>6, StreamTypes, TailElements, MessageParts DEF IsLog, IsFailure
    <3>2. Informs(Tail(ready), Open(o), Followed(o), success[o], shown[o], passed, logs)
      BY <1>3, <2>3, <2>6, <3>1, SkipInforms, StreamTypes
    <3>3. QED
      BY <1>1, <1>2, <2>4, <2>6, <3>2
  <2>7. QED
    BY <2>1, <2>5, <2>6
<1>6. QED
  BY <1>4, <1>5

\* The handler acknowledges the first message of its stream.
LEMMA AckedStream ==
  ASSUME TypeOK, NEW r \in Requestors, Handling(r), Ack(r), UNCHANGED rpc
  PROVE  /\ Stream(r) # <<>> /\ Head(Stream(r)) = Head(inbox[r])
         /\ Stream(r)' = Tail(Stream(r)) /\ Open(r)' = Open(r)
<1>1. inbox[r] # <<>> /\ inbox'[r] = Tail(inbox[r]) /\ UNCHANGED <<ready, consumers>>
  BY DEF Handling, Ack, TypeOK, QueueTypeOK, QueueHolds
<1>2. Open(r)' = Open(r)
  BY <1>1 DEF Open, Starting
<1>3. QED
  BY <1>1, <1>2, AckStream, StreamTypes DEF Stream

LEMMA HandlerStream ==
  ASSUME TypeOK, StreamsTell, NEW r \in Requestors, Handler(r), Listens(r), hpc[r] = "loop",
         hpc'[r] = "loop", UNCHANGED <<passed, logs>>
  PROVE  Informs(Stream(r)', Open(r)', Followed(r)', success'[r], shown'[r], passed', logs')
<1> DEFINE s == Stream(r)
           m == Head(inbox[r])
<1>1. Informs(s, Open(r), Followed(r), success[r], shown[r], passed, logs)
  BY DEF StreamsTell
<1>2. Handling(r) /\ Ack(r) /\ UNCHANGED rpc
  BY DEF Handler, HandleBuild, HandleCancel, HandleLog, HandleStatus, HandleFinal, SkipMessage,
         DeliveriesClosed, requestorVars, TypeOK, RequestorTypeOK
<1>3. s \in Seq(Message) /\ s # <<>> /\ Head(s) = m /\ m \in Message
      /\ Stream(r)' = Tail(s) /\ Open(r)' = Open(r)
  BY <1>2, AckedStream, StreamTypes, TailElements
<1>4. success[r] \in BOOLEAN /\ shown[r] \in Nat
  BY StreamTypes
<1>5. Mine(r) => About(m) = <<JenkinsProject[r], m.Build>>
  BY DEF Mine, About
<1>6. Current(r) <=> About(m) = Followed(r)
  BY DEF Current, Mine, About, Followed
<1> HIDE DEF s
<1> USE DEF TypeOK, RequestorTypeOK
<1>7. CASE HandleBuild(r)
  <2>1. Followed(r)' = About(m) /\ success'[r] = success[r] /\ shown'[r] = 0 /\ m.Kind = "Build"
    BY <1>5, <1>7 DEF HandleBuild, Newer, Followed, Is
  <2>2. Informs(Tail(s), Open(r), About(m), success[r], 0, passed, logs)
    BY <1>1, <1>3, <1>4, <2>1, FollowInforms
  <2>3. QED
    BY <1>3, <2>1, <2>2
<1>8. CASE HandleCancel(r)
  <2>1. Followed(r)' \notin Builds /\ m.Kind = "Cancel"
    BY <1>8 DEF HandleCancel, Followed, NoBuild, Builds, BuildNumbers, Is
  <2>2. Informs(Tail(s), Open(r), Followed(r), success[r], shown[r], passed, logs)
    BY <1>1, <1>3, <1>4, <2>1, SkipInforms DEF IsLog, IsFailure
  <2>3. QED
    BY <1>3, <2>1, <2>2, ForgetInforms
<1>9. CASE HandleLog(r)
  <2>1. Followed(r)' = Followed(r) /\ success'[r] = success[r] /\ shown'[r] = shown[r] + 1
        /\ m.Kind = "Log" /\ About(m) = Followed(r)
    BY <1>6, <1>9 DEF HandleLog, Followed, Is
  <2>2. Informs(Tail(s), Open(r), Followed(r), success[r], shown[r] + 1, passed, logs)
    BY <1>1, <1>3, <1>4, <2>1, LogInforms DEF IsLog
  <2>3. QED
    BY <1>3, <2>1, <2>2
<1>10. CASE HandleStatus(r)
  <2>1. Followed(r)' = Followed(r) /\ shown'[r] = shown[r]
        /\ m.Kind = "Status" /\ About(m) = Followed(r)
    BY <1>6, <1>10 DEF HandleStatus, Followed, Is
  <2>2. success'[r] = (success[r] /\ m.Success)
    BY <1>10 DEF HandleStatus
  <2>3. Informs(Tail(s), Open(r), Followed(r), success[r] /\ m.Success, shown[r], passed, logs)
    BY <1>1, <1>3, <1>4, <2>1, StatusInforms
  <2>4. QED
    BY <1>3, <2>1, <2>2, <2>3
<1>11. CASE SkipMessage(r)
  <2>1. Followed(r)' = Followed(r) /\ success'[r] = success[r] /\ shown'[r] = shown[r]
    BY <1>11 DEF SkipMessage, Followed, requestorVars
  <2>2. ~IsLog(m, Followed(r)) /\ ~IsFailure(m, Followed(r))
    BY <1>6, <1>11 DEF SkipMessage, IsLog, IsFailure, Is
  <2>3. Informs(Tail(s), Open(r), Followed(r), success[r], shown[r], passed, logs)
    BY <1>1, <1>3, <1>4, <2>2, SkipInforms
  <2>4. QED
    BY <1>3, <2>1, <2>3
<1>12. CASE HandleFinal(r) \/ DeliveriesClosed(r)
  BY <1>12 DEF HandleFinal, DeliveriesClosed
<1>13. QED
  BY <1>7, <1>8, <1>9, <1>10, <1>11, <1>12 DEF Handler

LEMMA OwnStream ==
  ASSUME TypeOK, QueueToItself, StreamsTell, NEW r \in Requestors, RequestorNext(r),
         Listens(r)'
  PROVE  Informs(Stream(r)', Open(r)', Followed(r)', success'[r], shown'[r], passed', logs')
<1>1. UNCHANGED <<passed, logs>>
  BY DEF RequestorNext, workerVars
<1>2. Listens(r) =>
        Informs(Stream(r), Open(r), Followed(r), success[r], shown[r], passed, logs)
  BY DEF StreamsTell
<1> USE DEF TypeOK, RequestorTypeOK, Listens, Starting
<1>3. CASE InitQueus(r) \/ SendBuildRequest(r) \/ ConsumeMessages(r)
  <2>1. Starting(r) /\ Listens(r)
    BY <1>3 DEF InitQueus, SendBuildRequest, ConsumeMessages, MainGoes
  <2>2. Open(r) /\ Open(r)'
    BY <1>3, <2>1 DEF Open, InitQueus, SendBuildRequest, ConsumeMessages, MainGoes, Consume
  <2>3. UNCHANGED <<inbox, ready, jenkinsBuild, shown>>
    BY <1>3 DEF InitQueus, SendBuildRequest, ConsumeMessages, QueueDeclare, Consume, queueVars
  <2>4. Stream(r)' = Stream(r) /\ Followed(r)' = Followed(r) /\ Followed(r) \notin Builds
    BY <2>1, <2>2, <2>3, FollowsNothing DEF Stream, Followed
  <2>5. Informs(Stream(r), Open(r), Followed(r), success'[r], shown'[r], passed, logs)
    BY <1>2, <2>1, <2>4, ForgetInforms
  <2>6. Open(r)' => Open(r)
    BY <2>2
  <2>7. QED
    BY <1>1, <2>4, <2>5, <2>6, OpenInforms
<1>4. CASE ConsumeFails(r) \/ ReceiveDone(r) \/ TimeOut(r) \/ ShutDownPurge(r) \/ ShutDownClose(r)
           \/ Crash(r) \/ BrokerReaps(r)
  BY <1>4 DEF ConsumeFails, ReceiveDone, TimeOut, ShutDownPurge, ShutDownClose, Crash, BrokerReaps,
              MainGoes, Exited, requestorVars
<1>5. CASE ConnectionLost(r)
  <2>1. r \in consumers /\ r \notin consumers' /\ UNCHANGED requestorVars
    BY <1>5 DEF ConnectionLost, ChannelClosed
  <2>2. Listens(r) /\ ~Starting(r) /\ Open(r) /\ ~Open(r)' /\ Followed(r)' = Followed(r)
    BY <2>1 DEF requestorVars, QueueToItself, Open, Followed
  <2>3. Stream(r) = inbox[r] \o ready /\ Stream(r)' = inbox[r]
    BY <1>5, <2>2 DEF Stream, ConnectionLost, ChannelClosed, QueueTypeOK, QueueHolds
  <2>4. Informs(inbox[r] \o ready, TRUE, Followed(r), success[r], shown[r], passed, logs)
    BY <1>2, <2>2, <2>3, OpenInforms
  <2>5. Informs(inbox[r], FALSE, Followed(r), success[r], shown[r], passed, logs)
    BY <2>4, CloseInforms, StreamTypes
  <2>6. Informs(inbox[r], Open(r)', Followed(r), success[r], shown[r], passed, logs)
    BY <2>2, <2>5, OpenInforms
  <2>7. QED
    BY <1>1, <2>1, <2>2, <2>3, <2>6 DEF requestorVars
<1>6. CASE Deliver(r) /\ UNCHANGED requestorVars
  <2>1. Listens(r) /\ Open(r)' = Open(r) /\ Followed(r)' = Followed(r) /\ Open(r)
    BY <1>6 DEF Deliver, Open, requestorVars, Followed
  <2>2. inbox'[r] = Append(inbox[r], Head(ready)) /\ ready' = Tail(ready) /\ ready # <<>>
    BY <1>6 DEF Deliver, QueueTypeOK, QueueHolds
  <2>3. Stream(r)' = Stream(r)
    BY <2>1, <2>2, DeliverStream, StreamTypes DEF Stream
  <2>4. QED
    BY <1>1, <1>2, <1>6, <2>1, <2>3 DEF requestorVars
<1>7. CASE Handler(r)
  <2>1. hpc[r] = "loop" /\ UNCHANGED rpc
    BY <1>7 DEF Handler, HandleBuild, HandleCancel, HandleLog, HandleStatus, HandleFinal,
                SkipMessage, DeliveriesClosed, Handling, requestorVars
  <2>2. ~Starting(r) /\ hpc'[r] = "loop"
    <3>1. ~Starting(r)
      BY <2>1 DEF QueueToItself
    <3>2. QED
      BY <2>1, <3>1
  <2>3. QED
    BY <1>1, <1>7, <2>1, <2>2, HandlerStream
<1>8. QED
  BY <1>3, <1>4, <1>5, <1>6, <1>7 DEF RequestorNext, RequestorStep, MainGoesOn, Around

LEMMA RequestorStepStreams ==
  ASSUME TypeOK, QueueToItself, StreamsTell, NEW r \in Requestors, RequestorNext(r)
  PROVE  StreamsTell'
BY BystanderStream, OwnStream DEF StreamsTell

-----------------------------------------------------------------------------
(* Streams, when workers publish.                                           *)

LEMMA CarriesSaid ==
  ASSUME NEW s \in Seq(Said), NEW kind, NEW b, Carries(s, kind, b)
  PROVE  wpc[b] \in PublishedAt[kind]
<1>1. PICK i \in 1 .. Len(s) : s[i].Kind = kind /\ About(s[i]) = b
  BY DEF Carries
<1>2. s[i] \in Said
  BY ElementOfSeq
<1>3. QED
  BY <1>1, <1>2 DEF Said

\* What is published comes behind what has been said of its build.
LEMMA PublishedInOrder ==
  ASSUME NEW s \in Seq(Said), NEW b \in Builds, NEW m, Publishes(b, m),
         NEW kind \in Kinds, Carries(s, kind, b)
  PROVE  m.Kind \in Behind[kind]
<1>1. m.Kind \in Kinds /\ wpc[b] = PublishingAt[m.Kind]
  BY MessageParts DEF Publishes
<1>2. wpc[b] \in PublishedAt[kind]
  BY CarriesSaid
<1>3. QED
  BY <1>1, <1>2 DEF Kinds, PublishingAt, PublishedAt, Behind

LEMMA StreamSaid ==
  ASSUME QueueHolds(Said), NEW o \in Requestors
  PROVE  Stream(o) \in Seq(Said) /\ inbox[o] \in Seq(Said) /\ ready \in Seq(Said)
<1>1. inbox[o] \in Seq(Said) /\ ready \in Seq(Said)
  BY DEF QueueHolds
<1>2. QED
  BY <1>1, ConcatProperties DEF Stream

\* A stream that is open gets the message that a worker publishes.
LEMMA PublishInforms ==
  ASSUME TypeOK, QueueToItself, QueueHolds(Said), HistoryInv, StreamsTell,
         NEW b \in Builds, NEW m, Publishes(b, m), NEW o \in Requestors, Listens(o), Open(o),
         declared
  PROVE  Informs(Append(Stream(o), m), Open(o), Followed(o), success[o], shown[o], passed', logs')
<1> DEFINE s == Stream(o)
<1>1. Informs(s, TRUE, Followed(o), success[o], shown[o], passed, logs)
  BY OpenInforms DEF StreamsTell
<1>2. s \in Seq(Message) /\ shown[o] \in Nat /\ m \in Message /\ About(m) = b
  BY StreamTypes DEF Publishes
<1>3. \A kind \in Kinds : Carries(s, kind, About(m)) => m.Kind \in Behind[kind]
  BY <1>2, StreamSaid, PublishedInOrder
<1>4. m.Kind = "Build" => passed[b] /\ logs[b] = 0
  BY DEF Publishes, HistoryInv, PublishingAt, PublishedAt
<1>5. logs \in [Builds -> Nat]
  BY WorkerAssumption DEF TypeOK, WorkerTypeOK
<1>6. \A c \in Builds : passed'[c] = (passed[c] /\ ~IsFailure(m, c))
  BY DEF Publishes
<1>7. \A c \in Builds : logs'[c] = logs[c] + (IF IsLog(m, c) THEN 1 ELSE 0)
  BY DEF Publishes
<1> HIDE DEF s
<1>8. Informs(Append(s, m), TRUE, Followed(o), success[o], shown[o], passed', logs')
  BY <1>1, <1>2, <1>3, <1>4, <1>5, <1>6, <1>7, AppendInforms
<1>9. QED
  BY <1>8, OpenInforms DEF s

LEMMA WorkerStepStreams ==
  ASSUME TypeOK, QueueToItself, QueueHolds(Said), HistoryInv, StreamsTell, Stages = 1,
         NEW b \in Builds, WorkerNext(b)
  PROVE  StreamsTell'
<1> SUFFICES ASSUME NEW o \in Requestors, Listens(o)'
             PROVE  Informs(Stream(o)', Open(o)', Followed(o)', success'[o], shown'[o],
                            passed', logs')
  BY DEF StreamsTell
<1>1. UNCHANGED requestorVars
  BY DEF WorkerNext
<1>2. UNCHANGED <<inbox, consumers>>
  BY WorkerPublishes DEF Publishes, Publish
<1>3. Listens(o) /\ Open(o)' = Open(o) /\ Followed(o)' = Followed(o)
      /\ success'[o] = success[o] /\ shown'[o] = shown[o]
  BY <1>1, <1>2 DEF requestorVars, Listens, Open, Starting, Followed
<1>4. Informs(Stream(o), Open(o), Followed(o), success[o], shown[o], passed, logs)
  BY <1>3 DEF StreamsTell
<1>5. CASE UNCHANGED <<ready, logs, passed>>
  <2>1. Stream(o)' = Stream(o)
    BY <1>2, <1>3, <1>5 DEF Stream
  <2>2. QED
    BY <1>3, <1>4, <1>5, <2>1
<1>6. ASSUME NEW m \in Message, Publishes(b, m), Open(o), declared
      PROVE  Informs(Stream(o)', Open(o), Followed(o), success[o], shown[o], passed', logs')
  <2>1. Stream(o)' = Append(Stream(o), m)
    <3>1. Stream(o)' = inbox[o] \o ready' /\ ready' = Append(ready, m)
      BY <1>2, <1>3, <1>6 DEF Stream, Publishes, Publish
    <3>2. inbox[o] \o Append(ready, m) = Append(inbox[o] \o ready, m)
      BY PublishStream, StreamTypes
    <3>3. QED
      BY <1>6, <3>1, <3>2 DEF Stream
  <2>2. QED
    BY <1>3, <1>6, <2>1, PublishInforms
<1>7. ASSUME NEW m \in Message, Publishes(b, m), Open(o), ~declared
      PROVE  Informs(Stream(o)', Open(o), Followed(o), success[o], shown[o], passed', logs')
  <2>1. ready' = <<>> /\ Starting(o)
    BY <1>7 DEF QueueToItself, Open, Publishes, Publish
  <2>2. Followed(o) \notin Builds /\ Stream(o)' = <<>>
    <3>1. Followed(o) \notin Builds /\ inbox[o] = <<>>
      BY <2>1, FollowsNothing
    <3>2. Stream(o)' = <<>> \o <<>>
      BY <1>2, <1>3, <1>7, <2>1, <3>1 DEF Stream
    <3>3. QED
      BY <3>1, <3>2
  <2>3. QED
    BY <2>2, EmptyInforms
<1>8. ASSUME NEW m \in Message, Publishes(b, m), ~Open(o)
      PROVE  Informs(Stream(o)', Open(o), Followed(o), success[o], shown[o], passed', logs')
  <2>1. Stream(o)' = Stream(o)
    BY <1>2, <1>3, <1>8 DEF Stream
  <2>2. ASSUME NEW c \in Builds, Carries(Stream(o), "Final", c)
        PROVE  passed'[c] = passed[c] /\ logs'[c] = logs[c]
    <3>1. wpc[c] \in PublishedAt["Final"]
      BY <2>2, StreamSaid, CarriesSaid
    <3>2. c # b
      BY <1>8, <3>1, MessageParts DEF Publishes, PublishingAt, PublishedAt, Kinds
    <3>3. ~IsFailure(m, c) /\ ~IsLog(m, c)
      BY <1>8, <3>2 DEF Publishes, IsFailure, IsLog
    <3>4. passed'[c] = passed[c]
      BY <1>8, <3>3 DEF Publishes, TypeOK, WorkerTypeOK
    <3>5. logs'[c] = logs[c]
      BY <1>8, <3>3, WorkerAssumption DEF Publishes, TypeOK, WorkerTypeOK
    <3>6. QED
      BY <3>4, <3>5
  <2>3. Informs(Stream(o), FALSE, Followed(o), success[o], shown[o], passed, logs)
    BY <1>4, OpenInforms
  <2>4. Informs(Stream(o), FALSE, Followed(o), success[o], shown[o], passed', logs')
    BY <2>2, <2>3, ClosedInforms
  <2>5. QED
    BY <1>8, <2>1, <2>4, OpenInforms
<1>9. QED
  BY <1>3, <1>5, <1>6, <1>7, <1>8, WorkerPublishes

-----------------------------------------------------------------------------
(* Verdicts.                                                                *)

\* The handler reads the final message of the build it follows.
LEMMA HandleFinalComplete ==
  ASSUME TypeOK, StreamsTell, NEW r \in Requestors, HandleFinal(r), rpc[r] = "select"
  PROVE  shown[r] = logs[Followed(r)] /\ (success[r] => passed[Followed(r)])
<1> DEFINE s == Stream(r)
<1>1. Listens(r)
  BY DEF HandleFinal, Handling, Listens
<1>2. Informs(s, Open(r), Followed(r), success[r], shown[r], passed, logs)
  BY <1>1 DEF StreamsTell
<1>3. s \in Seq(Message) /\ s # <<>> /\ Head(s) = Head(inbox[r])
  BY StreamTypes, AckStream DEF HandleFinal, Handling, Stream
<1>4. Head(s).Kind = "Final" /\ About(Head(s)) = Followed(r)
  BY <1>3 DEF HandleFinal, Is, Current, Mine, About, Followed
<1>5. Followed(r) \in Builds
  BY <1>3, <1>4, TailElements, MessageParts
<1>6. success[r] \in BOOLEAN /\ shown[r] \in Nat
  BY StreamTypes
<1> HIDE DEF s
<1>7. QED
  BY <1>2, <1>3, <1>4, <1>5, <1>6, FinalInforms

LEMMA RequestorStepVerdictAgrees ==
  ASSUME TypeOK, VerdictInv, NEW r \in Requestors, RequestorNext(r),
         NEW o \in Requestors, VerdictAgrees(o),
         o = r /\ HandleFinal(r) /\ rpc[r] = "select" =>
           shown[r] = logs[Followed(r)] /\ (success[r] => passed[Followed(r)])
  PROVE  VerdictAgrees(o)'
<1>1. UNCHANGED <<passed, logs>>
  BY DEF RequestorNext, workerVars
<1> USE <1>1 DEF TypeOK, RequestorTypeOK, VerdictAgrees, HasVerdict, Followed
<1>2. CASE o # r
  <2>1. UNCHANGED <<rpc[o], hpc[o], jenkinsBuild[o], success[o], shown[o], outcome[o]>>
    BY <1>2
       DEF RequestorNext, RequestorStep, MainGoesOn, Handler, Around, InitQueus,
           SendBuildRequest, ConsumeMessages, ConsumeFails, ReceiveDone, TimeOut,
           ShutDownPurge, ShutDownClose, Crash, BrokerReaps, ConnectionLost, Deliver, HandleBuild,
           HandleCancel, HandleLog, HandleStatus, HandleFinal, SkipMessage, DeliveriesClosed,
           MainGoes, requestorVars
  <2>2. QED
    BY <2>1
<1>3. CASE o = r
  <2>1. HasVerdict(r) => hpc[r] = "ended" /\ rpc[r] \notin {"init", "send", "consume"}
    BY DEF VerdictInv, BeliefsJustified
  <2>2. CASE InitQueus(r) \/ SendBuildRequest(r) \/ ConsumeMessages(r) \/ ConsumeFails(r)
    BY <1>3, <2>1, <2>2 DEF InitQueus, SendBuildRequest, ConsumeMessages, ConsumeFails, MainGoes
  <2>3. CASE ReceiveDone(r)
    BY <1>3, <2>3 DEF ReceiveDone, MainGoes
  <2>4. CASE TimeOut(r)
    BY <1>3, <2>4 DEF TimeOut, MainGoes
  <2>5. CASE ShutDownPurge(r) \/ ShutDownClose(r) \/ Crash(r)
    BY <1>3, <2>5 DEF ShutDownPurge, ShutDownClose, Crash, MainGoes
  <2>6. CASE UNCHANGED requestorVars
    BY <1>3, <2>6 DEF requestorVars
  <2>7. CASE HandleFinal(r)
    <3>1. UNCHANGED <<rpc, success, shown, jenkinsBuild, outcome>>
      BY <2>7 DEF HandleFinal
    <3>2. QED
      BY <1>3, <2>7, <3>1
  <2>8. CASE Handler(r) /\ ~HandleFinal(r)
    <3>1. hpc[r] = "loop" /\ hpc'[r] # "sending" /\ UNCHANGED outcome
      BY <2>8 DEF Handler, Handling, HandleBuild, HandleCancel, HandleLog, HandleStatus,
                  SkipMessage, DeliveriesClosed, requestorVars
    <3>2. QED
      BY <1>3, <2>1, <3>1
  <2>9. QED
    BY <2>2, <2>3, <2>4, <2>5, <2>6, <2>7, <2>8
       DEF RequestorNext, RequestorStep, MainGoesOn, Around, BrokerReaps, ConnectionLost
<1>4. QED
  BY <1>2, <1>3

\* The history of a build is complete once it has finished.
LEMMA FinishedHistory ==
  ASSUME TypeOK, \A d \in finished : wpc[d] \in PublishedAt.Final,
         NEW b \in Builds, WorkerNext(b), NEW c \in finished
  PROVE  passed'[c] = passed[c] /\ logs'[c] = logs[c]
<1>1. c \in Builds
  BY DEF TypeOK, WorkerTypeOK
<1>2. CASE UNCHANGED <<passed, logs>>
  BY <1>2
<1>3. ASSUME NEW m \in Message, Publishes(b, m)
      PROVE  passed'[c] = passed[c] /\ logs'[c] = logs[c]
  <2>1. wpc[c] \in PublishedAt["Final"]
    OBVIOUS
  <2>2. c # b
    BY <1>3, <2>1, MessageParts DEF Publishes, PublishingAt, PublishedAt, Kinds
  <2>3. ~IsFailure(m, c) /\ ~IsLog(m, c)
    BY <1>3, <2>2 DEF Publishes, IsFailure, IsLog
  <2>4. passed'[c] = passed[c]
    BY <1>1, <1>3, <2>3 DEF Publishes, TypeOK, WorkerTypeOK
  <2>5. logs'[c] = logs[c]
    BY <1>1, <1>3, <2>3, WorkerAssumption DEF Publishes, TypeOK, WorkerTypeOK
  <2>6. QED
    BY <2>4, <2>5
<1>4. QED
  BY <1>2, <1>3, WorkerPublishes

LEMMA WorkerStepVerdictAgrees ==
  ASSUME TypeOK, VerdictInv, \A d \in finished : wpc[d] \in PublishedAt.Final,
         NEW b \in Builds, WorkerNext(b), NEW o \in Requestors, VerdictAgrees(o)
  PROVE  VerdictAgrees(o)'
<1>1. UNCHANGED requestorVars
  BY DEF WorkerNext
<1>2. hpc[o] = "sending" \/ HasVerdict(o) =>
        passed'[Followed(o)] = passed[Followed(o)] /\ logs'[Followed(o)] = logs[Followed(o)]
  BY FinishedHistory DEF VerdictInv, BeliefsJustified
<1>3. QED
  BY <1>1, <1>2 DEF VerdictAgrees, HasVerdict, Followed, requestorVars

-----------------------------------------------------------------------------
(* The inductive invariant. *)

LEMMA InitDelivery == Init => DeliveryInv
<1> SUFFICES ASSUME Init PROVE DeliveryInv
  OBVIOUS
<1> USE DEF Init, QueueInit, RequestorInit, WorkerInit
<1>1. QueueToItself
  BY DEF QueueToItself, Present, Starting, Exited, DeclaredQueueSurvives
<1>2. QueueHolds(Said)
  BY QueueInitHolds
<1>3. HistoryInv
  BY DEF HistoryInv, PublishedAt
<1>4. StreamsTell
  <2> SUFFICES ASSUME NEW r \in Requestors
               PROVE  Informs(Stream(r), Open(r), Followed(r), success[r], shown[r], passed, logs)
    BY DEF StreamsTell
  <2>1. Stream(r) = <<>> /\ Followed(r) \notin Builds
    BY DEF Stream, Followed, NoBuild, Builds, BuildNumbers
  <2>2. QED
    BY <2>1, EmptyInforms
<1>5. VerdictComplete
  BY DEF VerdictComplete, VerdictAgrees, HasVerdict
<1>6. QED
  BY <1>1, <1>2, <1>3, <1>4, <1>5 DEF DeliveryInv

LEMMA RequestorStepDelivery ==
  ASSUME TypeOK, VerdictInv, DeliveryInv, ~SharedQueue, NEW r \in Requestors, RequestorNext(r)
  PROVE  DeliveryInv'
<1> USE DEF DeliveryInv
<1>1. QueueToItself'
  BY RequestorStepQueueToItself DEF RequestorNext
<1>2. UNCHANGED workerVars
  BY DEF RequestorNext
<1>3. QueueHolds(Said)'
  <2>1. Said' = Said
    BY <1>2 DEF Said, workerVars
  <2>2. QED
    BY <2>1, RequestorMovesMessages DEF RequestorNext, QueueHolds
<1>4. HistoryInv'
  BY <1>2 DEF HistoryInv, workerVars
<1>5. StreamsTell'
  BY RequestorStepStreams
<1>6. VerdictComplete'
  BY RequestorStepVerdictAgrees, HandleFinalComplete DEF VerdictComplete
<1>7. QED
  BY <1>1, <1>3, <1>4, <1>5, <1>6

LEMMA StutterDelivery ==
  ASSUME DeliveryInv, UNCHANGED vars
  PROVE  DeliveryInv'
BY DEF DeliveryInv, vars, queueVars, requestorVars, workerVars, QueueToItself, Present, Starting,
       Exited, DeclaredQueueSurvives, QueueHolds, Said, HistoryInv, StreamsTell, Listens, Open,
       Stream, Followed, VerdictComplete, VerdictAgrees, HasVerdict

\* Without a queue to share and with builds of one stage, each requestor that
\* waits has before it, in order, all it needs to give the right verdict.
THEOREM DeliveryInvariance == ~SharedQueue /\ Stages = 1 => (Spec => []DeliveryInv)
<1> SUFFICES ASSUME ~SharedQueue, Stages = 1 PROVE Spec => []DeliveryInv
  OBVIOUS
<1>1. TypeOK /\ NumberingInv /\ VerdictInv /\ DeliveryInv /\ [Next]_vars => DeliveryInv'
  <2> SUFFICES ASSUME TypeOK, NumberingInv, VerdictInv, DeliveryInv, [Next]_vars
               PROVE  DeliveryInv'
    OBVIOUS
  <2>1. ASSUME NEW b \in Builds, WorkerNext(b) PROVE DeliveryInv'
    <3>1. \A d \in finished : wpc[d] \in PublishedAt.Final
      BY DEF DeliveryInv, HistoryInv, TypeOK, WorkerTypeOK
    <3>2. QED
      BY <2>1, <3>1, WorkerStepQueueToItself, WorkerStepSaid, WorkerStepHistory,
         WorkerStepStreams, WorkerStepVerdictAgrees DEF DeliveryInv, VerdictComplete
  <2>2. QED
    BY <2>1, RequestorStepDelivery, StutterDelivery DEF Next
<1>2. QED
  BY <1>1, InitDelivery, TypeCorrect, NumberingInvariance, VerdictInvariance, PTL DEF Spec

\* No false success: with a queue of its own and builds of one stage, a
\* requestor that exits with success followed a build that ran to its end and
\* did not fail, whatever fails or is replaced around it.
THEOREM VerdictsAreRight == ~SharedQueue /\ Stages = 1 => (Spec => []SafeVerdict)
<1>1. VerdictInv /\ DeliveryInv => SafeVerdict
  BY DEF VerdictInv, BeliefsJustified, DeliveryInv, VerdictComplete, VerdictAgrees, HasVerdict, SafeVerdict
<1>2. QED
  BY <1>1, DeliveryInvariance, VerdictInvariance, PTL

\* Under the same conditions all the output of the build has been shown by
\* the time of the verdict.
THEOREM OutputIsComplete == ~SharedQueue /\ Stages = 1 => (Spec => []AllLogsShown)
<1>1. DeliveryInv => AllLogsShown
  BY DEF DeliveryInv, VerdictComplete, VerdictAgrees, AllLogsShown
<1>2. QED
  BY <1>1, DeliveryInvariance, PTL

=============================================================================
