-------------------------- MODULE OperatorBusProofs --------------------------
(***************************************************************************)
(* Theorems of OperatorBus, for any streams, batch size and number of      *)
(* commands and failures: its type invariant, that what is acknowledged is *)
(* answered, that commands are dropped by failures only, and that callers  *)
(* see the mailbox of CommandBus.                                          *)
(***************************************************************************)
EXTENDS OperatorBus, ListLemmas, TLAPS

(* The inductive invariant.                                                *)

\* Position i of stream s has not been delivered yet.  (NoGroup is below all.)
Undelivered(s) == {i \in 1 .. Len(log[s]) : last[s] < i}

\* The entries of a stream are commands sent to it, oldest first.
StreamsAreOrdered ==
    \A s \in Streams : \A i \in 1 .. Len(log[s]) :
        /\ log[s][i] <= Len(sent)
        /\ sent[log[s][i]].stream = s
        /\ \A j \in 1 .. i - 1 : log[s][j] < log[s][i]

\* A sequence of commands that were sent, none of them twice, those of a stream
\* oldest first.
Ordered(q) ==
    \A i \in 1 .. Len(q) :
        /\ q[i] <= Len(sent)
        /\ \A j \in 1 .. i - 1 :
             q[j] # q[i] /\ (sent[q[j]].stream = sent[q[i]].stream => q[j] < q[i])

\* What is still on a stream is younger than what the task has read from it.
BatchComesFirst ==
    \A s \in Streams : \A i \in Undelivered(s) : \A j \in 1 .. Len(batch) :
        sent[batch[j]].stream = s => batch[j] < log[s][i]

\* Nothing is answered before its turn.
AnsweredInTurn ==
    /\ \A c \in answered : c <= Len(sent)
    /\ \A s \in Streams : \A i \in Undelivered(s) : log[s][i] \notin answered
    /\ \A j \in 2 .. Len(batch) : batch[j] \notin answered
    /\ pc \in {"entry", "handling"} => Head(batch) \notin answered
    /\ pc = "acking" /\ WellFormed(Head(batch)) => Head(batch) \in answered

\* The task has entries in its hands exactly while it works on the first.
WorksOnBatch == pc \in {"entry", "handling", "acking"} <=> batch # <<>>

IInv ==
    /\ TypeOK
    /\ Len(sent) <= MaxCommands
    /\ StreamsAreOrdered
    /\ Ordered(batch)
    /\ BatchComesFirst
    /\ AnsweredInTurn
    /\ WorksOnBatch
    /\ AckedMeansAnswered

-----------------------------------------------------------------------------
(* What XREADGROUP delivers.                                               *)

\* The batch end of a stream: how far the group has come after the delivery.
LEMMA NewEntriesOfAStream ==
  ASSUME TypeOK, NEW s \in Streams, last[s] # NoGroup
  PROVE  /\ NewEntries(s) \in Seq(Commands)
         /\ last[s] + Len(NewEntries(s)) \in 0 .. Len(log[s])
         /\ \A i \in 1 .. Len(NewEntries(s)) :
              /\ NewEntries(s)[i] = log[s][last[s] + i]
              /\ last[s] + i \in Undelivered(s)
         /\ \A i \in Undelivered(s) : i <= last[s] + Len(NewEntries(s)) =>
              /\ i - last[s] \in 1 .. Len(NewEntries(s))
              /\ log[s][i] = NewEntries(s)[i - last[s]]
  <1> DEFINE q == log[s]
             m == last[s]
             n == IF m + ReadCount < Len(q) THEN m + ReadCount ELSE Len(q)
  <1>1. q \in Seq(Commands) /\ Len(q) \in Nat /\ m \in 0 .. Len(q)
    BY DEF TypeOK
  <1>2. n \in m .. Len(q) /\ n \in Nat
    BY <1>1, ReadCountAssumption
  <1>3. NewEntries(s) = SubSeq(q, m + 1, n)
    BY DEF NewEntries
  <1> HIDE DEF q, m, n
  <1>4. /\ SubSeq(q, m + 1, n) \in Seq(Commands)
        /\ Len(SubSeq(q, m + 1, n)) = n - m
        /\ \A i \in 1 .. n - m : SubSeq(q, m + 1, n)[i] = q[m + i]
    <2>1. \A i \in m + 1 .. n : q[i] \in Commands
      BY <1>1, <1>2
    <2>2. m + 1 \in Int /\ n \in Int
      BY <1>1, <1>2
    <2> QED
      BY <1>1, <1>2, <2>1, <2>2, SubSeqProperties
  <1>5. \A i : i \in Undelivered(s) <=> i \in 1 .. Len(q) /\ m < i
    BY DEF Undelivered, q, m
  <1>6. /\ m + (n - m) \in 0 .. Len(q)
        /\ \A i \in 1 .. n - m : m + i \in 1 .. Len(q) /\ m < m + i
        /\ \A i \in 1 .. Len(q) : m < i /\ i <= m + (n - m) =>
             i - m \in 1 .. n - m /\ m + (i - m) = i
    BY <1>1, <1>2
  <1> QED
    BY <1>3, <1>4, <1>5, <1>6 DEF q, m

\* The new entries of a stream are commands of that stream, in their order.
LEMMA NewEntriesAreOrdered ==
  ASSUME TypeOK, StreamsAreOrdered, NEW s \in Streams, last[s] # NoGroup
  PROVE  /\ Ordered(NewEntries(s))
         /\ \A i \in 1 .. Len(NewEntries(s)) : sent[NewEntries(s)[i]].stream = s
  <1> DEFINE e == NewEntries(s)
  <1>1. \A i \in 1 .. Len(e) :
          /\ e[i] = log[s][last[s] + i]
          /\ last[s] + i \in 1 .. Len(log[s])
    BY NewEntriesOfAStream DEF Undelivered
  <1>2. last[s] \in Nat /\ Len(e) \in Nat
    <2>1. last[s] \in 0 .. Len(log[s]) /\ e \in Seq(Commands)
      BY NewEntriesOfAStream DEF TypeOK
    <2> QED
      BY <2>1
  <1> HIDE DEF e
  <1>3. \A i \in 1 .. Len(e) : e[i] <= Len(sent) /\ sent[e[i]].stream = s
    BY <1>1 DEF StreamsAreOrdered
  <1>4. ASSUME NEW i \in 1 .. Len(e), NEW j \in 1 .. i - 1
        PROVE  e[j] < e[i] /\ e[j] # e[i]
    <2>1. j \in 1 .. Len(e) /\ last[s] + j \in 1 .. (last[s] + i) - 1
      BY <1>2
    <2>2. log[s][last[s] + j] < log[s][last[s] + i]
      BY <1>1, <2>1 DEF StreamsAreOrdered
    <2>3. e[j] \in Commands /\ e[i] \in Commands
      BY <2>1, NewEntriesOfAStream DEF e
    <2>4. e[j] \in Int /\ e[i] \in Int
      BY <2>3, BoundsAssumption DEF Commands
    <2>5. e[j] < e[i]
      BY <1>1, <2>1, <2>2
    <2> QED
      BY <2>4, <2>5
  <1>5. Ordered(e)
    BY <1>3, <1>4 DEF Ordered
  <1> QED
    BY <1>3, <1>5 DEF e

\* Of two ordered sequences without a stream in common, one after the other.
LEMMA OrderedConcat ==
  ASSUME NEW p \in Seq(Commands), NEW q \in Seq(Commands), Ordered(p), Ordered(q),
         \A i \in 1 .. Len(p), j \in 1 .. Len(q) : sent[p[i]].stream # sent[q[j]].stream
  PROVE  Ordered(p \o q)
  <1> DEFINE r == p \o q
  <1>0. Len(p) \in Nat /\ Len(q) \in Nat
    OBVIOUS
  <1>1. /\ Len(r) = Len(p) + Len(q)
        /\ \A i \in 1 .. Len(p) : r[i] = p[i]
        /\ \A i \in 1 .. Len(r) :
             i > Len(p) => i - Len(p) \in 1 .. Len(q) /\ r[i] = q[i - Len(p)]
    BY ConcatElements
  <1> HIDE DEF r
  <1> SUFFICES ASSUME NEW i \in 1 .. Len(r)
               PROVE  /\ r[i] <= Len(sent)
                      /\ \A j \in 1 .. i - 1 :
                           /\ r[j] # r[i]
                           /\ sent[r[j]].stream = sent[r[i]].stream => r[j] < r[i]
    BY DEF Ordered, r
  <1>2. CASE i <= Len(p)
    <2>1. i \in 1 .. Len(p) /\ r[i] = p[i]
      BY <1>0, <1>1, <1>2
    <2>2. \A j \in 1 .. i - 1 : r[j] = p[j]
      BY <1>0, <1>1, <2>1
    <2> QED
      BY <2>1, <2>2 DEF Ordered
  <1>3. CASE i > Len(p)
    <2>1. i - Len(p) \in 1 .. Len(q) /\ r[i] = q[i - Len(p)]
      BY <1>1, <1>3
    <2>2. r[i] <= Len(sent)
      BY <2>1 DEF Ordered
    <2>3. ASSUME NEW j \in 1 .. i - 1
          PROVE  r[j] # r[i] /\ (sent[r[j]].stream = sent[r[i]].stream => r[j] < r[i])
      <3>1. CASE j <= Len(p)
        <4>1. j \in 1 .. Len(p) /\ r[j] = p[j]
          BY <1>0, <1>1, <3>1
        <4>2. sent[r[j]].stream # sent[r[i]].stream
          BY <2>1, <4>1
        <4> QED
          BY <4>2
      <3>2. CASE j > Len(p)
        <4>1. j \in 1 .. Len(r)
          BY <1>0, <1>1
        <4>2. r[j] = q[j - Len(p)] /\ j - Len(p) \in 1 .. (i - Len(p)) - 1
          BY <1>0, <1>1, <3>2, <4>1
        <4> QED
          BY <2>1, <4>2 DEF Ordered
      <3> QED
        BY <1>0, <3>1, <3>2
    <2> QED
      BY <2>2, <2>3
  <1> QED
    BY <1>0, <1>1, <1>2, <1>3

\* A reply holds the new entries of every stream, and only these; the commands
\* of a stream are in their order.
LEMMA DeliveryHoldsNewEntries ==
  ASSUME TypeOK, StreamsAreOrdered, \A s \in Streams : last[s] # NoGroup
  PROVE  /\ Delivery \in Seq(Commands)
         /\ Ordered(Delivery)
         /\ \A j \in 1 .. Len(Delivery) : \E s \in Streams :
              \E i \in 1 .. Len(NewEntries(s)) : Delivery[j] = NewEntries(s)[i]
         /\ \A s \in Streams : \A i \in 1 .. Len(NewEntries(s)) :
              \E j \in 1 .. Len(Delivery) : Delivery[j] = NewEntries(s)[i]
  <1> DEFINE L == Len(StreamOrder)
             New(k) == NewEntries(StreamOrder[k])
             seqs == [k \in 1 .. L |-> New(k)]
  <1>0. L \in Nat /\ Streams = {StreamOrder[k] : k \in 1 .. L}
        /\ \A j, k \in 1 .. L : StreamOrder[j] = StreamOrder[k] => j = k
    <2>1. DOMAIN StreamOrder = 1 .. L /\ L \in Nat
      BY StreamOrderAssumption
    <2> QED
      BY <2>1, StreamOrderAssumption DEF Streams, ToSet, Range
  <1>1. \A k \in 1 .. L :
          /\ New(k) \in Seq(Commands)
          /\ Ordered(New(k))
          /\ \A i \in 1 .. Len(New(k)) : sent[New(k)[i]].stream = StreamOrder[k]
    BY <1>0, NewEntriesOfAStream, NewEntriesAreOrdered
  <1>2. Delivery = FlattenSeq(seqs)
    BY DEF Delivery
  <1> HIDE DEF L, New
  <1>3. seqs \in Seq(Seq(Commands)) /\ Len(seqs) = L
    BY <1>0, <1>1
  <1>4. CASE L = 0
    <2>1. Delivery = seqs
      BY <1>2, <1>3, <1>4 DEF FlattenSeq
    <2>2. Len(Delivery) = 0 /\ Delivery = <<>>
      BY <1>3, <1>4, <2>1, EmptySeq
    <2>3. Streams = {}
      BY <1>0, <1>4
    <2> QED
      BY <2>2, <2>3 DEF Ordered
  <1>5. CASE L # 0
    <2>1. PICK f : /\ f[1] = seqs[1]
                   /\ \A k \in 1 .. L - 1 : f[k + 1] = f[k] \o seqs[k + 1]
                   /\ Delivery = f[L]
      BY <1>2, <1>3, <1>5, FlattenSteps
    <2>2. f[1] = New(1) /\ \A k \in 1 .. L - 1 : f[k + 1] = f[k] \o New(k + 1)
      <3>1. 1 \in 1 .. L /\ \A k \in 1 .. L - 1 : k + 1 \in 1 .. L
        BY <1>0, <1>5
      <3> QED
        BY <2>1, <3>1
    <2> HIDE DEF seqs
    <2> DEFINE From(c, k) == \E i \in 1 .. Len(New(k)) : c = New(k)[i]
               Holds(q, n) ==
                 /\ q \in Seq(Commands)
                 /\ Ordered(q)
                 /\ \A j \in 1 .. Len(q) : \E k \in 1 .. n : From(q[j], k)
                 /\ \A k \in 1 .. n : \A i \in 1 .. Len(New(k)) :
                      \E j \in 1 .. Len(q) : q[j] = New(k)[i]
               Good == {n \in Nat : n \in 1 .. L => Holds(f[n], n)}
    <2>3. Holds(f[1], 1)
      BY <1>0, <1>1, <1>5, <2>2
    <2>4. ASSUME NEW n \in 1 .. L - 1, Holds(f[n], n)
          PROVE  Holds(f[n + 1], n + 1)
      <3> DEFINE p == f[n]
                 q == New(n + 1)
      <3>0. n + 1 \in 1 .. L /\ n \in Nat
        BY <1>0
      <3>1. p \in Seq(Commands) /\ Ordered(p) /\ q \in Seq(Commands) /\ Ordered(q)
        BY <1>1, <2>4, <3>0
      <3>2. \A i \in 1 .. Len(p), j \in 1 .. Len(q) :
              sent[p[i]].stream # sent[q[j]].stream
        <4> SUFFICES ASSUME NEW i \in 1 .. Len(p), NEW j \in 1 .. Len(q)
                     PROVE  sent[p[i]].stream # sent[q[j]].stream
          OBVIOUS
        <4>1. PICK k \in 1 .. n : From(p[i], k)
          BY <2>4
        <4>2. k \in 1 .. L /\ k # n + 1
          BY <1>0, <3>0
        <4>3. sent[p[i]].stream = StreamOrder[k]
          BY <1>1, <4>1, <4>2
        <4>4. sent[q[j]].stream = StreamOrder[n + 1]
          BY <1>1, <3>0
        <4> QED
          BY <1>0, <3>0, <4>2, <4>3, <4>4
      <3> DEFINE pq == p \o q
      <3>3. /\ pq \in Seq(Commands)
            /\ Len(p) \in Nat /\ Len(q) \in Nat /\ Len(pq) = Len(p) + Len(q)
            /\ \A i \in 1 .. Len(p) : pq[i] = p[i]
            /\ \A i \in 1 .. Len(pq) :
                 i > Len(p) => i - Len(p) \in 1 .. Len(q) /\ pq[i] = q[i - Len(p)]
            /\ \A i \in 1 .. Len(q) : i + Len(p) \in 1 .. Len(pq)
                 /\ pq[i + Len(p)] = q[i]
        <4> HIDE DEF p, q
        <4> QED
          BY <3>1, ConcatElements
      <3>4. Ordered(pq)
        BY <3>1, <3>2, OrderedConcat
      <3>5. /\ \A j \in 1 .. Len(p) : \E k \in 1 .. n : From(p[j], k)
            /\ \A k \in 1 .. n : \A i \in 1 .. Len(New(k)) :
                 \E j \in 1 .. Len(p) : p[j] = New(k)[i]
        BY <2>4
      <3>6. q = New(n + 1) /\ f[n + 1] = pq
        BY <2>2
      <3> HIDE DEF p, q, pq
      <3>7. ASSUME NEW j \in 1 .. Len(pq)
            PROVE  \E k \in 1 .. n + 1 : From(pq[j], k)
        <4>1. CASE j <= Len(p)
          <5>1. j \in 1 .. Len(p) /\ pq[j] = p[j]
            BY <3>3, <4>1
          <5>2. PICK k \in 1 .. n : From(p[j], k)
            BY <3>5, <5>1
          <5>3. k \in 1 .. n + 1
            BY <3>0
          <5> QED
            BY <5>1, <5>2, <5>3
        <4>2. CASE j > Len(p)
          <5>1. j - Len(p) \in 1 .. Len(q) /\ pq[j] = q[j - Len(p)]
            BY <3>3, <4>2
          <5>2. From(pq[j], n + 1)
            BY <3>6, <5>1
          <5>3. n + 1 \in 1 .. n + 1
            BY <3>0
          <5> QED
            BY <5>2, <5>3
        <4> QED
          BY <3>3, <4>1, <4>2
      <3>8. ASSUME NEW k \in 1 .. n + 1, NEW i \in 1 .. Len(New(k))
            PROVE  \E j \in 1 .. Len(pq) : pq[j] = New(k)[i]
        <4>1. CASE k = n + 1
          <5>1. i \in 1 .. Len(q) /\ New(k)[i] = q[i]
            BY <3>6, <4>1
          <5> QED
            BY <3>3, <5>1
        <4>2. CASE k # n + 1
          <5>1. k \in 1 .. n
            BY <3>0, <4>2
          <5>2. PICK j \in 1 .. Len(p) : p[j] = New(k)[i]
            BY <3>5, <5>1
          <5>3. pq[j] = p[j] /\ j \in 1 .. Len(pq)
            BY <3>3
          <5> QED
            BY <5>2, <5>3
        <4> QED
          BY <4>1, <4>2
      <3>9. Holds(pq, n + 1)
        BY <3>3, <3>4, <3>7, <3>8
      <3> HIDE DEF Holds
      <3> QED
        BY <3>6, <3>9
    <2>5. Holds(f[L], L)
      <3> HIDE DEF Holds
      <3>1. 1 \in Good
        BY <2>3
      <3>2. \A n \in Good : n \in Nat => n + 1 \in Good
        <4> SUFFICES ASSUME NEW n \in Good, n + 1 \in 1 .. L
                     PROVE  Holds(f[n + 1], n + 1)
          OBVIOUS
        <4>1. CASE n = 0
          BY <2>3, <4>1
        <4>2. CASE n # 0
          <5>1. n \in 1 .. L - 1 /\ n \in 1 .. L
            BY <1>0, <4>2
          <5> QED
            BY <2>4, <5>1
        <4> QED
          BY <4>1, <4>2
      <3>3. L \in Good
        <4> HIDE DEF Good
        <4> QED
          BY <1>0, <1>5, <3>1, <3>2, Induction
      <3> QED
        BY <1>0, <1>5, <3>3
    <2>6. \A s \in Streams : \E k \in 1 .. L : NewEntries(s) = New(k)
      BY <1>0 DEF New
    <2>7. \A k \in 1 .. L : \E s \in Streams : NewEntries(s) = New(k)
      BY <1>0 DEF New
    <2>8. Holds(Delivery, L)
      <3> HIDE DEF Holds
      <3> QED
        BY <2>1, <2>5
    <2>9. ASSUME NEW j \in 1 .. Len(Delivery)
          PROVE  \E s \in Streams : \E i \in 1 .. Len(NewEntries(s)) :
                   Delivery[j] = NewEntries(s)[i]
      <3>1. PICK k \in 1 .. L : From(Delivery[j], k)
        BY <2>8
      <3>2. PICK s \in Streams : NewEntries(s) = New(k)
        BY <2>7
      <3> QED
        BY <3>1, <3>2
    <2>10. ASSUME NEW s \in Streams, NEW i \in 1 .. Len(NewEntries(s))
           PROVE  \E j \in 1 .. Len(Delivery) : Delivery[j] = NewEntries(s)[i]
      <3>1. PICK k \in 1 .. L : NewEntries(s) = New(k)
        BY <2>6
      <3>2. i \in 1 .. Len(New(k)) /\ NewEntries(s)[i] = New(k)[i]
        BY <3>1
      <3> QED
        BY <2>8, <3>2
    <2> QED
      BY <2>8, <2>9, <2>10
  <1> QED
    BY <1>4, <1>5

\* The same, of the streams: a reply takes what comes next, up to some position.
LEMMA DeliveryTakesTheNext ==
  ASSUME TypeOK, StreamsAreOrdered, \A s \in Streams : last[s] # NoGroup
  PROVE  /\ \A j \in 1 .. Len(Delivery) : \E s \in Streams :
              \E i \in Undelivered(s) :
                i <= last[s] + Len(NewEntries(s)) /\ Delivery[j] = log[s][i]
         /\ \A s \in Streams : \A i \in Undelivered(s) :
              i <= last[s] + Len(NewEntries(s)) =>
                \E j \in 1 .. Len(Delivery) : Delivery[j] = log[s][i]
  <1>1. ASSUME NEW j \in 1 .. Len(Delivery)
        PROVE  \E s \in Streams : \E i \in Undelivered(s) :
                 i <= last[s] + Len(NewEntries(s)) /\ Delivery[j] = log[s][i]
    <2>1. PICK s \in Streams : \E i \in 1 .. Len(NewEntries(s)) :
                                 Delivery[j] = NewEntries(s)[i]
      BY DeliveryHoldsNewEntries
    <2>2. PICK i \in 1 .. Len(NewEntries(s)) : Delivery[j] = NewEntries(s)[i]
      BY <2>1
    <2>3. last[s] + i \in Undelivered(s) /\ Delivery[j] = log[s][last[s] + i]
      BY <2>2, NewEntriesOfAStream
    <2>4. last[s] + i <= last[s] + Len(NewEntries(s))
      <3>1. last[s] \in Int /\ i \in Int /\ Len(NewEntries(s)) \in Int
        BY NewEntriesOfAStream DEF TypeOK, NoGroup
      <3> QED
        BY <3>1
    <2> QED
      BY <2>3, <2>4
  <1>2. ASSUME NEW s \in Streams, NEW i \in Undelivered(s),
               i <= last[s] + Len(NewEntries(s))
        PROVE  \E j \in 1 .. Len(Delivery) : Delivery[j] = log[s][i]
    <2>1. /\ i - last[s] \in 1 .. Len(NewEntries(s))
          /\ log[s][i] = NewEntries(s)[i - last[s]]
      BY <1>2, NewEntriesOfAStream
    <2> QED
      BY <2>1, DeliveryHoldsNewEntries
  <1> QED
    BY <1>1, <1>2

\* Redis after a delivery, read or lost on the way.
LEMMA DeliverKeepsRedis ==
  ASSUME TypeOK, StreamsAreOrdered, AckedMeansAnswered, Deliver,
         UNCHANGED <<sent, log, answered>>
  PROVE  /\ \A s \in Streams : last'[s] = last[s] + Len(NewEntries(s))
         /\ \A s \in Streams : last'[s] \in 0 .. Len(log[s])
         /\ \A s \in Streams : Undelivered(s)' =
              {i \in Undelivered(s) : i > last[s] + Len(NewEntries(s))}
         /\ pel' \subseteq Commands
         /\ AckedMeansAnswered'
  <1>0. \A s \in Streams : last[s] # NoGroup
    BY DEF Deliver
  <1>1. \A s \in Streams : last'[s] = last[s] + Len(NewEntries(s))
    BY DEF Deliver
  <1>2. \A s \in Streams :
          /\ last'[s] \in 0 .. Len(log[s])
          /\ last[s] \in 0 .. Len(log[s])
          /\ Len(NewEntries(s)) \in Nat
    BY <1>0, <1>1, NewEntriesOfAStream DEF TypeOK
  <1>3. \A s \in Streams : Undelivered(s)' =
          {i \in Undelivered(s) : i > last[s] + Len(NewEntries(s))}
    BY <1>1, <1>2 DEF Undelivered
  <1>4. pel' = pel \union ToSet(Delivery)
    BY DEF Deliver
  <1>5. ToSet(Delivery) \subseteq Commands
    <2>1. Delivery \in Seq(Commands)
      BY <1>0, DeliveryHoldsNewEntries
    <2>2. ASSUME NEW c \in ToSet(Delivery) PROVE c \in Commands
      <3>1. PICK j \in 1 .. Len(Delivery) : Delivery[j] = c
        BY <2>1, SetOf
      <3> QED
        BY <2>1, <3>1
    <2> QED
      BY <2>2
  <1>6. ASSUME NEW s \in Streams, NEW i \in 1 .. last'[s], WellFormed(log[s][i])
        PROVE  log[s][i] \in pel' \/ log[s][i] \in answered
    <2>1. CASE i <= last[s]
      <3>1. i \in 1 .. last[s]
        BY <1>2, <2>1
      <3> QED
        BY <1>4, <1>6, <3>1 DEF AckedMeansAnswered
    <2>2. CASE i > last[s]
      <3>1. i \in Undelivered(s) /\ i <= last[s] + Len(NewEntries(s))
        BY <1>1, <1>2, <2>2 DEF Undelivered
      <3>2. log[s][i] \in ToSet(Delivery)
        BY <1>0, <3>1, DeliveryHoldsNewEntries, DeliveryTakesTheNext, SetOf
      <3> QED
        BY <1>4, <3>2
    <2> QED
      BY <1>2, <2>1, <2>2
  <1>7. AckedMeansAnswered'
    BY <1>6 DEF AckedMeansAnswered, WellFormed
  <1> QED
    BY <1>1, <1>2, <1>3, <1>4, <1>5, <1>7 DEF TypeOK

-----------------------------------------------------------------------------
(* The invariant.                                                          *)

\* The entry the task works on.
LEMMA TheEntry ==
  ASSUME IInv, pc \in {"entry", "handling", "acking"}
  PROVE  /\ batch \in Seq(Commands) /\ batch # <<>>
         /\ 1 \in 1 .. Len(batch)
         /\ Head(batch) = batch[1]
         /\ Head(batch) \in Commands
         /\ Head(batch) <= Len(sent)
  <1>1. batch \in Seq(Commands) /\ batch # <<>>
    BY DEF IInv, TypeOK, WorksOnBatch
  <1>2. 1 \in 1 .. Len(batch) /\ Head(batch) = batch[1]
    BY <1>1, HeadAndTail
  <1> QED
    BY <1>1, <1>2 DEF IInv, Ordered

\* A command is on one stream only, at one position.
LEMMA OnePlace ==
  ASSUME IInv, NEW s \in Streams, NEW i \in 1 .. Len(log[s]),
         NEW t \in Streams, NEW k \in 1 .. Len(log[t]), log[s][i] = log[t][k]
  PROVE  s = t /\ i = k
  <1>0. StreamsAreOrdered
    BY DEF IInv
  <1>1. s = t
    BY <1>0 DEF StreamsAreOrdered
  <1>2. log[s] \in Seq(Commands) /\ Len(log[s]) \in Nat
    BY DEF IInv, TypeOK
  <1>3. log[s][i] \in Int /\ log[s][k] \in Int
    <2>1. log[s][i] \in Commands /\ log[s][k] \in Commands
      BY <1>1, <1>2
    <2>2. Commands \subseteq Int
      BY BoundsAssumption DEF Commands
    <2> QED
      BY <2>1, <2>2
  <1>4. CASE i < k
    <2>1. i \in 1 .. k - 1
      BY <1>4
    <2> QED
      BY <1>0, <1>1, <1>3, <2>1 DEF StreamsAreOrdered
  <1>5. CASE k < i
    <2>1. k \in 1 .. i - 1
      BY <1>5
    <2> QED
      BY <1>0, <1>1, <1>3, <2>1 DEF StreamsAreOrdered
  <1> QED
    BY <1>1, <1>2, <1>4, <1>5

\* What the task has read is not waiting on a stream any more.
LEMMA BatchIsOffStream ==
  ASSUME IInv, NEW j \in 1 .. Len(batch), NEW s \in Streams, NEW i \in Undelivered(s)
  PROVE  batch[j] # log[s][i]
  <1>1. i \in 1 .. Len(log[s]) /\ log[s] \in Seq(Commands) /\ batch \in Seq(Commands)
    BY DEF Undelivered, IInv, TypeOK
  <1>2. log[s][i] \in Int /\ sent[log[s][i]].stream = s
    <2>1. log[s][i] \in Commands
      BY <1>1
    <2>2. Commands \subseteq Int
      BY BoundsAssumption DEF Commands
    <2>3. StreamsAreOrdered
      BY DEF IInv
    <2>4. sent[log[s][i]].stream = s
      BY <1>1, <2>3 DEF StreamsAreOrdered
    <2> QED
      BY <2>1, <2>2, <2>4
  <1>3. batch[j] = log[s][i] => batch[j] < log[s][i]
    BY <1>2 DEF IInv, BatchComesFirst
  <1> QED
    BY <1>2, <1>3

LEMMA InitInvariant == Init => IInv
  <1> SUFFICES ASSUME Init PROVE IInv
    OBVIOUS
  <1> USE DEF Init
  <1>1. TypeOK /\ Len(sent) <= MaxCommands
    BY BoundsAssumption DEF TypeOK
  <1>2. \A s \in Streams : log[s] = <<>> /\ Len(log[s]) = 0 /\ last[s] = -1
    BY DEF NoGroup
  <1>3. Len(batch) = 0
    OBVIOUS
  <1>4. StreamsAreOrdered /\ AckedMeansAnswered
    BY <1>2 DEF StreamsAreOrdered, AckedMeansAnswered
  <1>5. \A s \in Streams : Undelivered(s) = {}
    BY <1>2 DEF Undelivered
  <1>6. Ordered(batch) /\ BatchComesFirst /\ AnsweredInTurn /\ WorksOnBatch
    BY <1>3, <1>5 DEF Ordered, BatchComesFirst, AnsweredInTurn, WorksOnBatch
  <1> QED
    BY <1>1, <1>4, <1>6 DEF IInv

\* A command is sent: the youngest of all, at the end of its stream.
LEMMA SendFacts ==
  ASSUME IInv, NEW s \in Streams, NEW o \in Ops, Send(s, o)
  PROVE  /\ sent' \in Seq([stream : Streams, op : Ops])
         /\ Len(sent') = Len(sent) + 1 /\ Len(sent') \in Commands
         /\ \A c \in 1 .. Len(sent) : sent'[c] = sent[c]
         /\ sent'[Len(sent')].stream = s
         /\ \A t \in Streams : t # s => log'[t] = log[t]
         /\ log'[s] \in Seq(Commands)
         /\ Len(log'[s]) = Len(log[s]) + 1
         /\ \A i \in 1 .. Len(log[s]) : log'[s][i] = log[s][i]
         /\ log'[s][Len(log[s]) + 1] = Len(sent')
         /\ log' \in [Streams -> Seq(Commands)]
  <1> DEFINE e == [stream |-> s, op |-> o]
             n == Len(sent')
  <1>1. sent \in Seq([stream : Streams, op : Ops]) /\ e \in [stream : Streams, op : Ops]
    BY DEF IInv, TypeOK
  <1>2. sent' = Append(sent, e) /\ log' = [log EXCEPT ![s] = Append(@, n)]
    BY DEF Send
  <1>3. /\ sent' \in Seq([stream : Streams, op : Ops])
        /\ Len(sent') = Len(sent) + 1
        /\ \A c \in 1 .. Len(sent) : sent'[c] = sent[c]
        /\ sent'[Len(sent) + 1] = e
    BY <1>1, <1>2, AppendProperties
  <1>4. Len(sent') \in Commands
    <2>1. Len(sent) \in Nat /\ Len(sent) < MaxCommands
      BY <1>1 DEF Send
    <2> QED
      BY <1>3, <2>1, BoundsAssumption DEF Commands
  <1>5. log \in [Streams -> Seq(Commands)]
    BY DEF IInv, TypeOK
  <1>6. log'[s] = Append(log[s], n) /\ \A t \in Streams : t # s => log'[t] = log[t]
    BY <1>2, <1>5
  <1> HIDE DEF n
  <1>7. /\ Append(log[s], n) \in Seq(Commands)
        /\ Len(Append(log[s], n)) = Len(log[s]) + 1
        /\ \A i \in 1 .. Len(log[s]) : Append(log[s], n)[i] = log[s][i]
        /\ Append(log[s], n)[Len(log[s]) + 1] = n
    <2>1. log[s] \in Seq(Commands) /\ n \in Commands
      BY <1>4, <1>5 DEF n
    <2> QED
      BY <2>1, AppendProperties
  <1>8. log' \in [Streams -> Seq(Commands)]
    BY <1>2, <1>5, <1>7
  <1> QED
    BY <1>3, <1>4, <1>6, <1>7, <1>8 DEF n

\* After a Send, each entry is an old one of a command sent before, or the new.
LEMMA SendPlaces ==
  ASSUME IInv, NEW s \in Streams, NEW o \in Ops, Send(s, o), NEW t \in Streams,
         NEW i \in 1 .. Len(log'[t])
  PROVE  \/ /\ i \in 1 .. Len(log[t]) /\ log'[t][i] = log[t][i]
            /\ log[t][i] \in 1 .. Len(sent)
            /\ sent'[log[t][i]] = sent[log[t][i]]
         \/ /\ t = s /\ i = Len(log[s]) + 1 /\ log'[t][i] = Len(sent')
  <1>1. log[t] \in Seq(Commands) /\ Len(log[t]) \in Nat
    BY DEF IInv, TypeOK
  <1>2. CASE i \in 1 .. Len(log[t])
    <2>1. log'[t][i] = log[t][i]
      BY <1>2, SendFacts
    <2>2. log[t][i] \in 1 .. Len(sent)
      BY <1>1, <1>2, BoundsAssumption DEF Commands, IInv, StreamsAreOrdered
    <2> QED
      BY <1>2, <2>1, <2>2, SendFacts
  <1>3. CASE i \notin 1 .. Len(log[t])
    <2>1. t = s
      BY <1>3, SendFacts
    <2>2. Len(log'[s]) = Len(log[s]) + 1
      BY SendFacts
    <2>3. i = Len(log[s]) + 1
      BY <1>1, <1>3, <2>1, <2>2
    <2> QED
      BY <2>1, <2>3, SendFacts
  <1> QED
    BY <1>2, <1>3

LEMMA SendInvariant ==
  ASSUME IInv, NEW s \in Streams, NEW o \in Ops, Send(s, o)
  PROVE  IInv'
  <1>0. /\ Len(sent) \in Nat /\ Len(sent') = Len(sent) + 1
        /\ UNCHANGED <<last, pel, answered, redisUp, pc, batch, started, failures>>
    BY SendFacts DEF Send, IInv, TypeOK
  <1>1. \A t \in Streams : Len(log[t]) \in Nat /\ Len(log[t]) <= Len(log'[t])
          /\ log[t] \in Seq(Commands) /\ last[t] \in Int /\ last[t] <= Len(log[t])
    <2> SUFFICES ASSUME NEW t \in Streams
                 PROVE  Len(log[t]) \in Nat /\ Len(log[t]) <= Len(log'[t])
                        /\ log[t] \in Seq(Commands) /\ last[t] \in Int
                        /\ last[t] <= Len(log[t])
      OBVIOUS
    <2>1. log[t] \in Seq(Commands) /\ Len(log[t]) \in Nat
          /\ last[t] \in {NoGroup} \union 0 .. Len(log[t])
      BY DEF IInv, TypeOK
    <2>2. Len(log'[t]) = Len(log[t]) \/ Len(log'[t]) = Len(log[t]) + 1
      BY SendFacts
    <2> QED
      BY <2>1, <2>2 DEF NoGroup
  <1>2. TypeOK'
    <2>1. \A t \in Streams : last'[t] \in {NoGroup} \union 0 .. Len(log'[t])
      <3> SUFFICES ASSUME NEW t \in Streams, last[t] # NoGroup
                   PROVE  last[t] \in 0 .. Len(log'[t])
        BY <1>0
      <3>1. last[t] \in 0 .. Len(log[t])
        BY DEF IInv, TypeOK
      <3>2. Len(log'[t]) \in Nat
        BY SendFacts
      <3> QED
        BY <1>1, <3>1, <3>2
    <2> QED
      BY <1>0, <2>1, SendFacts DEF IInv, TypeOK
  <1>3. Len(sent') <= MaxCommands
    BY SendFacts, BoundsAssumption DEF Commands
  <1>4. StreamsAreOrdered'
    <2> SUFFICES ASSUME NEW t \in Streams, NEW i \in 1 .. Len(log'[t])
                 PROVE  /\ log'[t][i] <= Len(sent')
                        /\ sent'[log'[t][i]].stream = t
                        /\ \A j \in 1 .. i - 1 : log'[t][j] < log'[t][i]
      BY DEF StreamsAreOrdered
    <2>1. CASE /\ i \in 1 .. Len(log[t]) /\ log'[t][i] = log[t][i]
               /\ log[t][i] \in 1 .. Len(sent)
               /\ sent'[log[t][i]] = sent[log[t][i]]
      <3>1. \A j \in 1 .. Len(log[t]) : log'[t][j] = log[t][j]
        BY SendFacts
      <3>2. \A j \in 1 .. i - 1 : j \in 1 .. Len(log[t])
        BY <1>1, <2>1
      <3>3. /\ log[t][i] <= Len(sent')
            /\ sent[log[t][i]].stream = t
            /\ \A j \in 1 .. i - 1 : log[t][j] < log[t][i]
        BY <1>0, <2>1 DEF IInv, StreamsAreOrdered
      <3> QED
        BY <2>1, <3>1, <3>2, <3>3
    <2>2. CASE t = s /\ i = Len(log[s]) + 1 /\ log'[t][i] = Len(sent')
      <3>1. sent'[log'[t][i]].stream = t
        BY <2>2, SendFacts
      <3>2. \A j \in 1 .. i - 1 : log'[t][j] < log'[t][i]
        <4> SUFFICES ASSUME NEW j \in 1 .. i - 1 PROVE log'[t][j] < log'[t][i]
          OBVIOUS
        <4>1. j \in 1 .. Len(log[t]) /\ log'[t][j] = log[t][j]
          BY <1>1, <2>2, SendFacts
        <4>2. log[t][j] <= Len(sent) /\ log[t][j] \in Int
          BY <1>1, <4>1, BoundsAssumption DEF IInv, StreamsAreOrdered, Commands
        <4> QED
          BY <1>0, <2>2, <4>1, <4>2
      <3> QED
        BY <1>0, <2>2, <3>1, <3>2
    <2> QED
      BY <2>1, <2>2, SendPlaces
  <1>5. \A j \in 1 .. Len(batch) :
          /\ batch[j] \in 1 .. Len(sent)
          /\ sent'[batch[j]] = sent[batch[j]]
    <2> SUFFICES ASSUME NEW j \in 1 .. Len(batch)
                 PROVE  batch[j] \in 1 .. Len(sent) /\ sent'[batch[j]] = sent[batch[j]]
      OBVIOUS
    <2>1. batch[j] \in Commands /\ batch[j] <= Len(sent)
      BY DEF IInv, TypeOK, Ordered
    <2>2. batch[j] \in 1 .. Len(sent)
      BY <1>0, <2>1, BoundsAssumption DEF Commands
    <2> QED
      BY <2>2, SendFacts
  <1>6. Ordered(batch)'
    <2> SUFFICES ASSUME NEW i \in 1 .. Len(batch)
                 PROVE  /\ batch[i] <= Len(sent')
                        /\ \A j \in 1 .. i - 1 :
                             /\ batch[j] # batch[i]
                             /\ sent'[batch[j]].stream = sent'[batch[i]].stream =>
                                  batch[j] < batch[i]
      BY <1>0 DEF Ordered
    <2>1. \A j \in 1 .. i - 1 : j \in 1 .. Len(batch)
      BY DEF IInv, TypeOK
    <2>2. /\ batch[i] <= Len(sent)
          /\ \A j \in 1 .. i - 1 :
               /\ batch[j] # batch[i]
               /\ sent[batch[j]].stream = sent[batch[i]].stream =>
                    batch[j] < batch[i]
      BY DEF IInv, Ordered
    <2>3. batch[i] <= Len(sent')
      BY <1>0, <1>5, <2>2
    <2>4. /\ sent'[batch[i]] = sent[batch[i]]
          /\ \A j \in 1 .. i - 1 : sent'[batch[j]] = sent[batch[j]]
      BY <1>5, <2>1
    <2> QED
      BY <2>2, <2>3, <2>4
  <1>7. ASSUME NEW t \in Streams, NEW i \in Undelivered(t)'
        PROVE  \/ i \in Undelivered(t) /\ log'[t][i] = log[t][i]
               \/ log'[t][i] = Len(sent')
    <2>1. i \in 1 .. Len(log'[t]) /\ last[t] < i
      BY <1>0 DEF Undelivered
    <2> QED
      BY <2>1, SendPlaces DEF Undelivered
  <1>8. BatchComesFirst'
    <2> SUFFICES ASSUME NEW t \in Streams, NEW i \in Undelivered(t)',
                        NEW j \in 1 .. Len(batch), sent'[batch[j]].stream = t
                 PROVE  batch[j] < log'[t][i]
      BY <1>0 DEF BatchComesFirst
    <2>1. CASE i \in Undelivered(t) /\ log'[t][i] = log[t][i]
      BY <1>5, <2>1 DEF IInv, BatchComesFirst
    <2>2. CASE log'[t][i] = Len(sent')
      BY <1>0, <1>5, <2>2
    <2> QED
      BY <1>7, <2>1, <2>2
  <1>9. \A c \in answered : c <= Len(sent) /\ c <= Len(sent') /\ c # Len(sent')
    <2> SUFFICES ASSUME NEW c \in answered PROVE c <= Len(sent) /\ c \in Int
      BY <1>0
    <2> QED
      BY BoundsAssumption DEF IInv, AnsweredInTurn, TypeOK, Commands
  <1>10. AnsweredInTurn'
    <2>1. \A t \in Streams : \A i \in Undelivered(t)' : log'[t][i] \notin answered
      BY <1>7, <1>9 DEF IInv, AnsweredInTurn
    <2>2. pc = "acking" /\ WellFormed(Head(batch))' => Head(batch) \in answered
      <3> SUFFICES ASSUME pc = "acking" PROVE WellFormed(Head(batch))' <=> WellFormed(Head(batch))
        BY DEF IInv, AnsweredInTurn
      <3>1. sent'[Head(batch)] = sent[Head(batch)]
        BY <1>5, TheEntry
      <3> QED
        BY <1>0, <3>1 DEF WellFormed
    <2> QED
      BY <1>0, <1>9, <2>1, <2>2 DEF IInv, AnsweredInTurn
  <1>11. WorksOnBatch'
    BY <1>0 DEF IInv, WorksOnBatch
  <1>12. AckedMeansAnswered'
    <2> SUFFICES ASSUME NEW t \in Streams, NEW i \in 1 .. last[t], WellFormed(log[t][i])'
                 PROVE  /\ log'[t][i] = log[t][i]
                        /\ log[t][i] \in pel \/ log[t][i] \in answered
      <3> SUFFICES ASSUME NEW t \in Streams, NEW i \in 1 .. last[t]
                   PROVE  log'[t][i] = log[t][i]
        BY <1>0 DEF AckedMeansAnswered, WellFormed
      <3>1. i \in 1 .. Len(log[t])
        BY <1>1
      <3> QED
        BY <3>1, SendFacts
    <2>1. i \in 1 .. Len(log[t])
      BY <1>1
    <2>2. log'[t][i] = log[t][i]
      BY <2>1, SendFacts
    <2>3. log[t][i] \in 1 .. Len(sent)
      BY <1>0, <1>1, <2>1, BoundsAssumption
      DEF IInv, StreamsAreOrdered, Commands
    <2>4. WellFormed(log[t][i])
      BY <2>2, <2>3, SendFacts DEF WellFormed
    <2> QED
      BY <2>2, <2>4 DEF IInv, AckedMeansAnswered
  <1> QED
    BY <1>2, <1>3, <1>4, <1>6, <1>8, <1>10, <1>11, <1>12 DEF IInv

\* What the invariant says of Redis, and of the task and Redis together.
RedisInv == Len(sent) <= MaxCommands /\ StreamsAreOrdered /\ AckedMeansAnswered
TaskInv == Ordered(batch) /\ BatchComesFirst /\ AnsweredInTurn /\ WorksOnBatch

\* The entries in the task's hands are lost; Redis may have lost entries, too.
LEMMA LoseBatch ==
  ASSUME IInv, batch' = <<>>, pc' \in {"grouping", "dead"},
         UNCHANGED <<sent, answered>>,
         \A s \in Streams : \A i \in Undelivered(s)' :
            i \in Undelivered(s) /\ log'[s][i] = log[s][i]
  PROVE  TaskInv'
  <1>1. Len(batch') = 0
    OBVIOUS
  <1> QED
    BY <1>1
    DEF TaskInv, IInv, Ordered, BatchComesFirst, AnsweredInTurn, WorksOnBatch

\* The entries in the task's hands stay; Redis may have lost entries.
LEMMA KeepBatch ==
  ASSUME IInv, UNCHANGED <<sent, answered, batch, pc>>,
         \A s \in Streams : \A i \in Undelivered(s)' :
            i \in Undelivered(s) /\ log'[s][i] = log[s][i]
  PROVE  TaskInv'
  BY DEF TaskInv, IInv, Ordered, BatchComesFirst, AnsweredInTurn, WorksOnBatch,
         WellFormed

\* What a step that leaves the streams alone keeps.
LEMMA SameRedis ==
  ASSUME IInv, UNCHANGED <<sent, log, last>>
  PROVE  /\ \A s \in Streams : Undelivered(s)' = Undelivered(s)
         /\ \A s \in Streams : \A i \in Undelivered(s)' :
              i \in Undelivered(s) /\ log'[s][i] = log[s][i]
         /\ StreamsAreOrdered' /\ Len(sent') <= MaxCommands
         /\ answered \subseteq answered' /\ pel \subseteq pel' => AckedMeansAnswered'
  BY DEF Undelivered, IInv, StreamsAreOrdered, AckedMeansAnswered, WellFormed

\* A Redis that restarts empty has nothing undelivered, ordered or pending.
LEMMA WipeFacts ==
  ASSUME Wipe
  PROVE  /\ \A s \in Streams : log'[s] = <<>> /\ Len(log'[s]) = 0 /\ last'[s] = NoGroup
         /\ log' \in [Streams -> Seq(Commands)]
         /\ \A s \in Streams : Undelivered(s)' = {}
         /\ StreamsAreOrdered' /\ AckedMeansAnswered'
  <1>1. \A s \in Streams : log'[s] = <<>> /\ Len(log'[s]) = 0 /\ last'[s] = NoGroup
    BY DEF Wipe
  <1>2. log' \in [Streams -> Seq(Commands)]
    BY DEF Wipe
  <1>3. \A s \in Streams : 1 .. last'[s] = {}
    BY <1>1 DEF NoGroup
  <1> QED
    BY <1>1, <1>2, <1>3 DEF Undelivered, StreamsAreOrdered, AckedMeansAnswered

\* Losing the contents of Redis breaks nothing: the batch in memory stays.
LEMMA WipeInvariant ==
  ASSUME IInv, Wipe, UNCHANGED <<sent, answered, pc, batch, started>>,
         redisUp' \in BOOLEAN, failures' \in 0 .. MaxFailures
  PROVE  IInv'
  <1>1. pel' \subseteq Commands
    BY DEF Wipe
  <1>2. TypeOK'
    BY <1>1, WipeFacts DEF IInv, TypeOK
  <1>3. TaskInv'
    BY WipeFacts, KeepBatch
  <1> QED
    BY <1>2, <1>3, WipeFacts DEF IInv, TaskInv

LEMMA FailType ==
  ASSUME IInv, Fail
  PROVE  failures' \in 0 .. MaxFailures
  BY BoundsAssumption DEF Fail, IInv, TypeOK

\* Failures.
LEMMA FailureInvariant ==
  ASSUME IInv, Crash \/ RedisRestart \/ RedisDown \/ RedisBack
  PROVE  IInv'
  <1>1. CASE Crash
    <2>1. TypeOK'
      BY <1>1, FailType DEF Crash, IInv, TypeOK, redisVars
    <2>2. TaskInv'
      BY <1>1, SameRedis, LoseBatch DEF Crash, redisVars
    <2> QED
      BY <1>1, <2>1, <2>2, SameRedis DEF Crash, IInv, TaskInv, redisVars
  <1>2. CASE RedisRestart
    BY <1>2, FailType, WipeInvariant DEF RedisRestart, IInv, TypeOK
  <1>3. CASE RedisDown \/ (RedisBack /\ UNCHANGED redisVars)
    <2>1. UNCHANGED <<sent, redisVars, answered, pc, batch, started>>
          /\ redisUp' \in BOOLEAN /\ failures' \in 0 .. MaxFailures
      BY <1>3, FailType DEF RedisDown, RedisBack, IInv, TypeOK
    <2>2. TypeOK'
      BY <2>1 DEF IInv, TypeOK, redisVars
    <2>3. TaskInv'
      BY <2>1, SameRedis, KeepBatch DEF redisVars
    <2> QED
      BY <2>1, <2>2, <2>3, SameRedis DEF IInv, TaskInv, redisVars
  <1>4. CASE RedisBack /\ Wipe
    BY <1>4, WipeInvariant DEF RedisBack, IInv, TypeOK
  <1> QED
    BY <1>1, <1>2, <1>3, <1>4 DEF RedisBack

LEMMA EnsureGroupsInvariant ==
  ASSUME IInv, EnsureGroups
  PROVE  IInv'
  <1>1. CASE redisUp /\ last' = [s \in Streams |-> GroupFrom(s)]
             /\ pc' = "reading" /\ UNCHANGED batch
    <2>0. UNCHANGED <<sent, log, pel, answered, redisUp, started, failures>>
          /\ pc = "grouping"
      BY DEF EnsureGroups
    <2>1. \A s \in Streams :
            /\ last'[s] \in 0 .. Len(log[s])
            /\ Undelivered(s)' = Undelivered(s)
            /\ 1 .. last'[s] \subseteq 1 .. last[s]
      <3> SUFFICES ASSUME NEW s \in Streams
                   PROVE  /\ last'[s] \in 0 .. Len(log[s])
                          /\ Undelivered(s)' = Undelivered(s)
                          /\ 1 .. last'[s] \subseteq 1 .. last[s]
        OBVIOUS
      <3>1. Len(log[s]) \in Nat /\ last[s] \in {-1} \union 0 .. Len(log[s])
        BY DEF IInv, TypeOK, NoGroup
      <3>2. last'[s] = IF last[s] = -1 THEN 0 ELSE last[s]
        BY <1>1 DEF GroupFrom, NoGroup
      <3> QED
        BY <2>0, <3>1, <3>2 DEF Undelivered
    <2>2. TypeOK'
      BY <1>1, <2>0, <2>1 DEF IInv, TypeOK
    <2>3. StreamsAreOrdered'
      BY <2>0 DEF IInv, StreamsAreOrdered
    <2>4. AckedMeansAnswered'
      BY <2>0, <2>1 DEF IInv, AckedMeansAnswered, WellFormed
    <2>5. Ordered(batch)' /\ BatchComesFirst' /\ AnsweredInTurn' /\ WorksOnBatch'
      BY <1>1, <2>0, <2>1
      DEF IInv, Ordered, BatchComesFirst, AnsweredInTurn, WorksOnBatch
    <2> QED
      BY <2>0, <2>2, <2>3, <2>4, <2>5 DEF IInv
  <1>2. CASE Die /\ UNCHANGED last
    <2>1. UNCHANGED <<sent, log, last, pel, answered, redisUp, started, failures>>
          /\ batch' = <<>> /\ pc' = "dead"
      BY <1>2 DEF EnsureGroups, Die
    <2>2. TypeOK'
      BY <2>1 DEF IInv, TypeOK
    <2>3. TaskInv'
      BY <2>1, SameRedis, LoseBatch
    <2> QED
      BY <2>1, <2>2, <2>3, SameRedis DEF IInv, TaskInv
  <1> QED
    BY <1>1, <1>2 DEF EnsureGroups

LEMMA ReadNoGroupInvariant ==
  ASSUME IInv, ReadNoGroup
  PROVE  IInv'
  <1>1. UNCHANGED <<sent, log, last, pel, answered, redisUp, batch, started, failures>>
        /\ pc = "reading" /\ pc' = "grouping"
    BY DEF ReadNoGroup, redisVars
  <1>2. TypeOK'
    BY <1>1 DEF IInv, TypeOK
  <1>3. batch = <<>>
    BY <1>1 DEF IInv, WorksOnBatch
  <1>4. TaskInv'
    BY <1>1, <1>3, SameRedis, LoseBatch
  <1> QED
    BY <1>1, <1>2, <1>4, SameRedis DEF IInv, TaskInv

LEMMA ReadInvariant ==
  ASSUME IInv, Read
  PROVE  IInv'
  <1>0. /\ Deliver /\ batch' = Delivery /\ pc' = "entry" /\ pc = "reading"
        /\ UNCHANGED <<sent, log, answered, redisUp, started, failures>>
        /\ \A s \in Streams : last[s] # NoGroup
        /\ Delivery # <<>>
    BY DEF Read, Deliver
  <1>1. TypeOK /\ StreamsAreOrdered /\ AckedMeansAnswered
    BY DEF IInv
  <1>2. /\ \A s \in Streams : last'[s] \in 0 .. Len(log[s])
        /\ \A s \in Streams : Undelivered(s)' =
             {i \in Undelivered(s) : i > last[s] + Len(NewEntries(s))}
        /\ pel' \subseteq Commands
        /\ AckedMeansAnswered'
    BY <1>0, <1>1, DeliverKeepsRedis
  <1>3. /\ Delivery \in Seq(Commands) /\ Ordered(Delivery)
        /\ \A j \in 1 .. Len(Delivery) : \E s \in Streams : \E i \in Undelivered(s) :
             i <= last[s] + Len(NewEntries(s)) /\ Delivery[j] = log[s][i]
    BY <1>0, <1>1, DeliveryHoldsNewEntries, DeliveryTakesTheNext
  <1>4. TypeOK'
    BY <1>0, <1>2, <1>3 DEF IInv, TypeOK
  <1>5. StreamsAreOrdered'
    BY <1>0, <1>1 DEF StreamsAreOrdered
  <1>6. Ordered(batch)'
    BY <1>0, <1>3 DEF Ordered
  <1>7. BatchComesFirst'
    <2> SUFFICES ASSUME NEW s \in Streams, NEW i \in Undelivered(s)',
                        NEW j \in 1 .. Len(Delivery), sent[Delivery[j]].stream = s
                 PROVE  Delivery[j] < log[s][i]
      BY <1>0 DEF BatchComesFirst
    <2>0. PICK t \in Streams : \E k \in Undelivered(t) :
            k <= last[t] + Len(NewEntries(t)) /\ Delivery[j] = log[t][k]
      BY <1>3
    <2>1. PICK k \in Undelivered(t) :
            k <= last[t] + Len(NewEntries(t)) /\ Delivery[j] = log[t][k]
      BY <2>0
    <2>2. t = s
      BY <1>1, <2>1 DEF Undelivered, StreamsAreOrdered
    <2>3. i \in Undelivered(s) /\ i > last[s] + Len(NewEntries(s))
      BY <1>2
    <2>4. k \in 1 .. i - 1 /\ i \in 1 .. Len(log[s])
      <3>1. last[s] \in Int /\ Len(NewEntries(s)) \in Int
        BY <1>0, <1>1, NewEntriesOfAStream DEF TypeOK, NoGroup
      <3> QED
        BY <2>1, <2>2, <2>3, <3>1 DEF Undelivered
    <2> QED
      BY <1>1, <2>1, <2>2, <2>4 DEF StreamsAreOrdered
  <1>8. \A j \in 1 .. Len(Delivery) : Delivery[j] \notin answered
    BY <1>3 DEF IInv, AnsweredInTurn
  <1>9. AnsweredInTurn'
    <2>1. Head(Delivery) = Delivery[1] /\ 1 \in 1 .. Len(Delivery)
      BY <1>0, <1>3, HeadAndTail
    <2>2. \A s \in Streams : \A i \in Undelivered(s)' : log[s][i] \notin answered
      BY <1>2 DEF IInv, AnsweredInTurn
    <2>3. \A j \in 2 .. Len(Delivery) : j \in 1 .. Len(Delivery)
      OBVIOUS
    <2> QED
      BY <1>0, <1>8, <2>1, <2>2, <2>3 DEF IInv, AnsweredInTurn
  <1>10. WorksOnBatch'
    BY <1>0 DEF WorksOnBatch
  <1> QED
    BY <1>0, <1>2, <1>4, <1>5, <1>6, <1>7, <1>9, <1>10 DEF IInv

LEMMA ReadLostInvariant ==
  ASSUME IInv, ReadLost
  PROVE  IInv'
  <1>0. /\ Deliver /\ UNCHANGED <<sent, log, answered, redisUp, pc, batch, started>>
    BY DEF ReadLost
  <1>1. TypeOK /\ StreamsAreOrdered /\ AckedMeansAnswered
    BY DEF IInv
  <1>2. /\ \A s \in Streams : last'[s] \in 0 .. Len(log[s])
        /\ \A s \in Streams : Undelivered(s)' \subseteq Undelivered(s)
        /\ pel' \subseteq Commands
        /\ AckedMeansAnswered'
    BY <1>0, <1>1, DeliverKeepsRedis
  <1>3. TypeOK'
    BY <1>0, <1>2, FailType DEF ReadLost, IInv, TypeOK
  <1>4. StreamsAreOrdered'
    BY <1>0, <1>1 DEF StreamsAreOrdered
  <1>5. TaskInv'
    BY <1>0, <1>2, KeepBatch
  <1> QED
    BY <1>0, <1>2, <1>3, <1>4, <1>5 DEF IInv, TaskInv

\* The task gets from one entry to the next.
LEMMA AnswerInvariant ==
  ASSUME IInv, pc \in {"entry", "handling"}, Answer(Head(batch)),
         UNCHANGED <<sent, redisVars, redisUp, started, failures>>
  PROVE  IInv'
  <1> USE DEF redisVars
  <1>0. /\ Head(batch) \in Commands /\ Head(batch) = batch[1]
        /\ 1 \in 1 .. Len(batch) /\ Head(batch) <= Len(sent)
        /\ batch \in Seq(Commands)
    BY TheEntry
  <1>1. CASE answered' = answered \union {Head(batch)} /\ pc' = "acking"
             /\ UNCHANGED batch
    <2>1. TypeOK'
      BY <1>0, <1>1 DEF IInv, TypeOK
    <2>2. Ordered(batch)' /\ BatchComesFirst' /\ WorksOnBatch'
      BY <1>1 DEF IInv, Ordered, BatchComesFirst, Undelivered, WorksOnBatch
    <2>3. \A j \in 2 .. Len(batch) : batch[j] # Head(batch)
      <3> SUFFICES ASSUME NEW j \in 2 .. Len(batch) PROVE batch[j] # batch[1]
        BY <1>0
      <3>1. j \in 1 .. Len(batch) /\ 1 \in 1 .. j - 1
        BY <1>0
      <3> QED
        BY <3>1 DEF IInv, Ordered
    <2>4. \A s \in Streams : \A i \in Undelivered(s) : log[s][i] # Head(batch)
      BY <1>0, BatchIsOffStream
    <2>5. AnsweredInTurn'
      BY <1>0, <1>1, <2>3, <2>4, SameRedis DEF IInv, AnsweredInTurn
    <2> QED
      BY <1>1, <2>1, <2>2, <2>5, SameRedis DEF IInv
  <1>2. CASE Die /\ UNCHANGED answered
    <2>1. TypeOK'
      BY <1>2 DEF Die, IInv, TypeOK
    <2>2. TaskInv'
      BY <1>2, SameRedis, LoseBatch DEF Die
    <2> QED
      BY <1>2, <2>1, <2>2, SameRedis DEF IInv, TaskInv
  <1> QED
    BY <1>1, <1>2 DEF Answer

LEMMA EntryInvariant ==
  ASSUME IInv, Entry
  PROVE  IInv'
  <1> DEFINE c == Head(batch)
  <1>0. pc = "entry" /\ UNCHANGED <<sent, redisVars, redisUp, failures>>
    BY DEF Entry
  <1>1. CASE Answer(c) /\ UNCHANGED started
    BY <1>0, <1>1, AnswerInvariant
  <1>2. CASE /\ pc' = "acking" /\ sent[c].op = "bad"
             /\ UNCHANGED <<answered, batch, started>>
    <2>1. TypeOK'
      BY <1>0, <1>2 DEF IInv, TypeOK, redisVars
    <2>2. Ordered(batch)' /\ BatchComesFirst' /\ WorksOnBatch'
      BY <1>0, <1>2
      DEF IInv, Ordered, BatchComesFirst, Undelivered, WorksOnBatch, redisVars
    <2>3. AnsweredInTurn'
      BY <1>0, <1>2, SameRedis DEF IInv, AnsweredInTurn, WellFormed, redisVars
    <2> QED
      BY <1>0, <1>2, <2>1, <2>2, <2>3, SameRedis DEF IInv, redisVars
  <1>3. CASE /\ pc' = "handling" /\ started' = started \union {c}
             /\ UNCHANGED <<answered, batch>>
    <2>0. c \in Commands
      BY <1>0, TheEntry
    <2>1. TypeOK'
      BY <1>0, <1>3, <2>0 DEF IInv, TypeOK, redisVars
    <2>2. Ordered(batch)' /\ BatchComesFirst' /\ WorksOnBatch'
      BY <1>0, <1>3
      DEF IInv, Ordered, BatchComesFirst, Undelivered, WorksOnBatch, redisVars
    <2>3. AnsweredInTurn'
      BY <1>0, <1>3, SameRedis DEF IInv, AnsweredInTurn, WellFormed, redisVars
    <2> QED
      BY <1>0, <1>3, <2>1, <2>2, <2>3, SameRedis DEF IInv, redisVars
  <1> QED
    BY <1>1, <1>2, <1>3 DEF Entry

LEMMA HandlerReturnsInvariant ==
  ASSUME IInv, HandlerReturns
  PROVE  IInv'
  BY AnswerInvariant DEF HandlerReturns

LEMMA AckInvariant ==
  ASSUME IInv, Ack
  PROVE  IInv'
  <1>0. /\ pc = "acking"
        /\ UNCHANGED <<sent, log, last, answered, redisUp, started, failures>>
    BY DEF Ack
  <1>1. CASE /\ pel' = pel \ {Head(batch)}
             /\ batch' = Tail(batch)
             /\ pc' = IF batch' = <<>> THEN "reading" ELSE "entry"
    <2> DEFINE q == Tail(batch)
    <2>1. /\ batch \in Seq(Commands)
          /\ q \in Seq(Commands)
          /\ \A i \in 1 .. Len(q) : q[i] = batch[i + 1] /\ i + 1 \in 2 .. Len(batch)
          /\ q # <<>> => Head(q) = q[1] /\ 1 \in 1 .. Len(q)
      BY <1>0, TheEntry, HeadAndTail
    <2> HIDE DEF q
    <2>2. batch' = q
      BY <1>1 DEF q
    <2>3. \A i \in 1 .. Len(q) : q[i] = batch[i + 1] /\ i + 1 \in 1 .. Len(batch)
            /\ \A j \in 1 .. i - 1 : j \in 1 .. Len(q) /\ j + 1 \in 1 .. (i + 1) - 1
      <3>1. Len(q) \in Nat
        BY <2>1
      <3> QED
        BY <2>1, <3>1
    <2>4. TypeOK'
      BY <1>0, <1>1, <2>1, <2>2 DEF IInv, TypeOK
    <2>5. Ordered(q)
      <3> SUFFICES ASSUME NEW i \in 1 .. Len(q)
                   PROVE  /\ q[i] <= Len(sent)
                          /\ \A j \in 1 .. i - 1 :
                               /\ q[j] # q[i]
                               /\ sent[q[j]].stream = sent[q[i]].stream => q[j] < q[i]
        BY DEF Ordered
      <3>1. batch[i + 1] <= Len(sent) /\ q[i] = batch[i + 1]
        BY <2>3 DEF IInv, Ordered
      <3>2. ASSUME NEW j \in 1 .. i - 1
            PROVE  /\ q[j] # q[i]
                   /\ sent[q[j]].stream = sent[q[i]].stream => q[j] < q[i]
        <4>1. q[j] = batch[j + 1] /\ j + 1 \in 1 .. (i + 1) - 1
          BY <2>3
        <4>2. i + 1 \in 1 .. Len(batch)
          BY <2>3
        <4> QED
          BY <3>1, <4>1, <4>2 DEF IInv, Ordered
      <3> QED
        BY <3>1, <3>2
    <2>6. Ordered(batch)'
      BY <1>0, <2>2, <2>5 DEF Ordered
    <2>7. BatchComesFirst'
      BY <1>0, <2>2, <2>3, SameRedis DEF IInv, BatchComesFirst
    <2>8. \A i \in 1 .. Len(q) : q[i] \notin answered
      BY <2>1 DEF IInv, AnsweredInTurn
    <2>9. AnsweredInTurn'
      <3>1. \A i \in 2 .. Len(q) : i \in 1 .. Len(q)
        BY <2>1
      <3>2. pc' # "acking" /\ (pc' \in {"entry", "handling"} => q # <<>>)
        BY <1>1, <2>2
      <3> QED
        BY <1>0, <2>1, <2>2, <2>8, <3>1, <3>2, SameRedis
        DEF IInv, AnsweredInTurn
    <2>10. WorksOnBatch'
      BY <1>1 DEF WorksOnBatch
    <2>11. AckedMeansAnswered'
      <3> SUFFICES ASSUME NEW s \in Streams, NEW i \in 1 .. last[s],
                          WellFormed(log[s][i])
                   PROVE  log[s][i] \in pel' \/ log[s][i] \in answered
        BY <1>0 DEF AckedMeansAnswered, WellFormed
      <3>1. log[s][i] \in pel \/ log[s][i] \in answered
        BY DEF IInv, AckedMeansAnswered
      <3>2. log[s][i] = Head(batch) => log[s][i] \in answered
        BY <1>0 DEF IInv, AnsweredInTurn
      <3> QED
        BY <1>1, <3>1, <3>2
    <2> QED
      BY <1>0, <2>4, <2>6, <2>7, <2>9, <2>10, <2>11, SameRedis DEF IInv
  <1>2. CASE Die /\ UNCHANGED pel
    <2>1. TypeOK'
      BY <1>0, <1>2 DEF Die, IInv, TypeOK
    <2>2. TaskInv'
      BY <1>0, <1>2, SameRedis, LoseBatch DEF Die
    <2> QED
      BY <1>0, <1>2, <2>1, <2>2, SameRedis DEF IInv, TaskInv
  <1> QED
    BY <1>1, <1>2 DEF Ack

LEMMA NextInvariant == IInv /\ [Next]_vars => IInv'
  <1> SUFFICES ASSUME IInv, [Next]_vars PROVE IInv'
    OBVIOUS
  <1>1. CASE UNCHANGED vars
    <2>1. UNCHANGED <<sent, log, last, pel, answered, redisUp, pc, batch, started,
                      failures>>
      BY <1>1 DEF vars, redisVars
    <2>2. TypeOK'
      BY <2>1 DEF IInv, TypeOK
    <2>3. TaskInv'
      BY <2>1, SameRedis, KeepBatch
    <2> QED
      BY <2>1, <2>2, <2>3, SameRedis DEF IInv, TaskInv
  <1> QED
    BY <1>1, SendInvariant, EnsureGroupsInvariant, ReadInvariant,
       ReadNoGroupInvariant, EntryInvariant, HandlerReturnsInvariant,
       AckInvariant, ReadLostInvariant, FailureInvariant
    DEF Next

\* The invariant holds throughout: in particular the streams and the batch are
\* in the order of sending, and nothing is answered before its turn.
THEOREM Invariance == Spec => []IInv
  BY InitInvariant, NextInvariant, PTL DEF Spec

\* Type correctness of operator.py's consumer and of its streams in Redis.
THEOREM TypeCorrect == Spec => []TypeOK
  <1>1. IInv => TypeOK
    BY DEF IInv
  <1> QED
    BY <1>1, Invariance, PTL

\* What XPENDING shows an operator is the truth: a well-formed command that was
\* delivered and is not pending has its answer, whatever is lost on the way.
THEOREM PendingIsTrue == Spec => []AckedMeansAnswered
  <1>1. IInv => AckedMeansAnswered
    BY DEF IInv
  <1> QED
    BY <1>1, Invariance, PTL

-----------------------------------------------------------------------------
(* What becomes of a command.                                              *)

IsRunning(c) == pc = "handling" /\ c = Head(batch)

\* On a stream, or in the task's hands and not being acknowledged.
IsWaiting(c) == OnStream(c) \/ (InBatch(c) /\ ~(pc = "acking" /\ c = Head(batch)))

\* Phase, unfolded once for all.
LEMMA PhaseIs ==
  ASSUME NEW c
  PROVE  Phase(c) = IF c > Len(sent) THEN "new"
                    ELSE IF IsRunning(c) THEN "running"
                    ELSE IF c \in answered THEN "done"
                    ELSE IF IsWaiting(c) THEN "waiting" ELSE "dropped"
  BY DEF Phase, IsRunning, IsWaiting

\* A command is on a stream exactly while an undelivered entry holds it.
LEMMA OnStreamIs ==
  ASSUME TypeOK, NEW c
  PROVE  OnStream(c) <=> \E s \in Streams : \E i \in Undelivered(s) : log[s][i] = c
  <1>1. ASSUME NEW s \in Streams, NEW i \in 1 .. Len(log[s])
        PROVE  (last[s] = NoGroup \/ last[s] < i) <=> last[s] < i
    <2>1. last[s] \in {NoGroup} \union 0 .. Len(log[s])
      BY DEF TypeOK
    <2> QED
      BY <2>1 DEF NoGroup
  <1> QED
    BY <1>1 DEF OnStream, Undelivered

\* The commands in the task's hands.
LEMMA InBatchIs ==
  ASSUME TypeOK, NEW c
  PROVE  InBatch(c) <=> \E j \in 1 .. Len(batch) : batch[j] = c
  BY SetOf DEF InBatch, TypeOK

\* The mailbox's view of a step in which no command changes its phase.
LEMMA QuietStep ==
  ASSUME UNCHANGED sent, \A c \in Commands : Phase(c)' = Phase(c)
  PROVE  UNCHANGED Bus!vars
  BY DEF Bus!vars

\* ... in which any number of them are dropped together ...
LEMMA DropStep ==
  ASSUME UNCHANGED sent,
         \A c \in Commands : \/ Phase(c)' = Phase(c)
                             \/ /\ Phase(c) \in {"waiting", "running"}
                                /\ Phase(c)' = "dropped"
  PROVE  Bus!Next
  <1> DEFINE lost == {c \in Commands : Phase(c) \in {"waiting", "running"}
                                       /\ Phase(c)' = "dropped"}
  <1>1. \A c \in Commands : Phase(c)' = IF c \in lost THEN "dropped" ELSE Phase(c)
    OBVIOUS
  <1>2. lost \subseteq {c \in Commands :
                          [d \in Commands |-> Phase(d)][c] \in {"waiting", "running"}}
    OBVIOUS
  <1> HIDE DEF lost
  <1>3. Bus!Drop
    BY <1>1, <1>2 DEF Bus!Drop
  <1> QED
    BY <1>3 DEF Bus!Next

\* The phases after a step that neither sends nor answers.
LEMMA SamePhase ==
  ASSUME UNCHANGED <<sent, answered>>, NEW c,
         IsRunning(c)' <=> IsRunning(c), IsWaiting(c)' <=> IsWaiting(c)
  PROVE  Phase(c)' = Phase(c)
  BY DEF Phase, IsRunning, IsWaiting

\* When commands only leave a stream or a batch unanswered, phases stay or drop.
LEMMA DroppedPhase ==
  ASSUME UNCHANGED <<sent, answered>>, NEW c,
         IsRunning(c)' => IsRunning(c),
         IsRunning(c) /\ ~IsRunning(c)' => c \notin answered /\ ~IsWaiting(c)',
         IsWaiting(c)' => IsWaiting(c)
  PROVE  \/ Phase(c)' = Phase(c)
         \/ Phase(c) \in {"waiting", "running"} /\ Phase(c)' = "dropped"
  BY DEF Phase, IsRunning, IsWaiting

\* Streams that are left alone hold what they held.
LEMMA StreamsKeep ==
  ASSUME UNCHANGED <<log, last>>, NEW c
  PROVE  OnStream(c)' <=> OnStream(c)
  BY DEF OnStream

\* The entry in hand is on no stream.
LEMMA HeadIsOffStream ==
  ASSUME IInv, pc \in {"entry", "handling", "acking"}
  PROVE  ~OnStream(Head(batch)) /\ InBatch(Head(batch))
  <1>1. TypeOK
    BY DEF IInv
  <1>2. Head(batch) = batch[1] /\ 1 \in 1 .. Len(batch)
    BY TheEntry
  <1> QED
    BY <1>1, <1>2, OnStreamIs, InBatchIs, BatchIsOffStream

\* The task dies or is killed: everything it has read is dropped.
LEMMA LoseBatchPhase ==
  ASSUME IInv, batch' = <<>>, pc' \in {"grouping", "dead"},
         UNCHANGED <<sent, answered, log, last>>, NEW c
  PROVE  \/ Phase(c)' = Phase(c)
         \/ Phase(c) \in {"waiting", "running"} /\ Phase(c)' = "dropped"
  <1>1. ~InBatch(c)'
    <2>1. DOMAIN batch' = {}
      OBVIOUS
    <2> QED
      BY <2>1 DEF InBatch, ToSet, Range
  <1>2. IsWaiting(c)' <=> OnStream(c)
    BY <1>1, StreamsKeep DEF IsWaiting
  <1>3. ~IsRunning(c)'
    BY DEF IsRunning
  <1>4. IsRunning(c) => c \notin answered /\ ~OnStream(c)
    BY HeadIsOffStream DEF IsRunning, IInv, AnsweredInTurn
  <1> QED
    BY <1>2, <1>3, <1>4, DroppedPhase DEF IsWaiting

\* Redis loses what is on the streams.
LEMMA WipePhase ==
  ASSUME Wipe, UNCHANGED <<sent, answered, batch, pc>>, NEW c
  PROVE  \/ Phase(c)' = Phase(c)
         \/ Phase(c) \in {"waiting", "running"} /\ Phase(c)' = "dropped"
  <1>1. ~OnStream(c)'
    BY WipeFacts DEF OnStream
  <1>2. (IsWaiting(c)' => IsWaiting(c)) /\ (IsRunning(c)' <=> IsRunning(c))
    BY <1>1 DEF IsWaiting, IsRunning, InBatch
  <1> QED
    BY <1>2, DroppedPhase

\* A reply that is read takes commands from the streams into the batch; one
\* that is lost takes them away.
LEMMA DeliverPhase ==
  ASSUME IInv, Deliver, UNCHANGED <<sent, log, answered>>, NEW c
  PROVE  /\ OnStream(c)' => OnStream(c)
         /\ c \in ToSet(Delivery) => OnStream(c)
         /\ OnStream(c) => OnStream(c)' \/ c \in ToSet(Delivery)
  <1>0. /\ TypeOK /\ StreamsAreOrdered /\ AckedMeansAnswered
        /\ \A s \in Streams : last[s] # NoGroup
    BY DEF IInv, Deliver
  <1>1. \A s \in Streams :
          /\ last'[s] \in 0 .. Len(log[s])
          /\ Undelivered(s)' = {i \in Undelivered(s) : i > last[s] + Len(NewEntries(s))}
    BY <1>0, DeliverKeepsRedis
  <1>2. OnStream(c)' <=> \E s \in Streams : \E i \in Undelivered(s)' : log[s][i] = c
    <2>1. \A s \in Streams : \A i \in 1 .. Len(log[s]) :
            (last'[s] = NoGroup \/ last'[s] < i) <=> i \in Undelivered(s)'
      BY <1>1 DEF NoGroup, Undelivered
    <2> QED
      BY <2>1 DEF OnStream, Undelivered
  <1>3. OnStream(c) <=> \E s \in Streams : \E i \in Undelivered(s) : log[s][i] = c
    BY <1>0, OnStreamIs
  <1>4. c \in ToSet(Delivery) <=> \E j \in 1 .. Len(Delivery) : Delivery[j] = c
    BY <1>0, DeliveryHoldsNewEntries, SetOf
  <1>5. OnStream(c)' => OnStream(c)
    BY <1>1, <1>2, <1>3
  <1>6. c \in ToSet(Delivery) => OnStream(c)
    BY <1>0, <1>3, <1>4, DeliveryTakesTheNext
  <1>7. ASSUME OnStream(c), ~OnStream(c)'
        PROVE  c \in ToSet(Delivery)
    <2>1. PICK s \in Streams : \E i \in Undelivered(s) : log[s][i] = c
      BY <1>3, <1>7
    <2>2. PICK i \in Undelivered(s) : log[s][i] = c
      BY <2>1
    <2>3. i <= last[s] + Len(NewEntries(s))
      <3>1. ~(i > last[s] + Len(NewEntries(s)))
        BY <1>1, <1>2, <1>7, <2>2
      <3>2. i \in Int /\ last[s] \in Int /\ Len(NewEntries(s)) \in Int
        BY <1>0, NewEntriesOfAStream DEF Undelivered, TypeOK, NoGroup
      <3> QED
        BY <3>1, <3>2
    <2> QED
      BY <1>0, <1>4, <2>2, <2>3, DeliveryTakesTheNext
  <1> QED
    BY <1>5, <1>6, <1>7

\* A read moves commands from streams to the batch: all of them still wait.
LEMMA ReadPhase ==
  ASSUME IInv, Read, NEW c
  PROVE  Phase(c)' = Phase(c)
  <1>1. Deliver /\ batch' = Delivery /\ pc = "reading" /\ pc' = "entry"
        /\ UNCHANGED <<sent, log, answered>>
    BY DEF Read, Deliver
  <1>2. ~InBatch(c)
    <2>1. batch = <<>>
      BY <1>1 DEF IInv, WorksOnBatch
    <2>2. DOMAIN batch = {}
      BY <2>1
    <2> QED
      BY <2>2 DEF InBatch, ToSet, Range
  <1>3. InBatch(c)' <=> c \in ToSet(Delivery)
    BY <1>1 DEF InBatch
  <1>4. IsWaiting(c)' <=> IsWaiting(c)
    BY <1>1, <1>2, <1>3, DeliverPhase DEF IsWaiting
  <1> QED
    BY <1>1, <1>4, SamePhase DEF IsRunning

\* A lost reply drops the commands it delivered and changes no other.
LEMMA ReadLostPhase ==
  ASSUME IInv, ReadLost, NEW c
  PROVE  \/ Phase(c)' = Phase(c)
         \/ Phase(c) \in {"waiting", "running"} /\ Phase(c)' = "dropped"
  <1>1. Deliver /\ UNCHANGED <<sent, log, answered, pc, batch>>
    BY DEF ReadLost
  <1>2. OnStream(c)' => OnStream(c)
    BY <1>1, DeliverPhase
  <1>3. (IsWaiting(c)' => IsWaiting(c)) /\ (IsRunning(c)' <=> IsRunning(c))
    BY <1>1, <1>2 DEF IsWaiting, IsRunning, InBatch
  <1> QED
    BY <1>1, <1>3, DroppedPhase

\* Making groups on a Redis that is up drops nobody.
LEMMA EnsureGroupsPhase ==
  ASSUME IInv, EnsureGroups, redisUp, NEW c
  PROVE  Phase(c)' = Phase(c)
  <1>1. /\ last' = [s \in Streams |-> GroupFrom(s)]
        /\ pc' = "reading" /\ pc = "grouping"
        /\ UNCHANGED <<sent, log, answered, batch>>
    BY DEF EnsureGroups
  <1>2. \A s \in Streams : \A i \in 1 .. Len(log[s]) :
          (last'[s] = NoGroup \/ last'[s] < i) <=> (last[s] = NoGroup \/ last[s] < i)
    <2> SUFFICES ASSUME NEW s \in Streams, NEW i \in 1 .. Len(log[s])
                 PROVE  (last'[s] = NoGroup \/ last'[s] < i)
                          <=> (last[s] = NoGroup \/ last[s] < i)
      OBVIOUS
    <2>1. last'[s] = IF last[s] = NoGroup THEN 0 ELSE last[s]
      BY <1>1 DEF GroupFrom
    <2> QED
      BY <2>1 DEF NoGroup
  <1>3. OnStream(c)' <=> OnStream(c)
    BY <1>1, <1>2 DEF OnStream
  <1> QED
    BY <1>1, <1>3, SamePhase DEF IsWaiting, IsRunning, InBatch

\* An acknowledged entry was answered or dropped before.
LEMMA AckPhase ==
  ASSUME IInv, Ack, redisUp, NEW c
  PROVE  Phase(c)' = Phase(c)
  <1>1. /\ batch' = Tail(batch) /\ pc = "acking" /\ pc' \in {"reading", "entry"}
        /\ UNCHANGED <<sent, log, last, answered>>
    BY DEF Ack
  <1>2. /\ batch \in Seq(Commands)
        /\ Head(batch) = batch[1] /\ 1 \in 1 .. Len(batch)
        /\ Tail(batch) \in Seq(Commands)
        /\ \A i \in 1 .. Len(Tail(batch)) :
             Tail(batch)[i] = batch[i + 1] /\ i + 1 \in 2 .. Len(batch)
        /\ \A i \in 2 .. Len(batch) : i - 1 \in 1 .. Len(Tail(batch))
    BY <1>1, TheEntry, HeadAndTail
  <1>3. \A i \in 2 .. Len(batch) : batch[i] # batch[1]
    <2> SUFFICES ASSUME NEW i \in 2 .. Len(batch) PROVE batch[i] # batch[1]
      OBVIOUS
    <2>1. i \in 1 .. Len(batch) /\ 1 \in 1 .. i - 1
      BY <1>2
    <2> QED
      BY <2>1 DEF IInv, Ordered
  <1>4. InBatch(c)' <=> \E i \in 1 .. Len(Tail(batch)) : Tail(batch)[i] = c
    <2> DEFINE q == Tail(batch)
    <2>1. InBatch(c)' <=> c \in ToSet(q)
      BY <1>1 DEF InBatch
    <2>2. q \in Seq(Commands)
      BY <1>2
    <2> HIDE DEF q
    <2>3. c \in ToSet(q) <=> \E i \in 1 .. Len(q) : q[i] = c
      BY <2>2, SetOf
    <2> QED
      BY <2>1, <2>3 DEF q
  <1>5. InBatch(c) <=> \E i \in 1 .. Len(batch) : batch[i] = c
    BY <1>2, SetOf DEF InBatch
  <1>6. InBatch(c)' => InBatch(c) /\ c # Head(batch)
    <2> SUFFICES ASSUME NEW i \in 1 .. Len(Tail(batch)), Tail(batch)[i] = c
                 PROVE  InBatch(c) /\ c # Head(batch)
      BY <1>4
    <2>1. i + 1 \in 2 .. Len(batch) /\ batch[i + 1] = c
      BY <1>2
    <2>2. i + 1 \in 1 .. Len(batch)
      BY <2>1
    <2> QED
      BY <1>2, <1>3, <1>5, <2>1, <2>2
  <1>7. InBatch(c) /\ c # Head(batch) => InBatch(c)'
    <2> SUFFICES ASSUME NEW i \in 1 .. Len(batch), batch[i] = c, c # batch[1]
                 PROVE  InBatch(c)'
      BY <1>2, <1>5
    <2>1. i \in 2 .. Len(batch)
      <3>1. i # 1
        OBVIOUS
      <3> QED
        BY <3>1
    <2>2. i - 1 \in 1 .. Len(Tail(batch)) /\ (i - 1) + 1 = i
      BY <1>2, <2>1
    <2> QED
      BY <1>2, <1>4, <2>2
  <1>8. IsWaiting(c)' <=> IsWaiting(c)
    BY <1>1, <1>6, <1>7, StreamsKeep DEF IsWaiting
  <1> QED
    BY <1>1, <1>8, SamePhase DEF IsRunning

-----------------------------------------------------------------------------
(* The mailbox.                                                            *)

\* The entry in hand is the oldest of its stream, and nothing is being run.
LEMMA HeadHasItsTurn ==
  ASSUME IInv, pc = "entry"
  PROVE  /\ Phase(Head(batch)) = "waiting"
         /\ Bus!Turn(Head(batch))
  <1> DEFINE c == Head(batch)
  <1>0. /\ c \in Commands /\ c = batch[1] /\ 1 \in 1 .. Len(batch) /\ c <= Len(sent)
        /\ TypeOK
    BY TheEntry DEF IInv
  <1>1. c \notin answered /\ InBatch(c)
    BY HeadIsOffStream DEF IInv, AnsweredInTurn
  <1> HIDE DEF c
  <1>2. Phase(c) = "waiting"
    <2>1. ~(c > Len(sent))
      <3>1. c \in Int /\ Len(sent) \in Int
        BY <1>0, BoundsAssumption DEF Commands, TypeOK
      <3> QED
        BY <1>0, <3>1
    <2> QED
      BY <1>1, <2>1, PhaseIs DEF IsRunning, IsWaiting
  <1>3. \A d \in Commands : Phase(d) # "running"
    BY PhaseIs DEF IsRunning
  <1>4. ASSUME NEW d \in Commands, d < c, sent[d].stream = sent[c].stream
        PROVE  ~OnStream(d) /\ ~InBatch(d)
    <2>0. d \in Int /\ c \in Int
      BY <1>0, BoundsAssumption DEF Commands
    <2>1. ASSUME OnStream(d) PROVE FALSE
      <3>1. PICK s \in Streams : \E i \in Undelivered(s) : log[s][i] = d
        BY <1>0, <2>1, OnStreamIs
      <3>2. PICK i \in Undelivered(s) : log[s][i] = d
        BY <3>1
      <3>3. sent[c].stream = s
        BY <1>4, <3>2 DEF IInv, StreamsAreOrdered, Undelivered
      <3>4. c < d
        BY <1>0, <3>2, <3>3 DEF IInv, BatchComesFirst
      <3> QED
        BY <1>4, <2>0, <3>4
    <2>2. ASSUME InBatch(d) PROVE FALSE
      <3>1. PICK j \in 1 .. Len(batch) : batch[j] = d
        BY <1>0, <2>2, InBatchIs
      <3>2. j # 1
        BY <1>0, <1>4, <2>0, <3>1
      <3>3. 1 \in 1 .. j - 1
        BY <3>2
      <3>4. c < d
        BY <1>0, <1>4, <3>1, <3>3 DEF IInv, Ordered
      <3> QED
        BY <1>4, <2>0, <3>4
    <2> QED
      BY <2>1, <2>2
  <1>5. \A d \in Commands :
          d < c /\ (IF d > Len(sent) THEN "none" ELSE sent[d].stream)
                     = (IF c > Len(sent) THEN "none" ELSE sent[c].stream)
            => Phase(d) # "waiting"
    <2> SUFFICES ASSUME NEW d \in Commands, d < c,
                        (IF d > Len(sent) THEN "none" ELSE sent[d].stream)
                          = (IF c > Len(sent) THEN "none" ELSE sent[c].stream)
                 PROVE  Phase(d) # "waiting"
      OBVIOUS
    <2>1. ~(d > Len(sent)) /\ ~(c > Len(sent))
      <3>1. c \in Int /\ d \in Int /\ Len(sent) \in Int
        BY <1>0, BoundsAssumption DEF Commands, TypeOK
      <3> QED
        BY <1>0, <3>1
    <2>2. ~IsWaiting(d)
      BY <1>4, <2>1 DEF IsWaiting
    <2> QED
      BY <2>2, PhaseIs
  <1>6. Bus!Turn(c)
    BY <1>0, <1>2, <1>3, <1>5 DEF Bus!Turn
  <1> QED
    BY <1>2, <1>6 DEF c

\* A command is sent.
LEMMA SendStep ==
  ASSUME IInv, NEW s \in Streams, NEW o \in Ops, Send(s, o),
         NEW CONSTANT n \in Commands, n = Len(sent')
  PROVE  /\ \A c \in Commands : c # n => Phase(c)' = Phase(c)
         /\ Phase(n)' = "waiting"
         /\ Bus!Next
  <1>0. /\ Len(sent) \in Nat /\ n = Len(sent) + 1
        /\ UNCHANGED <<last, pel, answered, redisUp, pc, batch, started, failures>>
        /\ TypeOK
    BY SendFacts DEF Send, IInv, TypeOK
  <1>1. \A c \in Commands : c # n => (OnStream(c)' <=> OnStream(c))
    <2> SUFFICES ASSUME NEW c \in Commands, c # n PROVE OnStream(c)' <=> OnStream(c)
      OBVIOUS
    <2>1. ASSUME OnStream(c) PROVE OnStream(c)'
      <3>1. PICK t \in Streams : \E i \in 1 .. Len(log[t]) :
              log[t][i] = c /\ (last[t] = NoGroup \/ last[t] < i)
        BY <2>1 DEF OnStream
      <3>2. PICK i \in 1 .. Len(log[t]) :
              log[t][i] = c /\ (last[t] = NoGroup \/ last[t] < i)
        BY <3>1
      <3>3. log'[t][i] = c
        BY <3>2, SendFacts
      <3>4. i \in 1 .. Len(log'[t])
        <4>1. Len(log[t]) \in Nat
          BY DEF IInv, TypeOK
        <4>2. Len(log'[t]) = Len(log[t]) \/ Len(log'[t]) = Len(log[t]) + 1
          BY SendFacts
        <4> QED
          BY <4>1, <4>2
      <3> QED
        BY <1>0, <3>2, <3>3, <3>4 DEF OnStream
    <2>2. ASSUME OnStream(c)' PROVE OnStream(c)
      <3>1. PICK t \in Streams : \E i \in 1 .. Len(log'[t]) :
              log'[t][i] = c /\ (last[t] = NoGroup \/ last[t] < i)
        BY <1>0, <2>2 DEF OnStream
      <3>2. PICK i \in 1 .. Len(log'[t]) :
              log'[t][i] = c /\ (last[t] = NoGroup \/ last[t] < i)
        BY <3>1
      <3>3. i \in 1 .. Len(log[t]) /\ log[t][i] = c
        BY <3>2, SendPlaces
      <3> QED
        BY <3>2, <3>3 DEF OnStream
    <2> QED
      BY <2>1, <2>2
  <1>2. \A c \in Commands : c # n => Phase(c)' = Phase(c)
    <2> SUFFICES ASSUME NEW c \in Commands, c # n PROVE Phase(c)' = Phase(c)
      OBVIOUS
    <2>1. c > Len(sent') <=> c > Len(sent)
      <3>1. c \in Int
        BY BoundsAssumption DEF Commands
      <3> QED
        BY <1>0, <3>1
    <2>2. IsWaiting(c)' <=> IsWaiting(c)
      BY <1>0, <1>1 DEF IsWaiting, InBatch
    <2>3. IsRunning(c)' <=> IsRunning(c)
      BY <1>0 DEF IsRunning
    <2> QED
      BY <1>0, <2>1, <2>2, <2>3 DEF Phase, IsWaiting, IsRunning
  <1>3. Phase(n) = "new"
    BY <1>0 DEF Phase
  <1>4. Phase(n)' = "waiting"
    <2>1. ~(n > Len(sent'))
      BY <1>0
    <2>2. ~IsRunning(n)'
      <3>1. pc = "handling" => Head(batch) <= Len(sent)
        BY TheEntry
      <3> QED
        BY <1>0, <3>1 DEF IsRunning
    <2>3. n \notin answered'
      BY <1>0 DEF IInv, AnsweredInTurn
    <2>4. OnStream(n)'
      <3>1. /\ log[s] \in Seq(Commands) /\ Len(log[s]) \in Nat
            /\ last[s] \in {NoGroup} \union 0 .. Len(log[s])
        BY <1>0 DEF TypeOK
      <3>2. /\ Len(log[s]) + 1 \in 1 .. Len(log'[s])
            /\ log'[s][Len(log[s]) + 1] = n
        BY <3>1, SendFacts
      <3>3. last[s] < Len(log[s]) + 1
        BY <3>1 DEF NoGroup
      <3> QED
        BY <1>0, <3>2, <3>3 DEF OnStream
    <2> QED
      BY <2>1, <2>2, <2>3, <2>4 DEF Phase, IsRunning
  <1>5. \A d \in Commands : d < n => Phase(d) # "new"
    <2> SUFFICES ASSUME NEW d \in Commands, d < n PROVE ~(d > Len(sent))
      BY PhaseIs
    <2>1. d \in Int
      BY BoundsAssumption DEF Commands
    <2> QED
      BY <1>0, <2>1
  <1>6. \A c \in 1 .. Len(sent) : sent'[c] = sent[c]
    BY SendFacts
  <1>7. sent'[n].stream = s
    BY SendFacts
  <1> DEFINE Home(c) == IF c > Len(sent) THEN "none" ELSE sent[c].stream
             HomeNext(c) == IF c > Len(sent') THEN "none" ELSE sent'[c].stream
  <1>8. \A c \in Commands : HomeNext(c) = IF c = n THEN s ELSE Home(c)
    <2> SUFFICES ASSUME NEW c \in Commands
                 PROVE  HomeNext(c) = IF c = n THEN s ELSE Home(c)
      OBVIOUS
    <2>1. c \in Nat /\ c # 0
      BY BoundsAssumption DEF Commands
    <2>2. CASE c = n
      BY <1>0, <1>7, <2>2
    <2>3. CASE c # n
      <3>1. c > Len(sent') <=> c > Len(sent)
        BY <1>0, <2>1, <2>3
      <3>2. ~(c > Len(sent)) => c \in 1 .. Len(sent)
        BY <1>0, <2>1
      <3> QED
        BY <1>6, <2>3, <3>1, <3>2
    <2> QED
      BY <2>2, <2>3
  <1>9. Bus!Send(n)
    <2>1. [c \in Commands |-> Phase(c)][n] = "new"
      BY <1>0, <1>3
    <2>2. \A d \in Commands : d < n => [c \in Commands |-> Phase(c)][d] # "new"
      BY <1>5
    <2>3. [c \in Commands |-> Phase(c)'] =
            [[c \in Commands |-> Phase(c)] EXCEPT ![n] = "waiting"]
      BY <1>2, <1>4
    <2>4. [c \in Commands |-> HomeNext(c)] =
            [[c \in Commands |-> Home(c)] EXCEPT ![n] = s]
      BY <1>8
    <2> QED
      BY <2>1, <2>2, <2>3, <2>4 DEF Bus!Send
  <1>10. Bus!Next
    BY <1>0, <1>9 DEF Bus!Next
  <1> QED
    BY <1>2, <1>4, <1>10

\* The entry in hand is answered.
LEMMA AnswerPhase ==
  ASSUME IInv, pc \in {"entry", "handling"}, NEW CONSTANT c, c = Head(batch),
         answered' = answered \union {c}, pc' = "acking",
         UNCHANGED <<sent, log, last, batch>>, NEW CONSTANT d \in Commands
  PROVE  Phase(d)' = IF d = c THEN "done" ELSE Phase(d)
  <1>1. ~(c > Len(sent))
    <2>1. c \in Int /\ c <= Len(sent) /\ Len(sent) \in Int
      BY TheEntry, BoundsAssumption DEF Commands, IInv, TypeOK
    <2> QED
      BY <2>1
  <1>2. ~IsRunning(d)' /\ (d # c => ~IsRunning(d))
    BY DEF IsRunning
  <1>3. d # c => (IsWaiting(d)' <=> IsWaiting(d))
    BY StreamsKeep DEF IsWaiting, InBatch
  <1> QED
    BY <1>1, <1>2, <1>3 DEF Phase, IsRunning, IsWaiting

\* The entry in hand is unparsable: it is not answered but acknowledged.
LEMMA BadPhase ==
  ASSUME IInv, pc = "entry", pc' = "acking", NEW CONSTANT c, c = Head(batch),
         UNCHANGED <<sent, log, last, batch, answered>>, NEW CONSTANT d \in Commands
  PROVE  Phase(d)' = IF d = c THEN "dropped" ELSE Phase(d)
  <1>1. ~(c > Len(sent)) /\ c \notin answered
    <2>1. c \in Int /\ c <= Len(sent) /\ Len(sent) \in Int
      BY TheEntry, BoundsAssumption DEF Commands, IInv, TypeOK
    <2> QED
      BY <2>1 DEF IInv, AnsweredInTurn
  <1>2. ~IsRunning(d)' /\ ~IsRunning(d)
    BY DEF IsRunning
  <1>3. d # c => (IsWaiting(d)' <=> IsWaiting(d))
    BY StreamsKeep DEF IsWaiting, InBatch
  <1>4. ~IsWaiting(c)'
    BY HeadIsOffStream, StreamsKeep DEF IsWaiting
  <1> QED
    BY <1>1, <1>2, <1>3, <1>4 DEF Phase, IsRunning, IsWaiting

\* The entry in hand is run.
LEMMA StartPhase ==
  ASSUME IInv, pc = "entry", pc' = "handling", NEW CONSTANT c, c = Head(batch),
         UNCHANGED <<sent, log, last, batch, answered>>, NEW CONSTANT d \in Commands
  PROVE  Phase(d)' = IF d = c THEN "running" ELSE Phase(d)
  <1>1. ~(c > Len(sent))
    <2>1. c \in Int /\ c <= Len(sent) /\ Len(sent) \in Int
      BY TheEntry, BoundsAssumption DEF Commands, IInv, TypeOK
    <2> QED
      BY <2>1
  <1>2. (IsRunning(d)' <=> d = c) /\ ~IsRunning(d)
    BY DEF IsRunning
  <1>3. IsWaiting(d)' <=> IsWaiting(d)
    BY StreamsKeep DEF IsWaiting, InBatch
  <1> QED
    BY <1>1, <1>2, <1>3 DEF Phase, IsRunning, IsWaiting

\* What a step of the phases is to the mailbox.
LEMMA PhaseStep ==
  ASSUME UNCHANGED sent, NEW CONSTANT c \in Commands, NEW CONSTANT p,
         \A d \in Commands : Phase(d)' = IF d = c THEN p ELSE Phase(d)
  PROVE  /\ UNCHANGED [d \in Commands |-> IF d > Len(sent) THEN "none" ELSE sent[d].stream]
         /\ [d \in Commands |-> Phase(d)'] =
              [[d \in Commands |-> Phase(d)] EXCEPT ![c] = p]
  OBVIOUS

\* Taking up an entry starts, answers or drops the command it holds.
LEMMA EntryStep ==
  ASSUME IInv, Entry
  PROVE  Bus!Next
  <1>0. /\ pc = "entry" /\ UNCHANGED <<sent, log, last, pel, redisUp, failures>>
    BY DEF Entry, redisVars
  <1>1. PICK c \in Commands : c = Head(batch)
    BY <1>0, TheEntry
  <1>2. Phase(c) = "waiting" /\ Bus!Turn(c)
    BY <1>0, <1>1, HeadHasItsTurn
  <1>3. CASE pc' = "acking" /\ UNCHANGED <<answered, batch>>
    <2>1. \A d \in Commands : Phase(d)' = IF d = c THEN "dropped" ELSE Phase(d)
      BY <1>0, <1>1, <1>3, BadPhase
    <2> QED
      BY <1>0, <1>2, <2>1, DropStep
  <1>4. CASE answered' = answered \union {c} /\ pc' = "acking" /\ UNCHANGED batch
    <2>1. \A d \in Commands : Phase(d)' = IF d = c THEN "done" ELSE Phase(d)
      BY <1>0, <1>1, <1>4, AnswerPhase
    <2>2. Bus!Refuse(c)
      BY <1>0, <1>2, <2>1, PhaseStep DEF Bus!Refuse
    <2> QED
      BY <2>2 DEF Bus!Next
  <1>5. CASE Die /\ UNCHANGED answered
    BY <1>0, <1>5, LoseBatchPhase, DropStep DEF Die
  <1>6. CASE pc' = "handling" /\ UNCHANGED <<answered, batch>>
    <2>1. \A d \in Commands : Phase(d)' = IF d = c THEN "running" ELSE Phase(d)
      BY <1>0, <1>1, <1>6, StartPhase
    <2>2. Bus!Start(c)
      BY <1>0, <1>2, <2>1, PhaseStep DEF Bus!Start
    <2> QED
      BY <2>2 DEF Bus!Next
  <1> QED
    BY <1>1, <1>3, <1>4, <1>5, <1>6 DEF Entry, Answer

\* A handler's return answers the command it ran.
LEMMA HandlerReturnsStep ==
  ASSUME IInv, HandlerReturns
  PROVE  Bus!Next
  <1>0. /\ pc = "handling" /\ UNCHANGED <<sent, log, last, pel, redisUp, failures>>
    BY DEF HandlerReturns, redisVars
  <1>1. PICK c \in Commands : c = Head(batch)
    BY <1>0, TheEntry
  <1>2. CASE answered' = answered \union {c} /\ pc' = "acking" /\ UNCHANGED batch
    <2>1. \A d \in Commands : Phase(d)' = IF d = c THEN "done" ELSE Phase(d)
      BY <1>0, <1>1, <1>2, AnswerPhase
    <2>2. Phase(c) = "running"
      <3>1. c \in Int /\ c <= Len(sent) /\ Len(sent) \in Int
        BY <1>0, <1>1, TheEntry, BoundsAssumption DEF Commands, IInv, TypeOK
      <3> QED
        BY <1>0, <1>1, <3>1, PhaseIs DEF IsRunning
    <2>3. Bus!Finish(c)
      BY <1>0, <2>1, <2>2, PhaseStep DEF Bus!Finish
    <2> QED
      BY <2>3 DEF Bus!Next
  <1>3. CASE Die /\ UNCHANGED answered
    BY <1>0, <1>3, LoseBatchPhase, DropStep DEF Die
  <1> QED
    BY <1>1, <1>2, <1>3 DEF HandlerReturns, Answer

\* Every step is one of the mailbox, or a stutter.
LEMMA StepImplements ==
  ASSUME IInv, [Next]_vars
  PROVE  [Bus!Next]_(Bus!vars)
  <1> USE DEF redisVars
  <1>1. ASSUME NEW s \in Streams, NEW o \in Ops, Send(s, o) PROVE Bus!Next
    <2>1. PICK n \in Commands : n = Len(sent')
      BY <1>1, SendFacts
    <2> QED
      BY <1>1, <2>1, SendStep
  <1>2. CASE EnsureGroups
    <2>1. CASE redisUp
      BY <1>2, <2>1, EnsureGroupsPhase, QuietStep DEF EnsureGroups
    <2>2. CASE ~redisUp
      BY <1>2, <2>2, LoseBatchPhase, DropStep DEF EnsureGroups, Die
    <2> QED
      BY <2>1, <2>2
  <1>3. CASE Read
    BY <1>3, ReadPhase, QuietStep DEF Read
  <1>4. CASE ReadNoGroup \/ RedisDown \/ UNCHANGED vars
    <2>1. UNCHANGED <<sent, log, last, answered, batch>>
          /\ (pc' = "handling" <=> pc = "handling")
          /\ (pc' = "acking" <=> pc = "acking")
      BY <1>4 DEF ReadNoGroup, RedisDown, vars
    <2>2. \A c \in Commands : Phase(c)' = Phase(c)
      BY <2>1, StreamsKeep, SamePhase DEF IsRunning, IsWaiting, InBatch
    <2> QED
      BY <2>1, <2>2, QuietStep
  <1>5. CASE Entry
    BY <1>5, EntryStep
  <1>6. CASE HandlerReturns
    BY <1>6, HandlerReturnsStep
  <1>7. CASE Ack
    <2>1. CASE redisUp
      BY <1>7, <2>1, AckPhase, QuietStep DEF Ack
    <2>2. CASE ~redisUp
      BY <1>7, <2>2, LoseBatchPhase, DropStep DEF Ack, Die
    <2> QED
      BY <2>1, <2>2
  <1>8. CASE Crash
    BY <1>8, LoseBatchPhase, DropStep DEF Crash
  <1>9. CASE ReadLost
    BY <1>9, ReadLostPhase, DropStep DEF ReadLost
  <1>10. CASE RedisRestart
    BY <1>10, WipePhase, DropStep DEF RedisRestart
  <1>11. CASE RedisBack
    <2>1. CASE Wipe
      BY <1>11, <2>1, WipePhase, DropStep DEF RedisBack
    <2>2. CASE UNCHANGED redisVars
      <3>1. \A c \in Commands : Phase(c)' = Phase(c)
        BY <1>11, <2>2, StreamsKeep, SamePhase
        DEF RedisBack, IsRunning, IsWaiting, InBatch
      <3> QED
        BY <1>11, <3>1, QuietStep DEF RedisBack
    <2> QED
      BY <1>11, <2>1, <2>2 DEF RedisBack
  <1> QED
    BY <1>1, <1>2, <1>3, <1>4, <1>5, <1>6, <1>7, <1>8, <1>9, <1>10, <1>11
    DEF Next

\* Callers see an at-most-once mailbox, one command at a time and in the order
\* of each stream, whatever is lost, killed or wiped.
THEOREM MailboxIsKept == Spec => BusSpec
  <1>1. Init => Bus!Init
    <2> SUFFICES ASSUME Init PROVE Bus!Init
      OBVIOUS
    <2>1. \A c \in Commands : c > Len(sent) /\ Phase(c) = "new"
      BY BoundsAssumption DEF Init, Commands, Phase
    <2> QED
      BY <2>1 DEF Bus!Init
  <1>2. IInv /\ [Next]_vars => [Bus!Next]_(Bus!vars)
    BY StepImplements
  <1> QED
    BY <1>1, <1>2, Invariance, PTL DEF Spec, BusSpec, Bus!Spec

\* What that comes to for one command: over is over, and what has been started
\* is never started again - a restart of the gateway, a batch delivered twice
\* or a group made anew brings nothing back.
THEOREM NeverTwice ==
  Spec => [][\A c \in Commands :
               /\ Phase(c) \in {"done", "dropped"} => Phase(c)' = Phase(c)
               /\ Phase(c) = "running" => Phase(c)' \in {"running", "done", "dropped"}]_vars
  <1> DEFINE phase == [c \in Commands |-> Phase(c)]
  <1>1. ASSUME IInv, [Next]_vars, NEW CONSTANT c \in Commands
        PROVE  /\ Phase(c) \in {"done", "dropped"} => Phase(c)' = Phase(c)
               /\ Phase(c) = "running" => Phase(c)' \in {"running", "done", "dropped"}
    <2>1. phase[c] = Phase(c) /\ phase'[c] = Phase(c)'
      OBVIOUS
    <2>2. [Bus!Next]_(Bus!vars)
      BY <1>1, StepImplements
    <2>3. CASE phase' = phase
      BY <2>1, <2>3
    <2>4. ASSUME NEW d \in Commands,
                 \/ phase[d] = "new" /\ phase' = [phase EXCEPT ![d] = "waiting"]
                 \/ phase[d] = "waiting" /\ phase' = [phase EXCEPT ![d] = "running"]
                 \/ /\ phase[d] \in {"waiting", "running"}
                    /\ phase' = [phase EXCEPT ![d] = "done"]
          PROVE  /\ phase[c] \in {"done", "dropped"} => phase'[c] = phase[c]
                 /\ phase[c] = "running" => phase'[c] \in {"running", "done", "dropped"}
      <3>1. \A v : [phase EXCEPT ![d] = v][c] = IF c = d THEN v ELSE phase[c]
        OBVIOUS
      <3> HIDE DEF phase
      <3> QED
        BY <2>4, <3>1
    <2>5. ASSUME Bus!Drop
          PROVE  /\ phase[c] \in {"done", "dropped"} => phase'[c] = phase[c]
                 /\ phase[c] = "running" => phase'[c] \in {"running", "done", "dropped"}
      <3>1. PICK lost \in SUBSET {d \in Commands : phase[d] \in {"waiting", "running"}} :
              phase' = [d \in Commands |-> IF d \in lost THEN "dropped" ELSE phase[d]]
        BY <2>5 DEF Bus!Drop
      <3> HIDE DEF phase
      <3>2. phase'[c] = IF c \in lost THEN "dropped" ELSE phase[c]
        BY <3>1
      <3> QED
        BY <3>1, <3>2
    <2> QED
      BY <2>1, <2>2, <2>3, <2>4, <2>5
      DEF Bus!Next, Bus!vars, Bus!Send, Bus!Start, Bus!Refuse, Bus!Finish,
          Bus!Turn
  <1>2. IInv /\ [Next]_vars =>
          [\A c \in Commands :
             /\ Phase(c) \in {"done", "dropped"} => Phase(c)' = Phase(c)
             /\ Phase(c) = "running" => Phase(c)' \in {"running", "done", "dropped"}]_vars
    BY <1>1
  <1> QED
    BY <1>2, Invariance, PTL DEF Spec

\* What drops a command: it cannot be parsed, or something failed.
LEMMA StepDrops ==
  ASSUME IInv, [Next]_vars, redisUp, failures' = failures,
         NEW CONSTANT c \in Commands, WellFormed(c), Phase(c) # "dropped"
  PROVE  Phase(c)' # "dropped"
  <1> USE DEF redisVars
  <1>1. ASSUME NEW s \in Streams, NEW o \in Ops, Send(s, o)
        PROVE  Phase(c)' # "dropped"
    <2>1. PICK n \in Commands : n = Len(sent')
      BY <1>1, SendFacts
    <2>2. /\ \A d \in Commands : d # n => Phase(d)' = Phase(d)
          /\ Phase(n)' = "waiting"
      BY <1>1, <2>1, SendStep
    <2> QED
      BY <2>2
  <1>2. CASE EnsureGroups
    BY <1>2, EnsureGroupsPhase
  <1>3. CASE Read
    BY <1>3, ReadPhase
  <1>4. CASE ReadNoGroup \/ UNCHANGED vars
    <2>1. UNCHANGED <<sent, log, last, answered, batch>>
          /\ (pc' = "handling" <=> pc = "handling")
          /\ (pc' = "acking" <=> pc = "acking")
      BY <1>4 DEF ReadNoGroup, vars
    <2> QED
      BY <2>1, StreamsKeep, SamePhase DEF IsRunning, IsWaiting, InBatch
  <1>5. CASE Entry
    <2>0. /\ pc = "entry" /\ UNCHANGED <<sent, log, last, pel, redisUp, failures>>
      BY <1>5 DEF Entry
    <2>1. PICK d \in Commands : d = Head(batch)
      BY <2>0, TheEntry
    <2>2. CASE sent[d].op = "bad" /\ pc' = "acking" /\ UNCHANGED <<answered, batch>>
      <3>1. Phase(c)' = IF c = d THEN "dropped" ELSE Phase(c)
        BY <2>0, <2>1, <2>2, BadPhase
      <3> QED
        BY <2>2, <3>1 DEF WellFormed
    <2>3. CASE answered' = answered \union {d} /\ pc' = "acking" /\ UNCHANGED batch
      BY <2>0, <2>1, <2>3, AnswerPhase
    <2>4. CASE pc' = "handling" /\ UNCHANGED <<answered, batch>>
      BY <2>0, <2>1, <2>4, StartPhase
    <2> QED
      BY <1>5, <2>1, <2>2, <2>3, <2>4 DEF Entry, Answer
  <1>6. CASE HandlerReturns
    <2>0. /\ pc = "handling" /\ UNCHANGED <<sent, log, last, pel, redisUp, failures>>
      BY <1>6 DEF HandlerReturns
    <2>1. PICK d \in Commands : d = Head(batch)
      BY <2>0, TheEntry
    <2> QED
      BY <1>6, <2>0, <2>1, AnswerPhase DEF HandlerReturns, Answer
  <1>7. CASE Ack
    BY <1>7, AckPhase
  <1>8. CASE Crash \/ ReadLost \/ RedisRestart \/ RedisDown
    <2>1. failures' = failures + 1
      BY <1>8 DEF Crash, ReadLost, RedisRestart, RedisDown, Fail
    <2>2. failures \in Nat
      BY BoundsAssumption DEF IInv, TypeOK
    <2> QED
      BY <2>1, <2>2
  <1>9. CASE RedisBack
    BY <1>9 DEF RedisBack
  <1> QED
    BY <1>1, <1>2, <1>3, <1>4, <1>5, <1>6, <1>7, <1>8, <1>9 DEF Next

\* No command is dropped by the way groups are made, entries batched and
\* acknowledgements sent.
THEOREM OnlyFailuresDrop == Spec => DropsAreFailures
  <1>1. ASSUME IInv, [Next]_vars, NEW CONSTANT c \in Commands,
               Phase(c)' = "dropped", Phase(c) # "dropped"
        PROVE  ~WellFormed(c) \/ failures' > failures \/ ~redisUp
    <2>1. failures' = failures \/ failures' = failures + 1
      BY <1>1 DEF Next, Send, EnsureGroups, Read, ReadNoGroup, Entry,
                  HandlerReturns, Ack, Crash, ReadLost, RedisRestart, RedisDown,
                  RedisBack, Fail, vars
    <2>2. failures \in Nat
      BY <1>1, BoundsAssumption DEF IInv, TypeOK
    <2> QED
      BY <1>1, <2>1, <2>2, StepDrops
  <1>2. IInv /\ [Next]_vars =>
          [\A c \in Commands :
             Phase(c)' = "dropped" /\ Phase(c) # "dropped" =>
                 ~WellFormed(c) \/ failures' > failures \/ ~redisUp]_vars
    BY <1>1
  <1> QED
    BY <1>2, Invariance, PTL DEF Spec, DropsAreFailures
==============================================================================
