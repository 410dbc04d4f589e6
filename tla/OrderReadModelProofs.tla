------------------------ MODULE OrderReadModelProofs ------------------------
(***************************************************************************)
(* What the read model of an order shows, for every number of replicas,    *)
(* partitions, items and events and whatever goes wrong: only what was     *)
(* committed.  And for one replica and one partition, whose consumer may   *)
(* read again what it did not commit and whose direct projections may      *)
(* fail: when all is quiet the row shows the order.                        *)
(***************************************************************************)
EXTENDS OrderReadModel, OrderStoreProofs

-----------------------------------------------------------------------------
\* Sequences of events, and what is in them.
LEMMA ConcatRange ==
  ASSUME NEW s \in Seq(Event), NEW t \in Seq(Event)
  PROVE  /\ s \o t \in Seq(Event)
         /\ SeqRange(s \o t) = SeqRange(s) \cup SeqRange(t)
<1>1. /\ s \o t \in Seq(Event) /\ Len(s \o t) = Len(s) + Len(t)
      /\ \A i \in 1..(Len(s) + Len(t)) :
           (s \o t)[i] = IF i <= Len(s) THEN s[i] ELSE t[i - Len(s)]
  BY ConcatProperties
<1>2. Len(s) \in Nat /\ Len(t) \in Nat
  OBVIOUS
<1> DEFINE u == s \o t
           m == Len(s)
           n == Len(t)
<1> HIDE DEF u, m, n
<1>3. ASSUME NEW i \in 1..(m + n) PROVE u[i] \in SeqRange(s) \cup SeqRange(t)
  <2>1. CASE i <= m
    BY <1>1, <1>2, <2>1 DEF SeqRange, u, m, n
  <2>2. CASE i > m
    <3>1. i - m \in 1..n /\ u[i] = t[i - m]
      BY <1>1, <1>2, <2>2 DEF u, m, n
    <3> QED
      BY <3>1 DEF SeqRange, n
  <2> QED
    BY <1>2, <2>1, <2>2 DEF m
<1>4. ASSUME NEW i \in 1..m PROVE s[i] \in SeqRange(u)
  <2>1. i \in 1..(m + n) /\ u[i] = s[i]
    BY <1>1, <1>2 DEF u, m, n
  <2> QED
    BY <1>1, <2>1 DEF SeqRange, u, m, n
<1>5. ASSUME NEW i \in 1..n PROVE t[i] \in SeqRange(u)
  <2>1. m + i \in 1..(m + n) /\ ~(m + i <= m) /\ m + i - m = i
    BY <1>2 DEF m, n
  <2>2. u[m + i] = t[i]
    BY <1>1, <2>1 DEF u, m, n
  <2> QED
    BY <1>1, <2>1, <2>2 DEF SeqRange, u, m, n
<1>6. SeqRange(u) = SeqRange(s) \cup SeqRange(t)
  <2>1. SeqRange(u) = {u[i] : i \in 1..(m + n)}
    BY <1>1 DEF SeqRange, u, m, n
  <2>2. SeqRange(s) = {s[i] : i \in 1..m} /\ SeqRange(t) = {t[i] : i \in 1..n}
    BY DEF SeqRange, m, n
  <2> QED
    BY <1>3, <1>4, <1>5, <2>1, <2>2
<1> QED
  BY <1>1, <1>6 DEF u

LEMMA ConcatTwice ==
  \A s, t, u \in Seq(Event) : s \o (t \o u) = (s \o t) \o u
<1> TAKE s, t, u \in Seq(Event)
<1> QED
  BY ConcatAssociative

LEMMA TailRange ==
  ASSUME NEW s \in Seq(Event), s # <<>>
  PROVE  /\ Head(s) \in Event /\ Tail(s) \in Seq(Event)
         /\ Head(s) \in SeqRange(s) /\ SeqRange(Tail(s)) \subseteq SeqRange(s)
         /\ s = <<Head(s)>> \o Tail(s)
<1>1. /\ Len(s) \in Nat \ {0} /\ Head(s) = s[1] /\ Tail(s) \in Seq(Event)
      /\ Len(Tail(s)) = Len(s) - 1
      /\ \A i \in 1..Len(Tail(s)) : Tail(s)[i] = s[i + 1] /\ i + 1 \in 1..Len(s)
  OBVIOUS
<1>2. s = <<Head(s)>> \o Tail(s)
  OBVIOUS
<1> QED
  BY <1>1, <1>2 DEF SeqRange

LEMMA AppendRange ==
  ASSUME NEW s \in Seq(Event), NEW e \in Event
  PROVE  /\ Append(s, e) \in Seq(Event) /\ Append(s, e) = s \o <<e>>
         /\ SeqRange(Append(s, e)) = SeqRange(s) \cup {e}
<1>1. Append(s, e) \in Seq(Event) /\ Append(s, e) = s \o <<e>> /\ <<e>> \in Seq(Event)
  OBVIOUS
<1>2. SeqRange(<<e>>) = {e}
  BY DEF SeqRange
<1> QED
  BY <1>1, <1>2, ConcatRange

\* Projecting an event a second time in a row changes nothing, and the row it
\* leaves has the version of the event.
LEMMA ProjectedTwice ==
  ASSUME NEW a \in Aggregate, NEW e \in Event
  PROVE  /\ Projected(a, e) \in Aggregate
         /\ \/ Projected(a, e) = a
            \/ /\ Projected(a, e).status # "absent"
               /\ Projected(a, e).version = e.version
               /\ Projected(Projected(a, e), e) = Projected(a, e)
<1> DEFINE b == Apply(a, e)
           c == Apply(Blank, e)
<1>1. Blank \in Aggregate
  BY DEF Blank, Aggregate, Statuses
<1>2. b \in Aggregate /\ b.version = e.version /\ c \in Aggregate /\ c.version = e.version
  BY <1>1, ApplyType
<1>3. CASE e.type = "OrderCreated"
  <2>1. c.status # "absent"
    BY <1>3 DEF Apply, StatusAfter
  <2> QED
    BY <1>2, <1>3, <2>1 DEF Projected
<1>4. CASE e.type # "OrderCreated" /\ a.status # "absent" /\ e.type \notin Ignored
  <2>1. b.status # "absent"
    BY <1>4 DEF Apply, StatusAfter
  <2>2. Apply(b, e) = b
    <3> DEFINE add == {i \in {e.ref} : e.type = "OrderItemAdded"}
               rem == {i \in {e.ref} : e.type = "OrderItemRemoved"}
    <3>1. b.items = (a.items \cup add) \ rem
      BY DEF Apply
    <3>2. Apply(b, e).items = (b.items \cup add) \ rem
      BY DEF Apply
    <3>3. Apply(b, e).items = b.items
      BY <3>1, <3>2
    <3> QED
      BY <3>3 DEF Apply
  <2> QED
    BY <1>2, <1>4, <2>1, <2>2 DEF Projected
<1>5. CASE e.type # "OrderCreated" /\ (a.status = "absent" \/ e.type \in Ignored)
  BY <1>5 DEF Projected
<1> QED
  BY <1>3, <1>4, <1>5

-----------------------------------------------------------------------------
\* The store under the read model: a crash ends a handler like any other return.
LEMMA StoreMoves ==
  ASSUME StoreInv, [ReadNext]_readVars
  PROVE  /\ StoreInv'
         /\ \/ UNCHANGED <<stream, head>>
            \/ \E h \in Handler : InsertEvents(h)
<1>1. CASE \E h \in Handler : Crash(h)
  BY <1>1, FinishKeepsInv DEF Crash
<1>2. CASE [StoreNext]_storeVars
  BY <1>2, StepKeepsInv, OnlyInsertMoves
<1>3. [StoreNext]_storeVars \/ \E h \in Handler : Crash(h)
  <2>1. CASE UNCHANGED readVars
    BY <2>1 DEF readVars
  <2>2. ASSUME NEW h \in Handler,
               Decide(h) \/ SaveAndPublish(h) \/ SaveRefused(h) \/ Reply(h)
        PROVE  StoreNext
    BY <2>2 DEF Decide, SaveAndPublish, SaveRefused, Reply, StoreNext
  <2>3. ASSUME NEW h \in Handler,
               ProjectNext(h) \/ DeliveryLost(h) \/ \E q \in Partition : Deliver(h, q)
        PROVE  UNCHANGED storeVars
    BY <2>3 DEF ProjectNext, DeliveryLost, Deliver
  <2>4. ASSUME NEW q \in Partition, Consume(q) \/ CommitOffset(q) \/ Rebalance(q)
        PROVE  UNCHANGED storeVars
    BY <2>4 DEF Consume, CommitOffset, Rebalance
  <2>5. ASSUME GetFindsNothing \/ GetLoadsHistory \/ GetProjectsNext
        PROVE  UNCHANGED storeVars
    BY <2>5 DEF GetFindsNothing, GetLoadsHistory, GetProjectsNext
  <2> QED
    BY <2>1, <2>2, <2>3, <2>4, <2>5 DEF ReadNext
<1> QED
  BY <1>1, <1>2, <1>3

\* What is committed stays committed, and a save commits its batch.
LEMMA CommittedGrows ==
  ASSUME StoreInv, NEW h \in Handler, InsertEvents(h)
  PROVE  /\ Batch(h) \in Seq(Event) /\ Len(stream) <= Len(stream')
         /\ Committed' = Committed \cup SeqRange(Batch(h))
<1>1. /\ cmd[h] \in Command /\ Accepts(copy[h], cmd[h]) /\ copy[h] \in Aggregate
      /\ stream \in Seq(Event)
  BY InsertedOnHead DEF StoreInv, TypeOK
<1>2. Batch(h) \in Seq(Event)
  BY <1>1, RaisedBatch DEF Batch
<1>3. SeqRange(stream') = SeqRange(stream) \cup SeqRange(Batch(h))
  BY <1>1, <1>2, ConcatRange DEF InsertEvents
<1>4. Len(stream) <= Len(stream')
  <2>1. Len(stream') = Len(stream) + Len(Batch(h))
    BY InsertExtends
  <2> QED
    BY <1>1, <1>2, <2>1
<1> QED
  BY <1>2, <1>3, <1>4 DEF SeqRange, Committed

\* Every event that is anywhere is an event.
LEMMA CommittedEvents ==
  ASSUME ReadInv
  PROVE  /\ Committed \subseteq Event /\ stream \in Seq(Event)
         /\ row \in Aggregate /\ Len(stream) \in Nat
BY DEF ReadInv, StoreInv, TypeOK, Committed, ReadTypeOK

\* A step that projects committed events only, and moves events only from
\* where they are, keeps the invariant.
LEMMA ReadMoves ==
  ASSUME ReadInv, StoreInv', Committed \subseteq Committed', Len(stream) <= Len(stream'),
         row' = row \/ \E e \in Committed : row' = Projected(row, e),
         todo' \in [Handler -> Seq(Event)], queue' \in [Handler -> Seq(Event)],
         topic' \in [Partition -> Seq(Event)],
         position' \in [Partition -> Nat], committed' \in [Partition -> Nat],
         \A q \in Partition :
           /\ committed'[q] <= position'[q] /\ position'[q] <= Len(topic'[q])
           /\ SeqRange(topic'[q]) \subseteq Committed',
         \A h \in Handler : SeqRange(todo'[h]) \cup SeqRange(queue'[h]) \subseteq Committed',
         reader' \in [phase : {"idle", "missed", "replaying"}, at : Nat, upto : Nat],
         reader'.phase = "replaying" => reader'.at < reader'.upto /\ reader'.upto <= Len(stream')
  PROVE  ReadInv'
<1>1. row' \in Aggregate
  BY CommittedEvents, ProjectedTwice
<1>2. ReadTypeOK'
  BY <1>1 DEF ReadTypeOK
<1>3. row'.status # "absent" =>
        \E e \in Committed' : e.version = row'.version /\ Projected(row', e) = row'
  <2>1. CASE row' = row
    BY <2>1 DEF ReadInv, NothingUncommittedShows
  <2>2. ASSUME NEW e \in Committed, row' = Projected(row, e), row' # row
        PROVE  e.version = row'.version /\ Projected(row', e) = row'
    BY <2>2, CommittedEvents, ProjectedTwice
  <2> QED
    BY <2>1, <2>2
<1>4. NothingUncommittedShows'
  BY <1>3 DEF NothingUncommittedShows
<1> QED
  BY <1>2, <1>4 DEF ReadInv

LEMMA ReadInitInv == ReadInit => ReadInv
<1> SUFFICES ASSUME ReadInit PROVE ReadInv
  OBVIOUS
<1>1. Blank \in Aggregate /\ Blank.status = "absent"
  BY DEF Blank, Aggregate, Statuses
<1>2. SeqRange(<<>>) = {}
  BY DEF SeqRange
<1>3. ReadTypeOK
  BY <1>1 DEF ReadInit, ReadTypeOK, Idle
<1>4. NothingUncommittedShows
  BY <1>1, <1>2 DEF ReadInit, NothingUncommittedShows
<1> QED
  BY <1>3, <1>4, InitStoreInv DEF ReadInit, ReadInv

\* What stays where it is, as ReadMoves wants it said.
LEMMA Unmoved ==
  ASSUME ReadInv
  PROVE  /\ todo \in [Handler -> Seq(Event)] /\ queue \in [Handler -> Seq(Event)]
         /\ topic \in [Partition -> Seq(Event)]
         /\ position \in [Partition -> Nat] /\ committed \in [Partition -> Nat]
         /\ \A q \in Partition :
              /\ committed[q] <= position[q] /\ position[q] <= Len(topic[q])
              /\ SeqRange(topic[q]) \subseteq Committed
         /\ \A h \in Handler :
              SeqRange(todo[h]) \subseteq Committed /\ SeqRange(queue[h]) \subseteq Committed
         /\ reader \in [phase : {"idle", "missed", "replaying"}, at : Nat, upto : Nat]
         /\ reader.phase = "replaying" => reader.at < reader.upto /\ reader.upto <= Len(stream)
BY DEF ReadInv, ReadTypeOK, NothingUncommittedShows

\* The handlers.
LEMMA HandlersKeepInv ==
  ASSUME ReadInv, NEW h \in Handler,
         \/ Decide(h) \/ SaveAndPublish(h) \/ SaveRefused(h) \/ ProjectNext(h)
         \/ Reply(h) \/ Crash(h) \/ DeliveryLost(h)
  PROVE  ReadInv'
<1>1. StoreInv' /\ (UNCHANGED <<stream, head>> \/ \E g \in Handler : InsertEvents(g))
  BY StoreMoves DEF ReadNext, ReadInv
<1>2. CASE Decide(h) \/ SaveRefused(h) \/ Reply(h)
  <2>1. UNCHANGED <<stream, row, todo, queue, topic, position, committed, reader>>
    BY <1>2 DEF Decide, SaveRefused, Reply, projectionVars, kafkaVars, NewOrder,
       LoadAndDecide, CheckVersion, VersionConflict, SaveFails, DuplicateVersion, Return
  <2>2. Committed' = Committed
    BY <2>1 DEF Committed
  <2> QED
    BY <1>1, <2>1, <2>2, Unmoved, CommittedEvents, ReadMoves
<1>3. CASE SaveAndPublish(h)
  <2>1. /\ Batch(h) \in Seq(Event) /\ Len(stream) <= Len(stream')
        /\ Committed' = Committed \cup SeqRange(Batch(h))
    BY <1>3, CommittedGrows DEF SaveAndPublish, ReadInv
  <2>2. /\ todo' = [todo EXCEPT ![h] = Batch(h)]
        /\ queue' = [queue EXCEPT ![h] = queue[h] \o Batch(h)]
        /\ UNCHANGED <<row, topic, position, committed, reader>>
    BY <1>3 DEF SaveAndPublish, kafkaVars
  <2>3. /\ queue[h] \o Batch(h) \in Seq(Event)
        /\ SeqRange(queue[h] \o Batch(h)) = SeqRange(queue[h]) \cup SeqRange(Batch(h))
    BY <2>1, Unmoved, ConcatRange
  <2>4. /\ todo' \in [Handler -> Seq(Event)] /\ queue' \in [Handler -> Seq(Event)]
        /\ \A g \in Handler : SeqRange(todo'[g]) \cup SeqRange(queue'[g]) \subseteq Committed'
    <3>1. todo' \in [Handler -> Seq(Event)] /\ queue' \in [Handler -> Seq(Event)]
      BY <2>1, <2>2, <2>3, Unmoved
    <3>2. todo'[h] = Batch(h) /\ queue'[h] = queue[h] \o Batch(h)
      BY <2>2, Unmoved
    <3>3. \A g \in Handler \ {h} : todo'[g] = todo[g] /\ queue'[g] = queue[g]
      BY <2>2, Unmoved
    <3> QED
      BY <2>1, <2>3, <3>1, <3>2, <3>3, Unmoved
  <2>5. reader'.phase = "replaying" => reader'.at < reader'.upto /\ reader'.upto <= Len(stream')
    <3>1. stream' \in Seq(Event)
      BY <1>1 DEF StoreInv, TypeOK
    <3> QED
      BY <2>1, <2>2, <3>1, Unmoved, CommittedEvents
  <2>6. \A q \in Partition :
          /\ committed'[q] <= position'[q] /\ position'[q] <= Len(topic'[q])
          /\ SeqRange(topic'[q]) \subseteq Committed'
    BY <2>1, <2>2, Unmoved
  <2> QED
    BY <1>1, <2>1, <2>2, <2>4, <2>5, <2>6, Unmoved, ReadMoves
<1>4. CASE ProjectNext(h)
  <2>1. /\ todo[h] # <<>> /\ todo' = [todo EXCEPT ![h] = Tail(todo[h])]
        /\ row' = row \/ row' = Projected(row, Head(todo[h]))
        /\ UNCHANGED <<stream, queue, topic, position, committed, reader>>
    BY <1>4 DEF ProjectNext, storeVars, kafkaVars
  <2>2. /\ Head(todo[h]) \in Committed /\ Tail(todo[h]) \in Seq(Event)
        /\ SeqRange(Tail(todo[h])) \subseteq Committed
    BY <2>1, Unmoved, TailRange
  <2>3. /\ todo' \in [Handler -> Seq(Event)]
        /\ \A g \in Handler : SeqRange(todo'[g]) \subseteq Committed
    BY <2>1, <2>2, Unmoved
  <2>4. Committed' = Committed
    BY <2>1 DEF Committed
  <2> QED
    BY <1>1, <2>1, <2>2, <2>3, <2>4, Unmoved, CommittedEvents, ReadMoves
<1>5. CASE Crash(h)
  <2>1. /\ todo' = [todo EXCEPT ![h] = <<>>] /\ queue' = [queue EXCEPT ![h] = <<>>]
        /\ UNCHANGED <<stream, row, topic, position, committed, reader>>
    BY <1>5 DEF Crash, kafkaVars
  <2>2. <<>> \in Seq(Event) /\ SeqRange(<<>>) = {}
    BY DEF SeqRange
  <2>3. /\ todo' \in [Handler -> Seq(Event)] /\ queue' \in [Handler -> Seq(Event)]
        /\ \A g \in Handler : SeqRange(todo'[g]) \cup SeqRange(queue'[g]) \subseteq Committed
    BY <2>1, <2>2, Unmoved
  <2>4. Committed' = Committed
    BY <2>1 DEF Committed
  <2> QED
    BY <1>1, <2>1, <2>3, <2>4, Unmoved, CommittedEvents, ReadMoves
<1>6. CASE DeliveryLost(h)
  <2>1. /\ queue[h] # <<>> /\ queue' = [queue EXCEPT ![h] = Tail(queue[h])]
        /\ UNCHANGED <<stream, row, todo, topic, position, committed, reader>>
    BY <1>6 DEF DeliveryLost, storeVars, kafkaVars
  <2>2. /\ Tail(queue[h]) \in Seq(Event) /\ SeqRange(Tail(queue[h])) \subseteq Committed
    BY <2>1, Unmoved, TailRange
  <2>3. /\ queue' \in [Handler -> Seq(Event)]
        /\ \A g \in Handler : SeqRange(queue'[g]) \subseteq Committed
    BY <2>1, <2>2, Unmoved
  <2>4. Committed' = Committed
    BY <2>1 DEF Committed
  <2> QED
    BY <1>1, <2>1, <2>3, <2>4, Unmoved, CommittedEvents, ReadMoves
<1> QED
  BY <1>2, <1>3, <1>4, <1>5, <1>6

\* Kafka.
LEMMA KafkaKeepsInv ==
  ASSUME ReadInv, NEW q \in Partition,
         \/ \E h \in Handler : Deliver(h, q)
         \/ Consume(q) \/ CommitOffset(q) \/ Rebalance(q)
  PROVE  ReadInv'
<1>1. StoreInv' /\ UNCHANGED <<stream, todo, reader>> /\ Committed' = Committed
  <2>1. UNCHANGED <<storeVars, todo, reader>>
    BY DEF Deliver, Consume, CommitOffset, Rebalance, projectionVars
  <2> QED
    BY <2>1, StoreMoves DEF ReadNext, ReadInv, Committed, storeVars
<1>2. ASSUME NEW h \in Handler, Deliver(h, q) PROVE ReadInv'
  <2> DEFINE e == Head(queue[h])
  <2>1. /\ queue[h] # <<>> /\ queue' = [queue EXCEPT ![h] = Tail(queue[h])]
        /\ topic' = [topic EXCEPT ![q] = Append(topic[q], e)]
        /\ UNCHANGED <<row, position, committed>>
    BY <1>2 DEF Deliver
  <2>2. /\ e \in Event /\ e \in Committed /\ Tail(queue[h]) \in Seq(Event)
        /\ SeqRange(Tail(queue[h])) \subseteq Committed
    BY <2>1, Unmoved, TailRange
  <2>3. /\ queue' \in [Handler -> Seq(Event)]
        /\ \A g \in Handler : SeqRange(queue'[g]) \subseteq Committed
    BY <2>1, <2>2, Unmoved
  <2>4. /\ Append(topic[q], e) \in Seq(Event)
        /\ SeqRange(Append(topic[q], e)) \subseteq Committed
        /\ Len(Append(topic[q], e)) = Len(topic[q]) + 1
    <3> HIDE DEF e
    <3>1. topic[q] \in Seq(Event) /\ SeqRange(topic[q]) \subseteq Committed
      BY Unmoved
    <3>2. /\ Append(topic[q], e) \in Seq(Event)
          /\ SeqRange(Append(topic[q], e)) = SeqRange(topic[q]) \cup {e}
      BY <2>2, <3>1, AppendRange
    <3>3. Len(Append(topic[q], e)) = Len(topic[q]) + 1
      BY <2>2, <3>1
    <3> QED
      BY <2>2, <3>1, <3>2, <3>3
  <2> HIDE DEF e
  <2>5. /\ topic' \in [Partition -> Seq(Event)]
        /\ \A p \in Partition : SeqRange(topic'[p]) \subseteq Committed
    BY <2>1, <2>4, Unmoved
  <2>6. ASSUME NEW p \in Partition PROVE position'[p] <= Len(topic'[p])
    <3>1. CASE p = q
      <4>1. topic'[p] = Append(topic[q], e) /\ position'[p] = position[q]
        BY <2>1, <3>1, Unmoved
      <4>2. position[q] \in Nat /\ Len(topic[q]) \in Nat /\ position[q] <= Len(topic[q])
        BY Unmoved
      <4> QED
        BY <2>4, <4>1, <4>2
    <3>2. CASE p # q
      BY <2>1, <3>2, Unmoved
    <3> QED
      BY <3>1, <3>2
  <2> QED
    BY <1>1, <2>1, <2>3, <2>5, <2>6, Unmoved, CommittedEvents, ReadMoves
<1>3. CASE Consume(q)
  <2>1. /\ position[q] < Len(topic[q])
        /\ row' = row \/ row' = Projected(row, topic[q][position[q] + 1])
        /\ position' = [position EXCEPT ![q] = position[q] + 1]
        /\ UNCHANGED <<queue, topic, committed>>
    BY <1>3 DEF Consume
  <2>2. /\ position[q] + 1 \in 1..Len(topic[q]) /\ position[q] \in Nat
        /\ topic[q] \in Seq(Event)
    BY <2>1, Unmoved
  <2>3. topic[q][position[q] + 1] \in Committed
    BY <2>2, Unmoved DEF SeqRange
  <2>4. /\ position' \in [Partition -> Nat]
        /\ \A p \in Partition : committed[p] <= position'[p] /\ position'[p] <= Len(topic[p])
    BY <2>1, <2>2, Unmoved
  <2> QED
    BY <1>1, <2>1, <2>3, <2>4, Unmoved, CommittedEvents, ReadMoves
<1>4. CASE CommitOffset(q)
  <2>1. /\ committed' = [committed EXCEPT ![q] = position[q]]
        /\ UNCHANGED <<row, queue, topic, position>>
    BY <1>4 DEF CommitOffset, projectionVars
  <2>2. /\ committed' \in [Partition -> Nat]
        /\ \A p \in Partition : committed'[p] <= position[p]
    BY <2>1, Unmoved
  <2> QED
    BY <1>1, <2>1, <2>2, Unmoved, CommittedEvents, ReadMoves
<1>5. CASE Rebalance(q)
  <2>1. /\ position' = [position EXCEPT ![q] = committed[q]]
        /\ UNCHANGED <<row, queue, topic, committed>>
    BY <1>5 DEF Rebalance, projectionVars
  <2>2. /\ position' \in [Partition -> Nat]
        /\ \A p \in Partition : committed[p] <= position'[p] /\ position'[p] <= Len(topic[p])
    <3>1. Len(topic[q]) \in Nat /\ committed[q] \in Nat /\ position[q] \in Nat
      BY Unmoved
    <3>2. committed[q] <= Len(topic[q])
      BY <3>1, Unmoved
    <3> QED
      BY <2>1, <3>1, <3>2, Unmoved
  <2> QED
    BY <1>1, <2>1, <2>2, Unmoved, CommittedEvents, ReadMoves
<1> QED
  BY <1>2, <1>3, <1>4, <1>5

\* A rebuild projects the history it read, which is a prefix of what is there.
LEMMA RebuildKeepsInv ==
  ASSUME ReadInv, GetFindsNothing \/ GetLoadsHistory \/ GetProjectsNext
  PROVE  ReadInv'
<1>1. /\ StoreInv' /\ UNCHANGED <<stream, todo, queue, topic, position, committed>>
      /\ Committed' = Committed
  <2>1. UNCHANGED <<storeVars, todo, queue, topic, position, committed>>
    BY DEF GetFindsNothing, GetLoadsHistory, GetProjectsNext, projectionVars, kafkaVars
  <2> QED
    BY <2>1, StoreMoves DEF ReadNext, ReadInv, Committed, storeVars
<1>2. CASE GetFindsNothing
  <2>1. /\ reader' = [phase |-> "missed", at |-> 0, upto |-> 0] /\ row' = row
    BY <1>2 DEF GetFindsNothing, Idle, projectionVars
  <2> QED
    BY <1>1, <2>1, Unmoved, CommittedEvents, ReadMoves
<1>3. CASE GetLoadsHistory
  <2>1. /\ row' = row
        /\ reader' = IF stream = <<>> THEN Idle
                     ELSE [phase |-> "replaying", at |-> 0, upto |-> Len(stream)]
    BY <1>3 DEF GetLoadsHistory, projectionVars
  <2>2. stream # <<>> => 0 < Len(stream)
    BY CommittedEvents
  <2>3. /\ reader' \in [phase : {"idle", "missed", "replaying"}, at : Nat, upto : Nat]
        /\ reader'.phase = "replaying" => reader'.at < reader'.upto /\ reader'.upto <= Len(stream)
    BY <2>1, <2>2, CommittedEvents DEF Idle
  <2> QED
    BY <1>1, <2>1, <2>3, Unmoved, CommittedEvents, ReadMoves
<1>4. CASE GetProjectsNext
  <2>1. /\ reader.phase = "replaying"
        /\ row' = row \/ row' = Projected(row, stream[reader.at + 1])
        /\ reader' = IF reader.at + 1 = reader.upto THEN Idle
                     ELSE [reader EXCEPT !.at = reader.at + 1]
    BY <1>4 DEF GetProjectsNext
  <2>2. /\ reader.at \in Nat /\ reader.upto \in Nat
        /\ reader.at < reader.upto /\ reader.upto <= Len(stream)
    BY <2>1, Unmoved
  <2>3. stream[reader.at + 1] \in Committed
    <3>1. reader.at + 1 \in 1..Len(stream)
      BY <2>2, CommittedEvents
    <3> QED
      BY <3>1 DEF Committed
  <2>4. /\ reader' \in [phase : {"idle", "missed", "replaying"}, at : Nat, upto : Nat]
        /\ reader'.phase = "replaying" => reader'.at < reader'.upto /\ reader'.upto <= Len(stream)
    <3>1. CASE reader.at + 1 = reader.upto
      BY <2>1, <3>1 DEF Idle
    <3>2. CASE reader.at + 1 # reader.upto
      <4>1. reader' = [phase |-> "replaying", at |-> reader.at + 1, upto |-> reader.upto]
        BY <2>1, <3>2, Unmoved
      <4> QED
        BY <2>2, <3>2, <4>1
    <3> QED
      BY <3>1, <3>2
  <2> QED
    BY <1>1, <2>1, <2>3, <2>4, Unmoved, CommittedEvents, ReadMoves
<1> QED
  BY <1>2, <1>3, <1>4

LEMMA ReadStepInv == ReadInv /\ [ReadNext]_readVars => ReadInv'
<1> SUFFICES ASSUME ReadInv, [ReadNext]_readVars PROVE ReadInv'
  OBVIOUS
<1>1. CASE UNCHANGED readVars
  <2>1. /\ UNCHANGED <<stream, row, todo, queue, topic, position, committed, reader>>
        /\ StoreInv' /\ Committed' = Committed
    BY <1>1, StoreMoves DEF readVars, storeVars, projectionVars, kafkaVars, ReadInv, Committed
  <2> QED
    BY <2>1, Unmoved, CommittedEvents, ReadMoves
<1> QED
  BY <1>1, HandlersKeepInv, KafkaKeepsInv, RebuildKeepsInv DEF ReadNext

LEMMA ReadInvariant == ReadSpec => []ReadInv
BY ReadInitInv, ReadStepInv, PTL DEF ReadSpec

\* Whatever replicas stop, messages are lost, doubled or reordered, projections
\* fail and rebuilds race: the read model shows, and the topic holds, only what
\* was committed.
THEOREM OnlyCommittedShows == ReadSpec => []NothingUncommittedShows
<1>1. ReadInv => NothingUncommittedShows
  BY DEF ReadInv
<1> QED
  BY <1>1, ReadInvariant, PTL

-----------------------------------------------------------------------------
\* One replica and one partition: nothing is lost and nobody rebuilds, but a
\* direct projection may fail and messages may be consumed again.
OneReplica ==
  /\ Handler # {} /\ \A g, h \in Handler : g = h
  /\ Partition # {} /\ \A p, q \in Partition : p = q
  /\ Fault \subseteq {"projection", "rebalance"}

\* What an event makes of a field does not depend on what the field was.
LEMMA FieldOfApply ==
  ASSUME NEW a \in Aggregate, NEW e \in Event, NEW f \in Field
  PROVE  Shown(Apply(a, e), f) =
           IF Touches(e, f) THEN Shown(Apply(Blank, e), f) ELSE Shown(a, f)
<1>1. CASE f.of = "item"
  <2>1. ASSUME NEW b
        PROVE  Apply(b, e).items = (b.items \cup {i \in {e.ref} : e.type = "OrderItemAdded"})
                                     \ {i \in {e.ref} : e.type = "OrderItemRemoved"}
    BY DEF Apply
  <2>2. Shown(Apply(a, e), f) = Apply(a, e).items \cap {f.item}
        /\ Shown(Apply(Blank, e), f) = Apply(Blank, e).items \cap {f.item}
        /\ Shown(a, f) = a.items \cap {f.item}
    BY <1>1 DEF Shown
  <2>3. Touches(e, f) <=> e.type \in {"OrderItemAdded", "OrderItemRemoved"} /\ e.ref = f.item
    BY <1>1 DEF Touches
  <2>4. CASE e.type = "OrderItemAdded" /\ e.ref = f.item
    BY <2>1, <2>2, <2>3, <2>4
  <2>5. CASE e.type = "OrderItemRemoved" /\ e.ref = f.item
    BY <2>1, <2>2, <2>3, <2>5
  <2>6. CASE ~Touches(e, f)
    BY <2>1, <2>2, <2>3, <2>6
  <2> QED
    BY <2>3, <2>4, <2>5, <2>6
<1>2. CASE f.of = "status"
  BY <1>2 DEF Shown, Apply, Touches
<1>3. CASE f.of = "payment"
  BY <1>3 DEF Shown, Apply, Touches
<1>4. CASE f.of = "reservation"
  BY <1>4 DEF Shown, Apply, Touches
<1> QED
  BY <1>1, <1>2, <1>3, <1>4 DEF Field

LEMMA IgnoredTouchesNothing ==
  ASSUME NEW e, e.type \in Ignored, NEW f PROVE ~Touches(e, f)
BY DEF Ignored, Touches, StatusAfter

\* Projecting leaves the fields alone that the event does not touch, and gives
\* the others what the event says, unless the row is missing or is there already.
LEMMA FieldOfProjected ==
  ASSUME NEW a \in Aggregate, NEW e \in Event, a.status = "absent" => a = Blank
  PROVE  /\ \A f \in Field :
              /\ ~Touches(e, f) => Shown(Projected(a, e), f) = Shown(a, f)
              /\ Touches(e, f) /\ a.status # "absent" /\ e.type # "OrderCreated" =>
                   Shown(Projected(a, e), f) = Shown(Apply(Blank, e), f)
              /\ Touches(e, f) /\ e.type = "OrderCreated" => f.of = "status"
         /\ a.status # "absent" => Projected(a, e).status # "absent"
         /\ Projected(a, e).status # "absent" =>
              \/ Projected(a, e).status = a.status
              \/ /\ e.type \in DOMAIN StatusAfter
                 /\ Projected(a, e).status = StatusAfter[e.type]
         /\ Projected(a, e).status = "absent" => Projected(a, e) = a
         /\ e.type = "OrderCreated" /\ a.status = "absent" =>
              Projected(a, e) = Apply(Blank, e) /\ Projected(a, e).status # "absent"
         /\ e.type = "OrderCreated" /\ a.status # "absent" => Projected(a, e) = a
<1>1. Projected(a, e) = a \/ Projected(a, e) = Apply(a, e)
  BY DEF Projected
<1>2. /\ e.type = "OrderCreated" /\ a.status = "absent" =>
              Projected(a, e) = Apply(Blank, e) /\ Projected(a, e).status # "absent"
      /\ e.type = "OrderCreated" /\ a.status # "absent" => Projected(a, e) = a
  BY DEF Projected, Apply, StatusAfter
<1>3. a.status # "absent" /\ e.type \notin Ignored \cup {"OrderCreated"} =>
        Projected(a, e) = Apply(a, e)
  BY DEF Projected
<1>4. /\ Apply(a, e).status # "absent" \/ Apply(a, e).status = a.status
      /\ \/ Apply(a, e).status = a.status
         \/ e.type \in DOMAIN StatusAfter /\ Apply(a, e).status = StatusAfter[e.type]
  BY DEF Apply, StatusAfter
<1>5. Projected(a, e).status = "absent" => Projected(a, e) = a
  <2>1. Apply(a, e).status = "absent" => a.status = "absent"
    BY <1>4
  <2>2. e.type # "OrderCreated" /\ a.status = "absent" => Projected(a, e) = a
    BY DEF Projected
  <2> QED
    BY <1>1, <1>2, <2>1, <2>2
<1>6. ASSUME NEW f \in Field
      PROVE  /\ ~Touches(e, f) => Shown(Projected(a, e), f) = Shown(a, f)
             /\ Touches(e, f) /\ a.status # "absent" /\ e.type # "OrderCreated" =>
                  Shown(Projected(a, e), f) = Shown(Apply(Blank, e), f)
             /\ Touches(e, f) /\ e.type = "OrderCreated" => f.of = "status"
  <2>1. ~Touches(e, f) => Shown(Projected(a, e), f) = Shown(a, f)
    BY <1>1, FieldOfApply
  <2>2. Touches(e, f) => e.type \notin Ignored
    BY IgnoredTouchesNothing
  <2>3. Touches(e, f) /\ e.type = "OrderCreated" => f.of = "status"
    BY DEF Touches
  <2> QED
    BY <1>3, <2>1, <2>2, <2>3, FieldOfApply
<1>7. a.status # "absent" => Projected(a, e).status # "absent"
  BY <1>1, <1>4
<1>8. Projected(a, e).status # "absent" =>
              \/ Projected(a, e).status = a.status
              \/ /\ e.type \in DOMAIN StatusAfter
                 /\ Projected(a, e).status = StatusAfter[e.type]
  BY <1>1, <1>4
<1> QED
  BY <1>2, <1>5, <1>6, <1>7, <1>8

\* A row that agrees with the order field by field shows the order.
LEMMA FieldsTell ==
  ASSUME row \in Aggregate, head \in Aggregate,
         \A f \in Field : Shown(row, f) = Shown(head, f)
  PROVE  RowMatches
<1>1. \A x \in {"status", "payment", "reservation"} : row[x] = head[x]
  <2> TAKE x \in {"status", "payment", "reservation"}
  <2> DEFINE f == [of |-> x, item |-> None]
  <2>1. f \in Field /\ f.of # "item" /\ f.of = x
    BY DEF Field
  <2> QED
    BY <2>1 DEF Shown
<1>2. \A i \in Item : i \in row.items <=> i \in head.items
  <2> TAKE i \in Item
  <2> DEFINE f == [of |-> "item", item |-> i]
  <2>1. f \in Field /\ f.of = "item" /\ f.item = i
    BY DEF Field
  <2>2. row.items \cap {i} = head.items \cap {i}
    BY <2>1 DEF Shown
  <2> QED
    BY <2>2
<1>3. row.items \subseteq Item /\ head.items \subseteq Item
  BY DEF Aggregate
<1>4. row.items = head.items
  BY <1>2, <1>3
<1> QED
  BY <1>1, <1>4 DEF RowMatches

\* Projecting event m, the next message or one that nothing but ignored events
\* follow, leaves every field right that is to be right by now.
LEMMA ProjectingSettles ==
  ASSUME ReadInv, RowGrounded, \A f \in Field : FieldSettled(f),
         UNCHANGED <<stream, head>>,
         NEW m \in 1..Len(stream), row' = Projected(row, stream[m]),
         \/ /\ position' = position
            /\ stream[m].type \notin Ignored =>
                 \A j \in (m + 1)..Len(stream) : stream[j].type \in Ignored
         \/ \A q \in Partition :
              position[q] \in Nat /\ position'[q] = position[q] + 1 /\ m = position[q] + 1
  PROVE  RowGrounded' /\ \A f \in Field : FieldSettled(f)'
<1> DEFINE e == stream[m]
           n == Len(stream)
<1>1. /\ n \in Nat /\ row \in Aggregate /\ e \in Event /\ stream \in Seq(Event)
      /\ \A k \in 1..n : stream[k] \in Event
      /\ position \in [Partition -> Nat]
  BY CommittedEvents, Unmoved
<1>2. /\ e.type = "OrderCreated" <=> m = 1
      /\ \A k \in 1..n : stream[k].type = "OrderCreated" <=> k = 1
      /\ \A q \in Partition : position[q] > 0 => row.status # "absent"
      /\ row.status = "absent" => row = Blank
  BY DEF RowGrounded
<1>3. row' = Projected(row, e)
  OBVIOUS
<1>4. \A q \in Partition : position'[q] > 0 => position[q] > 0 \/ m = 1
  BY <1>1
<1> HIDE DEF e
<1>5. /\ row.status # "absent" => row'.status # "absent"
      /\ m = 1 => row'.status # "absent"
      /\ row'.status = "absent" => row' = row
      /\ row'.status # "absent" =>
           row'.status = row.status \/ (e.type \in DOMAIN StatusAfter /\ row'.status = StatusAfter[e.type])
      /\ m = 1 /\ row.status = "absent" => row' = Apply(Blank, e)
      /\ m = 1 /\ row.status # "absent" => row' = row
  BY <1>1, <1>2, <1>3, FieldOfProjected
<1>6. \A f \in Field :
        /\ ~Touches(e, f) => Shown(row', f) = Shown(row, f)
        /\ Touches(e, f) /\ row.status # "absent" /\ m # 1 =>
             Shown(row', f) = Shown(Apply(Blank, e), f)
        /\ Touches(e, f) /\ m = 1 => f.of = "status"
  BY <1>1, <1>2, <1>3, FieldOfProjected
<1>7. RowGrounded'
  <2>1. row'.status # "absent" => \E k \in 1..n : /\ stream[k].type \in DOMAIN StatusAfter
                                                  /\ row'.status = StatusAfter[stream[k].type]
    <3>1. CASE row'.status = row.status
      BY <3>1 DEF RowGrounded
    <3>2. CASE e.type \in DOMAIN StatusAfter /\ row'.status = StatusAfter[e.type]
      BY <3>2 DEF e
    <3> QED
      BY <1>5, <3>1, <3>2
  <2>2. \A q \in Partition : position'[q] > 0 => row'.status # "absent"
    BY <1>2, <1>4, <1>5
  <2>3. row'.status = "absent" => row' = Blank
    BY <1>2, <1>5
  <2> QED
    BY <1>2, <2>1, <2>2, <2>3 DEF RowGrounded
<1>8. ASSUME NEW f \in Field PROVE FieldSettled(f)'
  <2>1. FieldSettled(f)
    OBVIOUS
  <2>2. CASE \A k \in 1..n : ~Touches(stream[k], f)
    <3>1. Shown(head, f) = Shown(Blank, f) /\ Shown(row, f) = Shown(Blank, f)
      BY <2>1, <2>2 DEF FieldSettled, LastTouch
    <3>2. Shown(row', f) = Shown(row, f)
      BY <1>6, <2>2 DEF e
    <3> QED
      BY <2>2, <3>1, <3>2 DEF FieldSettled, Shown
  <2>3. ASSUME NEW k \in 1..n, LastTouch(f, k),
               Shown(head, f) = Shown(Apply(Blank, stream[k]), f),
               \A q \in Partition : k <= position[q] => Shown(row, f) = Shown(head, f)
        PROVE  FieldSettled(f)'
    <3>1. ASSUME NEW q \in Partition, k <= position'[q]
          PROVE  Shown(row', f) = Shown(head, f)
      <4>1. CASE ~Touches(e, f)
        <5>1. k # m
          BY <2>3, <4>1 DEF LastTouch, e
        <5>2. k <= position[q]
          BY <1>1, <3>1, <5>1
        <5> QED
          BY <1>6, <2>3, <4>1, <5>2
      <4>2. CASE Touches(e, f)
        <5>1. m <= k
          <6>1. \A j \in (k + 1)..n : ~Touches(stream[j], f)
            BY <2>3 DEF LastTouch
          <6>2. m > k => m \in (k + 1)..n
            BY <1>1
          <6> QED
            BY <1>1, <4>2, <6>1, <6>2 DEF e
        <5>2. k <= m
          <6>1. CASE position' = position
            <7>1. \A j \in (m + 1)..n : ~Touches(stream[j], f)
              BY <1>1, <4>2, <6>1, IgnoredTouchesNothing DEF e
            <7>2. k > m => k \in (m + 1)..n
              BY <1>1
            <7> QED
              BY <1>1, <2>3, <7>1, <7>2 DEF LastTouch
          <6>2. CASE position'[q] = position[q] + 1 /\ m = position[q] + 1
            BY <1>1, <3>1, <6>2
          <6> QED
            BY <1>1, <6>1, <6>2
        <5>3. k = m
          BY <1>1, <5>1, <5>2
        <5>4. CASE m = 1
          <6>1. f.of = "status" /\ Shown(head, f) = Shown(Apply(Blank, e), f)
            BY <1>6, <2>3, <4>2, <5>3, <5>4 DEF e
          <6>2. CASE row.status = "absent"
            BY <1>5, <5>4, <6>1, <6>2
          <6>3. CASE row.status # "absent"
            <7>1. PICK i \in 1..n : /\ stream[i].type \in DOMAIN StatusAfter
                                    /\ row.status = StatusAfter[stream[i].type]
              BY <6>3 DEF RowGrounded
            <7>2. Touches(stream[i], f)
              BY <6>1, <7>1 DEF Touches
            <7>3. i = 1
              <8>1. i > 1 => i \in (k + 1)..n
                BY <1>1, <5>3, <5>4
              <8> QED
                BY <1>1, <2>3, <7>2, <8>1 DEF LastTouch
            <7>4. row.status = Apply(Blank, e).status
              BY <5>4, <7>1, <7>3 DEF Apply, e
            <7> QED
              BY <1>5, <5>4, <6>1, <6>3, <7>4 DEF Shown
          <6> QED
            BY <6>2, <6>3
        <5>5. CASE m # 1
          <6>1. position[q] > 0
            BY <1>1, <1>4, <3>1, <5>3, <5>5
          <6> QED
            BY <1>2, <1>6, <2>3, <4>2, <5>3, <5>5, <6>1 DEF e
        <5> QED
          BY <5>4, <5>5
      <4> QED
        BY <4>1, <4>2
    <3>2. LastTouch(f, k)' /\ k \in 1..Len(stream')
      BY <2>3 DEF LastTouch
    <3>3. Shown(head, f)' = Shown(head, f) /\ Shown(row, f)' = Shown(row', f)
      BY DEF Shown
    <3>4. Shown(head, f)' = Shown(Apply(Blank, stream[k]), f)'
      BY <2>3, <3>3 DEF Shown, Apply, Blank
    <3> QED
      BY <3>1, <3>2, <3>3, <3>4 DEF FieldSettled
  <2> QED
    BY <2>1, <2>2, <2>3 DEF FieldSettled
<1> QED
  BY <1>7, <1>8

\* What the one replica saves is what ends the stream.
LEMMA SavedLast ==
  ASSUME ReadInv, NEW h \in Handler, InsertEvents(h), NEW n, n = Len(stream)
  PROVE  /\ n \in Nat /\ stream' = stream \o Batch(h) /\ Batch(h) \in Seq(Event)
         /\ Len(stream') = n + 1 \/ Len(stream') = n + 2
         /\ Len(stream') = n + Len(Batch(h))
         /\ \A k \in 1..n : stream'[k] = stream[k]
         /\ \A k \in 1..Len(Batch(h)) : stream'[n + k] = Batch(h)[k]
         /\ n + 1 \in 1..Len(stream') /\ stream'[n + 1] \in Event
         /\ Len(stream') = n + 2 => stream'[n + 2].type = "OrderRefunded"
         /\ stream'[n + 1].type = "OrderCreated" <=> n = 0
         /\ \A f \in Field :
              Shown(head', f) = IF Touches(stream'[n + 1], f)
                                THEN Shown(Apply(Blank, stream'[n + 1]), f)
                                ELSE Shown(head, f)
<1> DEFINE c == cmd[h]
           es == Batch(h)
<1>1. /\ Len(stream') = n + Len(es) /\ (Len(es) = 1 \/ Len(es) = 2)
      /\ \A k \in 1..n : stream'[k] = stream[k]
      /\ \A k \in 1..Len(es) : stream'[n + k] = es[k]
      /\ stream' \in Seq(Event)
  BY InsertExtends DEF ReadInv
<1>a. Len(stream') = n + Len(es) /\ (Len(es) = 1 \/ Len(es) = 2)
  BY InsertExtends DEF ReadInv
<1>2. /\ head \in Aggregate /\ c \in Command /\ Accepts(head, c)
      /\ head' = ApplyBatch(head, es) /\ es = Raised(head, c)
      /\ c.op = "Create" => head = Blank
      /\ c.op # "Create" => head.status # "absent"
  BY InsertIsOneCommand, InsertedOnHead DEF Batch, InsertEvents, ReadInv
<1>3. /\ es \in Seq(Event)
      /\ es[1].type = EventOf[c.op]
      /\ Len(es) = 2 => es[2].type = "OrderRefunded"
  BY <1>2, RaisedBatch
<1>4. c.op = "Create" <=> n = 0
  <2>1. head.version = n /\ (stream = <<>> => head = Blank)
    BY DEF ReadInv, StoreInv, UnbrokenStream, EmptyIsBlank
  <2>2. n = 0 => stream = <<>>
    BY CommittedEvents, EmptySeq
  <2> QED
    BY <1>2, <2>1, <2>2 DEF Blank
<1>5. EventOf[c.op] = "OrderCreated" <=> c.op = "Create"
  BY <1>2 DEF Command, LoadingCommands, CreateCommand, Plain, EventOf
<1>6. /\ es[1] \in Event /\ (Len(es) = 2 => es[2] \in Event)
      /\ stream'[n + 1] = es[1] /\ (Len(es) = 2 => stream'[n + 2] = es[2])
  BY <1>1, <1>a, <1>3
<1>7. n \in Nat /\ stream' = stream \o es
  BY CommittedEvents DEF InsertEvents
<1> HIDE DEF es, c
<1>8. ASSUME NEW f \in Field
      PROVE  Shown(head', f) = IF Touches(es[1], f) THEN Shown(Apply(Blank, es[1]), f)
                               ELSE Shown(head, f)
  <2>1. Apply(head, es[1]) \in Aggregate
    BY <1>2, <1>6, ApplyType
  <2>2. CASE Len(es) = 1
    <3>1. head' = Apply(head, es[1])
      BY <1>2, <2>2 DEF ApplyBatch
    <3> QED
      BY <1>2, <1>6, <3>1, FieldOfApply
  <2>3. CASE Len(es) = 2
    <3>1. head' = Apply(Apply(head, es[1]), es[2])
      BY <1>2, <2>3 DEF ApplyBatch
    <3>2. ~Touches(es[2], f)
      BY <1>3, <2>3, IgnoredTouchesNothing DEF Ignored
    <3>3. Shown(head', f) = Shown(Apply(head, es[1]), f)
      BY <1>6, <2>1, <2>3, <3>1, <3>2, FieldOfApply
    <3> QED
      BY <1>2, <1>6, <3>3, FieldOfApply
  <2> QED
    BY <1>a, <2>2, <2>3
<1>9. /\ n + 1 \in 1..Len(stream')
      /\ Len(stream') = n + 1 \/ Len(stream') = n + 2
      /\ Len(stream') = n + 2 => Len(es) = 2
  <2>1. CASE Len(es) = 1
    BY <1>a, <1>7, <2>1
  <2>2. CASE Len(es) = 2
    BY <1>a, <1>7, <2>2
  <2> QED
    BY <1>a, <2>1, <2>2
<1> QED
  BY <1>1, <1>a, <1>3, <1>4, <1>5, <1>6, <1>7, <1>8, <1>9 DEF es

LEMMA SavingSettles ==
  ASSUME ReadInv, SettledInv, OneReplica, NEW h \in Handler, SaveAndPublish(h)
  PROVE  SettledInv'
<1>1. /\ InsertEvents(h) /\ UNCHANGED <<row, topic, position, reader>>
      /\ todo' = [todo EXCEPT ![h] = Batch(h)]
      /\ queue' = [queue EXCEPT ![h] = queue[h] \o Batch(h)]
  BY DEF SaveAndPublish, kafkaVars
<1>2. PICK n \in Nat : n = Len(stream)
  BY CommittedEvents
<1>3. /\ stream' = stream \o Batch(h) /\ Batch(h) \in Seq(Event)
      /\ Len(stream') = n + 1 \/ Len(stream') = n + 2
      /\ Len(stream') = n + Len(Batch(h))
      /\ \A k \in 1..n : stream'[k] = stream[k]
      /\ \A k \in 1..Len(Batch(h)) : stream'[n + k] = Batch(h)[k]
      /\ n + 1 \in 1..Len(stream') /\ stream'[n + 1] \in Event
      /\ Len(stream') = n + 2 => stream'[n + 2].type = "OrderRefunded"
      /\ stream'[n + 1].type = "OrderCreated" <=> n = 0
  <2>1. /\ stream' = stream \o Batch(h) /\ Batch(h) \in Seq(Event)
        /\ Len(stream') = n + 1 \/ Len(stream') = n + 2
        /\ Len(stream') = n + Len(Batch(h))
    BY <1>1, <1>2, SavedLast, Zenon
  <2>2. /\ \A k \in 1..n : stream'[k] = stream[k]
        /\ \A k \in 1..Len(Batch(h)) : stream'[n + k] = Batch(h)[k]
    BY <1>1, <1>2, InsertExtends DEF ReadInv
  <2>3. /\ n + 1 \in 1..Len(stream') /\ stream'[n + 1] \in Event
        /\ Len(stream') = n + 2 => stream'[n + 2].type = "OrderRefunded"
    BY <1>1, <1>2, SavedLast, Zenon
  <2>4. stream'[n + 1].type = "OrderCreated" <=> n = 0
    BY <1>1, <1>2, SavedLast, Zenon
  <2> QED
    BY <2>1, <2>2, <2>3, <2>4
<1>4. \A f \in Field :
        Shown(head', f) = IF Touches(stream'[n + 1], f)
                          THEN Shown(Apply(Blank, stream'[n + 1]), f)
                          ELSE Shown(head, f)
  BY <1>1, <1>2, SavedLast, Zenon
<1>5. PICK l \in {n + 1, n + 2} : l = Len(stream')
  BY <1>3
<1>6. \A k \in 1..l : k \in 1..n \/ k = n + 1 \/ (k = n + 2 /\ stream'[k].type = "OrderRefunded")
  BY <1>3, <1>5
<1>7. \A q \in Partition : position[q] <= n /\ position[q] \in Nat
  <2> TAKE q \in Partition
  <2>1. topic[q] \in Seq(Event) /\ queue[h] \in Seq(Event) /\ topic[q] \o queue[h] = stream
    BY Unmoved DEF SettledInv, OneLog
  <2>2. Len(topic[q]) + Len(queue[h]) = n
    BY <1>2, <2>1, ConcatProperties
  <2> QED
    BY <2>1, <2>2, Unmoved
<1>8. OneLog'
  <2>1. todo'[h] = Batch(h) /\ queue'[h] = queue[h] \o Batch(h)
    BY <1>1, Unmoved
  <2>2. ASSUME NEW q \in Partition PROVE topic'[q] \o queue'[h] = stream'
    <3>1. topic[q] \in Seq(Event) /\ queue[h] \in Seq(Event) /\ topic[q] \o queue[h] = stream
      BY Unmoved DEF SettledInv, OneLog
    <3>2. topic[q] \o (queue[h] \o Batch(h)) = (topic[q] \o queue[h]) \o Batch(h)
      <4>1. topic[q] \in Seq(Event) /\ queue[h] \in Seq(Event) /\ Batch(h) \in Seq(Event)
        BY <1>3, <3>1
      <4> QED
        BY <4>1, ConcatTwice, Zenon
    <3> QED
      BY <1>1, <1>3, <2>1, <3>1, <3>2
  <2>3. ASSUME NEW k \in 1..Len(Batch(h))
        PROVE  EndsWith(stream', Batch(h)[k])
    <3>1. k \in Nat /\ n + k \in 1..l /\ stream'[n + k] = Batch(h)[k]
      BY <1>3, <1>5
    <3>2. \A j \in (n + k + 1)..l : j = n + 2 /\ j \in 1..l
      BY <1>5, <3>1
    <3>3. \A j \in (n + k + 1)..l : stream'[j].type \in Ignored
      BY <1>6, <3>2 DEF Ignored
    <3> QED
      BY <1>5, <3>1, <3>3 DEF EndsWith
  <2>4. reader' = Idle
    BY <1>1 DEF SettledInv, OneLog
  <2>5. \A g \in Handler : g = h
    BY DEF OneReplica
  <2> QED
    BY <1>5, <2>1, <2>2, <2>3, <2>4, <2>5 DEF OneLog
<1>9. RowGrounded'
  <2>1. \A k \in 1..l : stream'[k].type = "OrderCreated" <=> k = 1
    <3>1. \A k \in 1..n : stream'[k].type = "OrderCreated" <=> k = 1
      BY <1>2, <1>3 DEF SettledInv, RowGrounded
    <3>2. stream'[n + 1].type = "OrderCreated" <=> n + 1 = 1
      BY <1>3
    <3> QED
      BY <1>6, <3>1, <3>2
  <2>2. row.status # "absent" => \E k \in 1..l : /\ stream'[k].type \in DOMAIN StatusAfter
                                                 /\ row.status = StatusAfter[stream'[k].type]
    <3>1. 1..n \subseteq 1..l
      BY <1>5
    <3> QED
      BY <1>2, <1>3, <3>1 DEF SettledInv, RowGrounded
  <2> QED
    BY <1>1, <1>5, <2>1, <2>2 DEF SettledInv, RowGrounded
<1>10. ASSUME NEW f \in Field PROVE FieldSettled(f)'
  <2>1. \A k \in 1..l : k = n + 2 => ~Touches(stream'[k], f)
    BY <1>6, IgnoredTouchesNothing DEF Ignored
  <2>2. CASE Touches(stream'[n + 1], f)
    <3>1. LastTouch(f, n + 1)'
      <4>1. \A j \in (n + 1 + 1)..l : j = n + 2 /\ j \in 1..l
        BY <1>5
      <4> QED
        BY <1>5, <2>1, <2>2, <4>1 DEF LastTouch
    <3>2. Shown(head', f) = Shown(Apply(Blank, stream'[n + 1]), f)
      BY <1>4, <2>2
    <3>3. \A q \in Partition : ~(n + 1 <= position'[q])
      BY <1>1, <1>7
    <3>4. n + 1 \in 1..Len(stream')
      BY <1>3
    <3>5. Shown(head, f)' = Shown(Apply(Blank, stream[n + 1]), f)'
      BY <3>2 DEF Shown, Apply, Blank
    <3> QED
      BY <3>1, <3>3, <3>4, <3>5 DEF FieldSettled
  <2>3. CASE ~Touches(stream'[n + 1], f)
    <3>1. Shown(head', f) = Shown(head, f)
      BY <1>4, <2>3
    <3>2. \A k \in 1..l : Touches(stream'[k], f) => k \in 1..n /\ Touches(stream[k], f)
      BY <1>3, <1>6, <2>1, <2>3
    <3>3. CASE \A k \in 1..n : ~Touches(stream[k], f)
      <4>1. Shown(head, f) = Shown(Blank, f) /\ Shown(row, f) = Shown(Blank, f)
        BY <1>2, <3>3 DEF SettledInv, FieldSettled, LastTouch
      <4>2. Shown(head, f)' = Shown(Blank, f)' /\ Shown(row, f)' = Shown(Blank, f)'
        BY <1>1, <3>1, <4>1 DEF Shown, Blank
      <4> QED
        BY <1>5, <3>2, <3>3, <4>2 DEF FieldSettled
    <3>4. ASSUME NEW k \in 1..n, LastTouch(f, k),
                 Shown(head, f) = Shown(Apply(Blank, stream[k]), f),
                 \A q \in Partition : k <= position[q] => Shown(row, f) = Shown(head, f)
          PROVE  FieldSettled(f)'
      <4>1. LastTouch(f, k)'
        <5>1. \A j \in (k + 1)..l : j \in 1..l /\ (j \in 1..n => j \in (k + 1)..n)
          BY <1>5
        <5> QED
          BY <1>2, <1>3, <1>5, <3>2, <3>4, <5>1 DEF LastTouch
      <4>2. k \in 1..Len(stream') /\ stream'[k] = stream[k]
        BY <1>3, <1>5
      <4>3. Shown(head, f)' = Shown(head, f) /\ Shown(row, f)' = Shown(row, f)
        BY <1>1, <3>1 DEF Shown
      <4>4. Shown(head, f)' = Shown(Apply(Blank, stream[k]), f)'
        BY <3>4, <4>2, <4>3 DEF Shown, Apply, Blank
      <4>5. \A q \in Partition : k <= position'[q] => Shown(row, f)' = Shown(head, f)'
        BY <1>1, <3>4, <4>3
      <4> QED
        BY <4>1, <4>2, <4>4, <4>5 DEF FieldSettled
    <3> QED
      BY <1>2, <3>3, <3>4 DEF SettledInv, FieldSettled
  <2> QED
    BY <2>2, <2>3
<1> QED
  BY <1>8, <1>9, <1>10 DEF SettledInv

\* Where nothing is projected, what is right stays right.
LEMMA NothingMoves ==
  ASSUME ReadInv, SettledInv, UNCHANGED <<stream, head, row>>,
         position' = position
         \/ \A q \in Partition : position[q] \in Nat /\ position'[q] \in Nat /\ position'[q] <= position[q]
  PROVE  RowGrounded' /\ \A f \in Field : FieldSettled(f)'
<1>1. \A q \in Partition : \A k \in Nat : k <= position'[q] => k <= position[q]
  BY Unmoved
<1>2. \A q \in Partition : position'[q] > 0 => position[q] > 0
  BY Unmoved
<1>3. RowGrounded'
  BY <1>2 DEF SettledInv, RowGrounded
<1>4. ASSUME NEW f \in Field PROVE FieldSettled(f)'
  <2>1. FieldSettled(f)
    BY DEF SettledInv
  <2>2. \A k \in 1..Len(stream) : k \in Nat
    BY CommittedEvents
  <2>3. \A k \in 1..Len(stream) :
          (\A q \in Partition : k <= position[q] => Shown(row, f) = Shown(head, f)) =>
          \A q \in Partition : k <= position'[q] => Shown(row, f) = Shown(head, f)
    BY <1>1, <2>2
  <2>4. Shown(head, f)' = Shown(head, f) /\ Shown(row, f)' = Shown(row, f)
    BY DEF Shown
  <2>5. CASE \A k \in 1..Len(stream) : ~Touches(stream[k], f)
    <3>1. Shown(head, f) = Shown(Blank, f) /\ Shown(row, f) = Shown(Blank, f)
      BY <2>1, <2>5 DEF FieldSettled, LastTouch
    <3>2. Shown(head, f)' = Shown(Blank, f)' /\ Shown(row, f)' = Shown(Blank, f)'
      BY <2>4, <3>1 DEF Shown, Blank
    <3> QED
      BY <2>5, <3>2 DEF FieldSettled
  <2>6. ASSUME NEW k \in 1..Len(stream), LastTouch(f, k),
               Shown(head, f) = Shown(Apply(Blank, stream[k]), f),
               \A q \in Partition : k <= position[q] => Shown(row, f) = Shown(head, f)
        PROVE  FieldSettled(f)'
    <3>1. LastTouch(f, k)' /\ k \in 1..Len(stream')
      BY <2>6 DEF LastTouch
    <3>2. Shown(head, f)' = Shown(Apply(Blank, stream[k]), f)'
      BY <2>4, <2>6 DEF Shown, Apply, Blank
    <3>3. \A q \in Partition : k <= position'[q] => Shown(row, f)' = Shown(head, f)'
      BY <2>3, <2>4, <2>6
    <3> QED
      BY <3>1, <3>2, <3>3 DEF FieldSettled
  <2> QED
    BY <2>1, <2>5, <2>6 DEF FieldSettled
<1> QED
  BY <1>3, <1>4

LEMMA NothingSettles ==
  ASSUME ReadInv, SettledInv,
         UNCHANGED <<stream, head, row, todo, queue, topic, position, reader>>
  PROVE  SettledInv'
<1>1. OneLog'
  BY DEF SettledInv, OneLog
<1> QED
  BY <1>1, NothingMoves DEF SettledInv

\* The other steps of one replica.
LEMMA ReplicaSettles ==
  ASSUME ReadInv, SettledInv, OneReplica, NEW h \in Handler,
         \/ Decide(h) \/ SaveRefused(h) \/ ProjectNext(h) \/ Reply(h) \/ Crash(h)
         \/ DeliveryLost(h) \/ \E q \in Partition : Deliver(h, q)
  PROVE  SettledInv'
<1>1. CASE Decide(h) \/ SaveRefused(h) \/ Reply(h)
  <2>1. UNCHANGED <<stream, head, row, todo, queue, topic, position, reader>>
    BY <1>1 DEF Decide, SaveRefused, Reply, projectionVars, kafkaVars, NewOrder,
       LoadAndDecide, CheckVersion, VersionConflict, SaveFails, DuplicateVersion, Return
  <2> QED
    BY <2>1, NothingSettles
<1>2. CASE Crash(h) \/ DeliveryLost(h)
  BY <1>2 DEF Crash, DeliveryLost, OneReplica
<1>3. CASE ProjectNext(h)
  <2>1. /\ todo[h] # <<>> /\ todo' = [todo EXCEPT ![h] = Tail(todo[h])]
        /\ row' = row \/ row' = Projected(row, Head(todo[h]))
        /\ UNCHANGED <<stream, head, queue, topic, position, reader>>
    BY <1>3 DEF ProjectNext, storeVars, kafkaVars
  <2>2. /\ Len(todo[h]) \in Nat /\ 1 \in 1..Len(todo[h]) /\ Head(todo[h]) = todo[h][1]
        /\ Tail(todo[h]) \in Seq(Event)
        /\ \A k \in 1..Len(Tail(todo[h])) :
             k + 1 \in 1..Len(todo[h]) /\ Tail(todo[h])[k] = todo[h][k + 1]
    <3>1. todo[h] \in Seq(Event)
      BY Unmoved
    <3> QED
      BY <2>1, <3>1
  <2>3. todo'[h] = Tail(todo[h]) /\ \A g \in Handler : g = h
    BY <2>1, Unmoved DEF OneReplica
  <2>4. OneLog'
    <3>1. \A k \in 1..Len(Tail(todo[h])) : EndsWith(stream, Tail(todo[h])[k])
      BY <2>2 DEF SettledInv, OneLog
    <3> QED
      BY <2>1, <2>3, <3>1 DEF SettledInv, OneLog
  <2>5. PICK m \in 1..Len(stream) :
          /\ stream[m] = Head(todo[h])
          /\ Head(todo[h]).type \notin Ignored =>
               \A j \in (m + 1)..Len(stream) : stream[j].type \in Ignored
    <3>1. EndsWith(stream, Head(todo[h]))
      BY <2>2 DEF SettledInv, OneLog
    <3> QED
      BY <3>1 DEF EndsWith
  <2>6. RowGrounded' /\ \A f \in Field : FieldSettled(f)'
    <3>1. CASE row' = Projected(row, Head(todo[h]))
      BY <2>1, <2>5, <3>1, ProjectingSettles DEF SettledInv
    <3>2. CASE row' = row
      BY <2>1, <3>2, NothingMoves DEF SettledInv
    <3> QED
      BY <2>1, <3>1, <3>2
  <2> QED
    BY <2>4, <2>6 DEF SettledInv
<1>4. ASSUME NEW q \in Partition, Deliver(h, q) PROVE SettledInv'
  <2>1. /\ queue[h] # <<>> /\ queue' = [queue EXCEPT ![h] = Tail(queue[h])]
        /\ topic' = [topic EXCEPT ![q] = Append(topic[q], Head(queue[h]))]
        /\ UNCHANGED <<stream, head, row, todo, position, reader>>
    BY <1>4 DEF Deliver, storeVars
  <2>2. /\ queue'[h] = Tail(queue[h]) /\ topic'[q] = Append(topic[q], Head(queue[h]))
        /\ (\A g \in Handler : g = h) /\ \A p \in Partition : p = q
    BY <2>1, Unmoved DEF OneReplica
  <2>3. topic'[q] \o queue'[h] = stream
    <3> DEFINE e == Head(queue[h])
               t == Tail(queue[h])
    <3>1. queue[h] \in Seq(Event) /\ topic[q] \in Seq(Event)
      BY Unmoved
    <3>2. e \in Event /\ t \in Seq(Event) /\ queue[h] = <<e>> \o t
      BY <2>1, <3>1, TailRange
    <3> HIDE DEF e, t
    <3>3. Append(topic[q], e) = topic[q] \o <<e>> /\ <<e>> \in Seq(Event)
      BY <3>1, <3>2, AppendRange
    <3>4. topic[q] \o (<<e>> \o t) = (topic[q] \o <<e>>) \o t
      BY <3>1, <3>2, <3>3, ConcatTwice, Zenon
    <3>5. topic[q] \o queue[h] = stream
      BY DEF SettledInv, OneLog
    <3> QED
      BY <2>2, <3>2, <3>3, <3>4, <3>5 DEF e, t
  <2>4. OneLog'
    BY <2>1, <2>2, <2>3 DEF SettledInv, OneLog
  <2> QED
    BY <2>1, <2>4, NothingMoves DEF SettledInv
<1> QED
  BY <1>1, <1>2, <1>3, <1>4

LEMMA TopicSettles ==
  ASSUME ReadInv, SettledInv, OneReplica, NEW q \in Partition,
         Consume(q) \/ CommitOffset(q) \/ Rebalance(q)
  PROVE  SettledInv'
<1>1. UNCHANGED <<stream, head, todo, queue, topic, reader>>
  BY DEF Consume, CommitOffset, Rebalance, storeVars, projectionVars
<1>2. OneLog'
  BY <1>1 DEF SettledInv, OneLog
<1>3. CASE Consume(q)
  <2>1. /\ position[q] < Len(topic[q])
        /\ row' = Projected(row, topic[q][position[q] + 1])
        /\ position' = [position EXCEPT ![q] = position[q] + 1]
    BY <1>3 DEF Consume, OneReplica
  <2>2. PICK h \in Handler : TRUE
    BY DEF OneReplica
  <2>3. /\ topic[q] \in Seq(Event) /\ queue[h] \in Seq(Event) /\ position[q] \in Nat
        /\ topic[q] \o queue[h] = stream
    BY Unmoved DEF SettledInv, OneLog
  <2>4. PICK m \in Nat : m = position[q] + 1
    BY <2>3
  <2>5. m \in 1..Len(stream) /\ stream[m] = topic[q][m]
    <3> DEFINE s == topic[q]
               u == queue[h]
    <3>a. s \in Seq(Event) /\ u \in Seq(Event) /\ s \o u = stream
      BY <2>3
    <3>b. m \in Nat \ {0} /\ m <= Len(s)
      BY <2>1, <2>3, <2>4
    <3> HIDE DEF s, u
    <3>1. /\ Len(s \o u) = Len(s) + Len(u)
          /\ \A i \in 1..(Len(s) + Len(u)) : (s \o u)[i] = IF i <= Len(s) THEN s[i] ELSE u[i - Len(s)]
          /\ Len(s) \in Nat /\ Len(u) \in Nat
      BY <3>a, ConcatProperties
    <3>2. m \in 1..(Len(s) + Len(u))
      BY <3>b, <3>1
    <3> QED
      BY <3>a, <3>b, <3>1, <3>2 DEF s
  <2>6. \A p \in Partition : position[p] \in Nat /\ position'[p] = position[p] + 1 /\ m = position[p] + 1
    BY <2>1, <2>3, <2>4, Unmoved DEF OneReplica
  <2>7. row' = Projected(row, stream[m])
    BY <2>1, <2>4, <2>5
  <2> QED
    BY <1>1, <1>2, <2>5, <2>6, <2>7, ProjectingSettles DEF SettledInv
<1>4. CASE CommitOffset(q) \/ Rebalance(q)
  <2>1. /\ row' = row
        /\ position' = position \/ position' = [position EXCEPT ![q] = committed[q]]
    BY <1>4 DEF CommitOffset, Rebalance, projectionVars
  <2>2. ASSUME NEW p \in Partition
        PROVE  /\ position[p] \in Nat /\ position'[p] \in Nat
               /\ position'[p] <= position[p]
    <3>1. /\ position[p] \in Nat /\ committed[p] \in Nat /\ committed[p] <= position[p]
          /\ position'[p] = position[p] \/ position'[p] = committed[p]
      BY <2>1, Unmoved
    <3> QED
      BY <3>1
  <2> QED
    BY <1>1, <1>2, <2>1, <2>2, Unmoved, NothingMoves DEF SettledInv
<1> QED
  BY <1>3, <1>4

LEMMA SettledStep ==
  ASSUME ReadInv, SettledInv, OneReplica, [ReadNext]_readVars
  PROVE  SettledInv'
<1>1. CASE UNCHANGED readVars
  BY <1>1, NothingSettles DEF readVars, storeVars, projectionVars, kafkaVars
<1>2. CASE GetFindsNothing \/ GetLoadsHistory \/ GetProjectsNext
  BY <1>2 DEF GetFindsNothing, GetLoadsHistory, GetProjectsNext, OneReplica,
     SettledInv, OneLog, Idle
<1> QED
  BY <1>1, <1>2, SavingSettles, ReplicaSettles, TopicSettles DEF ReadNext

LEMMA SettledInit == OneReplica /\ ReadInit => SettledInv
<1> SUFFICES ASSUME OneReplica, ReadInit PROVE SettledInv
  OBVIOUS
<1>1. Len(stream) = 0 /\ stream = <<>> /\ row = Blank /\ head = Blank
  BY DEF ReadInit, StoreInit
<1>2. OneLog
  BY <1>1 DEF ReadInit, OneLog
<1>3. RowGrounded
  BY <1>1 DEF ReadInit, RowGrounded, Blank
<1>4. \A f \in Field : FieldSettled(f)
  BY <1>1 DEF FieldSettled
<1> QED
  BY <1>2, <1>3, <1>4 DEF SettledInv

\* With one replica and one partition, whatever is projected twice, fails to be
\* projected directly or is consumed again after a reassignment: once nothing is
\* being handled and every message is consumed, the row shows the order.
THEOREM RowSettles ==
  ASSUME OneReplica PROVE ReadSpec => []SettledRowMatches
<1>1. ReadInit => ReadInv /\ SettledInv
  BY ReadInitInv, SettledInit
<1>2. (ReadInv /\ SettledInv) /\ [ReadNext]_readVars => (ReadInv /\ SettledInv)'
  BY ReadStepInv, SettledStep
<1>3. ReadInv /\ SettledInv => SettledRowMatches
  <2> SUFFICES ASSUME ReadInv, SettledInv, Quiet, Drained PROVE RowMatches
    BY DEF SettledRowMatches
  <2>1. PICK q \in Partition, h \in Handler : TRUE
    BY DEF OneReplica
  <2>2. topic[q] \in Seq(Event) /\ topic[q] \o <<>> = stream /\ position[q] = Len(topic[q])
    BY Unmoved DEF SettledInv, OneLog, Drained
  <2>3. position[q] = Len(stream) /\ Len(stream) \in Nat
    BY <2>2, CommittedEvents, ConcatSimplifications
  <2>4. \A f \in Field : Shown(row, f) = Shown(head, f)
    <3> TAKE f \in Field
    <3>1. FieldSettled(f)
      BY DEF SettledInv
    <3>2. \A k \in 1..Len(stream) : k <= position[q]
      BY <2>3
    <3> QED
      BY <3>1, <3>2 DEF FieldSettled
  <2> QED
    BY <2>4, FieldsTell, CommittedEvents DEF ReadInv, StoreInv, TypeOK
<1> QED
  BY <1>1, <1>2, <1>3, PTL DEF ReadSpec

=============================================================================
