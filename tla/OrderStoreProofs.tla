-------------------------- MODULE OrderStoreProofs --------------------------
(***************************************************************************)
(* What OrderStore guarantees for every number of handlers, items,         *)
(* payments and reservations and every bound on the stream.  StoreInv is   *)
(* the inductive invariant: the stream is unbroken, and what a handler     *)
(* holds is either the order as it is or a version the stream has passed.  *)
(* From it follow the legal life of the order and that every step is one   *)
(* whole command of OrderLifecycle, or leaves the order alone.             *)
(***************************************************************************)
EXTENDS OrderStore, SequenceTheorems, TLAPS

\* What raise() produces: one event or two, numbered from the copy's version.
LEMMA RaisedBatch ==
  ASSUME NEW a \in Aggregate, NEW c \in Command, Accepts(a, c)
  PROVE  /\ Raised(a, c) \in Seq(Event)
         /\ Len(Raised(a, c)) \in {1, 2}
         /\ \A j \in 1..Len(Raised(a, c)) :
              Raised(a, c)[j].version = a.version + j
         /\ Raised(a, c)[1].type = EventOf[c.op]
         /\ Raised(a, c)[1].ref = c.ref
         /\ Len(Raised(a, c)) = 2 <=> c.op = "Cancel" /\ a.payment # None
         /\ Len(Raised(a, c)) = 2 =>
              /\ Raised(a, c)[2].type = "OrderRefunded"
              /\ Raised(a, c)[2].ref = a.payment
<1> DEFINE first  == [ type |-> EventOf[c.op], version |-> a.version + 1,
                       ref |-> c.ref ]
           refund == [ type |-> "OrderRefunded", version |-> a.version + 2,
                       ref |-> a.payment ]
<1>1. first \in Event
  BY DEF Command, LoadingCommands, CreateCommand, Plain, EventOf, Event, Aggregate
<1>2. a.payment # None => refund \in Event
  BY DEF Event, Aggregate
<1>3. CASE c.op = "Cancel" /\ a.payment # None
  <2>1. Raised(a, c) = <<first, refund>>
    BY <1>3 DEF Raised
  <2> QED
    BY <1>1, <1>2, <1>3, <2>1 DEF Aggregate
<1>4. CASE ~(c.op = "Cancel" /\ a.payment # None)
  <2>1. Raised(a, c) = <<first>>
    BY <1>4 DEF Raised
  <2> QED
    BY <1>1, <1>4, <2>1 DEF Aggregate
<1> QED
  BY <1>3, <1>4

\* apply() keeps the type of the aggregate and takes the event's version.
LEMMA ApplyType ==
  ASSUME NEW a \in Aggregate, NEW e \in Event
  PROVE  /\ Apply(a, e) \in Aggregate
         /\ Apply(a, e).version = e.version
BY DEF Apply, Aggregate, Event, Statuses, StatusAfter

\* Replaying the batch of an accepted command keeps the type of the aggregate
\* and advances its version by the length of the batch.
LEMMA ApplyBatchType ==
  ASSUME NEW a \in Aggregate, NEW c \in Command, Accepts(a, c)
  PROVE  /\ ApplyBatch(a, Raised(a, c)) \in Aggregate
         /\ ApplyBatch(a, Raised(a, c)).version
              = a.version + Len(Raised(a, c))
<1> DEFINE es == Raised(a, c)
<1>1. /\ es \in Seq(Event)
      /\ Len(es) \in {1, 2}
      /\ \A j \in 1..Len(es) : es[j].version = a.version + j
  BY RaisedBatch
<1> HIDE DEF es
<1>2. es[1] \in Event /\ es[1].version = a.version + 1
  BY <1>1
<1>3. Apply(a, es[1]) \in Aggregate /\ Apply(a, es[1]).version = es[1].version
  BY <1>2, ApplyType
<1>4. CASE Len(es) = 1
  BY <1>2, <1>3, <1>4 DEF ApplyBatch, es
<1>5. CASE Len(es) = 2
  <2>a. 2 \in 1..Len(es)
    BY <1>5
  <2>b. es[2] \in Event
    BY <1>1, <2>a
  <2>1. es[2] \in Event /\ es[2].version = a.version + 2
    BY <1>1, <2>a, <2>b
  <2>2. /\ Apply(Apply(a, es[1]), es[2]) \in Aggregate
        /\ Apply(Apply(a, es[1]), es[2]).version = es[2].version
    BY <1>3, <2>1, ApplyType
  <2> QED
    BY <1>5, <2>1, <2>2 DEF ApplyBatch, es
<1> QED
  BY <1>1, <1>4, <1>5

\* What one accepted command does to the order it is applied to.
LEMMA CommandEffect ==
  ASSUME NEW a \in Aggregate, NEW c \in Command, Accepts(a, c),
         NEW b, b = ApplyBatch(a, Raised(a, c))
  PROVE  /\ b.status = IF EventOf[c.op] \in DOMAIN StatusAfter
                       THEN StatusAfter[EventOf[c.op]] ELSE a.status
         /\ b.items = CASE c.op = "AddItem"    -> a.items \cup {c.ref}
                        [] c.op = "RemoveItem" -> a.items \ {c.ref}
                        [] OTHER               -> a.items
         /\ b.payment = IF c.op = "RecordPayment" THEN c.ref ELSE a.payment
         /\ b.reservation =
              CASE c.op = "RecordInventoryReservation" -> c.ref
                [] c.op = "RecordInventoryRelease"     -> None
                [] OTHER                               -> a.reservation
<1> DEFINE es == Raised(a, c)
           d == Apply(a, es[1])
<1>1. /\ Len(es) = 1 \/ Len(es) = 2
      /\ es[1].type = EventOf[c.op] /\ es[1].ref = c.ref
      /\ Len(es) = 2 => /\ es[2].type = "OrderRefunded"
                        /\ c.op = "Cancel"
  BY RaisedBatch
<1> HIDE DEF es
<1>2. c.op \in DOMAIN EventOf
  BY DEF Command, LoadingCommands, CreateCommand, Plain, EventOf
<1>3. /\ d.status = IF EventOf[c.op] \in DOMAIN StatusAfter
                    THEN StatusAfter[EventOf[c.op]] ELSE a.status
      /\ d.payment = IF c.op = "RecordPayment" THEN c.ref ELSE a.payment
  BY <1>1, <1>2 DEF Apply, EventOf
<1>4. d.items = CASE c.op = "AddItem"    -> a.items \cup {c.ref}
                  [] c.op = "RemoveItem" -> a.items \ {c.ref}
                  [] OTHER               -> a.items
  <2>1. a.items \subseteq Item
    BY DEF Aggregate
  <2> QED
    BY <1>1, <1>2, <2>1 DEF Apply, EventOf
<1>5. d.reservation =
        CASE c.op = "RecordInventoryReservation" -> c.ref
          [] c.op = "RecordInventoryRelease"     -> None
          [] OTHER                               -> a.reservation
  BY <1>1, <1>2 DEF Apply, EventOf
<1> HIDE DEF d
<1>6. CASE Len(es) = 1
  <2>1. b = d
    BY <1>6 DEF ApplyBatch, es, d
  <2> QED
    BY <1>3, <1>4, <1>5, <2>1
<1>7. CASE Len(es) = 2
  <2>1. b = Apply(d, es[2])
    BY <1>7 DEF ApplyBatch, es, d
  <2>2. /\ b.status = d.status /\ b.payment = d.payment
        /\ b.reservation = d.reservation /\ b.items = d.items
    BY <1>1, <1>7, <2>1 DEF Apply, StatusAfter
  <2> QED
    BY <1>3, <1>4, <1>5, <2>2
<1> QED
  BY <1>1, <1>6, <1>7

\* In an unbroken stream MAX(version) is the length of the stream.
LEMMA MaxVersion ==
  ASSUME TypeOK, UnbrokenStream, stream # <<>>
  PROVE  CurrentVersion = Len(stream)
<1> DEFINE n == Len(stream)
           V == {stream[k].version : k \in 1..n}
<1>1. n \in Nat /\ n >= 1
  BY DEF TypeOK
<1>2. V = 1..n
  BY DEF UnbrokenStream
<1>3. \A v \in 1..n : (\A k \in 1..n : stream[k].version <= v) <=> v = n
  BY <1>1 DEF UnbrokenStream
<1>4. CurrentVersion = CHOOSE v \in 1..n :
                         \A k \in 1..n : stream[k].version <= v
  BY <1>2 DEF CurrentVersion
<1>5. n \in 1..n
  BY <1>1
<1> HIDE DEF n, V
<1>6. (CHOOSE v \in 1..n : \A k \in 1..n : stream[k].version <= v) = n
  BY <1>3, <1>5
<1> QED
  BY <1>4, <1>6 DEF n

\* A batch that the unique constraint lets in was decided on the order as it
\* is: this is where Save's transaction is serialised.
LEMMA InsertedOnHead ==
  ASSUME StoreInv, NEW h \in Handler, InsertEvents(h)
  PROVE  /\ copy[h] = head
         /\ Accepts(head, cmd[h])
<1>1. pc[h] = "insert" /\ ~Collides(Batch(h))
  BY DEF InsertEvents
<1>2. copy[h] \in Aggregate /\ cmd[h] \in Command /\ Accepts(copy[h], cmd[h])
  BY <1>1 DEF StoreInv, TypeOK, DecisionAccepted
<1>3. /\ Len(Batch(h)) \in {1, 2}
      /\ \A j \in 1..Len(Batch(h)) : Batch(h)[j].version = copy[h].version + j
  BY <1>2, RaisedBatch DEF Batch
<1>4. copy[h].version \in Nat /\ Len(stream) \in Nat
  BY <1>2 DEF Aggregate, StoreInv, TypeOK
<1>5. copy[h].version <= Len(stream)
  BY DEF StoreInv, VersionStandsForState
<1>6. ~(copy[h].version < Len(stream))
  <2> SUFFICES ASSUME copy[h].version < Len(stream)
               PROVE  Collides(Batch(h))
    BY <1>1
  <2>1. Batch(h)[1].version = copy[h].version + 1
    BY <1>3
  <2>2. copy[h].version + 1 \in 1..Len(stream)
    BY <1>4
  <2>3. stream[copy[h].version + 1].version = copy[h].version + 1
    BY <2>2 DEF StoreInv, UnbrokenStream
  <2> QED
    BY <1>3, <2>1, <2>2, <2>3 DEF Collides
<1>7. copy[h].version = Len(stream)
  BY <1>4, <1>5, <1>6
<1> QED
  BY <1>1, <1>2, <1>7 DEF StoreInv, VersionStandsForState

\* The empty store satisfies the invariant.
LEMMA InitStoreInv == StoreInit => StoreInv
<1> SUFFICES ASSUME StoreInit PROVE StoreInv
  OBVIOUS
<1>1. Blank \in Aggregate /\ Blank.version = 0
  BY DEF Blank, Aggregate, Statuses
<1>2. CreateCommand \in Command
  BY DEF Command
<1>3. TypeOK
  BY <1>1, <1>2 DEF StoreInit, TypeOK, Phases
<1>4. UnbrokenStream
  BY <1>1 DEF StoreInit, UnbrokenStream
<1>5. VersionStandsForState
  BY <1>1 DEF StoreInit, VersionStandsForState
<1>6. DecisionAccepted /\ EmptyIsBlank
  BY DEF StoreInit, DecisionAccepted, EmptyIsBlank
<1> QED
  BY <1>3, <1>4, <1>5, <1>6 DEF StoreInv

\* A handler that gives up or returns leaves the invariant alone.
LEMMA FinishKeepsInv ==
  ASSUME StoreInv, NEW h \in Handler, Finish(h), UNCHANGED <<stream, head>>
  PROVE  StoreInv'
<1>1. /\ Blank \in Aggregate /\ Blank.version = 0
      /\ CreateCommand \in Command
  BY DEF Blank, Aggregate, Statuses, Command
<1>2. TypeOK'
  BY <1>1 DEF StoreInv, TypeOK, Finish, Phases
<1>3. UnbrokenStream' /\ EmptyIsBlank'
  BY DEF StoreInv, UnbrokenStream, EmptyIsBlank
<1>4. \A g \in Handler \ {h} :
        pc'[g] = pc[g] /\ cmd'[g] = cmd[g] /\ copy'[g] = copy[g]
  BY DEF Finish, StoreInv, TypeOK
<1>5. pc'[h] = "idle" /\ copy'[h] = Blank
  BY DEF Finish, StoreInv, TypeOK
<1>6. VersionStandsForState'
  BY <1>1, <1>4, <1>5 DEF StoreInv, TypeOK, VersionStandsForState
<1>7. DecisionAccepted'
  BY <1>4, <1>5 DEF StoreInv, DecisionAccepted
<1> QED
  BY <1>2, <1>3, <1>6, <1>7 DEF StoreInv

\* A handler that takes up command c on the order as it is, be it a new one.
LEMMA DecideKeepsInv ==
  ASSUME StoreInv, NEW h \in Handler, NEW c \in Command,
         Accepts(head, c), c.op # "Create" => stream # <<>>,
         pc' = [pc EXCEPT ![h] = "check"],
         cmd' = [cmd EXCEPT ![h] = c],
         copy' = [copy EXCEPT ![h] = head],
         UNCHANGED <<stream, head>>
  PROVE  StoreInv'
<1>1. TypeOK'
  BY DEF StoreInv, TypeOK, Phases
<1>2. UnbrokenStream' /\ EmptyIsBlank'
  BY DEF StoreInv, UnbrokenStream, EmptyIsBlank
<1>3. \A g \in Handler \ {h} :
        pc'[g] = pc[g] /\ cmd'[g] = cmd[g] /\ copy'[g] = copy[g]
  BY DEF StoreInv, TypeOK
<1>4. cmd'[h] = c /\ copy'[h] = head
  BY DEF StoreInv, TypeOK
<1>5. /\ head.version = Len(stream) /\ Len(stream) \in Nat
      /\ c.op # "Create" => Len(stream) > 0
  BY DEF StoreInv, UnbrokenStream, TypeOK
<1>6. VersionStandsForState'
  BY <1>3, <1>4, <1>5 DEF StoreInv, VersionStandsForState
<1>7. DecisionAccepted'
  BY <1>3, <1>4, <1>5 DEF StoreInv, DecisionAccepted
<1> QED
  BY <1>1, <1>2, <1>6, <1>7 DEF StoreInv

\* Creating the order preserves the invariant.
LEMMA NewOrderKeepsInv ==
  ASSUME StoreInv, NEW h \in Handler, NewOrder(h)
  PROVE  StoreInv'
<1>1. CreateCommand \in Command /\ CreateCommand.op = "Create"
  BY DEF Command, CreateCommand, Plain
<1>2. head = Blank
  BY DEF NewOrder, StoreInv, EmptyIsBlank
<1>3. Accepts(head, CreateCommand)
  BY <1>1, <1>2 DEF Accepts
<1> QED
  BY <1>1, <1>2, <1>3, DecideKeepsInv DEF NewOrder

\* Loading the order and deciding on it preserves the invariant.
LEMMA LoadKeepsInv ==
  ASSUME StoreInv, NEW h \in Handler, NEW c \in LoadingCommands,
         LoadAndDecide(h, c)
  PROVE  StoreInv'
<1>1. c \in Command
  BY DEF Command
<1> QED
  BY <1>1, DecideKeepsInv DEF LoadAndDecide

\* The version check preserves the invariant.
LEMMA CheckKeepsInv ==
  ASSUME StoreInv, NEW h \in Handler, CheckVersion(h)
  PROVE  StoreInv'
<1>1. \A g \in Handler : pc'[g] # "idle" <=> pc[g] # "idle"
  BY DEF CheckVersion, StoreInv, TypeOK
<1>2. UNCHANGED <<stream, head, cmd, copy>>
  BY DEF CheckVersion
<1>3. TypeOK'
  BY DEF CheckVersion, StoreInv, TypeOK, Phases
<1> QED
  BY <1>1, <1>2, <1>3 DEF StoreInv, UnbrokenStream, EmptyIsBlank,
                          VersionStandsForState, DecisionAccepted

\* The insert extends the stream by a batch whose versions continue it.
LEMMA InsertExtends ==
  ASSUME StoreInv, NEW h \in Handler, InsertEvents(h)
  PROVE  /\ stream' \in Seq(Event)
         /\ Len(stream') = Len(stream) + Len(Batch(h))
         /\ Len(Batch(h)) = 1 \/ Len(Batch(h)) = 2
         /\ \A k \in 1..Len(stream) : stream'[k] = stream[k]
         /\ \A j \in 1..Len(Batch(h)) :
              stream'[Len(stream) + j] = Batch(h)[j]
         /\ UnbrokenStream'
         /\ head' \in Aggregate
<1>1. copy[h] = head /\ Accepts(head, cmd[h])
  BY InsertedOnHead
<1>2. head \in Aggregate /\ cmd[h] \in Command /\ stream \in Seq(Event)
  BY DEF StoreInv, TypeOK
<1>3. Batch(h) = Raised(head, cmd[h])
  BY <1>1 DEF Batch
<1>4. /\ Batch(h) \in Seq(Event)
      /\ Len(Batch(h)) \in {1, 2}
      /\ \A j \in 1..Len(Batch(h)) : Batch(h)[j].version = head.version + j
  BY <1>1, <1>2, <1>3, RaisedBatch
<1>5. /\ head' \in Aggregate
      /\ head'.version = head.version + Len(Batch(h))
  BY <1>1, <1>2, <1>3, ApplyBatchType DEF InsertEvents
<1>6. stream' = stream \o Batch(h)
  BY DEF InsertEvents
<1> DEFINE n == Len(stream)
           es == Batch(h)
<1>7. /\ stream' \in Seq(Event)
      /\ Len(stream') = n + Len(es)
      /\ \A i \in 1..(n + Len(es)) :
           stream'[i] = IF i <= n THEN stream[i] ELSE es[i - n]
  BY <1>2, <1>4, <1>6, ConcatProperties
<1>8. head.version = n /\ n \in Nat /\ \A k \in 1..n : stream[k].version = k
  BY <1>2 DEF StoreInv, UnbrokenStream
<1> HIDE DEF n, es
<1>9. \A k \in 1..n : stream'[k] = stream[k]
  BY <1>4, <1>7, <1>8 DEF es
<1>10. \A j \in 1..Len(es) : stream'[n + j] = es[j]
  BY <1>4, <1>7, <1>8 DEF es
<1>11. \A k \in 1..(n + Len(es)) : stream'[k].version = k
  <2> TAKE k \in 1..(n + Len(es))
  <2>1. CASE k <= n
    BY <1>8, <1>9, <2>1
  <2>2. CASE k > n
    <3>1. k - n \in 1..Len(es) /\ k = n + (k - n)
      BY <1>4, <1>8, <2>2 DEF es
    <3>2. stream'[k] = es[k - n] /\ es[k - n].version = n + (k - n)
      BY <1>4, <1>8, <1>10, <3>1 DEF es
    <3> QED
      BY <3>1, <3>2
  <2> QED
    BY <1>8, <2>1, <2>2
<1>12. UnbrokenStream'
  BY <1>5, <1>7, <1>8, <1>11 DEF UnbrokenStream, es
<1> QED
  BY <1>4, <1>5, <1>7, <1>9, <1>10, <1>12 DEF n, es

\* The insert preserves the invariant, for the inserter and for every other
\* handler, whose copy may turn stale.
LEMMA InsertKeepsInv ==
  ASSUME StoreInv, NEW h \in Handler, InsertEvents(h)
  PROVE  StoreInv'
<1>1. /\ stream' \in Seq(Event)
      /\ Len(stream') = Len(stream) + Len(Batch(h))
      /\ Len(Batch(h)) = 1 \/ Len(Batch(h)) = 2
      /\ UnbrokenStream'
      /\ head' \in Aggregate
  BY InsertExtends
<1>a. Len(stream) \in Nat
  BY DEF StoreInv, TypeOK
<1> DEFINE m == Len(Batch(h))
<1>b. (m = 1 \/ m = 2) /\ Len(stream') = Len(stream) + m
  BY InsertExtends
<1> HIDE DEF m
<1>2. Len(stream) \in Nat /\ Len(stream') > Len(stream)
  BY <1>a, <1>b
<1>3. UNCHANGED <<cmd, copy>>
  BY DEF InsertEvents
<1>4. TypeOK'
  BY <1>1, <1>3 DEF InsertEvents, StoreInv, TypeOK, Phases
<1>5. EmptyIsBlank'
  <2>1. head \in Aggregate /\ cmd[h] \in Command
    BY DEF StoreInv, TypeOK
  <2>2. /\ Accepts(head, cmd[h])
        /\ head' = ApplyBatch(head, Raised(head, cmd[h]))
    BY InsertedOnHead DEF InsertEvents, Batch
  <2>3. cmd[h].op \in DOMAIN EventOf
    BY <2>1 DEF Command, LoadingCommands, CreateCommand, Plain, EventOf
  <2>4. head'.status = IF EventOf[cmd[h].op] \in DOMAIN StatusAfter
                       THEN StatusAfter[EventOf[cmd[h].op]] ELSE head.status
    BY <2>1, <2>2, CommandEffect
  <2>5. cmd[h].op # "Create" => head.status # "absent"
    <3>1. cmd[h].op # "Create" => copy[h].version > 0
      BY DEF InsertEvents, StoreInv, DecisionAccepted
    <3>2. copy[h] = head /\ head.version = Len(stream)
      BY InsertedOnHead DEF StoreInv, UnbrokenStream
    <3> QED
      BY <3>1, <3>2 DEF StoreInv, EmptyIsBlank
  <2>6. head'.status # "absent"
    BY <2>3, <2>4, <2>5 DEF EventOf, StatusAfter
  <2>7. stream' # <<>>
    BY <1>1, <1>2
  <2> QED
    BY <2>6, <2>7 DEF EmptyIsBlank
<1>6. \A g \in Handler : pc'[g] # "idle" <=> pc[g] # "idle"
  BY DEF InsertEvents, StoreInv, TypeOK
<1>7. VersionStandsForState'
  <2>1. \A g \in Handler : copy[g].version \in Nat
    BY DEF StoreInv, TypeOK, Aggregate
  <2>2. \A g \in Handler : copy[g].version < Len(stream')
    BY <1>1, <1>2, <2>1 DEF StoreInv, VersionStandsForState
  <2>3. Len(stream') \in Nat
    BY <1>1
  <2> QED
    BY <1>3, <2>1, <2>2, <2>3 DEF VersionStandsForState
<1>8. DecisionAccepted'
  BY <1>3, <1>6 DEF StoreInv, DecisionAccepted
<1> QED
  BY <1>1, <1>4, <1>5, <1>7, <1>8 DEF StoreInv

\* Every step of the store preserves the invariant.
LEMMA StepKeepsInv == StoreInv /\ [StoreNext]_storeVars => StoreInv'
<1> SUFFICES ASSUME StoreInv, [StoreNext]_storeVars
             PROVE  StoreInv'
  OBVIOUS
<1>1. ASSUME NEW h \in Handler, NewOrder(h) PROVE StoreInv'
  BY <1>1, NewOrderKeepsInv
<1>2. ASSUME NEW h \in Handler, NEW c \in LoadingCommands, LoadAndDecide(h, c)
      PROVE  StoreInv'
  BY <1>2, LoadKeepsInv
<1>3. ASSUME NEW h \in Handler, CheckVersion(h) PROVE StoreInv'
  BY <1>3, CheckKeepsInv
<1>4. ASSUME NEW h \in Handler, VersionConflict(h) PROVE StoreInv'
  BY <1>4, FinishKeepsInv DEF VersionConflict
<1>5. ASSUME NEW h \in Handler, InsertEvents(h) PROVE StoreInv'
  BY <1>5, InsertKeepsInv
<1>6. ASSUME NEW h \in Handler, DuplicateVersion(h) PROVE StoreInv'
  BY <1>6, FinishKeepsInv DEF DuplicateVersion
<1>7. ASSUME NEW h \in Handler, SaveFails(h) PROVE StoreInv'
  BY <1>7, FinishKeepsInv DEF SaveFails
<1>8. ASSUME NEW h \in Handler, Return(h) PROVE StoreInv'
  BY <1>8, FinishKeepsInv DEF Return
<1>9. CASE UNCHANGED storeVars
  BY <1>9 DEF storeVars, StoreInv, TypeOK, UnbrokenStream, EmptyIsBlank,
              VersionStandsForState, DecisionAccepted
<1> QED
  BY <1>1, <1>2, <1>3, <1>4, <1>5, <1>6, <1>7, <1>8, <1>9 DEF StoreNext

\* The inductive invariant of the store holds in every reachable state,
\* whatever the number of handlers, items, payments and reservations.
THEOREM StoreInvariant == StoreSpec => []StoreInv
BY InitStoreInv, StepKeepsInv, PTL DEF StoreSpec

\* Type correctness.
THEOREM StoreTypes == StoreSpec => []TypeOK
<1>1. StoreInv => TypeOK
  BY DEF StoreInv
<1> QED
  BY <1>1, StoreInvariant, PTL

\* No interleaving of Save's transactions leaves a gap or a repetition in the
\* versions of an order's events.
THEOREM StreamIsUnbroken == StoreSpec => []UnbrokenStream
<1>1. StoreInv => UnbrokenStream
  BY DEF StoreInv
<1> QED
  BY <1>1, StoreInvariant, PTL

\* The version a handler compares stands for the state it decided on.
THEOREM VersionIsState == StoreSpec => []VersionStandsForState
<1>1. StoreInv => VersionStandsForState
  BY DEF StoreInv
<1> QED
  BY <1>1, StoreInvariant, PTL

\* MAX(version), as Save reads it, agrees with the version a handler loaded
\* only when the handler's copy is the order as it is: the check of Save is
\* exact, it neither lets a stale decision through nor refuses a fresh one.
THEOREM CheckIsExact ==
  ASSUME StoreInv, stream # <<>>,
         NEW h \in Handler, pc[h] = "check", cmd[h].op # "Create"
  PROVE  CurrentVersion = Expected(h) <=> copy[h] = head
<1>1. CurrentVersion = Len(stream)
  BY MaxVersion DEF StoreInv
<1>2. Expected(h) = copy[h].version
  BY DEF Expected
<1> QED
  BY <1>1, <1>2 DEF StoreInv, VersionStandsForState, UnbrokenStream

\* Only the insert touches the stream or the order it replays to.
LEMMA OnlyInsertMoves ==
  ASSUME [StoreNext]_storeVars
  PROVE  \/ UNCHANGED <<stream, head>>
         \/ \E h \in Handler : InsertEvents(h)
BY DEF StoreNext, storeVars, NewOrder, LoadAndDecide, CheckVersion,
       VersionConflict, DuplicateVersion, SaveFails, Return

\* An insert applies one accepted command to the order as it is.
LEMMA InsertIsOneCommand ==
  ASSUME StoreInv, NEW h \in Handler, InsertEvents(h)
  PROVE  /\ head \in Aggregate /\ head' \in Aggregate
         /\ cmd[h] \in Command
         /\ Accepts(head, cmd[h])
         /\ head' = ApplyBatch(head, Raised(head, cmd[h]))
         /\ cmd[h].op = "Create" => head = Blank
         /\ cmd[h].op # "Create" => head.status # "absent"
<1>1. /\ head \in Aggregate /\ head' \in Aggregate /\ cmd[h] \in Command
      /\ copy[h] = head /\ Accepts(head, cmd[h])
  BY InsertExtends, InsertedOnHead DEF StoreInv, TypeOK
<1>2. head' = ApplyBatch(head, Raised(head, cmd[h]))
  BY <1>1 DEF InsertEvents, Batch
<1>3. cmd[h].op = "Create" => head = Blank
  BY <1>1 DEF Accepts, Recordings
<1>4. cmd[h].op # "Create" => head.status # "absent"
  <2>1. cmd[h].op # "Create" => copy[h].version > 0
    BY DEF InsertEvents, StoreInv, DecisionAccepted
  <2>2. head.version = Len(stream)
    BY DEF StoreInv, UnbrokenStream
  <2> QED
    BY <1>1, <2>1, <2>2 DEF StoreInv, EmptyIsBlank
<1> QED
  BY <1>1, <1>2, <1>3, <1>4

\* A step moves the order along an edge of its life or not at all.
LEMMA StepIsLegal == StoreInv /\ [StoreNext]_storeVars => [LegalStep]_storeVars
<1> SUFFICES ASSUME StoreInv, [StoreNext]_storeVars
             PROVE  LegalStep \/ UNCHANGED storeVars
  OBVIOUS
<1>1. CASE UNCHANGED <<stream, head>>
  BY <1>1 DEF LegalStep
<1>2. ASSUME NEW h \in Handler, InsertEvents(h) PROVE LegalStep
  <2> DEFINE c == cmd[h]
  <2>1. /\ head \in Aggregate /\ c \in Command /\ Accepts(head, c)
        /\ c.op = "Create" => head = Blank
    BY <1>2, InsertIsOneCommand
  <2>2. /\ head'.status = IF EventOf[c.op] \in DOMAIN StatusAfter
                          THEN StatusAfter[EventOf[c.op]] ELSE head.status
        /\ head'.items = CASE c.op = "AddItem"    -> head.items \cup {c.ref}
                           [] c.op = "RemoveItem" -> head.items \ {c.ref}
                           [] OTHER               -> head.items
    BY <1>2, <2>1, InsertIsOneCommand, CommandEffect
  <2>3. c.op \in DOMAIN EventOf
    BY <2>1 DEF Command, LoadingCommands, CreateCommand, Plain, EventOf
  <2> HIDE DEF c
  <2>4. head'.items # head.items => head.status = "pending"
    BY <2>1, <2>2 DEF Accepts, Recordings
  <2>5. head.status \in Statuses
    BY <2>1 DEF Aggregate
  <2>6. CASE c.op = "Create"
    BY <2>1, <2>2, <2>4, <2>6
       DEF LegalStep, LifecycleEdges, EventOf, StatusAfter, Blank
  <2>7. CASE c.op = "Confirm"
    BY <2>1, <2>2, <2>4, <2>7 DEF Accepts, Recordings, LegalStep,
                                  LifecycleEdges, EventOf, StatusAfter
  <2>8. CASE c.op = "Ship"
    BY <2>1, <2>2, <2>4, <2>8 DEF Accepts, Recordings, LegalStep,
                                  LifecycleEdges, EventOf, StatusAfter
  <2>9. CASE c.op = "Deliver"
    BY <2>1, <2>2, <2>4, <2>9 DEF Accepts, Recordings, LegalStep,
                                  LifecycleEdges, EventOf, StatusAfter
  <2>10. CASE c.op = "Cancel"
    <3>1. head.status # "absent"
      BY <1>2, <2>10, InsertIsOneCommand DEF c
    <3>2. head.status \in {"pending", "confirmed", "shipped"}
      BY <2>1, <2>5, <2>10, <3>1 DEF Accepts, Recordings, Statuses
    <3> QED
      BY <2>2, <2>4, <2>10, <3>2
         DEF LegalStep, LifecycleEdges, EventOf, StatusAfter
  <2>11. CASE c.op \notin {"Create", "Confirm", "Ship", "Deliver", "Cancel"}
    <3>1. head'.status = head.status
      BY <2>2, <2>3, <2>11 DEF EventOf, StatusAfter
    <3> QED
      BY <2>4, <3>1 DEF LegalStep
  <2> QED
    BY <2>6, <2>7, <2>8, <2>9, <2>10, <2>11
<1> QED
  BY <1>1, <1>2, OnlyInsertMoves

\* An order only ever moves along the edges of its life, and its items only
\* change while it is pending, whatever handlers race on it.
THEOREM OrderLivesLegally == StoreSpec => LegalLife
BY StoreInvariant, StepIsLegal, PTL DEF StoreSpec, LegalLife

\* An insert adds to the refunds noted in the stream what its command notes:
\* the recorded payment when it cancels a paid order, nothing otherwise.
LEMMA InsertNotesRefund ==
  ASSUME StoreInv, NEW h \in Handler, InsertEvents(h)
  PROVE  RefundsNoted' = IF cmd[h].op = "Cancel"
                         THEN RefundsNoted \cup ({head.payment} \ {None})
                         ELSE RefundsNoted
<1> DEFINE n  == Len(stream)
           es == Batch(h)
           m  == Len(es)
<1>1. /\ Len(stream') = n + m
      /\ m = 1 \/ m = 2
      /\ \A k \in 1..n : stream'[k] = stream[k]
      /\ \A j \in 1..m : stream'[n + j] = es[j]
  BY InsertExtends
<1>2. n \in Nat
  BY DEF StoreInv, TypeOK
<1>3. /\ es[1].type = EventOf[cmd[h].op]
      /\ m = 2 <=> cmd[h].op = "Cancel" /\ head.payment # None
      /\ m = 2 => es[2].type = "OrderRefunded" /\ es[2].ref = head.payment
  <2>1. /\ head \in Aggregate /\ cmd[h] \in Command /\ Accepts(head, cmd[h])
        /\ es = Raised(head, cmd[h])
    BY InsertIsOneCommand, InsertedOnHead DEF Batch
  <2> QED
    BY <2>1, RaisedBatch
<1>4. EventOf[cmd[h].op] # "OrderRefunded"
  BY InsertIsOneCommand
     DEF Command, LoadingCommands, CreateCommand, Plain, EventOf
<1> HIDE DEF n, m, es
<1>5. stream'[n + 1].type # "OrderRefunded"
  <2>1. stream'[n + 1] = es[1]
    BY <1>1
  <2> QED
    BY <1>3, <1>4, <2>1
<1>6. CASE m = 1
  <2>1. \A k \in 1..(n + 1) : k \in 1..n \/ k = n + 1
    BY <1>2
  <2>2. 1..n \subseteq 1..(n + 1)
    BY <1>2
  <2>3. {k \in 1..Len(stream') : stream'[k].type = "OrderRefunded"}
          = {k \in 1..n : stream[k].type = "OrderRefunded"}
    BY <1>1, <1>5, <1>6, <2>1, <2>2
  <2>4. RefundsNoted' = RefundsNoted
    BY <1>1, <2>3 DEF RefundsNoted, n
  <2> QED
    BY <1>3, <1>6, <2>4
<1>7. CASE m = 2
  <2>1. \A k \in 1..(n + 2) : k \in 1..n \/ k = n + 1 \/ k = n + 2
    BY <1>2
  <2>2. 1..n \subseteq 1..(n + 2) /\ n + 2 \in 1..(n + 2)
    BY <1>2
  <2>3. stream'[n + 2].type = "OrderRefunded" /\ stream'[n + 2].ref = head.payment
    BY <1>1, <1>3, <1>7
  <2>4. {k \in 1..Len(stream') : stream'[k].type = "OrderRefunded"}
          = {k \in 1..n : stream[k].type = "OrderRefunded"} \cup {n + 2}
    BY <1>1, <1>5, <1>7, <2>1, <2>2, <2>3
  <2>5. RefundsNoted' = RefundsNoted \cup {head.payment}
    <3> DEFINE Old == {k \in 1..n : stream[k].type = "OrderRefunded"}
    <3>1. RefundsNoted = {stream[k].ref : k \in Old}
      BY DEF RefundsNoted, n
    <3>2. RefundsNoted' = {stream'[k].ref : k \in Old \cup {n + 2}}
      BY <2>4 DEF RefundsNoted
    <3>3. \A k \in Old : stream'[k].ref = stream[k].ref
      BY <1>1
    <3> HIDE DEF Old
    <3> QED
      BY <2>3, <3>1, <3>2, <3>3
  <2> QED
    BY <1>3, <1>7, <2>5
<1> QED
  BY <1>1, <1>6, <1>7

\* An insert is the step of OrderLifecycle its command stands for.
LEMMA InsertIsLifeStep ==
  ASSUME StoreInv, NEW h \in Handler, InsertEvents(h)
  PROVE  [Life!Next]_(Life!vars)
<1> DEFINE c == cmd[h]
<1>1. /\ head \in Aggregate /\ c \in Command /\ Accepts(head, c)
      /\ c.op = "Create" => head = Blank
      /\ c.op # "Create" => head.status # "absent"
  BY InsertIsOneCommand
<1>2. /\ head'.status = IF EventOf[c.op] \in DOMAIN StatusAfter
                        THEN StatusAfter[EventOf[c.op]] ELSE head.status
      /\ head'.items = CASE c.op = "AddItem"    -> head.items \cup {c.ref}
                         [] c.op = "RemoveItem" -> head.items \ {c.ref}
                         [] OTHER               -> head.items
      /\ head'.payment = IF c.op = "RecordPayment" THEN c.ref
                         ELSE head.payment
      /\ head'.reservation =
           CASE c.op = "RecordInventoryReservation" -> c.ref
             [] c.op = "RecordInventoryRelease"     -> None
             [] OTHER                               -> head.reservation
  BY <1>1, InsertIsOneCommand, CommandEffect
<1>3. RefundsNoted' = IF c.op = "Cancel"
                      THEN RefundsNoted \cup ({head.payment} \ {None})
                      ELSE RefundsNoted
  BY InsertNotesRefund
<1> HIDE DEF c
<1>4. CASE c.op = "Create"
  BY <1>1, <1>2, <1>3, <1>4
     DEF Life!Next, Life!Create, EventOf, StatusAfter, Blank
<1>5. CASE c.op = "AddItem"
  <2>1. c.ref \in Item
    BY <1>1, <1>5 DEF Command, LoadingCommands, CreateCommand, Plain
  <2>2. Life!AddItem(c.ref)
    BY <1>1, <1>2, <1>3, <1>5
       DEF Life!AddItem, Accepts, Recordings, EventOf, StatusAfter
  <2> QED
    BY <2>1, <2>2 DEF Life!Next
<1>6. CASE c.op = "RemoveItem"
  <2>1. c.ref \in Item
    BY <1>1, <1>6 DEF Command, LoadingCommands, CreateCommand, Plain
  <2>2. Life!RemoveItem(c.ref)
    BY <1>1, <1>2, <1>3, <1>6
       DEF Life!RemoveItem, Accepts, Recordings, EventOf, StatusAfter
  <2> QED
    BY <2>1, <2>2 DEF Life!Next
<1>7. CASE c.op = "Confirm"
  <2>1. Life!Confirm
    BY <1>1, <1>2, <1>3, <1>7
       DEF Life!Confirm, Accepts, Recordings, EventOf, StatusAfter
  <2> QED
    BY <2>1 DEF Life!Next
<1>8. CASE c.op = "Ship"
  <2>1. Life!Ship
    BY <1>1, <1>2, <1>3, <1>8
       DEF Life!Ship, Accepts, Recordings, EventOf, StatusAfter
  <2> QED
    BY <2>1 DEF Life!Next
<1>9. CASE c.op = "Deliver"
  <2>1. Life!Deliver
    BY <1>1, <1>2, <1>3, <1>9
       DEF Life!Deliver, Accepts, Recordings, EventOf, StatusAfter
  <2> QED
    BY <2>1 DEF Life!Next
<1>10. CASE c.op = "Cancel"
  <2>1. head.status \in {"pending", "confirmed", "shipped"}
    BY <1>1, <1>10 DEF Accepts, Recordings, Aggregate, Statuses
  <2>2. Life!Cancel
    BY <1>1, <1>2, <1>3, <1>10, <2>1 DEF Life!Cancel, EventOf, StatusAfter
  <2> QED
    BY <2>2 DEF Life!Next
<1>11. CASE c.op = "RecordPayment"
  <2>1. c.ref \in Payment
    BY <1>1, <1>11 DEF Command, LoadingCommands, CreateCommand, Plain
  <2>2. Life!RecordPayment(c.ref)
    BY <1>1, <1>2, <1>3, <1>11
       DEF Life!RecordPayment, EventOf, StatusAfter
  <2> QED
    BY <2>1, <2>2 DEF Life!Next
<1>12. CASE c.op = "RecordInventoryReservation"
  <2>1. c.ref \in Reservation \cup {None}
    BY <1>1, <1>12 DEF Command, LoadingCommands, CreateCommand, Plain
  <2>2. Life!RecordReservation(c.ref)
    BY <1>1, <1>2, <1>3, <1>12
       DEF Life!RecordReservation, EventOf, StatusAfter
  <2> QED
    BY <2>1, <2>2 DEF Life!Next
<1>13. CASE c.op = "RecordInventoryRelease"
  <2>1. Life!RecordReservation(None)
    BY <1>1, <1>2, <1>3, <1>13
       DEF Life!RecordReservation, EventOf, StatusAfter
  <2> QED
    BY <2>1 DEF Life!Next
<1>14. CASE c.op = "RecordPaymentFailure"
  BY <1>1, <1>2, <1>3, <1>14 DEF Life!vars, EventOf, StatusAfter
<1> QED
  BY <1>1, <1>4, <1>5, <1>6, <1>7, <1>8, <1>9, <1>10, <1>11, <1>12, <1>13,
     <1>14 DEF Accepts, Recordings

\* Every step of the store is a step of OrderLifecycle or a stutter.
LEMMA StepIsLifeStep ==
  StoreInv /\ [StoreNext]_storeVars => [Life!Next]_(Life!vars)
<1> SUFFICES ASSUME StoreInv, [StoreNext]_storeVars
             PROVE  [Life!Next]_(Life!vars)
  OBVIOUS
<1>1. CASE UNCHANGED <<stream, head>>
  BY <1>1 DEF Life!vars, RefundsNoted
<1>2. ASSUME NEW h \in Handler, InsertEvents(h)
      PROVE  [Life!Next]_(Life!vars)
  BY <1>2, InsertIsLifeStep
<1> QED
  BY <1>1, <1>2, OnlyInsertMoves

\* The empty store is an absent order.
LEMMA InitIsLifeInit == StoreInit => Life!Init
BY DEF StoreInit, Life!Init, Blank, RefundsNoted

\* Replay, optimistic version check and unique constraint together make the
\* store behave as an order to which whole commands happen one at a time.
THEOREM StoreImplementsLifecycle == StoreSpec => ImplementsLifecycle
<1>1. StoreInv /\ [StoreNext]_storeVars => [Life!Next]_(Life!vars)
  BY StepIsLifeStep
<1> QED
  BY <1>1, InitIsLifeInit, StoreInvariant, PTL
     DEF StoreSpec, ImplementsLifecycle, Life!Spec

-----------------------------------------------------------------------------
\* What was paid before an event is what was paid before it when it was saved.
LEMMA PaidBeforeStays ==
  ASSUME StoreInv, NEW h \in Handler, InsertEvents(h),
         NEW k \in 1..(Len(stream) + 1), NEW p
  PROVE  PaidBefore(stream', k, p) <=> PaidBefore(stream, k, p)
<1>1. \A j \in 1..Len(stream) : stream'[j] = stream[j]
  BY InsertExtends
<1>2. Len(stream) \in Nat
  BY DEF StoreInv, TypeOK
<1>3. /\ \A j \in 1..(k - 1) : j \in 1..Len(stream)
      /\ \A j \in 1..(k - 1) : \A i \in (j + 1)..(k - 1) : i \in 1..Len(stream)
  BY <1>2
<1> QED
  BY <1>1, <1>3 DEF PaidBefore

\* The payment on record after an insert is the one its command recorded.
LEMMA InsertKeepsRecord ==
  ASSUME StoreInv, PaymentOnRecord, NEW h \in Handler, InsertEvents(h)
  PROVE  PaymentOnRecord'
<1> DEFINE n == Len(stream)
           m == Len(Batch(h))
           c == cmd[h]
<1>1. /\ Len(stream') = n + m /\ (m = 1 \/ m = 2)
      /\ stream'[n + 1] = Batch(h)[1]
      /\ m = 2 => stream'[n + 2] = Batch(h)[2]
  <2>1. /\ Len(stream') = n + m /\ (m = 1 \/ m = 2)
        /\ \A j \in 1..m : stream'[n + j] = Batch(h)[j]
    BY InsertExtends
  <2> QED
    BY <2>1
<1>a. (m = 1 \/ m = 2) /\ Len(stream') = n + m
  BY InsertExtends
<1>2. /\ head \in Aggregate /\ c \in Command /\ Accepts(head, c)
      /\ head' = ApplyBatch(head, Raised(head, c)) /\ Batch(h) = Raised(head, c)
  BY InsertIsOneCommand, InsertedOnHead DEF Batch
<1>3. /\ Batch(h)[1].type = EventOf[c.op] /\ Batch(h)[1].ref = c.ref
      /\ m = 2 => Batch(h)[2].type = "OrderRefunded" /\ c.op = "Cancel"
  BY <1>2, RaisedBatch
<1>4. head'.payment = IF c.op = "RecordPayment" THEN c.ref ELSE head.payment
  BY <1>2, CommandEffect
<1>5. EventOf[c.op] = "PaymentProcessed" <=> c.op = "RecordPayment"
  BY <1>2 DEF Command, LoadingCommands, CreateCommand, Plain, EventOf
<1>6. n \in Nat
  BY DEF StoreInv, TypeOK
<1>7. stream'[n + 1].type = "PaymentProcessed" <=> c.op = "RecordPayment"
  BY <1>1, <1>a, <1>3, <1>5
<1>8. c.op = "RecordPayment" => stream'[n + 1].ref = c.ref /\ m = 1
  BY <1>1, <1>a, <1>3
<1>9. m = 2 => stream'[n + 2].type # "PaymentProcessed"
  BY <1>1, <1>3
<1> SUFFICES ASSUME NEW p \in Payment
             PROVE  head'.payment = p <=> PaidBefore(stream', Len(stream') + 1, p)
  BY DEF PaymentOnRecord
<1> HIDE DEF n, m, c
<1>10. PaidBefore(stream', n + 1, p) <=> head.payment = p
  BY <1>6, PaidBeforeStays DEF PaymentOnRecord, n
<1>11. Len(stream') + 1 = n + m + 1
  BY <1>a
<1>12. CASE c.op = "RecordPayment"
  <2>1. ASSUME NEW j \in 1..(n + 1), stream'[j].type = "PaymentProcessed",
               \A i \in (j + 1)..(n + 1) : stream'[i].type # "PaymentProcessed"
        PROVE  j = n + 1
    <3>1. j < n + 1 => n + 1 \in (j + 1)..(n + 1)
      BY <1>6
    <3> QED
      BY <1>6, <1>7, <1>12, <2>1, <3>1
  <2>2. n + 1 \in 1..(n + 1) /\ (n + 1 + 1)..(n + 1) = {}
    BY <1>6
  <2>3. (\E j \in 1..(n + 1) :
           /\ stream'[j].type = "PaymentProcessed" /\ stream'[j].ref = p
           /\ \A i \in (j + 1)..(n + 1) : stream'[i].type # "PaymentProcessed")
        <=> c.ref = p
    BY <1>7, <1>8, <1>12, <2>1, <2>2
  <2>4. Len(stream') + 1 = n + 2 /\ n + 2 - 1 = n + 1
    BY <1>6, <1>8, <1>11, <1>12
  <2> QED
    BY <1>6, <1>4, <1>12, <2>3, <2>4 DEF PaidBefore
<1>13. CASE c.op # "RecordPayment"
  <2>1. \A i \in 1..(n + m) : stream'[i].type = "PaymentProcessed" => i \in 1..n
    <3>1. \A i \in 1..(n + m) : i \in 1..n \/ i = n + 1 \/ (m = 2 /\ i = n + 2)
      BY <1>a, <1>6
    <3> QED
      BY <1>7, <1>9, <1>13, <3>1
  <2>2. 1..n \subseteq 1..(n + m) /\ n + 1 - 1 = n /\ n + m + 1 - 1 = n + m
    BY <1>a, <1>6
  <2>3. ASSUME NEW j \in 1..n
        PROVE  (\A i \in (j + 1)..n : stream'[i].type # "PaymentProcessed")
               <=> \A i \in (j + 1)..(n + m) : stream'[i].type # "PaymentProcessed"
    <3>1. \A i \in (j + 1)..(n + m) : i \in 1..(n + m) /\ (i \in 1..n => i \in (j + 1)..n)
      BY <1>a, <1>6
    <3>2. (j + 1)..n \subseteq (j + 1)..(n + m)
      BY <1>a, <1>6
    <3> QED
      BY <2>1, <3>1, <3>2
  <2>4. PaidBefore(stream', n + 1, p) <=> PaidBefore(stream', n + m + 1, p)
    BY <1>6, <1>a, <2>1, <2>2, <2>3 DEF PaidBefore
  <2> QED
    BY <1>4, <1>10, <1>11, <1>13, <2>4
<1> QED
  BY <1>12, <1>13

\* A cancellation is saved with the note of the refund of what is on record.
LEMMA InsertKeepsNotes ==
  ASSUME StoreInv, PaymentOnRecord, RefundNoteFollowsCancel,
         NEW h \in Handler, InsertEvents(h)
  PROVE  RefundNoteFollowsCancel'
<1> DEFINE n == Len(stream)
           m == Len(Batch(h))
           c == cmd[h]
<1>1. /\ m = 1 \/ m = 2
      /\ \A k \in 1..n : stream'[k] = stream[k]
      /\ \A j \in 1..m : stream'[n + j] = Batch(h)[j]
  BY InsertExtends
<1>2. Len(stream') = n + m
  BY InsertExtends
<1>3. /\ head \in Aggregate /\ c \in Command /\ Accepts(head, c)
      /\ Batch(h) = Raised(head, c)
  BY InsertIsOneCommand, InsertedOnHead DEF Batch
<1>4. /\ Batch(h)[1].type = EventOf[c.op]
      /\ m = 2 <=> c.op = "Cancel" /\ head.payment # None
      /\ m = 2 => Batch(h)[2].type = "OrderRefunded" /\ Batch(h)[2].ref = head.payment
  BY <1>3, RaisedBatch
<1>5. /\ EventOf[c.op] # "OrderRefunded"
      /\ EventOf[c.op] = "OrderCancelled" <=> c.op = "Cancel"
  BY <1>3 DEF Command, LoadingCommands, CreateCommand, Plain, EventOf
<1>6. n \in Nat
  BY DEF StoreInv, TypeOK
<1>7. /\ stream'[n + 1].type = EventOf[c.op]
      /\ m = 2 => stream'[n + 2].type = "OrderRefunded" /\ stream'[n + 2].ref = head.payment
  BY <1>1, <1>4
<1>8. head.payment # None => head.payment \in Payment
  BY <1>3 DEF Aggregate
<1> HIDE DEF n, m, c
<1>9. \A p \in Payment : PaidBefore(stream', n + 1, p) <=> head.payment = p
  BY <1>6, PaidBeforeStays DEF PaymentOnRecord, n
<1> SUFFICES ASSUME NEW k \in 1..(n + m)
      PROVE  /\ stream'[k].type = "OrderRefunded" =>
                  /\ k > 1
                  /\ stream'[k - 1].type = "OrderCancelled"
                  /\ PaidBefore(stream', k, stream'[k].ref)
             /\ /\ stream'[k].type = "OrderCancelled"
                /\ \E p \in Payment : PaidBefore(stream', k, p)
                => k < n + m /\ stream'[k + 1].type = "OrderRefunded"
  BY <1>2 DEF RefundNoteFollowsCancel
<1>10. CASE k \in 1..n
  <2>1. stream'[k] = stream[k] /\ \A p : PaidBefore(stream', k, p) <=> PaidBefore(stream, k, p)
    <3>1. k \in 1..(n + 1)
      BY <1>6, <1>10
    <3> QED
      BY <1>1, <1>10, <3>1, PaidBeforeStays DEF n
  <2>2. k > 1 => stream'[k - 1] = stream[k - 1]
    <3>1. k > 1 => k - 1 \in 1..n
      BY <1>6, <1>10
    <3> QED
      BY <1>1, <3>1
  <2>3. k < n => k < n + m /\ stream'[k + 1] = stream[k + 1]
    <3>1. k < n => k + 1 \in 1..n
      BY <1>6, <1>10
    <3>2. k < n => k < n + m
      BY <1>1, <1>6, <1>10
    <3> QED
      BY <1>1, <3>1, <3>2
  <2> QED
    BY <1>10, <2>1, <2>2, <2>3 DEF RefundNoteFollowsCancel, n
<1>11. CASE k = n + 1
  <2>1. stream'[k].type # "OrderRefunded"
    BY <1>5, <1>7, <1>11
  <2>2. ASSUME stream'[k].type = "OrderCancelled", NEW p \in Payment, PaidBefore(stream', k, p)
        PROVE  k < n + m /\ stream'[k + 1].type = "OrderRefunded"
    <3>1. head.payment = p /\ p # None
      BY <1>9, <1>11, <2>2, RefAssumption
    <3>2. m = 2
      BY <1>4, <1>5, <1>7, <1>11, <2>2, <3>1
    <3>3. k + 1 = n + 2 /\ k < n + 2
      BY <1>6, <1>11
    <3> QED
      BY <1>7, <3>2, <3>3
  <2> QED
    BY <2>1, <2>2
<1>12. CASE m = 2 /\ k = n + 2
  <2>1. /\ stream'[n + 1].type = "OrderCancelled" /\ stream'[k].type = "OrderRefunded"
        /\ stream'[k].ref = head.payment /\ head.payment \in Payment
    BY <1>4, <1>5, <1>7, <1>8, <1>12
  <2>2. PaidBefore(stream', n + 1, head.payment)
    BY <1>9, <2>1
  <2>3. PICK j \in 1..n : /\ stream'[j].type = "PaymentProcessed"
                          /\ stream'[j].ref = head.payment
                          /\ \A i \in (j + 1)..n : stream'[i].type # "PaymentProcessed"
    <3>1. n + 1 - 1 = n
      BY <1>6
    <3> QED
      BY <1>6, <2>2, <3>1 DEF PaidBefore
  <2>4. \A i \in (j + 1)..(n + 1) : i \in (j + 1)..n \/ i = n + 1
    BY <1>6
  <2>5. j \in 1..(n + 1) /\ k - 1 = n + 1 /\ k > 1
    BY <1>6, <1>12
  <2>6. PaidBefore(stream', k, head.payment)
    BY <2>1, <2>3, <2>4, <2>5 DEF PaidBefore
  <2> QED
    BY <2>1, <2>5, <2>6
<1>13. k \in 1..n \/ k = n + 1 \/ (m = 2 /\ k = n + 2)
  BY <1>1, <1>6
<1> QED
  BY <1>10, <1>11, <1>12, <1>13

\* In the stream of an order a cancellation is followed by the note of a refund
\* exactly if the order was paid, and the note is of its last payment, whatever
\* handlers raced to pay and to cancel it.
THEOREM RefundsAreNoted == StoreSpec => []RefundNoteFollowsCancel
<1> DEFINE Notes == PaymentOnRecord /\ RefundNoteFollowsCancel
<1>1. StoreInit => Notes
  BY RefAssumption DEF StoreInit, PaymentOnRecord, RefundNoteFollowsCancel, PaidBefore, Blank
<1>2. StoreInv /\ Notes /\ [StoreNext]_storeVars => Notes'
  <2> SUFFICES ASSUME StoreInv, Notes, [StoreNext]_storeVars PROVE Notes'
    OBVIOUS
  <2>1. CASE UNCHANGED <<stream, head>>
    BY <2>1 DEF PaymentOnRecord, RefundNoteFollowsCancel, PaidBefore
  <2>2. ASSUME NEW h \in Handler, InsertEvents(h) PROVE Notes'
    BY <2>2, InsertKeepsRecord, InsertKeepsNotes
  <2> QED
    BY <2>1, <2>2, OnlyInsertMoves
<1>3. Notes => RefundNoteFollowsCancel
  OBVIOUS
<1> QED
  BY <1>1, <1>2, <1>3, StoreInvariant, PTL DEF StoreSpec

=============================================================================
