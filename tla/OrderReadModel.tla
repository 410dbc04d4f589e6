--------------------------- MODULE OrderReadModel ---------------------------
(***************************************************************************)
(* The row of an order in order_read_model, with its item rows, and        *)
(* everything that writes it, none of which compares versions:             *)
(*   - the handler that saved the events projects them one statement at a  *)
(*     time before it returns (projectEvents),                             *)
(*   - the Kafka consumers of the service project what arrives on the      *)
(*     topic the same events were published to,                            *)
(*   - GET /orders/:id projects the whole history again when it finds no   *)
(*     row or no items (rebuildFromEvents).                                *)
(*                                                                         *)
(* A Handler stands for a replica that handles one command at a time, so   *)
(* each has its own asynchronous kafka writer.  The LeastBytes balancer    *)
(* ignores the key of a message: any message may go to any partition.  The *)
(* partition is chosen at delivery, which the readers cannot tell from a   *)
(* choice at WriteMessages because partitions are not ordered.  A writer   *)
(* that retries and a consumer that reads again both duplicate messages;   *)
(* only the second is modelled.                                            *)
(***************************************************************************)
EXTENDS OrderStore

CONSTANTS
  Partition,      \* the partitions of the order-events topic
  Fault,          \* what may go wrong in this instance
  MaxRebalances   \* bound: how often partitions are reassigned

Faults ==
  { "crash",       \* a replica stops
    "lost",        \* the writer gives up on a message
    "projection",  \* a statement of projectEvents fails, which is logged
    "consumer",    \* a statement of the consumer fails, which is logged
    "rebalance",   \* a partition is read again from its committed offset
    "rebuild" }    \* clients read the order

ASSUME FaultAssumption == Fault \subseteq Faults /\ MaxRebalances \in Nat

VARIABLES
  row,         \* the order's row, an absent aggregate while there is none
  todo,        \* todo[h]: the saved events h has not projected yet
  queue,       \* queue[h]: the messages the writer of h has not delivered
  topic,       \* topic[q]: the messages of partition q
  position,    \* position[q]: how many of them its consumer has fetched
  committed,   \* committed[q]: the consumer group's offset
  rebalances,  \* how often partitions were reassigned
  reader       \* the GET in progress: history at+1..upto is to be projected

projectionVars == <<row, todo, queue>>
kafkaVars == <<topic, position, committed, rebalances>>
readVars == <<storeVars, projectionVars, kafkaVars, reader>>

Idle == [phase |-> "idle", at |-> 0, upto |-> 0]

(***************************************************************************)
(* What one event does to the row.                                         *)
(***************************************************************************)
Ignored == {"PaymentFailed", "OrderRefunded"}

\* Mutant: InventoryReleased has no case in Project.
ProjectedNoRelease(r, e) ==
  IF e.type = "OrderCreated"
  THEN IF r.status = "absent" THEN Apply(Blank, e) ELSE r
  ELSE IF r.status = "absent" \/ e.type \in Ignored \cup {"InventoryReleased"}
       THEN r ELSE Apply(r, e)

\* OrderProjection.Project.  The insert of OrderCreated does nothing when the
\* row is there; the other statements do nothing, or fail on the foreign key,
\* when it is not.
Projected(r, e) ==
  IF e.type = "OrderCreated"
  THEN IF r.status = "absent" THEN Apply(Blank, e) ELSE r
  ELSE IF r.status = "absent" \/ e.type \in Ignored THEN r ELSE Apply(r, e)

(***************************************************************************)
(* The handlers.                                                           *)
(***************************************************************************)
ReadInit ==
  /\ StoreInit
  /\ row = Blank
  /\ todo = [h \in Handler |-> <<>>]
  /\ queue = [h \in Handler |-> <<>>]
  /\ topic = [q \in Partition |-> <<>>]
  /\ position = [q \in Partition |-> 0]
  /\ committed = [q \in Partition |-> 0]
  /\ rebalances = 0
  /\ reader = Idle

\* Up to the commit of Save, and its failures, nothing here is touched.
Decide(h) ==
  /\ \/ NewOrder(h)
     \/ \E c \in LoadingCommands : LoadAndDecide(h, c)
     \/ CheckVersion(h)
     \/ VersionConflict(h)
     \/ SaveFails(h)
  /\ UNCHANGED <<projectionVars, kafkaVars, reader>>

\* EventStoreWithKafka.Save: the commit, then WriteMessages, which with Async
\* only hands the batch to the writer of this process.
SaveAndPublish(h) ==
  /\ InsertEvents(h)
  /\ todo' = [todo EXCEPT ![h] = Batch(h)]
  /\ queue' = [queue EXCEPT ![h] = @ \o Batch(h)]
  /\ UNCHANGED <<row, kafkaVars, reader>>

\* Mutant: the error of the wrapped Save does not stop the publishing.
PublishDespiteError(h) ==
  /\ DuplicateVersion(h)
  /\ queue' = [queue EXCEPT ![h] = @ \o Batch(h)]
  /\ UNCHANGED <<row, todo, kafkaVars, reader>>

\* EventStoreWithKafka.Save returns the error of the wrapped Save.
SaveRefused(h) ==
  /\ DuplicateVersion(h)
  /\ UNCHANGED <<projectionVars, kafkaVars, reader>>

\* projectEvents, one event at a time; a failure is logged and passed over.
ProjectNext(h) ==
  /\ pc[h] = "saved"
  /\ todo[h] # <<>>
  /\ \/ row' = Projected(row, Head(todo[h]))
     \/ "projection" \in Fault /\ UNCHANGED row
  /\ todo' = [todo EXCEPT ![h] = Tail(@)]
  /\ UNCHANGED <<storeVars, queue, kafkaVars, reader>>

Reply(h) ==
  /\ todo[h] = <<>>
  /\ Return(h)
  /\ UNCHANGED <<projectionVars, kafkaVars, reader>>

\* The replica stops; what only it knew is gone.
Crash(h) ==
  /\ "crash" \in Fault
  /\ pc[h] # "idle" \/ queue[h] # <<>>
  /\ Finish(h)
  /\ todo' = [todo EXCEPT ![h] = <<>>]
  /\ queue' = [queue EXCEPT ![h] = <<>>]
  /\ UNCHANGED <<stream, head, row, kafkaVars, reader>>

(***************************************************************************)
(* Kafka and the consumers.                                                *)
(***************************************************************************)
Deliver(h, q) ==
  /\ queue[h] # <<>>
  /\ topic' = [topic EXCEPT ![q] = Append(@, Head(queue[h]))]
  /\ queue' = [queue EXCEPT ![h] = Tail(@)]
  /\ UNCHANGED <<storeVars, row, todo, position, committed, rebalances, reader>>

\* The writer's Completion logs the error after its attempts; nobody resends.
DeliveryLost(h) ==
  /\ "lost" \in Fault
  /\ queue[h] # <<>>
  /\ queue' = [queue EXCEPT ![h] = Tail(@)]
  /\ UNCHANGED <<storeVars, row, todo, kafkaVars, reader>>

\* Mutant: an event Project has no case for is an error the consumer does not
\* commit past, so that it is fetched again for ever.
StallOnIgnored(q) ==
  /\ position[q] < Len(topic[q])
  /\ topic[q][position[q] + 1].type \notin Ignored
  /\ row' = Projected(row, topic[q][position[q] + 1])
  /\ position' = [position EXCEPT ![q] = @ + 1]
  /\ UNCHANGED <<storeVars, todo, queue, topic, committed, rebalances, reader>>

\* consumeLoop and processMessage: the position advances whether or not the
\* event could be decoded (OrderRefunded cannot) and projected.
Consume(q) ==
  /\ position[q] < Len(topic[q])
  /\ \/ row' = Projected(row, topic[q][position[q] + 1])
     \/ "consumer" \in Fault /\ UNCHANGED row
  /\ position' = [position EXCEPT ![q] = @ + 1]
  /\ UNCHANGED <<storeVars, todo, queue, topic, committed, rebalances, reader>>

\* CommitMessages reaches the broker once in a CommitInterval.
CommitOffset(q) ==
  /\ committed[q] < position[q]
  /\ committed' = [committed EXCEPT ![q] = position[q]]
  /\ UNCHANGED <<storeVars, projectionVars, topic, position, rebalances, reader>>

\* Another replica takes the partition over, or this one restarts.
Rebalance(q) ==
  /\ "rebalance" \in Fault
  /\ rebalances < MaxRebalances
  /\ committed[q] < position[q]
  /\ position' = [position EXCEPT ![q] = committed[q]]
  /\ rebalances' = rebalances + 1
  /\ UNCHANGED <<storeVars, projectionVars, topic, committed, reader>>

(***************************************************************************)
(* GET /orders/:id.                                                        *)
(***************************************************************************)

\* The row is missing or shows no items; a reader that finds both returns.
GetFindsNothing ==
  /\ "rebuild" \in Fault
  /\ reader.phase = "idle"
  /\ row.status = "absent" \/ row.items = {}
  /\ reader' = [Idle EXCEPT !.phase = "missed"]
  /\ UNCHANGED <<storeVars, projectionVars, kafkaVars>>

\* rebuildFromEvents reads the history, and answers 404 if there is none.
GetLoadsHistory ==
  /\ reader.phase = "missed"
  /\ reader' = IF stream = <<>> THEN Idle
               ELSE [phase |-> "replaying", at |-> 0, upto |-> Len(stream)]
  /\ UNCHANGED <<storeVars, projectionVars, kafkaVars>>

\* ... and projects it again, event by event, passing over errors.
GetProjectsNext ==
  /\ reader.phase = "replaying"
  /\ \/ row' = Projected(row, stream[reader.at + 1])
     \/ "projection" \in Fault /\ UNCHANGED row
  /\ reader' = IF reader.at + 1 = reader.upto THEN Idle
               ELSE [reader EXCEPT !.at = @ + 1]
  /\ UNCHANGED <<storeVars, todo, queue, kafkaVars>>

ReadNext ==
  \/ \E h \in Handler :
       \/ Decide(h)
       \/ SaveAndPublish(h)
       \/ SaveRefused(h)
       \/ ProjectNext(h)
       \/ Reply(h)
       \/ Crash(h)
       \/ DeliveryLost(h)
       \/ \E q \in Partition : Deliver(h, q)
  \/ \E q \in Partition : Consume(q) \/ CommitOffset(q) \/ Rebalance(q)
  \/ GetFindsNothing
  \/ GetLoadsHistory
  \/ GetProjectsNext

ReadSpec == ReadInit /\ [][ReadNext]_readVars

\* A handler that saved its events goes on to return, the writer delivers its
\* queue and the consume loop runs.  Nobody has to issue a command.
ReadFairness ==
  /\ \A h \in Handler :
       /\ WF_readVars(ProjectNext(h))
       /\ WF_readVars(\E q \in Partition : Deliver(h, q))
  /\ \A q \in Partition : WF_readVars(Consume(q))

FairReadSpec == ReadSpec /\ ReadFairness

(***************************************************************************)
(* Properties.                                                             *)
(***************************************************************************)

Committed == {stream[k] : k \in 1..Len(stream)}

SeqRange(s) == {s[k] : k \in 1..Len(s)}

\* No event of a save that was refused or rolled back is ever projected or
\* published, and what the row shows was written by committed events.
NothingUncommittedShows ==
  /\ \A h \in Handler : SeqRange(todo[h]) \cup SeqRange(queue[h]) \subseteq Committed
  /\ \A q \in Partition : SeqRange(topic[q]) \subseteq Committed
  /\ row.status # "absent" =>
       \E e \in Committed :
         e.version = row.version /\ Projected(row, e) = row

\* The row shows the order, up to the version, which events that are not
\* projected leave behind.
RowMatches ==
  /\ row.status = head.status
  /\ row.items = head.items
  /\ row.payment = head.payment
  /\ row.reservation = head.reservation

Quiet == \A h \in Handler : pc[h] = "idle"

Drained ==
  /\ \A h \in Handler : queue[h] = <<>>
  /\ \A q \in Partition : position[q] = Len(topic[q])

\* Once nothing is being handled and every message has been consumed, the
\* row shows the order: the two projections of each event end in agreement.
SettledRowMatches == Quiet /\ Drained => RowMatches

\* What the proofs use.  Every variable has its type, and an offset is in its
\* log, and a rebuild in its history.
ReadTypeOK ==
  /\ row \in Aggregate
  /\ todo \in [Handler -> Seq(Event)] /\ queue \in [Handler -> Seq(Event)]
  /\ topic \in [Partition -> Seq(Event)]
  /\ position \in [Partition -> Nat] /\ committed \in [Partition -> Nat]
  /\ \A q \in Partition : committed[q] <= position[q] /\ position[q] <= Len(topic[q])
  /\ reader \in [phase : {"idle", "missed", "replaying"}, at : Nat, upto : Nat]
  /\ reader.phase = "replaying" => reader.at < reader.upto /\ reader.upto <= Len(stream)

ReadInv == StoreInv /\ ReadTypeOK /\ NothingUncommittedShows

\* What an order shows, field by field: an item is a field of its own.
Field ==
  [of : {"status", "payment", "reservation"}, item : {None}]
  \cup [of : {"item"}, item : Item]

Shown(a, f) == IF f.of = "item" THEN a.items \cap {f.item} ELSE a[f.of]

Touches(e, f) ==
  \/ f.of = "status" /\ e.type \in DOMAIN StatusAfter
  \/ f.of = "payment" /\ e.type = "PaymentProcessed"
  \/ f.of = "reservation" /\ e.type \in {"InventoryReserved", "InventoryReleased"}
  \/ f.of = "item" /\ e.type \in {"OrderItemAdded", "OrderItemRemoved"} /\ e.ref = f.item

LastTouch(f, k) ==
  /\ Touches(stream[k], f)
  /\ \A j \in (k + 1)..Len(stream) : ~Touches(stream[j], f)

\* With one writer and one partition the messages keep the order of the stream
\* and what is to be projected is the end of it, and nobody rebuilds ...
EndsWith(s, e) ==
  \E m \in 1..Len(s) :
    /\ s[m] = e
    /\ e.type \notin Ignored => \A j \in (m + 1)..Len(s) : s[j].type \in Ignored

OneLog ==
  /\ reader = Idle
  /\ \A h \in Handler, q \in Partition : topic[q] \o queue[h] = stream
  /\ \A h \in Handler : \A k \in 1..Len(todo[h]) : EndsWith(stream, todo[h][k])

\* ... the row is there once the first message was consumed, with a status that
\* some event gave it ...
RowGrounded ==
  /\ \A k \in 1..Len(stream) : stream[k].type = "OrderCreated" <=> k = 1
  /\ \A q \in Partition : position[q] > 0 => row.status # "absent"
  /\ row.status = "absent" => row = Blank
  /\ row.status # "absent" =>
       \E k \in 1..Len(stream) :
         /\ stream[k].type \in DOMAIN StatusAfter
         /\ row.status = StatusAfter[stream[k].type]

\* ... and a field shows what it should once the last event that touches it was
\* consumed, however often earlier ones are consumed again before that.
FieldSettled(f) ==
  \/ /\ \A k \in 1..Len(stream) : ~Touches(stream[k], f)
     /\ Shown(head, f) = Shown(Blank, f) /\ Shown(row, f) = Shown(Blank, f)
  \/ \E k \in 1..Len(stream) :
       /\ LastTouch(f, k)
       /\ Shown(head, f) = Shown(Apply(Blank, stream[k]), f)
       /\ \A q \in Partition : k <= position[q] => Shown(row, f) = Shown(head, f)

SettledInv == OneLog /\ RowGrounded /\ \A f \in Field : FieldSettled(f)

\* Whatever the consumer replays, the row comes to show the order for good.
\* (The instance issues finitely many commands.)
RowConverges == <>[](stream # <<>> => RowMatches)

\* "synchronously updates the read model for read-after-write consistency":
\* when no command is being handled the row shows what the last one wrote.
ReadAfterWrite == Quiet => RowMatches

=============================================================================
