----------------------------- MODULE OrderStore -----------------------------
(***************************************************************************)
(* The command handlers of order-service over the Postgres event store,    *)
(* for one order.  A handler is one invocation of CommandHandler.Handle:   *)
(* an HTTP request, a step of a saga or an event of the external consumer, *)
(* in any replica.  Every handler                                          *)
(*   - loads the order by replaying its stream and decides on that copy,   *)
(*   - opens a transaction and compares MAX(version) with the version it   *)
(*     loaded,                                                             *)
(*   - inserts its events, which the UNIQUE (aggregate_id, version)        *)
(*     constraint refuses when another transaction took the version,       *)
(*   - has the events projected, and returns.                              *)
(* Nothing is locked between these steps and nothing is retried.           *)
(*                                                                         *)
(* head is the aggregate that replaying the whole stream gives.  It is     *)
(* kept beside the stream, one Apply per inserted event, which is how      *)
(* LoadFromHistory computes it from the first row on.                      *)
(***************************************************************************)
EXTENDS OrderAggregate

CONSTANTS
  Handler,    \* concurrent invocations of the command handler
  MaxEvents   \* bound: no command starts on a stream this long

ASSUME MaxEventsAssumption == MaxEvents \in Nat

VARIABLES
  stream,  \* the rows of the events table, in the order they were inserted
  head,    \* the replay of the stream
  pc,      \* pc[h]: what handler h does next
  cmd,     \* cmd[h]: the command it handles
  copy     \* copy[h]: the aggregate it loaded and decided on

storeVars == <<stream, head, pc, cmd, copy>>

Phases == {"idle", "check", "insert", "saved"}

(***************************************************************************)
(* What a handler works out from its copy.                                 *)
(***************************************************************************)

\* The events it wants to save: the uncommitted events of its copy.
Batch(h) == Raised(copy[h], cmd[h])

\* Save's expectedVersion: order.Version - len(events), or -1 for a new one.
Expected(h) == IF cmd[h].op = "Create" THEN -1 ELSE copy[h].version

\* SELECT COALESCE(MAX(version), -1)
CurrentVersion ==
  IF stream = <<>> THEN -1
  ELSE CHOOSE v \in {stream[k].version : k \in 1..Len(stream)} :
         \A k \in 1..Len(stream) : stream[k].version <= v

\* A row of the batch would repeat the version of a row of the table.
Collides(es) ==
  \E j \in 1..Len(es), k \in 1..Len(stream) :
    es[j].version = stream[k].version

(***************************************************************************)
(* The steps of a handler.                                                 *)
(***************************************************************************)
StoreInit ==
  /\ stream = <<>>
  /\ head = Blank
  /\ pc = [h \in Handler |-> "idle"]
  /\ cmd = [h \in Handler |-> CreateCommand]
  /\ copy = [h \in Handler |-> Blank]

\* The handler returns; its command and its copy go out of scope.
Finish(h) ==
  /\ pc' = [pc EXCEPT ![h] = "idle"]
  /\ cmd' = [cmd EXCEPT ![h] = CreateCommand]
  /\ copy' = [copy EXCEPT ![h] = Blank]

\* handleCreateOrder builds a new aggregate instead of loading one.  The id
\* is a fresh uuid, so no other command of this order can be under way.
NewOrder(h) ==
  /\ stream = <<>>
  /\ \A g \in Handler : pc[g] = "idle"
  /\ pc' = [pc EXCEPT ![h] = "check"]
  /\ cmd' = [cmd EXCEPT ![h] = CreateCommand]
  /\ copy' = [copy EXCEPT ![h] = Blank]
  /\ UNCHANGED <<stream, head>>

\* Mutant: the replay leaves out PaymentProcessed.
LoadWithoutPayment(h, c) ==
  /\ pc[h] = "idle"
  /\ stream # <<>>
  /\ Len(stream) < MaxEvents
  /\ Accepts(head, c)
  /\ pc' = [pc EXCEPT ![h] = "check"]
  /\ cmd' = [cmd EXCEPT ![h] = c]
  /\ copy' = [copy EXCEPT ![h] = [head EXCEPT !.payment = None]]
  /\ UNCHANGED <<stream, head>>

\* loadOrder and the aggregate's method.  A command the method refuses
\* returns its error here and leaves no trace.
LoadAndDecide(h, c) ==
  /\ pc[h] = "idle"
  /\ stream # <<>>
  /\ Len(stream) < MaxEvents
  /\ Accepts(head, c)
  /\ pc' = [pc EXCEPT ![h] = "check"]
  /\ cmd' = [cmd EXCEPT ![h] = c]
  /\ copy' = [copy EXCEPT ![h] = head]
  /\ UNCHANGED <<stream, head>>

\* Save: the version check of the transaction passes.
CheckVersion(h) ==
  /\ pc[h] = "check"
  /\ CurrentVersion = Expected(h)
  /\ pc' = [pc EXCEPT ![h] = "insert"]
  /\ UNCHANGED <<stream, head, cmd, copy>>

\* Save: "concurrency conflict: aggregate version mismatch".
VersionConflict(h) ==
  /\ pc[h] = "check"
  /\ CurrentVersion # Expected(h)
  /\ Finish(h)
  /\ UNCHANGED <<stream, head>>

\* Mutant: the table has no unique constraint.
InsertUnconstrained(h) ==
  /\ pc[h] = "insert"
  /\ stream' = stream \o Batch(h)
  /\ head' = ApplyBatch(head, Batch(h))
  /\ pc' = [pc EXCEPT ![h] = "saved"]
  /\ UNCHANGED <<cmd, copy>>

\* Save: the inserts and the commit, all rows of the batch or none.
InsertEvents(h) ==
  /\ pc[h] = "insert"
  /\ ~Collides(Batch(h))
  /\ stream' = stream \o Batch(h)
  /\ head' = ApplyBatch(head, Batch(h))
  /\ pc' = [pc EXCEPT ![h] = "saved"]
  /\ UNCHANGED <<cmd, copy>>

\* Save: the unique constraint refuses a row and the transaction rolls back.
DuplicateVersion(h) ==
  /\ pc[h] = "insert"
  /\ Collides(Batch(h))
  /\ Finish(h)
  /\ UNCHANGED <<stream, head>>

\* The database fails, or the process stops, before the commit: the deferred
\* rollback leaves the table as it was.
SaveFails(h) ==
  /\ pc[h] \in {"check", "insert"}
  /\ Finish(h)
  /\ UNCHANGED <<stream, head>>

\* projectEvents and the return to the caller (OrderReadModel has the detail).
Return(h) ==
  /\ pc[h] = "saved"
  /\ Finish(h)
  /\ UNCHANGED <<stream, head>>

StoreNext ==
  \E h \in Handler :
    \/ NewOrder(h)
    \/ \E c \in LoadingCommands : LoadAndDecide(h, c)
    \/ CheckVersion(h)
    \/ VersionConflict(h)
    \/ InsertEvents(h)
    \/ DuplicateVersion(h)
    \/ SaveFails(h)
    \/ Return(h)

StoreSpec == StoreInit /\ [][StoreNext]_storeVars

(***************************************************************************)
(* Properties.                                                             *)
(***************************************************************************)

\* Every variable has its type.
TypeOK ==
  /\ stream \in Seq(Event)
  /\ head \in Aggregate
  /\ pc \in [Handler -> Phases]
  /\ cmd \in [Handler -> Command]
  /\ copy \in [Handler -> Aggregate]

\* The stream of an order numbers its events 1, 2, 3 ... without a gap or a
\* repetition, however the transactions of Save interleave.
UnbrokenStream ==
  /\ \A k \in 1..Len(stream) : stream[k].version = k
  /\ head.version = Len(stream)

\* A handler whose loaded version is still the end of the stream decided on
\* the order as it is: the version compared by Save stands for the whole
\* state the decision was taken on.
VersionStandsForState ==
  \A h \in Handler :
    /\ copy[h].version <= Len(stream)
    /\ pc[h] # "idle" /\ copy[h].version = Len(stream) => copy[h] = head

\* An order replays to nothing exactly as long as nobody saved it.
EmptyIsBlank ==
  /\ stream = <<>> => head = Blank
  /\ stream # <<>> => head.status # "absent"

\* Whoever is about to save has a decision the aggregate's method accepted.
DecisionAccepted ==
  \A h \in Handler :
    /\ pc[h] # "idle" => Accepts(copy[h], cmd[h])
    /\ pc[h] # "idle" /\ cmd[h].op # "Create" => copy[h].version > 0

\* The inductive invariant: the conjunction is preserved by every step.
StoreInv ==
  /\ TypeOK
  /\ UnbrokenStream
  /\ EmptyIsBlank
  /\ VersionStandsForState
  /\ DecisionAccepted

\* The life of an order.  Cancelled and delivered are final, and the items
\* an order was confirmed with are the items it keeps, although the guards
\* were evaluated on copies and apply() has none.
LifecycleEdges ==
  { <<"absent", "pending">>, <<"pending", "confirmed">>,
    <<"confirmed", "shipped">>, <<"shipped", "delivered">>,
    <<"pending", "cancelled">>, <<"confirmed", "cancelled">>,
    <<"shipped", "cancelled">> }

LegalStep ==
  /\ head'.status # head.status =>
       <<head.status, head'.status>> \in LifecycleEdges
  /\ head'.items # head.items => head.status = "pending"

LegalLife == [][LegalStep]_storeVars

\* In the stream a cancellation of a paid order is followed at once by the
\* note of the refund of that order's last recorded payment, a cancellation
\* of an unpaid one is not, and there is no such note anywhere else.
PaidBefore(s, k, p) ==
  \E j \in 1..(k - 1) :
    /\ s[j].type = "PaymentProcessed"
    /\ s[j].ref = p
    /\ \A i \in (j + 1)..(k - 1) : s[i].type # "PaymentProcessed"

RefundNoteFollowsCancel ==
  \A k \in 1..Len(stream) :
    /\ stream[k].type = "OrderRefunded" =>
         /\ k > 1
         /\ stream[k - 1].type = "OrderCancelled"
         /\ PaidBefore(stream, k, stream[k].ref)
    /\ /\ stream[k].type = "OrderCancelled"
       /\ \E p \in Payment : PaidBefore(stream, k, p)
       => k < Len(stream) /\ stream[k + 1].type = "OrderRefunded"

\* Why: the payment an order was last paid with is the one its aggregate shows.
PaymentOnRecord ==
  \A p \in Payment : head.payment = p <=> PaidBefore(stream, Len(stream) + 1, p)

\* The store implements the one-command-at-a-time order of OrderLifecycle.
RefundsNoted ==
  { stream[k].ref :
      k \in {j \in 1..Len(stream) : stream[j].type = "OrderRefunded"} }

Life ==
  INSTANCE OrderLifecycle WITH
    status <- head.status, items <- head.items, payment <- head.payment,
    reservation <- head.reservation, refunds <- RefundsNoted

ImplementsLifecycle == Life!Spec

=============================================================================
