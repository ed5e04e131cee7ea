# Verification of the smart-warehouse consumer

A TLA+ model of the warehouse event pipeline of this repository, checked with
TLC on small instances, and theorems about its core proved with TLAPS for every
value of the parameters. Paths and line numbers are those of the repository;
`README.md` in a comment of a module is the repository's README.

Contents: [the system](#1-the-system), [the modules](#2-the-modules),
[the runs](#3-the-runs), [disagreements found](#4-where-the-code-does-not-do-what-it-says),
[the proofs](#5-the-proofs), [what is left out](#6-what-is-left-out),
[the plan](#7-the-plan).

## 1. The system

Producers publish warehouse events (Avro, two schema versions) to the Kafka
topic `warehouse-events`. A consumer group reads the topic and keeps three
denormalised inventory tables, the orders and an audit log in Cassandra. Events
it cannot process go to a second topic, `warehouse-events-dlq`.

| Component | Source | State | Operations |
|---|---|---|---|
| Producer CLI, topics | `producer/events.py`, `schemas/*.avsc` | the partitions of the topic | send, send again (`--repeat`, `--event-id`), key by product or order |
| Poll loop | `consumer/main.py` | position per partition, message in hand, `_running`, `_last_poll_ok_at` | `start`, `run`, `_process`, `_deserialize`, `_commit`, `_on_assign`, `_on_revoke`, `stop`, `close` |
| Event handlers | `consumer/handlers.py`, `errors.py` | none: rows in, statements out | `compute_batch` and eight handlers, validation, ordering, stock and order checks |
| Cassandra repository | `consumer/cassandra_repo.py`, `cassandra-init/init.cql` | `inventory_by_product_zone`, `inventory_by_zone`, `inventory_by_product`, `orders`, `event_history`, `processed_events` | reads by key, one logged batch per event |
| Dead letter queue | `consumer/dlq.py` | the client library's send queue | `send`, `_delivery_cb`, `flush` |
| Health endpoint | `consumer/http_server.py`, `is_healthy` | time of the last poll, the gauges `kafka_connected` and `cassandra_connected` | `/health`, in a thread per request |
| Bootstrap | `scripts/init_kafka.py`, `cassandra-init` in `docker-compose.yml` | topics, versions and compatibility in the registry, the keyspace | create topics, set the compatibility, register v1 and v2, apply `init.cql` |
| Metrics, logs, configuration | `metrics.py`, `logging_setup.py`, `config.py` | counters, gauges | none that decides anything |
| Deployment, monitoring | `docker-compose.yml`, `Dockerfile`, `monitoring/` | which containers exist | order of starts, restart policy, health check, alerts |
| Scenarios | `scripts/scenarios.sh` | none | a manual demonstration |

How they interact. The loop takes one message at a time. It decodes it, looks
its `event_id` up in `processed_events`, lets a handler read rows and compute
statements, adds the insertion into `processed_events`, executes all of it as
one logged batch, and commits the offset synchronously. Four things can end
this early: a duplicate (commit only), a stale event (only its id is written),
a `ValidationError` (to the DLQ producer, then commit) and a `DriverException`
or an exception nobody expects (logged, next message). Nothing is locked: the
rows a handler read are written back without a condition. What keeps two
consumers from each other is only that a partition has one owner.

What is hard about it, and what makes each part correct:

* *Handlers.* Events come late, early, twice, or with a timestamp equal to a
  row's. One event changes up to three tables and several zones; the tables
  must agree afterwards, although the total of a product is never recomputed
  from its zones. A zone must never be oversold. An event applied once must be
  refused for ever, even after its id has expired.
* *Poll loop.* A crash, a stop, a rebalance or an exception between any two
  steps; redelivery after each. The tables must change as if each event had
  been applied atomically to the rows at that moment; no committed offset may
  cover a message that was not dealt with; the offset never goes back; the lag
  drains.
* *Group.* A rebalance while messages are in hand; a consumer that is expelled for
  being slow and goes on; products and orders in different partitions.
* *Dead letter queue.* An asynchronous send next to a synchronous commit.
* *Cassandra.* A batch that timed out may have been applied, or may be applied
  later; replicas that were away; ids that expire; two upserts of one row in one batch.
* *Health.* The loop and the HTTP threads set the same gauges, each from what it
  saw some time ago.
* *Bootstrap.* Scripts that fail half way and are run again, and a broker and a
  producer that create the same things by themselves.

The list of hazards, each at its line, is in `PROJECT.json`.

## 2. The modules

```
WarehouseData     events, rows, tables
   |
Handlers          compute_batch: legs, verdict, batch          (pure operators)
   |        \
Inventory    Consumer      Consumer refines Inventory   (ImplementsInventory, ImplementsUntilOvertaken)
   |           |           Consumer refines AtLeastOnce (ImplementsDelivery)
   |      ConsumerProofs         types, offsets, partitions, delivery
   |           |
   |      ConsumerTablesProofs   the tables, by the theorems of InventoryProofs
InventoryProofs -- SumLemmas

Storage           replicas and batches under one event         StorageProofs

Bootstrap    Monitoring                                        BootstrapProofs
        \    /                                                 MonitoringProofs
       Deployment          composes both                       DeploymentProofs
```

`MCInventory`, `MCConsumer` and `MCStorage` hold the event sets of the runs;
Monitoring and Deployment need no definitions and are run as they are.

**WarehouseData.** The events of the schema as records and the tables as
functions from key to row. A row that does not exist is a row of zeros with
timestamp 0, because that is how every handler treats a missing row
(`_check_order` and `_apply_delta_to_zone` in `handlers.py`). An id, a zone or a supplier is a model
value. Payload text, `updated_at`, `created_at` and `last_event_id` are left
out: nothing reads them to decide. An absent or ill-typed quantity is a
quantity `<= 0`; the code rejects the two alike. `MaxInt` stands for the
largest 32-bit integer; only `event_history.quantity` and the items of an order
are of that width, zone and product quantities are `bigint`.

**Handlers.** All eight handlers have one shape, which the module makes
explicit: the event becomes a sequence of *legs*, one per row of a zone, each
with its change of the available and the reserved quantity, each computed from
the row as read. `Verdict` is the outcome of `compute_batch` as an operator:
`apply`, `stale`, `reject`, or `error` for an exception nothing handles. The
order of the checks is the code's: legs are checked in sequence and the first
that fails decides, except that a move compares both timestamps before it looks
at stock. `Batch` is the list of upserts. Two upserts of one row in one batch
carry the same write timestamp; Cassandra keeps the larger value of each cell,
which is what `ZoneUpserts` says with `Max`. `Write` replaces the row of each key a batch
names; the log `event_history` has the key product, timestamp and id (`HistoryKey`). `Without` is
what is left of a batch that arrives after a newer one: the rows the newer one does not have.

**Inventory.** The variable `tables` and one action per handler: any event of
`Events`, at any moment, any number of times. There is no `processed_events`
here, so what holds here holds by timestamps, order status and stock checks
alone. It is also the abstract specification of the consumer.

**Consumer.** The group, its partitions, the tables, `processed_events` and the
DLQ producer. `_process` is cut at each point where it leaves the process:

| Action | Code |
|---|---|
| `Produce` | the producer CLI: any event again at any time, into the partition of its key |
| `Start` | `main`, `start`: connected and subscribed |
| `Rebalance`, `SpuriousRebalance` | a rebalance served inside `poll`, `_on_assign`, `_on_revoke`; it starts at the committed offsets |
| `Poll` | `run`: the position moves past the message |
| `Check` | `_deserialize`, missing id, `is_event_processed` |
| `RegistryUnreachable` | `_deserialize` with the registry away |
| `Compute` | `compute_batch`: rows are read now |
| `Execute` | `execute_batch`: batch and id together; a stale event writes its id only |
| `DriverException` | a failed read or batch; a batch that timed out may become `pending` |
| `LateBatch` | the coordinator or the batch log applies a pending batch, at any later moment or never |
| `Reject`, `RejectFails` | `DLQProducer.send` returns, or raises |
| `Commit`, `CommitFails` | `_commit` |
| `DeliverEnvelope`, `DropEnvelope` | the client library; `_delivery_cb` with an error |
| `Evict` | `max.poll.interval.ms` or `session.timeout.ms` passes while a message is in hand; the consumer does not notice |
| `CommitFenced` | the group refuses its commit: a `KafkaException` in `run` |
| `Rejoin` | back in `poll`: `_handle_kafka_error`, and a member again |
| `Stop`, `Flush`, `FlushTimeout` | SIGTERM, `close`, five seconds of `flush` |
| `Crash` | the process dies; its memory is gone |
| `Expire` | the TTL of `processed_events` |

`expired`, `lost`, `rejected` and `overtaken` are history variables: they record what happened and
guard nothing. `rejected` are the messages that failed validation, those whose `send` raised
included. `pending` are the batches that timed out, each with its event and the order in which it was
written; when a newer batch is applied, they keep only the rows it did not write
(`Superseded`). `overtaken` are their events, from the moment another batch is computed without
them. `statements` is what `Compute` returned and `Execute` will write, so a
change of the tables in between is a possible behaviour and not assumed away.

**AtLeastOnce.** What the group promises the producers and nothing else: messages
are sent, dealt with, and committed, in this order, and what was dealt with or
committed stays so. Consumer implements it with `handled` as the messages that
were recorded in `processed_events` or handed to the DLQ producer, and `done` as
the committed offsets. Rebalances, evictions and
crashes are stutters of it.

**Storage.** Consumer reads and writes the tables in one step. Storage says what
these steps are on several replicas: `is_event_processed`, the read of the zone,
the read of the total, the batch, its acknowledgement, each at another moment and
answered by any quorum. The events are receipts of one product, told apart by
their timestamps; a row holds the bag of events added up in it, which shows an
event lost or counted twice. A batch in `batches` reaches each node part by
part (`Apply`), at any time, in any order, or never; a node that is down is one to
which nothing arrives and which is not asked. `Timeout` is a `DriverException` on a read or on
the batch. Assumed of Cassandra: what a batch writes to one partition key is applied by a
node together; of two writes of a row the one of the later batch wins; there is one
consumer.

**Monitoring.** The main thread (`Start` ... `Exit`), the threads that answer
`/health` (`ReadClock`, `SetKafkaGauge`, `QueryReturns`, `Reply`, one action per access to
shared state), and the world. `age` is the time since `_last_poll_ok_at`. Time goes in ticks: a
tick is more than one turn of the loop takes while nothing is wrong, the poll timeout and
the refresh of the lag included (about twenty seconds), so that sixty seconds are three
ticks. `waited` keeps `Tick` from overtaking a step that is prompt (`Prompt`); a slow
Cassandra or an absent broker holds the loop, or a thread, for as long as it likes.

**Bootstrap.** `kafka-init` call by call, each of which may fail with its effect or
without; `cassandra-init`, up to the first statement that fails; the operator who runs either
again (`MaxReruns` times); and those who may come first: `AutoCreate` (the broker creates a topic
somebody writes to) and `AutoRegister` (the serializer of the producer).

**Deployment.** `depends_on` and `restart` of the consumer: `Create` is enabled
only when both one-shot containers have succeeded, `Restart` ever after. Otherwise
it is Bootstrap and Monitoring next to each other.

## 3. The runs

Faults are transitions of their own, enabled only for the kinds in `Faults` and
at most `MaxFaults` times. Two kinds concern the dead letter queue: `full` is the queue
of the client library refusing an envelope, so that `send` raises and `run` logs it
(`dlq.py:82-84`, `main.py:148-150`); `dlq` is the broker refusing it later, or five seconds
not being enough to flush. `MaxLog` bounds the messages of a partition,
`MaxPolls` and `MaxTimeouts` those of Storage, `MaxReruns` the repeated runs of the one-shot
containers. These and the event sets are the only bounds. Deadlock checking is
off where the producers stop at a bound and an idle loop is then what should
happen, and in Inventory, where everything that is left may be refused for good;
it is on in Monitoring and Deployment.

| Run | Instance | Shows |
|---|---|---|
| `Inventory` | 34 events, two products, zones, orders and suppliers | `TypeOK` (no zone oversold), `TablesAgree`, `NoReapplication`, `HistoryExplainsTotals`, `RowsOnlyAdvance`, `OrderLifecycle`, `SupplierNeverForgotten` |
| `Consumer` | one consumer, one partition, three messages (receipt, shipment, order, completion, an order too large for its history row, undecodable); two faults out of stop, rebalance, evict, registry, Cassandra, commit, full, TTL | `TypeOK`, `AppliedAtMostOnce`, `CommittedNeverRegresses`, `ImplementsUntilOvertaken` |
| `ConsumerScaledOut` | two consumers, two partitions of two messages, one product in each, and an order in that of its product; two faults out of crash, stop, rebalance, DLQ | `TablesAgree`, `PartitionExclusive`, `DeadLettersNotApplied`, implements Inventory |
| `ConsumerLiveness` | two consumers, two partitions of two messages, a product and its order; two faults out of crash, evict; fairness | `LagDrains`, implements AtLeastOnce |
| `Storage` | three nodes, `QUORUM`, three receipts in two zones, three polls, one timeout | `TypeOK`, `ReadsSeeAcknowledged`, `AcknowledgedLasts`, `AtomicUntilAbandoned` |
| `Monitoring` | two HTTP threads, a limit of three ticks, nothing else bounded; fairness | `HangIsReported`, `CassandraLossIsReported`, `RecoveryIsReported` |
| `Deployment` | both topics with three partitions, two statements of CQL, two reruns, one HTTP thread | `ConsumerStartsPrepared`, `RerunIsNoOp` |
| `InventoryRepeatedItem`, `ConsumerSkipsFailed`, `ConsumerLosesEnvelope`, `ConsumerRace`, `StorageLateBatch` | the smallest instances that show each | the disagreements of section 4 |

*Why the bounds are enough.* In Inventory every event kind occurs with
timestamps below, equal to and above those of the rows it meets, quantities that
reach zero exactly, fit and do not fit, orders over two zones and over two
products, and one of each malformed event. Every event may be presented in
every state, so the bound is the event set and not a length. In Consumer, three
messages of one partition are enough for a message that fails, one behind it
whose commit covers it, and a copy of either; two faults are enough for one
and a second while the group recovers from it. Two partitions and two consumers suffice to
have a partition change hands while the other is being worked on. In Storage,
three receipts are one that is acknowledged by two nodes, one that times out, and one that is
computed from what a quorum with the third node shows; two of them are for the same zone, so
that a late batch meets newer rows both of its zone and of the total. In Monitoring two
threads are one that holds an old observation and one that reports the new
one. In Deployment two reruns are a repetition after a failure and one after a success;
two statements are one that takes effect and one that does not.

*Which faults, and why.* `RejectedReachesDLQ` and `CommittedIsHandled` are
promises of the repository's README that the code does not keep; each has a run of its own that is
expected to violate it. The first is broken by a crash, by an envelope the broker
refuses, by a flush that takes too long, and by a `send` that raises when the next message is
committed; the run has the crash. What of the second does hold, without failed
batches, is in `ImplementsDelivery`. `ImplementsInventory` needs that no statement times out: in
the run Consumer, where they do, `ImplementsUntilOvertaken` says up to which moment it holds, and
`StorageLateBatch` what happens then. Crash is left out of the run Consumer because
ConsumerScaledOut and ConsumerLiveness have it. `DeadLettersNotApplied` needs commits that succeed, and orders in the partition of
their product: otherwise an order that was rejected because its stock had not arrived
may be applied when it is delivered again after the stock has come.

*Evict* is in the run Consumer (which is delivered the message again) and
in ConsumerLiveness (where the other gets it). It is not in ConsumerScaledOut: there the
expelled consumer may execute its batch after the new owner of its partition has
written the same rows, which is the lost update of `ConsumerRace` again.

*ConsumerScaledOut* keeps each product's events, and the orders for it, in one
partition: that is the case in which the repository's argument from
partitioning holds. `ConsumerRace` puts the order elsewhere and the argument fails.

*Symmetry* of consumers (ConsumerScaledOut) and of nodes (Storage) is used where no
liveness is checked; owners, nodes and their numbers are never compared otherwise than by equality.

*Fairness of Consumer* (`FairSpec`). The loop is a `while` that
ends by SIGTERM only, and each step of `_process` returns or raises: weak
fairness of `Poll` per partition (a consumer polls all of its partitions in
turn) and of the steps. A dead container is restarted
(`docker-compose.yml`, `restart: unless-stopped`): weak fairness of `Start`. An
expelled consumer is told so by its next poll: weak fairness of `Rejoin`. The
group coordinator completes a rebalance and the client library sends what it holds.
Producers and faults owe nothing, and faults are finitely many. The
liveness run has no failed batch and no failed commit: after either, the last
message of a partition stays uncommitted until the next message or the next restart,
so the lag does not drain.

*Fairness of Monitoring* (`FairSpec`). The container is restarted, `connect` and
`poll` return, work that is prompt ends, a query returns by the driver's own timeout at the
latest, `close` ends, time passes, and somebody asks `/health` again and
again: the image has `HEALTHCHECK --interval=10s` (`consumer/Dockerfile:27-28`).
Every thread gets requests again and again; a thread that is never used again holds
no observation. Work on a message owes nothing while Cassandra is slow or the broker
absent, which is how the loop hangs.

*AppliedAtMostOnce* reads the audit log: a batch about to be executed is never
of an event the log already has. It covers republication under the same id,
redelivery, a timed-out batch that arrived, and expiry of the id. An event in `overtaken` is
exempt: the event may have been delivered again and computed while its own first batch
was still on its way; both batches write the same rows, and those of the second stay, whichever
arrives first. Or a batch of another event, computed meanwhile, has overwritten the row whose
timestamp would refuse it.

## 4. Where the code does not do what it says

| Run | Code | Says |
|---|---|---|
| `ConsumerSkipsFailed` | After a `DriverException` the loop goes on with the next message; the position is past the failed one, and the next commit covers it. `main.py:245-249` | "will retry (offset NOT committed)", `main.py:247`; README.md:215-217 |
| `ConsumerLosesEnvelope` | `send` queues the envelope, `_commit` follows at once; a crash in between loses both. `main.py:240-243` | reliable delivery, offset after the DLQ, README.md:213-215 |
| `ConsumerRace` | An order and a receipt of one product, in different partitions, read the same total; one change is lost. `handlers.py:225`, `producer/events.py:156-158` | "kept consistent within a single logged BATCH", `init.cql:7-8`; README.md:187-189, 224-230 |
| `InventoryRepeatedItem` | Two items of an order for one zone are both computed from the row as read; the zone counts one of them, the total both. `handlers.py:474` | `init.cql:7-8` |
| `StorageLateBatch` | A batch that timed out is applied after the next event was computed without it: its zone and its id appear, its part of the total loses against the newer write. `main.py:245-249`, `cassandra_repo.py:282` | "either all statements succeed or all fail", `cassandra_repo.py:275-277`; README.md:171-178 |

The deployment in `docker-compose.yml` runs one consumer, where `ConsumerRace`
cannot happen; the group id, the partitions and the README's argument are for
more than one.

Observations without a run, because they follow from one line:

* The timestamp of `inventory_by_product` is written and never compared
  (`handlers.py:225`), so an event of another zone sets it back; README.md:182-185 speaks
  of every row of `inventory_by_*`.
* The sum of an order's items is bound to an `int` (`handlers.py:498`). Beyond it an exception
  that neither handler nor loop expects leaves the event neither applied nor rejected, as
  after a `DriverException`; `dlq.py:3-5` says such events are forwarded. The run Consumer has
  such an order and shows that the tables do not suffer.
* `_deserialize` (`main.py:267`) turns a registry that cannot be reached into a
  `ValidationError`, so a sound event becomes a dead letter.
* `poll` returning nothing counts as an answer of Kafka (`main.py:136`), so
  `/health` stays 200 without a broker. README.md:238 defines the
  check by the last poll, which is what the code does.
* `consumer_lag` is refreshed by the loop (`main.py:138`) and stands still while the
  loop hangs, so `ConsumerLagHigh` (`monitoring/alerts.yml:4-14`) does not fire then.

## 5. The proofs

`tlapm` proves every obligation of the eight proof modules. First the handlers:
InventoryProofs, with the sums in SumLemmas, is about `Inventory!Spec`, for any products, zones, orders,
suppliers, events, `MaxInt`.

Assumptions, all in WarehouseData: `EventsAssumption` (the events are events of the schema),
`MaxIntAssumption` (a natural number), `ZonesAssumption` (finitely many zones).
TLC evaluates them in every run of Inventory and Consumer. Two theorems have one
hypothesis more: `TablesStayAgreed` that no order names a row twice (`NoRepeatedItems`;
`InventoryRepeatedItem` is why), `LogExplainsTotals` that no two events share id and timestamp
(`DistinctRows`; the key of `event_history` holds nothing else of an event, `init.cql:83-92`).

| Theorem | States | Argument |
|---|---|---|
| `TypeCorrect` | `TypeOK` | Inductive as it stands. The core is that the batch of an accepted event has rows of the right types (`WrittenType`): a row of a zone is the maximum of what its legs write, and `ShortLeg` refused every negative one. |
| `RowsAdvance` | `RowsOnlyAdvance` | A row that changed has a leg, and no leg of an accepted event is stale. |
| `SupplierKept` | `SupplierNeverForgotten` | By cases on whether the event is a receipt with a supplier. |
| `OrderLifecycleHolds` | `OrderLifecycle` | Nothing compares the order's own timestamp. Strengthening `OrdersBehindRows`: an existing order is no newer than each row its items name. A completion passed the check of these rows, so it is newer than the order. |
| `NeverReapplied` | `[]NoReapplication` | Strengthening `AppliedIsSettled`: every applied event either has a leg whose row is at least as new, or is an order event whose order has moved on. `Settled` implies refusal (`SettledRefused`), a step settles the event it applies and unsettles none. |
| `TablesStayAgreed` | `[]TablesAgree` | Strengthening `StoredItemsDistinct`: stored orders have no repeated rows, so a completion has none. Then each row changes by exactly one leg (`LegExact`), and the total by the sum of the legs (`SumScatter`). |
| `LogExplainsTotals` | `[]HistoryExplainsTotals` | Strengthening: the log is finite, and every event in it is settled (`AppliedIsSettled`), so that an applied event adds a row the log does not have. The quantity of that row is what the legs add up to (`EffectRecorded`): one leg of a stock event, two of a move that cancel out, and for orders a sum and its opposite (`OrderLegs`). It needs no `NoRepeatedItems`: the log agrees with the total even where the zones do not. It does need `DistinctRows`: two events that share id and timestamp would share a row of the log. |

`SumLemmas` holds the facts about finite sums these rest on. `SumFunctionOnSet`
of the community modules is a recursive function over finite sets chosen by
`CHOOSE`; that such a function exists and unfolds would usually be an induction.
The induction theorems of the library take an operator as a parameter, which the
provers at hand cannot instantiate, so `SmallestSubset` takes a smallest counterexample
instead, by the well-foundedness of the strict subset relation, and every lemma
derives a contradiction from it.

**ConsumerProofs**, for any consumers, partitions, routes, events and bounds. The inductive
invariant `IInv` says, besides types, who holds what: a loop has a message of the log in hand
exactly while it processes one; the committed offset is at most the position and the position
at most the length of the partition; a member of the group that has a message in hand
owns its partition and polled nothing after it (`MembersOwn`), which the group must see to through each
rebalance, crash and expulsion; owners are live.

| Theorem | States | Hypotheses | Argument |
|---|---|---|---|
| `TypeCorrect` | `TypeOK` | none | From `IInv`. |
| `CommitsAdvance` | `CommittedNeverRegresses` | none | A member commits the message it has in hand, which is the last one polled from a partition it owns; who is no member is fenced. |
| `PartitionExclusiveHolds` | `PartitionExclusive` | no `evict` | From `MembersOwn`: two members with messages of one partition would both own it. |
| `DeliveryImplemented` | `ImplementsDelivery` | no `cassandra`, no `full`, `QuantitiesFit` | Strengthening `DeliveryInv`: all that was polled from a partition was dealt with, except the message its owner has in hand; the loop comes to a commit in three ways, and each of them deals with the message (`CommitReached`). |

The hypotheses of the last are the points at which the code lets go: the offsets skip a
message in `ConsumerSkipsFailed` after a failed statement; a `send` that raises and a quantity that does not fit its column (`QuantitiesFit`)
end in the same clause of `run`.

**ConsumerTablesProofs.** That the tables change as Inventory says needs that the rows a batch was
computed from are those it is written to. `Undisturbed` says when: there is one
consumer (`Alone`; the deployment of `docker-compose.yml`), or events of different
partitions reach different rows (`RowsFollowKeys`) and nobody is expelled with a message in hand. Both
leave batches that time out, which even a single consumer meets. Without orders,
or with one partition, rows follow the keys (`RowsFollowKeysWithoutOrders`); an order
names products of other partitions, and then `ConsumerRace` shows the property violated.

| Theorem | States | Hypotheses | Argument |
|---|---|---|---|
| `ImplementedUntilOvertaken` | `ImplementsUntilOvertaken` | `Undisturbed` | Strengthening `TablesInv`: while nothing was overtaken, a batch about to be executed or on its way is the one its handler would compute from the tables as they are now (`BatchesCurrent`, `PendingCurrent`). A handler's result depends on the rows within `Reach` only (`SameReading`), and another partition's batch writes none of them (`PartitionsApart`); two batches of one partition are never both on their way without one having overtaken the other (`InHandApart`, `PendingApart`). |
| `InventoryImplemented` | `ImplementsInventory` | `Undisturbed`, no `cassandra` | Nothing is ever on its way, so nothing is overtaken (`NothingOvertaken`). |
| `TablesAgreeHolds` | `TablesAgree` | `Undisturbed`, no `cassandra`, `NoRepeatedItems` | Through the refinement from `TablesStayAgreed`. |
| `AppliedAtMostOnceHolds` | `AppliedAtMostOnce` | `Undisturbed` | The refinement does not reach behind the first overtaken batch, so this has an invariant of its own, `OnceInv`: every batch is about one event (`BatchesOwned`); it writes a row that refuses the event for good, and one that was not overtaken still has that row (`BatchesSettle`); an applied event that was not overtaken is settled in the tables, and no batch, late or not, takes that back (`AppliedSettled`). |
| `DeadLettersNotAppliedHolds` | `DeadLettersNotApplied` | `RejectionsRepeat`: no faults but `crash`, `stop`, `rebalance`, `dlq`; `RowsFollowKeys` | Strengthening `DeadInv`: as long as a dead letter may be delivered again its verdict stands, because nothing that is still to come before it is applied (`RejectionsStand`); what the owner of a partition polled and did not commit is the message in hand and ones that raised an unexpected exception (`FailuresStand`); and every applied event is on record with a message that is no dead letter (`AppliedOnRecord`). |

`RejectionsRepeat` is not a convenience. With any other fault a message can be given two verdicts,
and TLC finds `DeadLettersNotApplied` violated: with one consumer and at most three faults,
one of them a crash, for `registry`, `commit`, `ttl`, `cassandra` and `full`; with two consumers
for `evict` alone. An order is rejected because its stock is not there, say; the receipt
behind it is applied; and what the fault left uncommitted is delivered again and accepted.

**StorageProofs**, for any nodes, events, zones and bounds, and any two consistency levels
that add up to more than the number of nodes (`ConsistencyAssumption`):

| Theorem | States | Argument |
|---|---|---|
| `TypeCorrect` | `TypeOK` | Strengthening `Types`: rows hold bags of events, and the batch in hand has no rows but the two totals. |
| `ReadsSeeAcknowledgedHolds` | `ReadsSeeAcknowledged` | Strengthening `AcknowledgedHeld`: an acknowledged batch is still held by as many nodes as acknowledged it, because nodes only add what they apply and batches are only appended (`HeldStaysHeld`). Those nodes and the ones that answer a read have one in common (`QuorumsMeet`), by counting. |
| `AcknowledgedLastsHolds` | `AcknowledgedLasts` | Strengthening `Growing`: an acknowledged batch is contained in every later batch of the row, and in the one in hand, because each is computed from what a quorum returned. Batches that were given up and arrive late are among the later ones, which is why the invariant is about all batches and not about the acknowledged ones. |
| `AtomicUntilAbandonedHolds` | `AtomicUntilAbandoned` | Strengthening `AtomicInv`, as long as no batch was given up: all batches but the one waited for are acknowledged, so every quorum reads the log of batches (`ViewIsLogged`); the batch in hand is computed from the log although its two reads are apart (`HandCurrent`); and the log has each event once in both totals or in neither (`LoggedOnce`). |

**BootstrapProofs and DeploymentProofs**, for any number of partitions, statements,
reruns and HTTP threads, with the hypothesis `SameDefaults`: the broker's default number of
partitions is the one the script asks for. `docker-compose.yml` sets both to 3 (lines 71
and 124); otherwise a topic that somebody writes to before `kafka-init` has come so far would keep another number.

| Theorem | States | Argument |
|---|---|---|
| `PreparedOnceDoneHolds` | `PreparedOnceDone` | Strengthening `Progress`: what must be there when the script has come to a step. It does not suffice that a step does its work; the step before must not be undone by a failure, a rerun or another creator. |
| `ConsumerStartsPreparedHolds` | `ConsumerStartsPrepared` | Every step of Deployment is one of Bootstrap or a stutter of it (`StepIsOfBootstrap`), so the invariant of Bootstrap carries over, as does that what was achieved stays achieved; with it `OrderOfStarts`: the process runs only in a container that was created after both successes. |
| `RerunIsNoOpHolds` | `RerunIsNoOp` | From the same invariant, step by step (`StepIsNoOp`). |

**MonitoringProofs**: `TypeCorrect`, inductive as it stands.

Only model-checked: liveness (`LagDrains`, and the three properties of Monitoring), which is out
of the prover's reach, as is `ENABLED`. Every invariant and every other action property or refinement a
passing run checks is the statement of a theorem, with the hypotheses given above. What a violating run
shows is not a theorem either: a counterexample is one behaviour of one instance.

## 6. What is left out

* *Consumer over Storage.* Consumer takes a batch, and the reads of an event, to be one step each.
  Storage models both in detail, but for receipts of one product by one consumer: the other
  handlers read and write the same rows in the same way. `inventory_by_zone`,
  `event_history` and `orders` are left out there because the handler of a receipt reads
  none of them. Two consumers over replicas are left out: they already disagree over one (`ConsumerRace`).
* *A batch sent by a process that dies.* In Consumer it is applied before the crash or never. A
  partition changes hands only after the session timeout (`config.py:29-31`), which is longer than the
  coordinator of the batch needs to apply it or to give up; a batch that the batch log finishes later
  than that is modelled only for a process that lives to see the timeout.
* *Reads during a late batch.* `LateBatch` is one step; Storage has it reach the nodes part by part.
* *A read of one node while it applies a batch* to two tables of one
  partition key. Storage takes that application to be atomic.
* *Clocks.* Write timestamps of different batches are taken to be in order, and never equal. A batch
  that timed out is older than every batch executed after that.
* *Exceptions other than the named ones.* `NoHostAvailable` is not a
  `DriverException` and reaches the catch-all of `run`, with the effect of a
  `DriverException` that wrote nothing; the model has one action for both.
  `poll` itself does not raise: the client library hands its errors over as messages.
* *Loss of the broker.* No property of Monitoring is about it, see section 4.
* *Waiting loops* of `init_kafka.py`, of `cassandra-init` and of `connect`: the attempts that get no answer change nothing.
* *A registry that refuses a schema* as incompatible: v2 adds an optional field to v1, and both are fixed files.
* *Counters, histograms, `consumer_lag`, logs, alerts, dashboards, scenarios.* Nothing in the system reads them.
* *Producer.* Its delivery retries are invisible in the log with `enable.idempotence`.

## 7. The plan

Done: the modules of section 2, with their runs and proofs.

Next, in this order:

1. The safety half of liveness, for any constants: that in Monitoring an observation older than the
   limit is replaced before it is reported again, and in Consumer that a message behind the
   committed offset always has a step that deals with it.
2. That Storage implements, until a batch is given up, the single step in which Consumer
   executes a batch, as a refinement of an abstract table.
3. The bootstrap without `SameDefaults`: which of the preparations do not depend on it.
