------------------------------ MODULE Consumer -------------------------------
(***************************************************************************)
(* The consumer group of warehouse-events: one or more processes running   *)
(* the poll loop of consumer/main.py over the partitions of the topic, the *)
(* Cassandra tables they update, the idempotency table processed_events,   *)
(* and the producer of the dead letter queue.                              *)
(*                                                                         *)
(* _process is cut where it leaves the process, because that is where      *)
(* another consumer, a crash or an exception can come in between:          *)
(*                                                                         *)
(*   poll -> check -> compute -> execute -> commit -> poll                 *)
(*             |         |                    ^                            *)
(*             +---------+-----> reject ------+                            *)
(*                                                                         *)
(* Faults happen at most MaxFaults times in a behaviour, and only those    *)
(* named in Faults.                                                        *)
(***************************************************************************)
EXTENDS Handlers

CONSTANTS
    Consumers,    \* the processes of the consumer group
    NoConsumer,   \* owner of a partition nobody is assigned
    Partitions,   \* the partitions of warehouse-events
    NoKey,        \* the key "warehouse" of events with no product or order
    Route,        \* the partitioner: a key's partition
    MaxLog,       \* bound: messages a partition receives
    Faults,       \* the kinds of fault that may happen
    MaxFaults     \* bound: faults in one behaviour

FaultKinds ==
    {"crash", "stop", "rebalance", "evict", "registry", "cassandra", "commit",
     "dlq", "full", "ttl"}

ASSUME RouteAssumption == Route \in [Products \cup Orders \cup {NoKey} -> Partitions]
ASSUME NoConsumerAssumption == NoConsumer \notin Consumers
ASSUME BoundsAssumption ==
    MaxLog \in Nat /\ MaxFaults \in Nat /\ Faults \subseteq FaultKinds

VARIABLES
    log,         \* per partition, the messages in it
    committed,   \* per partition, the group's offset: how many are done
    owner,       \* per partition, the consumer it is assigned to
    position,    \* per partition, how many its owner has polled
    evicted,     \* the consumers the group expelled while they were processing
    pc,          \* per consumer, where in the loop it is
    current,     \* per consumer, <<partition, offset>> of the message in hand
    statements,  \* per consumer, the batch compute_batch returned
    tables,      \* the inventory, order and history tables
    processed,   \* the event ids in processed_events
    pending,     \* batches that timed out and may still be applied
    overtaken,   \* history variable: events of such batches, after another was computed
    expired,     \* history variable: ids whose row outlived its TTL
    outbox,      \* per consumer, envelopes its DLQ producer holds in memory
    dlq,         \* envelopes in warehouse-events-dlq
    lost,        \* history variable: envelopes that never got there
    rejected,    \* history variable: messages that failed validation
    faults       \* how many faults have happened

kafka == <<log, committed, owner, position, evicted>>
loop == <<pc, current, statements>>
cassandra == <<tables, processed, pending, overtaken, expired>>
dead == <<outbox, dlq, lost, rejected>>
vars == <<kafka, loop, cassandra, dead, faults>>

-----------------------------------------------------------------------------
Messages == Partitions \X (1..MaxLog)

\* The members of the group.
Live == {c \in Consumers \ evicted : pc[c] \notin {"down", "closing"}}

Processing(c) == pc[c] \in {"check", "compute", "execute", "reject", "commit"}

Event(c) == log[current[c][1]][current[c][2]]

NoBatch == [ipz |-> <<>>, iz |-> <<>>, ip |-> <<>>, orders |-> <<>>, history |-> {}]

Fault(kind) ==
    /\ kind \in Faults
    /\ faults < MaxFaults
    /\ faults' = faults + 1

\* Both ends of _process: the message is out of hand and the loop goes on.
\* The position in the partition stays past it, however _process ended.
BackToPoll(c) ==
    /\ pc' = [pc EXCEPT ![c] = "poll"]
    /\ current' = [current EXCEPT ![c] = <<>>]
    /\ statements' = [statements EXCEPT ![c] = NoBatch]

GoTo(c, label) ==
    /\ pc' = [pc EXCEPT ![c] = label]
    /\ UNCHANGED <<current, statements>>

-----------------------------------------------------------------------------
Init ==
    /\ log = [p \in Partitions |-> <<>>]
    /\ committed = [p \in Partitions |-> 0]
    /\ owner = [p \in Partitions |-> NoConsumer]
    /\ position = [p \in Partitions |-> 0]
    /\ evicted = {}
    /\ pc = [c \in Consumers |-> "down"]
    /\ current = [c \in Consumers |-> <<>>]
    /\ statements = [c \in Consumers |-> NoBatch]
    /\ tables = EmptyTables
    /\ processed = {}
    /\ pending = {}
    /\ overtaken = {}
    /\ expired = {}
    /\ outbox = [c \in Consumers |-> {}]
    /\ dlq = {}
    /\ lost = {}
    /\ rejected = {}
    /\ faults = 0

-----------------------------------------------------------------------------
(* The producer.  An event may be published again: --repeat, --event-id.   *)

Key(e) ==
    CASE e.type \in {"ORDER_CREATED", "ORDER_COMPLETED"} -> e.order
      [] e.type = "UNREADABLE" -> NoKey
      [] OTHER -> e.product

Produce(e) ==
    LET p == Route[Key(e)]
    IN  /\ Len(log[p]) < MaxLog
        /\ log' = [log EXCEPT ![p] = Append(@, e)]
        /\ UNCHANGED <<committed, owner, position, evicted, loop, cassandra, dead, faults>>

-----------------------------------------------------------------------------
(* The group.                                                              *)

\* main: connect to Cassandra, subscribe, enter the loop.
Start(c) ==
    /\ pc[c] = "down"
    /\ GoTo(c, "poll")
    /\ UNCHANGED <<kafka, cassandra, dead, faults>>

Balanced(f) ==
    \A c, d \in Live :
        Cardinality({p \in Partitions : f[p] = c})
            <= Cardinality({p \in Partitions : f[p] = d}) + 1

\* The group has settled: every partition has a live owner, evenly spread.
Settled == (\A p \in Partitions : owner[p] \in Live) /\ Balanced(owner)

\* Mutant: partitions are read from their beginning, not from the group's offset.
Assign_FromBeginning ==
    /\ Live # {}
    /\ \A c \in Live : pc[c] = "poll"
    /\ \E f \in [Partitions -> Live] : Balanced(f) /\ owner' = f
    /\ position' = [p \in Partitions |-> 0]
    /\ UNCHANGED <<log, committed, evicted, loop, cassandra, dead>>

\* Mutant: a rebalance does not wait for the consumers that hold a message.
Assign_Unsynchronized ==
    /\ Live # {}
    /\ \E f \in [Partitions -> Live] : Balanced(f) /\ owner' = f
    /\ position' = committed
    /\ UNCHANGED <<log, committed, evicted, loop, cassandra, dead>>

\* A rebalance is served inside poll, so it waits for every live consumer to
\* come back there.  _on_assign starts each partition at the committed offset.
Assign ==
    /\ Live # {}
    /\ \A c \in Live : pc[c] = "poll"
    /\ \E f \in [Partitions -> Live] : Balanced(f) /\ owner' = f
    /\ position' = committed
    /\ UNCHANGED <<log, committed, evicted, loop, cassandra, dead>>

\* After a consumer came or went.
Rebalance == ~Settled /\ Assign /\ UNCHANGED faults

\* For a reason outside the group: a coordinator moved, a heartbeat was late.
SpuriousRebalance == Settled /\ Assign /\ Fault("rebalance")

Leave(c) == owner' = [p \in Partitions |-> IF owner[p] = c THEN NoConsumer ELSE owner[p]]

\* The process dies: what it held in memory is gone.
Crash(c) ==
    /\ pc[c] # "down"
    /\ Fault("crash")
    /\ pc' = [pc EXCEPT ![c] = "down"]
    /\ current' = [current EXCEPT ![c] = <<>>]
    /\ statements' = [statements EXCEPT ![c] = NoBatch]
    /\ outbox' = [outbox EXCEPT ![c] = {}]
    /\ lost' = lost \cup outbox[c]
    /\ Leave(c)
    /\ evicted' = evicted \ {c}
    /\ UNCHANGED <<log, committed, position, cassandra, dlq, rejected>>

\* SIGTERM: the loop ends after the message in hand, and the group is left.
Stop(c) ==
    /\ pc[c] = "poll"
    /\ Fault("stop")
    /\ GoTo(c, "closing")
    /\ Leave(c)
    /\ evicted' = evicted \ {c}
    /\ UNCHANGED <<log, committed, position, cassandra, dead>>

\* A message takes longer than max.poll.interval.ms, or the process pauses for
\* longer than the session timeout: the group goes on without the consumer,
\* which does not notice and goes on with its message.
Evict(c) ==
    /\ Processing(c)
    /\ c \notin evicted
    /\ Fault("evict")
    /\ evicted' = evicted \cup {c}
    /\ Leave(c)
    /\ UNCHANGED <<log, committed, position, loop, cassandra, dead>>

\* Back in poll it is told: an error that _handle_kafka_error logs, and the
\* consumer is a member again.
Rejoin(c) ==
    /\ pc[c] = "poll"
    /\ c \in evicted
    /\ evicted' = evicted \ {c}
    /\ UNCHANGED <<log, committed, owner, position, loop, cassandra, dead, faults>>

\* close: the process ends once the DLQ producer has sent what it holds.
Flush(c) ==
    /\ pc[c] = "closing"
    /\ outbox[c] = {}
    /\ GoTo(c, "down")
    /\ UNCHANGED <<kafka, cassandra, dead, faults>>

\* ... or after five seconds, whatever it still holds.
FlushTimeout(c) ==
    /\ pc[c] = "closing"
    /\ outbox[c] # {}
    /\ Fault("dlq")
    /\ GoTo(c, "down")
    /\ outbox' = [outbox EXCEPT ![c] = {}]
    /\ lost' = lost \cup outbox[c]
    /\ UNCHANGED <<kafka, cassandra, dlq, rejected>>

-----------------------------------------------------------------------------
(* The poll loop.                                                          *)

\* run: the next message of an assigned partition; the position moves past it.
Poll(c, p) ==
    /\ pc[c] = "poll"
    /\ owner[p] = c
    /\ position[p] < Len(log[p])
    /\ position' = [position EXCEPT ![p] = @ + 1]
    /\ current' = [current EXCEPT ![c] = <<p, position[p] + 1>>]
    /\ pc' = [pc EXCEPT ![c] = "check"]
    /\ UNCHANGED <<log, committed, owner, evicted, statements, cassandra, dead, faults>>

\* Mutant: a duplicate is skipped without committing its offset.
Check_SkipsCommit(c) ==
    /\ pc[c] = "check"
    /\ \/ /\ Event(c).type # "UNREADABLE" /\ Event(c).id \in processed
          /\ BackToPoll(c)
       \/ /\ Event(c).type # "UNREADABLE" => Event(c).id \notin processed
          /\ GoTo(c, IF Event(c).type = "UNREADABLE" THEN "reject" ELSE "compute")
    /\ UNCHANGED <<kafka, cassandra, dead, faults>>

\* Deserialization, then the lookup in processed_events.
Check(c) ==
    /\ pc[c] = "check"
    /\ GoTo(c, IF Event(c).type = "UNREADABLE" THEN "reject"
               ELSE IF Event(c).id \in processed THEN "commit"
               ELSE "compute")
    /\ UNCHANGED <<kafka, cassandra, dead, faults>>

\* The writer's schema cannot be fetched from the schema registry: _deserialize
\* turns every exception into a ValidationError, so a sound event is rejected.
RegistryUnreachable(c) ==
    /\ pc[c] = "check"
    /\ Event(c).type # "UNREADABLE"
    /\ Fault("registry")
    /\ GoTo(c, "reject")
    /\ UNCHANGED <<kafka, cassandra, dead>>

\* Mutant: a stale event is applied like any other.
Compute_AppliesStale(c) ==
    LET verdict == Verdict(Event(c), tables)
    IN  /\ pc[c] = "compute"
        /\ \/ /\ verdict \in {"apply", "stale"}
              /\ pc' = [pc EXCEPT ![c] = "execute"]
              /\ statements' = [statements EXCEPT ![c] = Batch(Event(c), tables)]
              /\ overtaken' = overtaken \cup {b.event : b \in pending}
              /\ UNCHANGED current
           \/ verdict = "reject" /\ GoTo(c, "reject") /\ UNCHANGED overtaken
           \/ verdict = "error" /\ BackToPoll(c) /\ UNCHANGED overtaken
        /\ UNCHANGED <<kafka, tables, processed, pending, expired, dead, faults>>

\* compute_batch: the rows are read now and the batch is computed from them.
\* A stale event has an empty batch: only its id will be written.
Compute(c) ==
    LET verdict == Verdict(Event(c), tables)
    IN  /\ pc[c] = "compute"
        /\ \/ /\ verdict = "apply"
              /\ pc' = [pc EXCEPT ![c] = "execute"]
              /\ statements' = [statements EXCEPT ![c] = Batch(Event(c), tables)]
              /\ overtaken' = overtaken \cup {b.event : b \in pending}
              /\ UNCHANGED current
           \/ /\ verdict = "stale"
              /\ GoTo(c, "execute")
              /\ UNCHANGED overtaken
           \/ /\ verdict = "reject"
              /\ GoTo(c, "reject")
              /\ UNCHANGED overtaken
           \/ /\ verdict = "error"
              /\ BackToPoll(c)
              /\ UNCHANGED overtaken
        /\ UNCHANGED <<kafka, tables, processed, pending, expired, dead, faults>>

\* What becomes of the batches that timed out when a newer one is written.
Superseded(batches, newer) ==
    {[since |-> b.since, event |-> b.event, batch |-> Without(b.batch, newer)] :
        b \in batches}

\* Mutant: the id of the event is left out of the batch.
Executed_Unrecorded(c) ==
    /\ tables' = Write(tables, statements[c])
    /\ pending' = Superseded(pending, statements[c])
    /\ UNCHANGED <<processed, overtaken, expired>>

\* Mutant: the batch is not logged and only a part of it is applied.
Executed_Unlogged(c) ==
    /\ tables' = [Write(tables, statements[c]) EXCEPT !.ip = tables.ip]
    /\ processed' = processed \cup {Event(c).id}
    /\ pending' = Superseded(pending, statements[c])
    /\ UNCHANGED <<overtaken, expired>>

\* The batch and the id of the event become visible together.
Executed(c) ==
    /\ tables' = Write(tables, statements[c])
    /\ processed' = processed \cup {Event(c).id}
    /\ pending' = Superseded(pending, statements[c])
    /\ UNCHANGED <<overtaken, expired>>

Execute(c) ==
    /\ pc[c] = "execute"
    /\ Executed(c)
    /\ GoTo(c, "commit")
    /\ UNCHANGED <<kafka, dead, faults>>

\* A DriverException on any of the reads or on the batch: logged, two seconds
\* of sleep, next message.  A batch that timed out may never be applied, or be
\* applied later: the number of the fault tells which of two is the newer.
DriverException(c) ==
    /\ pc[c] \in {"check", "compute", "execute"}
    /\ Event(c).type # "UNREADABLE"
    /\ Fault("cassandra")
    /\ \/ UNCHANGED pending
       \/ /\ pc[c] = "execute"
          /\ pending' = pending \cup
                 {[since |-> faults', event |-> Event(c), batch |-> statements[c]]}
    /\ BackToPoll(c)
    /\ UNCHANGED <<kafka, tables, processed, overtaken, expired, dead>>

\* The coordinator, or the log of batches, gets it applied after all.
LateBatch(late) ==
    LET older == {b \in pending : b.since < late.since}
        newer == {b \in pending : b.since > late.since}
    IN  /\ late \in pending
        /\ tables' = Write(tables, late.batch)
        /\ processed' = processed \cup {late.event.id}
        /\ pending' = Superseded(older, late.batch) \cup newer
        /\ UNCHANGED <<kafka, loop, overtaken, expired, dead, faults>>

\* DLQProducer.send: the envelope is handed to the client library, no more.
Reject(c) ==
    /\ pc[c] = "reject"
    /\ outbox' = [outbox EXCEPT ![c] = @ \cup {current[c]}]
    /\ rejected' = rejected \cup {current[c]}
    /\ GoTo(c, "commit")
    /\ UNCHANGED <<kafka, cassandra, dlq, lost, faults>>

\* produce raises (its queue is full): the exception goes up to run.
RejectFails(c) ==
    /\ pc[c] = "reject"
    /\ Fault("full")
    /\ rejected' = rejected \cup {current[c]}
    /\ BackToPoll(c)
    /\ UNCHANGED <<kafka, cassandra, outbox, dlq, lost>>

\* Mutant: one more than the offset after the message.
Commit_OffByOne(c) ==
    /\ pc[c] = "commit"
    /\ committed' = [committed EXCEPT ![current[c][1]] = current[c][2] + 1]
    /\ BackToPoll(c)
    /\ UNCHANGED <<log, owner, position, evicted, cassandra, dead, faults>>

\* Mutant: whoever commits, the group takes it.
Commit_Unfenced(c) ==
    /\ pc[c] = "commit"
    /\ committed' = [committed EXCEPT ![current[c][1]] = current[c][2]]
    /\ BackToPoll(c)
    /\ UNCHANGED <<log, owner, position, evicted, cassandra, dead, faults>>

\* A synchronous commit of the offset after the message in hand.
Commit(c) ==
    /\ pc[c] = "commit"
    /\ c \notin evicted
    /\ committed' = [committed EXCEPT ![current[c][1]] = current[c][2]]
    /\ BackToPoll(c)
    /\ UNCHANGED <<log, owner, position, evicted, cassandra, dead, faults>>

\* The group refuses the commit of a consumer it expelled: a KafkaException,
\* logged by run.  The new owner gets the message again.
CommitFenced(c) ==
    /\ pc[c] = "commit"
    /\ c \in evicted
    /\ BackToPoll(c)
    /\ UNCHANGED <<kafka, cassandra, dead, faults>>

\* The commit raises a KafkaException for another reason: logged, next message.
CommitFails(c) ==
    /\ pc[c] = "commit"
    /\ Fault("commit")
    /\ BackToPoll(c)
    /\ UNCHANGED <<kafka, cassandra, dead>>

-----------------------------------------------------------------------------
(* What happens around the loop.                                           *)

\* The client library's own thread gets an envelope acknowledged ...
DeliverEnvelope(c, m) ==
    /\ pc[c] # "down"
    /\ m \in outbox[c]
    /\ outbox' = [outbox EXCEPT ![c] = @ \ {m}]
    /\ dlq' = dlq \cup {m}
    /\ UNCHANGED <<kafka, loop, cassandra, lost, rejected, faults>>

\* ... or gives it up: _delivery_cb writes a line to the log.
DropEnvelope(c, m) ==
    /\ m \in outbox[c]
    /\ Fault("dlq")
    /\ outbox' = [outbox EXCEPT ![c] = @ \ {m}]
    /\ lost' = lost \cup {m}
    /\ UNCHANGED <<kafka, loop, cassandra, dlq, rejected>>

\* A row of processed_events reaches the end of its thirty days.
Expire(id) ==
    /\ id \in processed
    /\ Fault("ttl")
    /\ processed' = processed \ {id}
    /\ expired' = expired \cup {id}
    /\ UNCHANGED <<kafka, loop, tables, pending, overtaken, dead>>

-----------------------------------------------------------------------------
Step(c) ==
    Check(c) \/ Compute(c) \/ Execute(c) \/ Reject(c) \/ Commit(c) \/ CommitFenced(c)

Next ==
    \/ \E e \in Events : Produce(e)
    \/ Rebalance
    \/ SpuriousRebalance
    \/ \E c \in Consumers :
        \/ Start(c)
        \/ Crash(c)
        \/ Stop(c)
        \/ Evict(c)
        \/ Rejoin(c)
        \/ Flush(c)
        \/ FlushTimeout(c)
        \/ \E p \in Partitions : Poll(c, p)
        \/ Check(c)
        \/ RegistryUnreachable(c)
        \/ Compute(c)
        \/ Execute(c)
        \/ DriverException(c)
        \/ Reject(c)
        \/ RejectFails(c)
        \/ Commit(c)
        \/ CommitFenced(c)
        \/ CommitFails(c)
        \/ \E m \in outbox[c] : DeliverEnvelope(c, m) \/ DropEnvelope(c, m)
    \/ \E late \in pending : LateBatch(late)
    \/ \E id \in processed : Expire(id)

Spec == Init /\ [][Next]_vars

\* The loop never stops by itself; the container is restarted when it dies
\* (docker-compose.yml: restart: unless-stopped); the coordinator completes a
\* rebalance; the client library sends what it holds.  Producers owe nothing.
Fairness ==
    /\ WF_vars(Rebalance)
    /\ \A c \in Consumers :
        /\ WF_vars(Start(c))
        /\ WF_vars(Rejoin(c))
        /\ WF_vars(Flush(c))
        /\ WF_vars(Step(c))
        /\ \A p \in Partitions : WF_vars(Poll(c, p))
        /\ WF_vars(\E m \in outbox[c] : DeliverEnvelope(c, m))

FairSpec == Spec /\ Fairness

-----------------------------------------------------------------------------
(* Properties.                                                             *)

Labels == {"down", "poll", "check", "compute", "execute", "reject", "commit", "closing"}

RowsOf(rows, keys, type) ==
    DOMAIN rows \subseteq keys /\ \A k \in DOMAIN rows : rows[k] \in type

IsBatch(b) ==
    /\ RowsOf(b.ipz, Products \X Zones, ZoneRows)
    /\ RowsOf(b.iz, Zones \X Products, MirrorRows)
    /\ RowsOf(b.ip, Products, TotalRows)
    /\ RowsOf(b.orders, Orders, OrderRows)
    /\ b.history \subseteq HistoryRows

\* Types, and that a message is in hand exactly while it is being processed.
TypeOK ==
    /\ \A p \in Partitions : log[p] \in Seq(Events) /\ Len(log[p]) <= MaxLog
    /\ \A p \in Partitions : committed[p] \in 0..Len(log[p])
    /\ owner \in [Partitions -> Consumers \cup {NoConsumer}]
    /\ \A p \in Partitions : position[p] \in 0..Len(log[p])
    /\ \A p \in Partitions : owner[p] \notin evicted
    /\ \A c \in evicted : Processing(c) \/ pc[c] = "poll"
    /\ pc \in [Consumers -> Labels]
    /\ \A c \in Consumers :
        IF pc[c] \in {"down", "poll", "closing"}
        THEN current[c] = <<>>
        ELSE current[c] \in Messages /\ current[c][2] <= Len(log[current[c][1]])
    /\ \A c \in Consumers : IsBatch(statements[c])
    /\ tables \in Tables
    /\ processed \subseteq {e.id : e \in Events}
    /\ \A b \in pending :
        b.since \in 1..faults /\ b.event \in Events /\ IsBatch(b.batch)
    /\ overtaken \subseteq Events
    /\ expired \subseteq {e.id : e \in Events}
    /\ outbox \in [Consumers -> SUBSET Messages]
    /\ dlq \subseteq Messages /\ lost \subseteq Messages /\ rejected \subseteq Messages
    /\ faults \in 0..MaxFaults

Warehouse == INSTANCE Inventory

\* The consumer implements the inventory: whatever it does, the tables change
\* only as if the handlers applied one event atomically to the rows as they
\* are at that moment.  In particular no batch is computed from rows that have
\* changed by the time it is executed (main.py:201-221).  Statements that time
\* out are the fault under which this fails.
ImplementsInventory == Warehouse!Spec

\* What is left of it when they do: a batch that timed out may be applied late
\* and the tables still change by one event at a time, until a batch is computed
\* while one that timed out is on its way (cassandra_repo.py:275-277,
\* main.py:245-249).
ImplementsUntilOvertaken ==
    Warehouse!Init /\ [][overtaken' = {} => [Warehouse!Next]_tables]_vars

\* A batch about to be executed is not of an event that was applied before,
\* after redelivery, republication and expiry of the event's id alike
\* (README.md:160-171).  An event is exempt whose batch timed out and had not
\* arrived when the next one was computed, which may be for the event itself.
AppliedAtMostOnce ==
    \A c \in Consumers :
        pc[c] = "execute" /\ statements[c].history # {} =>
            Event(c) \notin Applied(tables) \ overtaken

\* Envelopes handed to the DLQ producer, wherever they are now.
Envelopes == dlq \cup lost \cup UNION {outbox[c] : c \in Consumers}

\* What became of a message: its id was recorded as processed, or its envelope
\* was handed to the DLQ producer.
Handled(m) ==
    \/ m \in Envelopes
    \/ LET e == log[m[1]][m[2]]
       IN  e.type # "UNREADABLE" /\ e.id \in processed \cup expired

\* The committed offset never covers a message that was neither recorded nor
\* rejected (README.md:160-162, main.py:223, main.py:247).
CommittedIsHandled ==
    \A p \in Partitions : \A i \in 1..committed[p] : Handled(<<p, i>>)

Delivery == INSTANCE AtLeastOnce WITH
    handled <- {m \in Messages : m[2] <= Len(log[m[1]]) /\ Handled(m)},
    done <- committed

\* The group implements AtLeastOnce: whatever crashes, is expelled, comes back
\* late or is assigned twice, no offset is committed before its message was
\* recorded or rejected, none goes back, and nothing dealt with is forgotten
\* (README.md:158-162, main.py:223).
ImplementsDelivery == Delivery!Spec

\* A rejected message whose offset is committed is in the dead letter queue or
\* still on its way there, unless it was delivered again and accepted
\* (README.md:193-195, 213; dlq.py:3-5).
RejectedReachesDLQ ==
    \A m \in rejected :
        m[2] <= committed[m[1]] =>
            \/ m \in dlq \cup UNION {outbox[c] : c \in Consumers}
            \/ LET e == log[m[1]][m[2]]
               IN  e.type # "UNREADABLE" /\ e.id \in processed \cup expired

\* A message whose envelope went to the dead letter queue is not applied as
\* well, not even when it is delivered again after a crash: an operator who
\* replays it from there would apply it a second time (dlq.py:3-5).  It holds
\* under crashes, stops, rebalances and a dead letter topic out of reach; the
\* theorem DeadLettersNotAppliedHolds says why the other faults break it.
DeadLettersNotApplied ==
    \A m \in Envelopes :
        LET e == log[m[1]][m[2]]
        IN  e \in Applied(tables) =>
                \E n \in Messages \ {m} : n[2] <= Len(log[n[1]]) /\ log[n[1]][n[2]] = e

\* The group's offset of a partition never goes back, whoever commits it.
CommittedNeverRegresses ==
    [][\A p \in Partitions : committed'[p] >= committed[p]]_vars

\* Two consumers never have messages of the same partition in hand.
PartitionExclusive ==
    \A c, d \in Consumers :
        c # d /\ current[c] # <<>> /\ current[d] # <<>> => current[c][1] # current[d][1]

\* The lag drains: every message is processed and its offset committed in the
\* end, through crashes and rebalances (README.md:160-162; metrics consumer_lag).
LagDrains == <>[](\A p \in Partitions : committed[p] = Len(log[p]))

\* The denormalised tables agree, as Inventory states it (init.cql:7-8,
\* README.md:224-230).
TablesAgree == Warehouse!TablesAgree
=============================================================================
