-------------------------------- MODULE Storage --------------------------------
(***************************************************************************)
(* The Cassandra cluster under the consumer: replicas, consistency levels,  *)
(* logged batches and the read-modify-write of one consumer over them.      *)
(* Where module Consumer reads and writes the tables in one step, this one  *)
(* says what the steps are when rows live on several nodes.                 *)
(*                                                                         *)
(* The events are receipts of one product.  An event is its timestamp, and  *)
(* a row holds the bag of the events added up in it, so that an event that  *)
(* was lost or counted twice can be told.  inventory_by_zone, event_history *)
(* and orders are left out: the handler of a receipt reads none of them.    *)
(*                                                                         *)
(* Of Cassandra is assumed: a replica applies what a batch writes to one    *)
(* partition key together; of two writes of a row the one of the later      *)
(* batch wins, in whatever order they arrive; what the batch log or a hint  *)
(* holds for a node reaches it in the end.                                  *)
(***************************************************************************)
EXTENDS Integers, Sequences, Bags, FiniteSetsExt

CONSTANTS
    Nodes,       \* the replicas of every row (init.cql: RF 3)
    ReadCL,      \* replicas a read waits for (CASSANDRA_READ_CONSISTENCY)
    WriteCL,     \* replicas a write waits for (CASSANDRA_WRITE_CONSISTENCY)
    Zones,       \* zone_id values
    Events,      \* receipts of the product, each named by its timestamp
    ZoneOf,      \* the zone of each receipt
    MaxPolls,    \* bound: messages the consumer takes
    MaxTimeouts  \* bound: reads and batches that fail

ASSUME ConsistencyAssumption ==
    /\ IsFiniteSet(Nodes)
    /\ ReadCL \in 1..Cardinality(Nodes) /\ WriteCL \in 1..Cardinality(Nodes)
    /\ ReadCL + WriteCL > Cardinality(Nodes)
ASSUME StorageEventsAssumption ==
    Events \subseteq Nat \ {0} /\ ZoneOf \in [Events -> Zones]
ASSUME StorageBoundsAssumption ==
    MaxPolls \in Nat /\ MaxTimeouts \in Nat

VARIABLES
    batches,       \* the batches sent, each a function from rows to contents
    applied,       \* per node, the <<batch, partition key>> it has applied
    pc,            \* where the consumer is in _process
    event,         \* the event in hand
    writes,        \* the part of its batch computed so far
    acknowledged,  \* history variable: the batches execute_batch returned from
    abandoned,     \* history variable: the batches it raised an exception for
    polls, timeouts

cluster == <<batches, applied>>
client == <<pc, event, writes>>
history == <<acknowledged, abandoned>>
vars == <<cluster, client, history, polls, timeouts>>

-----------------------------------------------------------------------------
(* Rows and what replicas hold of them.                                    *)

ZoneRow(z) == <<"inventory_by_product_zone", z>>
TotalRow == <<"inventory_by_product", "product">>
ProcessedRow(e) == <<"processed_events", e>>

Rows ==
    {ZoneRow(z) : z \in Zones} \cup {TotalRow} \cup {ProcessedRow(e) : e \in Events}

\* Both tables of a product have product_id as their partition key.
KeyOf(row) == IF row[1] = "processed_events" THEN row ELSE TotalRow

Keys(b) == {KeyOf(row) : row \in DOMAIN batches[b]}

\* The batch with one more statement, an upsert of the row.
With(batch, row, content) ==
    [r \in DOMAIN batch \cup {row} |-> IF r = row THEN content ELSE batch[r]]

\* The batches that wrote the row and that one of these nodes has applied.
Writers(nodes, row) ==
    {b \in DOMAIN batches :
        row \in DOMAIN batches[b] /\ \E n \in nodes : <<b, KeyOf(row)>> \in applied[n]}

\* What a coordinator that asks these nodes for the row returns: the newest.
View(nodes, row) ==
    IF Writers(nodes, row) = {} THEN EmptyBag ELSE batches[Max(Writers(nodes, row))][row]

\* The sets of nodes that may answer a read.
Quorums == {nodes \in SUBSET Nodes : Cardinality(nodes) = ReadCL}

\* Mutant: reads at consistency level ONE.
Answering_AtOne == {nodes \in SUBSET Nodes : Cardinality(nodes) = 1}

Answering == Quorums

\* The nodes that have applied all that the batch writes under the key.
Holders(b, key) == {n \in Nodes : <<b, key>> \in applied[n]}

\* Mutant: writes at consistency level ONE.
Acked_AtOne(b) == \A key \in Keys(b) : Holders(b, key) # {}

Acked(b) == \A key \in Keys(b) : Cardinality(Holders(b, key)) >= WriteCL

-----------------------------------------------------------------------------
Init ==
    /\ batches = <<>>
    /\ applied = [n \in Nodes |-> {}]
    /\ pc = "poll"
    /\ event = 0
    /\ writes = <<>>
    /\ acknowledged = {}
    /\ abandoned = {}
    /\ polls = 0
    /\ timeouts = 0

-----------------------------------------------------------------------------
(* The consumer.  The next message may be any event, one that comes again   *)
(* included.                                                               *)

BackToPoll == pc' = "poll" /\ event' = 0 /\ writes' = <<>>

Poll(e) ==
    /\ pc = "poll"
    /\ polls < MaxPolls
    /\ polls' = polls + 1
    /\ pc' = "lookup"
    /\ event' = e
    /\ UNCHANGED <<cluster, writes, history, timeouts>>

\* is_event_processed
Lookup(nodes) ==
    /\ pc = "lookup"
    /\ \/ View(nodes, ProcessedRow(event)) # EmptyBag /\ BackToPoll
       \/ View(nodes, ProcessedRow(event)) = EmptyBag /\ pc' = "zone" /\ UNCHANGED <<event, writes>>
    /\ UNCHANGED <<cluster, history, polls, timeouts>>

\* The row carries the timestamp of the last event that wrote it.
Stale(row) == \E e \in BagToSet(row) : e >= event

\* get_inventory_by_product_zone, and _check_order: a stale event writes nothing
\* but its id.
ReadZone(nodes) ==
    LET row == View(nodes, ZoneRow(ZoneOf[event]))
    IN  /\ pc = "zone"
        /\ \/ Stale(row) /\ pc' = "execute" /\ UNCHANGED writes
           \/ /\ ~Stale(row)
              /\ pc' = "total"
              /\ writes' = With(writes, ZoneRow(ZoneOf[event]), row (+) SetToBag({event}))
        /\ UNCHANGED <<event, cluster, history, polls, timeouts>>

\* Mutant: the total is taken from the row of the zone.
ReadTotal_OfZone(nodes) ==
    /\ pc = "total"
    /\ pc' = "execute"
    /\ writes' = With(writes, TotalRow, writes[ZoneRow(ZoneOf[event])])
    /\ UNCHANGED <<event, cluster, history, polls, timeouts>>

\* get_inventory_by_product: a read of its own, later than the one of the zone.
ReadTotal(nodes) ==
    /\ pc = "total"
    /\ pc' = "execute"
    /\ writes' = With(writes, TotalRow, View(nodes, TotalRow) (+) SetToBag({event}))
    /\ UNCHANGED <<event, cluster, history, polls, timeouts>>

\* execute_batch: the batch log has it, and the nodes will get it.
Execute ==
    /\ pc = "execute"
    /\ pc' = "wait"
    /\ batches' = Append(batches, With(writes, ProcessedRow(event), SetToBag({event})))
    /\ UNCHANGED <<applied, event, writes, history, polls, timeouts>>

\* ... and it returns: enough nodes have applied every part of it.
Acknowledge ==
    /\ pc = "wait"
    /\ Acked(Len(batches))
    /\ acknowledged' = acknowledged \cup {Len(batches)}
    /\ BackToPoll
    /\ UNCHANGED <<cluster, abandoned, polls, timeouts>>

\* Mutant: a batch that timed out is taken for undone.
Timeout_TakesBack ==
    /\ pc # "poll"
    /\ timeouts < MaxTimeouts
    /\ timeouts' = timeouts + 1
    /\ batches' = IF pc = "wait" THEN SubSeq(batches, 1, Len(batches) - 1) ELSE batches
    /\ BackToPoll
    /\ UNCHANGED <<applied, history, polls>>

\* Too few nodes answer in time, for a read or for the batch: a DriverException,
\* logged, next message.  Nobody takes the batch back.
Timeout ==
    /\ pc # "poll"
    /\ timeouts < MaxTimeouts
    /\ timeouts' = timeouts + 1
    /\ abandoned' = IF pc = "wait" THEN abandoned \cup {Len(batches)} ELSE abandoned
    /\ BackToPoll
    /\ UNCHANGED <<cluster, acknowledged, polls>>

-----------------------------------------------------------------------------
(* The cluster.                                                            *)

\* A node applies a part of a batch: from the coordinator, or later from a
\* hint or the batch log.  A node that is down is one that applies nothing and is
\* not asked; it comes back with what it had.
Apply(n, b, key) ==
    /\ <<b, key>> \notin applied[n]
    /\ applied' = [applied EXCEPT ![n] = @ \cup {<<b, key>>}]
    /\ UNCHANGED <<batches, client, history, polls, timeouts>>

-----------------------------------------------------------------------------
Next ==
    \/ \E e \in Events : Poll(e)
    \/ \E nodes \in Answering : Lookup(nodes) \/ ReadZone(nodes) \/ ReadTotal(nodes)
    \/ Execute
    \/ Acknowledge
    \/ Timeout
    \/ \E n \in Nodes, b \in DOMAIN batches : \E key \in Keys(b) : Apply(n, b, key)

Spec == Init /\ [][Next]_vars

-----------------------------------------------------------------------------
(* Properties.                                                             *)

TypeOK ==
    /\ \A b \in DOMAIN batches : DOMAIN batches[b] \subseteq Rows
    /\ \A n \in Nodes : \A m \in applied[n] : m[1] \in DOMAIN batches /\ m[2] \in Keys(m[1])
    /\ pc \in {"poll", "lookup", "zone", "total", "execute", "wait"}
    /\ event \in Events \cup {0} /\ (event = 0 <=> pc = "poll")
    /\ DOMAIN writes \subseteq Rows
    /\ acknowledged \cup abandoned \subseteq DOMAIN batches
    /\ polls \in 0..MaxPolls /\ timeouts \in 0..MaxTimeouts

\* A read sees every write that was acknowledged before it, whichever nodes
\* answer it and whichever were away when it was written (README.md:224-230).
ReadsSeeAcknowledged ==
    \A b \in acknowledged : \A row \in DOMAIN batches[b], nodes \in Quorums :
        \E newer \in Writers(nodes, row) : newer >= b

\* What an acknowledged batch counted stays counted, in the zone and in the
\* total, however many batches are computed on top of it, time out, and reach
\* nodes late (README.md:160-162, 224-230).
AcknowledgedLasts ==
    \A b \in acknowledged : \A row \in DOMAIN batches[b], nodes \in Quorums :
        BagToSet(batches[b][row]) \subseteq BagToSet(View(nodes, row))

Times(e, row) == IF BagIn(e, row) THEN row[e] ELSE 0

\* An event whose id is recorded is counted once in its zone and once in the
\* total, or in neither if a later event of its zone is.
AllOrNothing(nodes) ==
    \A e \in Events :
        LET inZone == Times(e, View(nodes, ZoneRow(ZoneOf[e])))
            inTotal == Times(e, View(nodes, TotalRow))
        IN  /\ inZone = inTotal
            /\ inZone \in {0, 1}
            /\ View(nodes, ProcessedRow(e)) # EmptyBag /\ inZone = 0 =>
                  \E f \in BagToSet(View(nodes, ZoneRow(ZoneOf[e]))) : f > e

\* As long as no batch was given up, any reader between two messages sees the
\* tables agree, each event counted once, and the recorded ones all there: the
\* batches are as good as atomic (README.md:171-178, cassandra_repo.py:275-277).
AtomicUntilAbandoned ==
    pc = "poll" /\ abandoned = {} => \A nodes \in Quorums : AllOrNothing(nodes)

\* The same when a batch was given up but every part of it has arrived
\* everywhere: a batch is applied as a whole or not at all
\* (README.md:171-178, cassandra_repo.py:275-277).
AtomicInTheEnd ==
    pc = "poll" /\ (\A n \in Nodes, b \in DOMAIN batches : \A key \in Keys(b) : <<b, key>> \in applied[n])
        => AllOrNothing(Nodes)
=============================================================================
