------------------------------ MODULE Deployment ------------------------------
(***************************************************************************)
(* docker-compose.yml: the consumer's container is created only when both   *)
(* one-shot containers have exited with success, and from then on is        *)
(* started again whenever its process is gone (restart: unless-stopped),    *)
(* whatever happens to the other two.  Composes Bootstrap and Monitoring.   *)
(***************************************************************************)
EXTENDS Integers

CONSTANTS
    Main, DLQ, TOPIC_PARTITIONS, BrokerPartitions, Statements, MaxReruns,
    Threads, PollLimit

VARIABLES
    step, existing, partitions, versions, config, everDone, cql_step, applied, reruns,
    loop, waited, age, cassandra, broker, thread, kafka_ok, cass_ok, answer,
    kafka_connected, cassandra_connected,
    created       \* whether compose has created the consumer's container

bootstrap == <<step, existing, partitions, versions, config, everDone, cql_step, applied,
               reruns>>
consumer == <<loop, waited, age, cassandra, broker, thread, kafka_ok, cass_ok, answer,
              kafka_connected, cassandra_connected>>
vars == <<bootstrap, consumer, created>>

Boot == INSTANCE Bootstrap
Mon == INSTANCE Monitoring

ASSUME DeploymentAssumption == Boot!ConstantsOK

Init ==
    /\ Boot!Init
    /\ Mon!Init
    /\ created = FALSE

-----------------------------------------------------------------------------
\* Mutant: the containers are only waited for until they have stopped.
Create_AfterAnyExit ==
    /\ ~created
    /\ {step, cql_step} \subseteq {"done", "failed"}
    /\ Mon!Start
    /\ created' = TRUE
    /\ UNCHANGED bootstrap

\* depends_on both, condition: service_completed_successfully.
Create ==
    /\ ~created
    /\ step = "done" /\ cql_step = "done"
    /\ Mon!Start
    /\ created' = TRUE
    /\ UNCHANGED bootstrap

\* restart: unless-stopped.
Restart ==
    /\ created
    /\ Mon!Start
    /\ UNCHANGED <<bootstrap, created>>

\* A step of one of the one-shot containers, or of who may come before them.
Bootstrapping ==
    /\ Boot!Next
    /\ UNCHANGED <<consumer, created>>

\* What the consumer's module lets happen once it runs, and its surroundings.
Serving ==
    /\ Mon!Step
    /\ UNCHANGED <<bootstrap, created>>

Next == Create \/ Restart \/ Bootstrapping \/ Serving
Spec == Init /\ [][Next]_vars

-----------------------------------------------------------------------------
(* Properties.                                                             *)

\* A consumer that runs finds both topics with their partitions, both schema
\* versions and the whole of init.cql, also when a failed run was repeated,
\* a producer came first, or the containers run again while it is up
\* (docker-compose.yml:244-248, init_kafka.py:155-164).
ConsumerStartsPrepared == loop # "down" => Boot!Prepared /\ applied = Statements

\* A run of kafka-init after one that succeeded changes nothing that is there,
\* also while the consumer runs: although the first may have set the global
\* compatibility for want of a subject and the second finds it existing
\* (init_kafka.py:4).
RerunIsNoOp ==
    [][everDone => UNCHANGED <<partitions, versions, Boot!Compatibility>>]_vars
=============================================================================
