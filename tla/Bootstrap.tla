------------------------------- MODULE Bootstrap -------------------------------
(***************************************************************************)
(* The two one-shot containers that run before the consumer.  kafka-init is *)
(* scripts/init_kafka.py: it creates the two topics and registers the two   *)
(* schema versions, step by step.  It reads what is there before it writes, *)
(* and between the two a producer may come first: the broker creates a      *)
(* topic that is written to, and the producer's serializer registers the    *)
(* schema it uses.  cassandra-init applies init.cql.  Any call may fail,    *)
(* with its effect or without; nobody starts them again but the operator.   *)
(***************************************************************************)
EXTENDS Naturals

CONSTANTS
    Main, DLQ,           \* TOPIC_MAIN, TOPIC_DLQ
    TOPIC_PARTITIONS,
    BrokerPartitions,    \* partitions of a topic the broker creates itself
    Statements,          \* statements of init.cql, few enough to enumerate
    MaxReruns            \* bound: how often the operator runs one of them again

Topics == {Main, DLQ}
Schemas == {"v1", "v2"}

ConstantsOK ==
    /\ Main # DLQ
    /\ TOPIC_PARTITIONS \in Nat \ {0} /\ BrokerPartitions \in Nat \ {0}
    /\ Statements \in Nat /\ MaxReruns \in Nat

VARIABLES
    step,         \* the script's next call; "done" and "failed" are its exits
    existing,     \* the topics it saw when it looked, until it has used that
    partitions,   \* per topic, how many partitions it has: 0 before it exists
    versions,     \* the schemas registered under the subject
    config,       \* compatibility set for the subject and globally
    cql_step,     \* where cassandra-init is
    applied,      \* how many statements of init.cql have taken effect
    reruns,
    everDone      \* history: kafka-init has succeeded once

kafka == <<step, existing, partitions, versions, config, everDone>>
cql == <<cql_step, applied>>
vars == <<kafka, cql, reruns>>

Init ==
    /\ step = "list"
    /\ existing = {}
    /\ partitions = [t \in Topics |-> 0]
    /\ versions = {}
    /\ config = [subject |-> "unset", global |-> "unset"]
    /\ cql_step = "waiting"
    /\ applied = 0
    /\ reruns = 0
    /\ everDone = FALSE

Goto(next) == step' = next /\ UNCHANGED <<cql, reruns, everDone>>

-----------------------------------------------------------------------------
(* kafka-init.                                                             *)

\* ensure_topics, the list of what is there, once the broker answers.
ListTopics ==
    /\ step = "list"
    /\ existing' = {t \in Topics : partitions[t] > 0}
    /\ Goto("create")
    /\ UNCHANGED <<partitions, versions, config>>

\* Mutant: every topic of the list is taken for created, whatever its future says.
CreateTopics_IgnoresErrors ==
    /\ step = "create"
    /\ \E created \in SUBSET (Topics \ existing) :
          partitions' = [t \in Topics |-> IF t \in created /\ partitions[t] = 0
                                             THEN TOPIC_PARTITIONS ELSE partitions[t]]
    /\ Goto("registry")
    /\ existing' = {}
    /\ UNCHANGED <<versions, config>>

\* create_topics and its futures: a topic that came into existence meanwhile
\* is left as it is; a future that fails for another reason ends the script,
\* whatever became of the other topic.
CreateTopics ==
    /\ step = "create"
    /\ \E created \in SUBSET (Topics \ existing), ok \in BOOLEAN :
          /\ ok => created = Topics \ existing
          /\ partitions' = [t \in Topics |-> IF t \in created /\ partitions[t] = 0
                                                THEN TOPIC_PARTITIONS ELSE partitions[t]]
          /\ Topics \subseteq existing => ok
          /\ Goto(IF ok THEN "registry" ELSE "failed")
    /\ existing' = {}
    /\ UNCHANGED <<versions, config>>

\* wait_for_sr: the registry answers.
WaitForRegistry ==
    /\ step = "registry"
    /\ Goto("compatibility")
    /\ UNCHANGED <<existing, partitions, versions, config>>

\* Mutant: a refusal is taken for an answer, without the fallback.
SetCompatibility_IgnoresRefusal ==
    /\ step = "compatibility"
    /\ \/ config' = [config EXCEPT !.subject = "BACKWARD"]
       \/ versions = {} /\ UNCHANGED config
    /\ Goto("v1")
    /\ UNCHANGED <<existing, partitions, versions>>

\* set_compatibility, for the subject; a registry that does not know the
\* subject yet may refuse.
SetCompatibility ==
    /\ step = "compatibility"
    /\ \/ config' = [config EXCEPT !.subject = "BACKWARD"] /\ Goto("v1")
       \/ versions = {} /\ Goto("global") /\ UNCHANGED config
    /\ UNCHANGED <<existing, partitions, versions>>

\* set_compatibility, the fallback.
SetGlobalCompatibility ==
    /\ step = "global"
    /\ config' = [config EXCEPT !.global = "BACKWARD"]
    /\ Goto("v1")
    /\ UNCHANGED <<existing, partitions, versions>>

\* register_schema: a schema that is registered already keeps its id.
Register(schema, next) ==
    /\ step = schema
    /\ versions' = versions \union {schema}
    /\ Goto(next)
    /\ UNCHANGED <<existing, partitions, config>>

\* The versions are listed and the script ends.
Finish ==
    /\ step = "versions"
    /\ step' = "done"
    /\ everDone' = TRUE
    /\ UNCHANGED <<existing, partitions, versions, config, cql, reruns>>

\* A call fails and the exception ends the script; what the call asked for
\* may have been done all the same.
Fail ==
    /\ step \notin {"done", "failed", "create"}
    /\ \/ UNCHANGED <<versions, config>>
       \/ /\ step \in Schemas
          /\ versions' = versions \union {step}
          /\ UNCHANGED config
       \/ /\ step = "compatibility"
          /\ config' = [config EXCEPT !.subject = "BACKWARD"]
          /\ UNCHANGED versions
       \/ /\ step = "global"
          /\ config' = [config EXCEPT !.global = "BACKWARD"]
          /\ UNCHANGED versions
    /\ Goto("failed")
    /\ UNCHANGED <<existing, partitions>>

\* docker compose up, or run, once more: the container starts from the top.
Rerun ==
    /\ step \in {"done", "failed"}
    /\ reruns < MaxReruns
    /\ reruns' = reruns + 1
    /\ step' = "list"
    /\ UNCHANGED <<existing, partitions, versions, config, cql, everDone>>

-----------------------------------------------------------------------------
(* cassandra-init.                                                         *)

\* The cluster answers, or sixty attempts are over: either way it goes on.
AwaitCluster ==
    /\ cql_step = "waiting"
    /\ cql_step' = "applying"
    /\ UNCHANGED <<kafka, applied, reruns>>

\* cqlsh -f: the statements one after the other, each IF NOT EXISTS, up to the
\* first that fails or is not answered; set -e makes that the exit code.
ApplyStatements ==
    /\ cql_step = "applying"
    /\ \E n \in applied..Statements, answered \in BOOLEAN :
          /\ applied' = n
          /\ answered => n = Statements
          /\ cql_step' = IF answered THEN "done" ELSE "failed"
    /\ UNCHANGED <<kafka, reruns>>

\* docker compose up -d cassandra-init.
RerunCql ==
    /\ cql_step \in {"done", "failed"}
    /\ reruns < MaxReruns
    /\ reruns' = reruns + 1
    /\ cql_step' = "waiting"
    /\ UNCHANGED <<kafka, applied>>

-----------------------------------------------------------------------------
(* Those who may come first.                                               *)

\* The broker creates a topic somebody writes to.
AutoCreate(t) ==
    /\ partitions[t] = 0
    /\ partitions' = [partitions EXCEPT ![t] = BrokerPartitions]
    /\ UNCHANGED <<step, existing, versions, config, cql, reruns, everDone>>

\* A producer's serializer registers the schema it writes with.
AutoRegister(schema) ==
    /\ partitions[Main] > 0
    /\ schema \notin versions
    /\ versions' = versions \union {schema}
    /\ UNCHANGED <<step, existing, partitions, config, cql, reruns, everDone>>

-----------------------------------------------------------------------------
Script ==
    \/ ListTopics \/ CreateTopics
    \/ WaitForRegistry \/ SetCompatibility \/ SetGlobalCompatibility
    \/ Register("v1", "v2") \/ Register("v2", "versions")
    \/ Finish \/ Fail

Next ==
    \/ Script \/ Rerun
    \/ AwaitCluster \/ ApplyStatements \/ RerunCql
    \/ \E t \in Topics : AutoCreate(t)
    \/ \E schema \in Schemas : AutoRegister(schema)

Spec == Init /\ [][Next]_vars

-----------------------------------------------------------------------------
(* Properties.                                                             *)

TypeOK ==
    /\ step \in {"list", "create", "registry", "compatibility", "global",
                 "v1", "v2", "versions", "done", "failed"}
    /\ existing \subseteq Topics
    /\ partitions \in [Topics -> {0, TOPIC_PARTITIONS, BrokerPartitions}]
    /\ versions \subseteq Schemas
    /\ config \in [subject : {"unset", "BACKWARD"}, global : {"unset", "BACKWARD"}]
    /\ cql_step \in {"waiting", "applying", "done", "failed"}
    /\ applied \in 0..Statements
    /\ reruns \in 0..MaxReruns
    /\ everDone \in BOOLEAN

\* What the registry holds the subject to.
Compatibility == IF config.subject = "unset" THEN config.global ELSE config.subject

Prepared ==
    /\ \A t \in Topics : partitions[t] = TOPIC_PARTITIONS
    /\ versions = Schemas
    /\ Compatibility = "BACKWARD"

\* When the script has succeeded once, everything is there and stays: both
\* topics with the partitions asked for, both schemas, and the compatibility
\* they are held to, whoever created what first and whatever a failed run
\* had left (init_kafka.py:155-164).
PreparedOnceDone == everDone => Prepared
=============================================================================
