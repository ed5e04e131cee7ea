---------------------------- MODULE BootstrapProofs ----------------------------
(***************************************************************************)
(* What the one-shot containers achieve, for every number of partitions,    *)
(* statements and runs, provided that a topic the broker creates by itself  *)
(* gets as many partitions as the script asks for.                          *)
(***************************************************************************)
EXTENDS Bootstrap, TLAPS

\* How far kafka-init must have come when it is at a step.
TopicsDone == {"registry", "compatibility", "global", "v1", "v2", "versions", "done"}
CompatibilityDone == {"v1", "v2", "versions", "done"}

Progress ==
    /\ existing \subseteq {t \in Topics : partitions[t] > 0}
    /\ step \in TopicsDone => \A t \in Topics : partitions[t] > 0
    /\ step \in CompatibilityDone => Compatibility = "BACKWARD"
    /\ step \in {"v2", "versions", "done"} => "v1" \in versions
    /\ step \in {"versions", "done"} => "v2" \in versions
    /\ step = "done" => everDone
    /\ cql_step = "done" => applied = Statements

IInv == TypeOK /\ Progress /\ PreparedOnceDone

SameDefaults == ConstantsOK /\ BrokerPartitions = TOPIC_PARTITIONS

-----------------------------------------------------------------------------
\* Nothing is there at first, and the scripts begin at the top.
LEMMA InitInvariant == ASSUME SameDefaults, Init PROVE IInv
<1> USE DEF SameDefaults, ConstantsOK, Init, TopicsDone, CompatibilityDone, Topics, Schemas
<1>1. TypeOK
  <2>1. config \in [subject : {"unset", "BACKWARD"}, global : {"unset", "BACKWARD"}]
    OBVIOUS
  <2>2. partitions \in [Topics -> {0, TOPIC_PARTITIONS, BrokerPartitions}]
    OBVIOUS
  <2>3. everDone \in BOOLEAN
    OBVIOUS
  <2>4. existing \subseteq Topics /\ versions \subseteq Schemas
    OBVIOUS
  <2>5. applied \in 0..Statements /\ reruns \in 0..MaxReruns
    OBVIOUS
  <2> QED BY <2>1, <2>2, <2>3, <2>4, <2>5 DEF TypeOK
<1>2. Progress BY DEF Progress
<1>3. PreparedOnceDone BY DEF PreparedOnceDone
<1> QED BY <1>1, <1>2, <1>3 DEF IInv

\* Every step keeps the invariant: what a script or a producer has made is
\* never taken away, and a step is only reached when those before it are done.
LEMMA StepKeepsInvariant ==
  ASSUME SameDefaults, IInv, [Next]_vars
  PROVE  IInv'
<1> USE DEF SameDefaults, ConstantsOK, IInv, TypeOK, Progress, PreparedOnceDone, Prepared,
            Compatibility, TopicsDone, CompatibilityDone, Topics, Schemas, Goto, kafka, cql
<1>1. CASE ListTopics BY <1>1 DEF ListTopics
<1>2. CASE CreateTopics BY <1>2 DEF CreateTopics
<1>3. CASE WaitForRegistry BY <1>3 DEF WaitForRegistry
<1>4. CASE SetCompatibility BY <1>4 DEF SetCompatibility
<1>5. CASE SetGlobalCompatibility BY <1>5 DEF SetGlobalCompatibility
<1>6. CASE Register("v1", "v2") BY <1>6 DEF Register
<1>7. CASE Register("v2", "versions") BY <1>7 DEF Register
<1>8. CASE Finish
  <2>1. TypeOK' BY <1>8 DEF Finish
  <2>2. Progress' BY <1>8 DEF Finish
  <2>3. Prepared'
    <3>1. versions' = Schemas BY <1>8 DEF Finish
    <3>2. Compatibility' = "BACKWARD" BY <1>8 DEF Finish
    <3>3. \A t \in Topics : partitions'[t] = TOPIC_PARTITIONS BY <1>8 DEF Finish
    <3> QED BY <3>1, <3>2, <3>3
  <2> QED BY <2>1, <2>2, <2>3
<1>9. CASE Fail BY <1>9 DEF Fail
<1>10. CASE Rerun BY <1>10 DEF Rerun
<1>11. CASE AwaitCluster BY <1>11 DEF AwaitCluster
<1>12. CASE ApplyStatements BY <1>12 DEF ApplyStatements
<1>13. ASSUME NEW t \in Topics, AutoCreate(t) PROVE IInv' BY <1>13 DEF AutoCreate
<1>14. ASSUME NEW schema \in Schemas, AutoRegister(schema) PROVE IInv'
  BY <1>14 DEF AutoRegister
<1>15. CASE RerunCql BY <1>15 DEF RerunCql
<1>16. CASE UNCHANGED vars BY <1>16 DEF vars
<1> QED
  BY <1>1, <1>2, <1>3, <1>4, <1>5, <1>6, <1>7, <1>8, <1>9, <1>10, <1>11, <1>12, <1>13,
     <1>14, <1>15, <1>16 DEF Next, Script

-----------------------------------------------------------------------------
\* IInv holds in every state of every behaviour.
THEOREM Invariance == ASSUME SameDefaults PROVE Spec => []IInv
<1>1. Init => IInv BY InitInvariant
<1>2. IInv /\ [Next]_vars => IInv' BY StepKeepsInvariant
<1> QED BY <1>1, <1>2, PTL DEF Spec

\* Once kafka-init has succeeded, both topics are there with the partitions
\* asked for, and both schema versions under BACKWARD compatibility
\* (init_kafka.py:155-164).
THEOREM PreparedOnceDoneHolds == ASSUME SameDefaults PROVE Spec => []PreparedOnceDone
<1>1. IInv => PreparedOnceDone BY DEF IInv
<1> QED BY <1>1, Invariance, PTL

\* What was achieved once stays achieved.
LEMMA StepKeepsAchieved ==
  ASSUME TypeOK, [Next]_vars
  PROVE  /\ everDone => everDone'
         /\ applied = Statements => applied' = Statements
<1> USE DEF TypeOK, Goto, kafka, cql
<1>1. CASE ApplyStatements BY <1>1 DEF ApplyStatements
<1>2. CASE Finish BY <1>2 DEF Finish
<1>3. (everDone' = everDone /\ applied' = applied) \/ ApplyStatements \/ Finish
  BY DEF Next, Script, ListTopics, CreateTopics, WaitForRegistry, SetCompatibility,
     SetGlobalCompatibility, Register, Fail, Rerun, AwaitCluster, RerunCql, AutoCreate,
     AutoRegister, vars
<1> QED BY <1>1, <1>2, <1>3

\* What is done already is left as it is by every step.
LEMMA StepIsNoOp ==
  ASSUME SameDefaults, IInv, everDone, [Next]_vars
  PROVE  UNCHANGED <<partitions, versions, Compatibility>>
<1> USE DEF SameDefaults, ConstantsOK, IInv, PreparedOnceDone, Prepared, Topics, Schemas,
            Goto, kafka, cql
<1>1. \A t \in Topics : partitions[t] = TOPIC_PARTITIONS /\ partitions[t] > 0
  OBVIOUS
<1>2. partitions' = partitions
  <2>1. CASE CreateTopics
    <3>1. partitions' = [t \in Topics |-> partitions[t]] BY <1>1, <2>1 DEF CreateTopics
    <3> QED BY <3>1 DEF TypeOK
  <2>2. ASSUME NEW t \in Topics, AutoCreate(t) PROVE partitions' = partitions
    BY <1>1, <2>2 DEF AutoCreate
  <2> QED
    BY <2>1, <2>2 DEF Next, Script, ListTopics, WaitForRegistry, SetCompatibility,
       SetGlobalCompatibility, Register, Finish, Fail, Rerun, AwaitCluster, ApplyStatements,
       RerunCql, AutoRegister, vars
<1>3. versions' = versions
  <2>1. \A schema \in Schemas : versions \cup {schema} = versions
    OBVIOUS
  <2>2. versions' = versions \/ \E schema \in Schemas : versions' = versions \cup {schema}
    BY DEF Next, Script, ListTopics, CreateTopics, WaitForRegistry, SetCompatibility,
       SetGlobalCompatibility, Register, Finish, Fail, Rerun, AwaitCluster, ApplyStatements,
       RerunCql, AutoCreate, AutoRegister, vars
  <2> QED BY <2>1, <2>2
<1>4. Compatibility' = Compatibility
  BY DEF TypeOK, Next, Script, ListTopics, CreateTopics, WaitForRegistry, SetCompatibility,
     SetGlobalCompatibility, Register, Finish, Fail, Rerun, AwaitCluster, ApplyStatements,
     RerunCql, AutoCreate, AutoRegister, vars, Compatibility
<1> QED BY <1>2, <1>3, <1>4
=============================================================================
