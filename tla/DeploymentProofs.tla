--------------------------- MODULE DeploymentProofs ----------------------------
(***************************************************************************)
(* The order in which docker-compose starts the containers, for every       *)
(* number of partitions, statements, runs and HTTP threads.  Every step of  *)
(* the deployment is a step of Bootstrap or leaves its variables alone, so  *)
(* that what is proved of Bootstrap holds here.                             *)
(***************************************************************************)
EXTENDS Deployment, TLAPS

Proved == INSTANCE BootstrapProofs

\* The container is only created after both successes, and the process only
\* runs in the container.
OrderOfStarts ==
    /\ loop # "down" => created
    /\ created => everDone /\ applied = Statements

DInv == Proved!IInv /\ OrderOfStarts

-----------------------------------------------------------------------------
\* A step is one of the bootstrap's or leaves its variables alone.
LEMMA StepIsOfBootstrap == [Next]_vars => [Proved!Next]_(Proved!vars)
<1>1. Boot!Next => Proved!Next
  BY DEF Boot!Next, Boot!Script, Boot!ListTopics, Boot!CreateTopics, Boot!WaitForRegistry,
     Boot!SetCompatibility, Boot!SetGlobalCompatibility, Boot!Register, Boot!Finish, Boot!Fail,
     Boot!Rerun, Boot!AwaitCluster, Boot!ApplyStatements, Boot!RerunCql, Boot!AutoCreate,
     Boot!AutoRegister, Boot!Goto, Boot!Topics, Boot!Schemas, Boot!kafka, Boot!cql,
     Proved!Next, Proved!Script, Proved!ListTopics, Proved!CreateTopics, Proved!WaitForRegistry,
     Proved!SetCompatibility, Proved!SetGlobalCompatibility, Proved!Register, Proved!Finish,
     Proved!Fail, Proved!Rerun, Proved!AwaitCluster, Proved!ApplyStatements, Proved!RerunCql,
     Proved!AutoCreate, Proved!AutoRegister, Proved!Goto, Proved!Topics, Proved!Schemas,
     Proved!kafka, Proved!cql
<1>2. UNCHANGED bootstrap => UNCHANGED Proved!vars
  BY DEF bootstrap, Proved!vars, Proved!kafka, Proved!cql
<1> QED
  BY <1>1, <1>2 DEF Next, Create, Restart, Bootstrapping, Serving, vars

\* No step of the monitored process starts it.
LEMMA OnlyStartStarts == ASSUME Mon!Step, loop = "down" PROVE loop' = "down"
  BY DEF Mon!Step, Mon!Connect, Mon!GiveUpConnecting, Mon!PollReturns, Mon!ProcessReturns,
     Mon!Stop, Mon!Exit, Mon!Health, Mon!ReadClock, Mon!SetKafkaGauge, Mon!QueryReturns,
     Mon!Reply, Mon!Tick, Mon!CassandraChanges, Mon!BrokerChanges, Mon!Serving, Mon!GoTo,
     Mon!main

-----------------------------------------------------------------------------
\* No container is created at first.
LEMMA InitDInv == ASSUME Proved!SameDefaults, Init PROVE DInv
<1>1. Proved!Init
  BY DEF Init, Boot!Init, Boot!Topics, Proved!Init, Proved!Topics
<1>2. Proved!IInv BY <1>1, Proved!InitInvariant
<1>3. OrderOfStarts BY DEF OrderOfStarts, Init, Mon!Init
<1> QED BY <1>2, <1>3 DEF DInv

\* The order of starts is kept, since what the one-shot containers have achieved
\* stays achieved.
LEMMA StepKeepsDInv == ASSUME Proved!SameDefaults, DInv, [Next]_vars PROVE DInv'
<1>1. Proved!IInv' BY StepIsOfBootstrap, Proved!StepKeepsInvariant DEF DInv
<1>2. /\ everDone => everDone'
      /\ applied = Statements => applied' = Statements
  BY StepIsOfBootstrap, Proved!StepKeepsAchieved DEF DInv, Proved!IInv
<1>3. OrderOfStarts'
  <2>1. CASE Create
    BY <2>1 DEF Create, bootstrap, OrderOfStarts, DInv, Proved!IInv, Proved!Progress
  <2>2. CASE Restart BY <2>2, <1>2 DEF Restart, OrderOfStarts, DInv
  <2>3. CASE Bootstrapping
    BY <2>3, <1>2 DEF Bootstrapping, consumer, OrderOfStarts, DInv
  <2>4. CASE Serving BY <2>4, <1>2, OnlyStartStarts DEF Serving, OrderOfStarts, DInv
  <2>5. CASE UNCHANGED vars
    BY <2>5, <1>2 DEF vars, consumer, OrderOfStarts, DInv
  <2> QED BY <2>1, <2>2, <2>3, <2>4, <2>5 DEF Next
<1> QED BY <1>1, <1>3 DEF DInv

\* A consumer that runs finds everything prepared (docker-compose.yml:244-248).
THEOREM ConsumerStartsPreparedHolds ==
  ASSUME Proved!SameDefaults PROVE Spec => []ConsumerStartsPrepared
<1>1. Init => DInv BY InitDInv
<1>2. DInv /\ [Next]_vars => DInv' BY StepKeepsDInv
<1>3. DInv => ConsumerStartsPrepared
  BY DEF DInv, OrderOfStarts, ConsumerStartsPrepared, Boot!Prepared, Boot!Compatibility,
     Boot!Topics, Boot!Schemas, Proved!IInv, Proved!PreparedOnceDone, Proved!Prepared,
     Proved!Compatibility, Proved!Topics, Proved!Schemas
<1> QED BY <1>1, <1>2, <1>3, PTL DEF Spec

\* kafka-init run again is a no-op, also while the consumer runs
\* (init_kafka.py:4).
THEOREM RerunIsNoOpHolds == ASSUME Proved!SameDefaults PROVE Spec => RerunIsNoOp
<1>1. Init => DInv BY InitDInv
<1>2. DInv /\ [Next]_vars => DInv' BY StepKeepsDInv
<1>3. DInv /\ [Next]_vars
        => [everDone => UNCHANGED <<partitions, versions, Boot!Compatibility>>]_vars
  BY StepIsOfBootstrap, Proved!StepIsNoOp DEF DInv, Boot!Compatibility, Proved!Compatibility
<1> QED BY <1>1, <1>2, <1>3, PTL DEF Spec, RerunIsNoOp
=============================================================================
