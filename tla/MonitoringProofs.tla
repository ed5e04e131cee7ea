---------------------------- MODULE MonitoringProofs ---------------------------
(***************************************************************************)
(* Type correctness of Monitoring, for every set of threads and every time  *)
(* limit.                                                                   *)
(***************************************************************************)
EXTENDS Monitoring, TLAPS

\* The process is down at first, and the world is well.
LEMMA InitTypeOK == Init => TypeOK
<1> SUFFICES ASSUME Init PROVE TypeOK
  OBVIOUS
<1>1. kafka_ok \in [Threads -> BOOLEAN] /\ cass_ok \in [Threads -> BOOLEAN]
  BY Zenon DEF Init, Quiet
<1>2. /\ waited \in BOOLEAN /\ broker \in BOOLEAN
      /\ kafka_connected \in BOOLEAN /\ cassandra_connected \in BOOLEAN
  BY Zenon DEF Init
<1>3. thread \in [Threads -> {"idle", "gauge", "query", "reply"}] BY DEF Init, Quiet
<1>4. /\ loop = "down" /\ age \in 0..PollLimit /\ cassandra = "up" /\ answer = "none"
  BY PollLimitAssumption DEF Init, Quiet
<1> QED BY <1>1, <1>2, <1>3, <1>4 DEF TypeOK

\* Every step of the loop, of a thread and of the world keeps the types.
LEMMA StepKeepsTypeOK == TypeOK /\ [Next]_vars => TypeOK'
<1> SUFFICES ASSUME TypeOK, [Next]_vars PROVE TypeOK'
  OBVIOUS
<1> USE PollLimitAssumption DEF TypeOK, GoTo, main, world, request, gauges
<1>0. PollLimit \in Nat /\ 0 \in 0..PollLimit OBVIOUS
<1>1. CASE Start
  <2>1. age' \in 0..PollLimit BY <1>0, <1>1 DEF Start
  <2> QED BY <1>1, <2>1 DEF Start
<1>2. CASE Connect BY <1>2 DEF Connect
<1>3. CASE GiveUpConnecting BY <1>3 DEF GiveUpConnecting
<1>4. CASE PollReturns
  <2>1. age' \in 0..PollLimit BY <1>0, <1>4 DEF PollReturns
  <2> QED BY <1>4, <2>1 DEF PollReturns
<1>5. CASE ProcessReturns BY <1>5 DEF ProcessReturns
<1>6. CASE Stop BY <1>6 DEF Stop
<1>7. CASE Exit
  <2>1. kafka_ok' \in [Threads -> BOOLEAN] /\ cass_ok' \in [Threads -> BOOLEAN]
    BY ONLY <1>7, Zenon DEF Exit
  <2>2. thread' \in [Threads -> {"idle", "gauge", "query", "reply"}] BY <1>7 DEF Exit
  <2>3. age' \in 0..PollLimit BY <1>0, <1>7 DEF Exit
  <2> QED BY <1>7, <2>1, <2>2, <2>3 DEF Exit
<1>8. ASSUME NEW t \in Threads, ReadClock(t) PROVE TypeOK' BY <1>8 DEF ReadClock
<1>9. ASSUME NEW t \in Threads, SetKafkaGauge(t) PROVE TypeOK' BY <1>9 DEF SetKafkaGauge
<1>10. ASSUME NEW t \in Threads, QueryReturns(t) PROVE TypeOK' BY <1>10 DEF QueryReturns
<1>11. ASSUME NEW t \in Threads, Reply(t) PROVE TypeOK' BY <1>11 DEF Reply
<1>12. CASE Tick BY <1>12 DEF Tick, Prompt
<1>13. CASE CassandraChanges BY <1>13 DEF CassandraChanges
<1>14. CASE BrokerChanges BY <1>14 DEF BrokerChanges
<1>15. CASE UNCHANGED vars BY <1>15 DEF vars
<1> QED
  BY <1>1, <1>2, <1>3, <1>4, <1>5, <1>6, <1>7, <1>8, <1>9, <1>10, <1>11, <1>12, <1>13, <1>14,
     <1>15 DEF Next, Step, Health

\* The variables of Monitoring keep their types.
THEOREM TypeCorrect == Spec => []TypeOK
  BY InitTypeOK, StepKeepsTypeOK, PTL DEF Spec
=============================================================================
