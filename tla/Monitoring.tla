------------------------------- MODULE Monitoring ------------------------------
(***************************************************************************)
(* What the consumer process tells of itself: the poll loop that notes     *)
(* when it last came back from poll, the threads of the HTTP server that   *)
(* answer /health, and the two connection gauges that both of them set.    *)
(*                                                                         *)
(* Time goes in ticks, each longer than a turn of the loop takes while     *)
(* nothing is wrong, the poll timeout and the lag refresh included.  Poll  *)
(* returns within a tick, with a message or without; so does the work on a *)
(* message while Cassandra answers promptly.  A Cassandra that is slow     *)
(* holds the loop, and a thread, for as long as it likes.                  *)
(***************************************************************************)
EXTENDS Integers

CONSTANTS
    Threads,     \* the threads of the HTTP server
    PollLimit    \* ticks after which Kafka counts as gone (60 seconds)

ASSUME PollLimitAssumption == PollLimit \in Nat \ {0}

VARIABLES
    loop,                 \* where the main thread is
    waited,               \* whether a tick has passed since it came there, or
                          \* since the world last changed
    age,                  \* ticks since _last_poll_ok_at, at most PollLimit
    cassandra,            \* how Cassandra answers
    broker,               \* whether the Kafka broker is there
    thread,               \* per thread, where in is_healthy it is
    kafka_ok,             \* per thread, what it found out about the loop ...
    cass_ok,              \* ... and about Cassandra
    answer,               \* the last answer given
    kafka_connected,      \* the gauges
    cassandra_connected

main == <<loop, waited, age>>
world == <<cassandra, broker>>
request == <<thread, kafka_ok, cass_ok, answer>>
gauges == <<kafka_connected, cassandra_connected>>
vars == <<main, world, request, gauges>>

Serving == loop \in {"polling", "processing", "closing"}

-----------------------------------------------------------------------------
Quiet ==
    /\ thread = [t \in Threads |-> "idle"]
    /\ kafka_ok = [t \in Threads |-> FALSE]
    /\ cass_ok = [t \in Threads |-> FALSE]
    /\ answer = "none"

Init ==
    /\ loop = "down"
    /\ waited = FALSE
    /\ age = 0
    /\ cassandra = "up"
    /\ broker = TRUE
    /\ Quiet
    /\ kafka_connected = FALSE
    /\ cassandra_connected = FALSE

GoTo(label) == loop' = label /\ waited' = FALSE

-----------------------------------------------------------------------------
(* The main thread.                                                        *)

\* main, __init__: subscribed, and the time of the last poll is set already.
Start ==
    /\ loop = "down"
    /\ GoTo("connecting")
    /\ age' = 0
    /\ UNCHANGED <<world, request, gauges>>

\* connect, one of its attempts: it succeeds, and the HTTP server is started.
Connect ==
    /\ loop = "connecting"
    /\ cassandra # "down"
    /\ GoTo("polling")
    /\ cassandra_connected' = TRUE
    /\ kafka_connected' = FALSE
    /\ UNCHANGED <<age, world, request>>

\* connect, after the last attempt: an exception nobody catches.
GiveUpConnecting ==
    /\ loop = "connecting"
    /\ cassandra # "up"
    /\ GoTo("down")
    /\ cassandra_connected' = FALSE
    /\ UNCHANGED <<age, world, request, kafka_connected>>

\* Mutant: only a poll that returned a message is noted.
PollReturns_NotesMessages ==
    /\ loop = "polling"
    /\ kafka_connected' = TRUE
    /\ \/ GoTo("polling") /\ UNCHANGED age
       \/ broker /\ GoTo("processing") /\ age' = 0
    /\ UNCHANGED <<world, request, cassandra_connected>>

\* poll returns: nothing, or an error, and the loop polls again; or a message.
PollReturns ==
    /\ loop = "polling"
    /\ age' = 0
    /\ kafka_connected' = TRUE
    /\ \/ GoTo("polling")
       \/ broker /\ GoTo("processing")
    /\ UNCHANGED <<world, request, cassandra_connected>>

\* _process ends, one way or the other.
ProcessReturns ==
    /\ loop = "processing"
    /\ GoTo("polling")
    /\ UNCHANGED <<age, world, request, gauges>>

\* SIGTERM between two messages; close.  The HTTP server is still there.
Stop ==
    /\ loop = "polling"
    /\ GoTo("closing")
    /\ cassandra_connected' = FALSE
    /\ UNCHANGED <<age, world, request, kafka_connected>>

\* The process is gone: after close, or killed at any time.
Exit ==
    /\ loop # "down"
    /\ GoTo("down")
    /\ age' = 0
    /\ thread' = [t \in Threads |-> "idle"]
    /\ kafka_ok' = [t \in Threads |-> FALSE]
    /\ cass_ok' = [t \in Threads |-> FALSE]
    /\ answer' = "none"
    /\ kafka_connected' = FALSE
    /\ cassandra_connected' = FALSE
    /\ UNCHANGED world

-----------------------------------------------------------------------------
(* A thread that answers /health.                                          *)

\* is_healthy: how long ago was the last poll?
ReadClock(t) ==
    /\ Serving
    /\ thread[t] = "idle"
    /\ thread' = [thread EXCEPT ![t] = "gauge"]
    /\ kafka_ok' = [kafka_ok EXCEPT ![t] = age < PollLimit]
    /\ UNCHANGED <<main, world, cass_ok, answer, gauges>>

\* Mutant: only the loop sets the gauge.
SetKafkaGauge_Never(t) ==
    /\ thread[t] = "gauge"
    /\ thread' = [thread EXCEPT ![t] = "query"]
    /\ UNCHANGED <<main, world, kafka_ok, cass_ok, answer, gauges>>

SetKafkaGauge(t) ==
    /\ thread[t] = "gauge"
    /\ thread' = [thread EXCEPT ![t] = "query"]
    /\ kafka_connected' = kafka_ok[t]
    /\ UNCHANGED <<main, world, kafka_ok, cass_ok, answer, cassandra_connected>>

\* CassandraRepository.is_healthy: a query, unless the session was closed.
QueryReturns(t) ==
    /\ thread[t] = "query"
    /\ thread' = [thread EXCEPT ![t] = "reply"]
    /\ \E ok \in BOOLEAN :
          /\ ok => cassandra # "down" /\ loop # "closing"
          /\ ~ok => cassandra # "up" \/ loop = "closing"
          /\ cass_ok' = [cass_ok EXCEPT ![t] = ok]
    /\ UNCHANGED <<main, world, kafka_ok, answer, gauges>>

\* Mutant: the gauge is set when a connection is made, and not afterwards.
Reply_NoGauge(t) ==
    /\ thread[t] = "reply"
    /\ thread' = [thread EXCEPT ![t] = "idle"]
    /\ answer' = IF kafka_ok[t] /\ cass_ok[t] THEN "OK" ELSE "DOWN"
    /\ kafka_ok' = [kafka_ok EXCEPT ![t] = FALSE]
    /\ cass_ok' = [cass_ok EXCEPT ![t] = FALSE]
    /\ UNCHANGED <<main, world, gauges>>

\* The gauge is set, and 200 or 503 returned.
Reply(t) ==
    /\ thread[t] = "reply"
    /\ thread' = [thread EXCEPT ![t] = "idle"]
    /\ cassandra_connected' = cass_ok[t]
    /\ answer' = IF kafka_ok[t] /\ cass_ok[t] THEN "OK" ELSE "DOWN"
    /\ kafka_ok' = [kafka_ok EXCEPT ![t] = FALSE]
    /\ cass_ok' = [cass_ok EXCEPT ![t] = FALSE]
    /\ UNCHANGED <<main, world, kafka_connected>>

-----------------------------------------------------------------------------
(* The world.                                                              *)

\* The step the main thread is at takes no more than a tick.
Prompt ==
    \/ loop = "polling"
    \/ loop = "processing" /\ cassandra # "slow" /\ broker

Tick ==
    /\ loop # "down"
    /\ ~(Prompt /\ waited)
    /\ waited' = Prompt
    /\ age' = IF age < PollLimit THEN age + 1 ELSE age
    /\ UNCHANGED <<loop, world, request, gauges>>

CassandraChanges ==
    /\ cassandra' \in {"up", "slow", "down"} \ {cassandra}
    /\ waited' = FALSE
    /\ UNCHANGED <<loop, age, broker, request, gauges>>

BrokerChanges ==
    /\ broker' = ~broker
    /\ waited' = FALSE
    /\ UNCHANGED <<loop, age, cassandra, request, gauges>>

-----------------------------------------------------------------------------
Health(t) == ReadClock(t) \/ SetKafkaGauge(t) \/ QueryReturns(t) \/ Reply(t)

Step ==
    \/ Connect \/ GiveUpConnecting
    \/ PollReturns \/ ProcessReturns
    \/ Stop \/ Exit
    \/ \E t \in Threads : Health(t)
    \/ Tick
    \/ CassandraChanges \/ BrokerChanges

Next == Start \/ Step
Spec == Init /\ [][Next]_vars

\* The container is restarted, poll returns, prompt work ends, a query returns
\* (the driver's own timeout, if nothing else), and the container's health
\* check asks again and again (Dockerfile: HEALTHCHECK --interval=10s).
Fairness ==
    /\ WF_vars(Start) /\ WF_vars(Connect)
    /\ WF_vars(PollReturns)
    /\ WF_vars(Prompt /\ ProcessReturns)
    /\ WF_vars(loop = "closing" /\ Exit)
    /\ \A t \in Threads : WF_vars(Health(t))
    /\ WF_vars(Tick)

FairSpec == Spec /\ Fairness

-----------------------------------------------------------------------------
(* Properties.                                                             *)

TypeOK ==
    /\ loop \in {"down", "connecting", "polling", "processing", "closing"}
    /\ waited \in BOOLEAN
    /\ age \in 0..PollLimit
    /\ cassandra \in {"up", "slow", "down"} /\ broker \in BOOLEAN
    /\ thread \in [Threads -> {"idle", "gauge", "query", "reply"}]
    /\ kafka_ok \in [Threads -> BOOLEAN] /\ cass_ok \in [Threads -> BOOLEAN]
    /\ answer \in {"none", "OK", "DOWN"}
    /\ kafka_connected \in BOOLEAN /\ cassandra_connected \in BOOLEAN

Running == loop \in {"polling", "processing"}

\* A loop that hangs in one message is reported in the end: /health answers
\* 503 and kafka_connected goes to 0, and both stay there, whatever requests
\* were under way when it began to hang (README.md:238, metrics.py:43-46).
HangIsReported ==
    <>[](loop = "processing") => <>[](answer = "DOWN" /\ ~kafka_connected)

\* A Cassandra that is gone is reported in the end, by /health and by
\* cassandra_connected, although the loop itself never sets that gauge
\* (README.md:238-239, metrics.py:48-51).
CassandraLossIsReported ==
    <>[](Running /\ cassandra = "down") => <>[](answer = "DOWN" /\ ~cassandra_connected)

\* When everything answers again and the process stays up, /health returns to
\* 200 and both gauges to 1 for good: no request that looked earlier, and no
\* message that took long, leaves them wrong (README.md:238-239).
RecoveryIsReported ==
    <>[](Running /\ cassandra = "up" /\ broker)
        => <>[](answer = "OK" /\ kafka_connected /\ cassandra_connected)
=============================================================================
