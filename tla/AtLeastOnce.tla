------------------------------ MODULE AtLeastOnce ------------------------------
(***************************************************************************)
(* What the consumer group promises the producers: every message is dealt   *)
(* with before its offset is committed, and what was dealt with, or         *)
(* committed, stays so.  Nothing is said of who does it, how often, or what *)
(* dealing with a message means (README.md:158-162).                       *)
(***************************************************************************)
EXTENDS Naturals, Sequences

CONSTANT Partitions   \* the partitions of the topic

VARIABLES
    log,      \* per partition, the messages sent to it
    handled,  \* the <<partition, offset>> of the messages dealt with
    done      \* per partition, how many messages are never delivered again

Sent(l) == UNION {{<<p, i>> : i \in 1..Len(l[p])} : p \in Partitions}

Init ==
    /\ log = [p \in Partitions |-> <<>>]
    /\ handled = {}
    /\ done = [p \in Partitions |-> 0]

\* A message is appended to a partition.  One that repeats a message already
\* dealt with may count as dealt with from the start.
Send(p) ==
    LET n == Len(log[p]) + 1
    IN  /\ Len(log'[p]) = n
        /\ log' = [log EXCEPT ![p] = Append(@, log'[p][n])]
        /\ handled \subseteq handled'
        /\ handled' \subseteq handled \cup {<<p, n>>}
        /\ UNCHANGED done

\* Messages are dealt with: one, and with it its repetitions.
Handle ==
    /\ handled \subseteq handled'
    /\ handled' \subseteq Sent(log)
    /\ UNCHANGED <<log, done>>

\* The offset of a partition moves forward over messages dealt with.
Commit(p) ==
    \E n \in done[p] + 1 .. Len(log[p]) :
        /\ \A i \in 1..n : <<p, i>> \in handled
        /\ done' = [done EXCEPT ![p] = n]
        /\ UNCHANGED <<log, handled>>

Next == Handle \/ \E p \in Partitions : Send(p) \/ Commit(p)

Spec == Init /\ [][Next]_<<log, handled, done>>
=============================================================================
