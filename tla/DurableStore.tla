---------------------------- MODULE DurableStore ----------------------------
(***************************************************************************)
(* What the dynamic write layer promises, with no files in it: a store     *)
(* that serves the newest version of every node, that may lose at a stop   *)
(* only writes after a durable point, and whose durable point never moves  *)
(* back.  After a restart it serves exactly the state as of that point: a  *)
(* prefix of the history, never a mixture of older and newer writes.       *)
(***************************************************************************)
EXTENDS DynamicRecords

VARIABLES log,      \* the writes that took effect, as a set of versions
          durable,  \* every write up to this sequence number survives a stop
          served,   \* the newest version of every node, as readers see it
          up        \* the store is open

avars == <<log, durable, served, up>>

Init == log = {} /\ durable = 0 /\ served = {} /\ ~up

\* A write takes effect with a sequence number larger than every earlier one.
Write ==
  /\ up
  /\ \E r \in log' \ log :
       /\ r \in Record
       /\ \A q \in log : q.seq < r.seq
       /\ log' = log \cup {r}
  /\ served' = NewestOf(log')
  /\ UNCHANGED <<durable, up>>

\* Some prefix of the log reaches the disk, at a flush or by itself.
Persist ==
  /\ durable' \in durable .. LastSeq(log)
  /\ UNCHANGED <<log, served, up>>

\* The process stops, cleanly or not; what was written out stays.
Stop ==
  /\ up
  /\ durable' \in durable .. LastSeq(log)
  /\ up' = FALSE
  /\ served' = {}
  /\ UNCHANGED log

\* The process starts again and serves the durable prefix.
Recover ==
  /\ ~up
  /\ up' = TRUE
  /\ log' = UpTo(log, durable)
  /\ served' = NewestOf(log')
  /\ UNCHANGED durable

Next == Write \/ Persist \/ Stop \/ Recover

Spec == Init /\ [][Next]_avars
=============================================================================
