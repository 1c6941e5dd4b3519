------------------------------- MODULE Recovery ------------------------------
(***************************************************************************)
(* The log in the life of the broker: main.cpp appends a record for each   *)
(* PUBLISH, each ACK frame and each audit event, and a restarted broker    *)
(* replays the file and counts its message ids from 1 again.  There is one *)
(* consumer, which outlives the broker and may or may not be subscribed.   *)
(* The queues are sets, and a thread's turn (append and push, pop and      *)
(* track) is one step: Broker models the turns and the queues' bounds.     *)
(***************************************************************************)
EXTENDS WalWriter, FiniteSets

CONSTANTS MaxRetries,  \* max_retries_
          MaxStops,    \* bound on crashes and clean stops
          MaxLog       \* bound: the most records the log can grow to

ASSUME RetriesBounded == MaxRetries \in Nat
ASSUME StopsBounded == MaxStops \in Nat

VARIABLES queued,     \* the messages in main_queue
          in_flight,  \* those sent to the consumer: at most one for each id
          dlq,        \* the messages in dlq
          auditing,   \* the DLQ logger owes the audit event of a dead letter
          next_id,    \* next_id
          held,       \* messages a consumer has received and not answered yet
          given,      \* history: messages published so far, each with its id
          done,       \* history: bodies of the messages consumers have acked
          dropped,    \* history: those this run of the broker found no target for
          stops       \* crashes and clean stops so far

brokerVars == <<queued, in_flight, dlq, auditing, next_id>>
history == <<given, done, dropped, stops>>
vars == <<walVars, brokerVars, held, history>>

Init ==
    /\ WalInit
    /\ queued = {} /\ in_flight = {} /\ dlq = {}
    /\ auditing = FALSE /\ next_id = 1
    /\ held = {} /\ given = {} /\ done = {} /\ dropped = {}
    /\ stops = 0

Up == flusher # "none"
Room == Len(log) < MaxLog

\* A Message made from m, an id with a topic and a body.
Fresh(m) == [msg_id |-> m.msg_id, body |-> m.body, retry_count |-> 0, dead |-> FALSE]

\* The message as it was published: the log knows no more of it.
Origin(m) == [msg_id |-> m.msg_id, body |-> m.body]
Origins(S) == {Origin(m) : m \in S}

\* wal.append, then main_queue.push.  Every message has a body of its own, to
\* tell it from others with the same id.
AppendAndPush(b) ==
    /\ Up /\ Room
    /\ \A m \in given : m.body # b
    /\ next_id \in MsgIds
    /\ LET m == [msg_id |-> next_id, body |-> b]
       IN  /\ AddRecord([type |-> "PUBLISH", msg_id |-> next_id, body |-> b])
           /\ queued' = queued \cup {Fresh(m)}
           /\ given' = given \cup {m}
    /\ next_id' = next_id + 1
    /\ UNCHANGED <<in_flight, dlq, held, done, dropped, stops>>

\* PUBLISH.
Publish(b) == AppendAndPush(b) /\ UNCHANGED auditing

\* What in_flight_ keeps when an entry for id i is erased or overwritten.
Without(i) == {m \in in_flight : m.msg_id # i}

\* The dispatcher tracks a message under its id and sends it ...
Deliver(m) ==
    /\ Up
    /\ m \in queued
    /\ queued' = queued \ {m}
    /\ in_flight' = Without(m.msg_id) \cup {m}
    /\ held' = held \cup {Origin(m)}
    /\ UNCHANGED <<walVars, dlq, auditing, next_id, history>>

\* ... or finds no subscriber, and that is the end of it until a restart.
Drop(m) ==
    /\ Up
    /\ m \in queued
    /\ queued' = queued \ {m}
    /\ dropped' = dropped \cup {Origin(m)}
    /\ UNCHANGED <<walVars, in_flight, dlq, auditing, next_id, held, given, done, stops>>

\* The message to try again, and the dead letter: it keeps id and body, and its
\* count starts again.
Retry(m) == [m EXCEPT !.retry_count = @ + 1]
DeadLetter(m) == [m EXCEPT !.retry_count = 0, !.dead = TRUE]

\* A delivery fails, by a timeout, a NACK or a disconnect: requeue_or_dlq.
Fail(m) ==
    /\ Up
    /\ m \in in_flight
    /\ IF m.retry_count >= MaxRetries
         THEN /\ dlq' = dlq \cup {DeadLetter(m)}
              /\ UNCHANGED queued
         ELSE /\ queued' = queued \cup {Retry(m)}
              /\ UNCHANGED dlq
    /\ in_flight' = in_flight \ {m}
    /\ UNCHANGED <<walVars, auditing, next_id, held, history>>

\* The DLQ logger: the dead letter goes back to main_queue, not into the log ...
Republish(m) ==
    /\ Up /\ ~auditing
    /\ m \in dlq
    /\ dlq' = dlq \ {m}
    /\ queued' = queued \cup {m}
    /\ auditing' = TRUE
    /\ UNCHANGED <<walVars, in_flight, next_id, held, history>>

\* ... and the event $SYS.dlq about it is published like any other.
Audit(b) == auditing /\ AppendAndPush(b) /\ auditing' = FALSE

\* Mutant: the delivery stays in flight after its ACK.
AckKeepsEntry(m) ==
    /\ Up /\ Room
    /\ m \in held
    /\ AddRecord([type |-> "ACK", msg_id |-> m.msg_id])
    /\ held' = held \ {m}
    /\ done' = done \cup {m.body}
    /\ UNCHANGED <<brokerVars, given, dropped, stops>>

\* ACK: ack_engine.ack finds the delivery by id, wal.acknowledge logs the id.
AckFrame(m) ==
    /\ Up /\ Room
    /\ m \in held
    /\ AddRecord([type |-> "ACK", msg_id |-> m.msg_id])
    /\ in_flight' = Without(m.msg_id)
    /\ held' = held \ {m}
    /\ done' = done \cup {m.body}
    /\ UNCHANGED <<queued, dlq, auditing, next_id, given, dropped, stops>>

Flush == FlushStep /\ UNCHANGED <<brokerVars, held, history>>

\* The process ends, by a crash or in order.
Stop ==
    /\ stops < MaxStops
    /\ Crash \/ FinalFlush
    /\ queued' = {} /\ in_flight' = {} /\ dlq' = {} /\ dropped' = {}
    /\ auditing' = FALSE
    /\ stops' = stops + 1
    /\ UNCHANGED <<next_id, held, given, done>>

\* main: open the log, replay it, start counting.
Restart ==
    /\ Reopen
    /\ \E q \in Replays(disk) : queued' = {Fresh(m) : m \in q}
    /\ next_id' = 1
    /\ UNCHANGED <<in_flight, dlq, auditing, held, history>>

Next ==
    \/ \E b \in Bodies : Publish(b) \/ Audit(b)
    \/ \E m \in queued : Deliver(m) \/ Drop(m)
    \/ \E m \in in_flight : Fail(m)
    \/ \E m \in dlq : Republish(m)
    \/ \E m \in held : AckFrame(m)
    \/ Flush \/ Stop \/ Restart

Spec == Init /\ [][Next]_vars
FairSpec == Spec /\ WF_vars(Flush) /\ WF_vars(Restart)
------------------------------------------------------------------------------
Messages == [msg_id : MsgIds, body : Bodies \cup {Garbage},
             retry_count : 0..MaxRetries, dead : BOOLEAN]

\* The broker's queues and the WAL keep their shape, whatever stops and
\* restarts, and what is in flight is what the consumer has yet to answer.
TypeOK ==
    /\ WalTypeOK
    /\ queued \subseteq Messages /\ in_flight \subseteq Messages /\ dlq \subseteq Messages
    /\ Origins(in_flight) \subseteq held
    /\ held \subseteq [msg_id : MsgIds, body : Bodies \cup {Garbage}]
    /\ auditing \in BOOLEAN /\ next_id \in Nat /\ stops \in 0..MaxStops
    /\ given \subseteq [msg_id : MsgIds, body : Bodies]
    /\ done \subseteq {m.body : m \in given} \cup {Garbage}

\* The file holds a record that replay can read.
Durable(r) == \E n \in Readable(disk) : disk[n] = r

\* doc/prd.md: "Broker restart replays pending messages".  A message whose
\* PUBLISH is in the file and that the consumer has not acked is back in
\* main_queue after a restart.
PendingReplayed ==
    [][~Up /\ Up' => \A i \in MsgIds, b \in Bodies \ done :
        Durable([type |-> "PUBLISH", msg_id |-> i, body |-> b])
            => Fresh([msg_id |-> i, body |-> b]) \in queued']_vars

\* Where the broker has a message, as itself or as a dead letter.
WithBroker == Origins(queued \cup in_flight \cup dlq)

\* A message whose id no other message has had, in a file that was not written
\* on behind a torn record, stays with the broker from the moment it is durable
\* until it is acked, in a queue or in flight, under its topic or, its retries
\* spent, as a dead letter.  What loses it is only the dispatcher, finding no
\* subscriber, and only until the broker is restarted: a crash at any moment,
\* also in the middle of a write, does not lose it, and a restart brings it back
\* whatever became of it in the runs before.
DurableKept ==
    Up => \A i \in MsgIds, b \in Bodies \ done :
        (/\ Durable([type |-> "PUBLISH", msg_id |-> i, body |-> b])
         /\ \A m \in given : m.msg_id = i => m.body = b
         /\ ~TornInside(disk))
            => [msg_id |-> i, body |-> b] \in WithBroker \cup dropped

\* doc/performance_architecture.md: "even tiny message streams are aggressively
\* persisted to disk": every record reaches the file, or the process dies.  A
\* record does not leave the log while the broker runs, so one that never got
\* to the file would be waiting for ever.
RecordsReachDisk ==
    \A n \in 1..MaxLog : []<>~(Up /\ n <= Len(log) /\ Len(disk) < n)
==============================================================================
