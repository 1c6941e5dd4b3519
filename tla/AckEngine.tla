------------------------------ MODULE AckEngine ------------------------------
(***************************************************************************)
(* broker/src/AckEngine.cpp: which deliveries await an ACK, when each of   *)
(* them times out, and what happens to the ones that fail.                 *)
(*                                                                         *)
(* in_flight_ says what is outstanding; deadlines_ is a min-heap with lazy *)
(* deletion: ack, nack and client_disconnected leave its entries behind,   *)
(* and the scanner has to recognise the stale ones.  mu_ is held over whole *)
(* calls, also while requeue_or_dlq blocks in the push of a full queue, so *)
(* a call that may push takes several steps here, and the lock is state.   *)
(*                                                                         *)
(* The callers are as main.cpp has them: one dispatcher, which pops, routes *)
(* and tracks; one handler thread per client, which acks, nacks and         *)
(* reports the disconnect; the dlq logger, which empties dlq_.             *)
(***************************************************************************)
EXTENDS Integers, Sequences, Functions

CONSTANTS MsgIds,        \* message ids (positive)
          Clients,       \* ClientId, the socket descriptors (positive)
          MaxRetries,    \* max_retries_
          AckTimeout,    \* ack_timeout_, in ticks
          MainCapacity,  \* capacity of main_queue_
          DlqCapacity,   \* capacity of dlq_
          MaxTime,       \* bound: the clock stops here
          MaxTargets     \* bound: the most targets one route returns

ASSUME IdsPositive == MsgIds \subseteq Nat \ {0} /\ Clients \subseteq Nat \ {0}
ASSUME RetriesNat == MaxRetries \in Nat /\ AckTimeout \in Nat /\ MaxTime \in Nat
ASSUME CapacitiesNat == MainCapacity \in Nat \ {0} /\ DlqCapacity \in Nat \ {0}

Keys == MsgIds \X Clients

\* Message, without the body; the topic counts only by how many times
\* requeue_or_dlq has put "$DLQ." in front of it.
Message == [msg_id : MsgIds, dead : Nat, retry_count : Nat]
NoMessage == [msg_id |-> 0, dead |-> 0, retry_count |-> 0]

\* InFlight.  Its subscriber_id is the key's second half and its retry_count
\* the one of msg, both from track.
InFlight == [msg : Message, deadline : Nat]
Untracked == [msg |-> NoMessage, deadline |-> 0]

\* Who holds mu_, beside the clients' handler threads.
NoOne == 0
Scanner == -1

VARIABLES in_flight,    \* in_flight_: a record per key, Untracked if absent
          deadlines,    \* deadlines_, a set: equal entries are popped together
          mu,           \* mu_: NoOne, Scanner, or the client whose handler has it
          now,          \* steady_clock
          scan,         \* the scanner: "asleep", "stamped" or "locked"
          scanNow,      \* its local variable now
          nacking,      \* per client: the id nack is working on, or 0
          leaving,      \* clients whose client_disconnected is running
          main_queue,   \* main_queue_
          dlq,          \* dlq_
          popped,       \* the dispatcher's message, or NoMessage
          targets,      \* what remains of its loop over the routed targets
          published,    \* history: ids that entered main_queue_ from a client
          settled       \* history: ids acked, found without a subscriber, or
                        \* handed over to the dlq logger

history == <<published, settled>>
engineVars == <<in_flight, deadlines, mu, now, scan, scanNow, nacking, leaving>>
queueVars == <<main_queue, dlq, popped, targets>>
vars == <<engineVars, queueVars, history>>

Init ==
    /\ in_flight = [k \in Keys |-> Untracked]
    /\ deadlines = {}
    /\ mu = NoOne
    /\ now = 0
    /\ scan = "asleep" /\ scanNow = 0
    /\ nacking = [c \in Clients |-> 0]
    /\ leaving = {}
    /\ main_queue = <<>> /\ dlq = <<>>
    /\ popped = NoMessage /\ targets = <<>>
    /\ published = {} /\ settled = {}

Tracked(k) == in_flight[k] # Untracked
TrackedBy(c) == {i \in MsgIds : Tracked(<<i, c>>)}

\* A client's handler thread is between two frames.
AtRest(c) == nacking[c] = 0 /\ c \notin leaving

Erase(k) == in_flight' = [in_flight EXCEPT ![k] = Untracked]
------------------------------------------------------------------------------
\* Mutant: the copy keeps the count it had when it was tracked.
RetryUncounted(m) == m

\* requeue_msg: the copy that goes back to main_queue_.
Retry(m) == [msg_id |-> m.msg_id, dead |-> m.dead, retry_count |-> m.retry_count + 1]

\* dlq_msg: same id and body, "$DLQ." before the topic, no retries yet.
DeadLetter(m) == [msg_id |-> m.msg_id, dead |-> m.dead + 1, retry_count |-> 0]

\* Mutant: a message that has reached max_retries_ is tried once more.
RequeueOnceMore(k) ==
    LET m == in_flight[k].msg IN
    \/ /\ m.retry_count > MaxRetries
       /\ Len(dlq) < DlqCapacity
       /\ dlq' = Append(dlq, DeadLetter(m))
       /\ UNCHANGED main_queue
    \/ /\ m.retry_count <= MaxRetries
       /\ Len(main_queue) < MainCapacity
       /\ main_queue' = Append(main_queue, Retry(m))
       /\ UNCHANGED dlq

\* requeue_or_dlq.  The caller holds mu_ and waits in push while the queue
\* is full; it erases the entry afterwards, so the new deadline that the code
\* writes into it is never seen.
requeue_or_dlq(k) ==
    LET m == in_flight[k].msg IN
    \/ /\ m.retry_count >= MaxRetries
       /\ Len(dlq) < DlqCapacity
       /\ dlq' = Append(dlq, DeadLetter(m))
       /\ UNCHANGED main_queue
    \/ /\ m.retry_count < MaxRetries
       /\ Len(main_queue) < MainCapacity
       /\ main_queue' = Append(main_queue, Retry(m))
       /\ UNCHANGED dlq

\* Mutant: the dispatcher lets go of its message after the first target.
TrackClearsPopped ==
    /\ targets # <<>>
    /\ mu = NoOne
    /\ LET k == <<popped.msg_id, Head(targets)>>
           d == now + AckTimeout
       IN  /\ in_flight' = [in_flight EXCEPT ![k] = [msg |-> popped, deadline |-> d]]
           /\ deadlines' = deadlines \cup {[at |-> d, key |-> k]}
    /\ targets' = Tail(targets)
    /\ popped' = NoMessage
    /\ UNCHANGED <<mu, now, scan, scanNow, nacking, leaving, main_queue, dlq, history>>

\* track, for the dispatcher's next target.  An entry under the same key is
\* overwritten; its heap entry stays.
Track ==
    /\ targets # <<>>
    /\ mu = NoOne
    /\ LET k == <<popped.msg_id, Head(targets)>>
           d == now + AckTimeout
       IN  /\ in_flight' = [in_flight EXCEPT ![k] = [msg |-> popped, deadline |-> d]]
           /\ deadlines' = deadlines \cup {[at |-> d, key |-> k]}
    /\ targets' = Tail(targets)
    /\ popped' = IF Tail(targets) = <<>> THEN NoMessage ELSE popped
    /\ UNCHANGED <<mu, now, scan, scanNow, nacking, leaving, main_queue, dlq, history>>

\* ack, from the handler of client c.
Ack(i, c) ==
    /\ AtRest(c)
    /\ mu = NoOne
    /\ Erase(<<i, c>>)
    /\ settled' = IF Tracked(<<i, c>>) THEN settled \cup {i} ELSE settled
    /\ UNCHANGED <<deadlines, mu, now, scan, scanNow, nacking, leaving, published>>
    /\ UNCHANGED queueVars

\* nack, up to the push.  Without an entry it returns at once.
NackLock(i, c) ==
    /\ AtRest(c)
    /\ mu = NoOne
    /\ Tracked(<<i, c>>)
    /\ mu' = c
    /\ nacking' = [nacking EXCEPT ![c] = i]
    /\ UNCHANGED <<in_flight, deadlines, now, scan, scanNow, leaving>>
    /\ UNCHANGED <<queueVars, history>>

\* Mutant: a nacked message is requeued and stays in flight.
NackKeepsEntry(c) ==
    /\ nacking[c] # 0
    /\ requeue_or_dlq(<<nacking[c], c>>)
    /\ mu' = NoOne
    /\ nacking' = [nacking EXCEPT ![c] = 0]
    /\ UNCHANGED <<in_flight, deadlines, now, scan, scanNow, leaving, popped, targets, history>>

\* nack, once there is room: requeue_or_dlq, erase, unlock.
NackPush(c) ==
    /\ nacking[c] # 0
    /\ requeue_or_dlq(<<nacking[c], c>>)
    /\ Erase(<<nacking[c], c>>)
    /\ mu' = NoOne
    /\ nacking' = [nacking EXCEPT ![c] = 0]
    /\ UNCHANGED <<deadlines, now, scan, scanNow, leaving, popped, targets, history>>

\* client_disconnected takes mu_ ...
GoneLock(c) ==
    /\ AtRest(c)
    /\ mu = NoOne
    /\ mu' = c
    /\ leaving' = leaving \cup {c}
    /\ UNCHANGED <<in_flight, deadlines, now, scan, scanNow, nacking>>
    /\ UNCHANGED <<queueVars, history>>

\* Mutant: the loop erases what the client had outstanding without requeueing.
GoneErases(c) ==
    /\ c \in leaving
    /\ \E i \in TrackedBy(c) :
        /\ \A j \in TrackedBy(c) : i <= j
        /\ Erase(<<i, c>>)
    /\ UNCHANGED <<deadlines, mu, now, scan, scanNow, nacking, leaving>>
    /\ UNCHANGED <<queueVars, history>>

\* ... walks over the map in key order, failing the client's entries ...
GoneStep(c) ==
    /\ c \in leaving
    /\ \E i \in TrackedBy(c) :
        /\ \A j \in TrackedBy(c) : i <= j
        /\ requeue_or_dlq(<<i, c>>)
        /\ Erase(<<i, c>>)
    /\ UNCHANGED <<deadlines, mu, now, scan, scanNow, nacking, leaving>>
    /\ UNCHANGED <<popped, targets, history>>

\* ... and releases mu_.
GoneEnd(c) ==
    /\ c \in leaving
    /\ TrackedBy(c) = {}
    /\ mu' = NoOne
    /\ leaving' = leaving \ {c}
    /\ UNCHANGED <<in_flight, deadlines, now, scan, scanNow, nacking>>
    /\ UNCHANGED <<queueVars, history>>
------------------------------------------------------------------------------
\* The order of the heap: std::greater on {deadline, {msg_id, client}}.
Earlier(a, b) ==
    \/ a.at < b.at
    \/ a.at = b.at /\ \/ a.key[1] < b.key[1]
                      \/ a.key[1] = b.key[1] /\ a.key[2] < b.key[2]

IsTop(e) == e \in deadlines /\ \A f \in deadlines : ~Earlier(f, e)

\* Mutant: the clock is read once, before the loop.
ScanStampOnce ==
    /\ scan = "asleep"
    /\ scan' = "stamped"
    /\ UNCHANGED <<in_flight, deadlines, mu, now, scanNow, nacking, leaving>>
    /\ UNCHANGED <<queueVars, history>>

\* redelivery_loop wakes up and reads the clock before it locks mu_.
ScanStamp ==
    /\ scan = "asleep"
    /\ scan' = "stamped"
    /\ scanNow' = now
    /\ UNCHANGED <<in_flight, deadlines, mu, now, nacking, leaving>>
    /\ UNCHANGED <<queueVars, history>>

\* Mutant: the scan does not wait for mu_.
ScanUnlocked ==
    /\ scan = "stamped"
    /\ mu' = Scanner
    /\ scan' = "locked"
    /\ UNCHANGED <<in_flight, deadlines, now, scanNow, nacking, leaving>>
    /\ UNCHANGED <<queueVars, history>>

\* It waits for mu_.
ScanLock ==
    /\ scan = "stamped"
    /\ mu = NoOne
    /\ mu' = Scanner
    /\ scan' = "locked"
    /\ UNCHANGED <<in_flight, deadlines, now, scanNow, nacking, leaving>>
    /\ UNCHANGED <<queueVars, history>>

\* Mutant: no check for a stale deadline.
ScanIgnoresRetrack(e) == Tracked(e.key)

\* Mutant: a live entry is taken for a stale one when the deadlines agree.
ScanSkipsEqual(e) == Tracked(e.key) /\ in_flight[e.key].deadline < e.at

\* The heap entry e still stands for its delivery: the delivery has not been
\* settled, and has not been tracked again since.
Expires(e) == Tracked(e.key) /\ in_flight[e.key].deadline <= e.at

\* One round of the loop: pop the top; skip it, or fail the delivery.
ScanPop ==
    /\ scan = "locked"
    /\ \E e \in deadlines :
        /\ IsTop(e)
        /\ e.at <= scanNow
        /\ deadlines' = deadlines \ {e}
        /\ IF Expires(e)
           THEN requeue_or_dlq(e.key) /\ Erase(e.key)
           ELSE UNCHANGED <<in_flight, main_queue, dlq>>
    /\ UNCHANGED <<mu, now, scan, scanNow, nacking, leaving, popped, targets, history>>

\* The loop ends and mu_ is released.
ScanEnd ==
    /\ scan = "locked"
    /\ \A e \in deadlines : e.at > scanNow
    /\ mu' = NoOne
    /\ scan' = "asleep"
    /\ UNCHANGED <<in_flight, deadlines, now, scanNow, nacking, leaving>>
    /\ UNCHANGED <<queueVars, history>>

Tick ==
    /\ now < MaxTime
    /\ now' = now + 1
    /\ UNCHANGED <<in_flight, deadlines, mu, scan, scanNow, nacking, leaving>>
    /\ UNCHANGED <<queueVars, history>>
------------------------------------------------------------------------------
\* Publish: main_queue.push of a new message, by any producer.
Publish(i) ==
    /\ i \notin published
    /\ Len(main_queue) < MainCapacity
    /\ main_queue' = Append(main_queue, [msg_id |-> i, dead |-> 0, retry_count |-> 0])
    /\ published' = published \cup {i}
    /\ UNCHANGED <<engineVars, dlq, popped, targets, settled>>

\* The dispatcher pops a message ...
Pop ==
    /\ popped = NoMessage
    /\ main_queue # <<>>
    /\ popped' = Head(main_queue)
    /\ main_queue' = Tail(main_queue)
    /\ UNCHANGED <<engineVars, dlq, targets, history>>

\* ... and routes it to ts; with no target at all it drops the message.
Route(ts) ==
    /\ popped # NoMessage /\ targets = <<>>
    /\ targets' = ts
    /\ popped' = IF ts = <<>> THEN NoMessage ELSE popped
    /\ settled' = IF ts = <<>> THEN settled \cup {popped.msg_id} ELSE settled
    /\ UNCHANGED <<engineVars, main_queue, dlq, published>>

\* The dlq logger takes a dead letter.
BuryDead ==
    /\ dlq # <<>>
    /\ dlq' = Tail(dlq)
    /\ settled' = settled \cup {Head(dlq).msg_id}
    /\ UNCHANGED <<engineVars, main_queue, popped, targets, published>>

\* What TopicRouter::route may return: a client can be listed twice.
Routes == UNION {[1..n -> Clients] : n \in 0..MaxTargets}

HandlerStep(c) ==
    \/ \E i \in MsgIds : Ack(i, c) \/ NackLock(i, c)
    \/ NackPush(c) \/ GoneLock(c) \/ GoneStep(c) \/ GoneEnd(c)
ScannerStep == ScanStamp \/ ScanLock \/ ScanPop \/ ScanEnd
DispatcherStep == Track \/ Pop \/ \E ts \in Routes : Route(ts)

Next ==
    \/ \E c \in Clients : HandlerStep(c)
    \/ ScannerStep
    \/ DispatcherStep
    \/ BuryDead
    \/ Tick
    \/ \E i \in MsgIds : Publish(i)

Spec == Init /\ [][Next]_vars

(***************************************************************************)
(* Fairness.  The threads of the broker run: a thread inside a call goes   *)
(* on (mu_ is held for a bounded number of steps, so a thread that waits   *)
(* for it gets it: strong fairness for lock acquisitions), the dispatcher  *)
(* and the dlq logger poll in a loop, and time passes.  Clients owe        *)
(* nothing: they need not ack, nack, publish or disconnect.                *)
(***************************************************************************)
Fairness ==
    /\ SF_vars(Track) /\ WF_vars(Pop \/ \E ts \in Routes : Route(ts))
    /\ SF_vars(ScanLock) /\ WF_vars(ScanStamp \/ ScanPop \/ ScanEnd)
    /\ \A c \in Clients : WF_vars(NackPush(c) \/ GoneStep(c) \/ GoneEnd(c))
    /\ WF_vars(BuryDead)
    /\ WF_vars(Tick)

FairSpec == Spec /\ Fairness
------------------------------------------------------------------------------
\* The engine's maps, the queues and the threads' local state keep their shape;
\* a dispatcher with targets left still has its message.
TypeOK ==
    /\ in_flight \in [Keys -> InFlight \cup {Untracked}]
    /\ deadlines \in SUBSET [at : Nat, key : Keys]
    /\ mu \in {NoOne, Scanner} \cup Clients
    /\ now \in Nat /\ scanNow \in Nat
    /\ scan \in {"asleep", "stamped", "locked"}
    /\ nacking \in [Clients -> MsgIds \cup {0}]
    /\ leaving \in SUBSET Clients
    /\ main_queue \in Seq(Message) /\ dlq \in Seq(Message)
    /\ popped \in Message \cup {NoMessage}
    /\ targets \in Seq(Clients)
    /\ targets # <<>> => popped # NoMessage
    /\ published \in SUBSET MsgIds /\ settled \in SUBSET MsgIds

\* mu_ is held by one thread at a time, and by the one that believes so: the
\* steps of nack, client_disconnected and the scan never overlap.
LockOwned ==
    /\ scan = "locked" <=> mu = Scanner
    /\ \A c \in Clients : mu = c <=> (nacking[c] # 0 \/ c \in leaving)
    /\ \A c \in Clients : nacking[c] # 0 => c \notin leaving
                                             /\ Tracked(<<nacking[c], c>>)

\* Lazy deletion is safe: every outstanding delivery still has the heap
\* entry of its own deadline, so the scanner cannot overlook it.
HeapCovers ==
    \A k \in Keys : Tracked(k) =>
        [at |-> in_flight[k].deadline, key |-> k] \in deadlines

\* The retry budget: no message, wherever it is, has been retried more than
\* max_retries_ times.
RetryBound ==
    /\ \A m \in Range(main_queue) \cup Range(dlq) : m.retry_count <= MaxRetries
    /\ popped.retry_count <= MaxRetries
    /\ \A k \in Keys : in_flight[k].msg.retry_count <= MaxRetries

\* Where a message may be while the broker is still responsible for it.
Held(i) ==
    \/ \E m \in Range(main_queue) \cup Range(dlq) : m.msg_id = i
    \/ popped.msg_id = i
    \/ \E c \in Clients : Tracked(<<i, c>>)

\* At-least-once: a published message stays in a queue, with the dispatcher
\* or in flight until it is acked, dead-lettered or found to have no
\* subscriber; acks, nacks, disconnects and timeouts racing each other and
\* the dispatcher do not lose it.
NoSilentLoss == \A i \in published : Held(i) \/ i \in settled

\* The scanner fails a delivery only after that delivery's own deadline: a
\* stale heap entry never cuts short a delivery that was tracked again.
NoEarlyExpiry ==
    [][\A k \in Keys :
        scan = "locked" /\ Tracked(k) /\ in_flight'[k] = Untracked
            => in_flight[k].deadline <= now]_vars

\* The deliveries that the holder of mu_ has begun to fail.
Failing ==
    {<<nacking[c], c>> : c \in {c \in Clients : nacking[c] # 0}}
    \cup {k \in Keys : /\ k[2] \in leaving /\ Tracked(k)
                      /\ \A j \in TrackedBy(k[2]) : k[1] <= j}
    \cup {e.key : e \in {e \in deadlines : /\ scan = "locked" /\ IsTop(e)
                                          /\ e.at <= scanNow /\ Expires(e)}}

\* The holder of mu_ waits for room in main_queue_, and the dispatcher, which
\* alone makes room, waits for mu_.
Standstill ==
    /\ targets # <<>> /\ Len(main_queue) = MainCapacity
    /\ \E k \in Failing : in_flight[k].msg.retry_count < MaxRetries

\* A delivery whose deadline has passed.
Overdue(k) == Tracked(k) /\ in_flight[k].deadline <= now

\* A delivery that nobody settles does time out: none stays overdue, each is
\* acked, failed or tracked again.  The one thing that can keep the scanner
\* from it is that requeue_or_dlq pushes with mu_ held; then the engine stands
\* still for ever.
TimeoutFires == \A k \in Keys : []<>~Overdue(k) \/ <>[]Standstill
==============================================================================
