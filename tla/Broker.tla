------------------------------- MODULE Broker --------------------------------
(***************************************************************************)
(* broker/src/main.cpp: the threads of the broker around the AckEngine and *)
(* the TopicRouter.  One handler thread per connected client (on_frame,    *)
(* called by TcpServer::handle_client), the dispatcher, the dlq logger and *)
(* the engine's scanner meet in main_queue, dlq and the two mutexes.       *)
(*                                                                         *)
(* The actions of AckEngine are used as they are, conjoined with what      *)
(* main.cpp does around each call.  Taking an AckTimeout of 0 lets a       *)
(* delivery time out at any scan.                                          *)
(***************************************************************************)
EXTENDS AckEngine, FiniteSets

CONSTANTS Groups, NoGroup,   \* as in TopicRouter
          Requests,          \* the <<pattern, group>> pairs clients subscribe to
          MaxPublished,      \* bound: messages published by clients
          MaxWhenStopped     \* bound: the same for a broker that is being stopped

ASSUME BrokerFinite == IsFiniteSet(Requests) /\ IsFiniteSet(Groups) /\ IsFiniteSet(Clients)
ASSUME RequestsGiven == \A r \in Requests : r[2] \in Groups \cup {NoGroup}

VARIABLES members, rr_idx,   \* TopicRouter
          conn,              \* per client: "down", "up", or "closing" between
                             \* unsubscribe and client_disconnected
          pushing,           \* per client: the message its handler is pushing
          attempts,          \* history: per id, deliveries tracked under its own topic
          next_id,           \* next_id
          audits,            \* ids of the $SYS.dlq messages
          logger,            \* the message the dlq logger is pushing
          g_running,         \* g_running
          ended              \* the threads in main's joins that have ended

shutdownVars == <<g_running, ended>>
brokerVars == <<members, rr_idx, conn, pushing, attempts, next_id, audits, logger, shutdownVars>>
allVars == <<vars, brokerVars>>

\* A message's topic: one that clients publish on, "$SYS.dlq", or either of
\* them behind "$DLQ.".
Topic(m) == IF m.dead > 0 THEN "$DLQ." ELSE IF m.msg_id \in audits THEN "$SYS.dlq"
            ELSE "order.created"

\* What TopicRouter::matches says of these topics.
TopicMatches(p, t) ==
    \/ p = "*"
    \/ p = "order.*" /\ t = "order.created"
    \/ p = "$DLQ.*" /\ t = "$DLQ."
    \/ p = "$SYS.*" /\ t = "$SYS.dlq"

BrokerTopics == {"order.created", "$DLQ.", "$SYS.dlq"}

Router == INSTANCE TopicRouter WITH
            Patterns <- {r[1] : r \in Requests},
            Topics <- BrokerTopics,
            Matches <- TopicMatches

ASSUME NamesApart == NoGroup \notin Groups /\ \A c \in Clients : Router!Unique(c) \notin Groups

BrokerInit ==
    /\ Init
    /\ Router!RouterInit
    /\ conn = [c \in Clients |-> "down"]
    /\ pushing = [c \in Clients |-> NoMessage]
    /\ attempts = [i \in MsgIds |-> 0]
    /\ next_id = 1
    /\ audits = {}
    /\ logger = NoMessage
    /\ g_running = TRUE /\ ended = {}

Fresh(i) == [msg_id |-> i, dead |-> 0, retry_count |-> 0]
------------------------------------------------------------------------------
\* handle_client of c is waiting in recv.
Reading(c) == conn[c] = "up" /\ AtRest(c) /\ pushing[c] = NoMessage

\* accept_loop: the client is registered and gets a handler thread.
Accept(c) ==
    /\ conn[c] = "down"
    /\ conn' = [conn EXCEPT ![c] = "up"]
    /\ UNCHANGED <<vars, members, rr_idx, pushing, attempts, next_id, audits, logger, shutdownVars>>

OnSubscribe(c) ==
    /\ Reading(c)
    /\ \E r \in Requests : Router!subscribe(r[1], r[2], c)
    /\ UNCHANGED <<vars, conn, pushing, attempts, next_id, audits, logger, shutdownVars>>

\* PUBLISH: the message gets its id; the push follows when there is room, and
\* until then the handler reads no further frame.
OnPublish(c) ==
    /\ Reading(c)
    /\ Cardinality(published) < IF g_running THEN MaxPublished ELSE MaxWhenStopped
    /\ next_id \in MsgIds
    /\ pushing' = [pushing EXCEPT ![c] = Fresh(next_id)]
    /\ next_id' = next_id + 1
    /\ published' = published \cup {next_id}
    /\ UNCHANGED <<engineVars, queueVars, settled>>
    /\ UNCHANGED <<members, rr_idx, conn, attempts, audits, logger, shutdownVars>>

PublishPush(c) ==
    /\ pushing[c] # NoMessage
    /\ Len(main_queue) < MainCapacity
    /\ main_queue' = Append(main_queue, pushing[c])
    /\ pushing' = [pushing EXCEPT ![c] = NoMessage]
    /\ UNCHANGED <<engineVars, dlq, popped, targets, history>>
    /\ UNCHANGED <<members, rr_idx, conn, attempts, next_id, audits, logger, shutdownVars>>

\* ACK and NACK name whatever message the client likes.
OnAck(c) ==
    /\ Reading(c)
    /\ \E i \in MsgIds : Ack(i, c)
    /\ UNCHANGED brokerVars

OnNack(c) ==
    /\ Reading(c)
    /\ \E i \in MsgIds : NackLock(i, c)
    /\ UNCHANGED brokerVars

FinishNack(c) == NackPush(c) /\ UNCHANGED brokerVars

\* recv fails: the connection is closed and forgotten, and on_frame(ERROR_RESP)
\* unsubscribes the client ...
OnDisconnect(c) ==
    /\ Reading(c)
    /\ Router!unsubscribe(c)
    /\ conn' = [conn EXCEPT ![c] = "closing"]
    /\ UNCHANGED <<vars, pushing, attempts, next_id, audits, logger, shutdownVars>>

\* Mutant: client_disconnected is called while the client is still served.
DisconnectedAnyTime(c) == GoneLock(c) /\ UNCHANGED brokerVars

\* ... before it calls client_disconnected.
Disconnected(c) ==
    /\ conn[c] = "closing"
    /\ GoneLock(c)
    /\ UNCHANGED brokerVars

FailOutstanding(c) == GoneStep(c) /\ UNCHANGED brokerVars

HandlerExit(c) ==
    /\ GoneEnd(c)
    /\ conn' = [conn EXCEPT ![c] = "down"]
    /\ UNCHANGED <<members, rr_idx, pushing, attempts, next_id, audits, logger, shutdownVars>>
------------------------------------------------------------------------------
\* The dispatcher: pop a message ...
PopMessage ==
    /\ "dispatcher" \notin ended
    /\ Pop
    /\ UNCHANGED brokerVars

\* ... route it ...
RouteMessage ==
    /\ \E ts \in Router!RouteResults(Topic(popped)) :
        /\ Router!route(Topic(popped), ts)
        /\ Route(ts)
    /\ UNCHANGED <<conn, pushing, attempts, next_id, audits, logger, shutdownVars>>

\* ... then track and send_to for each target, also for one that has gone since.
TrackAndSend ==
    /\ Track
    /\ attempts' = [i \in MsgIds |->
                      IF i = popped.msg_id /\ popped.dead = 0 THEN attempts[i] + 1
                      ELSE attempts[i]]
    /\ UNCHANGED <<members, rr_idx, conn, pushing, next_id, audits, logger, shutdownVars>>

\* The dlq logger takes a dead letter ...
LoggerPop ==
    /\ logger = NoMessage /\ "logger" \notin ended
    /\ dlq # <<>>
    /\ logger' = Head(dlq)
    /\ dlq' = Tail(dlq)
    /\ UNCHANGED <<engineVars, main_queue, popped, targets, history>>
    /\ UNCHANGED <<members, rr_idx, conn, pushing, attempts, next_id, audits, shutdownVars>>

\* Mutant: only the $SYS.dlq message is published.
LoggerAuditsOnly ==
    /\ logger # NoMessage /\ logger.dead > 0
    /\ next_id \in MsgIds
    /\ logger' = Fresh(next_id)
    /\ audits' = audits \cup {next_id}
    /\ next_id' = next_id + 1
    /\ UNCHANGED <<engineVars, queueVars, history>>
    /\ UNCHANGED <<members, rr_idx, conn, pushing, attempts, shutdownVars>>

\* ... publishes it, and makes a $SYS.dlq message about it ...
LoggerRepublish ==
    /\ logger # NoMessage /\ logger.dead > 0
    /\ Len(main_queue) < MainCapacity
    /\ next_id \in MsgIds
    /\ main_queue' = Append(main_queue, logger)
    /\ logger' = Fresh(next_id)
    /\ audits' = audits \cup {next_id}
    /\ next_id' = next_id + 1
    /\ UNCHANGED <<engineVars, dlq, popped, targets, history>>
    /\ UNCHANGED <<members, rr_idx, conn, pushing, attempts, shutdownVars>>

\* ... which it publishes too.
LoggerAudit ==
    /\ logger # NoMessage /\ logger.dead = 0
    /\ Len(main_queue) < MainCapacity
    /\ main_queue' = Append(main_queue, logger)
    /\ logger' = NoMessage
    /\ UNCHANGED <<engineVars, dlq, popped, targets, history>>
    /\ UNCHANGED <<members, rr_idx, conn, pushing, attempts, next_id, audits, shutdownVars>>

Scan == /\ "scanner" \notin ended
        /\ ScannerStep
        /\ UNCHANGED brokerVars
------------------------------------------------------------------------------
\* SIGINT or SIGTERM.
Signal ==
    /\ g_running
    /\ Cardinality(published) <= MaxWhenStopped
    /\ g_running' = FALSE
    /\ UNCHANGED <<vars, members, rr_idx, conn, pushing, attempts, next_id, audits, logger>>
    /\ UNCHANGED ended

\* The threads that main joins, beside the accept thread.
Threads == {"scanner", "dispatcher", "logger"}

\* Mutant: the dispatcher waits in pop, which returns only with a message.
EndThreadAfterPop(t) ==
    /\ ~g_running /\ t \notin ended
    /\ CASE t = "dispatcher" -> popped = NoMessage /\ main_queue # <<>>
         [] t = "logger"     -> logger = NoMessage
         [] t = "scanner"    -> scan = "asleep"
    /\ ended' = ended \cup {t}
    /\ UNCHANGED <<vars, members, rr_idx, conn, pushing, attempts, next_id, audits, logger>>
    /\ UNCHANGED g_running

\* A thread is between two rounds of its loop and finds that it shall stop:
\* g_running is false, or for the scanner running_, which main resets in
\* ack_engine.stop().  The detached handlers go on.
EndThread(t) ==
    /\ ~g_running /\ t \notin ended
    /\ CASE t = "dispatcher" -> popped = NoMessage
         [] t = "logger"     -> logger = NoMessage
         [] t = "scanner"    -> scan = "asleep"
    /\ ended' = ended \cup {t}
    /\ UNCHANGED <<vars, members, rr_idx, conn, pushing, attempts, next_id, audits, logger>>
    /\ UNCHANGED g_running

Handler(c) ==
    \/ Accept(c) \/ OnSubscribe(c) \/ OnPublish(c) \/ PublishPush(c)
    \/ OnAck(c) \/ OnNack(c) \/ FinishNack(c)
    \/ OnDisconnect(c) \/ Disconnected(c) \/ FailOutstanding(c) \/ HandlerExit(c)

BrokerNext ==
    \/ \E c \in Clients : Handler(c)
    \/ PopMessage \/ RouteMessage \/ TrackAndSend
    \/ LoggerPop \/ LoggerRepublish \/ LoggerAudit
    \/ Scan
    \/ Signal \/ \E t \in Threads : EndThread(t)

BrokerSpec == BrokerInit /\ [][BrokerNext]_allVars

(***************************************************************************)
(* Fairness: as in AckEngine.  The broker's threads run; a thread that     *)
(* waits for mu_ gets it if it keeps coming free (strong fairness); one    *)
(* that can push or pop does; and one that may stop does (the scanner looks *)
(* in every round whether it shall, so strong fairness).  Clients owe      *)
(* nothing: they need not subscribe, publish, ack or stay.                 *)
(***************************************************************************)
BrokerFairness ==
    /\ WF_allVars(PopMessage \/ RouteMessage \/ EndThread("dispatcher"))
    /\ SF_allVars(TrackAndSend)
    /\ WF_allVars(LoggerPop \/ LoggerRepublish \/ LoggerAudit \/ EndThread("logger"))
    /\ SF_allVars(scan = "stamped" /\ Scan) /\ WF_allVars(scan # "stamped" /\ Scan)
    /\ SF_allVars(EndThread("scanner"))
    /\ \A c \in Clients :
        /\ WF_allVars(PublishPush(c) \/ FinishNack(c) \/ FailOutstanding(c) \/ HandlerExit(c))
        /\ SF_allVars(Disconnected(c))

FairBrokerSpec == BrokerSpec /\ BrokerFairness
------------------------------------------------------------------------------
\* The state of main.cpp's threads keeps its shape, and client_disconnected runs
\* only for clients whose connection is closed.
BrokerTypeOK ==
    /\ TypeOK
    /\ members \in [Router!Slots -> Seq(Clients)] /\ rr_idx \in [Router!Slots -> Nat]
    /\ conn \in [Clients -> {"down", "up", "closing"}]
    /\ pushing \in [Clients -> Message \cup {NoMessage}]
    /\ attempts \in [MsgIds -> Nat] /\ next_id \in Nat /\ audits \in SUBSET MsgIds
    /\ logger \in Message \cup {NoMessage}
    /\ g_running \in BOOLEAN /\ ended \in SUBSET Threads
    \* A handler that is leaving has closed its connection.
    /\ \A c \in Clients : c \in leaving => conn[c] = "closing"

\* The places that can hold a copy of message i, one element per copy.
CopiesOf(i) ==
    {<<"main", n>> : n \in {n \in DOMAIN main_queue : main_queue[n].msg_id = i}}
    \cup {<<"dlq", n>> : n \in {n \in DOMAIN dlq : dlq[n].msg_id = i}}
    \cup {<<"in_flight", c>> : c \in {c \in Clients : Tracked(<<i, c>>)}}
    \cup {<<"pushing", c>> : c \in {c \in Clients : pushing[c].msg_id = i}}
    \cup (IF popped.msg_id = i THEN {<<"popped", 0>>} ELSE {})
    \cup (IF logger.msg_id = i THEN {<<"logger", 0>>} ELSE {})

\* At-least-once across all threads: from the PUBLISH frame on, a message is
\* held by some thread or queue until it is acked or finds no subscriber; the
\* way through the dead letter queue back into main_queue loses nothing.
NoneLost == \A i \in published : CopiesOf(i) # {} \/ i \in settled

\* All clients name a group, and a topic goes to one group at most.
OneGroupEach ==
    /\ \A r \in Requests : r[2] \in Groups
    /\ \A t \in BrokerTopics : \A q, r \in Requests :
            TopicMatches(q[1], t) /\ TopicMatches(r[1], t) => q = r

\* With one consumer group for each topic, no two of its members ever owe an
\* ACK for the same message, and no second copy waits anywhere: nacks,
\* disconnects, timeouts and late acks do not multiply a message, neither
\* under its own topic nor as a dead letter.
OneCopyInGroup ==
    OneGroupEach => \A i \in MsgIds : Cardinality(CopiesOf(i)) <= 1

\* The messages that are somewhere in the broker.
AllCopies ==
    Range(main_queue) \cup Range(dlq) \cup Range(pushing) \cup {popped, logger}
    \cup {in_flight[k].msg : k \in Keys}

\* The retry budget is spent exactly: with one consumer group for each topic a
\* message is tracked for at most max_retries + 1 deliveries, and it becomes a
\* dead letter only after that many.  The count travels in the message through
\* in_flight_ and main_queue and is neither lost nor reset on the way.
BudgetSpent ==
    OneGroupEach =>
        /\ \A i \in MsgIds : attempts[i] <= MaxRetries + 1
        /\ \A m \in AllCopies : m.dead > 0 => attempts[m.msg_id] = MaxRetries + 1

\* The holder of mu_ waits for room in main_queue, or in dlq while the logger
\* waits for room in main_queue; and the dispatcher waits for mu_.
Gridlock ==
    /\ targets # <<>> /\ Len(main_queue) = MainCapacity
    /\ \E k \in Failing :
        in_flight[k].msg.retry_count < MaxRetries \/ (Len(dlq) = DlqCapacity /\ logger # NoMessage)

\* Message i waits or is owed an ACK under its own topic.
OnItsTopic(i) == \E m \in AllCopies : m.msg_id = i /\ m.dead = 0

\* The bound of the instance, not the code, keeps the logger from going on.
OutOfIds == logger.dead > 0 /\ next_id \notin MsgIds

\* Every message comes to an end under its own topic, whatever consumers do:
\* it is acked, dropped or turned into a dead letter.  (A dead letter starts
\* with a new budget: it can fail and be dead-lettered again, for ever.)
\* The exceptions: the broker is stopped, or it stands still because
\* requeue_or_dlq pushes with mu_ held.
Resolves ==
    \A i \in MsgIds :
        []<>~OnItsTopic(i) \/ <>[](~g_running \/ Gridlock \/ OutOfIds)

\* main_queue or dlq is full, and the thread that would empty it has ended,
\* waits for mu_ or waits for room itself.
JoinBlocked ==
    \/ Len(main_queue) = MainCapacity /\ ("dispatcher" \in ended \/ targets # <<>>)
    \/ Len(dlq) = DlqCapacity /\ ("logger" \in ended \/ logger # NoMessage)

\* After a signal (g_running stays false then) the threads that main joins come
\* to their end, in whichever order and though the detached handlers go on,
\* unless a full queue keeps one of them waiting.
ShutdownEnds ==
    []<>(g_running \/ ended = Threads) \/ <>[](JoinBlocked \/ OutOfIds)

\* doc/prd.md asks for clients in any number "without deadlock", README.md
\* claims "zero TCP pipeline deadlocks": a message that the dispatcher has
\* popped goes out to its targets and the dispatcher returns to main_queue.
DispatcherProceeds == popped # NoMessage ~> popped = NoMessage

\* README.md: "If any service crashes mid-flight, the broker's AckEngine will
\* wait 5 seconds and automatically redeliver the message."  So a message that
\* comes back to main_queue after a failed delivery is sent out again.
CrashedDeliveryRepeated ==
    [][popped.retry_count > 0 /\ targets = <<>> => popped' = popped]_allVars
==============================================================================
