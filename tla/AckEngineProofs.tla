--------------------------- MODULE AckEngineProofs ---------------------------
(***************************************************************************)
(* AckEngine for every set of messages and clients, every retry budget,    *)
(* timeout and queue capacity: the lock discipline, the heap that covers   *)
(* the outstanding deliveries, the retry budget and at-least-once.         *)
(***************************************************************************)
EXTENDS AckEngine, TLAPS

\* The actions of the module, flat: one disjunct per step of the code.
LEMMA NextCases ==
    ASSUME Next
    PROVE  \/ \E i \in MsgIds, c \in Clients : Ack(i, c) \/ NackLock(i, c)
           \/ \E c \in Clients : NackPush(c) \/ GoneLock(c) \/ GoneStep(c) \/ GoneEnd(c)
           \/ ScanStamp \/ ScanLock \/ ScanPop \/ ScanEnd
           \/ Track \/ Pop \/ (\E ts \in Routes : Route(ts))
           \/ BuryDead \/ Tick \/ \E i \in MsgIds : Publish(i)
  BY DEF Next, HandlerStep, ScannerStep, DispatcherStep

\* NoMessage and Untracked are recognisable: ids are positive.
LEMMA NullsDistinct ==
    /\ NoMessage \notin Message
    /\ Untracked \notin InFlight
    /\ NoOne \notin Clients /\ Scanner \notin Clients /\ NoOne # Scanner
  BY IdsPositive DEF NoMessage, Message, Untracked, InFlight, NoOne, Scanner

\* requeue_or_dlq on an outstanding delivery appends one well-formed message
\* to one of the two queues.
LEMMA RequeueEffect ==
    ASSUME TypeOK, NEW k \in Keys, Tracked(k), requeue_or_dlq(k)
    PROVE  LET m == in_flight[k].msg IN
           /\ m \in Message /\ main_queue' \in Seq(Message) /\ dlq' \in Seq(Message)
           /\ \/ /\ m.retry_count < MaxRetries /\ dlq' = dlq
                 /\ main_queue' = Append(main_queue, Retry(m))
              \/ /\ m.retry_count >= MaxRetries /\ main_queue' = main_queue
                 /\ dlq' = Append(dlq, DeadLetter(m))
<1> DEFINE m == in_flight[k].msg
<1>1. m \in Message
  BY DEF TypeOK, Tracked, InFlight
<1>2. /\ Retry(m) \in Message
      /\ DeadLetter(m) \in Message
  BY <1>1 DEF Message, Retry, DeadLetter
<1>3. main_queue \in Seq(Message) /\ dlq \in Seq(Message)
  BY DEF TypeOK
<1>4. CASE m.retry_count >= MaxRetries
  <2>1. m.retry_count \in Nat
    BY <1>1 DEF Message
  <2>2. /\ dlq' = Append(dlq, DeadLetter(m))
        /\ main_queue' = main_queue
    BY <1>4, <2>1, RetriesNat DEF requeue_or_dlq
  <2> QED BY <1>1, <1>2, <1>3, <1>4, <2>2
<1>5. CASE ~(m.retry_count >= MaxRetries)
  <2>1. m.retry_count \in Nat /\ m.retry_count < MaxRetries
    BY <1>1, <1>5, RetriesNat DEF Message
  <2>2. /\ main_queue' = Append(main_queue, Retry(m))
        /\ dlq' = dlq
    BY <1>5, <2>1 DEF requeue_or_dlq
  <2> QED BY <1>1, <1>2, <1>3, <2>1, <2>2
<1> QED BY <1>4, <1>5

\* The dispatcher takes a well-formed message from the queue.
LEMMA PopTypes == ASSUME TypeOK, Pop PROVE TypeOK'
<1>1. Head(main_queue) \in Message /\ Tail(main_queue) \in Seq(Message)
  BY DEF Pop, TypeOK
<1> QED BY <1>1, NullsDistinct DEF Pop, engineVars, history, TypeOK

\* It may be routed to any list of targets.
LEMMA TargetTypes == ASSUME TypeOK, NEW ts \in Seq(Clients), Route(ts) PROVE TypeOK'
<1>1. popped \in Message /\ popped.msg_id \in MsgIds
  BY DEF Route, TypeOK, Message
<1> QED BY <1>1 DEF Route, engineVars, TypeOK

\* Every step keeps the types, given that nack works on a tracked entry.
LEMMA TypeStep == TypeOK /\ LockOwned /\ [Next]_vars => TypeOK'
<1> SUFFICES ASSUME TypeOK, LockOwned, [Next]_vars PROVE TypeOK'
  OBVIOUS
<1>k. ASSUME NEW k \in Keys, Erase(k)
      PROVE  in_flight' \in [Keys -> InFlight \cup {Untracked}]
  BY <1>k DEF Erase, TypeOK
<1>1. ASSUME NEW i \in MsgIds, NEW c \in Clients, Ack(i, c) PROVE TypeOK'
  <2>1. <<i, c>> \in Keys
    BY DEF Keys
  <2> QED BY <1>1, <1>k, <2>1 DEF Ack, queueVars, TypeOK
<1>2. ASSUME NEW i \in MsgIds, NEW c \in Clients, NackLock(i, c) PROVE TypeOK'
  BY <1>2 DEF NackLock, queueVars, history, TypeOK
<1>3. ASSUME NEW c \in Clients, NackPush(c) PROVE TypeOK'
  <2>1. <<nacking[c], c>> \in Keys /\ Tracked(<<nacking[c], c>>)
    BY <1>3 DEF NackPush, TypeOK, LockOwned, Keys
  <2>2. main_queue' \in Seq(Message) /\ dlq' \in Seq(Message)
    BY <1>3, <2>1, RequeueEffect DEF NackPush
  <2>3. in_flight' \in [Keys -> InFlight \cup {Untracked}]
    BY <1>3, <2>1, <1>k DEF NackPush
  <2> QED BY <1>3, <2>2, <2>3 DEF NackPush, history, TypeOK
<1>4. ASSUME NEW c \in Clients, GoneLock(c) PROVE TypeOK'
  BY <1>4 DEF GoneLock, queueVars, history, TypeOK
<1>5. ASSUME NEW c \in Clients, GoneStep(c) PROVE TypeOK'
  <2>1. PICK i \in TrackedBy(c) : requeue_or_dlq(<<i, c>>) /\ Erase(<<i, c>>)
    BY <1>5 DEF GoneStep
  <2>2. <<i, c>> \in Keys /\ Tracked(<<i, c>>)
    BY <2>1 DEF TrackedBy, Keys
  <2>3. main_queue' \in Seq(Message) /\ dlq' \in Seq(Message)
    BY <2>1, <2>2, RequeueEffect
  <2>4. in_flight' \in [Keys -> InFlight \cup {Untracked}]
    BY <2>1, <2>2, <1>k
  <2> QED BY <1>5, <2>3, <2>4 DEF GoneStep, history, TypeOK
<1>6. ASSUME NEW c \in Clients, GoneEnd(c) PROVE TypeOK'
  BY <1>6 DEF GoneEnd, queueVars, history, TypeOK
<1>7. CASE ScanStamp
  BY <1>7 DEF ScanStamp, queueVars, history, TypeOK
<1>8. CASE ScanLock
  BY <1>8 DEF ScanLock, queueVars, history, TypeOK
<1>9. CASE ScanPop
  <2>1. PICK e \in deadlines :
           /\ deadlines' = deadlines \ {e}
           /\ IF Expires(e) THEN requeue_or_dlq(e.key) /\ Erase(e.key)
                            ELSE UNCHANGED <<in_flight, main_queue, dlq>>
    BY <1>9 DEF ScanPop
  <2>2. e.key \in Keys
    BY DEF TypeOK
  <2>3. /\ in_flight' \in [Keys -> InFlight \cup {Untracked}]
        /\ main_queue' \in Seq(Message) /\ dlq' \in Seq(Message)
    <3>1. CASE Expires(e)
      BY <3>1, <2>1, <2>2, <1>k, RequeueEffect DEF Expires
    <3>2. CASE ~Expires(e)
      BY <3>2, <2>1 DEF TypeOK
    <3> QED BY <3>1, <3>2
  <2> QED BY <1>9, <2>1, <2>3 DEF ScanPop, history, TypeOK
<1>10. CASE ScanEnd
  BY <1>10 DEF ScanEnd, queueVars, history, TypeOK
<1>11. CASE Track
  <2>1. /\ popped \in Message /\ Head(targets) \in Clients
        /\ Tail(targets) \in Seq(Clients) /\ now + AckTimeout \in Nat
    BY <1>11, RetriesNat DEF Track, TypeOK
  <2>2. <<popped.msg_id, Head(targets)>> \in Keys
    BY <2>1 DEF Message, Keys
  <2>3. [msg |-> popped, deadline |-> now + AckTimeout] \in InFlight
    BY <2>1 DEF InFlight
  <2>4. in_flight' \in [Keys -> InFlight \cup {Untracked}]
    BY <1>11, <2>2, <2>3 DEF Track, TypeOK
  <2>5. deadlines' \in SUBSET [at : Nat, key : Keys]
    <3>1. [at |-> now + AckTimeout, key |-> <<popped.msg_id, Head(targets)>>]
             \in [at : Nat, key : Keys]
      BY <2>1, <2>2
    <3> QED BY Zenon, <1>11, <3>1 DEF Track, TypeOK
  <2>6. targets' \in Seq(Clients) /\ popped' \in Message \cup {NoMessage}
        /\ (targets' # <<>> => popped' # NoMessage)
    BY <1>11, <2>1, NullsDistinct DEF Track
  <2> QED BY SMTT(40), <1>11, <2>4, <2>5, <2>6 DEF Track, history, TypeOK
<1>p. CASE Pop
  BY <1>p, PopTypes
<1>12. ASSUME NEW ts \in Routes, Route(ts) PROVE TypeOK'
  <2>1. ts \in Seq(Clients)
    BY DEF Routes
  <2> QED BY <1>12, <2>1, TargetTypes
<1>13. CASE BuryDead
  <2>1. Head(dlq) \in Message /\ Tail(dlq) \in Seq(Message)
    BY <1>13 DEF BuryDead, TypeOK
  <2>2. Head(dlq).msg_id \in MsgIds
    BY <2>1 DEF Message
  <2> QED BY <1>13, <2>1, <2>2 DEF BuryDead, engineVars, TypeOK
<1>14. CASE Tick
  BY <1>14 DEF Tick, queueVars, history, TypeOK
<1>15. ASSUME NEW i \in MsgIds, Publish(i) PROVE TypeOK'
  <2>1. [msg_id |-> i, dead |-> 0, retry_count |-> 0] \in Message
    BY DEF Message
  <2>2. main_queue' \in Seq(Message)
    BY <1>15, <2>1 DEF Publish, TypeOK
  <2> QED BY <1>15, <2>2 DEF Publish, engineVars, TypeOK
<1>16. CASE UNCHANGED vars
  BY <1>16 DEF vars, engineVars, queueVars, history, TypeOK
<1> QED
  BY <1>1, <1>2, <1>3, <1>4, <1>5, <1>6, <1>7, <1>8, <1>9, <1>10, <1>11, <1>p,
     <1>12, <1>13, <1>14, <1>15, <1>16, NextCases

\* mu_ keeps the threads apart: a step that takes it finds it free, a step
\* that needs it is taken by its owner.
LEMMA LockStep == TypeOK /\ LockOwned /\ [Next]_vars => LockOwned'
<1> SUFFICES ASSUME TypeOK, LockOwned, [Next]_vars PROVE LockOwned'
  OBVIOUS
<1>t. /\ nacking \in [Clients -> MsgIds \cup {0}] /\ leaving \subseteq Clients
      /\ in_flight \in [Keys -> InFlight \cup {Untracked}] /\ 0 \notin MsgIds
  BY IdsPositive DEF TypeOK
<1> USE NullsDistinct
<1>1. ASSUME NEW i \in MsgIds, NEW c \in Clients, Ack(i, c) PROVE LockOwned'
  <2>1. \A d \in Clients : nacking[d] = 0
    BY <1>1 DEF Ack, LockOwned
  <2> QED BY <1>1, <2>1 DEF Ack, LockOwned
<1>2. ASSUME NEW i \in MsgIds, NEW c \in Clients, NackLock(i, c) PROVE LockOwned'
  <2>1. \A d \in Clients : nacking[d] = 0 /\ d \notin leaving
    BY <1>2 DEF NackLock, LockOwned
  <2> QED BY <1>2, <2>1, <1>t DEF NackLock, LockOwned, Tracked
<1>3. ASSUME NEW c \in Clients, NackPush(c) PROVE LockOwned'
  <2>1. mu = c /\ c \notin leaving
    BY <1>3 DEF NackPush, LockOwned
  <2>2. \A d \in Clients : d # c => nacking[d] = 0 /\ d \notin leaving
    BY <2>1 DEF LockOwned
  <2> QED BY <1>3, <2>1, <2>2, <1>t DEF NackPush, LockOwned
<1>4. ASSUME NEW c \in Clients, GoneLock(c) PROVE LockOwned'
  <2>1. \A d \in Clients : nacking[d] = 0 /\ d \notin leaving
    BY <1>4 DEF GoneLock, LockOwned
  <2> QED BY <1>4, <2>1, <1>t DEF GoneLock, LockOwned
<1>5. ASSUME NEW c \in Clients, GoneStep(c) PROVE LockOwned'
  <2>1. mu = c
    BY <1>5 DEF GoneStep, LockOwned
  <2>2. \A d \in Clients : nacking[d] = 0
    BY Zenon, <1>5, <2>1 DEF GoneStep, LockOwned
  <2> QED BY <1>5, <2>2 DEF GoneStep, LockOwned
<1>6. ASSUME NEW c \in Clients, GoneEnd(c) PROVE LockOwned'
  <2>1. mu = c
    BY <1>6 DEF GoneEnd, LockOwned
  <2>2. \A d \in Clients : nacking[d] = 0 /\ (d # c => d \notin leaving)
    BY Zenon, <1>6, <2>1 DEF GoneEnd, LockOwned
  <2> QED BY <1>6, <2>1, <2>2 DEF GoneEnd, LockOwned
<1>7. CASE ScanStamp
  BY <1>7 DEF ScanStamp, LockOwned, Tracked
<1>8. CASE ScanLock
  BY <1>8 DEF ScanLock, LockOwned, Tracked
<1>9. CASE ScanPop
  <2>1. \A d \in Clients : nacking[d] = 0
    BY <1>9 DEF ScanPop, LockOwned
  <2> QED BY <1>9, <2>1 DEF ScanPop, LockOwned
<1>10. CASE ScanEnd
  BY <1>10 DEF ScanEnd, LockOwned, Tracked
<1>11. CASE Track
  <2>1. \A d \in Clients : nacking[d] = 0
    BY <1>11 DEF Track, LockOwned
  <2> QED BY <1>11, <2>1 DEF Track, LockOwned
<1>12. ASSUME UNCHANGED <<in_flight, mu, scan, nacking, leaving>> PROVE LockOwned'
  BY <1>12 DEF LockOwned, Tracked
<1>13. CASE Pop \/ BuryDead \/ Tick \/ UNCHANGED vars
  BY <1>12, <1>13 DEF Pop, BuryDead, Tick, vars, engineVars
<1>14. ASSUME NEW ts \in Routes, Route(ts) PROVE LockOwned'
  BY <1>12, <1>14 DEF Route, engineVars
<1>15. ASSUME NEW i \in MsgIds, Publish(i) PROVE LockOwned'
  BY <1>12, <1>15 DEF Publish, engineVars
<1> QED
  BY <1>1, <1>2, <1>3, <1>4, <1>5, <1>6, <1>7, <1>8, <1>9, <1>10, <1>11,
     <1>13, <1>14, <1>15, NextCases

\* The two facts every other proof starts from.
LEMMA InitTypeLock == Init => TypeOK /\ LockOwned
<1> SUFFICES ASSUME Init PROVE TypeOK /\ LockOwned
  OBVIOUS
<1>1. TypeOK
  BY DEF Init, TypeOK
<1>2. LockOwned
  BY NullsDistinct DEF Init, LockOwned
<1> QED BY <1>1, <1>2

\* The state of the ack engine keeps its types.
THEOREM TypeCorrect == Spec => []TypeOK
<1> QED BY InitTypeLock, TypeStep, LockStep, PTL DEF Spec

\* Mutual exclusion by mu_ of the scan, nack and client_disconnected.
THEOREM LockDiscipline == Spec => []LockOwned
<1> QED BY InitTypeLock, TypeStep, LockStep, PTL DEF Spec

\* Lazy deletion: ack, nack and client_disconnected only untrack, track adds
\* the entry of the new deadline, and the scanner removes an entry only
\* together with its delivery or when it is not the delivery's own.
LEMMA HeapStep == TypeOK /\ HeapCovers /\ [Next]_vars => HeapCovers'
<1> SUFFICES ASSUME TypeOK, HeapCovers, [Next]_vars,
                    NEW k \in Keys, Tracked(k)'
             PROVE  [at |-> in_flight'[k].deadline, key |-> k] \in deadlines'
  BY DEF HeapCovers
<1>t. in_flight \in [Keys -> InFlight \cup {Untracked}]
      /\ deadlines \subseteq [at : Nat, key : Keys]
  BY DEF TypeOK
<1> DEFINE Goal == [at |-> in_flight'[k].deadline, key |-> k] \in deadlines'
<1>1. ASSUME NEW q, Erase(q), deadlines' = deadlines PROVE Goal
  BY <1>1, <1>t DEF Erase, HeapCovers, Tracked
<1>2. ASSUME UNCHANGED <<in_flight, deadlines>> PROVE Goal
  BY <1>2 DEF HeapCovers, Tracked
<1>3. ASSUME NEW i \in MsgIds, NEW c \in Clients, Ack(i, c) \/ NackLock(i, c) PROVE Goal
  BY <1>1, <1>2, <1>3 DEF Ack, NackLock
<1>4. ASSUME NEW c \in Clients, NackPush(c) \/ GoneLock(c) \/ GoneStep(c) \/ GoneEnd(c)
      PROVE Goal
  BY Zenon, <1>1, <1>2, <1>4 DEF NackPush, GoneLock, GoneStep, GoneEnd
<1>5. CASE ScanStamp \/ ScanLock \/ ScanEnd
  BY <1>2, <1>5 DEF ScanStamp, ScanLock, ScanEnd
<1>6. CASE ScanPop
  <2>1. PICK e \in deadlines :
           /\ deadlines' = deadlines \ {e}
           /\ IF Expires(e) THEN requeue_or_dlq(e.key) /\ Erase(e.key)
                            ELSE UNCHANGED <<in_flight, main_queue, dlq>>
    BY <1>6 DEF ScanPop
  <2>2. CASE Expires(e)
    <3>1. k # e.key /\ in_flight'[k] = in_flight[k]
      BY <2>1, <2>2, <1>t DEF Erase, Tracked
    <3> QED BY <2>1, <3>1 DEF HeapCovers, Tracked
  <2>3. CASE ~Expires(e)
    <3>1. in_flight' = in_flight /\ Tracked(k)
      BY <2>1, <2>3 DEF Tracked
    <3>2. in_flight[k].deadline \in Nat /\ e.at \in Nat
      BY <3>1, <1>t DEF Tracked, InFlight
    <3>3. e # [at |-> in_flight[k].deadline, key |-> k]
      BY <2>3, <3>1, <3>2 DEF Expires
    <3> QED BY <2>1, <3>1, <3>3 DEF HeapCovers
  <2> QED BY <2>2, <2>3
<1>7. CASE Track
  <2> DEFINE q == <<popped.msg_id, Head(targets)>>
  <2>1. /\ in_flight' = [in_flight EXCEPT ![q] =
                              [msg |-> popped, deadline |-> now + AckTimeout]]
        /\ deadlines' = deadlines \cup {[at |-> now + AckTimeout, key |-> q]}
    BY <1>7 DEF Track
  <2>2. CASE k = q
    BY <2>1, <2>2, <1>t
  <2>3. CASE k # q
    BY <2>1, <2>3, <1>t DEF HeapCovers, Tracked
  <2> QED BY <2>2, <2>3
<1>8. ASSUME NEW ts \in Routes, Route(ts) PROVE Goal
  BY <1>2, <1>8 DEF Route, engineVars
<1>9. ASSUME NEW i \in MsgIds, Publish(i) PROVE Goal
  BY <1>2, <1>9 DEF Publish, engineVars
<1>10. CASE Pop \/ BuryDead \/ Tick \/ UNCHANGED vars
  BY <1>2, <1>10 DEF Pop, BuryDead, Tick, vars, engineVars
<1> QED BY <1>3, <1>4, <1>5, <1>6, <1>7, <1>8, <1>9, <1>10, NextCases

\* No outstanding delivery is ever without the heap entry of its deadline.
THEOREM HeapCoverage == Spec => []HeapCovers
<1>1. Init => HeapCovers
  BY DEF Init, HeapCovers, Tracked
<1> QED BY <1>1, HeapStep, TypeCorrect, PTL DEF Spec

\* The scanner's time stamp is never ahead of the clock.
StampPast == scanNow <= now

\* No timeout comes early: when the scanner fails a delivery, the deadline
\* written by the last track of that delivery has passed.
THEOREM ExpiryOnTime == Spec => NoEarlyExpiry
<1>1. Init => StampPast
  BY DEF Init, StampPast
<1>2. TypeOK /\ StampPast /\ [Next]_vars => StampPast'
  <2> SUFFICES ASSUME TypeOK, StampPast, [Next]_vars PROVE StampPast'
    OBVIOUS
  <2>1. now \in Nat /\ scanNow \in Nat
    BY DEF TypeOK
  <2>2. CASE ScanStamp \/ Tick
    BY <2>1, <2>2 DEF ScanStamp, Tick, StampPast
  <2>3. ASSUME UNCHANGED <<now, scanNow>> PROVE StampPast'
    BY <2>3 DEF StampPast
  <2>4. ASSUME NEW i \in MsgIds, NEW c \in Clients, Ack(i, c) \/ NackLock(i, c)
        PROVE  StampPast'
    BY <2>3, <2>4 DEF Ack, NackLock
  <2>5. ASSUME NEW c \in Clients,
               NackPush(c) \/ GoneLock(c) \/ GoneStep(c) \/ GoneEnd(c)
        PROVE  StampPast'
    BY <2>3, <2>5 DEF NackPush, GoneLock, GoneStep, GoneEnd
  <2>6. CASE ScanLock \/ ScanPop \/ ScanEnd \/ Track \/ Pop \/ BuryDead
                \/ UNCHANGED vars
    BY <2>3, <2>6 DEF ScanLock, ScanPop, ScanEnd, Track, Pop, BuryDead, vars, engineVars
  <2>7. ASSUME NEW ts \in Routes, Route(ts) PROVE StampPast'
    BY <2>3, <2>7 DEF Route, engineVars
  <2>8. ASSUME NEW i \in MsgIds, Publish(i) PROVE StampPast'
    BY <2>3, <2>8 DEF Publish, engineVars
  <2> QED BY <2>2, <2>4, <2>5, <2>6, <2>7, <2>8, NextCases
<1> DEFINE OnTime == \A k \in Keys :
        scan = "locked" /\ Tracked(k) /\ in_flight'[k] = Untracked
            => in_flight[k].deadline <= now
<1>3. TypeOK /\ LockOwned /\ StampPast /\ [Next]_vars => [OnTime]_vars
  <2> SUFFICES ASSUME TypeOK, LockOwned, StampPast, Next, NEW k \in Keys,
                      scan = "locked", Tracked(k), in_flight'[k] = Untracked
               PROVE  in_flight[k].deadline <= now
    OBVIOUS
  <2>1. mu = Scanner /\ \A c \in Clients : nacking[c] = 0 /\ c \notin leaving
    BY NullsDistinct DEF LockOwned
  <2>2. in_flight' # in_flight
    BY SMTT(40) DEF Tracked
  <2>3. ScanPop
    BY Zenon, <2>1, <2>2, NextCases, NullsDistinct
    DEF Ack, NackLock, NackPush, GoneLock, GoneStep, GoneEnd, ScanStamp, ScanLock,
        ScanEnd, Track, Pop, Route, BuryDead, Tick, Publish, engineVars
  <2>4. PICK e \in deadlines : e.at <= scanNow /\ Expires(e) /\ Erase(e.key)
    BY <2>2, <2>3 DEF ScanPop
  <2>5. k = e.key
    BY <2>4 DEF Erase, Tracked, TypeOK
  <2>6. in_flight[k].deadline \in Nat /\ e.at \in Nat /\ now \in Nat /\ scanNow \in Nat
    BY DEF TypeOK, Tracked, InFlight
  <2> QED BY <2>4, <2>5, <2>6 DEF Expires, StampPast
<1> QED BY <1>1, <1>2, <1>3, TypeCorrect, LockDiscipline, PTL DEF Spec, NoEarlyExpiry

\* What push and pop do to the set of queued messages.
LEMMA RangeAppend ==
    ASSUME NEW S, NEW q \in Seq(S), NEW m \in S
    PROVE  Range(Append(q, m)) = Range(q) \cup {m}
<1>1. DOMAIN Append(q, m) = 1..(Len(q) + 1) /\ DOMAIN q = 1..Len(q) /\ Len(q) \in Nat
  OBVIOUS
<1>2. \A j \in 1..Len(q) : Append(q, m)[j] = q[j]
  OBVIOUS
<1>3. Append(q, m)[Len(q) + 1] = m
  OBVIOUS
<1> QED BY <1>1, <1>2, <1>3 DEF Range

\* What the dispatcher and the dlq logger pop, and what they leave in the queue.
LEMMA RangeHeadTail ==
    ASSUME NEW S, NEW q \in Seq(S), q # <<>>
    PROVE  Range(q) = {Head(q)} \cup Range(Tail(q))
<1>1. /\ DOMAIN q = 1..Len(q) /\ Len(q) \in Nat /\ Len(q) >= 1
      /\ DOMAIN Tail(q) = 1..(Len(q) - 1) /\ Head(q) = q[1]
  OBVIOUS
<1>2. \A j \in 1..(Len(q) - 1) : Tail(q)[j] = q[j + 1]
  OBVIOUS
<1>3. \A x \in Range(q) : x = Head(q) \/ x \in Range(Tail(q))
  <2> SUFFICES ASSUME NEW j \in 1..Len(q), j # 1
               PROVE  q[j] \in Range(Tail(q))
    BY <1>1 DEF Range
  <2>1. j - 1 \in 1..(Len(q) - 1) /\ Tail(q)[j - 1] = q[(j - 1) + 1]
    BY <1>1, <1>2
  <2>2. (j - 1) + 1 = j
    BY <1>1
  <2> QED BY Zenon, <1>1, <2>1, <2>2 DEF Range
<1>4. Head(q) \in Range(q)
  BY <1>1 DEF Range
<1>5. \A x \in Range(Tail(q)) : x \in Range(q)
  <2> SUFFICES ASSUME NEW j \in 1..(Len(q) - 1) PROVE Tail(q)[j] \in Range(q)
    BY <1>1 DEF Range
  <2>1. j + 1 \in 1..Len(q)
    BY <1>1
  <2> QED BY <2>1, <1>1, <1>2 DEF Range
<1> QED BY <1>3, <1>4, <1>5

\* The queues after requeue_or_dlq, as sets: one message more, within the
\* retry budget if the failed one was, and with the failed one's id.
LEMMA RequeueRange ==
    ASSUME TypeOK, NEW k \in Keys, Tracked(k), requeue_or_dlq(k)
    PROVE  \E n \in Message :
              /\ n.msg_id = in_flight[k].msg.msg_id /\ n.retry_count <= MaxRetries
              /\ \/ Range(main_queue') = Range(main_queue) \cup {n} /\ dlq' = dlq
                 \/ Range(dlq') = Range(dlq) \cup {n} /\ main_queue' = main_queue
<1> DEFINE m == in_flight[k].msg
<1>1. m \in Message /\ m.retry_count \in Nat /\ m.dead \in Nat /\ m.msg_id \in MsgIds
  BY RequeueEffect DEF Message
<1>2. main_queue \in Seq(Message) /\ dlq \in Seq(Message)
  BY DEF TypeOK
<1>3. CASE /\ m.retry_count < MaxRetries /\ dlq' = dlq
           /\ main_queue' = Append(main_queue, Retry(m))
  <2>1. Retry(m) \in Message /\ Retry(m).msg_id = m.msg_id
        /\ Retry(m).retry_count <= MaxRetries
    BY SMTT(40), <1>1, <1>3, RetriesNat DEF Retry, Message
  <2>2. Range(main_queue') = Range(main_queue) \cup {Retry(m)}
    BY SMTT(40), <1>2, <1>3, <2>1, RangeAppend
  <2> QED BY SMTT(40), <1>3, <2>1, <2>2
<1>4. CASE /\ main_queue' = main_queue /\ dlq' = Append(dlq, DeadLetter(m))
  <2>1. DeadLetter(m) \in Message /\ DeadLetter(m).msg_id = m.msg_id
        /\ DeadLetter(m).retry_count <= MaxRetries
    BY SMTT(40), <1>1, RetriesNat DEF DeadLetter, Message
  <2>2. Range(dlq') = Range(dlq) \cup {DeadLetter(m)}
    BY <1>2, <1>4, <2>1, RangeAppend
  <2> QED BY SMTT(40), <1>4, <2>1, <2>2
<1> QED BY <1>3, <1>4, RequeueEffect

\* Retrying stops at max_retries_, and a dead letter starts again from zero.
LEMMA RetryStep == TypeOK /\ LockOwned /\ RetryBound /\ [Next]_vars => RetryBound'
<1> SUFFICES ASSUME TypeOK, LockOwned, RetryBound, [Next]_vars PROVE RetryBound'
  OBVIOUS
<1>t. /\ in_flight \in [Keys -> InFlight \cup {Untracked}]
      /\ main_queue \in Seq(Message) /\ dlq \in Seq(Message)
      /\ Untracked.msg.retry_count <= MaxRetries
      /\ NoMessage.retry_count <= MaxRetries
  BY SMTT(40), RetriesNat DEF TypeOK, Untracked, NoMessage
<1>1. ASSUME NEW k \in Keys, Tracked(k), requeue_or_dlq(k), Erase(k), popped' = popped
      PROVE  RetryBound'
  <2>1. PICK n \in Message :
           /\ n.retry_count <= MaxRetries
           /\ \/ Range(main_queue') = Range(main_queue) \cup {n} /\ dlq' = dlq
              \/ Range(dlq') = Range(dlq) \cup {n} /\ main_queue' = main_queue
    BY <1>1, RequeueRange
  <2>2. \A q \in Keys : in_flight'[q].msg.retry_count <= MaxRetries
    BY <1>1, <1>t DEF Erase, RetryBound
  <2> QED BY SMTT(40), <1>1, <2>1, <2>2 DEF RetryBound
<1>2. ASSUME UNCHANGED <<in_flight, main_queue, dlq, popped>> PROVE RetryBound'
  BY <1>2 DEF RetryBound
<1>3. ASSUME NEW i \in MsgIds, NEW c \in Clients, Ack(i, c) PROVE RetryBound'
  <2>1. \A q \in Keys : in_flight'[q].msg.retry_count <= MaxRetries
    BY <1>3, <1>t DEF Ack, Erase, RetryBound
  <2> QED BY <1>3, <2>1 DEF Ack, queueVars, RetryBound
<1>4. ASSUME NEW i \in MsgIds, NEW c \in Clients, NackLock(i, c) PROVE RetryBound'
  BY <1>2, <1>4 DEF NackLock, queueVars
<1>5. ASSUME NEW c \in Clients, NackPush(c) PROVE RetryBound'
  <2>1. <<nacking[c], c>> \in Keys /\ Tracked(<<nacking[c], c>>)
    BY <1>5 DEF NackPush, TypeOK, LockOwned, Keys
  <2> QED BY <1>1, <1>5, <2>1 DEF NackPush
<1>6. ASSUME NEW c \in Clients, GoneStep(c) PROVE RetryBound'
  <2>1. PICK i \in TrackedBy(c) : requeue_or_dlq(<<i, c>>) /\ Erase(<<i, c>>)
    BY <1>6 DEF GoneStep
  <2>2. <<i, c>> \in Keys /\ Tracked(<<i, c>>)
    BY <2>1 DEF TrackedBy, Keys
  <2> QED BY <1>1, <1>6, <2>1, <2>2 DEF GoneStep
<1>7. ASSUME NEW c \in Clients, GoneLock(c) \/ GoneEnd(c) PROVE RetryBound'
  BY SMTT(40), <1>2, <1>7 DEF GoneLock, GoneEnd, queueVars
<1>8. CASE ScanStamp \/ ScanLock \/ ScanEnd \/ Tick \/ UNCHANGED vars
  BY <1>2, <1>8 DEF ScanStamp, ScanLock, ScanEnd, Tick, vars, queueVars, engineVars
<1>9. CASE ScanPop
  <2>1. PICK e \in deadlines :
           IF Expires(e) THEN requeue_or_dlq(e.key) /\ Erase(e.key)
                         ELSE UNCHANGED <<in_flight, main_queue, dlq>>
    BY <1>9 DEF ScanPop
  <2>2. e.key \in Keys /\ popped' = popped
    BY SMTT(40), <1>9 DEF TypeOK, ScanPop
  <2> QED BY <1>1, <1>2, <2>1, <2>2 DEF Expires
<1>10. CASE Track
  <2>1. \A q \in Keys : in_flight'[q].msg.retry_count <= MaxRetries
    BY SMTT(40), <1>10, <1>t DEF Track, RetryBound
  <2> QED BY <1>10, <1>t, <2>1 DEF Track, RetryBound
<1>p. CASE Pop
  <2>1. Range(main_queue) = {Head(main_queue)} \cup Range(Tail(main_queue))
    BY <1>p, <1>t, RangeHeadTail DEF Pop
  <2> QED BY <1>p, <1>t, <2>1 DEF Pop, engineVars, RetryBound
<1>11. ASSUME NEW ts \in Routes, Route(ts) PROVE RetryBound'
  BY <1>11, <1>t DEF Route, engineVars, RetryBound
<1>12. CASE BuryDead
  <2>1. Range(dlq) = {Head(dlq)} \cup Range(Tail(dlq))
    BY SMTT(40), <1>12, <1>t, RangeHeadTail DEF BuryDead
  <2> QED BY <1>12, <2>1 DEF BuryDead, engineVars, RetryBound
<1>13. ASSUME NEW i \in MsgIds, Publish(i) PROVE RetryBound'
  <2> DEFINE m == [msg_id |-> i, dead |-> 0, retry_count |-> 0]
  <2>1. m \in Message /\ m.retry_count <= MaxRetries
    BY SMTT(40), RetriesNat DEF Message
  <2>2. Range(main_queue') = Range(main_queue) \cup {m}
    BY <1>13, <1>t, <2>1, RangeAppend DEF Publish
  <2> QED BY <1>13, <2>1, <2>2 DEF Publish, engineVars, RetryBound
<1> QED
  BY <1>3, <1>4, <1>5, <1>6, <1>7, <1>8, <1>9, <1>10, <1>p, <1>11, <1>12, <1>13, NextCases

\* The retry budget of requeue_or_dlq holds everywhere and always.
THEOREM RetryBudget == Spec => []RetryBound
<1>1. Init => RetryBound
  <2> SUFFICES ASSUME Init PROVE RetryBound
    OBVIOUS
  <2>1. Range(main_queue) = {} /\ Range(dlq) = {}
    BY SMTT(40) DEF Init, Range
  <2> QED BY <2>1, RetriesNat DEF Init, RetryBound, Untracked, NoMessage
<1> QED BY <1>1, RetryStep, TypeCorrect, LockDiscipline, PTL DEF Spec

\* A delivery is filed under its own message's id.
KeyMatches == \A k \in Keys : Tracked(k) => in_flight[k].msg.msg_id = k[1]

\* track files under popped.msg_id, and nothing else adds an entry.
LEMMA KeyStep == TypeOK /\ KeyMatches /\ [Next]_vars => KeyMatches'
<1> SUFFICES ASSUME TypeOK, KeyMatches, [Next]_vars, NEW k \in Keys, Tracked(k)'
             PROVE  in_flight'[k].msg.msg_id = k[1]
  BY DEF KeyMatches
<1>1. in_flight \in [Keys -> InFlight \cup {Untracked}]
  BY DEF TypeOK
<1>2. ASSUME NEW q, Erase(q) PROVE in_flight'[k].msg.msg_id = k[1]
  BY <1>1, <1>2 DEF Erase, KeyMatches, Tracked
<1>3. ASSUME UNCHANGED in_flight PROVE in_flight'[k].msg.msg_id = k[1]
  BY <1>3 DEF KeyMatches, Tracked
<1>4. CASE Track
  BY <1>1, <1>4 DEF Track, KeyMatches, Tracked
<1> QED
  BY Zenon, <1>2, <1>3, <1>4, NextCases
  DEF Ack, NackLock, NackPush, GoneLock, GoneStep, GoneEnd, ScanStamp, ScanLock,
      ScanPop, ScanEnd, Pop, Route, BuryDead, Tick, Publish, engineVars, vars

\* Popping and routing lose no message: it is with the dispatcher, or settled.
LEMMA PopHolds == ASSUME TypeOK, Pop, NEW i \in MsgIds, Held(i) PROVE Held(i)'
<1>1. Range(main_queue) = {Head(main_queue)} \cup Range(Tail(main_queue))
  BY RangeHeadTail DEF Pop, TypeOK
<1>2. /\ main_queue' = Tail(main_queue) /\ dlq' = dlq /\ in_flight' = in_flight
      /\ popped = NoMessage /\ popped' = Head(main_queue)
  BY DEF Pop, engineVars
<1>3. popped.msg_id # i
  BY <1>2, IdsPositive DEF NoMessage
<1> QED BY <1>1, <1>2, <1>3 DEF Held, Tracked

\* Routing lets go of it only when there is nobody to send it to.
LEMMA RouteHolds ==
    ASSUME NEW ts, Route(ts), NEW i \in MsgIds, Held(i), i \notin settled'
    PROVE  Held(i)'
<1>1. main_queue' = main_queue /\ dlq' = dlq /\ in_flight' = in_flight
  BY DEF Route, engineVars
<1>2. popped' = popped \/ popped.msg_id # i
  BY DEF Route
<1> QED BY <1>1, <1>2 DEF Held, Tracked

\* No step drops the last copy of an unsettled message.
LEMMA HeldStep ==
    ASSUME TypeOK, LockOwned, KeyMatches, [Next]_vars,
           NEW i \in MsgIds, Held(i), i \notin settled'
    PROVE  Held(i)'
<1>t. /\ in_flight \in [Keys -> InFlight \cup {Untracked}]
      /\ main_queue \in Seq(Message) /\ dlq \in Seq(Message)
  BY SMTT(40) DEF TypeOK
<1>h. Held(i)
  OBVIOUS
\* A failed delivery lives on as the copy that requeue_or_dlq queued.
<1>1. ASSUME NEW k \in Keys, Tracked(k), requeue_or_dlq(k), Erase(k),
             popped' = popped
      PROVE  Held(i)'
  <2>1. PICK n \in Message :
           /\ n.msg_id = k[1]
           /\ \/ Range(main_queue') = Range(main_queue) \cup {n} /\ dlq' = dlq
              \/ Range(dlq') = Range(dlq) \cup {n} /\ main_queue' = main_queue
    <3>1. in_flight[k].msg.msg_id = k[1]
      BY <1>1, Zenon DEF KeyMatches
    <3> QED BY <1>1, <3>1, RequeueRange, Zenon
  <2>2. CASE i = k[1]
    BY <2>1, <2>2, Zenon DEF Held
  <2>3. CASE i # k[1]
    <3>1. \A c \in Clients : Tracked(<<i, c>>) => Tracked(<<i, c>>)'
      BY <1>1, <1>t, <2>3 DEF Erase, Tracked, Keys
    <3> QED BY <1>1, <1>h, <2>1, <3>1, Zenon DEF Held
  <2> QED BY <2>2, <2>3
<1>2. ASSUME UNCHANGED <<in_flight, main_queue, dlq, popped>> PROVE Held(i)'
  BY <1>2, <1>h, Zenon DEF Held, Tracked
<1>3. ASSUME NEW j \in MsgIds, NEW c \in Clients, Ack(j, c) PROVE Held(i)'
  <2>1. main_queue' = main_queue /\ dlq' = dlq /\ popped' = popped
    BY <1>3 DEF Ack, queueVars
  <2>2. CASE Tracked(<<j, c>>)
    <3>1. i # j
      BY <1>3, <2>2 DEF Ack
    <3>2. \A d \in Clients : Tracked(<<i, d>>) => Tracked(<<i, d>>)'
      BY <1>3, <1>t, <3>1 DEF Ack, Erase, Tracked, Keys
    <3> QED BY <1>h, <2>1, <3>2, Zenon DEF Held
  <2>3. CASE ~Tracked(<<j, c>>)
    <3>1. in_flight' = in_flight
      BY <1>3, <1>t, <2>3 DEF Ack, Erase, Tracked, Keys
    <3> QED BY <1>h, <2>1, <3>1, Zenon DEF Held, Tracked
  <2> QED BY <2>2, <2>3
<1>4. ASSUME NEW j \in MsgIds, NEW c \in Clients, NackLock(j, c) PROVE Held(i)'
  BY <1>2, <1>4 DEF NackLock, queueVars, history
<1>5. ASSUME NEW c \in Clients, NackPush(c) PROVE Held(i)'
  <2>1. <<nacking[c], c>> \in Keys /\ Tracked(<<nacking[c], c>>)
    BY <1>5 DEF NackPush, TypeOK, LockOwned, Keys
  <2> QED BY <1>1, <1>5, <2>1 DEF NackPush, history
<1>6. ASSUME NEW c \in Clients, GoneStep(c) PROVE Held(i)'
  <2>1. PICK j \in TrackedBy(c) : requeue_or_dlq(<<j, c>>) /\ Erase(<<j, c>>)
    BY <1>6 DEF GoneStep
  <2>2. <<j, c>> \in Keys /\ Tracked(<<j, c>>)
    BY <2>1 DEF TrackedBy, Keys
  <2> QED BY <1>1, <1>6, <2>1, <2>2 DEF GoneStep, history
<1>7. ASSUME NEW c \in Clients, GoneLock(c) \/ GoneEnd(c) PROVE Held(i)'
  BY <1>2, <1>7, Zenon DEF GoneLock, GoneEnd, queueVars, history
<1>8. CASE ScanStamp \/ ScanLock \/ ScanEnd \/ Tick \/ UNCHANGED vars
  BY <1>2, <1>8, Zenon
  DEF ScanStamp, ScanLock, ScanEnd, Tick, vars, queueVars, engineVars, history
<1>9. CASE ScanPop
  <2>1. PICK e \in deadlines :
           IF Expires(e) THEN requeue_or_dlq(e.key) /\ Erase(e.key)
                         ELSE UNCHANGED <<in_flight, main_queue, dlq>>
    BY <1>9 DEF ScanPop
  <2>2. e.key \in Keys /\ popped' = popped
    BY <1>9 DEF TypeOK, ScanPop
  <2> QED BY <1>1, <1>2, <2>1, <2>2 DEF Expires
<1>10. CASE Track
  <2> DEFINE q == <<popped.msg_id, Head(targets)>>
  <2>1. popped \in Message /\ Head(targets) \in Clients /\ now + AckTimeout \in Nat
    BY <1>10, RetriesNat DEF Track, TypeOK
  <2>2. q \in Keys /\ popped.msg_id \in MsgIds
    BY SMTT(40), <2>1 DEF Keys, Message
  <2>3. in_flight'[q] = [msg |-> popped, deadline |-> now + AckTimeout]
        /\ \A k \in Keys : k # q => in_flight'[k] = in_flight[k]
    BY SMTT(40), <1>10, <1>t, <2>2 DEF Track
  <2>4. in_flight'[q] # Untracked
    BY SMTT(40), <2>1, <2>3, NullsDistinct DEF Untracked, InFlight
  <2>5. CASE i = popped.msg_id
    BY ZenonT(40), <2>1, <2>4, <2>5 DEF Held, Tracked
  <2>6. CASE i # popped.msg_id
    <3>1. \A c \in Clients : Tracked(<<i, c>>) => Tracked(<<i, c>>)'
      BY <1>10, <1>t, <2>3, <2>6 DEF Tracked, Keys, Track, history
    <3> QED BY Zenon, <1>10, <1>h, <2>6, <3>1 DEF Held, Track, history
  <2> QED BY SMTT(40), <2>5, <2>6
<1>p. CASE Pop
  BY <1>p, PopHolds
<1>11. ASSUME NEW ts \in Routes, Route(ts) PROVE Held(i)'
  BY <1>11, RouteHolds
<1>12. CASE BuryDead
  <2>1. Range(dlq) = {Head(dlq)} \cup Range(Tail(dlq))
    BY <1>12, <1>t, RangeHeadTail DEF BuryDead
  <2>2. i # Head(dlq).msg_id
    BY <1>12, Zenon DEF BuryDead
  <2>3. UNCHANGED <<in_flight, main_queue, popped>> /\ dlq' = Tail(dlq)
    BY <1>12, Zenon DEF BuryDead, engineVars
  <2> QED BY <1>h, <2>1, <2>2, <2>3, Zenon DEF Held, Tracked
<1>13. ASSUME NEW j \in MsgIds, Publish(j) PROVE Held(i)'
  <2> DEFINE m == [msg_id |-> j, dead |-> 0, retry_count |-> 0]
  <2>1. m \in Message /\ m.msg_id = j
    BY DEF Message
  <2>2. Range(main_queue') = Range(main_queue) \cup {m}
    BY <1>13, <1>t, <2>1, RangeAppend DEF Publish
  <2>3. UNCHANGED <<in_flight, dlq, popped>>
    BY <1>13, Zenon DEF Publish, engineVars
  <2> HIDE DEF m
  <2> QED BY <1>h, <2>2, <2>3, Zenon DEF Held, Tracked
<1> QED
  BY <1>3, <1>4, <1>5, <1>6, <1>7, <1>8, <1>9, <1>10, <1>p, <1>11, <1>12, <1>13, NextCases

\* What is published is held at once, and then held on to.
LEMMA LossStep ==
    TypeOK /\ LockOwned /\ KeyMatches /\ NoSilentLoss /\ [Next]_vars => NoSilentLoss'
<1> SUFFICES ASSUME TypeOK, LockOwned, KeyMatches, NoSilentLoss, [Next]_vars,
                    NEW i \in published', i \notin settled'
             PROVE  Held(i)'
  BY DEF NoSilentLoss
<1>1. Next => settled \subseteq settled'
  BY Zenon, NextCases
  DEF Ack, NackLock, NackPush, GoneLock, GoneStep, GoneEnd, ScanStamp, ScanLock,
      ScanPop, ScanEnd, Track, Pop, Route, BuryDead, Tick, Publish, engineVars, history
<1>2. CASE i \in published
  <2>1. Held(i) /\ i \in MsgIds
    BY <1>1, <1>2 DEF NoSilentLoss, vars, history, TypeOK
  <2> QED BY <2>1, HeldStep
<1>3. CASE i \notin published
  <2>1. PICK j \in MsgIds : Publish(j)
    BY Zenon, <1>3, NextCases
    DEF Ack, NackLock, NackPush, GoneLock, GoneStep, GoneEnd, ScanStamp, ScanLock,
        ScanPop, ScanEnd, Track, Pop, Route, BuryDead, Tick, engineVars, history, vars
  <2> DEFINE m == [msg_id |-> j, dead |-> 0, retry_count |-> 0]
  <2>2. m \in Message /\ m.msg_id = j /\ i = j
    BY <1>3, <2>1 DEF Message, Publish
  <2>3. Range(main_queue') = Range(main_queue) \cup {m}
    BY <2>1, <2>2, RangeAppend DEF Publish, TypeOK
  <2> QED BY <2>2, <2>3 DEF Held
<1> QED BY <1>2, <1>3

\* At-least-once inside the broker: a published message is in a queue, with
\* the dispatcher or in flight until it is acked, dead-lettered or dropped
\* for want of a subscriber.
THEOREM AtLeastOnce == Spec => []NoSilentLoss
<1>1. Init => NoSilentLoss /\ KeyMatches
  BY DEF Init, NoSilentLoss, KeyMatches, Tracked
<1> QED
  BY <1>1, LossStep, KeyStep, TypeCorrect, LockDiscipline, PTL DEF Spec
==============================================================================
