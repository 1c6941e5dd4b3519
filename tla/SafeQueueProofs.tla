--------------------------- MODULE SafeQueueProofs ---------------------------
(***************************************************************************)
(* SafeQueue for any number of threads and any capacity: type correctness, *)
(* the capacity bound, the absence of lost wake-ups and of standoffs, and  *)
(* that every step is a step of the atomic FIFO buffer, or none.           *)
(***************************************************************************)
EXTENDS SafeQueue, FiniteSetTheorems, TLAPS

\* Every step of push, pop and try_pop_for keeps the types; in particular
\* only a thread in try_pop_for ever sees a deadline pass.
LEMMA TypeStep == TypeOK /\ [Next]_vars => TypeOK'
<1> SUFFICES ASSUME TypeOK, [Next]_vars PROVE TypeOK'
  OBVIOUS
<1> USE DEF TypeOK, PcValues
<1>0. Producers \subseteq Threads /\ Consumers \subseteq Threads
      /\ TryPoppers \subseteq Consumers
  BY DEF Threads, Consumers
<1>1. ASSUME NEW p \in Producers, Push(p), NotFull PROVE TypeOK'
  <2>1. <<p, sent[p] + 1>> \in Items /\ sent[p] + 1 \in 0..MaxItems
    BY <1>1, MaxItemsNat DEF Push, Items
  <2>2. queue_' = Append(queue_, <<p, sent[p] + 1>>)
        /\ sent' = [sent EXCEPT ![p] = sent[p] + 1]
    BY <1>1 DEF Push
  <2>3. queue_' \in Seq(Items)
    BY <2>1, <2>2
  <2>4. sent' \in [Producers -> 0..MaxItems]
    BY <2>1, <2>2
  <2> QED BY <1>1, <2>3, <2>4, <1>0 DEF Push
<1>2. ASSUME NEW p \in Producers, Push(p), ~NotFull PROVE TypeOK'
  BY <1>2, <1>0 DEF Push
<1>3. ASSUME NEW t \in Threads, NEW S \in SUBSET Threads, NotifyOne(t, S)
      PROVE  TypeOK'
  <2>1. pc' \in [Threads -> PcValues]
    BY <1>3 DEF NotifyOne, Asleep
  <2> QED BY <1>3, <2>1 DEF NotifyOne
<1>4. ASSUME NEW c \in Consumers, Take(c) PROVE TypeOK'
  <2>1. Head(queue_) \in Items /\ queue_' \in Seq(Items)
    BY <1>4 DEF Take, NotEmpty
  <2> QED BY <1>4, <1>0, <2>1 DEF Take
<1>5. ASSUME NEW c \in Consumers, Sleep(c) PROVE TypeOK'
  BY <1>5, <1>0 DEF Sleep
<1>6. ASSUME NEW c \in TryPoppers, Timeout(c) \/ GiveUp(c) PROVE TypeOK'
  BY Zenon, <1>6, <1>0 DEF Timeout, GiveUp
<1>7. ASSUME NEW t \in Threads, SpuriousWakeup(t) PROVE TypeOK'
  BY <1>7 DEF SpuriousWakeup
<1>8. CASE UNCHANGED vars
  BY <1>8 DEF vars
<1> QED
  BY <1>0, <1>1, <1>2, <1>3, <1>4, <1>5, <1>6, <1>7, <1>8
  DEF Next, NotifyNotEmpty, NotifyNotFull

\* Queue and thread state of SafeQueue keep their types.
THEOREM TypeCorrect == Spec => []TypeOK
<1>1. Init => TypeOK
  BY MaxItemsNat DEF Init, TypeOK, PcValues
<1> QED BY <1>1, TypeStep, PTL DEF Spec

\* The four groups of threads that NoLostWakeup counts are finite, so their
\* sizes are natural numbers and change by one when a thread enters or leaves.
LEMMA GroupsFinite ==
    /\ IsFiniteSet(AwakeConsumers) /\ Cardinality(AwakeConsumers) \in Nat
    /\ IsFiniteSet(AwakeProducers) /\ Cardinality(AwakeProducers) \in Nat
    /\ IsFiniteSet(PendingNotEmpty) /\ Cardinality(PendingNotEmpty) \in Nat
    /\ IsFiniteSet(PendingNotFull) /\ Cardinality(PendingNotFull) \in Nat
<1>1. \A S : IsFiniteSet(S) => \A T \in SUBSET S :
         IsFiniteSet(T) /\ Cardinality(T) \in Nat
  BY FS_Subset, FS_CardinalityType
<1>2. /\ AwakeConsumers \in SUBSET Consumers
      /\ PendingNotFull \in SUBSET Consumers
      /\ AwakeProducers \in SUBSET Producers
      /\ PendingNotEmpty \in SUBSET Producers
  BY DEF AwakeConsumers, AwakeProducers, PendingNotEmpty, PendingNotFull
<1> QED BY <1>1, <1>2, ThreadsFinite

\* One thread more or less in a group, as the steps below use it.
LEMMA OneMore ==
    ASSUME NEW S, NEW x, IsFiniteSet(S)
    PROVE  /\ Cardinality(S \cup {x}) \in Nat
           /\ Cardinality(S \cup {x}) >= Cardinality(S)
           /\ x \notin S => Cardinality(S \cup {x}) = Cardinality(S) + 1
<1>1. Cardinality(S) \in Nat
  BY FS_CardinalityType
<1>2. Cardinality(S \cup {x}) = IF x \in S THEN Cardinality(S)
                                         ELSE Cardinality(S) + 1
  BY FS_AddElement
<1> QED BY <1>1, <1>2

\* A set that loses an element, a woken thread, is smaller by one.
LEMMA OneLess ==
    ASSUME NEW S, NEW x, IsFiniteSet(S)
    PROVE  /\ Cardinality(S \ {x}) \in Nat
           /\ Cardinality(S \ {x}) >= Cardinality(S) - 1
           /\ x \in S => Cardinality(S \ {x}) = Cardinality(S) - 1
<1>1. Cardinality(S) \in Nat /\ Cardinality(S \ {x}) \in Nat
  BY FS_CardinalityType, FS_RemoveElement
<1>2. Cardinality(S \ {x}) = IF x \in S THEN Cardinality(S) - 1
                                        ELSE Cardinality(S)
  BY FS_RemoveElement
<1> QED BY <1>1, <1>2

\* Capacity bound: a producer enters an item only where NotFull holds under mu_.
LEMMA CapacityStep == TypeOK /\ WithinCapacity /\ [Next]_vars => WithinCapacity'
<1> SUFFICES ASSUME TypeOK, WithinCapacity, [Next]_vars PROVE WithinCapacity'
  OBVIOUS
<1>0. queue_ \in Seq(Items) /\ Len(queue_) \in Nat
  BY DEF TypeOK
<1> USE CapacityPositive DEF WithinCapacity
<1>1. ASSUME NEW p \in Producers, Push(p) PROVE WithinCapacity'
  <2>1. CASE NotFull
    <3>1. Len(queue_') = Len(queue_) + 1
      BY <1>0, <1>1, <2>1 DEF Push
    <3> QED BY <3>1, <2>1, <1>0 DEF NotFull
  <2>2. CASE ~NotFull
    BY <1>1, <2>2 DEF Push
  <2> QED BY <2>1, <2>2
<1>2. ASSUME NEW c \in Consumers, Take(c) PROVE WithinCapacity'
  <2>1. Len(queue_') = Len(queue_) - 1
    BY <1>0, <1>2 DEF Take, NotEmpty
  <2> QED BY <2>1, <1>0
<1>3. ASSUME UNCHANGED queue_ PROVE WithinCapacity'
  BY <1>3
<1> QED
  BY <1>1, <1>2, <1>3
  DEF Next, NotifyNotEmpty, NotifyNotFull, NotifyOne, Sleep, Timeout, GiveUp,
      SpuriousWakeup, vars

\* The backpressure bound of SafeQueue::push, for every capacity.
THEOREM CapacityRespected == Spec => []WithinCapacity
<1>1. Init => WithinCapacity
  BY CapacityPositive DEF Init, WithinCapacity
<1> QED BY <1>1, CapacityStep, TypeCorrect, PTL DEF Spec

\* No notification is lost: each step that puts an item in also leaves a
\* notify_one to be made, each notify_one wakes a sleeper if there is one, and
\* an awake thread uses up the item or place that woke it.
LEMMA WakeupStep ==
    TypeOK /\ WithinCapacity /\ NoLostWakeup /\ [Next]_vars => NoLostWakeup'
<1> SUFFICES ASSUME TypeOK, WithinCapacity, NoLostWakeup, [Next]_vars
             PROVE  NoLostWakeup'
  OBVIOUS
<1> DEFINE AC == AwakeConsumers   AP == AwakeProducers
           NE == PendingNotEmpty  NF == PendingNotFull
<1> USE CapacityPositive, RolesDisjoint
<1>t. /\ queue_ \in Seq(Items) /\ Len(queue_) \in Nat
      /\ pc \in [Threads -> PcValues]
      /\ Producers \subseteq Threads /\ Consumers \subseteq Threads
      /\ TryPoppers \subseteq Consumers
      /\ Len(queue_) <= Capacity
  BY DEF TypeOK, Threads, Consumers, WithinCapacity
<1>n. /\ Cardinality(AC) \in Nat /\ Cardinality(AP) \in Nat
      /\ Cardinality(NE) \in Nat /\ Cardinality(NF) \in Nat
      /\ Len(queue_) \in Nat /\ Capacity \in Nat /\ Len(queue_) <= Capacity
  BY <1>t, GroupsFinite
<1>c. Asleep(Consumers) # {} => Len(queue_) <= Cardinality(AC) + Cardinality(NE)
  BY Zenon DEF NoLostWakeup
<1>p. Asleep(Producers) # {} => Capacity - Len(queue_) <= Cardinality(AP) + Cardinality(NF)
  BY Zenon DEF NoLostWakeup
<1>1. ASSUME NEW p \in Producers, Push(p), NotFull PROVE NoLostWakeup'
  <2>1. Len(queue_') = Len(queue_) + 1
    BY <1>1, <1>t DEF Push
  <2>2. pc[p] \in {"idle", "woken"} /\ pc' = [pc EXCEPT ![p] = "notify"]
    BY <1>1 DEF Push
  <2>3. AC' = AC /\ NF' = NF /\ NE' = NE \cup {p} /\ p \notin NE
        /\ AP' = AP \ {p}
    BY <2>2, <1>t
    DEF AwakeConsumers, PendingNotFull, PendingNotEmpty, AwakeProducers
  <2>4. Asleep(Consumers)' = Asleep(Consumers)
        /\ Asleep(Producers)' = Asleep(Producers)
    BY <2>2, <1>t DEF Asleep
  <2>5. Cardinality(NE') = Cardinality(NE) + 1
        /\ Cardinality(AP') >= Cardinality(AP) - 1
        /\ Cardinality(AP') \in Nat
    BY Zenon, <2>3, OneMore, OneLess, GroupsFinite
  <2>6. Asleep(Consumers)' # {} =>
           Len(queue_') <= Cardinality(AC') + Cardinality(NE')
    BY <2>1, <2>3, <2>4, <2>5, <1>n, <1>c
  <2>7. Asleep(Producers)' # {} =>
           Capacity - Len(queue_') <= Cardinality(AP') + Cardinality(NF')
    BY <2>1, <2>3, <2>4, <2>5, <1>n, <1>p
  <2> QED BY Zenon, <2>6, <2>7 DEF NoLostWakeup
<1>2. ASSUME NEW p \in Producers, Push(p), ~NotFull PROVE NoLostWakeup'
  <2>2. /\ pc[p] \in {"idle", "woken"} /\ pc' = [pc EXCEPT ![p] = "asleep"]
        /\ queue_' = queue_ /\ Len(queue_) = Capacity
    BY <1>2, <1>t DEF Push, NotFull
  <2>3. AC' = AC /\ NF' = NF /\ NE' = NE /\ AP' = AP \ {p}
    BY <2>2, <1>t
    DEF AwakeConsumers, PendingNotFull, PendingNotEmpty, AwakeProducers
  <2>4. Asleep(Consumers)' = Asleep(Consumers)
    BY <2>2, <1>t DEF Asleep
  <2>5. Cardinality(AP') \in Nat
    BY Zenon, <2>3, OneLess, GroupsFinite
  <2>6. Asleep(Consumers)' # {} =>
           Len(queue_') <= Cardinality(AC') + Cardinality(NE')
    BY <2>2, <2>3, <2>4, <1>n, <1>c
  <2>7. Capacity - Len(queue_') <= Cardinality(AP') + Cardinality(NF')
    BY <2>2, <2>3, <2>5, <1>n
  <2> QED BY Zenon, <2>6, <2>7 DEF NoLostWakeup
<1>3. ASSUME NEW p \in Producers, NotifyOne(p, Consumers) PROVE NoLostWakeup'
  <2>1. pc[p] = "notify" /\ queue_' = queue_
    BY <1>3 DEF NotifyOne
  <2>2. CASE Asleep(Consumers) = {}
    <3>1. pc' = [pc EXCEPT ![p] = "idle"]
      BY <1>3, <2>2 DEF NotifyOne
    <3>2. AP' = AP /\ NF' = NF /\ Asleep(Consumers)' = {}
          /\ Asleep(Producers)' = Asleep(Producers)
      BY <3>1, <2>1, <2>2, <1>t DEF AwakeProducers, PendingNotFull, Asleep
    <3> QED BY <3>2, <2>1 DEF NoLostWakeup
  <2>3. CASE Asleep(Consumers) # {}
    <3>1. PICK w \in Asleep(Consumers) :
             pc' = [pc EXCEPT ![p] = "idle", ![w] = "woken"]
      BY <1>3, <2>3 DEF NotifyOne
    <3>2. w \in Consumers /\ pc[w] = "asleep" /\ w # p
      BY <3>1, <2>1 DEF Asleep
    <3>3. AP' = AP /\ NF' = NF /\ NE' = NE \ {p} /\ p \in NE
          /\ AC' = AC \cup {w} /\ w \notin AC
      BY <3>1, <3>2, <2>1, <1>t
      DEF AwakeConsumers, PendingNotFull, PendingNotEmpty, AwakeProducers
    <3>4. Asleep(Producers)' = Asleep(Producers)
      BY <3>1, <3>2, <2>1, <1>t DEF Asleep
    <3>5. Cardinality(NE') = Cardinality(NE) - 1
          /\ Cardinality(AC') = Cardinality(AC) + 1
      BY Zenon, <3>3, OneMore, OneLess, GroupsFinite
    <3> QED BY <3>3, <3>4, <3>5, <2>1, <2>3, <1>n, <1>c, <1>p DEF NoLostWakeup
  <2> QED BY <2>2, <2>3
<1>4. ASSUME NEW c \in Consumers, Take(c) PROVE NoLostWakeup'
  <2>1. Len(queue_') = Len(queue_) - 1
    BY <1>4, <1>t DEF Take, NotEmpty
  <2>2. /\ pc[c] \in {"idle", "woken", "expired"}
        /\ pc' = [pc EXCEPT ![c] = "notify"]
    BY <1>4 DEF Take
  <2>3. AP' = AP /\ NE' = NE /\ NF' = NF \cup {c} /\ c \notin NF
        /\ AC' = AC \ {c}
    BY <2>2, <1>t
    DEF AwakeConsumers, PendingNotFull, PendingNotEmpty, AwakeProducers
  <2>4. Asleep(Consumers)' = Asleep(Consumers)
        /\ Asleep(Producers)' = Asleep(Producers)
    BY <2>2, <1>t DEF Asleep
  <2>5. Cardinality(NF') = Cardinality(NF) + 1
        /\ Cardinality(AC') >= Cardinality(AC) - 1
        /\ Cardinality(AC') \in Nat
    BY Zenon, <2>3, OneMore, OneLess, GroupsFinite
  <2>6. Asleep(Consumers)' # {} =>
           Len(queue_') <= Cardinality(AC') + Cardinality(NE')
    BY <2>1, <2>3, <2>4, <2>5, <1>n, <1>c
  <2>7. Asleep(Producers)' # {} =>
           Capacity - Len(queue_') <= Cardinality(AP') + Cardinality(NF')
    BY <2>1, <2>3, <2>4, <2>5, <1>n, <1>p
  <2> QED BY Zenon, <2>6, <2>7 DEF NoLostWakeup
<1>5. ASSUME NEW c \in Consumers, queue_ = <<>>, queue_' = queue_,
             pc[c] \in {"idle", "woken", "expired"},
             pc' = [pc EXCEPT ![c] = "asleep"] \/ pc' = [pc EXCEPT ![c] = "idle"]
      PROVE  NoLostWakeup'
  <2>3. AP' = AP /\ NE' = NE /\ NF' = NF /\ AC' = AC \ {c}
    BY <1>5, <1>t
    DEF AwakeConsumers, PendingNotFull, PendingNotEmpty, AwakeProducers
  <2>4. Asleep(Producers)' = Asleep(Producers)
    BY <1>5, <1>t DEF Asleep
  <2>5. Cardinality(AC') \in Nat
    BY Zenon, <2>3, OneLess, GroupsFinite
  <2>6. Len(queue_') <= Cardinality(AC') + Cardinality(NE')
    <3>1. Len(queue_') = 0
      BY <1>5
    <3> QED BY <2>3, <2>5, <3>1, <1>n
  <2>7. Asleep(Producers)' # {} =>
           Capacity - Len(queue_') <= Cardinality(AP') + Cardinality(NF')
    BY <2>3, <2>4, <1>5, <1>n, <1>p
  <2> QED BY Zenon, <2>6, <2>7 DEF NoLostWakeup
<1>6. ASSUME NEW c \in Consumers, NotifyOne(c, Producers) PROVE NoLostWakeup'
  <2>1. pc[c] = "notify" /\ queue_' = queue_
    BY <1>6 DEF NotifyOne
  <2>2. CASE Asleep(Producers) = {}
    <3>1. pc' = [pc EXCEPT ![c] = "idle"]
      BY <1>6, <2>2 DEF NotifyOne
    <3>2. AC' = AC /\ NE' = NE /\ Asleep(Producers)' = {}
          /\ Asleep(Consumers)' = Asleep(Consumers)
      BY <3>1, <2>1, <2>2, <1>t DEF AwakeConsumers, PendingNotEmpty, Asleep
    <3> QED BY <3>2, <2>1 DEF NoLostWakeup
  <2>3. CASE Asleep(Producers) # {}
    <3>1. PICK w \in Asleep(Producers) :
             pc' = [pc EXCEPT ![c] = "idle", ![w] = "woken"]
      BY <1>6, <2>3 DEF NotifyOne
    <3>2. w \in Producers /\ pc[w] = "asleep" /\ w # c
      BY <3>1, <2>1 DEF Asleep
    <3>3. AC' = AC /\ NE' = NE /\ NF' = NF \ {c} /\ c \in NF
          /\ AP' = AP \cup {w} /\ w \notin AP
      BY <3>1, <3>2, <2>1, <1>t
      DEF AwakeConsumers, PendingNotFull, PendingNotEmpty, AwakeProducers
    <3>4. Asleep(Consumers)' = Asleep(Consumers)
      BY <3>1, <3>2, <2>1, <1>t DEF Asleep
    <3>5. Cardinality(NF') = Cardinality(NF) - 1
          /\ Cardinality(AP') = Cardinality(AP) + 1
      BY Zenon, <3>3, OneMore, OneLess, GroupsFinite
    <3> QED BY <3>3, <3>4, <3>5, <2>1, <2>3, <1>n, <1>c, <1>p DEF NoLostWakeup
  <2> QED BY <2>2, <2>3
<1>7. ASSUME NEW t \in Threads, pc[t] = "asleep", queue_' = queue_,
             \/ pc' = [pc EXCEPT ![t] = "woken"]
             \/ t \in Consumers /\ pc' = [pc EXCEPT ![t] = "expired"]
      PROVE  NoLostWakeup'
  <2>1. NE' = NE /\ NF' = NF /\ (AC' = AC \/ AC' = AC \cup {t})
        /\ (AP' = AP \/ AP' = AP \cup {t})
    BY <1>7, <1>t
    DEF AwakeConsumers, PendingNotFull, PendingNotEmpty, AwakeProducers
  <2>2. Asleep(Consumers)' \subseteq Asleep(Consumers)
        /\ Asleep(Producers)' \subseteq Asleep(Producers)
    BY <1>7, <1>t DEF Asleep
  <2>3. Cardinality(AC') >= Cardinality(AC) /\ Cardinality(AC') \in Nat
    <3>1. CASE AC' = AC
      BY <3>1, <1>n
    <3>2. CASE AC' = AC \cup {t}
      BY Zenon, <3>2, OneMore, GroupsFinite
    <3> QED BY Zenon, <2>1, <3>1, <3>2
  <2>4. Cardinality(AP') >= Cardinality(AP) /\ Cardinality(AP') \in Nat
    <3>1. CASE AP' = AP
      BY <3>1, <1>n
    <3>2. CASE AP' = AP \cup {t}
      BY Zenon, <3>2, OneMore, GroupsFinite
    <3> QED BY Zenon, <2>1, <3>1, <3>2
  <2>5. Asleep(Consumers)' # {} =>
           Len(queue_') <= Cardinality(AC') + Cardinality(NE')
    BY <2>1, <2>2, <2>3, <1>7, <1>n, <1>c
  <2>6. Asleep(Producers)' # {} =>
           Capacity - Len(queue_') <= Cardinality(AP') + Cardinality(NF')
    BY <2>1, <2>2, <2>4, <1>7, <1>n, <1>p
  <2> QED BY Zenon, <2>5, <2>6 DEF NoLostWakeup
<1>8. CASE UNCHANGED vars
  BY <1>8 DEF vars, NoLostWakeup, AwakeConsumers, AwakeProducers,
              PendingNotEmpty, PendingNotFull, Asleep
<1>9. ASSUME NEW c \in Consumers, Sleep(c) \/ GiveUp(c) PROVE NoLostWakeup'
  BY <1>9, <1>5 DEF Sleep, GiveUp, NotEmpty
<1>10. ASSUME NEW t \in Threads, SpuriousWakeup(t) \/ (t \in TryPoppers /\ Timeout(t))
       PROVE NoLostWakeup'
  BY <1>10, <1>7, <1>t DEF SpuriousWakeup, Timeout
<1> QED
  BY <1>1, <1>2, <1>3, <1>4, <1>6, <1>8, <1>9, <1>10, <1>t
  DEF Next, NotifyNotEmpty, NotifyNotFull

\* No wake-up of SafeQueue is ever lost, whatever the number of threads, the
\* capacity and the choice notify_one makes.
THEOREM WakeupsKept == Spec => []NoLostWakeup
<1>1. Init => NoLostWakeup
  <2> SUFFICES ASSUME Init PROVE NoLostWakeup
    OBVIOUS
  <2>1. Asleep(Consumers) = {} /\ Asleep(Producers) = {}
    BY DEF Init, Asleep, Threads
  <2> QED BY <2>1 DEF NoLostWakeup
<1> QED BY <1>1, WakeupStep, CapacityRespected, TypeCorrect, PTL DEF Spec

\* A sleeping consumer and a sleeping producer always leave somebody awake:
\* queue_ cannot be empty and full at once.
THEOREM StandoffFree == Spec => []NoStandoff
<1>1. TypeOK /\ NoLostWakeup => NoStandoff
  <2> SUFFICES ASSUME TypeOK, NoLostWakeup,
                      Asleep(Consumers) # {}, Asleep(Producers) # {},
                      AwakeConsumers \cup AwakeProducers
                          \cup PendingNotEmpty \cup PendingNotFull = {}
               PROVE  FALSE
    BY DEF NoStandoff
  <2>1. /\ Cardinality(AwakeConsumers) = 0 /\ Cardinality(AwakeProducers) = 0
        /\ Cardinality(PendingNotEmpty) = 0 /\ Cardinality(PendingNotFull) = 0
    BY FS_EmptySet
  <2>2. Len(queue_) \in Nat
    BY DEF TypeOK
  <2> QED BY <2>1, <2>2, CapacityPositive DEF NoLostWakeup
<1> QED BY <1>1, WakeupsKept, TypeCorrect, PTL

\* SafeQueue implements the atomic bounded FIFO buffer: the critical section
\* of push is an insertion, the one of pop and try_pop_for a removal, and all
\* the sleeping, waking and notifying around them changes nothing.
THEOREM ImplementsFifo == Spec => FifoSpec
<1>1. Init => Fifo!BQInit
  BY DEF Init, Fifo!BQInit
<1>2. TypeOK /\ [Next]_vars => [Fifo!BQNext]_(Fifo!bqVars)
  <2> SUFFICES ASSUME TypeOK, [Next]_vars
               PROVE  Fifo!BQNext \/ UNCHANGED <<queue_, out>>
    BY DEF Fifo!bqVars
  <2>1. ASSUME NEW p \in Producers, Push(p), NotFull PROVE Fifo!BQNext
    <3>1. <<p, sent[p] + 1>> \in Items
      BY <2>1, MaxItemsNat DEF Push, Items, TypeOK
    <3>2. Fifo!Insert(<<p, sent[p] + 1>>)
      BY <2>1 DEF Push, NotFull, Fifo!Insert
    <3> QED BY <3>1, <3>2 DEF Fifo!BQNext
  <2>2. ASSUME NEW c \in Consumers, Take(c) PROVE Fifo!BQNext
    BY <2>2 DEF Take, NotEmpty, Fifo!Remove, Fifo!BQNext
  <2> QED
    BY <2>1, <2>2
    DEF Next, Push, NotifyNotEmpty, NotifyNotFull, NotifyOne, Sleep, Timeout,
        GiveUp, SpuriousWakeup, vars
<1> QED BY <1>1, <1>2, TypeCorrect, PTL DEF Spec, FifoSpec, Fifo!BQSpec
==============================================================================
