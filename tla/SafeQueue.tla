------------------------------ MODULE SafeQueue ------------------------------
(***************************************************************************)
(* broker/include/SafeQueue.hpp: the bounded queue between the broker's    *)
(* threads, as a monitor with one mutex and two condition variables.       *)
(*                                                                         *)
(* Every access to queue_ happens under mu_, so the stretch from acquiring *)
(* mu_ to releasing it (by unlock, or by going to sleep on a condition     *)
(* variable) is one step.  What is left to interleave is what a test       *)
(* hardly reaches: notify_one is called AFTER the unlock, it picks any     *)
(* sleeping thread, a woken thread must get mu_ back and may find that     *)
(* another thread was faster, a wait may end spuriously, and the timeout   *)
(* of try_pop_for races the notification.                                  *)
(***************************************************************************)
EXTENDS Naturals, Sequences, FiniteSets

CONSTANTS Producers,    \* threads that call push
          Poppers,      \* threads that call pop
          TryPoppers,   \* threads that call try_pop_for
          Capacity,     \* capacity_
          MaxItems      \* bound: how often each producer calls push

Consumers == Poppers \cup TryPoppers
Threads == Producers \cup Consumers

ASSUME CapacityPositive == Capacity \in Nat \ {0}
ASSUME MaxItemsNat == MaxItems \in Nat
ASSUME ThreadsFinite == IsFiniteSet(Producers) /\ IsFiniteSet(Consumers)
ASSUME RolesDisjoint == /\ Producers \cap Consumers = {}
                        /\ Poppers \cap TryPoppers = {}

\* The k-th item of producer p.
Items == Producers \X (1..MaxItems)

VARIABLES queue_,   \* queue_, front first
          pc,       \* where each thread is
          sent,     \* how many items each producer has put in queue_
          out       \* history: the items taken from queue_, in order

vars == <<queue_, pc, sent, out>>

(***************************************************************************)
(* pc[t]:                                                                  *)
(*   "idle"     not in a call (or just about to lock mu_)                  *)
(*   "asleep"   blocked on not_full_ (a producer) or not_empty_            *)
(*   "woken"    notified, or awake spuriously, and about to relock mu_     *)
(*   "expired"  the wait_for of try_pop_for timed out, about to relock mu_ *)
(*   "notify"   has unlocked mu_ and not yet called notify_one             *)
(***************************************************************************)
PcValues == {"idle", "asleep", "woken", "expired", "notify"}

\* The queue, its waiters and the threads' local state keep their shape; only
\* try_pop_for ever waits with a deadline.
TypeOK ==
    /\ queue_ \in Seq(Items)
    /\ pc \in [Threads -> PcValues]
    /\ sent \in [Producers -> 0..MaxItems]
    /\ out \in Seq(Items)
    /\ \A t \in Threads : pc[t] = "expired" => t \in TryPoppers

Init ==
    /\ queue_ = <<>>
    /\ pc = [t \in Threads |-> "idle"]
    /\ sent = [p \in Producers |-> 0]
    /\ out = <<>>

Asleep(S) == {t \in S : pc[t] = "asleep"}

NotFull == Len(queue_) < Capacity
NotEmpty == queue_ # <<>>

\* Mutant: a push that tests the predicate once instead of in a loop.
PushUnchecked(p) ==
    /\ pc[p] \in {"idle", "woken"}
    /\ sent[p] < MaxItems
    /\ IF NotFull \/ pc[p] = "woken"
       THEN /\ queue_' = Append(queue_, <<p, sent[p] + 1>>)
            /\ sent' = [sent EXCEPT ![p] = @ + 1]
            /\ pc' = [pc EXCEPT ![p] = "notify"]
       ELSE /\ pc' = [pc EXCEPT ![p] = "asleep"]
            /\ UNCHANGED <<queue_, sent>>
    /\ UNCHANGED out

\* push, from locking mu_ (at the call or inside not_full_.wait) to
\* releasing it: the item goes in, or the thread sleeps on not_full_.
Push(p) ==
    /\ pc[p] \in {"idle", "woken"}
    /\ sent[p] < MaxItems
    /\ IF NotFull
       THEN /\ queue_' = Append(queue_, <<p, sent[p] + 1>>)
            /\ sent' = [sent EXCEPT ![p] = @ + 1]
            /\ pc' = [pc EXCEPT ![p] = "notify"]
       ELSE /\ pc' = [pc EXCEPT ![p] = "asleep"]
            /\ UNCHANGED <<queue_, sent>>
    /\ UNCHANGED out

\* Mutant: a try_pop_for that removes the front and still returns nullopt
\* when its deadline has passed.
TakeLosesLateItem(c) ==
    /\ pc[c] \in {"idle", "woken", "expired"}
    /\ NotEmpty
    /\ out' = IF pc[c] = "expired" THEN out ELSE Append(out, Head(queue_))
    /\ queue_' = Tail(queue_)
    /\ pc' = [pc EXCEPT ![c] = "notify"]
    /\ UNCHANGED sent

\* pop and try_pop_for when the predicate holds: the front comes out.
Take(c) ==
    /\ pc[c] \in {"idle", "woken", "expired"}
    /\ NotEmpty
    /\ out' = Append(out, Head(queue_))
    /\ queue_' = Tail(queue_)
    /\ pc' = [pc EXCEPT ![c] = "notify"]
    /\ UNCHANGED sent

\* Mutant: a pop that waits with a deadline, as only try_pop_for may.
SleepWithDeadline(c) ==
    /\ pc[c] \in {"idle", "woken"}
    /\ ~NotEmpty
    /\ pc' = [pc EXCEPT ![c] = "expired"]
    /\ UNCHANGED <<queue_, sent, out>>

\* pop and try_pop_for when it does not: the thread sleeps on not_empty_.
Sleep(c) ==
    /\ pc[c] \in {"idle", "woken"}
    /\ ~NotEmpty
    /\ pc' = [pc EXCEPT ![c] = "asleep"]
    /\ UNCHANGED <<queue_, sent, out>>

\* Mutant: a waiter whose timeout races a notification returns at once and
\* forgets the wake-up it was given.
TimeoutForgetsWakeup(c) ==
    /\ pc[c] \in {"asleep", "woken"}
    /\ pc' = [pc EXCEPT ![c] = "idle"]
    /\ UNCHANGED <<queue_, sent, out>>

\* wait_for reaches its deadline.
Timeout(c) ==
    /\ pc[c] = "asleep"
    /\ pc' = [pc EXCEPT ![c] = "expired"]
    /\ UNCHANGED <<queue_, sent, out>>

\* After the deadline wait_for tests the predicate a last time under mu_ and
\* try_pop_for returns std::nullopt.
GiveUp(c) ==
    /\ pc[c] = "expired"
    /\ ~NotEmpty
    /\ pc' = [pc EXCEPT ![c] = "idle"]
    /\ UNCHANGED <<queue_, sent, out>>

\* notify_one on the condition variable the threads of S sleep on.
NotifyOne(t, S) ==
    /\ pc[t] = "notify"
    /\ IF Asleep(S) = {}
       THEN pc' = [pc EXCEPT ![t] = "idle"]
       ELSE \E w \in Asleep(S) :
                pc' = [pc EXCEPT ![t] = "idle", ![w] = "woken"]
    /\ UNCHANGED <<queue_, sent, out>>

\* Mutant: a pop that forgets not_full_.notify_one().
NoNotifyNotFull(c) ==
    /\ pc[c] = "notify"
    /\ pc' = [pc EXCEPT ![c] = "idle"]
    /\ UNCHANGED <<queue_, sent, out>>

NotifyNotEmpty(p) == NotifyOne(p, Consumers)
NotifyNotFull(c) == NotifyOne(c, Producers)

\* Condition variables may wake a thread for no reason.
SpuriousWakeup(t) ==
    /\ pc[t] = "asleep"
    /\ pc' = [pc EXCEPT ![t] = "woken"]
    /\ UNCHANGED <<queue_, sent, out>>

Next ==
    \/ \E p \in Producers : Push(p) \/ NotifyNotEmpty(p)
    \/ \E c \in Consumers : Take(c) \/ Sleep(c) \/ NotifyNotFull(c)
    \/ \E c \in TryPoppers : Timeout(c) \/ GiveUp(c)
    \/ \E t \in Threads : SpuriousWakeup(t)

Spec == Init /\ [][Next]_vars

(***************************************************************************)
(* Fairness.  A thread that can run is eventually scheduled, and the       *)
(* consumers of the broker call try_pop_for in a loop.  A producer is not  *)
(* obliged to call push, nothing makes spurious wake-ups happen, and no    *)
(* fairness is asked of notify_one's choice.                               *)
(***************************************************************************)
Fairness ==
    /\ \A p \in Producers :
        /\ WF_vars(pc[p] = "woken" /\ Push(p))
        /\ WF_vars(NotifyNotEmpty(p))
    /\ \A c \in Consumers :
        /\ WF_vars(Take(c))
        /\ WF_vars(Sleep(c))
        /\ WF_vars(NotifyNotFull(c))
    /\ \A c \in TryPoppers : WF_vars(Timeout(c)) /\ WF_vars(GiveUp(c))

FairSpec == Spec /\ Fairness
------------------------------------------------------------------------------
\* Threads that will look at the queue, or make a sleeper look at it,
\* without anybody else doing anything.
AwakeConsumers == {c \in Consumers : pc[c] \in {"woken", "expired"}}
AwakeProducers == {p \in Producers : pc[p] = "woken"}
PendingNotEmpty == {p \in Producers : pc[p] = "notify"}
PendingNotFull == {c \in Consumers : pc[c] = "notify"}

\* The backpressure bound of push ("Blocks if full"): however the woken
\* producers race the ones that were never asleep, queue_ never holds more
\* than capacity_ items.
WithinCapacity == Len(queue_) <= Capacity

\* No wake-up is lost.  While a consumer sleeps on not_empty_, every item in
\* queue_ is covered by a consumer that is already awake or by a notify_one
\* that a producer is about to make; while a producer sleeps on not_full_,
\* the same holds of every free place.
NoLostWakeup ==
    /\ Asleep(Consumers) # {} =>
        Len(queue_) <= Cardinality(AwakeConsumers)
                       + Cardinality(PendingNotEmpty)
    /\ Asleep(Producers) # {} =>
        Capacity - Len(queue_) <= Cardinality(AwakeProducers)
                                  + Cardinality(PendingNotFull)

\* No standoff: never do a consumer sleep on not_empty_ and a producer on
\* not_full_ with nobody left to wake either of them.
NoStandoff ==
    Asleep(Consumers) # {} /\ Asleep(Producers) # {} =>
        AwakeConsumers \cup AwakeProducers
            \cup PendingNotEmpty \cup PendingNotFull # {}

\* SafeQueue behaves as the atomic FIFO buffer that its callers rely on:
\* nothing is lost, duplicated, reordered or kept beyond the capacity.
Fifo == INSTANCE BoundedQueue WITH contents <- queue_, taken <- out
FifoSpec == Fifo!BQSpec

\* Every item that push has put into queue_ is eventually handed out.
EveryItemTaken ==
    \A p \in Producers : \A k \in 1..MaxItems :
        sent[p] >= k ~> \E i \in DOMAIN out : out[i] = <<p, k>>

\* Backpressure is released: a producer asleep in push eventually returns
\* from it, although it is the consumers' notify_one that has to wake it.
PushReturns == \A p \in Producers : pc[p] = "asleep" ~> pc[p] = "idle"
==============================================================================
