---------------------------- MODULE BoundedQueue ----------------------------
(***************************************************************************)
(* What a SafeQueue promises its callers: a FIFO buffer of at most         *)
(* Capacity items, changed by atomic insertions and removals.  AckEngine   *)
(* and Broker use their queues through exactly these two steps; SafeQueue  *)
(* is the implementation with a mutex and two condition variables.         *)
(***************************************************************************)
EXTENDS Naturals, Sequences

CONSTANTS Items,     \* what may be queued
          Capacity   \* the most it holds

VARIABLES contents,  \* the items inside, oldest first
          taken      \* every item handed out so far, in order

bqVars == <<contents, taken>>

BQInit == contents = <<>> /\ taken = <<>>

Insert(i) ==
    /\ Len(contents) < Capacity
    /\ contents' = Append(contents, i)
    /\ UNCHANGED taken

Remove ==
    /\ contents # <<>>
    /\ contents' = Tail(contents)
    /\ taken' = Append(taken, Head(contents))

BQNext == Remove \/ \E i \in Items : Insert(i)

BQSpec == BQInit /\ [][BQNext]_bqVars
=============================================================================
