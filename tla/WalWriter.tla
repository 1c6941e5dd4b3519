------------------------------ MODULE WalWriter ------------------------------
(***************************************************************************)
(* broker/src/WalWriter.cpp: the write-ahead log with two buffers.         *)
(* Callers add records to active_buf_ under mu_; the flush thread swaps    *)
(* the buffers under mu_ and writes flush_buf_ to the file outside it.     *)
(*                                                                         *)
(* The file is a sequence of records.  A crash in the middle of a write    *)
(* can leave a torn record at its end; the file is opened for appending,   *)
(* so the next run of the broker writes behind it.                         *)
(***************************************************************************)
EXTENDS Integers, Sequences, Functions

CONSTANTS MsgIds,   \* message ids
          Bodies,   \* topic and body of a message
          Garbage   \* a topic and body made of misread bytes

PublishRecord == [type : {"PUBLISH"}, msg_id : MsgIds, body : Bodies]
AckRecord == [type : {"ACK"}, msg_id : MsgIds]
Records == PublishRecord \cup AckRecord
Torn == [type |-> "TORN"]

VARIABLES active_buf,   \* active_buf_
          flush_buf,    \* the part of flush_buf_ that is not in the file yet
          disk,         \* the file
          flusher,      \* flush thread: "waiting", "writing", or "none"
          log           \* history: the records of the file and those added since

walVars == <<active_buf, flush_buf, disk, flusher, log>>

\* The constructor, on the file that is there.
WalInit ==
    /\ active_buf = <<>> /\ flush_buf = <<>>
    /\ disk = <<>> /\ log = <<>>
    /\ flusher = "waiting"

\* append and acknowledge: one record into active_buf_.
AddRecord(r) ==
    /\ flusher # "none"
    /\ active_buf' = Append(active_buf, r)
    /\ log' = Append(log, r)
    /\ UNCHANGED <<flush_buf, disk, flusher>>

\* Mutant: what is left in flush_buf_ is written after the swapped-in records.
SwapKeepsOld ==
    /\ flusher # "none"
    /\ active_buf # <<>>
    /\ flush_buf' = active_buf \o flush_buf
    /\ active_buf' = <<>>
    /\ flusher' = "writing"
    /\ UNCHANGED <<disk, log>>

\* Mutant: wait_for without the 2 ms, so that little data is never written.
SwapWhenFull ==
    /\ flusher = "waiting"
    /\ Len(active_buf) > 1
    /\ flush_buf' = active_buf
    /\ active_buf' = <<>>
    /\ flusher' = "writing"
    /\ UNCHANGED <<disk, log>>

\* flush_thread_loop: wait_for ends, after 2 ms at the latest, and with
\* something to write the buffers are swapped.
SwapBuffers ==
    /\ flusher = "waiting"
    /\ active_buf # <<>>
    /\ flush_buf' = active_buf
    /\ active_buf' = <<>>
    /\ flusher' = "writing"
    /\ UNCHANGED <<disk, log>>

\* file_.write, as far as the file sees it: record after record ...
WriteRecord ==
    /\ flusher = "writing"
    /\ flush_buf # <<>>
    /\ disk' = Append(disk, Head(flush_buf))
    /\ flush_buf' = Tail(flush_buf)
    /\ UNCHANGED <<active_buf, flusher, log>>

\* ... then flush() and clear().
FlushDone ==
    /\ flusher = "writing"
    /\ flush_buf = <<>>
    /\ flusher' = "waiting"
    /\ UNCHANGED <<active_buf, flush_buf, disk, log>>

\* The destructor: the flush thread leaves its loop after the current round
\* and writes what has gathered in active_buf_.
FinalFlush ==
    /\ flusher = "waiting"
    /\ disk' = disk \o active_buf
    /\ active_buf' = <<>>
    /\ flusher' = "none"
    /\ UNCHANGED <<flush_buf, log>>

\* The process dies.  What it was writing may be on disk in part.
Crash ==
    /\ flusher # "none"
    /\ \/ UNCHANGED disk
       \/ flusher = "writing" /\ flush_buf # <<>> /\ disk' = Append(disk, Torn)
    /\ log' = disk'
    /\ active_buf' = <<>> /\ flush_buf' = <<>>
    /\ flusher' = "none"

\* The constructor of the next run.
Reopen ==
    /\ flusher = "none"
    /\ flusher' = "waiting"
    /\ UNCHANGED <<active_buf, flush_buf, disk, log>>

FlushStep == SwapBuffers \/ WriteRecord \/ FlushDone

WalNext ==
    \/ \E r \in Records : AddRecord(r)
    \/ FlushStep \/ FinalFlush \/ Crash \/ Reopen

WalSpec == WalInit /\ [][WalNext]_walVars
------------------------------------------------------------------------------
\* Mutant: the last record is taken for an incomplete one.
ReadableButLast(f) == {n \in 1..(Len(f) - 1) : \A k \in 1..n : f[k] # Torn}

\* The records that replay reads as they were written: those before the
\* first torn one.
Readable(f) == {n \in DOMAIN f : \A k \in 1..n : f[k] # Torn}

PublishesIn(f) == {n \in Readable(f) : f[n].type = "PUBLISH"}

\* The set acked.
AckedIn(f) == {f[n].msg_id : n \in {n \in Readable(f) : f[n].type = "ACK"}}

\* The message a PUBLISH record is about.
MessageOf(r) == [msg_id |-> r.msg_id, body |-> r.body]

\* What the map published holds at the end: for each id its last PUBLISH,
\* without the ids that have an ACK anywhere.
PendingIn(f) ==
    {MessageOf(f[n]) :
        n \in {n \in PublishesIn(f) :
                f[n].msg_id \notin AckedIn(f)
                /\ \A k \in PublishesIn(f) : k > n => f[k].msg_id # f[n].msg_id}}

\* A torn record at the end of the file ends the replay.  With later records
\* behind it, replay takes their bytes for its rest and is out of step: it may
\* find records nobody wrote, of either type and with any id, and it may fall
\* into step again and find records that were written.
TornInside(f) == \E n \in DOMAIN f : f[n] = Torn /\ n < Len(f)

\* The messages of the PUBLISH records behind a torn one.
BehindTorn(f) ==
    {MessageOf(f[n]) : n \in {n \in DOMAIN f \ Readable(f) : f[n].type = "PUBLISH"}}

\* What replay may push: at most one message for each id, and none for an id
\* with an ACK that it has read.
Replays(f) ==
    IF ~TornInside(f) THEN {PendingIn(f)}
    ELSE {q \in SUBSET (PendingIn(f) \cup BehindTorn(f)
                         \cup [msg_id : MsgIds, body : {Garbage}]) :
            /\ \A m \in q : m.msg_id \notin AckedIn(f)
            /\ \A m, n \in q : m.msg_id = n.msg_id => m = n}
------------------------------------------------------------------------------
\* The two buffers, the file and the flusher keep their shape.
WalTypeOK ==
    /\ active_buf \in Seq(Records) /\ flush_buf \in Seq(Records)
    /\ disk \in Seq(Records \cup {Torn}) /\ log \in Seq(Records \cup {Torn})
    /\ flusher \in {"waiting", "writing", "none"}
    /\ flusher = "waiting" => flush_buf = <<>>
    /\ flusher = "none" => flush_buf = <<>> /\ active_buf = <<>>

\* The double buffer neither loses nor reorders a record: the file, what the
\* flush thread is writing and what waits in active_buf_ make up the log.
LogKept == disk \o flush_buf \o active_buf = log
==============================================================================
