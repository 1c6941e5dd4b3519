--------------------------- MODULE RecoveryProofs ----------------------------
(***************************************************************************)
(* The write-ahead log keeps every record in order: for WalWriter under    *)
(* any callers, and for the broker's life of Recovery, which is shown to   *)
(* use the log only through WalWriter's operations.                        *)
(***************************************************************************)
EXTENDS Recovery, SequenceTheorems, TLAPS

Entry == Records \cup {Torn}

\* Moving the first record from the flush buffer to the file does not change
\* what the two hold together (file_.write).
LEMMA MoveHead ==
    ASSUME NEW S, NEW s \in Seq(S), NEW t \in Seq(S), t # <<>>
    PROVE  Append(s, Head(t)) \o Tail(t) = s \o t
<1>1. Head(t) \in S /\ Tail(t) \in Seq(S)
  BY HeadTailProperties
<1>2. Append(s, Head(t)) = s \o <<Head(t)>>
  BY <1>1, AppendIsConcat
<1>3. <<Head(t)>> \o Tail(t) = t
  <2>1. <<Head(t)>> \in Seq(S) /\ <<Head(t)>> \o Tail(t) \in Seq(S)
    BY <1>1
  <2>2. Len(<<Head(t)>> \o Tail(t)) = Len(t)
    BY <1>1, HeadTailProperties
  <2>3. \A i \in 1..Len(t) : (<<Head(t)>> \o Tail(t))[i] = t[i]
    BY <1>1, HeadTailProperties
  <2> QED
    BY <2>1, <2>2, <2>3, SeqEqual
<1>4. <<Head(t)>> \in Seq(S)
  BY <1>1
<1> QED
  BY <1>1, <1>2, <1>3, <1>4, ConcatAssociative

\* Appending to the last of three sequences appends to the whole (append and
\* acknowledge).
LEMMA AppendLast ==
    ASSUME NEW S, NEW s \in Seq(S), NEW t \in Seq(S), NEW e \in S
    PROVE  s \o Append(t, e) = Append(s \o t, e)
<1>1. s \o t \in Seq(S) /\ <<e>> \in Seq(S)
  BY ConcatProperties
<1>2. Append(t, e) = t \o <<e>> /\ Append(s \o t, e) = (s \o t) \o <<e>>
  BY <1>1, AppendIsConcat
<1> QED
  BY <1>1, <1>2, ConcatAssociative

\* A crash leaves a file of records, perhaps with a torn one at its end.
LEMMA CrashedFile ==
    ASSUME disk \in Seq(Entry), Crash
    PROVE  disk' \in Seq(Entry)
<1>1. Torn \in Entry
  BY DEF Entry
<1>2. Append(disk, Torn) \in Seq(Entry)
  BY <1>1, AppendProperties
<1>3. disk' = disk \/ disk' = Append(disk, Torn)
  BY DEF Crash
<1> QED
  BY <1>2, <1>3

\* Every operation of WalWriter keeps the buffers well-formed, provided that
\* the callers add proper records.
LEMMA WalTypeStep ==
    ASSUME WalTypeOK, WalNext
    PROVE  WalTypeOK'
<1>1. CASE \E r \in Records : AddRecord(r)
  BY <1>1 DEF WalTypeOK, AddRecord
<1>2. CASE SwapBuffers
  BY <1>2 DEF WalTypeOK, SwapBuffers
<1>3. CASE WriteRecord
  <2>1. Head(flush_buf) \in Records /\ Tail(flush_buf) \in Seq(Records)
    BY <1>3, HeadTailProperties DEF WalTypeOK, WriteRecord
  <2> QED
    BY <1>3, <2>1 DEF WalTypeOK, WriteRecord
<1>4. CASE FlushDone
  BY <1>4 DEF WalTypeOK, FlushDone
<1>5. CASE FinalFlush
  <2>1. active_buf \in Seq(Records \cup {Torn})
    BY SeqMonotonic DEF WalTypeOK
  <2>2. disk \o active_buf \in Seq(Records \cup {Torn})
    BY <2>1, ConcatProperties DEF WalTypeOK
  <2> QED
    BY <1>5, <2>2 DEF WalTypeOK, FinalFlush
<1>6. CASE Crash
  <2>1. disk' \in Seq(Records \cup {Torn})
    BY <1>6, CrashedFile DEF WalTypeOK, Entry
  <2>2. log' = disk' /\ active_buf' = <<>> /\ flush_buf' = <<>> /\ flusher' = "none"
    BY <1>6 DEF Crash
  <2> QED
    BY <2>1, <2>2 DEF WalTypeOK
<1>7. CASE Reopen
  BY <1>7 DEF WalTypeOK, Reopen
<1> QED
  BY <1>1, <1>2, <1>3, <1>4, <1>5, <1>6, <1>7 DEF WalNext, FlushStep

\* Every operation of WalWriter keeps the file and the buffers in step with
\* the log.
LEMMA LogStep ==
    ASSUME WalTypeOK, LogKept, WalNext
    PROVE  LogKept'
<1> /\ disk \in Seq(Entry) /\ log \in Seq(Entry)
    /\ flush_buf \in Seq(Entry) /\ active_buf \in Seq(Entry)
  BY SeqMonotonic DEF WalTypeOK, Entry
<1> disk \o flush_buf \in Seq(Entry)
  BY ConcatProperties
<1>1. CASE \E r \in Records : AddRecord(r)
  <2>1. PICK r \in Records : AddRecord(r)
    BY <1>1
  <2>2. (disk \o flush_buf) \o Append(active_buf, r)
          = Append((disk \o flush_buf) \o active_buf, r)
    BY AppendLast DEF Entry
  <2> QED
    BY <2>1, <2>2 DEF AddRecord, LogKept
<1>2. CASE SwapBuffers
  <2>1. flush_buf = <<>>
    BY <1>2 DEF SwapBuffers, WalTypeOK
  <2>2. (disk \o active_buf) \o <<>> = disk \o active_buf /\ disk \o <<>> = disk
    BY ConcatEmptySeq, ConcatProperties
  <2> QED
    BY <1>2, <2>1, <2>2 DEF SwapBuffers, LogKept
<1>3. CASE WriteRecord
  <2>1. Append(disk, Head(flush_buf)) \o Tail(flush_buf) = disk \o flush_buf
    BY <1>3, MoveHead DEF WriteRecord
  <2> QED
    BY <1>3, <2>1, Zenon DEF WriteRecord, LogKept
<1>4. CASE FlushDone
  BY <1>4 DEF FlushDone, LogKept
<1>5. CASE FinalFlush
  <2>1. flush_buf = <<>>
    BY <1>5 DEF FinalFlush, WalTypeOK
  <2>2. disk \o <<>> = disk /\ (disk \o active_buf) \o <<>> = disk \o active_buf
    BY ConcatEmptySeq, ConcatProperties
  <2> QED
    BY <1>5, <2>1, <2>2 DEF FinalFlush, LogKept
<1>6. CASE Crash
  <2>1. disk' \in Seq(Entry)
    BY <1>6, CrashedFile
  <2>2. (disk' \o <<>>) \o <<>> = disk'
    BY <2>1, ConcatEmptySeq
  <2>3. log' = disk' /\ active_buf' = <<>> /\ flush_buf' = <<>>
    BY <1>6 DEF Crash
  <2> QED
    BY <2>2, <2>3 DEF LogKept
<1>7. CASE Reopen
  BY <1>7 DEF Reopen, LogKept
<1> QED
  BY <1>1, <1>2, <1>3, <1>4, <1>5, <1>6, <1>7 DEF WalNext, FlushStep

\* The log alone, under any callers: the double buffer of flush_thread_loop
\* neither loses nor reorders a record.
THEOREM LogIntact == WalSpec => [](WalTypeOK /\ LogKept)
<1>1. WalInit => WalTypeOK /\ LogKept
  BY ConcatEmptySeq DEF WalInit, WalTypeOK, LogKept
<1>2. WalTypeOK /\ LogKept /\ [WalNext]_walVars => (WalTypeOK /\ LogKept)'
  <2> SUFFICES ASSUME WalTypeOK, LogKept, [WalNext]_walVars
               PROVE  WalTypeOK' /\ LogKept'
    OBVIOUS
  <2>1. CASE WalNext
    BY <2>1, WalTypeStep, LogStep
  <2>2. CASE UNCHANGED walVars
    BY <2>2 DEF walVars, WalTypeOK, LogKept
  <2> QED
    BY <2>1, <2>2
<1> QED
  BY <1>1, <1>2, PTL DEF WalSpec

\* A message as it is published or misread.
Published == [msg_id : MsgIds, body : Bodies \cup {Garbage}]

MessagesOK == /\ queued \subseteq Messages /\ in_flight \subseteq Messages
              /\ dlq \subseteq Messages /\ held \subseteq Published

\* Neither delivery nor retry nor dead-lettering changes what a message is.
LEMMA OriginKept ==
    /\ \A m \in Messages :
         /\ Origin(m) \in Published /\ Origin(m).msg_id = m.msg_id /\ Origin(m).body = m.body
         /\ DeadLetter(m) \in Messages /\ Origin(DeadLetter(m)) = Origin(m)
         /\ ~(m.retry_count >= MaxRetries)
              => Retry(m) \in Messages /\ Origin(Retry(m)) = Origin(m)
    /\ \A p \in Published : Fresh(p) \in Messages /\ Origin(Fresh(p)) = p
<1>1. ASSUME NEW m \in Messages
      PROVE  Origin(m) \in Published /\ Origin(m).msg_id = m.msg_id /\ Origin(m).body = m.body
  BY Zenon DEF Messages, Origin, Published
<1>0. 0 \in 0..MaxRetries
  BY RetriesBounded
<1>2. ASSUME NEW m \in Messages
      PROVE  DeadLetter(m) \in Messages /\ Origin(DeadLetter(m)) = Origin(m)
  BY <1>0, Zenon DEF Messages, Origin, DeadLetter
<1>3. ASSUME NEW m \in Messages, ~(m.retry_count >= MaxRetries)
      PROVE  Retry(m) \in Messages /\ Origin(Retry(m)) = Origin(m)
  <2>1. m.retry_count + 1 \in 0..MaxRetries
    BY <1>3, RetriesBounded DEF Messages
  <2> QED BY <2>1 DEF Messages, Origin, Retry
<1>4. ASSUME NEW p \in Published PROVE Fresh(p) \in Messages /\ Origin(Fresh(p)) = p
  <2>1. p = [msg_id |-> p.msg_id, body |-> p.body] /\ p.msg_id \in MsgIds
        /\ p.body \in Bodies \cup {Garbage}
    BY DEF Published
  <2> QED BY <1>0, <2>1, Zenon DEF Messages, Origin, Fresh
<1> QED BY <1>1, <1>2, <1>3, <1>4, Zenon

\* Every record is a PUBLISH of a proper message or an ACK.
LEMMA PublishedRecord ==
    ASSUME NEW f \in Seq(Records \cup {Torn}), NEW n \in DOMAIN f, f[n].type = "PUBLISH"
    PROVE  MessageOf(f[n]) \in Published /\ f[n] # Torn
<1>1. f[n] # Torn
  BY DEF Torn
<1>2. f[n] \in Records
  BY <1>1
<1>3. f[n] \in PublishRecord
  BY <1>2 DEF Records, AckRecord, PublishRecord
<1> QED
  BY <1>1, <1>3 DEF PublishRecord, Published, MessageOf

\* replay pushes messages with proper ids, also when it misreads the file.
LEMMA ReplayedMessages ==
    ASSUME NEW f \in Seq(Records \cup {Torn}), NEW q \in Replays(f)
    PROVE  q \subseteq Published
<1>1. PendingIn(f) \subseteq Published
  BY PublishedRecord DEF PendingIn, PublishesIn, Readable
<1>2. BehindTorn(f) \subseteq Published
  BY PublishedRecord DEF BehindTorn
<1>3. [msg_id : MsgIds, body : {Garbage}] \subseteq Published
  BY DEF Published
<1>4. q = PendingIn(f)
      \/ q \subseteq PendingIn(f) \cup BehindTorn(f) \cup [msg_id : MsgIds, body : {Garbage}]
  BY DEF Replays
<1> QED
  BY <1>1, <1>2, <1>3, <1>4

\* Every step of the broker's life is an operation of WalWriter on the log or
\* leaves it alone, and handles proper messages.
LEMMA RecoveryStep ==
    ASSUME WalTypeOK, MessagesOK, [Next]_vars
    PROVE  MessagesOK' /\ [WalNext]_walVars
<1>1. ASSUME NEW b \in Bodies, AppendAndPush(b)
      PROVE  MessagesOK' /\ [WalNext]_walVars
  <2> DEFINE r == [type |-> "PUBLISH", msg_id |-> next_id, body |-> b]
             p == [msg_id |-> next_id, body |-> b]
  <2>1. r \in Records /\ AddRecord(r)
    BY <1>1 DEF AppendAndPush, Records, PublishRecord
  <2>2. WalNext
    BY <2>1 DEF WalNext
  <2>3. p \in Published
    BY <1>1 DEF AppendAndPush, Published
  <2>4. /\ queued' = queued \cup {Fresh(p)}
        /\ in_flight' = in_flight /\ dlq' = dlq /\ held' = held
    BY <1>1, Zenon DEF AppendAndPush
  <2>5. Fresh(p) \in Messages
    BY <2>3, OriginKept, Zenon
  <2> HIDE DEF p
  <2>6. MessagesOK'
    BY <2>4, <2>5 DEF MessagesOK
  <2> QED
    BY <2>2, <2>6
<1>2. ASSUME NEW m \in queued, Deliver(m)
      PROVE  MessagesOK' /\ [WalNext]_walVars
  <2>1. Origin(m) \in Published
    BY OriginKept, Zenon DEF MessagesOK
  <2> QED BY <1>2, <2>1 DEF Deliver, Without, MessagesOK, walVars
<1>3. ASSUME NEW m \in queued, Drop(m)
      PROVE  MessagesOK' /\ [WalNext]_walVars
  BY <1>3 DEF Drop, MessagesOK, walVars
<1>4. ASSUME NEW m \in in_flight, Fail(m)
      PROVE  MessagesOK' /\ [WalNext]_walVars
  <2>1. m \in Messages /\ UNCHANGED walVars /\ held' = held /\ in_flight' = in_flight \ {m}
    BY <1>4 DEF MessagesOK, Fail, walVars
  <2>2. \E a \in Messages : \/ queued' = queued /\ dlq' = dlq \cup {a}
                            \/ queued' = queued \cup {a} /\ dlq' = dlq
    BY <1>4, <2>1, OriginKept, Zenon DEF Fail
  <2> QED BY <2>1, <2>2 DEF MessagesOK
<1>5. ASSUME NEW m \in dlq, Republish(m)
      PROVE  MessagesOK' /\ [WalNext]_walVars
  BY <1>5 DEF Republish, MessagesOK, walVars
<1>6. ASSUME NEW m \in held, AckFrame(m)
      PROVE  MessagesOK' /\ [WalNext]_walVars
  <2> DEFINE r == [type |-> "ACK", msg_id |-> m.msg_id]
  <2>1. r \in Records /\ AddRecord(r)
    BY <1>6 DEF AckFrame, Records, AckRecord, MessagesOK, Published
  <2>2. WalNext
    BY <2>1 DEF WalNext
  <2>3. MessagesOK'
    BY <1>6 DEF AckFrame, Without, MessagesOK
  <2> QED
    BY <2>2, <2>3
<1>7. CASE Flush
  BY <1>7 DEF Flush, brokerVars, MessagesOK, WalNext
<1>8. CASE Stop
  BY <1>8 DEF Stop, MessagesOK, WalNext
<1>9. CASE Restart
  <2>1. PICK q \in Replays(disk) : queued' = {Fresh(m) : m \in q}
    BY <1>9, Zenon DEF Restart
  <2>2. q \subseteq Published
    BY ReplayedMessages, Zenon DEF WalTypeOK
  <2>3. \A m \in q : Fresh(m) \in Messages
    BY <2>2, OriginKept, Zenon
  <2>4. queued' \subseteq Messages
    BY <2>1, <2>3, Zenon
  <2> QED
    BY <1>9, <2>4 DEF Restart, MessagesOK, WalNext, history
<1>10. CASE UNCHANGED vars
  BY <1>10 DEF vars, brokerVars, MessagesOK
<1> QED
  BY <1>1, <1>2, <1>3, <1>4, <1>5, <1>6, <1>7, <1>8, <1>9, <1>10, Zenon DEF Next, Publish, Audit

IsPublish(r) == r.type = "PUBLISH"

\* No other message has had the id of m.
Sole(m) == \A o \in given : o.msg_id = m.msg_id => o.body = m.body

\* Every PUBLISH in the log is of a message that was given, and none is there
\* twice: a body is published once.
PublishesGiven ==
    /\ \A n \in DOMAIN log : IsPublish(log[n]) => MessageOf(log[n]) \in given
    /\ \A j, k \in DOMAIN log : j < k /\ IsPublish(log[j]) /\ IsPublish(log[k])
                                  => log[j].body # log[k].body

\* The messages that are queued, dead-lettered or with the consumer.
Known == Origins(queued) \cup Origins(dlq) \cup held

\* All of them were given, or misread.
BodiesKnown == \A m \in Known : m.body \in {g.body : g \in given} \cup {Garbage}

AcksKnown ==
    \A n \in DOMAIN log : log[n].type = "ACK" =>
        \E m \in given : m.msg_id = log[n].msg_id /\ m.body \in done

\* As long as nothing was written behind a torn record, replay has misread
\* nothing, and every ACK is of a message that the consumer had.
NothingMisread ==
    ~TornInside(disk) =>
        Known \subseteq given /\ AcksKnown

\* DurableKept for all of the log, not only for what is in the file.
LoggedKept ==
    Up /\ ~TornInside(disk) =>
        \A n \in DOMAIN log :
            /\ IsPublish(log[n]) /\ log[n].body \notin done
            /\ Sole(MessageOf(log[n]))
            => MessageOf(log[n]) \in WithBroker \cup dropped

\* What is in flight is with the consumer.
Sent == Origins(in_flight) \subseteq held

KeptInv == PublishesGiven /\ BodiesKnown /\ NothingMisread /\ LoggedKept

\* The file is the first part of the log.
LEMMA FileIsPrefix ==
    ASSUME WalTypeOK, LogKept
    PROVE  /\ DOMAIN disk \subseteq DOMAIN log
           /\ \A n \in DOMAIN disk : log[n] = disk[n]
           /\ ~Up => log = disk
<1>1. /\ disk \in Seq(Entry) /\ flush_buf \in Seq(Entry) /\ active_buf \in Seq(Entry)
  BY SeqMonotonic DEF WalTypeOK, Entry
<1>2. disk \o flush_buf \in Seq(Entry) /\ (disk \o flush_buf) \o active_buf = log
  BY <1>1, ConcatProperties DEF LogKept
<1>3. DOMAIN disk \subseteq DOMAIN log /\ \A n \in DOMAIN disk : log[n] = disk[n]
  <2>1. /\ Len(disk \o flush_buf) >= Len(disk)
        /\ \A n \in 1..Len(disk) : (disk \o flush_buf)[n] = disk[n]
    BY <1>1, ConcatProperties
  <2>2. /\ Len(log) >= Len(disk \o flush_buf)
        /\ \A n \in 1..Len(disk \o flush_buf) : log[n] = (disk \o flush_buf)[n]
    BY <1>1, <1>2, ConcatProperties
  <2>3. DOMAIN disk = 1..Len(disk) /\ Len(disk) \in Nat
        /\ Len(disk \o flush_buf) \in Nat
    BY <1>1, <1>2
  <2>4. log \in Seq(Entry)
    BY DEF WalTypeOK, Entry
  <2>5. DOMAIN log = 1..Len(log) /\ Len(log) \in Nat
    BY <2>4
  <2> QED BY <2>1, <2>2, <2>3, <2>5
<1>4. ASSUME ~Up PROVE log = disk
  <2>1. flush_buf = <<>> /\ active_buf = <<>>
    BY <1>4 DEF Up, WalTypeOK
  <2> QED BY <1>1, <1>2, <2>1, ConcatEmptySeq
<1> QED BY <1>3, <1>4

\* What the flush thread, a crash or a clean stop do to the log: they add no
\* record to it but a torn one, and what is torn inside stays so.
OnlyShrinks ==
    /\ \A n \in DOMAIN log' : log'[n] = Torn \/ (n \in DOMAIN log /\ log'[n] = log[n])
    /\ TornInside(disk) => TornInside(disk')

\* A record behind the others is at the last place, the others at theirs.
LEMMA AppendPlaces ==
    ASSUME NEW S, NEW f \in Seq(S), NEW e \in S
    PROVE  /\ \A n \in DOMAIN Append(f, e) :
                 \/ n = Len(f) + 1 /\ Append(f, e)[n] = e
                 \/ n \in DOMAIN f /\ n < Len(f) + 1 /\ Append(f, e)[n] = f[n]
           /\ DOMAIN f \subseteq DOMAIN Append(f, e)
           /\ \A n \in DOMAIN f : Append(f, e)[n] = f[n] /\ n < Len(f) + 1
<1>1. /\ DOMAIN f = 1..Len(f) /\ Len(f) \in Nat
      /\ DOMAIN Append(f, e) = 1..(Len(f) + 1)
      /\ \A n \in 1..Len(f) : Append(f, e)[n] = f[n]
      /\ Append(f, e)[Len(f) + 1] = e
  BY AppendProperties
<1> QED BY <1>1

\* Records written behind others do not mend a file.
LEMMA StaysTorn ==
    ASSUME NEW f \in Seq(Entry), NEW e \in Entry, TornInside(f)
    PROVE  TornInside(Append(f, e))
<1>1. PICK n \in DOMAIN f : f[n] = Torn /\ n < Len(f)
  BY DEF TornInside
<1>2. /\ n \in DOMAIN Append(f, e) /\ Append(f, e)[n] = f[n] /\ n < Len(Append(f, e))
  BY <1>1, AppendProperties
<1> QED BY <1>1, <1>2 DEF TornInside

\* So do all operations of WalWriter other than append and acknowledge.
LEMMA ShrinkingSteps ==
    ASSUME WalTypeOK, LogKept, FlushStep \/ Crash \/ FinalFlush
    PROVE  OnlyShrinks
<1>1. disk \in Seq(Entry) /\ flush_buf \in Seq(Entry) /\ active_buf \in Seq(Entry) /\ Torn \in Entry
  BY SeqMonotonic DEF WalTypeOK, Entry
<1>2. CASE log' = log /\ disk' = disk
  BY <1>2, Zenon DEF OnlyShrinks
<1>3. CASE WriteRecord
  <2>1. log' = log /\ disk' = Append(disk, Head(flush_buf)) /\ Head(flush_buf) \in Entry
    BY <1>1, <1>3, HeadTailProperties DEF WriteRecord
  <2> QED BY <1>1, <2>1, StaysTorn DEF OnlyShrinks
<1>4. CASE FinalFlush
  <2>1. log' = log /\ disk' = disk \o active_buf
    BY <1>4 DEF FinalFlush
  <2>2. TornInside(disk) => TornInside(disk')
    <3>1. /\ Len(disk') >= Len(disk) /\ DOMAIN disk \subseteq DOMAIN disk'
          /\ \A n \in DOMAIN disk : disk'[n] = disk[n]
      BY <1>1, <2>1, ConcatProperties
    <3>2. Len(disk) \in Nat /\ Len(disk') \in Nat /\ DOMAIN disk = 1..Len(disk)
      BY <1>1, <2>1, ConcatProperties
    <3> QED BY <3>1, <3>2 DEF TornInside
  <2> QED BY <2>1, <2>2 DEF OnlyShrinks
<1>5. CASE Crash
  <2>1. log' = disk' /\ (disk' = disk \/ disk' = Append(disk, Torn))
    BY <1>5 DEF Crash
  <2>2. CASE disk' = disk
    BY <2>1, <2>2, FileIsPrefix, Zenon DEF OnlyShrinks
  <2>3. CASE disk' = Append(disk, Torn)
    <3>1. TornInside(disk) => TornInside(disk')
      BY <1>1, <2>3, StaysTorn, Zenon
    <3>2. \A n \in DOMAIN Append(disk, Torn) :
            Append(disk, Torn)[n] = Torn \/ (n \in DOMAIN disk /\ Append(disk, Torn)[n] = disk[n])
      <4>1. \A f \in Seq(Entry), e \in Entry : \A n \in DOMAIN Append(f, e) :
              Append(f, e)[n] = e \/ (n \in DOMAIN f /\ Append(f, e)[n] = f[n])
        BY AppendPlaces
      <4> QED BY <1>1, <4>1, Zenon
    <3>3. \A n \in DOMAIN log' : log'[n] = Torn \/ (n \in DOMAIN disk /\ log'[n] = disk[n])
      BY <2>1, <2>3, <3>2, Zenon
    <3>4. DOMAIN disk \subseteq DOMAIN log /\ \A n \in DOMAIN disk : log[n] = disk[n]
      BY FileIsPrefix, Zenon
    <3>5. \A n \in DOMAIN log' : log'[n] = Torn \/ (n \in DOMAIN log /\ log'[n] = log[n])
      <4> SUFFICES ASSUME NEW n \in DOMAIN log'
                   PROVE  log'[n] = Torn \/ (n \in DOMAIN log /\ log'[n] = log[n])
        BY Zenon
      <4>1. log'[n] = Torn \/ (n \in DOMAIN disk /\ log'[n] = disk[n])
        BY <3>3, Zenon
      <4>2. n \in DOMAIN disk => n \in DOMAIN log /\ log[n] = disk[n]
        BY <3>4, Zenon
      <4> QED BY <4>1, <4>2, Zenon
    <3> QED BY <3>1, <3>5, Zenon DEF OnlyShrinks
  <2> QED BY <2>1, <2>2, <2>3
<1> QED BY <1>2, <1>3, <1>4, <1>5 DEF FlushStep, SwapBuffers, FlushDone

\* A log that only shrinks brings no PUBLISH and no ACK that was not there.
LEMMA ShrinkKeeps ==
    ASSUME OnlyShrinks, PublishesGiven, given' = given, done' = done
    PROVE  PublishesGiven' /\ (AcksKnown => AcksKnown')
<1>1. \A n \in DOMAIN log' : IsPublish(log'[n]) \/ log'[n].type = "ACK"
                               => n \in DOMAIN log /\ log'[n] = log[n]
  BY DEF OnlyShrinks, Torn, IsPublish
<1>2. PublishesGiven'
  BY <1>1, Zenon DEF PublishesGiven
<1>3. AcksKnown => AcksKnown'
  BY <1>1, Zenon DEF AcksKnown
<1> QED BY <1>2, <1>3

\* Records that may be in the log are PUBLISH or ACK records, or torn.
LEMMA RecordKinds ==
    ASSUME NEW r \in Records
    PROVE  /\ IsPublish(r) => r.msg_id \in MsgIds /\ r.body \in Bodies
           /\ r # Torn
  BY DEF Records, PublishRecord, AckRecord, IsPublish, Torn

\* A PUBLISH, and an audit event, adds a message with a body that none had.
LEMMA PublishKept ==
    ASSUME WalTypeOK, LogKept, KeptInv, NEW b \in Bodies, AppendAndPush(b)
    PROVE  KeptInv'
<1> DEFINE r == [type |-> "PUBLISH", msg_id |-> next_id, body |-> b]
           m == [msg_id |-> next_id, body |-> b]
<1>1. /\ \A o \in given : o.body # b
      /\ log' = Append(log, r)
      /\ queued' = queued \cup {Fresh(m)} /\ given' = given \cup {m}
      /\ in_flight' = in_flight /\ dlq' = dlq /\ held' = held
      /\ done' = done /\ dropped' = dropped
      /\ disk' = disk /\ flusher' = flusher
  BY Zenon DEF AppendAndPush, AddRecord
<1>0. Origin(Fresh(m)) = m
  BY DEF Origin, Fresh
<1>2. log \in Seq(Entry) /\ r \in Entry
  BY DEF WalTypeOK, Entry, AppendAndPush, Records, PublishRecord
<1>3. IsPublish(r) /\ MessageOf(r) = m /\ r.body = b /\ r.type # "ACK" /\ m.body = b
  BY DEF IsPublish, MessageOf
<1> HIDE DEF r, m
<1>4. /\ \A n \in DOMAIN log' :
           \/ n = Len(log) + 1 /\ log'[n] = r
           \/ n \in DOMAIN log /\ n < Len(log) + 1 /\ log'[n] = log[n]
      /\ \A n \in DOMAIN log : n < Len(log) + 1
      /\ Len(log) \in Nat /\ DOMAIN log = 1..Len(log)
  <2>1. Len(log) \in Nat /\ DOMAIN log = 1..Len(log)
    BY <1>2
  <2>2. /\ DOMAIN log' = 1..(Len(log) + 1) /\ log'[Len(log) + 1] = r
        /\ \A n \in 1..Len(log) : log'[n] = log[n]
    BY <1>1, <1>2, AppendProperties
  <2> QED BY <2>1, <2>2
<1>5. PublishesGiven'
  <2>1. \A n \in DOMAIN log' : IsPublish(log'[n]) => MessageOf(log'[n]) \in given'
    BY <1>1, <1>3, <1>4, Zenon DEF PublishesGiven, KeptInv
  <2>2. \A n \in DOMAIN log : IsPublish(log[n]) => log[n].body # b
    <3>1. \A x : MessageOf(x).body = x.body
      BY DEF MessageOf
    <3> QED BY <1>1, <3>1, Zenon DEF PublishesGiven, KeptInv
  <2>3. ASSUME NEW j \in DOMAIN log', NEW k \in DOMAIN log', j < k,
               IsPublish(log'[j]), IsPublish(log'[k])
        PROVE  log'[j].body # log'[k].body
    <3>1. j # Len(log) + 1
      BY <1>4, <2>3
    <3>2. j \in DOMAIN log /\ log'[j] = log[j]
      BY <1>4, <3>1, Zenon
    <3>3. CASE k = Len(log) + 1 /\ log'[k] = r
      BY <1>3, <2>2, <2>3, <3>2, <3>3, Zenon
    <3>4. CASE k \in DOMAIN log /\ log'[k] = log[k]
      BY <2>3, <3>2, <3>4, Zenon DEF PublishesGiven, KeptInv
    <3> QED BY <1>4, <3>3, <3>4, Zenon
  <2> QED BY <2>1, <2>3, Zenon DEF PublishesGiven
<1>6. Known' = Known \cup {m} /\ WithBroker' = WithBroker \cup {m}
  BY <1>0, <1>1 DEF Known, WithBroker, Origins
<1>61. BodiesKnown'
  BY <1>1, <1>3, <1>6, Zenon DEF BodiesKnown, KeptInv
<1>7. NothingMisread'
  <2>1. AcksKnown => AcksKnown'
    BY <1>1, <1>3, <1>4, Zenon DEF AcksKnown
  <2>2. Known \subseteq given => Known' \subseteq given'
    BY <1>1, <1>6
  <2> QED BY <1>1, <2>1, <2>2, Zenon DEF NothingMisread, KeptInv
<1>8. LoggedKept'
  <2> SUFFICES ASSUME Up', ~TornInside(disk'), NEW n \in DOMAIN log', IsPublish(log'[n]),
                      log'[n].body \notin done',
                      \A o \in given' : o.msg_id = MessageOf(log'[n]).msg_id
                                           => o.body = MessageOf(log'[n]).body
               PROVE  MessageOf(log'[n]) \in WithBroker' \cup dropped'
    BY Zenon DEF LoggedKept, Sole
  <2>1. CASE log'[n] = r
    BY <1>3, <1>6, <2>1
  <2>2. CASE n \in DOMAIN log /\ log'[n] = log[n]
    <3>1. Sole(MessageOf(log[n]))
      <4>1. \A o \in given' : o.msg_id = MessageOf(log[n]).msg_id => o.body = MessageOf(log[n]).body
        BY <2>2, Zenon
      <4> QED BY <1>1, <4>1, Zenon DEF Sole
    <3>2. Up /\ ~TornInside(disk)
      BY <1>1, Zenon DEF Up
    <3>3. MessageOf(log[n]) \in WithBroker \cup dropped
      BY <1>1, <2>2, <3>1, <3>2, Zenon DEF LoggedKept, KeptInv
    <3> QED BY <1>1, <1>6, <2>2, <3>3
  <2> QED BY <1>4, <2>1, <2>2, Zenon
<1> QED BY <1>5, <1>61, <1>7, <1>8, Zenon DEF KeptInv

\* A message with the id of one that is alone with it is that message.
LEMMA SoleIsSame ==
    ASSUME NEW r, Sole(MessageOf(r)), NEW m \in Published, m \in given, m.msg_id = r.msg_id
    PROVE  m = MessageOf(r)
<1>1. m = [msg_id |-> m.msg_id, body |-> m.body]
  BY DEF Published
<1>2. MessageOf(r).msg_id = r.msg_id /\ MessageOf(r).body = r.body
  BY DEF MessageOf
<1>3. m.body = r.body
  BY <1>2, Zenon DEF Sole
<1> QED BY <1>1, <1>3 DEF MessageOf

\* Messages move between queues, deliveries and consumer, and the log rests.
LEMMA MoveKept ==
    ASSUME KeptInv, disk' = disk, log' = log, flusher' = flusher, given' = given, done' = done,
           Known' \subseteq Known,
           Up /\ ~TornInside(disk) => \A n \in DOMAIN log :
             Sole(MessageOf(log[n])) /\ MessageOf(log[n]) \in WithBroker \cup dropped
               => MessageOf(log[n]) \in WithBroker' \cup dropped'
    PROVE  KeptInv'
<1>1. PublishesGiven' /\ (AcksKnown => AcksKnown')
  BY Zenon DEF KeptInv, PublishesGiven, AcksKnown
<1>2. BodiesKnown'
  BY DEF KeptInv, BodiesKnown
<1>3. NothingMisread'
  <2>1. Known \subseteq given => Known' \subseteq given
    OBVIOUS
  <2> QED BY <1>1, <2>1, Zenon DEF KeptInv, NothingMisread
<1>4. LoggedKept'
  BY Zenon DEF KeptInv, LoggedKept, Up, Sole
<1> QED BY <1>1, <1>2, <1>3, <1>4, Zenon DEF KeptInv

\* Tracking a message drops only the entry of another with the same id.
LEMMA DeliverKept ==
    ASSUME MessagesOK, Sent, KeptInv, NEW m \in queued, Deliver(m)
    PROVE  KeptInv' /\ Sent'
<1>1. /\ queued' = queued \ {m} /\ in_flight' = Without(m.msg_id) \cup {m} /\ dlq' = dlq
      /\ held' = held \cup {Origin(m)} /\ dropped' = dropped
      /\ disk' = disk /\ log' = log /\ flusher' = flusher /\ given' = given /\ done' = done
  BY Zenon DEF Deliver, walVars, history
<1>2. Known' \subseteq Known /\ Sent'
  BY <1>1 DEF Known, Origins, Sent, Without
<1>3. ASSUME Up, ~TornInside(disk), NEW n \in DOMAIN log, Sole(MessageOf(log[n])),
             MessageOf(log[n]) \in WithBroker \cup dropped
      PROVE  MessageOf(log[n]) \in WithBroker' \cup dropped'
  <2> DEFINE x == MessageOf(log[n])
  <2>1. CASE x.msg_id = m.msg_id
    <3>0. Origin(m) \in Published /\ Origin(m).msg_id = m.msg_id
      BY OriginKept, Zenon DEF MessagesOK
    <3>1. Origin(m) \in given
      BY <1>3 DEF KeptInv, NothingMisread, Known, Origins
    <3>2. Origin(m).msg_id = log[n].msg_id
      BY <2>1, <3>0 DEF MessageOf
    <3>3. Origin(m) = x
      BY <1>3, <3>0, <3>1, <3>2, SoleIsSame, Zenon
    <3>4. Origin(m) \in WithBroker'
      BY <1>1 DEF WithBroker, Origins
    <3> QED BY <3>3, <3>4
  <2>2. CASE x.msg_id # m.msg_id
    <3> HIDE DEF x
    <3>1. CASE x \in dropped
      BY <1>1, <3>1 DEF x
    <3>2. ASSUME NEW y \in queued \cup in_flight \cup dlq, x = Origin(y) PROVE x \in WithBroker'
      <4>1. y.msg_id # m.msg_id
        BY <2>2, <3>2, OriginKept, Zenon DEF MessagesOK
      <4>2. y \in queued' \cup in_flight' \cup dlq'
        BY <1>1, <4>1 DEF Without
      <4> QED BY <3>2, <4>2 DEF WithBroker, Origins
    <3>3. x \in WithBroker \/ x \in dropped
      BY <1>3 DEF x
    <3>4. x \in WithBroker' \cup dropped'
      BY <1>1, <3>1, <3>2, <3>3 DEF WithBroker, Origins
    <3> QED BY <3>4 DEF x
  <2> QED BY <2>1, <2>2
<1> QED BY <1>1, <1>2, <1>3, MoveKept, Zenon

\* Without a subscriber the message is gone from the queues, on record as dropped.
LEMMA DropKept ==
    ASSUME KeptInv, Sent, NEW m \in queued, Drop(m)
    PROVE  KeptInv' /\ Sent'
<1>1. /\ queued' = queued \ {m} /\ in_flight' = in_flight /\ dlq' = dlq
      /\ held' = held /\ dropped' = dropped \cup {Origin(m)}
      /\ disk' = disk /\ log' = log /\ flusher' = flusher /\ given' = given /\ done' = done
  BY Zenon DEF Drop, walVars
<1>2. Known' \subseteq Known /\ Sent'
  BY <1>1 DEF Known, Origins, Sent
<1>3. WithBroker \cup dropped \subseteq WithBroker' \cup dropped'
  BY <1>1 DEF WithBroker, Origins
<1> QED BY <1>1, <1>2, <1>3, MoveKept

\* A failed delivery goes back to the queue, or to the dead letters.
LEMMA FailKept ==
    ASSUME MessagesOK, KeptInv, Sent, NEW m \in in_flight, Fail(m)
    PROVE  KeptInv' /\ Sent'
<1>1. /\ in_flight' = in_flight \ {m} /\ held' = held /\ dropped' = dropped
      /\ disk' = disk /\ log' = log /\ flusher' = flusher /\ given' = given /\ done' = done
  BY Zenon DEF Fail, walVars, history
<1>2. \E a : /\ Origin(a) = Origin(m)
             /\ \/ queued' = queued /\ dlq' = dlq \cup {a}
                \/ queued' = queued \cup {a} /\ dlq' = dlq
  <2>1. m \in Messages
    BY Zenon DEF MessagesOK
  <2> QED BY <2>1, OriginKept, Zenon DEF Fail
<1>3. Origin(m) \in held
  BY DEF Sent, Origins
<1>4. Known' \subseteq Known /\ Sent'
  BY <1>1, <1>2, <1>3 DEF Known, Origins, Sent
<1>5. WithBroker \subseteq WithBroker'
  BY <1>1, <1>2 DEF WithBroker, Origins
<1>6. WithBroker \cup dropped \subseteq WithBroker' \cup dropped'
  BY <1>1, <1>5
<1> QED BY <1>1, <1>4, <1>6, MoveKept

\* The DLQ logger moves a dead letter to the queue.
LEMMA RepublishKept ==
    ASSUME KeptInv, Sent, NEW m \in dlq, Republish(m)
    PROVE  KeptInv' /\ Sent'
<1>1. /\ queued' = queued \cup {m} /\ in_flight' = in_flight /\ dlq' = dlq \ {m}
      /\ held' = held /\ dropped' = dropped
      /\ disk' = disk /\ log' = log /\ flusher' = flusher /\ given' = given /\ done' = done
  BY Zenon DEF Republish, walVars, history
<1>2. Known' \subseteq Known /\ Sent'
  BY <1>1 DEF Known, Origins, Sent
<1>3. WithBroker \cup dropped \subseteq WithBroker' \cup dropped'
  BY <1>1 DEF WithBroker, Origins
<1> QED BY <1>1, <1>2, <1>3, MoveKept

\* An ACK ends the deliveries with its id, and what it settles counts as done.
LEMMA AckKept ==
    ASSUME WalTypeOK, MessagesOK, Sent, KeptInv, NEW m \in held, AckFrame(m)
    PROVE  KeptInv' /\ Sent'
<1> DEFINE r == [type |-> "ACK", msg_id |-> m.msg_id]
<1>1. /\ log' = Append(log, r) /\ queued' = queued /\ dlq' = dlq
      /\ in_flight' = Without(m.msg_id) /\ dropped' = dropped
      /\ held' = held \ {m} /\ given' = given /\ done' = done \cup {m.body}
      /\ disk' = disk /\ flusher' = flusher
  BY Zenon DEF AckFrame, AddRecord
<1>2. log \in Seq(Entry) /\ r \in Entry
  BY DEF WalTypeOK, Entry, Records, AckRecord, MessagesOK, Published
<1>3. ~IsPublish(r) /\ r.msg_id = m.msg_id
  BY DEF IsPublish
<1> HIDE DEF r
<1>4. \A n \in DOMAIN log' : log'[n] = r \/ (n \in DOMAIN log /\ log'[n] = log[n])
  <2>1. Len(log) \in Nat /\ DOMAIN log = 1..Len(log)
    BY <1>2
  <2>2. /\ DOMAIN log' = 1..(Len(log) + 1) /\ log'[Len(log) + 1] = r
        /\ \A n \in 1..Len(log) : log'[n] = log[n]
    BY <1>1, <1>2, AppendProperties
  <2> QED BY <2>1, <2>2
<1>5. \A n \in DOMAIN log' : IsPublish(log'[n]) => n \in DOMAIN log /\ log'[n] = log[n]
  BY <1>3, <1>4, Zenon
<1>6. PublishesGiven'
  <2>1. \A n \in DOMAIN log' : IsPublish(log'[n]) => MessageOf(log'[n]) \in given'
    BY <1>1, <1>5, Zenon DEF KeptInv, PublishesGiven
  <2>2. ASSUME NEW j \in DOMAIN log', NEW k \in DOMAIN log', j < k,
               IsPublish(log'[j]), IsPublish(log'[k])
        PROVE  log'[j].body # log'[k].body
    <3>1. j \in DOMAIN log /\ log'[j] = log[j] /\ k \in DOMAIN log /\ log'[k] = log[k]
      BY <1>5, <2>2, Zenon
    <3> QED BY <2>2, <3>1, Zenon DEF KeptInv, PublishesGiven
  <2> QED BY <2>1, <2>2, Zenon DEF PublishesGiven
<1>7. BodiesKnown'
  <2>1. Known' \subseteq Known
    BY <1>1 DEF Known, Origins
  <2> QED BY <1>1, <2>1 DEF KeptInv, BodiesKnown
<1>8. NothingMisread'
  <2> SUFFICES ASSUME ~TornInside(disk)
               PROVE  Known' \subseteq given' /\ AcksKnown'
    BY <1>1, Zenon DEF NothingMisread
  <2>1. Known \subseteq given /\ AcksKnown
    BY Zenon DEF KeptInv, NothingMisread
  <2>2. Known' \subseteq given' /\ m \in given
    BY <1>1, <2>1 DEF Known, Origins
  <2>3. m.body \in done' /\ \A x \in done : x \in done'
    BY <1>1
  <2>4. AcksKnown'
    BY <1>1, <1>3, <1>4, <2>1, <2>2, <2>3, Zenon DEF AcksKnown
  <2> QED BY <2>2, <2>4
<1>9. LoggedKept'
  <2> SUFFICES ASSUME Up', ~TornInside(disk'), NEW n \in DOMAIN log', IsPublish(log'[n]),
                      log'[n].body \notin done',
                      \A o \in given' : o.msg_id = MessageOf(log'[n]).msg_id
                                           => o.body = MessageOf(log'[n]).body
               PROVE  MessageOf(log'[n]) \in WithBroker' \cup dropped'
    BY Zenon DEF LoggedKept, Sole
  <2>1. n \in DOMAIN log /\ log'[n] = log[n]
    BY <1>5, Zenon
  <2> DEFINE x == MessageOf(log[n])
  <2>2. x.msg_id = log[n].msg_id /\ x.body = log[n].body
    BY DEF MessageOf
  <2>3. Sole(x) /\ Up /\ ~TornInside(disk)
    BY <1>1, <2>1, Zenon DEF Sole, Up
  <2>4. x \in WithBroker \cup dropped
    BY <1>1, <2>1, <2>3 DEF LoggedKept, KeptInv
  <2>5. m \in given
    BY <2>3 DEF KeptInv, NothingMisread, Known
  <2>6. x.msg_id # m.msg_id
    BY <1>1, <2>1, <2>2, <2>3, <2>5, Zenon DEF Sole
  <2> HIDE DEF x
  <2>7. ASSUME NEW y \in queued \cup in_flight \cup dlq, x = Origin(y) PROVE x \in WithBroker'
    <3>1. y.msg_id # m.msg_id
      BY <2>6, <2>7, OriginKept, Zenon DEF MessagesOK
    <3>2. y \in queued' \cup in_flight' \cup dlq'
      BY <1>1, <3>1 DEF Without
    <3> QED BY <2>7, <3>2 DEF WithBroker, Origins
  <2>8. x \in WithBroker' \cup dropped'
    BY <1>1, <2>4, <2>7 DEF WithBroker, Origins
  <2> QED BY <2>1, <2>8 DEF x
<1>10. Sent'
  <2>1. ASSUME NEW y \in in_flight, y.msg_id # m.msg_id PROVE Origin(y) \in held \ {m}
    <3>1. Origin(y) \in held
      BY Zenon DEF Sent, Origins
    <3>2. Origin(y).msg_id = y.msg_id
      BY OriginKept, Zenon DEF MessagesOK
    <3>3. Origin(y) # m
      BY <2>1, <3>2, Zenon
    <3> QED BY <3>1, <3>3, Zenon
  <2> QED BY <1>1, <2>1 DEF Sent, Origins, Without
<1> QED BY <1>6, <1>7, <1>8, <1>9, <1>10, Zenon DEF KeptInv

\* replay brings back what the file holds and nobody has acked.
LEMMA RestartKept ==
    ASSUME WalTypeOK, LogKept, MessagesOK, KeptInv, Restart
    PROVE  KeptInv'
<1>0. PICK q \in Replays(disk) : queued' = {Fresh(m) : m \in q}
  BY Zenon DEF Restart
<1>1. /\ ~Up
      /\ disk' = disk /\ log' = log /\ given' = given /\ done' = done /\ dropped' = dropped
      /\ held' = held /\ in_flight' = in_flight /\ dlq' = dlq
  BY Zenon DEF Restart, Reopen, Up, history
<1>11. Origins(queued') = q
  <2>0. q \subseteq Published
    BY ReplayedMessages, Zenon DEF WalTypeOK
  <2>1. \A p \in q : Origin(Fresh(p)) = p
    BY <2>0, OriginKept, Zenon
  <2> QED BY <1>0, <2>1 DEF Origins
<1>12. Known' = q \cup Origins(dlq) \cup held /\ q \subseteq WithBroker'
  BY <1>1, <1>11 DEF Known, WithBroker, Origins
<1>2. log = disk
  BY <1>1, FileIsPrefix, Zenon
<1>3. PublishesGiven' /\ (AcksKnown => AcksKnown')
  BY <1>1, Zenon DEF KeptInv, PublishesGiven, AcksKnown
<1>4. PendingIn(disk) \cup BehindTorn(disk) \subseteq given
  <2> SUFFICES ASSUME NEW n \in DOMAIN disk, disk[n].type = "PUBLISH" PROVE MessageOf(disk[n]) \in given
    BY DEF PendingIn, BehindTorn, PublishesIn, Readable
  <2> QED BY <1>2, Zenon DEF KeptInv, PublishesGiven, IsPublish
<1>5. BodiesKnown'
  <2>1. \A m \in q : m \in PendingIn(disk) \cup BehindTorn(disk) \/ m.body = Garbage
    BY DEF Replays
  <2>2. \A m \in q : m.body \in {g.body : g \in given} \cup {Garbage}
    BY <1>4, <2>1
  <2>3. \A m \in Known : m.body \in {g.body : g \in given} \cup {Garbage}
    BY DEF KeptInv, BodiesKnown
  <2>4. \A m \in Known' : m \in q \/ m \in Known
    BY <1>12 DEF Known
  <2> QED BY <1>1, <2>2, <2>3, <2>4, Zenon DEF BodiesKnown
<1>6. NothingMisread'
  <2> SUFFICES ASSUME ~TornInside(disk)
               PROVE  Known' \subseteq given /\ AcksKnown'
    BY <1>1, Zenon DEF NothingMisread
  <2>1. Known \subseteq given /\ AcksKnown
    BY Zenon DEF KeptInv, NothingMisread
  <2>2. q = PendingIn(disk)
    BY DEF Replays
  <2>3. Known' \subseteq given
    BY <1>4, <1>12, <2>1, <2>2 DEF Known
  <2> QED BY <1>3, <2>1, <2>3, Zenon
<1>7. LoggedKept'
  <2> SUFFICES ASSUME ~TornInside(disk), NEW n \in DOMAIN disk, IsPublish(disk[n]),
                      disk[n].body \notin done, Sole(MessageOf(disk[n]))
               PROVE  MessageOf(disk[n]) \in WithBroker'
    BY <1>1, <1>2 DEF LoggedKept, Sole
  <2>1. n \in PublishesIn(disk)
    <3>1. disk \in Seq(Entry)
      BY DEF WalTypeOK, Entry
    <3>2. Len(disk) \in Nat /\ DOMAIN disk = 1..Len(disk)
      BY <3>1
    <3>3. ASSUME NEW k \in 1..n PROVE disk[k] # Torn
      <4>1. CASE k < n
        BY <3>2, <4>1 DEF TornInside
      <4>2. CASE k = n
        BY <4>2 DEF IsPublish, Torn
      <4> QED BY <3>2, <3>3, <4>1, <4>2
    <3> QED BY <3>3 DEF PublishesIn, Readable, IsPublish
  <2>2. disk[n].msg_id \notin AckedIn(disk)
    <3> SUFFICES ASSUME NEW k \in DOMAIN disk, disk[k].type = "ACK", disk[k].msg_id = disk[n].msg_id
                 PROVE  FALSE
      BY DEF AckedIn, Readable
    <3>1. PICK m \in given : m.msg_id = disk[n].msg_id /\ m.body \in done
      BY <1>2, Zenon DEF KeptInv, NothingMisread, AcksKnown
    <3>2. m.body = disk[n].body
      BY <3>1 DEF Sole, MessageOf
    <3> QED BY <3>1, <3>2, Zenon
  <2>3. ASSUME NEW k \in PublishesIn(disk), k > n, disk[k].msg_id = disk[n].msg_id
        PROVE  FALSE
    <3>1. k \in DOMAIN disk /\ IsPublish(disk[k])
      BY DEF PublishesIn, Readable, IsPublish
    <3>2. MessageOf(disk[k]) \in given
      BY <1>2, <3>1, Zenon DEF KeptInv, PublishesGiven
    <3>3. disk[k].body = disk[n].body
      BY <2>3, <3>2 DEF Sole, MessageOf
    <3>4. n < k
      BY <2>3
    <3> QED BY <1>2, <3>1, <3>3, <3>4, Zenon DEF KeptInv, PublishesGiven
  <2>4. MessageOf(disk[n]) \in PendingIn(disk)
    BY <2>1, <2>2, <2>3 DEF PendingIn
  <2>5. q = PendingIn(disk)
    BY DEF Replays
  <2> QED BY <1>12, <2>4, <2>5
<1> QED BY <1>3, <1>5, <1>6, <1>7, Zenon DEF KeptInv

\* A message that is durable stays until it is acked, at every step.
LEMMA KeptStep ==
    ASSUME WalTypeOK, LogKept, MessagesOK, Sent, KeptInv, [Next]_vars
    PROVE  KeptInv' /\ Sent'
<1>1. ASSUME NEW b \in Bodies, AppendAndPush(b) PROVE KeptInv' /\ Sent'
  <2>1. in_flight' = in_flight /\ held' = held
    BY <1>1, Zenon DEF AppendAndPush
  <2> QED BY <1>1, <2>1, PublishKept DEF Sent
<1>2. ASSUME NEW m \in queued, Deliver(m) \/ Drop(m) PROVE KeptInv' /\ Sent'
  BY <1>2, DeliverKept, DropKept
<1>3. ASSUME NEW m \in in_flight, Fail(m) PROVE KeptInv' /\ Sent'
  BY <1>3, FailKept
<1>31. ASSUME NEW m \in dlq, Republish(m) PROVE KeptInv' /\ Sent'
  BY <1>31, RepublishKept
<1>4. ASSUME NEW m \in held, AckFrame(m) PROVE KeptInv' /\ Sent'
  BY <1>4, AckKept
<1>5. ASSUME Flush \/ Stop PROVE KeptInv' /\ Sent'
  <2>1. /\ given' = given /\ done' = done /\ held' = held
        /\ queued' \subseteq queued /\ in_flight' \subseteq in_flight /\ dlq' \subseteq dlq
        /\ FlushStep \/ Crash \/ FinalFlush
    BY <1>5 DEF Flush, Stop, brokerVars, history
  <2>0. Known' \subseteq Known /\ Sent'
    BY <2>1 DEF Known, Origins, Sent
  <2>2. OnlyShrinks
    BY <2>1, ShrinkingSteps, Zenon
  <2>3. PublishesGiven' /\ (AcksKnown => AcksKnown')
    BY <2>1, <2>2, ShrinkKeeps, Zenon DEF KeptInv
  <2>4. BodiesKnown'
    BY <2>0, <2>1 DEF KeptInv, BodiesKnown
  <2>5. NothingMisread'
    <3>1. Known \subseteq given => Known' \subseteq given
      BY <2>0
    <3> QED BY <2>1, <2>2, <2>3, <3>1, Zenon DEF KeptInv, NothingMisread, OnlyShrinks
  <2>6. LoggedKept'
    <3>1. CASE Flush
      <4>1. /\ log' = log /\ queued' = queued /\ in_flight' = in_flight /\ dlq' = dlq
            /\ dropped' = dropped /\ Up
        BY <3>1 DEF Flush, FlushStep, SwapBuffers, WriteRecord, FlushDone, brokerVars, history, Up
      <4>2. WithBroker' = WithBroker
        BY <4>1 DEF WithBroker, Origins
      <4> QED BY <2>1, <2>2, <4>1, <4>2, Zenon DEF KeptInv, LoggedKept, OnlyShrinks, Sole
    <3>2. CASE Stop
      <4>1. ~Up'
        BY <3>2 DEF Stop, Crash, FinalFlush, Up
      <4> QED BY <4>1, Zenon DEF LoggedKept
    <3> QED BY <1>5, <3>1, <3>2
  <2> QED BY <2>0, <2>3, <2>4, <2>5, <2>6 DEF KeptInv
<1>6. ASSUME Restart PROVE KeptInv' /\ Sent'
  <2>1. in_flight' = in_flight /\ held' = held
    BY <1>6, Zenon DEF Restart
  <2> QED BY <1>6, <2>1, RestartKept DEF Sent
<1>7. CASE UNCHANGED vars
  <2>1. /\ queued' = queued /\ in_flight' = in_flight /\ dlq' = dlq /\ held' = held
        /\ dropped' = dropped
        /\ disk' = disk /\ log' = log /\ flusher' = flusher /\ given' = given /\ done' = done
    BY <1>7 DEF vars, walVars, brokerVars, history
  <2>2. Known' = Known /\ WithBroker' = WithBroker /\ Sent'
    BY <2>1 DEF Known, WithBroker, Origins, Sent
  <2> QED BY <2>1, <2>2, MoveKept
<1> QED
  BY <1>1, <1>2, <1>3, <1>31, <1>4, <1>5, <1>6, <1>7, Zenon DEF Next, Publish, Audit

\* The inductive invariant of the broker's life.
LifeInv == WalTypeOK /\ LogKept /\ MessagesOK /\ Sent /\ KeptInv

\* It holds at the start and after every step.
LEMMA LifeInductive == (Init => LifeInv) /\ (LifeInv /\ [Next]_vars => LifeInv')
<1>1. ASSUME Init PROVE LifeInv
  <2>1. WalTypeOK /\ LogKept /\ MessagesOK /\ Sent
    BY <1>1, ConcatEmptySeq DEF Init, WalInit, WalTypeOK, LogKept, MessagesOK, Sent, Origins
  <2>2. log = <<>> /\ disk = <<>> /\ Known = {}
    BY <1>1 DEF Init, WalInit, Known, Origins
  <2>3. DOMAIN log = {}
    BY <2>2
  <2>4. KeptInv
    BY <2>2, <2>3 DEF KeptInv, PublishesGiven, BodiesKnown, NothingMisread, AcksKnown, LoggedKept
  <2> QED BY <2>1, <2>4 DEF LifeInv
<1>2. ASSUME LifeInv, [Next]_vars PROVE LifeInv'
  <2>1. MessagesOK' /\ [WalNext]_walVars
    BY <1>2, RecoveryStep DEF LifeInv
  <2>2. WalTypeOK' /\ LogKept'
    <3>1. CASE WalNext
      BY <1>2, <3>1, WalTypeStep, LogStep DEF LifeInv
    <3>2. CASE UNCHANGED walVars
      BY <1>2, <3>2 DEF LifeInv, walVars, WalTypeOK, LogKept
    <3> QED BY <2>1, <3>1, <3>2
  <2>3. KeptInv' /\ Sent'
    BY <1>2, KeptStep DEF LifeInv
  <2> QED BY <2>1, <2>2, <2>3 DEF LifeInv
<1> QED BY <1>1, <1>2

\* In the broker's life, with crashes, torn writes and restarts, the log keeps
\* every record that was added, in order.
THEOREM BrokerLogIntact == Spec => []LogKept
<1>1. LifeInv => LogKept
  BY DEF LifeInv
<1> QED BY <1>1, LifeInductive, PTL DEF Spec

\* A message that is in the file, alone with its id and not acked, is with the
\* broker whenever it runs, queued, in flight or dead-lettered, unless this run
\* of the broker had no subscriber for it; so it is after any number of crashes
\* and restarts.
THEOREM DurableNeverLost == Spec => []DurableKept
<1>1. LifeInv => DurableKept
  <2> SUFFICES ASSUME LifeInv, Up, NEW i \in MsgIds, NEW b \in Bodies \ done,
                      Durable([type |-> "PUBLISH", msg_id |-> i, body |-> b]),
                      \A m \in given : m.msg_id = i => m.body = b, ~TornInside(disk)
               PROVE  [msg_id |-> i, body |-> b] \in WithBroker \cup dropped
    BY Zenon DEF DurableKept
  <2> DEFINE r == [type |-> "PUBLISH", msg_id |-> i, body |-> b]
  <2>1. PICK n \in DOMAIN disk : disk[n] = r
    BY DEF Durable, Readable
  <2>2. n \in DOMAIN log /\ log[n] = r
    BY <2>1, FileIsPrefix DEF LifeInv
  <2>3. IsPublish(r) /\ r.body = b /\ MessageOf(r) = [msg_id |-> i, body |-> b]
    BY DEF IsPublish, MessageOf
  <2>4. Sole(MessageOf(r))
    BY <2>3 DEF Sole
  <2> HIDE DEF r
  <2>5. MessageOf(r) \in WithBroker \cup dropped
    BY <2>2, <2>3, <2>4 DEF LifeInv, KeptInv, LoggedKept
  <2> QED BY <2>3, <2>5
<1> QED BY <1>1, LifeInductive, PTL DEF Spec

\* The broker's queue and the consumer hold messages that were given or
\* misread, and nothing else, whatever stops and restarts.
THEOREM LifeTypes == Spec => []TypeOK
<1> DEFINE Rest == /\ next_id \in Nat /\ stops \in 0..MaxStops
                   /\ given \subseteq [msg_id : MsgIds, body : Bodies]
                   /\ done \subseteq {m.body : m \in given} \cup {Garbage}
           Flag == auditing \in BOOLEAN
<1>1. Init => Rest
  BY StopsBounded DEF Init
<1>2. LifeInv /\ Rest /\ [Next]_vars => Rest'
  <2> SUFFICES ASSUME LifeInv, Rest, [Next]_vars PROVE Rest'
    OBVIOUS
  <2>1. ASSUME NEW b \in Bodies, AppendAndPush(b) PROVE Rest'
    BY <2>1 DEF AppendAndPush
  <2>2. ASSUME NEW m \in held, AckFrame(m) PROVE Rest'
    <3>1. m.body \in {g.body : g \in given} \cup {Garbage}
      BY DEF LifeInv, KeptInv, BodiesKnown, Known
    <3> QED BY <2>2, <3>1 DEF AckFrame
  <2>3. CASE Stop
    <3>1. /\ stops < MaxStops /\ stops' = stops + 1
          /\ next_id' = next_id /\ given' = given /\ done' = done
      BY <2>3, Zenon DEF Stop
    <3> QED BY <3>1, StopsBounded
  <2>4. CASE Restart
    <3>1. next_id' = 1 /\ stops' = stops /\ given' = given /\ done' = done
      BY <2>4, Zenon DEF Restart, history
    <3> QED BY <3>1
  <2>5. CASE next_id' = next_id /\ stops' = stops /\ given' = given /\ done' = done
    BY <2>5
  <2> QED
    BY <2>1, <2>2, <2>3, <2>4, <2>5, Zenon
    DEF Next, Publish, Audit, Deliver, Drop, Fail, Republish, Flush, vars, brokerVars, history
<1>3. (Init => Flag) /\ (Flag /\ [Next]_vars => Flag')
  <2>1. Init => Flag
    BY Zenon DEF Init
  <2>2. Next => auditing' = auditing \/ auditing' = TRUE \/ auditing' = FALSE
    BY Zenon DEF Next, Publish, Audit, Deliver, Drop, Fail, Republish, AckFrame, Flush, Stop,
                 Restart, brokerVars
  <2>3. UNCHANGED vars => auditing' = auditing
    BY Zenon DEF vars, brokerVars
  <2> QED BY <2>1, <2>2, <2>3, Zenon
<1>4. LifeInv /\ Rest /\ Flag => TypeOK
  BY Zenon DEF LifeInv, MessagesOK, Published, Sent, TypeOK
<1> QED BY <1>1, <1>2, <1>3, <1>4, LifeInductive, PTL DEF Spec
==============================================================================
