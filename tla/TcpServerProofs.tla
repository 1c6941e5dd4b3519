--------------------------- MODULE TcpServerProofs ---------------------------
(***************************************************************************)
(* TcpServer's safety properties, for any number of descriptors,           *)
(* connections, frames and pieces.                                         *)
(***************************************************************************)
EXTENDS TcpServer, TLAPS

\* The part of the inductive invariant that is about descriptors, threads and
\* calls of send_to, and why every step keeps it.

\* A handler thread that has not ended.
Active == {"recv", "close", "erase", "notify"}

\* c has its descriptor: from accept to close.
HasSock(c) == c <= conns /\ table[sock[c]] = c

\* c is accepted and not yet registered.
NewOne(c) == acceptor = "accepted" /\ c = conns

\* s is inside the loop of send_to for the ClientConn c.
Holds(s, c) == task[s].conn = c /\ task[s].at \in {"call", "send"}

\* The descriptor table and the handlers agree.
TableInv ==
    /\ \A f \in Fds : table[f] # None => sock[table[f]] = f
    /\ \A c \in Conns : handler[c] \in Active => c <= conns
    /\ \A c \in Conns : c <= conns /\ (handler[c] \in {"recv", "close"} \/ NewOne(c)) =>
            HasSock(c)
    /\ \A c \in Conns : HasSock(c) => handler[c] \in {"recv", "close"} \/ NewOne(c)
    /\ acceptor = "accepted" => conns > 0
    /\ acceptor # "done" => \A c \in Conns :
            handler[c] = "none" <=> c > conns \/ NewOne(c)

\* Whoever is registered or subscribed has not yet cleaned up.
EntriesInv ==
    /\ \A f \in Fds : clients[f] # None =>
        sock[clients[f]] = f /\ handler[clients[f]] \in {"recv", "close", "erase"}
    /\ \A f \in Fds : subscribed[f] # None =>
        sock[subscribed[f]] = f /\ handler[subscribed[f]] \in Active

\* The fields of a call of send_to.
FieldsOK(s) ==
    /\ task[s].at = "idle" => task[s] = Idle
    /\ task[s].at # "idle" => task[s].id # None /\ task[s].for # None /\ task[s].frame > 0
    /\ task[s].at \in {"idle", "lookup"} <=> task[s].conn = None
    /\ task[s].conn # None => task[s].conn <= conns /\ sock[task[s].conn] = task[s].id
    /\ task[s].at = "send" <=> task[s].on # None
    /\ task[s].on # None => task[s].on <= conns
    /\ task[s].at \in {"idle", "lookup", "lock"} => task[s].sent = 0
    /\ task[s].at # "idle" => task[s].sent < Pieces

LockInv == \A c \in Conns, s \in Senders : send_mu[c] = s <=> Holds(s, c)

\* Connections to come have neither history nor calls.
TaskInv ==
    /\ \A s \in Senders : FieldsOK(s)
    /\ LockInv
    /\ \A c \in Conns : c > conns => stream[c] = <<>> /\ ~fresh[c]
    /\ \A c \in Conns : task[c] # Idle => handler[c] = "recv"

------------------------------------------------------------------------------
\* None is nobody and nothing; the dispatcher is not a connection.
LEMMA Constants ==
    /\ None \notin Conns /\ None \notin Senders /\ None \notin Fds
    /\ Conns \subseteq Senders /\ Dispatcher \in Senders \ Conns
    /\ Conns \subseteq Nat /\ MaxConns \in Nat /\ MaxFrames \in Nat 
    /\ Pieces \in Nat \ {0} /\ 0 \in 0..Pieces
    /\ \A n \in Nat : n < MaxConns => n + 1 \in Conns
    /\ \A n \in 0..MaxConns : n > 0 => n \in Conns
    /\ \A c \in Conns : c \in 1..MaxConns
BY FdsPositive, SizesNat DEF None, Conns, Senders, Dispatcher

\* A handler that has not ended has a descriptor, and so has a registered or
\* accepted connection.
LEMMA SockIsFd ==
    ASSUME TypeOK, TableInv
    PROVE  /\ \A c \in Conns : c <= conns => sock[c] \in Fds
           /\ \A c \in Conns : handler[c] \in Active => sock[c] \in Fds
           /\ acceptor = "accepted" => conns \in Conns /\ sock[conns] \in Fds
BY Constants DEF TypeOK, TableInv

\* A descriptor's connection has been accepted.
LEMMA TableConn ==
    ASSUME TypeOK, TableInv, NEW f \in Fds, table[f] # None
    PROVE  /\ table[f] \in Conns /\ table[f] <= conns /\ sock[table[f]] = f
           /\ HasSock(table[f])
<1>1. table[f] \in Conns /\ sock[table[f]] = f
  BY DEF TypeOK, TableInv
<1> QED
  BY Zenon, <1>1, Constants DEF TypeOK, HasSock

\* The call of s is at another point of send_to, the other calls are where
\* they were.
Moved(s, at, conn, sent, on) ==
    /\ task' \in [Senders -> Task]
    /\ task'[s].at = at /\ task'[s].conn = conn /\ task'[s].sent = sent
    /\ task'[s].on = on /\ task'[s].id = task[s].id
    /\ task'[s].frame = task[s].frame /\ task'[s].for = task[s].for
    /\ \A r \in Senders : r # s => task'[r] = task[r]

\* The call of s has returned.
Ended(s) ==
    /\ task' \in [Senders -> Task] /\ task'[s] = Idle
    /\ \A r \in Senders : r # s => task'[r] = task[r]

\* s has called send_to.
Called(s, f, c) ==
    /\ task' \in [Senders -> Task]
    /\ task'[s].at = "lookup" /\ task'[s].conn = None /\ task'[s].sent = 0
    /\ task'[s].on = None /\ task'[s].id = f
    /\ task'[s].frame = frames + 1 /\ task'[s].for = c
    /\ \A r \in Senders : r # s => task'[r] = task[r]

\* The assignments of task do that.
LEMMA MovesAt ==
    ASSUME TypeOK, NEW s \in Senders, NEW at \in {"lock", "call", "send"},
           NEW conn \in Conns, NEW sent \in 0..Pieces, NEW on \in Conns \cup {None},
           task' = [task EXCEPT ![s] = At(task[s], at, conn, sent, on)]
    PROVE  Moved(s, at, conn, sent, on)
BY Zenon DEF TypeOK, Task, At, Moved

\* A call of send_to that returns.
LEMMA Ends ==
    ASSUME TypeOK, NEW s \in Senders, task' = [task EXCEPT ![s] = Idle]
    PROVE  Ended(s)
BY Constants DEF TypeOK, Task, Idle, Ended

\* A call of send_to that begins.
LEMMA Calls ==
    ASSUME TypeOK, NEW s \in Senders, NEW f \in Fds, NEW c \in Conns, CallSendTo(s, f, c)
    PROVE  Called(s, f, c)
BY Constants DEF TypeOK, Task, CallSendTo, Called

\* The calls of send_to, step by step.
LEMMA LookupMoves ==
    ASSUME TypeOK, TaskInv, NEW s \in Senders, Lookup(s)
    PROVE  /\ task[s].id \in Fds
           /\ IF clients[task[s].id] = None THEN Ended(s)
              ELSE Moved(s, "lock", clients[task[s].id], 0, None)
<1>1. task[s] \in Task /\ task[s].id \in Fds
  BY Zenon DEF TypeOK, TaskInv, FieldsOK, Lookup, Task
<1>2. clients[task[s].id] \in Conns \cup {None}
  BY Zenon, <1>1 DEF TypeOK
<1>3. CASE clients[task[s].id] = None
  <2>1. task' = [task EXCEPT ![s] = Idle]
    BY Zenon, <1>3 DEF Lookup
  <2> QED
    BY Zenon, <1>1, <1>3, <2>1, Ends
<1>4. CASE clients[task[s].id] # None
  <2>1. task' = [task EXCEPT ![s] = At(task[s], "lock", clients[task[s].id], 0, None)]
    BY <1>4, Zenon DEF Lookup
  <2> QED
    BY Zenon, <1>1, <1>2, <1>4, <2>1, MovesAt, Constants
<1> QED
  BY Zenon, <1>3, <1>4

\* A sender that gets send_mu is about to call send.
LEMMA LockMoves ==
    ASSUME TypeOK, TaskInv, NEW s \in Senders, LockConn(s)
    PROVE  task[s].conn \in Conns /\ Moved(s, "call", task[s].conn, 0, None)
<1>1. task[s] \in Task /\ task[s].conn \in Conns /\ task[s].sent = 0
  BY Zenon DEF TypeOK, TaskInv, FieldsOK, LockConn, Task
<1>2. task' = [task EXCEPT ![s] = At(task[s], "call", task[s].conn, 0, None)]
  BY <1>1, Zenon DEF LockConn
<1> QED
  BY Zenon, <1>1, <1>2, MovesAt, Constants

\* A call of send fails on a closed descriptor and else works on its present user.
LEMMA CallMoves ==
    ASSUME TypeOK, TableInv, TaskInv, NEW s \in Senders, CallSend(s)
    PROVE  /\ task[s].conn \in Conns /\ sock[task[s].conn] \in Fds
           /\ IF table[sock[task[s].conn]] = None THEN Ended(s)
              ELSE Moved(s, "send", task[s].conn, task[s].sent, table[sock[task[s].conn]])
<1>1. task[s] \in Task /\ task[s].conn \in Conns /\ task[s].conn <= conns
      /\ task[s].sent \in 0..Pieces
  BY Zenon DEF TypeOK, TaskInv, FieldsOK, CallSend, Task
<1>2. sock[task[s].conn] \in Fds
  BY Zenon, <1>1, SockIsFd
<1>3. table[sock[task[s].conn]] \in Conns \cup {None}
  BY Zenon, <1>2 DEF TypeOK
<1>4. CASE table[sock[task[s].conn]] = None
  BY Zenon, <1>1, <1>2, <1>4, Ends DEF CallSend, EndSend
<1>5. CASE table[sock[task[s].conn]] # None
  <2>1. task' = [task EXCEPT ![s] = At(task[s], "send", task[s].conn, task[s].sent,
                                       table[sock[task[s].conn]])]
    BY <1>5, Zenon DEF CallSend
  <2> QED
    BY Zenon, <1>1, <1>2, <1>3, <1>5, <2>1, MovesAt, Constants
<1> QED
  BY Zenon, <1>4, <1>5

\* A sender inside send has pieces left, and sends the next one or gives up.
LEMMA SendMoves ==
    ASSUME TypeOK, TaskInv, NEW s \in Senders, task[s].at = "send"
    PROVE  /\ task[s].conn \in Conns /\ task[s].on \in Conns /\ task[s].on <= conns
           /\ task[s].sent \in 0..(Pieces - 1)
           /\ [frame |-> task[s].frame, piece |-> task[s].sent + 1, for |-> task[s].for] \in Piece
           /\ SendPiece(s) =>
                IF task[s].sent + 1 = Pieces THEN Ended(s)
                ELSE Moved(s, "call", task[s].conn, task[s].sent + 1, None)
           /\ SendFails(s) => Ended(s)
<1>1. /\ task[s] \in Task /\ task[s].conn \in Conns /\ task[s].on \in Conns
      /\ task[s].on <= conns /\ task[s].sent \in 0..Pieces /\ task[s].sent < Pieces
      /\ task[s].frame \in 1..MaxFrames /\ task[s].for \in Conns
  BY Constants DEF TypeOK, TaskInv, FieldsOK, Task
<1>2. [frame |-> task[s].frame, piece |-> task[s].sent + 1, for |-> task[s].for] \in Piece
  BY <1>1, Constants DEF Piece
<1>3. ASSUME SendPiece(s), task[s].sent + 1 # Pieces
      PROVE  Moved(s, "call", task[s].conn, task[s].sent + 1, None)
  <2>1. task' = [task EXCEPT ![s] = At(task[s], "call", task[s].conn, task[s].sent + 1, None)]
    BY <1>3, Zenon DEF SendPiece
  <2>2. task[s].sent + 1 \in 0..Pieces
    BY <1>1, Constants
  <2> QED
    BY Zenon, <1>1, <2>1, <2>2, MovesAt, Constants
<1>4. ASSUME SendPiece(s), task[s].sent + 1 = Pieces PROVE Ended(s)
  BY Zenon, <1>4, Ends DEF SendPiece, EndSend
<1>5. ASSUME SendFails(s) PROVE Ended(s)
  BY Zenon, <1>5, Ends DEF SendFails, EndSend
<1> QED
  BY <1>1, <1>2, <1>3, <1>4, <1>5, Constants
------------------------------------------------------------------------------
\* Every operation keeps the types, given that send_to stops at the frame's end.
LEMMA TypeStep == TypeOK /\ TableInv /\ TaskInv /\ [Next]_vars => TypeOK'
<1> SUFFICES ASSUME TypeOK, TableInv, TaskInv, [Next]_vars PROVE TypeOK'
  BY Zenon
<1>1. CASE UNCHANGED vars
  BY Zenon, <1>1 DEF TypeOK, vars, serverVars, threadVars, systemVars
<1>2. ASSUME NEW f \in Fds, Accept(f) PROVE TypeOK'
  BY <1>2, Constants DEF TypeOK, Accept, threadVars
<1>3. CASE Register
  <2>1. conns \in Conns /\ sock[conns] \in Fds
    BY Zenon, <1>3, SockIsFd DEF Register
  <2> QED
    BY Zenon, <1>3, <2>1 DEF TypeOK, Register, systemVars
<1>4. CASE AcceptLoopEnds
  BY Zenon, <1>4 DEF TypeOK, AcceptLoopEnds, threadVars, systemVars
<1>5. ASSUME NEW c \in Conns, Handler(c) PROVE TypeOK'
  <2> USE DEF serverVars, systemVars
  <2>0. handler[c] \in Active => sock[c] \in Fds
    BY Zenon, SockIsFd
  <2>1. CASE OnSubscribe(c)
    BY Zenon, <2>0, <2>1 DEF TypeOK, OnSubscribe, Receiving, Active
  <2>2. CASE OnHeartbeat(c)
    <3>1. CallSendTo(c, sock[c], c) /\ sock[c] \in Fds /\ c \in Senders
      BY Zenon, <2>0, <2>2, Constants DEF OnHeartbeat, Receiving, Active
    <3>2. task' \in [Senders -> Task]
      BY Zenon, <3>1, Calls DEF Called
    <3>3. frames' \in 0..MaxFrames
      BY <3>1, Constants DEF TypeOK, CallSendTo
    <3> QED
      BY Zenon, <2>2, <3>2, <3>3 DEF TypeOK, OnHeartbeat
  <2>3. CASE RecvFails(c)
    BY Zenon, <2>3 DEF TypeOK, RecvFails
  <2>4. CASE LoopEnds(c)
    BY Zenon, <2>4 DEF TypeOK, LoopEnds
  <2>5. CASE CloseSock(c)
    BY Zenon, <2>0, <2>5 DEF TypeOK, CloseSock, Active
  <2>6. CASE EraseClient(c)
    BY Zenon, <2>0, <2>6 DEF TypeOK, EraseClient, Active
  <2>7. CASE Notify(c)
    BY Zenon, <2>0, <2>7 DEF TypeOK, Notify, Active
  <2> QED
    BY Zenon, <1>5, <2>1, <2>2, <2>3, <2>4, <2>5, <2>6, <2>7 DEF Handler
<1>6. CASE Route
  BY Zenon, <1>6 DEF TypeOK, Route, serverVars, systemVars
<1>7. ASSUME NEW f \in Fds, NextTarget(f) PROVE TypeOK'
  <2>1. CallSendTo(Dispatcher, f, targets[f]) /\ targets[f] \in Conns /\ Dispatcher \in Senders
    BY Zenon, <1>7, Constants DEF NextTarget, TypeOK
  <2>2. task' \in [Senders -> Task]
    BY Zenon, <2>1, Calls DEF Called
  <2>3. frames' \in 0..MaxFrames
    BY <2>1, Constants DEF TypeOK, CallSendTo
  <2> QED
    BY Zenon, <1>7, <2>2, <2>3 DEF TypeOK, NextTarget, serverVars, systemVars
<1>8. ASSUME NEW s \in Senders, SendTo(s) PROVE TypeOK'
  <2> USE DEF systemVars
  <2>1. CASE Lookup(s)
    <3>1. task' \in [Senders -> Task]
      BY Zenon, <2>1, LookupMoves DEF Moved, Ended
    <3> QED
      BY Zenon, <2>1, <3>1 DEF TypeOK, Lookup, serverVars
  <2>2. CASE LockConn(s)
    <3>1. task' \in [Senders -> Task] /\ task[s].conn \in Conns
      BY Zenon, <2>2, LockMoves DEF Moved
    <3> QED
      BY Zenon, <2>2, <3>1 DEF TypeOK, LockConn
  <2>3. CASE CallSend(s)
    <3>1. task' \in [Senders -> Task] /\ task[s].conn \in Conns
      BY Zenon, <2>3, CallMoves DEF Moved, Ended
    <3>2. send_mu' \in [Conns -> Senders \cup {None}]
      BY Zenon, <2>3, <3>1 DEF TypeOK, CallSend, EndSend
    <3> QED
      BY Zenon, <2>3, <3>1, <3>2 DEF TypeOK, CallSend
  <2>4. CASE SendPiece(s)
    <3>0. task[s].at = "send"
      BY Zenon, <2>4 DEF SendPiece, Sending
    <3>1. task' \in [Senders -> Task] /\ task[s].conn \in Conns
      BY Zenon, <2>4, <3>0, SendMoves DEF Moved, Ended
    <3>2. send_mu' \in [Conns -> Senders \cup {None}]
      BY Zenon, <2>4, <3>1 DEF TypeOK, SendPiece, EndSend
    <3>3. stream' \in [Conns -> Seq(Piece)]
      <4> DEFINE p == [frame |-> task[s].frame, piece |-> task[s].sent + 1, for |-> task[s].for]
      <4>1. p \in Piece /\ task[s].on \in Conns
        BY Zenon, <3>0, SendMoves
      <4>2. stream' = [stream EXCEPT ![task[s].on] = Append(stream[task[s].on], p)]
        BY <2>4, Zenon DEF SendPiece
      <4> HIDE DEF p
      <4> QED
        BY <4>1, <4>2 DEF TypeOK
    <3> QED
      BY Zenon, <2>4, <3>1, <3>2, <3>3 DEF TypeOK, SendPiece
  <2>5. CASE SendFails(s)
    <3>1. task' \in [Senders -> Task] /\ task[s].conn \in Conns
      BY Zenon, <2>5, SendMoves DEF SendFails, Ended
    <3> QED
      BY Zenon, <2>5, <3>1 DEF TypeOK, SendFails, EndSend
  <2>6. CASE SigPipe(s)
    <3>1. Idle \in Task
      BY Constants DEF Task, Idle
    <3> QED
      BY Zenon, <2>6, <3>1 DEF TypeOK, SigPipe
  <2> QED
    BY Zenon, <1>8, <2>1, <2>2, <2>3, <2>4, <2>5, <2>6 DEF SendTo
<1>9. ASSUME NEW c \in Conns, PeerLeaves(c) PROVE TypeOK'
  BY Zenon, <1>9 DEF TypeOK, PeerLeaves, serverVars, threadVars
<1> QED
  BY Zenon, <1>1, <1>2, <1>3, <1>4, <1>5, <1>6, <1>7, <1>8, <1>9 DEF Next, AcceptThread

\* The steps that neither start nor end a connection or a thread's life.
Quiet ==
    \/ \E c \in Conns : OnSubscribe(c) \/ OnHeartbeat(c) \/ PeerLeaves(c)
    \/ Route \/ \E f \in Fds : NextTarget(f)
    \/ \E s \in Senders : Lookup(s) \/ LockConn(s) \/ CallSend(s) \/ SendPiece(s) \/ SendFails(s)

\* Quiet steps change neither descriptors nor handlers.
LEMMA QuietSame == Quiet => UNCHANGED <<acceptor, conns, sock, handler, table, fresh>>
BY Zenon DEF Quiet, OnSubscribe, OnHeartbeat, PeerLeaves, Route, NextTarget, Lookup, LockConn,
   CallSend, SendPiece, SendFails, serverVars, threadVars, systemVars

\* The others.
LEMMA StepCases ==
    ASSUME [Next]_vars
    PROVE  \/ UNCHANGED vars \/ Quiet
           \/ \E f \in Fds : Accept(f)
           \/ Register \/ AcceptLoopEnds
           \/ \E c \in Conns : \/ RecvFails(c) \/ LoopEnds(c) \/ CloseSock(c)
                               \/ EraseClient(c) \/ Notify(c)
           \/ \E s \in Senders : SigPipe(s)
BY Zenon DEF Next, AcceptThread, Handler, SendTo, Quiet

\* Descriptors, connections and handlers stay in agreement.
LEMMA TableStep == TypeOK /\ TableInv /\ [Next]_vars => TableInv'
<1> SUFFICES ASSUME TypeOK, TableInv, [Next]_vars PROVE TableInv'
  BY Zenon
<1> USE DEF HasSock, NewOne, Active
<1>1. CASE UNCHANGED vars \/ Quiet
  <2>1. UNCHANGED <<acceptor, conns, sock, handler, table>>
    BY Zenon, <1>1, QuietSame DEF vars, serverVars, threadVars, systemVars
  <2> QED
    BY Zenon, <2>1 DEF TableInv
<1>2. ASSUME NEW f \in Fds, Accept(f) PROVE TableInv'
  BY SMTT(40), <1>2, Constants DEF TypeOK, TableInv, Accept, threadVars
<1>3. CASE Register
  BY SMTT(40), <1>3, SockIsFd, Constants DEF TypeOK, TableInv, Register, systemVars
<1>4. CASE AcceptLoopEnds
  BY Zenon, <1>4 DEF TypeOK, TableInv, AcceptLoopEnds, threadVars, systemVars
<1>5. ASSUME NEW c \in Conns, RecvFails(c) \/ LoopEnds(c) \/ EraseClient(c) \/ Notify(c)
      PROVE  TableInv'
  BY <1>5 DEF TypeOK, TableInv, RecvFails, LoopEnds, EraseClient, Notify, Receiving,
     serverVars, systemVars
<1>6. ASSUME NEW c \in Conns, CloseSock(c) PROVE TableInv'
  <2>1. /\ sock[c] \in Fds /\ handler[c] = "close" /\ handler' = [handler EXCEPT ![c] = "erase"]
        /\ table' = [table EXCEPT ![sock[c]] = None] /\ table[sock[c]] = c
        /\ UNCHANGED <<acceptor, conns, sock>> /\ ~NewOne(c)
    BY Zenon, <1>6, SockIsFd, Constants DEF TableInv, CloseSock, serverVars
  <2>2. \A d \in Conns : HasSock(d)' <=> HasSock(d) /\ d # c
    BY SMTT(40), <2>1, SockIsFd, Constants DEF TypeOK, TableInv
  <2> HIDE DEF HasSock, NewOne
  <2>3. \A d \in Conns : NewOne(d)' = NewOne(d)
    BY Zenon, <2>1 DEF NewOne
  <2> QED
    BY <2>1, <2>2, <2>3, Constants DEF TypeOK, TableInv
<1>7. ASSUME NEW s \in Senders, SigPipe(s) PROVE TableInv'
  BY SMTT(40), <1>7, Constants, SockIsFd DEF TypeOK, TableInv, SigPipe
<1> QED
  BY Zenon, <1>1, <1>2, <1>3, <1>4, <1>5, <1>6, <1>7, StepCases

\* What is registered and subscribed belongs to handlers that are not through.
LEMMA EntriesStep == TypeOK /\ TableInv /\ EntriesInv /\ [Next]_vars => EntriesInv'
<1> SUFFICES ASSUME TypeOK, TableInv, EntriesInv, [Next]_vars PROVE EntriesInv'
  BY Zenon
<1> USE DEF Active
<1>1. CASE UNCHANGED vars
  BY Zenon, <1>1 DEF EntriesInv, vars, serverVars, threadVars
<1>2. CASE Quiet
  <2>1. UNCHANGED <<sock, handler>>
    BY Zenon, <1>2, QuietSame
  <2>2. UNCHANGED clients
    BY <1>2, Zenon DEF Quiet, OnSubscribe, OnHeartbeat, PeerLeaves, Route, NextTarget, Lookup,
       LockConn, CallSend, SendPiece, SendFails, serverVars, threadVars, systemVars
  <2>3. ASSUME NEW c \in Conns, OnSubscribe(c) PROVE EntriesInv'
    BY SMTT(40), <2>1, <2>2, <2>3, SockIsFd, Constants DEF TypeOK, EntriesInv,
       OnSubscribe, Receiving
  <2>4. CASE UNCHANGED subscribed
    BY Zenon, <2>1, <2>2, <2>4 DEF EntriesInv
  <2> QED
    BY <1>2, <2>3, <2>4, Zenon DEF Quiet, OnHeartbeat, PeerLeaves, Route, NextTarget, Lookup,
       LockConn, CallSend, SendPiece, SendFails, serverVars, threadVars, systemVars
<1>3. ASSUME NEW f \in Fds, Accept(f) PROVE EntriesInv'
  <2>1. \A c \in Conns : handler[c] \in Active => sock'[c] = sock[c]
    BY <1>3, Constants DEF TypeOK, TableInv, Accept
  <2> QED
    BY <1>3, <2>1, Constants DEF TypeOK, EntriesInv, Accept, threadVars
<1>4. CASE Register
  BY <1>4, SockIsFd, Constants DEF TypeOK, EntriesInv, Register, systemVars
<1>5. CASE AcceptLoopEnds
  BY Zenon, <1>5 DEF EntriesInv, AcceptLoopEnds, threadVars
<1>6. ASSUME NEW c \in Conns, RecvFails(c) \/ LoopEnds(c) \/ CloseSock(c) PROVE EntriesInv'
  <2>1. UNCHANGED <<clients, sock, subscribed>> /\ handler'[c] \in {"close", "erase"}
        /\ \A d \in Conns : d # c => handler'[d] = handler[d]
    BY Zenon, <1>6 DEF TypeOK, RecvFails, LoopEnds, CloseSock, serverVars
  <2>2. \A f \in Fds : clients[f] \in Conns \cup {None} /\ subscribed[f] \in Conns \cup {None}
    BY Zenon DEF TypeOK
  <2>3. \A f \in Fds : clients'[f] # None =>
            sock'[clients'[f]] = f /\ handler'[clients'[f]] \in {"recv", "close", "erase"}
    BY Zenon, <2>1, <2>2 DEF EntriesInv
  <2>4. \A f \in Fds : subscribed'[f] # None =>
            sock'[subscribed'[f]] = f /\ handler'[subscribed'[f]] \in Active
    BY SMTT(40), <2>1, <2>2 DEF EntriesInv
  <2> QED
    BY Zenon, <2>3, <2>4 DEF EntriesInv
<1>7. ASSUME NEW c \in Conns, EraseClient(c) PROVE EntriesInv'
  BY SMTT(40), <1>7, SockIsFd, Constants DEF TypeOK, EntriesInv, EraseClient
<1>8. ASSUME NEW c \in Conns, Notify(c) PROVE EntriesInv'
  BY SMTT(40), <1>8, SockIsFd, Constants DEF TypeOK, EntriesInv, Notify, serverVars
<1>9. ASSUME NEW s \in Senders, SigPipe(s) PROVE EntriesInv'
  BY Zenon, <1>9 DEF EntriesInv, SigPipe
<1> QED
  BY Zenon, <1>1, <1>2, <1>3, <1>4, <1>5, <1>6, <1>7, <1>8, <1>9, StepCases

\* A call that is not concerned keeps its fields in order.
LEMMA FieldsSame ==
    ASSUME NEW s \in Senders, FieldsOK(s), task'[s] = task[s], TypeOK, TypeOK',
           conns <= conns', \A c \in Conns : c <= conns => sock'[c] = sock[c]
    PROVE  FieldsOK(s)'
<1>1. task[s].conn \in Conns \cup {None} /\ task[s].on \in Conns \cup {None}
  BY Zenon DEF TypeOK, Task
<1>2. conns \in Int /\ conns' \in Int /\ Conns \subseteq Int
  BY Constants DEF TypeOK
<1>3. \A c \in Conns : c <= conns => c <= conns'
  BY <1>2
<1> QED
  BY <1>1, <1>3, Zenon DEF FieldsOK

\* A step within send_to keeps the calls and the locks in order.
LEMMA SendToStep ==
    ASSUME TypeOK, TypeOK', TableInv, EntriesInv, TaskInv, NEW s \in Senders,
           Lookup(s) \/ LockConn(s) \/ CallSend(s) \/ SendPiece(s) \/ SendFails(s)
    PROVE  TaskInv'
<1>0. conns <= conns
  BY DEF TypeOK
<1>1. UNCHANGED <<fresh, conns, sock, handler>>
  BY ZenonT(40) DEF Lookup, LockConn, CallSend, SendPiece, SendFails, serverVars, systemVars
<1>2. /\ task[s].at # "idle" /\ task[s].frame > 0 /\ task[s].id # None /\ task[s].for # None
      /\ s \in Conns => handler[s] = "recv"
  BY DEF TaskInv, FieldsOK, Lookup, LockConn, CallSend, SendPiece, Sending, SendFails, Idle
<1>3. ASSUME \A r \in Senders : r # s => task'[r] = task[r], FieldsOK(s)', LockInv',
             \A c \in Conns : c > conns => stream'[c] = stream[c]
      PROVE  TaskInv'
  <2>1. \A r \in Senders : FieldsOK(r)'
    BY <1>0, <1>1, <1>3, FieldsSame, Zenon DEF TaskInv
  <2> QED
    BY Zenon, <1>1, <1>2, <1>3, <2>1, Constants DEF TaskInv
<1>4. ASSUME Ended(s) PROVE FieldsOK(s)'
  BY <1>4, Constants DEF FieldsOK, Ended, Idle
<1>5. ASSUME Ended(s), task[s].conn \in Conns, task[s].at \in {"call", "send"},
             send_mu' = [send_mu EXCEPT ![task[s].conn] = None]
      PROVE  LockInv'
  BY SMTT(40), <1>5, Constants DEF TaskInv, LockInv, Holds, Ended, Idle, TypeOK
<1>6. CASE Lookup(s)
  <2>1. UNCHANGED <<send_mu, stream>>
    BY Zenon, <1>6 DEF Lookup, serverVars, systemVars
  <2>2. CASE Ended(s)
    <3>1. LockInv'
      BY SMTT(40), <1>6, <2>1, <2>2 DEF Lookup, Ended, Idle, TaskInv, LockInv, Holds
    <3> QED
      BY Zenon, <1>3, <1>4, <2>1, <2>2, <3>1 DEF Ended
  <2>3. CASE clients[task[s].id] # None /\ Moved(s, "lock", clients[task[s].id], 0, None)
    <3>1. LockInv'
      BY SMTT(60), <1>6, <2>1, <2>3 DEF Lookup, Moved, TaskInv, LockInv, Holds
    <3>2. /\ clients[task[s].id] \in Conns /\ sock[clients[task[s].id]] = task[s].id
          /\ clients[task[s].id] <= conns
      BY <1>2, <1>6, <2>3, LookupMoves DEF EntriesInv, TypeOK
    <3>3. FieldsOK(s)'
      BY <1>1, <1>2, <2>3, <3>2, Constants DEF Moved, FieldsOK
    <3> QED
      BY Zenon, <1>3, <2>1, <2>3, <3>1, <3>3 DEF Moved
  <2> QED
    BY Zenon, <1>6, <2>2, <2>3, LookupMoves
<1>7. CASE LockConn(s)
  <2>1. task[s].conn \in Conns /\ Moved(s, "call", task[s].conn, 0, None)
    BY Zenon, <1>7, LockMoves
  <2>2. LockInv'
    BY SMTT(40), <1>7, <2>1, Constants DEF LockConn, Moved, TaskInv, LockInv, Holds, TypeOK
  <2>3. FieldsOK(s)'
    BY <1>1, <1>2, <1>7, <2>1, Constants DEF LockConn, Moved, TaskInv, FieldsOK
  <2> QED
    BY Zenon, <1>3, <1>7, <2>1, <2>2, <2>3 DEF LockConn, Moved, systemVars
<1>8. CASE CallSend(s)
  <2>1. task[s].conn \in Conns /\ task[s].at = "call" /\ UNCHANGED stream
    BY ZenonT(40), <1>8, CallMoves DEF CallSend, systemVars
  <2>2. CASE table[sock[task[s].conn]] = None
    <3>1. Ended(s) /\ send_mu' = [send_mu EXCEPT ![task[s].conn] = None]
      BY Zenon, <1>8, <2>2, CallMoves DEF CallSend, EndSend
    <3> QED
      BY Zenon, <1>3, <1>4, <1>5, <2>1, <3>1 DEF Ended
  <2>3. CASE table[sock[task[s].conn]] # None
    <3>1. /\ UNCHANGED send_mu
          /\ Moved(s, "send", task[s].conn, task[s].sent, table[sock[task[s].conn]])
      BY ZenonT(40), <1>8, <2>3, CallMoves DEF CallSend
    <3>2. LockInv'
      BY SMTT(40), <2>1, <3>1 DEF Moved, TaskInv, LockInv, Holds
    <3>3. table[sock[task[s].conn]] <= conns
      BY Zenon, <1>8, <2>3, CallMoves, TableConn
    <3>4. FieldsOK(s)'
      BY <1>1, <1>2, <2>1, <2>3, <3>1, <3>3 DEF Moved, TaskInv, FieldsOK
    <3> QED
      BY Zenon, <1>3, <2>1, <3>1, <3>2, <3>4 DEF Moved
  <2> QED
    BY Zenon, <2>2, <2>3
<1>9. CASE SendPiece(s)
  <2>1. /\ task[s].at = "send" /\ task[s].conn \in Conns
        /\ task[s].on <= conns /\ task[s].on \in Conns
        /\ task[s].sent \in 0..(Pieces - 1)
    BY Zenon, <1>9, SendMoves DEF SendPiece, Sending
  <2>2. \A c \in Conns : c > conns => stream'[c] = stream[c]
    BY SMTT(40), <1>9, <2>1, Constants DEF SendPiece, TypeOK
  <2>3. CASE task[s].sent + 1 = Pieces
    <3>1. Ended(s) /\ send_mu' = [send_mu EXCEPT ![task[s].conn] = None]
      BY Zenon, <1>9, <2>1, <2>3, SendMoves DEF SendPiece, EndSend
    <3> QED
      BY Zenon, <1>3, <1>4, <1>5, <2>1, <2>2, <3>1 DEF Ended
  <2>4. CASE task[s].sent + 1 # Pieces
    <3>1. Moved(s, "call", task[s].conn, task[s].sent + 1, None) /\ UNCHANGED send_mu
      BY ZenonT(40), <1>9, <2>1, <2>4, SendMoves DEF SendPiece
    <3>2. LockInv'
      BY SMTT(40), <2>1, <3>1 DEF Moved, TaskInv, LockInv, Holds
    <3>3. FieldsOK(s)'
      BY SMTT(40), <1>1, <1>2, <2>1, <2>4, <3>1, Constants DEF Moved, TaskInv, FieldsOK
    <3> QED
      BY Zenon, <1>3, <2>2, <3>1, <3>2, <3>3 DEF Moved
  <2> QED
    BY Zenon, <2>3, <2>4
<1>10. CASE SendFails(s)
  <2>1. Ended(s) /\ task[s].at = "send" /\ task[s].conn \in Conns /\ UNCHANGED stream
        /\ send_mu' = [send_mu EXCEPT ![task[s].conn] = None]
    BY <1>10, SendMoves, Zenon DEF SendFails, EndSend, systemVars
  <2> QED
    BY Zenon, <1>3, <1>4, <1>5, <2>1 DEF Ended
<1> QED
  BY Zenon, <1>6, <1>7, <1>8, <1>9, <1>10

\* Calls of send_to begin, go on and end in order, with the lock held from lock
\* to unlock.
LEMMA TaskStep ==
    TypeOK /\ TypeOK' /\ TableInv /\ EntriesInv /\ TaskInv /\ [Next]_vars => TaskInv'
<1> SUFFICES ASSUME TypeOK, TypeOK', TableInv, EntriesInv, TaskInv, [Next]_vars PROVE TaskInv'
  BY Zenon
<1>0. conns <= conns
  BY SMTT(40) DEF TypeOK
<1>1. CASE UNCHANGED vars
  BY SMTT(40), <1>1 DEF TaskInv, FieldsOK, LockInv, Holds, vars, serverVars, threadVars, systemVars
<1>2. ASSUME NEW f \in Fds, Accept(f) PROVE TaskInv'
  <2>1. \A c \in Conns : c <= conns => sock'[c] = sock[c]
    BY <1>2, Constants DEF TypeOK, Accept
  <2>2. UNCHANGED <<task, send_mu, stream, handler>> /\ conns' = conns + 1
    BY Zenon, <1>2 DEF Accept, threadVars
  <2>3. \A c \in Conns : c > conns' => fresh'[c] = fresh[c] /\ c > conns
    BY <1>2, Constants DEF TypeOK, Accept
  <2>4. conns <= conns'
    BY <2>2 DEF TypeOK
  <2>5. \A s \in Senders : FieldsOK(s)'
    BY <2>1, <2>2, <2>4, FieldsSame, ZenonT(40) DEF TaskInv
  <2> QED
    BY <2>2, <2>3, <2>5 DEF TaskInv, LockInv, Holds
<1>3. ASSUME UNCHANGED <<task, send_mu, stream, fresh, conns, sock>>,
             \A c \in Conns : task[c] # Idle => handler'[c] = handler[c]
      PROVE  TaskInv'
  BY <1>3 DEF TaskInv, FieldsOK, LockInv, Holds
<1>4. CASE Register
  <2>1. \A c \in Conns : handler[c] = "recv" => handler'[c] = "recv"
    BY SMTT(40), <1>4 DEF Register, TypeOK
  <2> QED
    BY <1>3, <1>4, <2>1, ZenonT(40) DEF Register, systemVars, TaskInv
<1>5. CASE AcceptLoopEnds
  BY Zenon, <1>3, <1>5 DEF AcceptLoopEnds, threadVars, systemVars
<1>6. ASSUME NEW c \in Conns,
             RecvFails(c) \/ LoopEnds(c) \/ CloseSock(c) \/ EraseClient(c) \/ Notify(c)
      PROVE  TaskInv'
  <2>1. UNCHANGED <<task, send_mu, stream, fresh, conns, sock>>
    BY <1>6, ZenonT(40) DEF RecvFails, LoopEnds, CloseSock, EraseClient, Notify, serverVars, systemVars
  <2>2. task[c] = Idle
    BY Zenon, <1>6 DEF TaskInv, RecvFails, LoopEnds, CloseSock, EraseClient, Notify, Receiving
  <2>3. \A d \in Conns : d # c => handler'[d] = handler[d]
    BY <1>6 DEF TypeOK, RecvFails, LoopEnds, CloseSock, EraseClient, Notify
  <2> QED
    BY Zenon, <1>3, <2>1, <2>2, <2>3
<1>7. CASE (\E c \in Conns : OnSubscribe(c) \/ PeerLeaves(c)) \/ Route
  <2>1. UNCHANGED <<task, send_mu, stream, fresh, conns, sock, handler>>
    BY <1>7, ZenonT(40) DEF OnSubscribe, PeerLeaves, Route, serverVars, threadVars, systemVars
  <2> QED
    BY Zenon, <1>3, <2>1
<1>8. ASSUME NEW s \in Senders, NEW f \in Fds, NEW c \in Conns, CallSendTo(s, f, c),
             task[s] = Idle, s \in Conns => handler[s] = "recv",
             UNCHANGED <<send_mu, stream, fresh, conns, sock, handler>>
      PROVE  TaskInv'
  <2>1. Called(s, f, c)
    BY Zenon, <1>8, Calls
  <2>2. \A r \in Senders : r # s => FieldsOK(r)'
    BY <1>0, <1>8, <2>1, FieldsSame, ZenonT(40) DEF TaskInv, Called
  <2>3. FieldsOK(s)'
    BY SMTT(40), <2>1, Constants DEF FieldsOK, Called, TypeOK
  <2>4. LockInv'
    BY SMTT(40), <1>8, <2>1 DEF TaskInv, LockInv, Holds, Called, Idle
  <2> QED
    BY Zenon, <1>8, <2>1, <2>2, <2>3, <2>4, Constants DEF TaskInv, Called
<1>9. ASSUME NEW s \in Senders, SigPipe(s) PROVE TaskInv'
  <2>1. \A r \in Senders : FieldsOK(r)'
    BY Zenon, <1>9, Constants DEF FieldsOK, SigPipe, Idle
  <2>2. LockInv'
    BY Zenon, <1>9, Constants DEF LockInv, Holds, SigPipe, Idle
  <2> QED
    BY Zenon, <1>9, <2>1, <2>2, Constants DEF TaskInv, SigPipe
<1>10. ASSUME NEW s \in Senders,
              Lookup(s) \/ LockConn(s) \/ CallSend(s) \/ SendPiece(s) \/ SendFails(s)
       PROVE  TaskInv'
  BY Zenon, <1>10, SendToStep
<1>11. ASSUME NEW c \in Conns, OnHeartbeat(c) PROVE TaskInv'
  <2>1. sock[c] \in Fds
    BY Zenon, <1>11, SockIsFd DEF OnHeartbeat, Receiving, Active
  <2> QED
    BY <1>8, <1>11, <2>1, Constants, Zenon DEF OnHeartbeat, Receiving, serverVars, systemVars
<1>12. ASSUME NEW f \in Fds, NextTarget(f) PROVE TaskInv'
  <2>1. targets[f] \in Conns
    BY <1>12 DEF NextTarget, TypeOK
  <2> QED
    BY <1>8, <1>12, <2>1, Constants, ZenonT(40) DEF NextTarget, serverVars, systemVars
<1> QED
  BY <1>1, <1>2, <1>4, <1>5, <1>6, <1>7, <1>9, <1>10, <1>11, <1>12, StepCases, Zenon DEF Quiet
------------------------------------------------------------------------------
\* The part that is about connections that got their descriptor after the
\* former user's clean-up.

\* While a fresh connection has its descriptor, nobody else acts under its id.
OwnId(c) ==
    /\ \A d \in Conns : d # c /\ sock[d] = sock[c] => handler[d] \notin Active
    /\ handler[c] \in {"recv", "close"} => clients[sock[c]] = c
    /\ subscribed[sock[c]] \in {c, None} /\ targets[sock[c]] \in {c, None}
    /\ \A s \in Senders : task[s].id = sock[c] =>
        task[s].for = c /\ task[s].conn \in {c, None}

FreshInv == \A c \in Conns : fresh[c] /\ HasSock(c) => OwnId(c)

\* A call of send for an open connection works on it; on a fresh connection, no
\* other call does.
OnInv ==
    \A s \in Senders : task[s].on # None =>
        /\ HasSock(task[s].conn) => task[s].on = task[s].conn
        /\ fresh[task[s].on] => task[s].conn = task[s].on /\ task[s].for = task[s].on

\* The pieces of s go to connection c, now or at its next call of send.
SendsOn(s, c) == Holds(s, c) /\ (HasSock(c) \/ task[s].on = c)

Partial(c) == stream[c] # <<>> /\ stream[c][Len(stream[c])].piece # Pieces

\* s goes on where the stream of c ends.
Continues(s, c) ==
    IF task[s].sent = 0 THEN ~Partial(c)
    ELSE /\ stream[c] # <<>>
         /\ stream[c][Len(stream[c])] =
                [frame |-> task[s].frame, piece |-> task[s].sent, for |-> task[s].for]

InOrder(c) ==
    /\ \A s \in Senders : SendsOn(s, c) => Continues(s, c)
    /\ HasSock(c) /\ send_mu[c] = None => ~Partial(c)

\* A frame that is not complete on an unbroken fresh connection is being sent.
PartialInv == \A c \in Conns : fresh[c] /\ peer[c] = "open" => InOrder(c)

IInv ==
    /\ TypeOK /\ TableInv /\ EntriesInv /\ TaskInv
    /\ FreshInv /\ OnInv /\ PartialInv /\ OwnWholeFrames
------------------------------------------------------------------------------
\* Whoever is registered, receives or cleans up under a fresh connection's id is
\* that connection, and it is not cleaning up.
LEMMA FreshFacts ==
    ASSUME TypeOK, TableInv, EntriesInv, FreshInv, NEW c \in Conns, fresh[c], HasSock(c)
    PROVE  /\ sock[c] \in Fds /\ OwnId(c) /\ clients[sock[c]] \in {c, None}
           /\ handler[c] \in {"none", "recv", "close", "done"}
           /\ \A d \in Conns : sock[d] = sock[c] /\ handler[d] \in Active =>
                d = c /\ handler[c] \in {"recv", "close"}
<1>1. sock[c] \in Fds /\ OwnId(c)
  BY Zenon, SockIsFd DEF FreshInv, HasSock
<1>2. handler[c] \in {"none", "recv", "close", "done"}
  <2>1. handler[c] \in {"recv", "close"} \/ NewOne(c)
    BY Zenon DEF TableInv
  <2>2. NewOne(c) => handler[c] = "none"
    BY Zenon DEF TableInv, NewOne
  <2> QED
    BY Zenon, <2>1, <2>2
<1>3. \A d \in Conns : sock[d] = sock[c] /\ handler[d] \in Active =>
                d = c /\ handler[c] \in {"recv", "close"}
  BY Zenon, <1>1, <1>2 DEF OwnId, Active
<1>4. clients[sock[c]] \in {c, None}
  BY <1>1, <1>3 DEF TypeOK, EntriesInv, Active
<1> QED
  BY Zenon, <1>1, <1>2, <1>3, <1>4

\* Nobody else acts under a fresh connection's id.
LEMMA FreshStep ==
    TypeOK /\ TableInv /\ EntriesInv /\ TaskInv /\ FreshInv /\ [Next]_vars => FreshInv'
<1> SUFFICES ASSUME TypeOK, TableInv, EntriesInv, TaskInv, FreshInv, [Next]_vars PROVE FreshInv'
  BY Zenon
<1>1. CASE UNCHANGED vars
  BY Zenon, <1>1 DEF FreshInv, HasSock, OwnId, vars, serverVars, threadVars, systemVars
<1>2. CASE Quiet
  <2> SUFFICES ASSUME NEW c \in Conns, fresh'[c], HasSock(c)' PROVE OwnId(c)'
    BY Zenon DEF FreshInv
  <2>1. UNCHANGED <<conns, sock, handler, table, fresh>> /\ HasSock(c) /\ fresh[c]
    BY Zenon, <1>2, QuietSame DEF HasSock
  <2>2. /\ sock[c] \in Fds /\ OwnId(c) /\ clients[sock[c]] \in {c, None}
        /\ \A d \in Conns : sock[d] = sock[c] /\ handler[d] = "recv" => d = c
    BY Zenon, <2>1, FreshFacts DEF Active
  <2>3. UNCHANGED clients
    BY <1>2, Zenon DEF Quiet, OnSubscribe, OnHeartbeat, PeerLeaves, Route, NextTarget, Lookup,
       LockConn, CallSend, SendPiece, SendFails, serverVars, threadVars, systemVars
  <2>4. ASSUME subscribed'[sock[c]] \in {c, None}, targets'[sock[c]] \in {c, None},
               \A s \in Senders : task'[s].id = sock[c] =>
                    task'[s].for = c /\ task'[s].conn \in {c, None}
        PROVE  OwnId(c)'
    BY Zenon, <2>1, <2>2, <2>3, <2>4 DEF OwnId
  <2>5. ASSUME NEW e \in Conns, OnSubscribe(e) PROVE OwnId(c)'
    <3>1. subscribed'[sock[c]] \in {c, None}
      BY Zenon, <2>2, <2>5 DEF OnSubscribe, Receiving, TypeOK, OwnId
    <3> QED
      BY <2>2, <2>4, <2>5, <3>1, Zenon DEF OnSubscribe, OwnId
  <2>6. ASSUME NEW e \in Conns, OnHeartbeat(e) PROVE OwnId(c)'
    <3>1. Called(e, sock[e], e) /\ handler[e] = "recv"
      BY Zenon, <2>6, SockIsFd, Calls, Constants DEF OnHeartbeat, Receiving, Active
    <3>2. UNCHANGED <<subscribed, targets>>
      BY Zenon, <2>6 DEF OnHeartbeat
    <3> QED
      BY <2>2, <2>4, <3>1, <3>2 DEF Called, OwnId
  <2>7. ASSUME NEW e \in Conns, PeerLeaves(e) PROVE OwnId(c)'
    BY <2>2, <2>4, <2>7, Zenon DEF PeerLeaves, threadVars, OwnId
  <2>8. CASE Route
    <3>1. targets'[sock[c]] \in {c, None}
      BY Zenon, <2>2, <2>8 DEF Route, OwnId
    <3> QED
      BY <2>2, <2>4, <2>8, <3>1, Zenon DEF Route, OwnId
  <2>9. ASSUME NEW f \in Fds, NextTarget(f) PROVE OwnId(c)'
    <3>1. Called(Dispatcher, f, targets[f]) /\ targets[f] # None
      BY Zenon, <2>9, Calls, Constants DEF NextTarget, TypeOK
    <3>2. targets'[sock[c]] \in {c, None} /\ UNCHANGED subscribed
      BY Zenon, <2>2, <2>9 DEF NextTarget, OwnId, TypeOK
    <3> QED
      BY <2>2, <2>4, <3>1, <3>2 DEF Called, OwnId
  <2>10. ASSUME NEW s \in Senders,
                Lookup(s) \/ LockConn(s) \/ CallSend(s) \/ SendPiece(s) \/ SendFails(s)
         PROVE  OwnId(c)'
    <3>1. UNCHANGED <<subscribed, targets>>
      BY <2>10, Zenon DEF Lookup, LockConn, CallSend, SendPiece, SendFails
    <3>2. ASSUME Ended(s) PROVE OwnId(c)'
      BY <2>2, <2>4, <3>1, <3>2, Constants DEF Ended, Idle, OwnId
    <3>3. ASSUME NEW at, NEW n, NEW on, Moved(s, at, task[s].conn, n, on) PROVE OwnId(c)'
      BY <2>2, <2>4, <3>1, <3>3 DEF Moved, OwnId
    <3>4. ASSUME Moved(s, "lock", clients[task[s].id], 0, None) PROVE OwnId(c)'
      BY <2>2, <2>4, <3>1, <3>4 DEF Moved, OwnId
    <3>5. CASE Lookup(s)
      BY Zenon, <3>2, <3>4, <3>5, LookupMoves
    <3>6. CASE LockConn(s)
      BY Zenon, <3>3, <3>6, LockMoves
    <3>7. CASE CallSend(s)
      BY Zenon, <3>2, <3>3, <3>7, CallMoves
    <3>8. CASE SendPiece(s)
      BY Zenon, <3>2, <3>3, <3>8, SendMoves DEF SendPiece, Sending
    <3>9. CASE SendFails(s)
      BY ZenonT(40), <3>2, <3>9, SendMoves DEF SendFails
    <3> QED
      BY Zenon, <2>10, <3>5, <3>6, <3>7, <3>8, <3>9
  <2> QED
    BY <1>2, <2>5, <2>6, <2>7, <2>8, <2>9, <2>10, Zenon DEF Quiet
<1>3. ASSUME NEW f \in Fds, Accept(f) PROVE FreshInv'
  <2> SUFFICES ASSUME NEW c \in Conns, fresh'[c], HasSock(c)' PROVE OwnId(c)'
    BY Zenon DEF FreshInv
  <2>1. /\ conns + 1 \in Conns /\ conns' = conns + 1 /\ table[f] = None
        /\ \A d \in Conns : d # conns + 1 => sock'[d] = sock[d] /\ fresh'[d] = fresh[d]
        /\ sock'[conns + 1] = f /\ (fresh'[conns + 1] = ~InUse(f)) /\ acceptor = "accept"
        /\ table'[f] = conns + 1 /\ \A g \in Fds : g # f => table'[g] = table[g]
        /\ UNCHANGED <<handler, clients, subscribed, targets, task>>
    BY <1>3, Constants DEF Accept, TypeOK, threadVars
  <2>2. CASE c = conns + 1
    <3>1. ~InUse(f) /\ sock'[c] = f
      BY Zenon, <2>1, <2>2
    <3>2. handler[c] = "none"
      BY <2>1, <2>2 DEF TableInv, TypeOK
    <3>3. \A d \in Conns : d # c /\ sock'[d] = f => handler[d] \notin Active
      BY Zenon, <2>1, <2>2, <3>1 DEF InUse, Active
    <3>4. subscribed[f] = None
      <4>1. ASSUME subscribed[f] # None PROVE FALSE
        <5>1. subscribed[f] \in Conns
          BY <4>1 DEF TypeOK
        <5>2. sock[subscribed[f]] = f /\ handler[subscribed[f]] \in Active
          BY Zenon, <4>1 DEF EntriesInv
        <5> QED
          BY Zenon, <3>1, <5>1, <5>2 DEF InUse, Active
      <4> QED
        BY Zenon, <4>1
    <3> QED
      BY Zenon, <2>1, <3>1, <3>2, <3>3, <3>4 DEF OwnId, InUse
  <2>3. CASE c # conns + 1
    <3>1. c <= conns /\ sock[c] # f
      BY <2>1, <2>3, Constants DEF HasSock, TypeOK
    <3>2. HasSock(c) /\ fresh[c] /\ sock'[c] = sock[c]
      BY <2>1, <2>3, <3>1, SockIsFd DEF HasSock
    <3> QED
      BY <2>1, <2>3, <3>1, <3>2 DEF OwnId, FreshInv
  <2> QED
    BY Zenon, <2>2, <2>3
<1>4. CASE Register
  <2> SUFFICES ASSUME NEW c \in Conns, fresh'[c], HasSock(c)' PROVE OwnId(c)'
    BY Zenon DEF FreshInv
  <2>1. /\ UNCHANGED <<conns, sock, table, fresh, subscribed, targets, task>>
        /\ handler'[conns] = "recv" /\ clients'[sock[conns]] = conns
        /\ \A d \in Conns : d # conns => handler'[d] = handler[d]
        /\ \A g \in Fds : g # sock[conns] => clients'[g] = clients[g]
        /\ conns \in Conns /\ sock[conns] \in Fds
    BY <1>4, SockIsFd, Constants DEF Register, TypeOK, systemVars
  <2>2. HasSock(c) /\ fresh[c] /\ OwnId(c) /\ sock[c] \in Fds
    BY Zenon, <2>1, SockIsFd DEF HasSock, FreshInv
  <2>3. HasSock(conns)
    BY <1>4, <2>1 DEF TableInv, NewOne, Register, TypeOK
  <2>4. c # conns => sock[c] # sock[conns]
    BY Zenon, <2>2, <2>3 DEF HasSock
  <2> QED
    BY Zenon, <2>1, <2>2, <2>4 DEF OwnId
<1>5. CASE AcceptLoopEnds
  BY Zenon, <1>5 DEF FreshInv, HasSock, OwnId, AcceptLoopEnds, threadVars, systemVars
<1>6. ASSUME NEW e \in Conns,
             RecvFails(e) \/ LoopEnds(e) \/ CloseSock(e) \/ EraseClient(e) \/ Notify(e)
      PROVE  FreshInv'
  <2> SUFFICES ASSUME NEW c \in Conns, fresh'[c], HasSock(c)' PROVE OwnId(c)'
    BY Zenon DEF FreshInv
  <2>1. /\ UNCHANGED <<conns, sock, fresh, targets, task>>
        /\ \A d \in Conns : d # e => handler'[d] = handler[d]
        /\ handler[e] \in Active
    BY Zenon, <1>6 DEF RecvFails, LoopEnds, CloseSock, EraseClient, Notify, Receiving, Active, TypeOK,
       serverVars, systemVars
  <2>2. HasSock(c)
    <3>1. CASE CloseSock(e)
      BY Zenon, <2>1, <3>1, SockIsFd, Constants DEF CloseSock, HasSock, TypeOK
    <3>2. CASE UNCHANGED table
      BY Zenon, <2>1, <3>2 DEF HasSock
    <3> QED
      BY Zenon, <1>6, <3>1, <3>2 DEF RecvFails, LoopEnds, EraseClient, Notify, systemVars
  <2>3. /\ OwnId(c) /\ sock[c] \in Fds /\ sock[e] \in Fds
        /\ sock[e] = sock[c] => e = c /\ handler[c] \in {"recv", "close"}
    BY Zenon, <2>1, <2>2, FreshFacts, SockIsFd
  <2>4. CASE RecvFails(e) \/ LoopEnds(e) \/ CloseSock(e)
    BY Zenon, <2>1, <2>3, <2>4 DEF RecvFails, LoopEnds, CloseSock, Receiving,
       serverVars, OwnId, Active, TypeOK
  <2>5. CASE EraseClient(e)
    BY SMTT(40), <2>1, <2>3, <2>5 DEF EraseClient, OwnId, Active, TypeOK
  <2>6. CASE Notify(e)
    BY SMTT(40), <2>1, <2>3, <2>6 DEF Notify, serverVars, OwnId, Active, TypeOK
  <2> QED
    BY Zenon, <1>6, <2>4, <2>5, <2>6
<1>7. ASSUME NEW s \in Senders, SigPipe(s) PROVE FreshInv'
  BY Zenon, <1>7, SockIsFd, Constants DEF FreshInv, HasSock, SigPipe
<1> QED
  BY Zenon, <1>1, <1>2, <1>3, <1>4, <1>5, <1>6, <1>7, StepCases

\* What a call of send works on.
LEMMA OnStep ==
    TypeOK /\ TypeOK' /\ TableInv /\ EntriesInv /\ TaskInv /\ FreshInv /\ OnInv /\ [Next]_vars
        => OnInv'
<1> SUFFICES ASSUME TypeOK, TypeOK', TableInv, EntriesInv, TaskInv, FreshInv, OnInv, [Next]_vars
             PROVE  OnInv'
  BY Zenon
<1>1. CASE UNCHANGED vars
  BY Zenon, <1>1 DEF OnInv, HasSock, vars, serverVars, threadVars, systemVars
<1>2. \A s \in Senders : /\ task[s].conn \in Conns \cup {None} /\ task[s].on \in Conns \cup {None}
                         /\ task[s].on # None => /\ task[s].on <= conns /\ task[s].conn # None
                                                 /\ task[s].conn <= conns
  BY Zenon DEF TypeOK, Task, TaskInv, FieldsOK
<1>3. CASE Quiet
  <2>1. UNCHANGED <<conns, sock, table, fresh>>
    BY Zenon, <1>3, QuietSame
  <2>2. ASSUME \A s \in Senders : task'[s].on # None => task'[s] = task[s] PROVE OnInv'
    BY Zenon, <2>1, <2>2 DEF OnInv, HasSock
  <2>3. ASSUME NEW s \in Senders, Ended(s) PROVE OnInv'
    BY <2>2, <2>3 DEF Ended, Idle
  <2>4. ASSUME NEW s \in Senders, NEW at, NEW conn, NEW n, Moved(s, at, conn, n, None) PROVE OnInv'
    BY Zenon, <2>2, <2>4 DEF Moved
  <2>5. ASSUME NEW s \in Senders, NEW f, NEW c, Called(s, f, c) PROVE OnInv'
    BY Zenon, <2>2, <2>5 DEF Called
  <2>6. ASSUME NEW c \in Conns, OnSubscribe(c) \/ PeerLeaves(c) \/ OnHeartbeat(c) PROVE OnInv'
    <3>1. CASE OnHeartbeat(c)
      BY Zenon, <2>5, <3>1, SockIsFd, Calls, Constants DEF OnHeartbeat, Receiving, Active
    <3> QED
      BY <2>2, <2>6, <3>1, Zenon DEF OnSubscribe, PeerLeaves, threadVars
  <2>7. CASE Route
    BY Zenon, <2>2, <2>7 DEF Route
  <2>8. ASSUME NEW f \in Fds, NextTarget(f) PROVE OnInv'
    BY ZenonT(40), <2>5, <2>8, Calls, Constants DEF NextTarget, TypeOK
  <2>9. ASSUME NEW s \in Senders, Lookup(s) \/ LockConn(s) \/ SendPiece(s) \/ SendFails(s)
        PROVE  OnInv'
    <3>1. CASE Lookup(s)
      BY Zenon, <2>3, <2>4, <3>1, LookupMoves
    <3>2. CASE LockConn(s)
      BY Zenon, <2>4, <3>2, LockMoves
    <3>3. CASE SendPiece(s)
      BY Zenon, <2>3, <2>4, <3>3, SendMoves DEF SendPiece, Sending
    <3>4. CASE SendFails(s)
      BY Zenon, <2>3, <3>4, SendMoves DEF SendFails
    <3> QED
      BY Zenon, <2>9, <3>1, <3>2, <3>3, <3>4
  <2>10. ASSUME NEW s \in Senders, CallSend(s) PROVE OnInv'
    <3> DEFINE d == task[s].conn
               c == table[sock[task[s].conn]]
    <3>1. d \in Conns /\ sock[d] \in Fds /\ d # None /\ sock[d] = task[s].id
      BY <2>10, CallMoves, Constants DEF TaskInv, FieldsOK
    <3>2. CASE c = None
      BY Zenon, <2>3, <2>10, <3>2, CallMoves
    <3>3. CASE c # None
      <4>1. Moved(s, "send", d, task[s].sent, c)
        BY Zenon, <2>10, <3>3, CallMoves
      <4>2. c \in Conns /\ sock[c] = sock[d] /\ HasSock(c)
        BY Zenon, <3>1, <3>3, TableConn
      <4>3. HasSock(d) => c = d
        BY Zenon DEF HasSock
      <4>4. fresh[c] => d = c /\ task[s].for = c
        BY <3>1, <4>2 DEF FreshInv, OwnId
      <4> HIDE DEF c, d
      <4>5. task'[s].on = c /\ task'[s].conn = d /\ task'[s].for = task[s].for
            /\ \A r \in Senders : r # s => task'[r] = task[r]
        BY Zenon, <4>1 DEF Moved
      <4>6. \A x : HasSock(x)' = HasSock(x)
        BY Zenon, <2>1 DEF HasSock
      <4> QED
        BY <2>1, <4>3, <4>4, <4>5, <4>6, Zenon DEF OnInv
    <3> QED
      BY Zenon, <3>2, <3>3
  <2> QED
    BY <1>3, <2>6, <2>7, <2>8, <2>9, <2>10, Zenon DEF Quiet
<1>4. ASSUME UNCHANGED task, \A c \in Conns : c <= conns => fresh'[c] = fresh[c],
             \A c \in Conns : c <= conns /\ HasSock(c)' => HasSock(c)
      PROVE  OnInv'
  BY Zenon, <1>2, <1>4 DEF OnInv
<1>5. ASSUME NEW f \in Fds, Accept(f) PROVE OnInv'
  BY <1>4, <1>5, SockIsFd, Constants DEF Accept, threadVars, TypeOK, HasSock
<1>6. CASE Register \/ AcceptLoopEnds
  BY Zenon, <1>4, <1>6 DEF Register, AcceptLoopEnds, HasSock, threadVars, systemVars
<1>7. ASSUME NEW c \in Conns, RecvFails(c) \/ LoopEnds(c) \/ EraseClient(c) \/ Notify(c)
      PROVE OnInv'
  BY Zenon, <1>4, <1>7 DEF RecvFails, LoopEnds, EraseClient, Notify, HasSock,
     serverVars, systemVars
<1>8. ASSUME NEW c \in Conns, CloseSock(c) PROVE OnInv'
  BY SMTT(40), <1>4, <1>8, SockIsFd, Constants DEF CloseSock, HasSock, serverVars, TypeOK, Active
<1>9. ASSUME NEW s \in Senders, SigPipe(s) PROVE OnInv'
  BY Zenon, <1>9 DEF OnInv, SigPipe, Idle
<1> QED
  BY Zenon, <1>1, <1>3, <1>5, <1>6, <1>7, <1>8, <1>9, StepCases

\* A piece is sent: what that does to the streams.
LEMMA PieceSent ==
    ASSUME TypeOK, TaskInv, NEW s \in Senders, SendPiece(s)
    PROVE  LET c == task[s].on
               p == [frame |-> task[s].frame, piece |-> task[s].sent + 1, for |-> task[s].for]
           IN /\ c \in Conns /\ \A d \in Conns : d # c => stream'[d] = stream[d]
              /\ stream'[c] # <<>> /\ Len(stream'[c]) = Len(stream[c]) + 1
              /\ stream'[c][Len(stream[c]) + 1] = p
              /\ \A i \in 1..Len(stream[c]) : stream'[c][i] = stream[c][i]
              /\ Len(stream[c]) \in Nat /\ DOMAIN stream[c] = 1..Len(stream[c])
              /\ DOMAIN stream'[c] = 1..(Len(stream[c]) + 1)
<1> DEFINE c == task[s].on
           p == [frame |-> task[s].frame, piece |-> task[s].sent + 1, for |-> task[s].for]
<1>1. c \in Conns /\ p \in Piece
  BY Zenon, SendMoves DEF SendPiece, Sending
<1>2. stream' = [stream EXCEPT ![c] = Append(stream[c], p)]
  BY Zenon DEF SendPiece
<1> HIDE DEF c, p
<1>3. stream[c] \in Seq(Piece) /\ stream'[c] = Append(stream[c], p)
      /\ \A d \in Conns : d # c => stream'[d] = stream[d]
  BY Zenon, <1>1, <1>2 DEF TypeOK
<1>4. /\ stream'[c] # <<>> /\ Len(stream'[c]) = Len(stream[c]) + 1
      /\ stream'[c][Len(stream[c]) + 1] = p
      /\ \A i \in 1..Len(stream[c]) : stream'[c][i] = stream[c][i]
      /\ Len(stream[c]) \in Nat /\ DOMAIN stream[c] = 1..Len(stream[c])
      /\ DOMAIN stream'[c] = 1..(Len(stream[c]) + 1)
  BY <1>1, <1>3
<1> QED
  BY ZenonT(40), <1>1, <1>3, <1>4 DEF c, p

\* Frames that were begun on an unbroken fresh connection are being continued.
LEMMA PartialStep ==
    TypeOK /\ TypeOK' /\ TableInv /\ EntriesInv /\ TaskInv /\ TaskInv' /\ FreshInv /\ OnInv
    /\ PartialInv /\ [Next]_vars => PartialInv'
<1> SUFFICES ASSUME TypeOK, TypeOK', TableInv, EntriesInv, TaskInv, TaskInv', FreshInv, OnInv,
                    PartialInv, [Next]_vars, NEW c \in Conns, fresh'[c], peer'[c] = "open"
             PROVE  InOrder(c)'
  BY Zenon DEF PartialInv
<1>1. ASSUME fresh[c], peer[c] = "open", stream'[c] = stream[c],
             send_mu'[c] = None => send_mu[c] = None \/ ~HasSock(c)',
             HasSock(c)' => HasSock(c),
             \A s \in Senders : SendsOn(s, c)' => SendsOn(s, c) /\ task'[s].sent = task[s].sent
                    /\ task'[s].frame = task[s].frame /\ task'[s].for = task[s].for
      PROVE  InOrder(c)'
  <2>1. InOrder(c) /\ Partial(c)' = Partial(c)
    BY Zenon, <1>1 DEF PartialInv, Partial
  <2>2. \A s \in Senders : SendsOn(s, c)' => Continues(s, c)'
    BY <1>1, <2>1, Zenon DEF InOrder, Continues
  <2> QED
    BY <1>1, <2>1, <2>2, Zenon DEF InOrder
<1>2. ASSUME fresh[c], peer[c] = "open", stream'[c] = stream[c], send_mu'[c] = send_mu[c],
             HasSock(c)' => HasSock(c), UNCHANGED task
      PROVE  InOrder(c)'
  BY <1>1, <1>2, Zenon DEF SendsOn, Holds
<1>3. CASE UNCHANGED vars
  BY Zenon, <1>2, <1>3 DEF HasSock, vars, serverVars, threadVars, systemVars
<1>4. ASSUME NEW f \in Fds, Accept(f) PROVE InOrder(c)'
  <2>1. UNCHANGED <<task, send_mu, peer, stream>> /\ conns' = conns + 1
    BY Zenon, <1>4 DEF Accept, threadVars
  <2>2. CASE c = conns + 1
    <3>1. stream'[c] = <<>>
      BY <2>1, <2>2 DEF TaskInv, TypeOK
    <3>2. ~(c <= conns) /\ c # None
      BY <2>2, Constants DEF TypeOK
    <3>3. \A s \in Senders : ~Holds(s, c)
      BY <3>2, ZenonT(40) DEF TaskInv, FieldsOK, Holds
    <3> QED
      BY <2>1, <3>1, <3>3, ZenonT(40) DEF InOrder, SendsOn, Holds, Partial
  <2>3. CASE c # conns + 1
    <3>0. /\ fresh'[c] = fresh[c] /\ sock'[c] = sock[c]
          /\ \A g \in Fds : table'[g] \in {table[g], conns + 1}
      BY SMTT(40), <1>4, <2>3, Constants DEF Accept, TypeOK
    <3>1. fresh[c] /\ (HasSock(c)' => HasSock(c))
      BY SMTT(40), <2>1, <2>3, <3>0, SockIsFd, Constants DEF TypeOK, HasSock
    <3> QED
      BY Zenon, <1>2, <2>1, <3>1
  <2> QED
    BY Zenon, <2>2, <2>3
<1>5. CASE Register \/ AcceptLoopEnds
  BY Zenon, <1>2, <1>5 DEF Register, AcceptLoopEnds, HasSock, threadVars, systemVars
<1>6. ASSUME NEW e \in Conns, RecvFails(e) \/ LoopEnds(e) \/ EraseClient(e) \/ Notify(e)
      PROVE InOrder(c)'
  BY Zenon, <1>2, <1>6 DEF RecvFails, LoopEnds, EraseClient, Notify, HasSock,
     serverVars, systemVars
<1>7. ASSUME NEW e \in Conns, CloseSock(e) PROVE InOrder(c)'
  BY SMTT(40), <1>2, <1>7, SockIsFd, Constants DEF CloseSock, HasSock, serverVars, TypeOK, Active
<1>8. ASSUME NEW s \in Senders, SigPipe(s) PROVE InOrder(c)'
  <2>1. ~HasSock(c)' /\ \A r \in Senders : ~Holds(r, c)'
    BY Zenon, <1>8, SockIsFd, Constants DEF SigPipe, HasSock, Holds, Idle
  <2> QED
    BY Zenon, <2>1 DEF InOrder, SendsOn
<1>9. ASSUME Quiet PROVE InOrder(c)'
  <2>1. fresh[c] /\ UNCHANGED <<conns, sock, table>> /\ HasSock(c)' = HasSock(c)
    BY Zenon, <1>9, QuietSame DEF HasSock
  <2>2. ASSUME NEW s \in Senders, \A r \in Senders : r # s => task'[r] = task[r],
               peer[c] = "open", stream'[c] = stream[c],
               send_mu'[c] = None => send_mu[c] = None \/ ~HasSock(c), ~SendsOn(s, c)'
        PROVE  InOrder(c)'
    BY <1>1, <2>1, <2>2, ZenonT(40) DEF SendsOn, Holds
  <2>3. ASSUME NEW e \in Conns, OnSubscribe(e) PROVE InOrder(c)'
    BY Zenon, <1>2, <2>1, <2>3 DEF OnSubscribe, serverVars, systemVars
  <2>4. ASSUME NEW e \in Conns, PeerLeaves(e) PROVE InOrder(c)'
    <3>1. peer[c] = "open"
      BY <2>4 DEF PeerLeaves, TypeOK
    <3> QED
      BY Zenon, <1>2, <2>1, <2>4, <3>1 DEF PeerLeaves, serverVars, threadVars
  <2>5. CASE Route
    BY Zenon, <1>2, <2>1, <2>5 DEF Route, serverVars, systemVars
  <2>6. ASSUME NEW s \in Senders, NEW f, NEW d, Called(s, f, d), UNCHANGED <<send_mu, peer, stream>>
        PROVE  InOrder(c)'
    BY Zenon, <2>2, <2>6 DEF Called, SendsOn, Holds
  <2>7. ASSUME NEW e \in Conns, OnHeartbeat(e) PROVE InOrder(c)'
    <3>1. Called(e, sock[e], e)
      BY Zenon, <2>7, SockIsFd, Calls, Constants DEF OnHeartbeat, Receiving, Active
    <3> QED
      BY <2>6, <2>7, <3>1, Constants, Zenon DEF OnHeartbeat, serverVars, systemVars
  <2>8. ASSUME NEW f \in Fds, NextTarget(f) PROVE InOrder(c)'
    <3>1. Called(Dispatcher, f, targets[f])
      BY Zenon, <2>8, Calls, Constants DEF NextTarget, TypeOK
    <3> QED
      BY <2>6, <2>8, <3>1, Constants, ZenonT(40) DEF NextTarget, serverVars, systemVars
  <2>9. ASSUME NEW s \in Senders, Lookup(s) PROVE InOrder(c)'
    <3>1. UNCHANGED <<send_mu, peer, stream>>
      BY Zenon, <2>9 DEF Lookup, serverVars, systemVars
    <3>2. ~Holds(s, c)' /\ \A r \in Senders : r # s => task'[r] = task[r]
      BY <2>9, LookupMoves DEF Ended, Moved, Holds, Idle
    <3> QED
      BY Zenon, <2>2, <3>1, <3>2 DEF SendsOn
  <2>10. ASSUME NEW s \in Senders, LockConn(s) PROVE InOrder(c)'
    <3>1. /\ UNCHANGED <<peer, stream>> /\ Moved(s, "call", task[s].conn, 0, None)
          /\ task[s].conn \in Conns /\ send_mu[task[s].conn] = None
          /\ send_mu' = [send_mu EXCEPT ![task[s].conn] = s]
      BY ZenonT(40), <2>10, LockMoves DEF LockConn, systemVars
    <3>2. CASE c # task[s].conn
      BY Zenon, <2>2, <3>1, <3>2 DEF Moved, SendsOn, Holds, TypeOK
    <3>3. CASE c = task[s].conn
      <4>1. HasSock(c) => ~Partial(c)'
        BY ZenonT(40), <2>1, <3>1, <3>3 DEF PartialInv, InOrder, Partial
      <4>2. \A r \in Senders : SendsOn(r, c)' => r = s
        BY SMTT(40), <3>1, <3>3 DEF TaskInv, LockInv, SendsOn, TypeOK
      <4>3. SendsOn(s, c)' => HasSock(c) /\ task'[s].sent = 0
        BY Zenon, <2>1, <3>1, <3>3, Constants DEF SendsOn, Moved
      <4>4. send_mu'[c] # None
        BY <3>1, <3>3, Constants DEF TypeOK
      <4> QED
        BY Zenon, <2>1, <4>1, <4>2, <4>3, <4>4 DEF InOrder, Continues
    <3> QED
      BY Zenon, <3>2, <3>3
  <2>11. ASSUME NEW s \in Senders, CallSend(s) PROVE InOrder(c)'
    <3>1. /\ UNCHANGED <<peer, stream>> /\ task[s].conn \in Conns /\ sock[task[s].conn] \in Fds
          /\ task[s].at = "call"
      BY Zenon, <2>11, CallMoves DEF CallSend, systemVars
    <3>2. CASE table[sock[task[s].conn]] = None
      <4>1. Ended(s) /\ send_mu' = [send_mu EXCEPT ![task[s].conn] = None]
        BY Zenon, <2>11, <3>2, CallMoves DEF CallSend, EndSend
      <4>2. ~HasSock(task[s].conn)
        BY Zenon, <3>1, <3>2, Constants DEF HasSock
      <4>3. send_mu'[c] = None => send_mu[c] = None \/ ~HasSock(c)
        BY Zenon, <4>1, <4>2, <3>1 DEF TypeOK
      <4>4. ~SendsOn(s, c)'
        BY SMTT(40), <4>1 DEF Ended, Idle, SendsOn, Holds
      <4> QED
        BY Zenon, <2>2, <3>1, <4>1, <4>3, <4>4 DEF Ended
    <3>3. CASE table[sock[task[s].conn]] # None
      <4>1. /\ Moved(s, "send", task[s].conn, task[s].sent, table[sock[task[s].conn]])
            /\ UNCHANGED send_mu
        BY Zenon, <2>11, <3>3, CallMoves DEF CallSend
      <4>2. HasSock(table[sock[task[s].conn]])
        BY Zenon, <3>1, <3>3, TableConn
      <4>3. SendsOn(s, c)' => SendsOn(s, c)
        BY <2>1, <3>1, <4>1, <4>2, Zenon DEF SendsOn, Holds, Moved
      <4>4. \A r \in Senders : SendsOn(r, c)' => SendsOn(r, c) /\ task'[r].sent = task[r].sent
                    /\ task'[r].frame = task[r].frame /\ task'[r].for = task[r].for
        BY <2>1, <4>1, <4>3, ZenonT(40) DEF SendsOn, Holds, Moved
      <4> QED
        BY Zenon, <1>1, <2>1, <3>1, <4>1, <4>4
    <3> QED
      BY Zenon, <3>2, <3>3
  <2>12. ASSUME NEW s \in Senders, task[s].at = "send", NEW e, e = task[s].on, e # c,
                peer[c] = "open", stream'[c] = stream[c],
                \/ Ended(s) /\ send_mu' = [send_mu EXCEPT ![task[s].conn] = None]
                \/ UNCHANGED send_mu /\ \E n : Moved(s, "call", task[s].conn, n, None)
         PROVE  InOrder(c)'
    <3>1. task[s].conn \in Conns /\ e \in Conns /\ (task[s].conn = c => ~HasSock(c))
      BY ZenonT(40), <2>12, SendMoves, Constants DEF OnInv
    <3>2. \A r \in Senders : r # s => task'[r] = task[r]
      BY Zenon, <2>12 DEF Ended, Moved
    <3>3. ~SendsOn(s, c)'
      BY <2>1, <2>12, <3>1, Constants DEF SendsOn, Holds, Ended, Moved, Idle
    <3>4. send_mu'[c] = None => send_mu[c] = None \/ ~HasSock(c)
      BY Zenon, <2>12, <3>1 DEF TypeOK
    <3> QED
      BY Zenon, <2>2, <2>12, <3>2, <3>3, <3>4
  <2>13. ASSUME NEW s \in Senders, SendPiece(s) PROVE InOrder(c)'
    <3>1. task[s].at = "send" /\ peer[task[s].on] = "open" /\ UNCHANGED peer
      BY ZenonT(40), <2>13 DEF SendPiece, Sending
    <3>2. /\ task[s].conn \in Conns /\ task[s].on \in Conns /\ task[s].sent \in 0..(Pieces - 1)
          /\ IF task[s].sent + 1 = Pieces THEN Ended(s)
             ELSE Moved(s, "call", task[s].conn, task[s].sent + 1, None)
      BY ZenonT(40), <2>13, <3>1, SendMoves
    <3>3. IF task[s].sent + 1 = Pieces THEN send_mu' = [send_mu EXCEPT ![task[s].conn] = None]
          ELSE UNCHANGED send_mu
      BY ZenonT(40), <2>13 DEF SendPiece, EndSend
    <3>4. CASE c # task[s].on
      <4>1. stream'[c] = stream[c]
        BY ZenonT(40), <2>13, <3>4, PieceSent
      <4> QED
        BY Zenon, <2>12, <3>1, <3>2, <3>3, <3>4, <4>1
    <3>5. CASE c = task[s].on
      <4>1. task[s].conn = c /\ send_mu[c] = s
        BY <2>1, <3>1, <3>2, <3>5, Constants DEF OnInv, TaskInv, LockInv, Holds
      <4>2. /\ stream'[c] # <<>>
            /\ stream'[c][Len(stream'[c])] =
                [frame |-> task[s].frame, piece |-> task[s].sent + 1, for |-> task[s].for]
        BY Zenon, <2>13, <3>5, PieceSent
      <4>3. \A r \in Senders : r # s => ~SendsOn(r, c)'
        <5>1. \A r \in Senders : r # s => task'[r] = task[r] /\ ~Holds(r, c)
          <6>1. \A r \in Senders : r # s => task'[r] = task[r]
            BY Zenon, <3>2 DEF Ended, Moved
          <6>2. \A r \in Senders : r # s => ~Holds(r, c)
            BY Zenon, <4>1 DEF TaskInv, LockInv
          <6> QED
            BY Zenon, <6>1, <6>2
        <5> QED
          BY Zenon, <5>1 DEF SendsOn, Holds
      <4>4. CASE task[s].sent + 1 = Pieces
        <5>a. task'[s].at = "idle"
          BY <3>2, <4>4 DEF Ended, Idle
        <5>b. stream'[c][Len(stream'[c])].piece = Pieces
          BY <4>2, <4>4
        <5>1. ~Partial(c)' /\ ~SendsOn(s, c)'
          BY Zenon, <5>a, <5>b DEF Partial, SendsOn, Holds
        <5> QED
          BY Zenon, <4>3, <5>1 DEF InOrder
      <4>5. CASE task[s].sent + 1 # Pieces
        <5>1. send_mu'[c] # None /\ task'[s].sent # 0
          BY SMTT(40), <3>2, <3>3, <4>1, <4>5, Constants DEF Moved
        <5>2. Continues(s, c)'
          BY ZenonT(40), <3>2, <4>2, <4>5, <5>1 DEF Continues, Moved
        <5> QED
          BY Zenon, <4>3, <5>1, <5>2 DEF InOrder
      <4> QED
        BY Zenon, <4>4, <4>5
    <3> QED
      BY Zenon, <3>4, <3>5
  <2>14. ASSUME NEW s \in Senders, SendFails(s) PROVE InOrder(c)'
    <3>1. task[s].at = "send" /\ peer[task[s].on] = "gone" /\ UNCHANGED <<peer, stream>>
          /\ send_mu' = [send_mu EXCEPT ![task[s].conn] = None] /\ Ended(s)
      BY <2>14, SendMoves, Zenon DEF SendFails, EndSend, systemVars
    <3> QED
      BY Zenon, <2>12, <3>1
  <2> QED
    BY <1>9, <2>3, <2>4, <2>5, <2>7, <2>8, <2>9, <2>10, <2>11, <2>13, <2>14, ZenonT(40) DEF Quiet
<1> QED
  BY Zenon, <1>3, <1>4, <1>5, <1>6, <1>7, <1>8, <1>9, StepCases

\* The i-th piece of st is c's and follows the one before it.
Follows(st, c, i) ==
    /\ st[i].for = c
    /\ IF st[i].piece = 1 THEN i = 1 \/ st[i - 1].piece = Pieces
       ELSE i > 1 /\ st[i - 1] = [st[i] EXCEPT !.piece = @ - 1]

\* OwnWholeFrames, piece by piece.
LEMMA WholeMeans ==
    OwnWholeFrames <=>
        \A c \in Conns : fresh[c] => \A i \in DOMAIN stream[c] : Follows(stream[c], c, i)
BY Zenon DEF OwnWholeFrames, Follows

\* A piece continues its frame, or begins one after a whole one.
LEMMA WholeStep ==
    TypeOK /\ TaskInv /\ OnInv /\ PartialInv /\ OwnWholeFrames /\ [Next]_vars => OwnWholeFrames'
<1> SUFFICES ASSUME TypeOK, TaskInv, OnInv, PartialInv, OwnWholeFrames, [Next]_vars,
                    NEW c \in Conns, fresh'[c], NEW i \in DOMAIN stream'[c]
             PROVE  Follows(stream'[c], c, i)
  BY Zenon DEF OwnWholeFrames, Follows
<1>1. CASE fresh[c] /\ stream'[c] = stream[c]
  BY Zenon, <1>1, WholeMeans
<1>2. ASSUME NEW f \in Fds, Accept(f) PROVE fresh[c] /\ stream'[c] = stream[c]
  <2>1. UNCHANGED stream /\ fresh' = [fresh EXCEPT ![conns + 1] = ~InUse(f)]
    BY Zenon, <1>2 DEF Accept
  <2>2. c # conns + 1
    <3> SUFFICES ASSUME c = conns + 1 PROVE FALSE
      BY Zenon
    <3>1. stream[c] = <<>>
      BY DEF TaskInv, TypeOK
    <3> QED
      BY <2>1, <3>1
  <2> QED
    BY Zenon, <2>1, <2>2 DEF TypeOK
<1>3. CASE Quiet
  <2>1. fresh[c]
    BY Zenon, <1>3, QuietSame
  <2>2. ASSUME NEW s \in Senders, SendPiece(s), task[s].on = c
        PROVE  Follows(stream'[c], c, i)
    <3> DEFINE n == Len(stream[c])
               q == [frame |-> task[s].frame, piece |-> task[s].sent + 1, for |-> task[s].for]
    <3>1. /\ stream'[c][n + 1] = q /\ \A j \in 1..n : stream'[c][j] = stream[c][j]
          /\ n \in Nat /\ DOMAIN stream[c] = 1..n /\ i \in 1..(n + 1)
      BY ZenonT(40), <2>2, PieceSent
    <3>2. task[s].at = "send" /\ peer[c] = "open"
      BY Zenon, <2>2 DEF SendPiece, Sending
    <3>n. task[s].sent \in Nat
      <4>1. task[s].sent \in 0..(Pieces - 1)
        BY <3>2, SendMoves, Zenon
      <4> QED
        BY <4>1
    <3>3. task[s].for = c /\ task[s].conn = c
      BY Zenon, <2>1, <2>2, Constants DEF OnInv
    <3>4. Continues(s, c)
      BY Zenon, <2>1, <2>2, <3>2, <3>3 DEF PartialInv, InOrder, SendsOn, Holds
    <3>5. CASE i \in 1..n
      <4>1. i > 1 => stream'[c][i - 1] = stream[c][i - 1]
        BY SMTT(40), <3>1, <3>5
      <4>2. stream'[c][i] = stream[c][i] /\ i \in DOMAIN stream[c] /\ (~(i > 1) => i = 1)
        BY <3>1, <3>5
      <4>3. Follows(stream[c], c, i)
        BY Zenon, <2>1, <4>2, WholeMeans
      <4> HIDE DEF n, q
      <4> QED
        BY <4>1, <4>2, <4>3, ZenonT(40) DEF Follows
    <3>6. CASE i = n + 1
      <4>1. stream'[c][i] = q /\ q.for = c /\ q.piece = task[s].sent + 1
        BY Zenon, <3>1, <3>3, <3>6
      <4>2. n > 0 => stream'[c][i - 1] = stream[c][n] /\ i > 1
        BY SMTT(40), <3>1, <3>6
      <4>3. n = 0 <=> stream[c] = <<>>
        BY DEF TypeOK
      <4>4. CASE task[s].sent = 0
        BY <3>1, <3>4, <3>6, <4>1, <4>2, <4>3, <4>4 DEF Continues, Partial, Follows
      <4>5. CASE task[s].sent # 0
        <5>1. i > 1 /\ stream'[c][i - 1] =
                [frame |-> task[s].frame, piece |-> task[s].sent, for |-> task[s].for]
          BY <3>1, <3>4, <4>2, <4>3, <4>5 DEF Continues
        <5>2. [q EXCEPT !.piece = @ - 1] =
                [frame |-> task[s].frame, piece |-> task[s].sent, for |-> task[s].for]
          BY SMTT(40), <3>n
        <5>3. q.piece # 1
          BY SMTT(40), <3>n, <4>5
        <5> HIDE DEF q
        <5> QED
          BY <4>1, <5>1, <5>2, <5>3, ZenonT(40) DEF Follows
      <4> QED
        BY Zenon, <4>4, <4>5
    <3> QED
      BY SMTT(40), <3>1, <3>5, <3>6
  <2>3. ASSUME NEW s \in Senders, SendPiece(s), task[s].on # c PROVE stream'[c] = stream[c]
    BY ZenonT(40), <2>3, PieceSent
  <2>4. (\E s \in Senders : SendPiece(s)) \/ UNCHANGED stream
    BY <1>3, Zenon DEF Quiet, OnSubscribe, OnHeartbeat, PeerLeaves, Route, NextTarget, Lookup,
       LockConn, CallSend, SendFails, systemVars
  <2> QED
    BY <1>1, <2>1, <2>2, <2>3, <2>4, Zenon
<1>4. UNCHANGED vars => UNCHANGED <<fresh, stream>>
  BY Zenon DEF vars, systemVars
<1>5. Register \/ AcceptLoopEnds => UNCHANGED <<fresh, stream>>
  BY Zenon DEF Register, AcceptLoopEnds, systemVars
<1>6. (\E e \in Conns : RecvFails(e) \/ LoopEnds(e) \/ CloseSock(e) \/ EraseClient(e) \/ Notify(e))
        => UNCHANGED <<fresh, stream>>
  BY Zenon DEF RecvFails, LoopEnds, CloseSock, EraseClient, Notify, systemVars
<1>7. (\E s \in Senders : SigPipe(s)) => UNCHANGED <<fresh, stream>>
  BY Zenon DEF SigPipe
<1>8. UNCHANGED <<fresh, stream>> => fresh[c] /\ stream'[c] = stream[c]
  BY Zenon
<1> QED
  BY <1>1, <1>2, <1>3, <1>4, <1>5, <1>6, <1>7, <1>8, StepCases, Zenon
------------------------------------------------------------------------------
\* The invariant holds when the server starts ...
LEMMA InitInv == Init => IInv
<1> SUFFICES ASSUME Init PROVE IInv
  BY Zenon 
<1> USE Constants DEF Init
<1>1. TypeOK
  BY SMTT(40) DEF TypeOK, Task, Idle
<1>2. TableInv
  BY SMTT(40) DEF TableInv, HasSock, NewOne, Active
<1>3. EntriesInv
  BY Zenon DEF EntriesInv
<1>4. TaskInv
  BY Zenon DEF TaskInv, FieldsOK, LockInv, Holds, Idle
<1>5. FreshInv /\ PartialInv /\ OwnWholeFrames
  BY Zenon DEF FreshInv, PartialInv, OwnWholeFrames
<1>6. OnInv
  BY Zenon DEF OnInv, Idle
<1> QED
  BY Zenon, <1>1, <1>2, <1>3, <1>4, <1>5, <1>6 DEF IInv

\* ... and every step keeps it.
LEMMA NextInv == IInv /\ [Next]_vars => IInv'
BY TypeStep, TableStep, EntriesStep, TaskStep, FreshStep, OnStep, PartialStep, WholeStep, Zenon
   DEF IInv

\* IInv is an invariant of the server.
THEOREM Invariance == Spec => []IInv
BY InitInv, NextInv, PTL DEF Spec

\* The server's state keeps its shape, and no call of send_to sends more than
\* its frame, however many connections and descriptors there are.
THEOREM ServerTypes == Spec => []TypeOK
<1>1. IInv => TypeOK
  BY Zenon DEF IInv
<1> QED
  BY <1>1, Invariance, PTL

\* However the clean-ups of successive connections on a descriptor interleave,
\* they leave nothing behind.
THEOREM CleanUpComplete == Spec => []NothingLeftBehind
<1>1. IInv => NothingLeftBehind
  <2> SUFFICES ASSUME IInv, NEW f \in Fds, clients[f] # None \/ subscribed[f] # None
               PROVE  \E c \in Conns : sock[c] = f /\ handler[c] \in Active
    BY Zenon DEF NothingLeftBehind, Active
  <2>1. clients[f] \in Conns \cup {None} /\ subscribed[f] \in Conns \cup {None}
    BY Zenon DEF IInv, TypeOK
  <2>2. clients[f] # None => sock[clients[f]] = f /\ handler[clients[f]] \in Active
    BY Zenon DEF IInv, EntriesInv, Active
  <2>3. subscribed[f] # None => sock[subscribed[f]] = f /\ handler[subscribed[f]] \in Active
    BY Zenon DEF IInv, EntriesInv
  <2> QED
    BY Zenon, <2>1, <2>2, <2>3
<1> QED
  BY <1>1, Invariance, PTL

\* A connection that got its descriptor when nobody used the id any more stays
\* registered until its own handler closes it.
THEOREM FreshStaysRegistered == Spec => []StaysRegistered
<1>1. IInv => StaysRegistered
  <2> SUFFICES ASSUME IInv, NEW c \in Conns, fresh[c], handler[c] \in {"recv", "close"}
               PROVE  clients[sock[c]] = c /\ subscribed[sock[c]] \in {c, None}
    BY Zenon DEF StaysRegistered
  <2>1. HasSock(c)
    BY Zenon DEF IInv, TableInv, Active
  <2> QED
    BY Zenon, <2>1 DEF IInv, FreshInv, OwnId
<1> QED
  BY <1>1, Invariance, PTL

\* Such a connection's stream consists of whole frames meant for it.
THEOREM FramesIntact == Spec => []OwnWholeFrames
<1>1. IInv => OwnWholeFrames
  BY Zenon DEF IInv
<1> QED
  BY <1>1, Invariance, PTL
==============================================================================
