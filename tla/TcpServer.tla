------------------------------ MODULE TcpServer ------------------------------
(***************************************************************************)
(* broker/src/TcpServer.cpp: connections, their descriptors and their      *)
(* threads.  One accept thread, one detached handler per connection, and   *)
(* send_to called by the dispatcher and by handlers.                       *)
(*                                                                         *)
(* A client's id is its descriptor.  The operating system gives a closed   *)
(* descriptor to the next connection, while the former handler may still   *)
(* have to erase the id, and a sender may still hold the ClientConn with   *)
(* that descriptor.  Connections are numbered in the order of accept; a    *)
(* number also stands for the ClientConn and the handler thread.           *)
(*                                                                         *)
(* Frames are sent in Pieces calls of send.  What is in them is in         *)
(* Framing, where they come from in Broker.                                *)
(***************************************************************************)
EXTENDS Integers, Sequences

CONSTANTS Fds,        \* descriptors the system gives to connections
          MaxConns,   \* bound: connections accepted
          MaxFrames,  \* bound: calls of send_to
          Pieces      \* calls of send that a frame takes

ASSUME FdsPositive == Fds \subseteq Nat \ {0}
ASSUME SizesNat == MaxConns \in Nat /\ MaxFrames \in Nat
                   /\ Pieces \in Nat \ {0}

Conns == 1..MaxConns
Dispatcher == 0
Senders == Conns \cup {Dispatcher}
None == -1   \* no descriptor, no connection, nobody

VARIABLES acceptor,   \* accept_loop: in "accept", has "accepted", or is "done"
          conns,      \* connections accepted so far
          clients,    \* clients_: per id a connection or None
          sock,       \* per connection: ClientConn::sock
          send_mu,    \* per connection: who has ClientConn::send_mu, or None
          handler,    \* per connection: "none", in "recv", about to "close", to
                      \* "erase" or to "notify", or "done"
          subscribed, \* the router: per id the connection that subscribed, or None
          targets,    \* the dispatcher's loop: subscribed, as routed
          task,       \* per sender: its call of send_to
          frames,     \* calls of send_to so far
          table,      \* the system: per descriptor the open connection, or None
          peer,       \* per connection: the other end is "open" or "gone"
          stream,     \* per connection: all pieces sent on it
          fresh       \* history, see Accept

serverVars == <<acceptor, conns, clients, sock, send_mu>>
threadVars == <<handler, subscribed, targets, task, frames>>
systemVars == <<table, peer, stream>>
vars == <<serverVars, threadVars, systemVars, fresh>>

\* A call of send_to: for id, the frame's number and the connection it is meant
\* for; then the conn it found, the pieces sent, and the connection that the
\* present call of send works on.
Idle == [at |-> "idle", id |-> None, frame |-> 0, for |-> None, conn |-> None,
         sent |-> 0, on |-> None]

\* The call t at another point of send_to.
At(t, at, conn, sent, on) ==
    [at |-> at, id |-> t.id, frame |-> t.frame, for |-> t.for, conn |-> conn,
     sent |-> sent, on |-> on]

Init ==
    /\ acceptor = "accept" /\ conns = 0
    /\ clients = [f \in Fds |-> None]
    /\ sock = [c \in Conns |-> None]
    /\ send_mu = [c \in Conns |-> None]
    /\ handler = [c \in Conns |-> "none"]
    /\ subscribed = [f \in Fds |-> None] /\ targets = [f \in Fds |-> None]
    /\ task = [s \in Senders |-> Idle] /\ frames = 0
    /\ table = [f \in Fds |-> None]
    /\ peer = [c \in Conns |-> "open"]
    /\ stream = [c \in Conns |-> <<>>]
    /\ fresh = [c \in Conns |-> FALSE]
------------------------------------------------------------------------------
\* A thread may still act under id f: a handler that has not done its
\* clean-up, a sender, or the dispatcher with f among its targets.
InUse(f) ==
    \/ \E c \in Conns : sock[c] = f /\ handler[c] \notin {"none", "done"}
    \/ \E s \in Senders : task[s].id = f
    \/ targets[f] # None

\* Mutant: the handler is started before the connection is registered.
AcceptAndHandle(f) ==
    /\ acceptor = "accept" /\ conns < MaxConns
    /\ table[f] = None /\ \A g \in Fds : table[g] = None => f <= g
    /\ conns' = conns + 1
    /\ acceptor' = "accepted"
    /\ sock' = [sock EXCEPT ![conns + 1] = f]
    /\ table' = [table EXCEPT ![f] = conns + 1]
    /\ handler' = [handler EXCEPT ![conns + 1] = "recv"]
    /\ fresh' = [fresh EXCEPT ![conns + 1] = ~InUse(f)]
    /\ UNCHANGED <<clients, send_mu, subscribed, targets, task, frames, peer, stream>>

\* accept returns a connection, on the first free descriptor.  The connection is fresh
\* if nobody has anything left to do for the descriptor's former user.
Accept(f) ==
    /\ acceptor = "accept" /\ conns < MaxConns
    /\ table[f] = None /\ \A g \in Fds : table[g] = None => f <= g
    /\ conns' = conns + 1
    /\ acceptor' = "accepted"
    /\ sock' = [sock EXCEPT ![conns + 1] = f]
    /\ table' = [table EXCEPT ![f] = conns + 1]
    /\ fresh' = [fresh EXCEPT ![conns + 1] = ~InUse(f)]
    /\ UNCHANGED <<clients, send_mu, threadVars, peer, stream>>

\* The connection is registered and gets its handler.
Register ==
    /\ acceptor = "accepted"
    /\ acceptor' = "accept"
    /\ clients' = [clients EXCEPT ![sock[conns]] = conns]
    /\ handler' = [handler EXCEPT ![conns] = "recv"]
    /\ UNCHANGED <<conns, sock, send_mu, systemVars, fresh>>
    /\ UNCHANGED <<subscribed, targets, task, frames>>

\* The loop ends for good: running_ is false, or accept fails for whatever
\* reason.
AcceptLoopEnds ==
    /\ acceptor = "accept" /\ conns < MaxConns
    /\ acceptor' = "done"
    /\ UNCHANGED <<conns, clients, sock, send_mu, threadVars, systemVars, fresh>>
------------------------------------------------------------------------------
Receiving(c) == handler[c] = "recv" /\ task[c] = Idle

\* on_frame, SUBSCRIBE.
OnSubscribe(c) ==
    /\ Receiving(c)
    /\ subscribed' = [subscribed EXCEPT ![sock[c]] = c]
    /\ UNCHANGED <<serverVars, handler, targets, task, frames, systemVars, fresh>>

\* send_to is called, for a frame meant for connection c.
CallSendTo(s, f, c) ==
    /\ frames < MaxFrames
    /\ frames' = frames + 1
    /\ task' = [task EXCEPT ![s] = [at |-> "lookup", id |-> f, frame |-> frames + 1,
                                    for |-> c, conn |-> None, sent |-> 0, on |-> None]]

\* on_frame, HEARTBEAT.
OnHeartbeat(c) ==
    /\ Receiving(c)
    /\ CallSendTo(c, sock[c], c)
    /\ UNCHANGED <<serverVars, handler, subscribed, targets, systemVars, fresh>>

\* Mutant: the end of the stream is taken for an empty read.
RecvAgain(c) == Receiving(c) /\ peer[c] = "gone" /\ UNCHANGED vars

\* The handler leaves its loop: recv fails, ...
RecvFails(c) ==
    /\ Receiving(c) /\ peer[c] = "gone"
    /\ handler' = [handler EXCEPT ![c] = "close"]
    /\ UNCHANGED <<serverVars, subscribed, targets, task, frames, systemVars, fresh>>

\* ... or bytes arrive that have bad magic, or that are the last ones because
\* running_ is false.
LoopEnds(c) ==
    /\ Receiving(c) /\ peer[c] = "open"
    /\ handler' = [handler EXCEPT ![c] = "close"]
    /\ UNCHANGED <<serverVars, subscribed, targets, task, frames, systemVars, fresh>>

\* From here on the system may give the descriptor away.
CloseSock(c) ==
    /\ handler[c] = "close"
    /\ handler' = [handler EXCEPT ![c] = "erase"]
    /\ table' = [table EXCEPT ![sock[c]] = None]
    /\ UNCHANGED <<serverVars, subscribed, targets, task, frames>>
    /\ UNCHANGED <<peer, stream, fresh>>

\* Mutant: the id is not erased.
EraseNothing(c) ==
    /\ handler[c] = "erase"
    /\ handler' = [handler EXCEPT ![c] = "notify"]
    /\ UNCHANGED <<serverVars, subscribed, targets, task, frames, systemVars, fresh>>

\* clients_.erase(id), whoever is registered under it.
EraseClient(c) ==
    /\ handler[c] = "erase"
    /\ handler' = [handler EXCEPT ![c] = "notify"]
    /\ clients' = [clients EXCEPT ![sock[c]] = None]
    /\ UNCHANGED <<acceptor, conns, sock, send_mu, systemVars, fresh>>
    /\ UNCHANGED <<subscribed, targets, task, frames>>

\* on_frame, ERROR_RESP: the id is unsubscribed, whoever subscribed it.
Notify(c) ==
    /\ handler[c] = "notify"
    /\ handler' = [handler EXCEPT ![c] = "done"]
    /\ subscribed' = [subscribed EXCEPT ![sock[c]] = None]
    /\ UNCHANGED <<serverVars, targets, task, frames, systemVars, fresh>>
------------------------------------------------------------------------------
\* The dispatcher routes a message to some of the subscribed ids ...
Route ==
    /\ task[Dispatcher] = Idle /\ \A f \in Fds : targets[f] = None
    /\ frames < MaxFrames
    /\ \E fs \in (SUBSET {f \in Fds : subscribed[f] # None}) \ {{}} :
        targets' = [f \in Fds |-> IF f \in fs THEN subscribed[f] ELSE None]
    /\ UNCHANGED <<serverVars, handler, subscribed, task, frames, systemVars, fresh>>

\* ... and calls send_to for each.
NextTarget(f) ==
    /\ task[Dispatcher] = Idle /\ targets[f] # None
    /\ CallSendTo(Dispatcher, f, targets[f])
    /\ targets' = [targets EXCEPT ![f] = None]
    /\ UNCHANGED <<serverVars, handler, subscribed, systemVars, fresh>>

\* send_to looks the id up, under clients_mu_; it returns if there is none.
Lookup(s) ==
    LET c == clients[task[s].id] IN
    /\ task[s].at = "lookup"
    /\ task' = [task EXCEPT ![s] = IF c = None THEN Idle
                                   ELSE At(@, "lock", c, 0, None)]
    /\ UNCHANGED <<serverVars, handler, subscribed, targets, frames, systemVars, fresh>>

\* Mutant: send_mu is not taken.
LockNothing(s) ==
    /\ task[s].at = "lock"
    /\ task' = [task EXCEPT ![s] = At(@, "call", @.conn, @.sent, None)]
    /\ UNCHANGED <<serverVars, handler, subscribed, targets, frames, systemVars, fresh>>

LockConn(s) ==
    /\ task[s].at = "lock"
    /\ send_mu[task[s].conn] = None
    /\ send_mu' = [send_mu EXCEPT ![task[s].conn] = s]
    /\ task' = [task EXCEPT ![s] = At(@, "call", @.conn, @.sent, None)]
    /\ UNCHANGED <<acceptor, conns, clients, sock, systemVars, fresh>>
    /\ UNCHANGED <<handler, subscribed, targets, frames>>

\* Mutant: send_mu stays locked when the connection is closed.
EndWithoutUnlock(s) ==
    /\ task' = [task EXCEPT ![s] = Idle]
    /\ send_mu' = IF task[s].at = "call" THEN send_mu
                  ELSE [send_mu EXCEPT ![task[s].conn] = None]

\* The end of send_to, with the unlock.
EndSend(s) ==
    /\ task' = [task EXCEPT ![s] = Idle]
    /\ send_mu' = [send_mu EXCEPT ![task[s].conn] = None]

\* A call of send works on the connection that now has the descriptor; without
\* one it fails.
CallSend(s) ==
    LET c == table[sock[task[s].conn]] IN
    /\ task[s].at = "call"
    /\ IF c = None THEN EndSend(s)
       ELSE task' = [task EXCEPT ![s] = At(@, "send", @.conn, @.sent, c)] /\ UNCHANGED send_mu
    /\ UNCHANGED <<acceptor, conns, clients, sock, systemVars, fresh>>
    /\ UNCHANGED <<handler, subscribed, targets, frames>>

Sending(s) == task[s].at = "send" /\ peer[task[s].on] = "open"

\* Mutant: the loop runs once too often.
SendOneMore(s) ==
    LET c == task[s].on IN
    /\ Sending(s)
    /\ stream' = [stream EXCEPT ![c] = Append(@,
                    [frame |-> task[s].frame, piece |-> task[s].sent + 1, for |-> task[s].for])]
    /\ IF task[s].sent = Pieces THEN EndSend(s)
       ELSE /\ task' = [task EXCEPT ![s] = At(@, "call", @.conn, @.sent + 1, None)]
            /\ UNCHANGED send_mu
    /\ UNCHANGED <<acceptor, conns, clients, sock, table, peer, fresh>>
    /\ UNCHANGED <<handler, subscribed, targets, frames>>

\* It takes a piece once there is room, that is, when the peer has read enough
\* of what it was sent before.
SendPiece(s) ==
    LET c == task[s].on IN
    /\ Sending(s)
    /\ stream' = [stream EXCEPT ![c] = Append(@,
                    [frame |-> task[s].frame, piece |-> task[s].sent + 1, for |-> task[s].for])]
    /\ IF task[s].sent + 1 = Pieces THEN EndSend(s)
       ELSE /\ task' = [task EXCEPT ![s] = At(@, "call", @.conn, @.sent + 1, None)]
            /\ UNCHANGED send_mu
    /\ UNCHANGED <<acceptor, conns, clients, sock, table, peer, fresh>>
    /\ UNCHANGED <<handler, subscribed, targets, frames>>

\* The peer has gone: send fails ...
SendFails(s) ==
    /\ task[s].at = "send" /\ peer[task[s].on] = "gone"
    /\ EndSend(s)
    /\ UNCHANGED <<acceptor, conns, clients, sock, systemVars, fresh>>
    /\ UNCHANGED <<handler, subscribed, targets, frames>>

\* ... or raises SIGPIPE, which nobody handles: the process ends, with all of
\* its threads.
SigPipe(s) ==
    /\ task[s].at = "send" /\ peer[task[s].on] = "gone"
    /\ acceptor' = "done"
    /\ clients' = [f \in Fds |-> None]
    /\ send_mu' = [c \in Conns |-> None]
    /\ handler' = [c \in Conns |-> "done"]
    /\ subscribed' = [f \in Fds |-> None] /\ targets' = [f \in Fds |-> None]
    /\ task' = [t \in Senders |-> Idle]
    /\ table' = [f \in Fds |-> None]
    /\ UNCHANGED <<conns, sock, frames, peer, stream, fresh>>
------------------------------------------------------------------------------
\* The other end, which is not under src/, closes.
PeerLeaves(c) ==
    /\ peer[c] = "open"
    /\ (\E f \in Fds : table[f] = c) \/ \E s \in Senders : task[s].on = c
    /\ peer' = [peer EXCEPT ![c] = "gone"]
    /\ UNCHANGED <<serverVars, threadVars, table, stream, fresh>>

AcceptThread == (\E f \in Fds : Accept(f)) \/ Register \/ AcceptLoopEnds

Handler(c) ==
    \/ OnSubscribe(c) \/ OnHeartbeat(c) \/ RecvFails(c) \/ LoopEnds(c)
    \/ CloseSock(c) \/ EraseClient(c) \/ Notify(c)

SendTo(s) == Lookup(s) \/ LockConn(s) \/ CallSend(s) \/ SendPiece(s) \/ SendFails(s) \/ SigPipe(s)

Next ==
    \/ AcceptThread
    \/ \E c \in Conns : Handler(c)
    \/ Route \/ \E f \in Fds : NextTarget(f)
    \/ \E s \in Senders : SendTo(s)
    \/ \E c \in Conns : PeerLeaves(c)

Spec == Init /\ [][Next]_vars

(***************************************************************************)
(* Fairness: the broker's threads run, a thread that waits for send_mu     *)
(* gets it if it keeps coming free, and a peer that stays reads what it is *)
(* sent, as the gateway's event loop does.  Nobody need connect, send or   *)
(* leave.                                                                  *)
(***************************************************************************)
Fairness ==
    /\ WF_vars(Register)
    /\ \A c \in Conns :
        WF_vars(RecvFails(c) \/ CloseSock(c) \/ EraseClient(c) \/ Notify(c))
    /\ WF_vars(\E f \in Fds : NextTarget(f))
    /\ \A s \in Senders :
        /\ WF_vars(Lookup(s) \/ CallSend(s) \/ SendPiece(s) \/ SendFails(s) \/ SigPipe(s))
        /\ SF_vars(LockConn(s))

FairSpec == Spec /\ Fairness
------------------------------------------------------------------------------
Task == [at : {"idle", "lookup", "lock", "call", "send"}, id : Fds \cup {None},
         frame : 0..MaxFrames, for : Conns \cup {None}, conn : Conns \cup {None},
         sent : 0..Pieces, on : Conns \cup {None}]
Piece == [frame : 1..MaxFrames, piece : 1..Pieces, for : Conns]

\* The registry, the threads' state and the system's tables keep their shape,
\* and send_to sends no more than the frame.
TypeOK ==
    /\ acceptor \in {"accept", "accepted", "done"}
    /\ conns \in 0..MaxConns /\ frames \in 0..MaxFrames
    /\ clients \in [Fds -> Conns \cup {None}]
    /\ subscribed \in [Fds -> Conns \cup {None}]
    /\ targets \in [Fds -> Conns \cup {None}]
    /\ table \in [Fds -> Conns \cup {None}]
    /\ sock \in [Conns -> Fds \cup {None}]
    /\ send_mu \in [Conns -> Senders \cup {None}]
    /\ handler \in [Conns -> {"none", "recv", "close", "erase", "notify", "done"}]
    /\ task \in [Senders -> Task]
    /\ peer \in [Conns -> {"open", "gone"}]
    /\ stream \in [Conns -> Seq(Piece)]
    /\ fresh \in [Conns -> BOOLEAN]
    /\ \A c \in Conns : (c <= conns) = (sock[c] # None)

\* The clean-up is complete: once the handlers of an id have ended, the id is
\* neither registered nor subscribed, even if handlers of successive
\* connections did their clean-up in another order than they were started.
NothingLeftBehind ==
    \A f \in Fds :
        (clients[f] # None \/ subscribed[f] # None) =>
            \E c \in Conns : sock[c] = f /\ handler[c] \in {"recv", "close", "erase", "notify"}

\* A fresh connection stays registered under its id, and nobody else is
\* subscribed under it, until its own handler closes the descriptor.
StaysRegistered ==
    \A c \in Conns : fresh[c] /\ handler[c] \in {"recv", "close"} =>
        /\ clients[sock[c]] = c
        /\ subscribed[sock[c]] \in {c, None}

\* What a fresh connection's peer reads are whole frames, one after the other,
\* all of them meant for it: the dispatcher and the handler do not get into each
\* other's frames, and nothing arrives that was routed to a former user of
\* the descriptor.  (A frame is cut off only at the end.)
OwnWholeFrames ==
    \A c \in Conns : fresh[c] => \A i \in DOMAIN stream[c] :
        LET p == stream[c][i] IN
        /\ p.for = c
        /\ IF p.piece = 1 THEN i = 1 \/ stream[c][i - 1].piece = Pieces
           ELSE i > 1 /\ stream[c][i - 1] = [p EXCEPT !.piece = @ - 1]

\* The dispatcher, on which all clients depend, gets out of send_to, though
\* connections are closed, reused and broken off while it looks up, waits for
\* send_mu or waits for room.
SendReturns == task[Dispatcher].at # "idle" ~> task[Dispatcher].at = "idle"

\* Once its peer has gone a connection is cleaned up (or SIGPIPE has ended the
\* broker with all its threads).
HandlersEnd ==
    \A c \in Conns : handler[c] = "recv" /\ peer[c] = "gone" ~> handler[c] = "done"
==============================================================================
