# Verification of the message-driven event queue

TLA+ models of the C++ broker and the Node gateway, checked with TLC on small
instances and, where the provers reach, proved with TLAPS for all instances.
Every definition is translated from the source; `PROJECT.json` maps each one to
the lines it stands for, and lists hazards, findings, mutants and theorems.

## The system

```
 services, dashboard --WebSocket--> gateway --TCP--> broker
                                    WsServer         TcpServer -> on_frame
                                    TcpClient        main_queue -> dispatcher -> TopicRouter
                                                     AckEngine (in-flight map, deadline heap, scanner)
                                                     dlq -> dlq logger -> main_queue
                                                     WalWriter (two buffers, flush thread, file)
```

A PUBLISH frame is logged and pushed to `main_queue`. The dispatcher pops,
routes, tracks each delivery in the `AckEngine` and sends it. An ACK erases the
delivery and is logged; a NACK, a disconnect or a timeout requeues the message
with a higher retry count, or moves it to `dlq` as `$DLQ.<topic>`. The dlq logger
pushes dead letters back to `main_queue`, with a `$SYS.dlq` message about each.
After a restart the log is replayed. The gateway is one client of the broker; it
keeps two subscription maps, drops ids it has seen lately, and passes events on.

| Part | Source | Modules | Extent |
|---|---|---|---|
| SafeQueue | `broker/include/SafeQueue.hpp` | `SafeQueue`, abstract: `BoundedQueue` | all |
| AckEngine | `broker/src/AckEngine.cpp` | `AckEngine`; `stop` in `Broker` | all |
| TopicRouter | `broker/src/TopicRouter.cpp` | `TopicRouter`, `TopicMatch`, `MCTopicRouter` | all |
| main.cpp | `broker/src/main.cpp` | `Broker` (extends `AckEngine`, instantiates `TopicRouter`), `Recovery` (with `WalWriter`) | all but configuration and destruction |
| TcpServer | `broker/src/TcpServer.cpp` | `TcpServer` (connections, descriptors, sending), `Framing` (reassembly) | all but socket options |
| WalWriter | `broker/src/WalWriter.cpp` | `WalWriter`; with main.cpp: `Recovery` | all |
| Wire format | `Protocol.hpp`, `protocol.js` | `Protocol`, `TopicMatch` | all |
| TcpClient | `gateway/src/tcpClient.js` | `Gateway` (queue, flush), `Framing` (receiving, reconnecting) | all but backoff times and `stop` |
| WsServer | `gateway/src/wsServer.js` | `Gateway` | all but replies and status |
| services, dashboard, benchmarks | | | not modelled |

## How the models correspond to the code

**SafeQueue.** A critical section of `mu_` is one step; waiting, being notified,
timing out and the `notify_one` after the unlock are steps of their own, so every
interleaving around the unlock is there. Condition variables may wake a thread for
no reason. `BoundedQueue` is what callers rely on, and the other modules use
queues as it describes: append when there is room, else wait.

**AckEngine.** `mu_` is a variable, because `requeue_or_dlq` can block in a push
with the lock held. `nack`, `client_disconnected` and the scan are therefore split
into taking the lock, the pushes, and the release; `track` and `ack` are one step.
The clock is read before the lock, as in `redelivery_loop`. The heap is a set: two
equal entries would be popped in the same scan, and the second finds nothing.
Topic and body are reduced to the number of `$DLQ.` prefixes. The dispatcher pops
and routes in steps of their own; here a route is any choice of targets.

**TopicRouter.** One step per method (all run under `mu_`). A slot is a pattern
with a group; one without members stands for one not in the map. The order in
which the hash maps are walked is left open, but the groups of a pattern come
together and the members of a slot from the front. `size_t` wrap-around of
`rr_idx` is not modelled. `MCTopicRouter` adds what the clients asked for, the
turns they got and the last route, as history.

**Broker.** The `AckEngine` actions conjoined with what `main.cpp` does around
each call: one handler thread per client, the dispatcher, the dlq logger, the
scanner. Between popping a message and asking the router for its targets the
dispatcher holds no lock, so a client can subscribe or leave in between. A handler
that waits in a push reads no further frame. Clients may
subscribe, publish, ack, nack and leave at any time; ACK and NACK name messages
that were sent to the client. All clients in the repository publish with
`msg_id` 0, so the broker always assigns the id. `AckTimeout` 0 lets a delivery time
out at any scan, which covers every race of the timeout. `Signal` may come at any
moment; each thread that `main` joins ends when its loop next looks, and the
detached handlers go on.

**WalWriter, Recovery.** The log is a sequence of records. The flush thread
writes record after record, and a crash can leave a torn one. Behind a torn record
`replay` is out of step, and may fall into step again: what it finds there is a
free choice of the records that follow and of garbage. `Recovery` puts the log
into the broker with one consumer, which outlives restarts, may answer late and
need not be subscribed: the dispatcher delivers a message or drops it. Failed
deliveries are retried and then dead-lettered; a dead letter keeps its id and is
not logged, the `$SYS.dlq` event about it is. A turn of a thread (append and push,
pop and track) is one step and the queues are sets, as `Broker` has the turns and
the bounds. `given`, `done` and `dropped` are history.

**TcpServer.** A client's id is its descriptor. The system gives a closed
descriptor to the next connection, possibly before the former handler has erased
the id and called `on_frame(ERROR_RESP)`, and while a sender still holds the old
`ClientConn`; all these are steps of their own. A frame takes `Pieces` calls of
`send`, under `send_mu`; `send` waits for room, fails, or raises SIGPIPE, which
ends the process. Any failure of `accept` ends `accept_loop`. `fresh` is history:
a connection that got its descriptor after the former user's clean-up.

**Protocol, Framing.** Encoders and decoders are functions on byte sequences with
the number base, the magic and the field widths as constants; lengths are cut to
their field as the casts in the code do. In `Framing` bytes travel in pieces of
any size, and the connection can break at any byte. `handle_client` starts with
an empty buffer and handles one frame per step; `TcpClient` parses all it can in
one step (`ParseFrames`, with one `ParseRound` per turn of the loop) and keeps its
buffer for the next connection. `clean` is history: this connection found the
buffer empty. `FramesFit` is what the callers see to: ids and payload lengths fit
their fields, and the gateway's encoders throw on topics and groups that do not
fit theirs. Topics of events may be too long, as `$DLQ.` makes them.

**Gateway.** Each event handler is a step (Node runs one at a time). Frames to
the broker are SUBSCRIBE or something that changes no subscription. `brokerSubs` is
what the broker has of this connection; it is lost with it. A handler that throws
(on a topic or group that is too long to encode, or an id that is no number) ends
the process, since nobody catches the error, and the container starts the next
one with empty maps: `HandlerThrows`. `joined`, `accepted` and `sentTo` are history
variables.

## Runs

| Run | Instance | States | Shows |
|---|---|---|---|
| `safequeue` | 2 producers with 3 items each, `pop` and `try_pop_for`, capacity 2 | 23,190 | bounded FIFO (refinement of `BoundedQueue`), no lost wake-up, every item is taken, every waiting push returns |
| `ackengine` | 2 ids, 1 client, up to 2 targets, 1 retry, queues of 1, 2 ticks | 440,068 | lock discipline, heap covers the map, retry budget, no silent loss, no early expiry; every delivery is settled or times out, or a full queue brings the engine to a standstill |
| `router` | 3 clients, 2 patterns, a group and the unique groups, 4 turns | 4,824 | exact membership, one copy per group, even turns |
| `broker` | 1 client for orders and dead letters, 2 published messages, 3 ids with the audits, 1 retry, queues of 1, a signal at any moment | 142,566 | nothing lost, nothing multiplied, retry budgets spent exactly; every message comes to an end under its own topic and shutdown ends, unless full queues stop them |
| `recovery` | 2 ids, 2 messages, 1 retry, 2 stops, 4 records | 2,105,631 | log intact, durable messages kept or brought back by a restart, records reach the file |
| `tcpserver` | 2 descriptors, 2 connections, 2 frames of 2 pieces | 139,986 | complete clean-up, fresh connections stay registered and get whole frames of their own, `send_to` returns, handlers end |
| `framing` | every kind of frame, 2 per direction and connection, 2 connections, header of 5 bytes | 766,059 | what arrives is what was sent, in both directions |
| `gateway` | 2 clients, 2 patterns, 4 ids, ring of 3, 5 accepted events, queue of 1 | 151,554 | maps agree, ring exact, ids once per window, topics in use stay subscribed |

Runs that show a disagreement between the code and what is said of it:

| Run | Statement | What happens |
|---|---|---|
| `broker_gridlock` | "zero TCP pipeline deadlocks" (README.md:80), "without deadlock" (doc/prd.md:412) | the scanner, holding `mu_`, waits for room in `main_queue`; the dispatcher, its consumer, waits for `mu_` |
| `broker_crash` | "will wait 5 seconds and automatically redeliver" (README.md:107) | a disconnect requeues at once; with nobody else subscribed the message is dropped |
| `recovery_restart` | "Broker restart replays pending messages" (doc/prd.md:417) | ids start at 1 again; a pending message is shadowed by a new one with its id |
| `gateway_groups` | "only one payment instance processes each order" (services/payment/index.js:19) | the gateway dispatches to every client of the pattern |

**Bounds.** They are named constants: `MaxTime`, `MaxTargets`, `MaxPublished`,
`MaxRoutes`, `MaxStops`, `MaxLog`, `MaxAccepted`, `MaxItems`, `MaxConns`, `MaxFrames`,
`Pieces`, `MaxWhenStopped`. Queues of 1 fill up in `ackengine` and `broker`. Both
have the standstill: one copy fills `main_queue`, the dispatcher holds a second and
waits for `mu_`, whose holder waits for room for a third (of three messages in
`broker`; in `ackengine` the third can be the dispatcher's message, tracked for
another target). `TimeoutFires` and `Resolves` name it as their exception (`Standstill`,
`Gridlock`), and state exactly who waits for whom. Two keys and re-tracking give
the heap several entries, stale ones included. In `broker` two published messages
and an audit use up three ids; a logger that needs a fourth is held up by the
bound and not by the code, which the liveness properties except by name
(`OutOfIds`). Of a broker that is being stopped one published message is followed
(`MaxWhenStopped`). The safety properties of `broker` and `ackengine` are proved
for any number of clients, ids and retries.

With a consumer for `$DLQ.*` a dead letter that fails starts with a new retry
count, becomes a dead letter again and so on: it can circulate for ever. So
`Resolves` says of a message that it comes to an end under its own topic, acked,
dropped or dead, and not that it leaves the broker.

In `framing` a byte has 8 values, so that a topic of 9 bytes overflows its
length field, and bodies start with the magic. Two connections on two descriptors
have every overlap of an old clean-up with a new registration. In `recovery` four
records hold two messages and their ACKs, or what two stops leave of them, and a
message can be retried, dead-lettered and audited. The ring of the
gateway wraps around within five events. `gateway` uses no group names, since the
gateway only hands them on; `gateway_groups` does, and its clients are
interchangeable (`SYMMETRY`).

**Deadlock** is checked in `safequeue`, `router` and `gateway`. In the other runs the
system may stop: `ackengine` and `broker` in the standstill, the broker also after a
signal, the log after its last stop, connections when `MaxConns` are used up.

**Fairness.** Threads of the broker that can go on do so (weak fairness). A thread
that waits for `mu_` or `send_mu` gets it if it keeps coming free (strong fairness,
for lock acquisitions; `std::mutex` gives this in practice, the standard does not
promise it), and the scanner, which looks at `running_` in every round, stops when
it shall. The clock ticks. In `tcpserver` a peer that stays connected reads, as the
gateway's event loop does; the code has no timeout for `send`. Clients owe nothing,
producers need not push, and nothing is asked of `notify_one`'s choice.

**Mutants.** Every property of a passing run has a definition marked "Mutant" in
the module of the code it changes: a dropped guard, a missing erase, an index that
does not wrap. With the mutant in place TLC finds the property violated.

## Proofs

All invariants and safety properties of the passing runs, and the refinement, are
theorems for every value of the constants. Assumptions are named and stand in the
modules that declare the constants: positive ids, capacities, ring size and
descriptors (`IdsPositive`, `CapacitiesNat`, `CapacityPositive`, `RingSizePositive`,
`FdsPositive`), bounds that are numbers (`RetriesNat`, `RetriesBounded`, `MaxItemsNat`,
`SizesNat`, `StopsBounded`), finite sets of threads, clients, groups and requests
(`ThreadsFinite`, `RouterFinite`, `BrokerFinite`), the roles of threads apart
(`RolesDisjoint`), given groups apart from the unique ones (`GroupsNamed`,
`NoGroupUnnamed`, `NamesApart`), typed requests (`RequestsTyped`, `RequestsGiven`), a
byte with room for the message types and fields that are not empty
(`BytesAssumption`), and `FramesFit`.

| Module | Theorems | Inductive invariant and argument |
|---|---|---|
| `SafeQueueProofs` | `TypeCorrect`, `CapacityRespected`, `WakeupsKept`, `StandoffFree`, `ImplementsFifo` | `NoLostWakeup` counts: sleepers on one side imply that awake and about-to-notify threads are as many as the items (or places). It is inductive with the type invariant, step by step over cardinalities; that nobody sleeps opposite a sleeper follows. Each step is an `Insert`, a `Remove` or a stutter. |
| `AckEngineProofs` | `TypeCorrect`, `LockDiscipline`, `HeapCoverage`, `ExpiryOnTime`, `RetryBudget`, `AtLeastOnce` | `LockOwned` comes first: a thread inside a locked section excludes all others. `HeapCovers` needs it, since the scanner removes a heap entry only together with the map entry or when it is stale. `ExpiryOnTime` needs that the scanner's time is not in the future. `AtLeastOnce` needs that an in-flight record carries the id of its key. |
| `BrokerProofs` | `BrokerTypes`, `NoMessageLost`, `OneCopyOnly`, `BudgetExact` | every step of a thread is a step of `AckEngine` or leaves its state alone, so the lemmas about `AckEngine` carry over. `NoneLost` adds the hands of the dispatcher, the logger and the handlers. `OneCopyOnly` counts the places where a copy can be; that a route gives one target comes from the router, as with one group for each topic all members that match are in one slot. `BudgetExact` builds on it: `BudgetInv` says that the retry count in a waiting copy is the number of deliveries tracked so far, and one less in a copy that is in flight. |
| `RouterProofs` | `RouterTypes`, `MembersAreSubscribers`, `TurnsAreFair`, `EveryGroupServed`, `GatewayMatchesFewer` | a slot lists each subscriber once, and `unsubscribe` removes it from every slot. For the turns (`InTurn`): going round from the member whose turn it is, the numbers of turns do not fall, nor rise by more than one. For the copies: the order of the walk goes through every slot once. For the matchers: the first `*` of a pattern that ends in `.*` exists by well-foundedness. |
| `RecoveryProofs` | `LogIntact`, `BrokerLogIntact`, `DurableNeverLost`, `LifeTypes` | file, flush buffer and active buffer concatenate to the log; the flush buffer is empty while the thread waits. `LifeInv` adds `DurableKept` for all of the log instead of the file, that a logged ACK is of a message that had its id and was acked, and that nothing is misread as long as nothing was written behind a torn record. Retries and dead letters keep a message's origin, so each move between queue, flight and `dlq` keeps it with the broker. |
| `GatewayProofs` | `TypeCorrect`, `MapsAgree`, `TopicsKept`, `RingNeverDrifts`, `OncePerWindow` | `TopicsKept` rests on the agreement of the two maps. The ring needs the stronger `Window`: the used slots hold the last ids that passed, counted back from `ringIndex`, so that the slot that is overwritten holds the oldest. |
| `TcpServerProofs` | `ServerTypes`, `CleanUpComplete`, `FreshStaysRegistered`, `FramesIntact` | `TableInv`: descriptor table and handlers agree. `EntriesInv`: whoever is registered or subscribed has a handler that still will clean up. `LockInv`: `send_mu` is held exactly inside the loop of `send_to`. `FreshInv`: nobody else acts under the id of a fresh connection. `OnInv` and `PartialInv`: only one call writes to it, and an incomplete frame at its end is the one being sent. |
| `FramingProofs` | `FrameRoundTrip`, `UpstreamIntact`, `DownstreamIntact` | see below |

**Framing.** Numbers of k bytes are read back by induction over the bytes
(`NumberRoundTrip`), and with them headers, counted strings and payloads
(`FrameRoundTrip`). `Carries(P, G)` says that the bytes `P` are what is sent for the
frames `G`: the least relation that has the empty ones and gets a frame and its
bytes in front. The invariants `UpInv` and `DownInv` say that the frames sent are
the frames handled followed by some `G`, where the bytes in the buffer, then those
in transit, then those lost with the connection carry `G`. `BufferStart` is the heart
of both: a buffer that starts such a stream has a valid header as soon as it has a
header, and a complete frame in it is the first of `G`. For `#parseFrames`, `Parsed`
shows by induction over the rounds that it stops with an incomplete frame and
never at bad magic. Recursive functions (`Power`, `FromBE`, `ParseFrames`) are shown to
exist by `DefinedStepwise`; induction over numbers is `NumbersInSet`, on sets.
`Framing` defines `Begins` itself, so that its proofs work in a small context.

`DownstreamAsSent` has two conditions, and the code does not see to either. The
connection must have found the buffer empty: a frame that was cut by the end of a
connection stays in `#readBuf`, as does bad magic, with frames in front of it that
have been emitted and will be emitted again. And topics must fit: `encode_frame`
writes the whole of a longer topic behind a length that is cut. Likewise
`StaysRegistered` and `OwnWholeFrames` are about fresh connections: one that gets
the descriptor of a connection whose clean-up is still to come can lose its
registration to it.

Only model-checked: the liveness properties `EveryItemTaken`, `PushReturns`,
`TimeoutFires`, `Resolves`, `ShutdownEnds`, `RecordsReachDisk`, `SendReturns` and
`HandlersEnd` (fairness and `ENABLED` are beyond the prover). Only proved, beyond
the properties of the runs: `StandoffFree`, `GatewayMatchesFewer`, `FrameRoundTrip`. `UpInv`
and `DownInv` quantify over infinite sets and are out of TLC's reach; TLC checks
what follows from them.

## Not modelled

- Configuration, logging, metrics, the dashboard, services, load generators.
- What a detached handler does with objects that `main` has destroyed, and whether
  closing the listening socket makes `accept` return.
- Capacity of `main_queue` during replay, and several consumer groups in `Recovery`.
- Wrap-around of `rr_idx` and of message ids.
- Backoff times and `stop` of `TcpClient`; replies and status of `WsServer`.
- Broker and gateway in one model: what the ring does to redeliveries of messages
  that a service has not acked depends on the services.
