# TLA+ model of the CommsChampion MQTT v3.1.1 client library

The library in `src/client/lib` implements the client side of MQTT v3.1.1 as a
single-threaded, callback driven state machine. It does no I/O of its own: the
application feeds it received data, tells it when time has passed, and gets
back bytes to send, a request to be woken up, and completion callbacks. This
directory holds a formal model of it: TLA+ modules, TLC configurations that
check them on small instances, and TLAPS proofs for instances of any size.
`PROJECT.json` ties every definition to the lines of code it stands for.

Paths below are relative to `src/client/lib/src/` unless they start with `src/`.

## 1. The system

| Component | State | Operations | Interacts with |
|---|---|---|---|
| Packet identifier pool (`op/Op.cpp`, `ClientState.h`) | `m_allocatedPacketIds` (a sorted vector), `m_lastPacketId` | `allocPacketId`, `releasePacketId` | publish, subscribe and unsubscribe operations |
| Publish operations (`op/SendOp.cpp`, `ClientImpl.cpp`) | `m_sendOps`; per operation: identifier, QoS, attempts, paused, published, acked, response timer | prepare, send, cancel, acknowledgements, timeouts, resume, retransmission, termination | identifier pool, timers, session |
| Session and connection (`ClientImpl.cpp`, `op/ConnectOp.cpp`, `op/DisconnectOp.cpp`) | `m_initialized`, `m_networkDisconnected`, `m_connected`, `m_disconnecting`, `m_firstConnect` | connect, CONNACK, disconnect, `brokerConnected`, `brokerDisconnected`, `notifyNetworkDisconnected` | all operations |
| API guard, operation table, preparation lock (`ClientImpl.cpp`) | `m_apiEnterCount`, `m_ops` with null entries, `m_opsDeleted`, `m_preparationLocked` | `doApiEnter`, `doApiExit`, `cleanOps`, `allowNextPrepare`, `opComplete` | all operations |
| Timer manager (`TimerMgr.cpp`) | slots: allocated, timeout, callback, suspended | `allocTimer`, `tick`, `getMinWait`, wait, cancel, suspend | all operations |
| Keep-alive (`op/KeepAliveOp.cpp`) | ping, receive and response timers | timers, `messageSent`, PINGRESP | session |
| Receive operations (`op/RecvOp.cpp`, `ClientImpl.cpp`) | `m_recvOps`; identifier, response timer | PUBLISH, PUBREL, timeouts, reconnection | session, subscribed filters |
| Subscribe and unsubscribe (`op/SubscribeOp.cpp`, `op/UnsubscribeOp.cpp`) | identifier, timer, `m_subFilters` | prepare, send, SUBACK, UNSUBACK, cancel, timeout | identifier pool, receive operations |
| Topic filters and names (`op/Op.cpp`, `op/RecvOp.cpp`) | none | `isTopicMatch`, `verifySubFilter`, `verifyPubTopic` | receive, publish, subscribe |
| Framing and dispatch (`ClientImpl.cpp`) | none between calls | `processData` | all operations |
| Object pools, C interface | fixed pools | allocation, casts | - |
| Application client and programs (`src/client/app`) | timer, network session, input buffer, result | start, read, write, tick programming, shutdown | library |

How they interact. Every API call of the client except the `prepare` and
`cancel` calls runs between `doApiEnter`, which stops the pending wait and ticks
the timers by the elapsed time, and `doApiExit`, which removes the null pointers
that completed operations left in `m_ops` and programs the next wait. An
operation that completes is erased at once from the list of its kind; its
destructor gives the packet identifier back; the publish operations paused
behind it are resumed, which may complete *them* (QoS 0) and recurse. The loss
of the session keeps publish and receive operations and suspends their timers; a
new session either resumes them or terminates them.

What is hard. Nothing runs in parallel, yet many things happen inside one
another: a timer callback ends the session while the callbacks of other
operations are already collected; a completion resumes operations in the middle
of a loop over the same list; an API call ticks the timers before it does what
it was called for; acknowledgements arrive for operations that were
retransmitted, paused, or belong to an old connection; the 16 bit identifier
counter wraps while identifiers are held.

What makes each component correct:

* Pool: no identifier is held twice, none leaks, none is reused at once, zero is
  never handed out.
* Publish operations: every one in flight is watched by a timer; retransmission
  repeats the right message with the right flag and stops at the limit; messages
  keep their order; nothing stays paused without a reason; everything ends.
* Session: an operation of an old session ends with the status the documentation
  promises; nothing is sent without a connection.
* Operation table: no null pointer is dereferenced, no operation is used after it
  is destroyed, the preparation lock is released by whoever took it.
* Timers: a running timer expires once, a cancelled one never does, the wait that
  is programmed is the minimum.
* Receive operations: a QoS 2 message is delivered exactly once per session.
* Subscriptions: what the application was granted is accepted, what it did not ask
  for is not reported, over resumed and lost sessions.
* Topic matching agrees with the definition of MQTT 3.1.1, section 4.7.
* Framing and programs: every frame is handled once and in order however the input
  is cut; a program that returns success has done its work, and it ends.

## 2. Modules

| Module | Stands for | Composed of |
|---|---|---|
| `PacketIdAlloc`, `PacketIds`, `MCPacketIds` | the identifier pool | - |
| `SendOps`, `MCSendOps` | publish operations and the session around them | `PacketIdAlloc` |
| `PublishExchange` | the publish side with a broker and a connection | `SendOps` |
| `RecvOps` | receive operations | - |
| `ReceiveExchange` | the receive side with a broker and a connection | `RecvOps` |
| `TimerMgr` | the timer manager, as operators | - |
| `ClientOps` | the operation table, the API guard, the preparation lock, all operations that do not outlive a session, and the calls of callbacks | `TimerMgr` |
| `ClientTime` | durations: elapsed time, keep-alive, response timers | `TimerMgr` |
| `Alarms` | abstract: what timers promise against true time | refined by `ClientTime` |
| `Topics` | topic matching and verification | - |
| `Subscriptions`, `MCSubscriptions` | the stored filters, with a broker | `Topics` |
| `AppProgram`, `MCAppProgram` | framing, network sessions, the publisher and subscriber programs | - |
| `PacketIdAllocProofs`, `PacketIdsProofs` | theorems on the pool | the modules they are named after |
| `SendOpsProofs` | theorems on publish operations, in three parts: types and timers; identifiers and the prepared operation; order, repetition, resumption | `SendOps` |
| `ReceiveExchangeProofs` | theorems on receive operations, alone and with a broker | `RecvOps`, `ReceiveExchange` |
| `ClientOpsProofs` | theorems on the operation table under reentrant calls | `ClientOps` |
| `ClientTimeProofs` | theorems on timers and keep-alive in true time, with the refinement of `Alarms` | `ClientTime`, `TimerMgr`, `Alarms` |
| `SubscriptionsProofs` | theorems on topic matching and on the stored filters | `Topics`, `Subscriptions` |
| `AppProgramProofs` | theorems on framing and on the result of a program | `AppProgram` |

The library has one thread, and each of its concerns multiplies the states of the
others. The modules therefore cut it along the state that the concerns share: the
operations that outlive a session (`SendOps`, `RecvOps`) see the rest of the
client as its flags; the table (`ClientOps`) sees timers without durations;
`ClientTime` sees durations without reentrant calls.

What would come next: which of the theorems on `ClientOps` hold for an application that
is not `Prompt` (section 6); `ResumeIsTheLoop` along the lines of the proof of
`TopicMatchExact` (section 8); and the action properties of `PublishExchange`.

## 3. The packet identifier pool

`PacketIdAlloc` holds `allocPacketId` (`op/Op.cpp` 61-96) and
`releasePacketId` (98-113) as operators on the list of identifiers in use and
the counter, so that every module that allocates uses the same translation. The
sorted vector is a set (it is only searched, inserted into and erased from).
`static_cast<std::uint16_t>` is `% (MaxPacketId + 1)`; `MaxPacketId` is 65535 in
the code and a parameter here. The loop `while (true)` with `++nextPacketId` is
the least number of increments to an identifier that is not in the list;
`PacketIdAllocProofs` proves that the loop ends (`SearchEnds`) and that what it
returns is not in the list (`AllocFresh`).

`PacketIds` lets any number of operations (publish, subscribe, unsubscribe) take
one identifier and give it back in any order. An operation that gets 0 because
the list is full keeps 0 as its identifier, as the code does.

| Run | Checks | Shows |
|---|---|---|
| `packet_ids` | `TypeOK`, `DistinctIds`, `NoIdLeak`, `NoImmediateReuse` | Four operations, five identifiers, a list of three: the counter wraps several times with identifiers held on both sides of the wrap, and the limit is met. |

`DistinctIds` excludes the identifier 0, which is the code's value for "none" and,
through the flaw of section 11, a value that two operations may get. `releasePacketId`
ignores 0, so a 0 handed out by the wrap stays in the list for good: `NoIdLeak`
says that nothing else does.

**Proved** (`PacketIdsProofs`), for every width, limit and set of operations:
`PoolTypeOK`, `PoolDistinctIds`, `PoolNoIdLeak` and
`PoolNoImmediateReuse`. The argument: `DistinctIds` is not inductive alone,
because two operations could share an identifier that is missing from the list.
With `NoIdLeak` (the list holds exactly the identifiers of the operations in
progress, 0 apart) it is: `AllocFresh` says that a new identifier is not in the
list, hence in no operation.

## 4. Publish operations and the session

### State

`SendOps` names an operation by the serial number of its preparation.
`m_sendOps` grows at the end only, so the list is the set `sendOps` of live
numbers in increasing order. `op[s]` is a record of the members of `SendOp` that
decide anything (QoS, total attempts, identifier, attempts, `m_paused`,
`m_published`, `m_acked`) and of its timer (active, suspended). The message
itself is reduced to its operation, QoS and whether it fits the output buffer.
`initialized`, `networkDisconnected`, `connected`, `disconnecting`,
`publishOrdering`, `preparationLocked` and `opsDeleted` are the members of the
same names; `connectOp` is the stage of the connect operation. `out` holds what
the last step gave to the output callback, `result` the status that every
completion callback reported; both are only observed.

### Steps

An API call is one step, except where the code loops over operations and may run
a callback of the application in each iteration. There, `inCall` records the
loop, every iteration is a step, and no other call can start until it is over:

| `inCall.loop` | Code | Iteration |
|---|---|---|
| `tick` | `TimerMgr::tick`: the callbacks of all expired timers are collected, then run | `ResponseTimeout`, `PingTimeout`; then `DoSend` when the tick belongs to `publish_send` |
| `resend` | `ClientImpl::resendAllUntil` | `ForceDupResend` |
| `abort` | the loop of `brokerConnected` over an old session | `TerminateOp` |
| `free` | `terminateOps` of the destructor | `TerminateOp` |

Which timers expire is chosen freely among the running ones: durations are left
out and any two timers may expire in either order or together.

`resumeSendOpsSince` recurses through the completion of QoS 0 operations while
the outer loop keeps its index. `SendOps` states in one formula which operations
such a call resumes (`Resumable`, `CanSend`); `MCSendOps` translates the loop and
its recursion literally, and the invariant `ResumeIsTheLoop` says that the two
agree in every reachable state.

### Runs

| Run | Checks | Shows |
|---|---|---|
| `send_ops` | `TypeOK`, `InFlightTimed`, `PausedForAReason`, `PacketIdsInUse`, `OnePreparation`, `SentInOrder`, `AckedNeverRepublished`, `DupOnRepublish` | Three publishes of any QoS, two identifiers, two attempts, either ordering, every interleaving of calls, timeouts, acknowledgements, session losses and reconnections. |
| `send_ops_live` | `ResumeIsTheLoop`, `PublishEnds` | The ordering is switched at run time and some messages do not fit the output buffer: the closed form of the resume loop agrees with the loop; with a silent broker, a published operation whose timer runs ends after its attempts. |
| `unacked_publish` | `UnackedPublishEnds` is violated | After a reconnection that resumes the session the response timers stay suspended. |

Deadlock is not checked for these runs: the number of publishes is bounded, a
crashed client and a freed one have no further step.

Bounds. Three operations are what the ordering rules need: one that blocks, one
paused because of it, and one behind both; a fourth only repeats the relation of
two neighbours. Two identifiers for three operations make the pool wrap and run
out. Two attempts let a first send, one retransmission and a timeout happen in
each of the two phases of a QoS 2 exchange. Two QoS values are enough in
`send_ops_live` to block and to be blocked. Reconnections are not bounded.

### Fairness

`FairSpec` assumes that a running timer expires, because `doApiExit` asks the
application for a tick after the minimum wait and every other API call ticks the
elapsed time on its entry; and that a loop of the client goes on, because it is
sequential code. The tick is fair for each operation separately, since its
timeout is a fixed time. Nothing is assumed of the broker, the network or the
application. Under it `PublishEnds` holds; `UnackedPublishEnds`, which drops the
condition that the timer is not suspended, does not.

### What is proved

`SendOpsProofs`, for any number of operations, identifiers and attempts and
every combination of the parameters:

* `SendOpsTypeOK`: type correctness. `TypeOK` is inductive as it
  stands. Its part on the list (`QueueOK`) is kept by the three operators that
  every handler is built from, `Resumed`, `Leave` and `ResendDup`; that what an
  allocation returns is a 16 bit value comes from `PacketIdAllocProofs`.
* `SendOpsTimed`: every published operation has its response timer armed, or is
  one the current tick has stopped and is about to handle (`InFlightTimed`). With
  `TypeOK` it is inductive. The argument goes through `Awaiting(X)`: every
  published operation of the list has its timer armed but for those of `X`. A
  tick makes `X` the set it stopped; every iteration removes one operation from
  `X`, either from the list or with its timer started again. Each record update
  of `SendOp` has a lemma that says what it does to the timer (`TimerKept`), and
  resuming, leaving the list and resending have one each (`ResumedTimed`,
  `LeaveTimed`, `ResendDupTimed`).

The assumptions are those on the constants (`SendOpsAssumption` and the one of
`PacketIdAlloc`); TLC evaluates them in every run.

The second part, at the same generality: switched orderings, messages that do
not fit and every limit of the pools included.

* `SendOpsIdsInUse` (`PacketIdsInUse`) and `SendOpsOnePreparation`
  (`OnePreparation`). All handlers but `publishPrepare` and `SendOp::send` do one
  thing to the list: operations leave it with their identifier, and the ones that stay
  advance (their first PUBLISH, a repetition, a PUBREC). `QueueKept` states
  that, is proved of every such handler once, and the invariants are proved of it.
  The inductive invariant `SafeInv` adds where a prepared operation can be:
  it is the youngest, there is no connect operation, and it holds the preparation
  lock until `send` releases it, from which moment to the end of the tick of that
  call it is the operation `inCall.then`.

The third part says what is sent and in which order.

* `SendOpsAckedNeverRepublished`: no hypothesis. Every PUBLISH in `out` is one of an
  operation that is not acknowledged, on each path that sends one.
* `SendOpsPausedForAReason`, for an ordering that is not switched. `ReasonInv` carries
  the claim through the loops of `tick` and `resendAllUntil`, within which the
  property itself is silent; for the loop that aborts an old session it says
  instead that everything in the list is about to leave it.
* `SendOpsSentInOrder` and `SendOpsDupOnRepublish`, for messages that fit the
  output buffer, the first also for an ordering that is not switched. `OrderInv` says
  that the published operations are a prefix of the list, and that everything before
  the operation whose `send` is in its tick is published. `FitInv` says that a loop
  repeats published operations only: what a tick finds expired was published, and
  `resendAllUntil` ends at the operation it was started for, before it gets to the
  prepared one. When a resumed message does not fit that is false (section 11, the loop
  of `resendAllUntil`), which is where the hypothesis comes from; TLC finds the
  counterexample with `Fits = {TRUE, FALSE}`. What a step sends is a sequence in
  the order of the list; the lemmas on `InOrder` prove that it enumerates a
  set of operations in increasing order.

The assumption on the ordering is needed as well: after a switch a message
may overtake (section 11).

Only model-checked: `PublishEnds` and `UnackedPublishEnds` (liveness), `ResumeIsTheLoop`,
whose literal translation is a RECURSIVE operator, and the properties of
`PublishExchange`.

### What the model leaves out

* A publish is sent with a completion callback. (With a null one `cancel` takes a
  sent operation for an unsent one, see the hazards.)
* Callbacks do not call the client.
* Acknowledgements carry an identifier of at least 1.
* PUBREL always fits the output buffer; `InternalError` on a failed
  retransmission is left out, since a PUBLISH that was sent once fits again.
* The number of attempts is set before the operation is sent.
* A `publish_send` that fails its first checks has the effect of a cancel.
* Null pointers that a tick leaves in `m_ops` during `doApiEnter` are not seen by
  the rest of the same call.
* The rule that the first connect asks for a clean session (`Subscriptions`), the
  size limit of `m_ops`, the other operations (`ClientOps`, `RecvOps`).
* The broker: any acknowledgement may arrive for any identifier in use at any
  time, which includes every loss, duplication and reordering.

### With a broker

`PublishExchange` feeds `SendOps` from a connection instead. The broker is
external, written from MQTT 3.1.1: it answers every PUBLISH and PUBREL it reads,
holds the identifiers of QoS 2 messages until their PUBREL, and keeps them over a
broken connection unless the session is clean. The connection delivers in order,
in two channels, and breaks at any time with whatever is under way. What the application
had read of the old connection it may hand over late, after the `connect_prepare` of the
new one (`LateData`): old acknowledgements then meet the operations of a client that
is not connected yet. All actions of
`SendOps` take part; what they put into `out` goes into the channel. `taken` counts
how often the broker took each message.

| Run | Checks | Shows |
|---|---|---|
| `publish_exchange` | `TakenOnce`, `CompleteWasTaken`, `TakenInOrder` | Exactly once for QoS 2, no success without the broker, and the order of messages, while timeouts repeat what the acknowledgements in the channel are about to confirm. |

The two publishes have two attempts each and QoS 1 or 2, so that an acknowledgement can cross a
repetition and belong to the other operation; identifiers are not reused, which is
what `NoImmediateReuse` is for. The channels need no bound: what is in them is
bounded by the attempts; of the old connection one acknowledgement is handed over late
(`LateLimit`), and no CONNACK. The application uses one clean session flag for the whole
behaviour, either one. `TakenOnce` and `TakenInOrder` except by name the messages that
`publish_send` sends although the session ended in its own tick (`stray`, see section 11).

The exchange shows that two oddities of the handlers are harmless. A
second PUBREC, the answer to a repetition, makes the client end the session, but the
message is neither lost nor taken twice; and acknowledgements of different QoS that
cross make `isLegitSendAck` repeat what is already confirmed, which costs attempts
and nothing else.

## 5. Receive operations

`RecvOps` is the receive side: `ClientImpl::handle(PublishMsg)` and
`handle(PubrelMsg)`, class `RecvOp`, and what the loss and the resumption of the
session do to it. `recvOps` is the set of places of the pool that are in use and
`recv[s]` the packet identifier and the timer of the operation in place `s`. The
list is only searched by identifier, and `UniqueReception` says that the search
has one answer at most, so its order does not matter. Each handler is a step. The
checks on QoS, topic format and subscription are the Boolean `valid` of a
message, since all of them have the same effect: the session is given up and the
operation stays in the list, without identifier and timer (`PublishRejected`). The report
callback and the write of the PUBREC can end the session before `RecvOp::handle` is done;
the timer it starts afterwards is then the only one that is not suspended
(`PublishCutOff`). `effect` is
what a step shows outside: acknowledgements, the message reported, and whether
the session was given up for a protocol error. On its own, the module lets any
message arrive at any time.

`ReceiveExchange` puts a broker and a connection around it. The broker is external: it
is written from MQTT 3.1.1, for which the client is written. It publishes QoS 1
and 2 messages, repeats what is not acknowledged (on a reconnection, and at will
in between, which the comment in `RecvOp::responseTimeoutInternal` counts on),
answers every PUBREC, reuses identifiers, and keeps the session between
connections unless the clean session flag was set. The connection delivers in
order and may break at any time with whatever is under way, the CONNACK included. The
application drops what it had read of a broken connection: a PUBLISH handed over before
the CONNACK of the next one is a protocol error to the client, whoever sent it.

| Run | Checks | Shows |
|---|---|---|
| `recv_ops` | `TypeOK`, `UniqueReception`, `RejectedEnds` | Two operations, two identifiers, a broker that sends anything, also before the CONNACK; the operations that rejected messages leave behind go away. |
| `receive_exchange` | `DeliveredOnce`, `DeliveredBeforeDone`, `NoProtocolError` | Two QoS 2 messages and one of QoS 1, three identifiers, two operations: a message is reported once unless its reception timed out, none is lost, and a correct broker is never blamed. |

Bounds. Two operations for three messages in flight make the pool run out; two
QoS 2 messages are needed for one reception to be confused with another, and
identifiers are reused as soon as an exchange ends. The channels hold at most
`ChannelLimit` messages when the broker sends on its own, which allows a
repetition to be under way together with the acknowledgement it crosses; what an
acknowledgement or a reconnection makes the broker send comes on top.
Connections, repetitions and timeouts are not bounded; `reported` counts up to
two, which is all `DeliveredOnce` needs. In `receive_exchange` the application
uses the same clean session flag in all its connections, either one.

Fairness in `RecvOps` is that of section 4: a running timer expires.

The client does not refuse packet identifier 0, which is also the identifier of rejected
operations. `RecvOps` allows it, and `RecvTypeOK` and `RecvUnique` hold with it.
`RejectedEnds` has it excluded by its premise (section 11), and the broker of
`ReceiveExchange`, a correct one, does not use it.

The broker reuses an identifier when the exchange is over. For QoS 1 that is not
enough: a broker that repeated a PUBLISH is owed a PUBACK for each copy, and could
take the second one for the acknowledgement of the next message. No client can prevent
that, so the broker waits until no copy and no PUBACK of the
identifier is left (`NoCopyLeft`).

**Proved** (first part of `ReceiveExchangeProofs`): `RecvTypeOK` and `RecvUnique`, for every pool, every set
of identifiers and a broker that sends anything. `UniqueReception` is inductive
together with the types of the operations: every step either keeps the
identifiers of the operations that remain (`SameIds`) or adds one operation whose
identifier is none or one that no reception in progress has (`OneMore`).

**Proved** (second part): `ExchangeDeliveredOnce`,
`ExchangeDeliveredBeforeDone` and `ExchangeNoProtocolError`, for any number of messages,
identifiers and operations, channels of any length and connections that break at any
time. The hypothesis `~MaySwitch` (the application keeps its clean session flag) is
needed, because of the finding of section 11. The three properties hold together or not
at all, and with `ExchangeInv` only, which says how the memories of the two sides and
what is under way belong together: a reception that the client holds is of an exchange
in progress whose message was reported (`HeldReported`); a message that was reported
and may be repeated is still held, or was given up, or its session is over
(`Remembered`); the copies of a message are ahead of the PUBRELs of its own exchange and
behind those of the exchange before (`CopiesFirst`); a PUBREL left over from the exchange
before finds nothing to end (`OldRelease`); a PUBCOMP is the last message of its exchange
(`PubcompEnds`, `PubcompLast`). `Over` is the point on which it turns: from the loss of a
clean session to its next CONNACK the client still holds receptions that count
for nothing. The channels appear in the proof only as which message is in them and
which is ahead of which (`Elements`, `Ahead`), with one lemma each for sending
(`Sent`) and taking (`Taken`).

Left out: the destructor of the client, which ends every reception; the dispatch
of every message to the keep-alive operation; QoS limits below 2, which are
compile-time configurations with fewer handlers; the broker losing a session on
its own.

## 6. The operation table and reentrant calls

`ClientOps` is `ClientImpl` as a machine that calls and is called back. `ops` is
`m_ops` with 0 for a null pointer, `op` the objects, `timers` the slots of
`TimerMgr`, `depth` is `m_apiEnterCount`. `stack` holds what is left to do of the
calls in progress: a sequence of frames, the next one first. A function pushes the
frames of its body; a loop is a frame with an index and the end that the code
computed before it; a callback of the application is the frame `app`, during which
the application may make any call that `ClientImpl` accepts, before it returns. One step takes
the first frame.

| Frames | Code |
|---|---|
| `enter`, `exit` | `doApiEnter` with its tick, `doApiExit` with `cleanOps` |
| `expired` | a callback that `TimerMgr::tick` has collected |
| `complete`, `callback` | `completeOpInternal`: destroy, then report |
| `lost`, `terminate`, `connectivity`, `report` | `brokerDisconnected`, `terminateOps` |
| `output`, `sent` | `sendMessage`: output callback, `messageSent` |
| `deliver`, `dispatch`, `heard`, `connected`, `refused` | `processData` and the handlers |
| `create`, `init`, `initialized` | the parts of `connectPrepare` around `initInternal` |
| `wait`, `disconnect` | what `send` does after the guard was entered |

Any subset of the running timers may expire in a tick. An operation is gone after
`complete`; a frame that needs it afterwards is a use of freed memory and makes
`fate` undefined, which ends the behaviour.

| Run | Checks | Shows |
|---|---|---|
| `client_ops` | `TypeOK`, `CallbackIffSent`, `LockHasHolder`, `TableMatchesSession`, `RequestsTimed` | Whatever is called from callbacks, whichever timers expire together and whenever a write fails, every request that was sent is reported exactly once, the lock is neither lost nor doubled, and the table agrees with the session between calls. |
| `destroyed_operation` | `OperationAlive` is violated | The tick inside `disconnect_send` destroys the operation that is being sent (section 11). |

Three operations of the application are enough for one that ends, one that is
ended with it, and one that is prepared in a callback; `KeepAlive` is the fourth
of the table. `Prompt` says that the application sends or cancels an operation
before it makes another call, as the documentation asks it to. Without it the loss
of the session destroys a prepared operation and leaves the lock set, and
`LockHasHolder` fails. `WritesFail` lets the output callback report the loss of
the network, as `AppClient` does; `destroyed_operation` needs no such call.

**Proved** (`ClientOpsProofs`), for any number of operations, stacks of any height and
writes that fail or not:

* `ToldOnce`: `CallbackIffSent`, for every application, `Prompt` or not. The inductive
  invariant has two parts. `Base` says what holds of the table whatever the session does:
  an operation is in `ops` once, a live request has exactly one slot of the timer
  manager and nobody else has one, a frame names an operation that was created
  and only the first frame is one of those that rest on what the step before has just
  done (`TopOnly`). `Told` accounts for every request: it is new, or prepared, or
  in the table and not told, or its callback is the frame that comes next, or it was
  told, or refused, or cancelled. `BaseInvariant` proves them together, one lemma per
  action. The proof has a small theory of stacks (`IsStack`, `Below`, `GoodList`):
  what a list of frames put on the rest of the stack leaves true of all frames.
* `LockAlwaysHasHolder`: `LockHasHolder`, for an application that is `Prompt`.
  `LockHeld` adds to the property where the calls in progress may be while an operation is
  prepared: the application has control, so that the stack is empty or a callback is
  its first frame, and a frame that creates an operation is followed by the return
  to the application (`CreateLast`). The loss of the session, which would destroy the operation and leave the lock
  set, needs a step of the library and therefore finds no prepared operation.
* `TypesKept`, `TableAlwaysMatches` and `RequestsAlwaysTimed`: `TypeOK` (with guards nested
  at most four deep), `TableMatchesSession` and `RequestsTimed`, for an application that is
  `Prompt`. The last two speak of the moments between calls, so that their
  invariant, `SessionInvariant`, has to say what the calls in progress still owe:
  * `AllPlaced`: every frame of the stack has the level of guards at which it will run,
    each level follows from the one above it, and the level restricts what the
    frame may do (`Kind`). Below the first guard nothing calls the application; two
    or three deep only the end of a session does, and with the session gone (`Gone`) the one
    call that still enters a guard is the report that the network is lost, which
    then has nothing to do. That is the bound on `depth`.
  * `Loops`, `Marked`: a loop over `m_ops` stays within the table, and null pointers in it
    are remembered until the guard is left.
  * `Ended`: once a session is over, every operation that is left is doomed, that is a
    frame of the stack terminates or completes it, and none is left when the guard is.
  * `Agrees`, `Answer`: while there is a session, the keep-alive operation is there exactly when
    the client is connected, the other operations need the connection, and there is one
    connect request, which is gone as soon as it was answered.
  * `Timed`, `Alive`: a request that was sent has its timer running or a frame that will
    start the timer or complete the request; so has the keep-alive operation.

  `SInv` is the disjunction of four modes: `Main` with the parts above, `Making` (a `create`
  frame is next), `Starting` (the client is initialised for a connection, on an empty table)
  and `Freeing` (the client is being freed and keeps its promises no longer). `Prompt` is
  needed because an operation that is only prepared has neither a timer nor
  a session to agree with when the session ends around it. The frames below the one
  that runs never change, so that a step owes the invariant only for the frames it pushes
  (`PushOne`, `PushPlaced`) and for what the frame it removes had promised (`Leaves`).

Left out: the limits of `m_ops` and of the allocators; publish and receive
operations; the ways in which `send` can fail are one (`SendFails`).

## 7. Time

`TimerMgr` has the slots as a sequence and every member function of the class as
an operator. `ClientTime` adds durations. The library has no clock: its timers
move when the application reports time, at the tick it was asked for or when a
call takes the wait back (`m_cancelNextTickWaitCb`). `wait` is what was asked for,
`since` the true time since then, and `TimePasses` lets true time go on as long as
the tick is not more than `Latency` late. `sinceSent` and `sinceHeard` are true time
too, up to the bounds of the properties; `spoken` says that the client sent a message since
the CONNACK, `owed` that its ping timer rang since it sent one. A call is one step, built from functions on the state
as the code is: enter, body, leave.

`Alarms` is the abstract specification: an alarm is set to its period, may be
stopped, and rings when its time has passed in true time, never earlier and at
most `Latency` later. `ClientTime` refines it (`AlarmsRingInTime`) with the
time left of an alarm being the time left in the slot less `since`. It has the
receive timer, the PINGRESP timer and the response timer of a request for alarms.
The ping timer is not one: `SubscribeOp::send` sends its message, which
restarts the ping timer, before it enters the guard, which then charges that timer
with time that passed before; it rings early, which is harmless (`ClientSpeaks`).

| Run | Checks | Shows |
|---|---|---|
| `client_time` | `TypeOK`, `WaitCoversTimers`, `ClientSpeaks`, `SilenceNoticed`, `AlarmsRingInTime` | Slots do not leak; a wait is always pending and short enough; the client keeps the keep-alive promise; a broker that falls silent is noticed within the keep-alive time, the response time and two latencies; the timers are alarms on true time. |

The response time (6) is longer than the keep-alive time (4), which the code allows: it
refuses zero only. With a shorter one, as with the defaults (2 s and 60 s), the PINGRESP
timer always ends first; with a longer one the timers expire in every order, a PINGREQ
is skipped because another is unanswered, and ticks are up to two units late.
`SilenceNoticed` starts with the first message after the CONNACK: the receive timer is
not started before, see section 11.

`ClientSpeaks` bounds the time between two messages of a connected client by the
keep-alive time, or the response time if that is longer, and a latency. Nothing is sent
at the CONNACK, which only starts the ping timer, so that up to its first message a client can be silent for
the response time, in which the CONNACK came, and the keep-alive time. There
is one exception, and it needs a response time longer than the keep-alive time: the ping
timer rang while a PINGRESP was awaited, the PINGREQ was skipped, the ping timer
was not started again, and the broker keeps speaking (section 11).

**Proved** (`ClientTimeProofs`), for every keep-alive time, response time and latency, in
any order of size: `TimeTypeCorrect`, `WaitAlwaysCovers`, `ClientAlwaysSpeaks`,
`SilenceAlwaysNoticed`, and `TimersAreAlarms`, which is the refinement of `Alarms`. All
five rest on `TimeInv`:

* every slot of the timer manager belongs to a timer of an operation that exists, each has one,
  and there are no more (`Shape`), so that `Left`, the time left by the name of a timer,
  stands for the slots in everything else;
* a wait is programmed for no longer than any running timer has left (`Covers`);
* a connected client has its ping timer running (`Good`), or a PINGREQ was skipped, it waits
  for a PINGRESP or for the next message of the broker, and the response time is the longer
  one (`Skipped`); if it is not, the ping timer ends after the wait for a PINGRESP
  (`PingLast`), so that none is skipped;
* the time since the client sent a message and what its timers have left are together no more
  than their periods, for the first ping timer of a session with the response time on top
  (`SentTimed`); the receive timer runs since the last message of the broker (`RecvTimed`);
* a broker that was heard is watched: the receive timer ends within the keep-alive time of the
  last message, or the PINGRESP timer within the response time and a latency more (`Watched`).

A tick collects the expired timers and calls them in the order of their slots, each of
which may stop others. `InTick` is the invariant of that loop, with the set of
callbacks that are not done yet. It says of every timer that it was stopped, started
or charged with the time of the tick, which is also what the simulation of `Alarms` needs.
`Alarms` has `Off` below every time that an alarm can be late by, so that the
proof covers all latencies.

## 8. Subscriptions and topics

`Topics` has strings as sequences of levels and `isTopicMatch` case by case. Against
the standard (`Matches`), TLC compares it for every valid filter and topic of up to
three levels, with empty levels and both wildcards, when it evaluates
`MatchAssumption` in `MCSubscriptions`. They differ in one corner, `EmptyLevelMissed`
(section 11).

`Subscriptions` has `m_subFilters` and the requests in progress on the client's
side, a broker that grants or refuses every filter, and two channels. `told` is what the application
believes: the filters it was granted and has not asked to remove. `asked` numbers
the last SUBSCRIBE for every filter in the session. The broker may start in the session of
an earlier run of the program, may lose a session it kept, and also publishes what
nobody asked for.

| Run | Checks | Shows |
|---|---|---|
| `subscriptions` | `SubTypeOK`, `GrantedTopicsAccepted`, `ReportedWasAskedFor`, `DueRefusedOnlyIfUnanswered` | With requests that cross, time out and are answered late: what was granted is accepted, nothing else is reported, and a message the broker owes is refused only between SUBSCRIBE and SUBACK. |

A SUBACK that is not as it should be makes the client give the session up at any
return code, with the filters before it stored. A storage for two of three filters makes a
list overflow it in the middle. Three
requests allow a subscribe, an unsubscribe and a subscribe of the same filter to be
under way at once; three connections a session, its resumption and its loss.

**Proved** (`SubscriptionsProofs`):

* `TopicMatchExact`: for strings of any length `isTopicMatch` is `Matches` less
  `EmptyLevelMissed`. `IsTopicMatch` is a recursive function of the separators
  passed so far. The closed form of what is left after `n` of them (`MatchAfter`)
  satisfies the equation of the function (`MatchAfterStep`, one case per return of the
  code), and two solutions of that equation are equal, since there is no last
  place where they differ; for the latter a set of numbers has a least element, which is
  the one fact on well-founded orders that the proof needs.
* `SubscriptionsTypeOK` and `SubscriptionsReportedWasAskedFor`, for any lists,
  topics, storage and numbers of requests and connections.
* `SubscriptionsGrantedTopicsAccepted` and `SubscriptionsDueRefusedOnlyIfUnanswered`, for
  published topics that do not end in `/` (`NoBlankEnd`), since for those
  `isTopicMatch` may refuse what was granted.

The inductive invariant is `SubInv`. `ChannelInv` has the order of what is under way:
requests and answers carry increasing numbers, the CONNACK comes first, and every request
in progress is on its way or answered. `Stored` has the two sides of the
client: what the application was told is stored, and what is stored was asked for.
`Known` has the broker's side: what it is subscribed to was asked for, by a request later than
any UNSUBSCRIBE it has dealt with. `Due` has the messages under way: each is accounted for
by a filter that was asked for and that no UNSUBACK ahead of it ends. The last is
what makes the argument more than one step long, since a subscription may end and begin
again while a message for it is under way.

## 9. Framing, sessions and programs

`AppProgram` is one run of `main`. The stream of the broker is a sequence of frames,
a byte is its position in it, and `ReadSome` cuts it anywhere. `LoopTurn` is one turn of the
loop of `processData`, `ProcessData` the loop and `EndOf` where it ends; `Rest` is what `doRead` keeps in `m_buf`. The handlers of the event loop
are steps, `io_context::stop` takes effect between them, and callbacks of the library
are function calls within them. `TcpSession` and `TlsSession` have the same code
for reading and writing and differ in their start. What happens before the CONNECT
(options, resolving, connecting, the TLS context and handshake) is one step that may fail
(`Start`).

| Run | Checks | Shows |
|---|---|---|
| `app_program` | `FramesInOrder`, `SuccessIsAcked`, `PublisherEnds` | Every stream of up to three frames, in chunks of up to six bytes: the client gets each frame once and in order; a publisher of QoS 1 returns success only if its message was acknowledged; a publisher ends when the broker's stream is finite. |

Three frames of two to four bytes and chunks of up to six allow a chunk within a
frame, over its end, and over several frames. Fairness: `main` starts and ends, and
the timer of an operation in progress expires, which the event loop guarantees;
nothing is assumed of the broker, the keep-alive, signals or the network. Where
the program uses a destroyed operation (section 11) it either dies or goes on;
`PublisherEnds` counts both as an end. A stream without end is out of the reach of the run, and
matters: every chunk takes the wait back, and `AppClient` rounds the time that
passed down to whole milliseconds (`AppClient.cpp:498`), so that the timers do not move
while chunks come faster than that.

**Proved** (`AppProgramProofs`): `FramesAlwaysInOrder` and `SuccessAlwaysAcked`, for
streams of any number of frames of any size, read in chunks of any size. `AppInv` says
that what was read is what was handled and the buffer, in the order of the stream. The
loop of `processData` keeps `InLoop`: after any number of turns it has handled a
prefix of the frames and stands at the start of the next one (`ReadUpTo`), or has
met a frame that the codec refuses (`BrokenAt`); it ends since a turn that handles
nothing is its last. For the result of the program `AppInv` has `Fine`: a
QoS 1 publisher whose event loop was told to stop has a result other than 0, or its
acknowledgement, or has printed the help, whichever handler stopped it.

What the model also shows, without a property since it is what the code says: a
QoS 0 publisher returns 0 although its write failed, because the completion comes
after the report of the loss and overwrites the result; and the result 100 of a
signal becomes 1 when the destructor of the client aborts an operation in progress.

## 10. What is proved and what is only model-checked

Eight modules hold 35 theorems that a reader should know of (sections 3 to 9). They
hold for every value of the constants under the assumptions named in the modules, which
TLC evaluates in the runs; the hypotheses that some of them have besides are

| Hypothesis | Theorems | Why |
|---|---|---|
| `~MaySwitch` in `SendOps` | `SendOpsPausedForAReason`, `SendOpsSentInOrder` | a switch of the ordering does not reconsider what is paused |
| `Fits \subseteq {TRUE}` | `SendOpsSentInOrder`, `SendOpsDupOnRepublish` | `resendAllUntil` runs past its end when an operation fails in it |
| `~MaySwitch` in `ReceiveExchange` | the three of `ReceiveExchangeProofs` | receptions of a clean session survive into a later one |
| `Prompt` in `ClientOps` | `LockAlwaysHasHolder`, `SessionInvariant`, `TypesKept`, `TableAlwaysMatches`, `RequestsAlwaysTimed` | the end of a session destroys an operation that is prepared and leaves the lock set |
| `NoBlankEnd` | `SubscriptionsGrantedTopicsAccepted`, `SubscriptionsDueRefusedOnlyIfUnanswered` | `isTopicMatch` misses the empty last level |

Each is satisfied by the configuration of the run that checks the same
property; `Prompt` is what the documentation asks of an application, and each of the
others stands for a finding of section 11. Every inductive invariant was
checked by TLC before it was proved.

Only model-checked:

* liveness (`PublishEnds`, `RejectedEnds`, `PublisherEnds`), which the prover does not
  handle;
* `ResumeIsTheLoop`, whose literal translation is a RECURSIVE operator;
* the action properties of `PublishExchange`: their inductive invariant is the
  counterpart of `ExchangeInv` over the far larger state of `SendOps`.

Deadlock is not checked where the system may stop: publishes, requests and
connections are bounded, a freed client and an ended program have no further step.
`recv_ops` and `receive_exchange` check it.

## 11. Findings

Two have a run that shows them:

* `unacked_publish` (`op/SendOp.cpp:294`): nothing lifts the suspension of a
  response timer, so that a publish retransmitted after a reconnection waits for
  ever if it is not acknowledged.
* `destroyed_operation` (`op/DisconnectOp.cpp:28`, `TimerMgr.cpp:84`): the tick of
  an API call may end the session and destroy the operation whose member
  function made the call, or one whose callback is already collected.

The others were met while modelling and are reachable in the modules named; each was
confirmed by checking the stated property once, and the modules keep the behaviour.

* `PacketIdAlloc` (`op/Op.cpp:91`): the search for a free identifier skips zero only
  at its start and can return it when 65535 is in use; the unit tests assert that
  identifiers differ from zero (`UnitTestPublish.th:751`).
* `SendOps` (`ClientImpl.cpp:693`): the loop of `brokerConnected` over an old session
  lacks the test for null that the other loops over `m_ops` have.
* `SendOps` (`ClientImpl.cpp:699`): aborting one operation of an old session resumes
  the paused ones behind it, which are published in the new session, where
  `main.dox:1166` promises their abort.
* `SendOps` (`ClientImpl.cpp:714`): `disconnect` keeps publish operations for the next
  session where `main.dox:497` promises their abort.
* `SendOps` (`op/SendOp.cpp:443`): after a switch from Full to SameQos ordering a
  message overtakes a paused one of its own QoS (`main.dox:992`), which is why
  `SentInOrder` is checked with a fixed ordering.
* `SendOps` (`ClientImpl.cpp:975`): `resendAllUntil` ends at the operation it was started
  for. If that one leaves the list in an earlier iteration (an operation before it
  runs out of attempts, which resumes it, and its message does not fit the output
  buffer), the loop goes on to the end of the list and repeats an operation that is
  only prepared: `COMMS_ASSERT(m_published)` fails (`op/SendOp.cpp:372`), and without
  assertions a PUBLISH goes out with DUP and the identifier 0 before `publish_send`.
* `SendOps` (`op/SendOp.cpp:277`): a publish sent with a null callback, which is
  allowed, is taken for an unsent one by `cancel`, which then unlocks the preparation
  of another operation. (The module assumes a callback.)
* `SendOps` (`op/SendOp.cpp:353`): the response timer is started with the timeout of
  the client, not with the one of the operation.
* `PublishExchange` (`op/SendOp.cpp:264`): `publish_send` does not look at the
  session again after the tick of its own guard. A PUBLISH sent after the session ended
  has a timer that is not suspended; it fires in the next connection before the
  CONNACK, and a QoS 2 message can be taken twice, or before earlier ones.
* `RecvOps` (`op/RecvOp.cpp:239`): a duplicate PUBLISH stops the timer that limits the
  wait for the PUBREL (`main.dox:1103`).
* `RecvOps` (`ClientImpl.cpp:480`, `543`): operations of rejected messages have the
  identifier 0, which is not refused in a PUBLISH. A message with it is taken for a repetition
  of the rejected one; `resetTimer` stops that one's timer, and it stays as long as
  the connection lasts.
* `ReceiveExchange` (`ClientImpl.cpp:714`): with a clean session flag that changes
  between connections (`MaySwitch`), receptions of a clean session survive into a later
  one, and a correct broker is disconnected for a protocol error.
* `ClientTime` (`op/KeepAliveOp.cpp:37`): the receive timer is started by the first
  message after the CONNACK only. A client that keeps sending to a broker that never
  speaks restarts its ping timer each time and does not notice (`main.dox:1131`).
* `ClientTime` (`op/KeepAliveOp.cpp:84`): a PINGREQ that is due while another is unanswered is
  skipped, and the ping timer is not started again. With a response time longer than the
  keep-alive time (the default 2 s with a keep-alive of 1 s) the PINGRESP may then come, and a
  broker that keeps publishing hears nothing of a client that only receives, for
  longer than the keep-alive time that it was promised.
* `ClientOps` (`ClientImpl.cpp:722`): a session that ends from within
  `notifyNetworkDisconnected` is not reported, also when it is called by a write of
  the library itself, although the operations complete with `BrokerDisconnected`, after
  which `main.dox:1154` tells the application to wait for the report.
* `Subscriptions` (`op/RecvOp.cpp:159`): a broker may publish before it sends
  the SUBACK (MQTT 3.1.1, 3.8.4); the client ends the session, for which
  `main.dox:1143` blames the broker.
* `Topics` (`op/RecvOp.cpp:35`): a topic that ends in `/` has an empty last level,
  which neither a final `+` nor a level before a final `#` matches.
* `AppProgram` (`src/client/app/common/AppClient.cpp:489`): a tick handler that was already queued
  when the wait is taken back runs nevertheless with the full duration, so that time is
  charged twice. `ClientTime` assumes an application that reports true time.

## 12. Not modelled

The message codec is generated from a protocol definition outside this repository.
The object pools and static containers are memory management, of which the modules
have the limits; the C interface only casts. Option parsing, printing and
`parseBinaryData` have no state; `doComplete` is not called. The fuzzing harness is a test
driver. QoS limits below 2 are compile-time configurations with fewer handlers.

## 13. Running

    tlc -config MCSendOps.cfg MCSendOps
    tlapm SendOpsProofs.tla

The runs and their modules and configurations, and the theorems, are listed in
`PROJECT.json`. A proof module is checked with its own name; the modules it extends are
not checked again with it.
`publish_exchange` and `send_ops_live` take about two minutes each, the others
less.
