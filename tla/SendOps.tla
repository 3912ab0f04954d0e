------------------------------ MODULE SendOps ------------------------------
(***************************************************************************)
(* The publish side of the client: the list of publish operations          *)
(* (ClientImpl::m_sendOps, class SendOp), from publishPrepare to the       *)
(* completion callback, and everything that reaches into that list: the    *)
(* acknowledgements of the broker, the response timers, the loss of the    *)
(* connection, the reconnection with or without the session, and the       *)
(* ordering of messages of different QoS.                                  *)
(*                                                                         *)
(* The client is single threaded: one API call runs to its end before the  *)
(* next one starts. A call is one step, up to the points where the code    *)
(* iterates over operations and may run a completion callback of the       *)
(* application in every iteration (the expired timers of a tick, the       *)
(* retransmission after an unexpected acknowledgement, the termination of  *)
(* the operations of an old session): there every iteration is a step, and *)
(* inCall keeps the application out until the loop is over.                *)
(*                                                                         *)
(* m_sendOps is a vector that grows at its end only, so an operation is    *)
(* named by the serial number of its preparation and the list is the set   *)
(* of the live serial numbers, in increasing order.                        *)
(***************************************************************************)
EXTENDS PacketIdAlloc, Sequences

CONSTANTS
    MaxPublishes,   \* bound: number of publish operations ever prepared
    SendOpsLimit,   \* ExtConfig::SendOpsLimit, the size of the operation pool
    QosValues,      \* the QoS values the application uses, out of 0..2
    Attempts,       \* the values given to publish_set_resend_attempts
    Fits,           \* whether a serialised PUBLISH fits the output buffer
    Orderings,      \* the initial values of ConfigState::m_publishOrdering
    MaySwitch       \* whether publish_set_ordering is called later on

ASSUME SendOpsAssumption ==
    /\ MaxPublishes \in Nat
    /\ SendOpsLimit \in Nat
    /\ QosValues \subseteq 0..2
    /\ Attempts \subseteq Nat \ {0}
    /\ Fits \subseteq BOOLEAN
    /\ Orderings \subseteq {"SameQos", "Full"}
    /\ MaySwitch \in BOOLEAN

VARIABLES
    initialized,            \* ClientState::m_initialized
    networkDisconnected,    \* ClientState::m_networkDisconnected
    connected,              \* SessionState::m_connected
    disconnecting,          \* SessionState::m_disconnecting
    publishOrdering,        \* ConfigState::m_publishOrdering
    preparationLocked,      \* ClientImpl::m_preparationLocked
    opsDeleted,             \* ClientImpl::m_opsDeleted: m_ops holds a null pointer
    connectOp,              \* the connect operation: none, prepared, or sent
                            \* with or without the clean session flag
    sendOps,                \* ClientImpl::m_sendOps, the live serial numbers
    op,                     \* the state of every publish operation
    nextOp,                 \* the serial number of the next publishPrepare
    allocatedPacketIds,     \* ClientState::m_allocatedPacketIds
    lastPacketId,           \* ClientState::m_lastPacketId
    inCall,                 \* the loop the client is in, if any
    crashed,                \* a null pointer was dereferenced
    out,                    \* the messages sent in this step
    result                  \* the status every completion callback reported

sessionVars == <<initialized, networkDisconnected, connected, disconnecting, connectOp>>
queueVars == <<sendOps, op, allocatedPacketIds, result>>
vars == <<sessionVars, queueVars, publishOrdering, preparationLocked, opsDeleted,
          nextOp, lastPacketId, inCall, crashed, out>>

Serial == 1..MaxPublishes

(***************************************************************************)
(* The state of a SendOp. An operation is prepared (configured and not     *)
(* sent yet) while it is neither paused nor published. timer is set while  *)
(* m_responseTimer is active; suspended is TimerInfo::m_suspended, which a *)
(* wait or a cancel leaves alone.                                          *)
(***************************************************************************)
OpState ==
    [qos : 0..2, fits : BOOLEAN, total : Nat, id : PacketId, attempts : Nat,
     paused : BOOLEAN, published : BOOLEAN, acked : BOOLEAN,
     timer : BOOLEAN, suspended : BOOLEAN]

NewOp(qos, fits, total) ==
    [qos |-> qos, fits |-> fits, total |-> total, id |-> 0, attempts |-> 0,
     paused |-> FALSE, published |-> FALSE, acked |-> FALSE,
     timer |-> FALSE, suspended |-> FALSE]

\* The place of an operation that does not exist (yet, or any more).
NoOp == NewOp(0, TRUE, 0)

Prepared(s) == s \in sendOps /\ ~op[s].paused /\ ~op[s].published

Statuses == {"Complete", "Timeout", "Aborted", "ProtocolError", "OutOfMemory"}

\* The messages sent; the operation of a PUBLISH stands for its contents.
Publish(f, s, dup) ==
    [type |-> "PUBLISH", id |-> f[s].id, qos |-> f[s].qos, dup |-> dup, op |-> s]
Pubrel(s) == [type |-> "PUBREL", id |-> op[s].id, qos |-> 0, dup |-> FALSE, op |-> 0]
DisconnectMsg == [type |-> "DISCONNECT", id |-> 0, qos |-> 0, dup |-> FALSE, op |-> 0]

\* The loops of the client: the expired timers of a tick, resendAllUntil, the
\* abort of an old session and the destructor, which is never left. left holds
\* the operations to come, ping is set while the timeout of a PINGREQ is still
\* to be handled, and then names the operation that waits for the end of the
\* tick to be sent (0: none).
Calls == [loop : {"none", "tick", "resend", "abort", "free"}, left : SUBSET Serial,
          ping : BOOLEAN, then : 0..MaxPublishes]

Idle == [loop |-> "none", left |-> {}, ping |-> FALSE, then |-> 0]

Init ==
    /\ initialized = FALSE /\ networkDisconnected = FALSE
    /\ connected = FALSE /\ disconnecting = FALSE
    /\ publishOrdering \in Orderings
    /\ preparationLocked = FALSE /\ opsDeleted = FALSE
    /\ connectOp = "none"
    /\ sendOps = {} /\ op = [s \in Serial |-> NoOp] /\ nextOp = 1
    /\ allocatedPacketIds = {} /\ lastPacketId = 0
    /\ inCall = Idle /\ crashed = FALSE
    /\ out = <<>> /\ result = [s \in Serial |-> "none"]

\* The application may call the client: no call is in progress.
ApiCall == inCall = Idle /\ ~crashed

-----------------------------------------------------------------------------
(***************************************************************************)
(* Pausing and resuming. f is the state of the operations and L the list;  *)
(* i is the place where resumeSendOpsSince started, so that the paused     *)
(* operations between i and k were resumed before k is looked at, and the  *)
(* ones that complete on the spot are gone.                                *)
(***************************************************************************)

\* A PUBLISH that is sent completes the operation at once: QoS 0, or an error.
CompletesAtOnce(r) == r.qos = 0 \/ ~r.fits

\* Mutant of CanSend: the paused operation right before is not looked at.
CanSendByQos(f, L, i, k) ==
    publishOrdering = "SameQos" \/ \A j \in L : j < k => f[j].qos <= f[k].qos

\* SendOp::canSend of operation k.
CanSend(f, L, i, k) ==
    \/ publishOrdering = "SameQos"
    \/ LET gone   == {j \in L : i <= j /\ j < k /\ f[j].paused /\ CompletesAtOnce(f[j])}
           before == {j \in L \ gone : j < k}
       IN /\ \A j \in before : f[j].qos <= f[k].qos
          /\ \A j \in before : j < i /\ f[j].paused => \E m \in before : j < m

\* Mutant of Resumable: only the first paused operation is resumed.
ResumableFirst(f, L, i) ==
    {k \in L : /\ i <= k /\ f[k].paused /\ CanSend(f, L, i, k)
               /\ \A j \in L : i <= j /\ j < k => ~f[j].paused}

\* The operations that resumeSendOpsSince(i) resumes: it stops at the first
\* paused one that cannot be sent.
Resumable(f, L, i) ==
    {k \in L : /\ i <= k /\ f[k].paused
               /\ \A j \in L : i <= j /\ j <= k /\ f[j].paused => CanSend(f, L, i, j)}

\* TimerMgr::tick stops an expired timer; postReconnectionResend starts one;
\* Timer::setSuspended.
Stopped(r) == [r EXCEPT !.timer = FALSE]
Started(r) == [r EXCEPT !.timer = TRUE]
Suspended(r) == [r EXCEPT !.suspended = TRUE]

\* SendOp::doSendInternal when the operation stays in the list.
SentOnce(r) == Started([r EXCEPT !.paused = FALSE, !.published = TRUE, !.attempts = 1])

\* SendOp::resendDupMsg when a message is sent, and SendOp::handle(PubrecMsg)
\* when the PUBREC is accepted.
Resent(r) == [r EXCEPT !.attempts = @ + 1, !.timer = TRUE]
Received(r) == [r EXCEPT !.acked = TRUE, !.attempts = 1, !.timer = TRUE]

\* SendOp::send once the packet identifier is known, and when it has to wait.
Named(r, id) == [r EXCEPT !.id = id]
Postponed(r, id) == [r EXCEPT !.id = id, !.paused = TRUE]

\* The operations of S in the order of the list: the i-th one has i - 1 of them
\* before it.
InOrder(S) ==
    [i \in 1..Cardinality(S) |->
        CHOOSE s \in S : Cardinality({r \in S : r < s}) = i - 1]

\* The first PUBLISH of every operation of R, in the order of the list.
FirstPublishes(f, R) ==
    LET order == InOrder({s \in R : f[s].fits})
    IN [i \in DOMAIN order |-> Publish(f, order[i], FALSE)]

\* SendOp::connectivityChangedImpl for every operation when the client is not
\* connected: only an active timer can be suspended.
Suspend(f) ==
    [s \in Serial |-> IF f[s].timer THEN Suspended(f[s]) ELSE f[s]]

\* What remains of the operations f once R is resumed.
AfterResume(f, R) ==
    [s \in Serial |-> IF s \notin R THEN f[s]
                      ELSE IF CompletesAtOnce(f[s]) THEN NoOp
                      ELSE SentOnce(f[s])]

\* The operations R of the list L are resumed; f is the state of the
\* operations, ids the packet identifiers and res the callbacks of the ones
\* that left before, sent what was sent before. When lost is set,
\* brokerDisconnected follows and suspends the timers.
Resumed(f, L, R, ids, res, sent, lost) ==
    LET done == {r \in R : CompletesAtOnce(f[r])}
        g    == AfterResume(f, R)
    IN /\ sendOps' = L \ done
       /\ op' = IF lost THEN Suspend(g) ELSE g
       /\ allocatedPacketIds' =
              ReleasePacketIds(allocatedPacketIds, ids \cup {f[r].id : r \in done})
       /\ result' = [r \in Serial |->
              IF r \notin done THEN res[r]
              ELSE IF f[r].fits THEN "Complete" ELSE "OutOfMemory"]
       /\ out' = sent \o FirstPublishes(f, R)

\* ClientImpl::opComplete and opComplete_Send: operation s leaves the list,
\* its destructor releases the packet identifier, the operations paused behind
\* it are resumed unless the session is being terminated, and the callback
\* reports the status.
Leave(s, status, sent, lost) ==
    LET rest == sendOps \ {s}
        f    == [op EXCEPT ![s] = NoOp]
    IN Resumed(f, rest, IF disconnecting THEN {} ELSE Resumable(f, rest, s),
               {op[s].id}, [result EXCEPT ![s] = status], sent, lost)

\* Mutants of ResendDup: the PUBLISH is repeated whether or not there was a
\* PUBREC, the repetition is not counted, or one too many is allowed.
ResendPublish(s) ==
    \/ op[s].total <= op[s].attempts /\ Leave(s, "Timeout", <<>>, FALSE)
    \/ /\ op[s].attempts < op[s].total
       /\ op' = [op EXCEPT ![s] = Resent(@)]
       /\ out' = <<Publish(op, s, TRUE)>>
       /\ UNCHANGED <<sendOps, allocatedPacketIds, result>>

ResendUncounted(s) ==
    \/ op[s].total <= op[s].attempts /\ Leave(s, "Timeout", <<>>, FALSE)
    \/ /\ op[s].attempts < op[s].total
       /\ op' = [op EXCEPT ![s] = Started(@)]
       /\ out' = <<IF op[s].acked THEN Pubrel(s) ELSE Publish(op, s, TRUE)>>
       /\ UNCHANGED <<sendOps, allocatedPacketIds, result>>

ResendOnceMore(s) ==
    \/ op[s].total < op[s].attempts /\ Leave(s, "Timeout", <<>>, FALSE)
    \/ /\ op[s].attempts <= op[s].total
       /\ op' = [op EXCEPT ![s] = Resent(@)]
       /\ out' = <<IF op[s].acked THEN Pubrel(s) ELSE Publish(op, s, TRUE)>>
       /\ UNCHANGED <<sendOps, allocatedPacketIds, result>>

\* SendOp::resendDupMsg of operation s.
ResendDup(s) ==
    \/ /\ op[s].total <= op[s].attempts
       /\ Leave(s, "Timeout", <<>>, FALSE)
    \/ /\ op[s].attempts < op[s].total
       /\ op' = [op EXCEPT ![s] = Resent(@)]
       /\ out' = <<IF op[s].acked THEN Pubrel(s) ELSE Publish(op, s, TRUE)>>
       /\ UNCHANGED <<sendOps, allocatedPacketIds, result>>

\* ClientImpl::brokerDisconnected, but for the timers of the publish
\* operations: the connect operation is terminated, publishes are kept.
SessionLost ==
    /\ initialized' = FALSE /\ connected' = FALSE /\ disconnecting' = TRUE
    /\ connectOp' = "none"

-----------------------------------------------------------------------------
(***************************************************************************)
(* The publish API.                                                        *)
(***************************************************************************)

\* ClientImpl::publishPrepare, followed by SendOp::setResendAttempts and
\* SendOp::config (a rejected configuration changes nothing).
PublishPrepare(qos, fits, total) ==
    /\ ApiCall
    /\ connected /\ ~disconnecting /\ ~networkDisconnected
    /\ Cardinality(sendOps) < SendOpsLimit
    /\ ~preparationLocked
    /\ nextOp <= MaxPublishes
    /\ preparationLocked' = TRUE
    /\ sendOps' = sendOps \cup {nextOp}
    /\ op' = [op EXCEPT ![nextOp] = NewOp(qos, fits, total)]
    /\ nextOp' = nextOp + 1
    /\ out' = <<>>
    /\ UNCHANGED <<sessionVars, publishOrdering, opsDeleted, allocatedPacketIds,
                   lastPacketId, inCall, crashed, result>>

\* The part of SendOp::send before the message is sent: the next preparation
\* is allowed and an operation that needs one takes a packet identifier.
TakePacketId(s) ==
    /\ preparationLocked' = FALSE
    /\ IF op[s].qos = 0
       THEN UNCHANGED <<allocatedPacketIds, lastPacketId>>
       ELSE /\ allocatedPacketIds' = AllocatedAfter(lastPacketId, allocatedPacketIds)
            /\ lastPacketId' = LastAfter(lastPacketId, allocatedPacketIds)

IdTaken(s) ==
    IF op[s].qos = 0 THEN 0 ELSE AllocPacketId(lastPacketId, allocatedPacketIds)

\* SendOp::send of an operation that has to wait for the ones before it.
PublishPause(s) ==
    /\ ApiCall /\ Prepared(s)
    /\ ~CanSend(op, sendOps, s, s)
    /\ TakePacketId(s)
    /\ op' = [op EXCEPT ![s] = Postponed(@, IdTaken(s))]
    /\ out' = <<>>
    /\ UNCHANGED <<sessionVars, publishOrdering, opsDeleted, sendOps, nextOp, inCall,
                   crashed, result>>

\* The response timers that TimerMgr::tick may find expired.
Running == {s \in sendOps : op[s].timer /\ ~op[s].suspended}

CancelTimers(f, F) ==
    [s \in Serial |-> IF s \in F THEN Stopped(f[s]) ELSE f[s]]

\* SendOp::send of an operation that need not wait. apiEnter follows, whose
\* tick may find timers expired (the operations F, and the keep-alive operation
\* with ping): their callbacks run before the PUBLISH is sent, and nothing is
\* checked again after them.
PublishSend(s, F, ping) ==
    /\ ApiCall /\ Prepared(s)
    /\ CanSend(op, sendOps, s, s)
    /\ ping => connected
    /\ TakePacketId(s)
    /\ op' = CancelTimers([op EXCEPT ![s] = Named(@, IdTaken(s))], F)
    /\ inCall' = [loop |-> "tick", left |-> F, ping |-> ping, then |-> s]
    /\ out' = <<>>
    /\ UNCHANGED <<sessionVars, publishOrdering, opsDeleted, sendOps, nextOp, crashed, result>>

\* SendOp::cancel. There is no apiEnter: the null pointer stays in m_ops.
PublishCancel(s) ==
    /\ ApiCall /\ s \in sendOps
    /\ preparationLocked' = (preparationLocked /\ ~Prepared(s))
    /\ Leave(s, "none", <<>>, FALSE)
    /\ opsDeleted' = TRUE
    /\ UNCHANGED <<sessionVars, publishOrdering, nextOp, lastPacketId, inCall, crashed>>

\* ClientImpl::setPublishOrdering.
SetPublishOrdering(ordering) ==
    /\ ApiCall /\ MaySwitch
    /\ publishOrdering' = ordering
    /\ out' = <<>>
    /\ UNCHANGED <<sessionVars, queueVars, preparationLocked, opsDeleted, nextOp,
                   lastPacketId, inCall, crashed>>

-----------------------------------------------------------------------------
(***************************************************************************)
(* Timers. TimerMgr::tick first collects the callbacks of all the expired  *)
(* timers and then runs them, in the order of the timer slots, which says  *)
(* nothing about the order of the operations.                              *)
(***************************************************************************)

\* The client leaves the loop when nothing remains to be done in it. The end
\* of the API call (doApiExit) then removes the null pointers from m_ops.
Continue(c) ==
    /\ inCall' = IF c.left = {} /\ ~c.ping /\ c.then = 0 /\ c.loop # "free" THEN Idle ELSE c
    /\ opsDeleted' = (opsDeleted /\ inCall' # Idle)

\* cc_mqtt311_client_tick, or the tick of the apiEnter of the next API call.
Tick(F, ping) ==
    /\ ApiCall
    /\ F # {} \/ ping
    /\ ping => connected
    /\ op' = CancelTimers(op, F)
    /\ inCall' = [loop |-> "tick", left |-> F, ping |-> ping, then |-> 0]
    /\ out' = <<>>
    /\ UNCHANGED <<sessionVars, publishOrdering, preparationLocked, opsDeleted, sendOps,
                   nextOp, allocatedPacketIds, lastPacketId, crashed, result>>

\* SendOp::responseTimeoutInternal.
ResponseTimeout(s) ==
    /\ inCall.loop = "tick" /\ s \in inCall.left
    /\ ResendDup(s)
    /\ Continue([inCall EXCEPT !.left = @ \ {s}])
    /\ UNCHANGED <<sessionVars, publishOrdering, preparationLocked, nextOp, lastPacketId,
                   crashed>>

\* KeepAliveOp::pingTimeoutInternal: the broker did not answer a PINGREQ.
PingTimeout ==
    /\ inCall.loop = "tick" /\ inCall.ping
    /\ SessionLost
    /\ op' = Suspend(op)
    /\ Continue([inCall EXCEPT !.ping = FALSE])
    /\ out' = <<>>
    /\ UNCHANGED <<networkDisconnected, publishOrdering, preparationLocked, sendOps, nextOp,
                   allocatedPacketIds, lastPacketId, crashed, result>>

\* SendOp::doSendInternal, when the tick of SendOp::send is over. A message
\* that does not fit completes the operation after the end of the API call,
\* and without the callback.
DoSend ==
    /\ inCall.loop = "tick" /\ inCall.left = {} /\ ~inCall.ping /\ inCall.then # 0
    /\ LET s == inCall.then IN
          IF CompletesAtOnce(op[s])
          THEN Leave(s, IF op[s].fits THEN "Complete" ELSE "none",
                     IF op[s].fits THEN <<Publish(op, s, FALSE)>> ELSE <<>>, FALSE)
          ELSE /\ op' = [op EXCEPT ![s] = SentOnce(@)]
               /\ out' = <<Publish(op, s, FALSE)>>
               /\ UNCHANGED <<sendOps, allocatedPacketIds, result>>
    /\ inCall' = Idle
    /\ opsDeleted' = ~op[inCall.then].fits
    /\ UNCHANGED <<sessionVars, publishOrdering, preparationLocked, nextOp, lastPacketId,
                   crashed>>

-----------------------------------------------------------------------------
(***************************************************************************)
(* Acknowledgements of the broker. One for an unknown packet identifier    *)
(* changes nothing. They are handled whether or not the client is          *)
(* connected, as long as the network is there.                             *)
(***************************************************************************)

RecvAck(s) == ApiCall /\ ~networkDisconnected /\ s \in sendOps /\ op[s].id # 0

\* ClientImpl::isLegitSendAck.
IsLegitSendAck(s, pubcompAck) ==
    /\ op[s].published
    /\ \A r \in sendOps : r < s => op[r].acked /\ ~pubcompAck

\* The acknowledgement that SendOp::handle expects next for operation s.
Expected(s) ==
    IF op[s].qos = 1 THEN "PUBACK" ELSE IF op[s].acked THEN "PUBCOMP" ELSE "PUBREC"

\* The end of an API call that keeps the session.
CallEnds == inCall' = Idle /\ opsDeleted' = FALSE

\* SendOp::handle(PubackMsg) and handle(PubcompMsg) as they should be: the
\* operation is complete.
AckCompletes(s, ack) ==
    /\ RecvAck(s) /\ IsLegitSendAck(s, ack = "PUBCOMP")
    /\ ack = Expected(s) /\ ack # "PUBREC"
    /\ Leave(s, "Complete", <<>>, FALSE)
    /\ CallEnds
    /\ UNCHANGED <<sessionVars, publishOrdering, preparationLocked, nextOp, lastPacketId,
                   crashed>>

\* Mutant of AckPubrec: the response timer is not started again.
AckPubrecUntimed(s) ==
    /\ RecvAck(s) /\ IsLegitSendAck(s, FALSE)
    /\ Expected(s) = "PUBREC"
    /\ op' = [op EXCEPT ![s] = Stopped(Received(@))]
    /\ out' = <<Pubrel(s)>>
    /\ CallEnds
    /\ UNCHANGED <<sessionVars, sendOps, allocatedPacketIds, result, publishOrdering,
                   preparationLocked, nextOp, lastPacketId, crashed>>

\* SendOp::handle(PubrecMsg): the PUBREL follows.
AckPubrec(s) ==
    /\ RecvAck(s) /\ IsLegitSendAck(s, FALSE)
    /\ Expected(s) = "PUBREC"
    /\ op' = [op EXCEPT ![s] = Received(@)]
    /\ out' = <<Pubrel(s)>>
    /\ CallEnds
    /\ UNCHANGED <<sessionVars, sendOps, allocatedPacketIds, result, publishOrdering,
                   preparationLocked, nextOp, lastPacketId, crashed>>

\* The same three handlers on an acknowledgement of the wrong kind (a second
\* PUBREC is one): the operation fails, then the session is given up.
AckProtocolError(s, ack) ==
    /\ RecvAck(s) /\ IsLegitSendAck(s, ack = "PUBCOMP")
    /\ ack # Expected(s)
    /\ Leave(s, "ProtocolError", <<>>, TRUE)
    /\ SessionLost
    /\ CallEnds
    /\ UNCHANGED <<networkDisconnected, publishOrdering, preparationLocked, nextOp,
                   lastPacketId, crashed>>

\* ClientImpl::resendAllUntil: an acknowledgement out of order makes the client
\* send again everything up to the operation it names.
AckOutOfOrder(s, ack) ==
    /\ RecvAck(s) /\ ~IsLegitSendAck(s, ack = "PUBCOMP")
    /\ inCall' = [Idle EXCEPT !.loop = "resend", !.left = {r \in sendOps : r <= s}]
    /\ out' = <<>>
    /\ UNCHANGED <<sessionVars, queueVars, publishOrdering, preparationLocked, opsDeleted,
                   nextOp, lastPacketId, crashed>>

\* What remains of that loop after the iteration of operation s: the loop ends
\* with the operation it was started for, or with the list if that one left
\* the list in an iteration before its own.
LeftToResend(s) ==
    LET until == CHOOSE r \in inCall.left : \A t \in inCall.left : t <= r
    IN {r \in sendOps' : s # until /\ s < r /\ (until \in sendOps' => r <= until)}

\* SendOp::forceDupResend of the next operation of that loop.
ForceDupResend(s) ==
    /\ inCall.loop = "resend"
    /\ s \in inCall.left /\ \A r \in inCall.left : s <= r
    /\ IF op[s].paused THEN out' = <<>> /\ UNCHANGED queueVars ELSE ResendDup(s)
    /\ Continue([inCall EXCEPT !.left = LeftToResend(s)])
    /\ UNCHANGED <<sessionVars, publishOrdering, preparationLocked, nextOp, lastPacketId,
                   crashed>>

-----------------------------------------------------------------------------
(***************************************************************************)
(* The connection.                                                         *)
(***************************************************************************)

\* What the actions of the connect operation leave alone.
connectUnchanged == <<queueVars, publishOrdering, nextOp, lastPacketId, inCall, crashed>>

\* ClientImpl::connectPrepare. The network is taken to be there again and a
\* client that lost its session is initialised (initInternal), whatever
\* happens to the preparation itself.
ConnectPrepare ==
    /\ ApiCall
    /\ networkDisconnected' = FALSE
    /\ initialized' = TRUE
    /\ connected' = (initialized /\ connected)
    /\ disconnecting' = (initialized /\ disconnecting)
    /\ opsDeleted' = (initialized /\ opsDeleted)
    /\ LET allowed == /\ connectOp = "none" /\ ~connected' /\ ~disconnecting'
                      /\ ~preparationLocked
       IN /\ connectOp' = IF allowed THEN "prepared" ELSE connectOp
          /\ preparationLocked' = (preparationLocked \/ allowed)
    /\ out' = <<>>
    /\ UNCHANGED connectUnchanged

\* ConnectOp::send, with or without the clean session flag (the first connect
\* may do without it when the verification of subscriptions is disabled).
ConnectSend(clean) ==
    /\ ApiCall /\ connectOp = "prepared"
    /\ preparationLocked' = FALSE
    /\ connectOp' = IF clean THEN "clean" ELSE "resume"
    /\ opsDeleted' = FALSE
    /\ out' = <<>>
    /\ UNCHANGED <<initialized, networkDisconnected, connected, disconnecting, connectUnchanged>>

\* ConnectOp::cancel (again without apiEnter), and the expiry of its timer.
ConnectEnds ==
    /\ ApiCall /\ connectOp # "none"
    /\ \/ opsDeleted' = TRUE
       \/ connectOp # "prepared" /\ opsDeleted' = FALSE
    /\ preparationLocked' = (preparationLocked /\ connectOp # "prepared")
    /\ connectOp' = "none"
    /\ out' = <<>>
    /\ UNCHANGED <<initialized, networkDisconnected, connected, disconnecting, connectUnchanged>>

RecvConnack == ApiCall /\ ~networkDisconnected /\ ~disconnecting
               /\ connectOp \in {"clean", "resume"}

\* ConnectOp::handle(ConnackMsg) on a refusal, which resets the session state,
\* and on a session present flag that was not asked for, which does not.
ConnackRefused ==
    /\ RecvConnack
    /\ connectOp' = "none"
    /\ connected' = FALSE
    /\ opsDeleted' = FALSE
    /\ out' = <<>>
    /\ UNCHANGED <<initialized, networkDisconnected, disconnecting, preparationLocked,
                   connectUnchanged>>

\* The paused operations at the end of the list.
PausedTail == {s \in sendOps : \A r \in sendOps : s <= r => op[r].paused}

\* Mutants of ResendAll: the operations are gone through from the end of the
\* list, or the DUP flag is not set after a reconnection.
ResendAllFromEnd ==
    LET again == {s \in sendOps : ~op[s].paused}
        order == [i \in 1..Cardinality(again) |-> InOrder(again)[Cardinality(again) + 1 - i]]
    IN [f    |-> [s \in Serial |-> IF s \in again THEN Started(op[s]) ELSE op[s]],
        sent |-> [i \in DOMAIN order |->
                    IF op[order[i]].acked THEN Pubrel(order[i]) ELSE Publish(op, order[i], TRUE)]]

ResendAllNoDup ==
    LET again == {s \in sendOps : ~op[s].paused}
        order == InOrder(again)
    IN [f    |-> [s \in Serial |-> IF s \in again THEN Started(op[s]) ELSE op[s]],
        sent |-> [i \in DOMAIN order |->
                    IF op[order[i]].acked THEN Pubrel(order[i]) ELSE Publish(op, order[i], FALSE)]]

\* SendOp::postReconnectionResend for every operation of the list, in order:
\* the attempt that is repeated is not counted again.
ResendAll ==
    LET again == {s \in sendOps : ~op[s].paused}
        order == InOrder(again)
    IN [f    |-> [s \in Serial |-> IF s \in again THEN Started(op[s]) ELSE op[s]],
        sent |-> [i \in DOMAIN order |->
                    IF op[order[i]].acked THEN Pubrel(order[i]) ELSE Publish(op, order[i], TRUE)]]

\* ClientImpl::brokerConnected with the session of the last connection: what
\* is in flight is sent again, then the paused tail of the list is resumed.
ConnackResumed ==
    /\ RecvConnack /\ connectOp = "resume"
    /\ connected' = TRUE /\ connectOp' = "none"
    /\ Resumed(ResendAll.f, sendOps,
               UNION {Resumable(ResendAll.f, sendOps, i) :
                         i \in {i \in PausedTail : \A j \in PausedTail : i <= j}},
               {}, result, ResendAll.sent, FALSE)
    /\ CallEnds
    /\ UNCHANGED <<initialized, networkDisconnected, disconnecting, publishOrdering,
                   preparationLocked, nextOp, lastPacketId, crashed>>

\* ClientImpl::brokerConnected without the old session: a loop over m_ops
\* terminates the publish operations. It does not expect null pointers.
ConnackClean ==
    /\ RecvConnack
    /\ connected' = TRUE /\ connectOp' = "none"
    /\ crashed' = opsDeleted
    /\ inCall' = IF sendOps = {} \/ opsDeleted
                 THEN Idle
                 ELSE [Idle EXCEPT !.loop = "abort", !.left = sendOps]
    /\ opsDeleted' = FALSE
    /\ out' = <<>>
    /\ UNCHANGED <<initialized, networkDisconnected, disconnecting, queueVars,
                   publishOrdering, preparationLocked, nextOp, lastPacketId>>

\* The destructor of ClientImpl: terminateOps over everything.
FreeClient ==
    /\ ApiCall
    /\ inCall' = [Idle EXCEPT !.loop = "free", !.left = sendOps]
    /\ out' = <<>>
    /\ UNCHANGED <<sessionVars, queueVars, publishOrdering, preparationLocked, opsDeleted,
                   nextOp, lastPacketId, crashed>>

\* SendOp::terminateOpImpl for the next operation of one of these two loops, or
\* the null pointer of one that left the list in an earlier iteration:
\* terminateOps skips it, brokerConnected does not.
TerminateOp(s) ==
    /\ inCall.loop \in {"abort", "free"} /\ ~crashed
    /\ s \in inCall.left /\ \A r \in inCall.left : s <= r
    /\ IF s \in sendOps
       THEN /\ Leave(s, "Aborted", <<>>, FALSE)
            /\ UNCHANGED crashed
       ELSE /\ crashed' = (inCall.loop = "abort")
            /\ out' = <<>>
            /\ UNCHANGED queueVars
    /\ Continue([inCall EXCEPT !.left = @ \ {s}])
    /\ UNCHANGED <<sessionVars, publishOrdering, preparationLocked, nextOp, lastPacketId>>

\* The end of the session: the effect of brokerDisconnected in a call of its own.
LoseSession ==
    /\ SessionLost
    /\ op' = Suspend(op)
    /\ CallEnds
    /\ UNCHANGED <<sendOps, allocatedPacketIds, result, publishOrdering, preparationLocked,
                   nextOp, lastPacketId, crashed>>

\* ClientImpl::notifyNetworkDisconnected; the session is left alone when its
\* termination is already under way.
NotifyNetworkDisconnected ==
    /\ ApiCall
    /\ networkDisconnected' = TRUE
    /\ \/ /\ ~disconnecting
          /\ LoseSession
          /\ out' = <<>>
       \/ /\ disconnecting
          /\ CallEnds
          /\ out' = <<>>
          /\ UNCHANGED <<initialized, connected, disconnecting, connectOp, queueVars,
                         publishOrdering, preparationLocked, nextOp, lastPacketId, crashed>>

\* ClientImpl::processData on data that cannot be parsed.
RecvMalformed ==
    /\ ApiCall /\ ~networkDisconnected
    /\ LoseSession
    /\ out' = <<>>
    /\ UNCHANGED networkDisconnected

\* ClientImpl::disconnectPrepare and DisconnectOp::send.
Disconnect ==
    /\ ApiCall
    /\ connected /\ ~disconnecting /\ ~networkDisconnected /\ ~preparationLocked
    /\ LoseSession
    /\ out' = <<DisconnectMsg>>
    /\ UNCHANGED networkDisconnected

-----------------------------------------------------------------------------

PublishApi ==
    \/ \E q \in QosValues, f \in Fits, n \in Attempts : PublishPrepare(q, f, n)
    \/ \E s \in Serial : PublishPause(s) \/ PublishCancel(s)
    \/ \E s \in Serial, F \in SUBSET Running, ping \in BOOLEAN : PublishSend(s, F, ping)
    \/ \E o \in {"SameQos", "Full"} : SetPublishOrdering(o)

Timers ==
    \/ \E F \in SUBSET Running, ping \in BOOLEAN : Tick(F, ping)
    \/ \E s \in Serial : ResponseTimeout(s)
    \/ PingTimeout
    \/ DoSend

Acknowledgements ==
    \/ \E s \in Serial : AckPubrec(s) \/ ForceDupResend(s)
    \/ \E s \in Serial, ack \in {"PUBACK", "PUBREC", "PUBCOMP"} :
          AckCompletes(s, ack) \/ AckProtocolError(s, ack) \/ AckOutOfOrder(s, ack)

Connection ==
    \/ ConnectPrepare
    \/ \E clean \in BOOLEAN : ConnectSend(clean)
    \/ ConnectEnds
    \/ ConnackRefused
    \/ ConnackResumed
    \/ ConnackClean
    \/ FreeClient
    \/ \E s \in Serial : TerminateOp(s)
    \/ NotifyNetworkDisconnected
    \/ RecvMalformed
    \/ Disconnect

Next == PublishApi \/ Timers \/ Acknowledgements \/ Connection

Spec == Init /\ [][Next]_vars

-----------------------------------------------------------------------------

TypeOK ==
    /\ initialized \in BOOLEAN /\ networkDisconnected \in BOOLEAN
    /\ connected \in BOOLEAN /\ disconnecting \in BOOLEAN
    /\ publishOrdering \in {"SameQos", "Full"}
    /\ preparationLocked \in BOOLEAN /\ opsDeleted \in BOOLEAN
    /\ connectOp \in {"none", "prepared", "clean", "resume"}
    /\ sendOps \subseteq Serial
    /\ op \in [Serial -> OpState]
    /\ nextOp \in 1..(MaxPublishes + 1)
    /\ allocatedPacketIds \subseteq PacketId /\ lastPacketId \in PacketId
    /\ inCall \in Calls
    /\ crashed \in BOOLEAN
    /\ result \in [Serial -> Statuses \cup {"none"}]

\* A published operation always has its response timer armed, or is about to
\* be handled by the tick that just stopped it, so that an acknowledgement that
\* never comes is noticed: no handler of SendOp may forget to restart it.
InFlightTimed ==
    \A s \in sendOps :
        op[s].published => op[s].timer \/ (inCall.loop = "tick" /\ s \in inCall.left)

\* Full ordering: nothing is published ahead of an operation that was sent
\* before it, whatever its QoS and in whatever order operations complete, fail,
\* are cancelled or resumed (SendOp::canSend and resumeSendOpsSince look at the
\* neighbour in the list only). An operation can be overtaken only when it
\* leaves the list without having been published.
SentInOrder ==
    [][publishOrdering = "Full" =>
         \A i \in DOMAIN out' : out'[i].type = "PUBLISH" =>
            \A r \in sendOps : r < out'[i].op /\ ~op[r].published =>
               \/ \E j \in DOMAIN out' : j < i /\ out'[j].op = r
               \/ r \notin sendOps' /\ \A j \in DOMAIN out' : out'[j].op # r]_vars

\* Full ordering: while the client is connected nothing stays paused without
\* a reason. Whatever order operations complete, fail or are cancelled in,
\* over reconnections too, the ones behind them are resumed as soon as
\* canSend allows it.
PausedForAReason ==
    publishOrdering = "Full" /\ connected /\ ApiCall =>
        \A s \in sendOps : op[s].paused => ~CanSend(op, sendOps, s, s)

\* The identifiers in use are those of the publish operations in progress and
\* no two of them share one.
PacketIdsInUse ==
    /\ allocatedPacketIds \ {0} = {op[s].id : s \in sendOps} \ {0}
    /\ \A r, s \in sendOps : r # s /\ op[r].id # 0 => op[r].id # op[s].id

\* Only the most recent operation may be prepared and not sent, no connect
\* operation exists at the same time, and every operation that was sent without
\* being paused counts at least one attempt and no more than its limit. (The
\* assertions on m_published in resendDupMsg and on m_sendAttempts in
\* postReconnectionResend rest on this.)
OnePreparation ==
    /\ \A s \in sendOps : Prepared(s) =>
          /\ s = nextOp - 1
          /\ connectOp = "none"
          /\ preparationLocked \/ inCall.then = s
    /\ \A s \in sendOps : op[s].published =>
          1 <= op[s].attempts /\ op[s].attempts <= op[s].total

\* Once the broker has confirmed a QoS 2 message with a PUBREC it is never
\* published again, whatever is retransmitted, resumed or reconnected later:
\* the broker would take it for a new message.
AckedNeverRepublished ==
    [][\A i \in DOMAIN out' : out'[i].type = "PUBLISH" => ~op[out'[i].op].acked]_vars

\* The DUP flag is set in a PUBLISH exactly when that message was sent before.
DupOnRepublish ==
    [][\A i \in DOMAIN out' :
          out'[i].type = "PUBLISH" => (out'[i].dup <=> op[out'[i].op].published)]_vars

(***************************************************************************)
(* Liveness. A running timer expires: the application calls the tick it    *)
(* was asked to program, and every other API call ticks the elapsed time   *)
(* first. A loop the client is in goes on. Nothing is assumed of the       *)
(* broker, the network or the application.                                 *)
(***************************************************************************)
Fairness ==
    /\ \A s \in Serial :
          WF_vars(\E F \in SUBSET Running, ping \in BOOLEAN : s \in F /\ Tick(F, ping))
    /\ WF_vars(Timers /\ inCall # Idle)
    /\ WF_vars(\E s \in Serial : ForceDupResend(s) \/ TerminateOp(s))

FairSpec == Spec /\ Fairness

\* A published operation whose timer runs ends: it is acknowledged, cancelled,
\* or given up after its last attempt, unless the session ends before.
PublishEnds ==
    \A s \in Serial :
        s \in sendOps /\ op[s].published /\ ~op[s].suspended /\ connected
            ~> s \notin sendOps \/ ~connected \/ crashed

\* The same for every published operation of a connected client: not
\* acknowledged, it is sent again, and terminated after the last attempt.
UnackedPublishEnds ==
    \A s \in Serial :
        s \in sendOps /\ op[s].published /\ connected
            ~> s \notin sendOps \/ ~connected \/ crashed
=============================================================================
