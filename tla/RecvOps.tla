------------------------------ MODULE RecvOps ------------------------------
(***************************************************************************)
(* The receive side of the client: ClientImpl::handle(PublishMsg) and      *)
(* handle(PubrelMsg), and the receive operations they create (class RecvOp,*)
(* ClientImpl::m_recvOps), over losses of the session and reconnections.   *)
(*                                                                         *)
(* Each handler is one step: a receive operation has no completion         *)
(* callback, and what its timeout does concerns only itself. The callbacks *)
(* inside a handler, for the message and for the data to write, may end    *)
(* the session; where the handler then goes on to something that the end   *)
(* of the session after the handler would not lead to, this is a case of   *)
(* its own. Of the session only the flags that these handlers read are     *)
(* kept. The client is re-initialised by connectPrepare exactly when the   *)
(* session was ended before, so m_initialized is ~disconnecting after the  *)
(* first connect and needs no variable.                                    *)
(***************************************************************************)
EXTENDS Integers, Sequences, FiniteSets

CONSTANTS
    RecvSlots,      \* the places of m_recvOpsAlloc, ExtConfig::RecvOpsLimit of them
    PacketIds,      \* the packet identifiers the broker uses, 0 if it likes
    Messages        \* what is published

ASSUME RecvAssumption == PacketIds \subseteq Nat

VARIABLES
    networkDisconnected,    \* ClientState::m_networkDisconnected
    connected,              \* SessionState::m_connected
    disconnecting,          \* SessionState::m_disconnecting
    recvOps,                \* ClientImpl::m_recvOps, the places in use
    recv,                   \* the state of the operation in every place
    effect                  \* what the last step did outside the client

recvVars == <<networkDisconnected, connected, disconnecting, recvOps, recv, effect>>

\* A RecvOp: m_packetId, and m_responseTimer (active, and TimerInfo::m_suspended).
RecvState == [id : PacketIds \cup {0}, timer : BOOLEAN, suspended : BOOLEAN]

\* Mutant of NewRecv: m_packetId has no initial value.
NewRecvNoId == [id |-> -1, timer |-> FALSE, suspended |-> FALSE]

NewRecv == [id |-> 0, timer |-> FALSE, suspended |-> FALSE]

\* The acknowledgements sent, the message reported to the application, and
\* whether the session was given up for a protocol error.
Quiet == [sent |-> <<>>, report |-> {}, failed |-> FALSE]
Failed == [Quiet EXCEPT !.failed = TRUE]
Ack(type, id) == <<[type |-> type, id |-> id]>>

\* A PUBLISH of the broker. valid: its QoS and its topic are legal and the
\* topic is subscribed.
Publishes(ids) ==
    [type : {"PUBLISH"}, qos : 0..2, id : ids, dup : BOOLEAN, valid : BOOLEAN, msg : Messages]

Init ==
    /\ networkDisconnected = FALSE /\ connected = FALSE /\ disconnecting = FALSE
    /\ recvOps = {} /\ recv = [s \in RecvSlots |-> NewRecv]
    /\ effect = Quiet

-----------------------------------------------------------------------------

\* RecvOp::connectivityChangedImpl without a session, for the operations f: of
\* their timers the active ones are suspended.
Suspended(f) ==
    [s \in RecvSlots |-> IF f[s].timer THEN [f[s] EXCEPT !.suspended = TRUE] ELSE f[s]]

\* ClientImpl::brokerDisconnected: the receive operations f are kept.
SessionLost(f) ==
    /\ connected' = FALSE /\ disconnecting' = TRUE
    /\ recv' = Suspended(f)

\* Op::opComplete of the operations F: they leave m_recvOps and their
\* destructors free the timers.
Complete(F) ==
    /\ recvOps' = recvOps \ F
    /\ recv' = [s \in RecvSlots |-> IF s \in F THEN NewRecv ELSE recv[s]]

\* ClientImpl::processData hands a message over.
Incoming == ~networkDisconnected

\* The reception that is in progress for a packet identifier, and the rejected
\* operations, which have none, for identifier 0; of those the code takes the
\* first.
InProgress(id) == {s \in recvOps : recv[s].id = id}

\* Mutant of NeedsOp: every PUBLISH is a new one.
AlwaysNeedsOp(p) == TRUE

\* ClientImpl::handle(PublishMsg) creates an operation.
NeedsOp(p) == p.qos = 2 => InProgress(p.id) = {}

\* Mutant of PublishIgnored: the PUBLISH is acknowledged although no operation
\* could be allocated.
PublishIgnoredAcked(p) ==
    /\ Incoming
    /\ disconnecting \/ (NeedsOp(p) /\ recvOps = RecvSlots)
    /\ effect' = [Quiet EXCEPT !.sent = IF p.qos = 1 THEN Ack("PUBACK", p.id) ELSE <<>>]
    /\ UNCHANGED <<networkDisconnected, connected, disconnecting, recvOps, recv>>

\* It does nothing when the session is being terminated or no operation can
\* be allocated.
PublishIgnored(p) ==
    /\ Incoming
    /\ disconnecting \/ (NeedsOp(p) /\ recvOps = RecvSlots)
    /\ effect' = Quiet
    /\ UNCHANGED <<networkDisconnected, connected, disconnecting, recvOps, recv>>

\* RecvOp::handle(PublishMsg) of a new operation on an error: the session is
\* given up and the operation stays, without a packet identifier.
PublishRejected(p, s) ==
    /\ Incoming /\ ~disconnecting /\ NeedsOp(p) /\ s \notin recvOps
    /\ ~connected \/ ~p.valid
    /\ recvOps' = recvOps \cup {s}
    /\ SessionLost([recv EXCEPT ![s] = NewRecv])
    /\ effect' = Failed
    /\ UNCHANGED networkDisconnected

\* The same handler when the message is good: it is reported at once. Only
\* the operation of a QoS 2 message goes on.
PublishReported(p, s) ==
    /\ Incoming /\ ~disconnecting /\ NeedsOp(p) /\ s \notin recvOps
    /\ connected /\ p.valid
    /\ \/ /\ p.qos < 2
          /\ effect' = [Quiet EXCEPT !.report = {p.msg},
                                     !.sent = IF p.qos = 0 THEN <<>> ELSE Ack("PUBACK", p.id)]
          /\ UNCHANGED <<recvOps, recv>>
       \/ /\ p.qos = 2
          /\ effect' = [Quiet EXCEPT !.report = {p.msg}, !.sent = Ack("PUBREC", p.id)]
          /\ recvOps' = recvOps \cup {s}
          /\ recv' = [recv EXCEPT ![s] = [NewRecv EXCEPT !.id = p.id, !.timer = TRUE]]
    /\ UNCHANGED <<networkDisconnected, connected, disconnecting>>

\* The same handler for a QoS 2 message when the session ends in the middle: the
\* application disconnects, or reports that the network is down, in the callback
\* for the message or in the one that writes the PUBREC. The timer is started
\* after that, so that it alone is not suspended. When the network is down this
\* is followed at once by NotifyNetworkDisconnected, which changes nothing else.
PublishCutOff(p, s) ==
    /\ Incoming /\ ~disconnecting /\ NeedsOp(p) /\ s \notin recvOps
    /\ connected /\ p.valid /\ p.qos = 2
    /\ connected' = FALSE /\ disconnecting' = TRUE
    /\ effect' = [Quiet EXCEPT !.report = {p.msg}, !.sent = Ack("PUBREC", p.id)]
    /\ recvOps' = recvOps \cup {s}
    /\ recv' = [Suspended(recv) EXCEPT ![s] = [NewRecv EXCEPT !.id = p.id, !.timer = TRUE]]
    /\ UNCHANGED networkDisconnected

\* ClientImpl::handle(PublishMsg) of a QoS 2 message whose packet identifier
\* is in use, without and with the DUP flag. RecvOp::resetTimer stops the
\* timer; nothing starts it again.
PublishInUse(p, s) ==
    /\ Incoming /\ ~disconnecting /\ ~NeedsOp(p) /\ s \in InProgress(p.id)
    /\ \/ /\ ~p.dup
          /\ SessionLost(recv)
          /\ effect' = Failed
       \/ /\ p.dup
          /\ recv' = [recv EXCEPT ![s].timer = FALSE]
          /\ effect' = [Quiet EXCEPT !.sent = Ack("PUBREC", p.id)]
          /\ UNCHANGED <<connected, disconnecting>>
    /\ UNCHANGED <<networkDisconnected, recvOps>>

RecvPublish(p) ==
    \/ PublishIgnored(p)
    \/ \E s \in RecvSlots : \/ PublishRejected(p, s) \/ PublishReported(p, s)
                            \/ PublishCutOff(p, s) \/ PublishInUse(p, s)

\* ClientImpl::handle(PubrelMsg) and RecvOp::handle(PubrelMsg); valid: the
\* flags are right. A PUBREL for an unknown packet identifier is dropped.
RecvPubrel(id, valid) ==
    /\ Incoming
    /\ \/ /\ InProgress(id) = {}
          /\ effect' = Quiet
          /\ UNCHANGED <<connected, disconnecting, recvOps, recv>>
       \/ /\ valid
          /\ \E s \in InProgress(id) : Complete({s})
          /\ effect' = [Quiet EXCEPT !.sent = Ack("PUBCOMP", id)]
          /\ UNCHANGED <<connected, disconnecting>>
       \/ /\ ~valid
          /\ \E s \in InProgress(id) : SessionLost([recv EXCEPT ![s].timer = FALSE])
          /\ effect' = Failed
          /\ UNCHANGED recvOps
    /\ UNCHANGED networkDisconnected

\* The timers that TimerMgr::tick may find expired.
Running == {s \in recvOps : recv[s].timer /\ ~recv[s].suspended}

\* RecvOp::responseTimeoutInternal for the expired timers of a tick: the
\* receptions are given up.
Tick(F) ==
    /\ F # {}
    /\ Complete(F)
    /\ effect' = Quiet
    /\ UNCHANGED <<networkDisconnected, connected, disconnecting>>

-----------------------------------------------------------------------------

\* ClientImpl::connectPrepare.
ConnectPrepare ==
    /\ networkDisconnected' = FALSE
    /\ disconnecting' = FALSE
    /\ effect' = Quiet
    /\ UNCHANGED <<connected, recvOps, recv>>

\* Mutant of PostReconnectionResume: the timer is not started.
ResumeUntimed(r) == [r EXCEPT !.suspended = r.suspended /\ ~r.timer]

\* RecvOp::postReconnectionResume: only an active timer can be resumed, and
\* any timer is started.
PostReconnectionResume(r) == [r EXCEPT !.suspended = r.suspended /\ ~r.timer, !.timer = TRUE]

\* Mutant of BrokerConnected: the operations of an old session are kept.
BrokerConnectedKeep(sessionPresent) ==
    /\ Incoming /\ ~connected /\ ~disconnecting
    /\ connected' = TRUE
    /\ recv' = [s \in RecvSlots |->
                  IF s \in recvOps THEN PostReconnectionResume(recv[s]) ELSE recv[s]]
    /\ effect' = Quiet
    /\ UNCHANGED <<networkDisconnected, disconnecting, recvOps>>

\* ClientImpl::brokerConnected, on a CONNACK that accepts the connect operation.
\* Without the old session its operations are terminated (Op::terminateOpImpl).
BrokerConnected(sessionPresent) ==
    /\ Incoming /\ ~connected /\ ~disconnecting
    /\ connected' = TRUE
    /\ \/ /\ sessionPresent
          /\ recv' = [s \in RecvSlots |->
                        IF s \in recvOps THEN PostReconnectionResume(recv[s]) ELSE recv[s]]
          /\ UNCHANGED recvOps
       \/ ~sessionPresent /\ Complete(recvOps)
    /\ effect' = Quiet
    /\ UNCHANGED <<networkDisconnected, disconnecting>>

\* The session ends for any other reason: an unanswered PINGREQ, data that
\* cannot be parsed, a DISCONNECT.
LoseSession ==
    /\ Incoming
    /\ SessionLost(recv)
    /\ effect' = Quiet
    /\ UNCHANGED <<networkDisconnected, recvOps>>

\* ClientImpl::notifyNetworkDisconnected.
NotifyNetworkDisconnected ==
    /\ networkDisconnected' = TRUE
    /\ \/ ~disconnecting /\ SessionLost(recv)
       \/ disconnecting /\ UNCHANGED <<connected, disconnecting, recv>>
    /\ effect' = Quiet
    /\ UNCHANGED recvOps

-----------------------------------------------------------------------------
(***************************************************************************)
(* The client on its own: any message may arrive at any time.              *)
(***************************************************************************)

Next ==
    \/ \E p \in Publishes(PacketIds) : RecvPublish(p)
    \/ \E id \in PacketIds, valid \in BOOLEAN : RecvPubrel(id, valid)
    \/ \E F \in SUBSET Running : Tick(F)
    \/ ConnectPrepare
    \/ \E sessionPresent \in BOOLEAN : BrokerConnected(sessionPresent)
    \/ LoseSession
    \/ NotifyNetworkDisconnected

Spec == Init /\ [][Next]_recvVars

\* A running timer expires: doApiExit asks the application for the tick.
Fairness ==
    \A s \in RecvSlots : WF_recvVars(\E F \in SUBSET Running : s \in F /\ Tick(F))

FairSpec == Spec /\ Fairness

-----------------------------------------------------------------------------

TypeOK ==
    /\ networkDisconnected \in BOOLEAN /\ connected \in BOOLEAN /\ disconnecting \in BOOLEAN
    /\ recvOps \subseteq RecvSlots
    /\ recv \in [RecvSlots -> RecvState]
    /\ effect.report \subseteq Messages /\ effect.failed \in BOOLEAN

\* No two receptions in progress share a packet identifier: the search of
\* handle(PublishMsg) and handle(PubrelMsg) in m_recvOps finds the one that
\* is meant, whatever the broker sends, over losses of the session as well.
UniqueReception ==
    \A r, s \in recvOps : r # s /\ recv[r].id # 0 => recv[r].id # recv[s].id

\* An operation whose PUBLISH was rejected stays in m_recvOps and has no timer.
\* It does not stay for ever once the client is connected again, so that
\* rejected messages cannot use up the pool of operations. This needs a broker
\* that does not use packet identifier 0: a repetition with that identifier is
\* taken for one of the rejected message, whose timer it stops.
RejectedEnds ==
    0 \notin PacketIds =>
        \A s \in RecvSlots :
            s \in recvOps /\ recv[s].id = 0 /\ connected ~> s \notin recvOps \/ ~connected
=============================================================================
