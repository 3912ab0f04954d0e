-------------------------- MODULE ReceiveExchange --------------------------
(***************************************************************************)
(* The receive side of the client (RecvOps) together with a broker that    *)
(* follows MQTT 3.1.1, over a connection that delivers in order and may    *)
(* break at any time. The broker is not part of the repository; it is what *)
(* the client is written for: it repeats what is not acknowledged with the *)
(* DUP flag, on a reconnection and whenever it likes in between, and uses  *)
(* a packet identifier again when the exchange is over.                    *)
(***************************************************************************)
EXTENDS RecvOps

CONSTANTS
    ExactlyOnce,    \* the messages of QoS 2; the others have QoS 1
    ChannelLimit,   \* bound: the broker sends while fewer messages are under way
    MaySwitch       \* whether the application changes the clean session flag

ASSUME ExchangeAssumption ==
    /\ ExactlyOnce \subseteq Messages /\ ChannelLimit \in Nat /\ MaySwitch \in BOOLEAN
    /\ 0 \notin PacketIds

VARIABLES
    exchange,       \* what the broker knows of every message
    persistent,     \* the broker keeps the session when the connection breaks
    cleanSession,   \* the clean session flag of the last CONNECT, or of the first
    accepted,       \* the broker has answered the CONNECT of this connection
    toClient,       \* the messages under way to the client
    toBroker,       \* the acknowledgements under way to the broker
    reported,       \* how often a message was reported: 0, 1, or more (2)
    discarded       \* the messages whose reception was given up by a timeout

brokerVars == <<exchange, persistent, cleanSession, accepted>>
vars == <<recvVars, brokerVars, toClient, toBroker, reported, discarded>>

\* The message of the exchange in progress with a packet identifier.
MessageOf(id) == {m \in Messages : exchange[m].stage \in {"publish", "release"}
                                   /\ exchange[m].id = id}

PublishMsg(m, id, dup) ==
    [type |-> "PUBLISH", qos |-> IF m \in ExactlyOnce THEN 2 ELSE 1, id |-> id, dup |-> dup,
     valid |-> TRUE, msg |-> m]
PubrelMsg(id) == [type |-> "PUBREL", id |-> id]
ConnackMsg(sessionPresent) == [type |-> "CONNACK", sessionPresent |-> sessionPresent]

\* What the broker sends again for a message that is not acknowledged.
Again(m) ==
    IF exchange[m].stage = "publish" THEN PublishMsg(m, exchange[m].id, TRUE)
    ELSE PubrelMsg(exchange[m].id)

Unacked == {m \in Messages : exchange[m].stage \in {"publish", "release"}}

ExchangeInit ==
    /\ Init
    /\ exchange = [m \in Messages |-> [stage |-> "new", id |-> 0]]
    /\ persistent = FALSE /\ cleanSession \in BOOLEAN /\ accepted = FALSE
    /\ toClient = <<>> /\ toBroker = <<>>
    /\ reported = [m \in Messages |-> 0] /\ discarded = {}

-----------------------------------------------------------------------------
(***************************************************************************)
(* The broker.                                                             *)
(***************************************************************************)

MaySend == accepted /\ Len(toClient) + Len(toBroker) < ChannelLimit

clientUnchanged == <<recvVars, reported, discarded>>

\* A broker that repeated a message of QoS 1 within a connection is owed one
\* PUBACK for each copy; it uses the packet identifier for another message only
\* when no copy and no PUBACK is left, as it could not tell the PUBACKs apart.
NoCopyLeft(id) ==
    /\ \A i \in DOMAIN toClient : toClient[i].type = "PUBLISH" => toClient[i].id # id
    /\ \A i \in DOMAIN toBroker : toBroker[i].type = "PUBACK" => toBroker[i].id # id

BrokerPublish(m, id) ==
    /\ MaySend
    /\ exchange[m].stage = "new" /\ MessageOf(id) = {} /\ NoCopyLeft(id)
    /\ exchange' = [exchange EXCEPT ![m] = [stage |-> "publish", id |-> id]]
    /\ toClient' = Append(toClient, PublishMsg(m, id, FALSE))
    /\ UNCHANGED <<clientUnchanged, persistent, cleanSession, accepted, toBroker>>

BrokerRepeat(m) ==
    /\ MaySend /\ m \in Unacked
    /\ toClient' = Append(toClient, Again(m))
    /\ UNCHANGED <<clientUnchanged, brokerVars, toBroker>>

\* An acknowledgement arrives: a PUBREC is answered by a PUBREL each time, one
\* that fits no exchange is dropped.
BrokerAck ==
    /\ toBroker # <<>>
    /\ toBroker' = Tail(toBroker)
    /\ LET ack == Head(toBroker)
           hit == {m \in MessageOf(ack.id) :
                      \/ ack.type = "PUBACK" /\ m \notin ExactlyOnce
                      \/ ack.type # "PUBACK" /\ m \in ExactlyOnce}
           next == IF ack.type = "PUBREC" THEN "release" ELSE "done"
       IN /\ exchange' = [m \in Messages |->
                            IF m \in hit THEN [exchange[m] EXCEPT !.stage = next] ELSE exchange[m]]
          /\ toClient' = IF hit # {} /\ next = "release"
                         THEN Append(toClient, PubrelMsg(ack.id)) ELSE toClient
    /\ UNCHANGED <<clientUnchanged, persistent, cleanSession, accepted>>

\* The broker answers a CONNECT, with or without the clean session flag, and
\* sends again what the session holds, in some order. Without the session the
\* exchanges in progress are over.
BrokerAccept(clean) ==
    /\ ~accepted /\ ~connected /\ ~networkDisconnected /\ ~disconnecting
    /\ MaySwitch \/ clean = cleanSession
    /\ accepted' = TRUE
    /\ cleanSession' = clean
    /\ persistent' = ~clean
    /\ IF persistent /\ ~clean
       THEN \E order \in [1..Cardinality(Unacked) -> Unacked] :
              /\ \A m \in Unacked : \E i \in DOMAIN order : order[i] = m
              /\ toClient' = <<ConnackMsg(TRUE)>> \o [i \in DOMAIN order |-> Again(order[i])]
              /\ UNCHANGED exchange
       ELSE /\ toClient' = <<ConnackMsg(FALSE)>>
            /\ exchange' = [m \in Messages |->
                 IF m \in Unacked THEN [stage |-> "dropped", id |-> 0] ELSE exchange[m]]
    /\ UNCHANGED <<clientUnchanged, toBroker>>

-----------------------------------------------------------------------------
(***************************************************************************)
(* The client, fed from the connection.                                    *)
(***************************************************************************)

\* What a step of the client sends and reports.
Observed ==
    /\ toBroker' = toBroker \o effect'.sent
    /\ reported' = [m \in Messages |->
                      IF m \in effect'.report /\ reported[m] < 2 THEN reported[m] + 1
                      ELSE reported[m]]

\* The client handles the next message of the connection.
ClientReceives ==
    /\ toClient # <<>>
    /\ toClient' = Tail(toClient)
    /\ LET msg == Head(toClient) IN
          \/ msg.type = "PUBLISH" /\ RecvPublish(msg)
          \/ msg.type = "PUBREL" /\ RecvPubrel(msg.id, TRUE)
          \/ msg.type = "CONNACK" /\ BrokerConnected(msg.sessionPresent)
          \/ /\ msg.type = "CONNACK" /\ disconnecting
             /\ effect' = Quiet
             /\ UNCHANGED <<networkDisconnected, connected, disconnecting, recvOps, recv>>
    /\ Observed
    /\ UNCHANGED <<brokerVars, discarded>>

\* Receptions are given up.
ClientTick(F) ==
    /\ Tick(F)
    /\ Observed
    /\ discarded' = discarded \cup UNION {MessageOf(recv[s].id) : s \in F}
    /\ UNCHANGED <<brokerVars, toClient>>

\* The client ends the session; what is under way may still arrive.
ClientLosesSession ==
    /\ connected
    /\ LoseSession
    /\ Observed
    /\ UNCHANGED <<brokerVars, toClient, discarded>>

\* The connection breaks and the application reports it.
ConnectionBreaks ==
    /\ NotifyNetworkDisconnected
    /\ toClient' = <<>> /\ toBroker' = <<>>
    /\ accepted' = FALSE
    /\ UNCHANGED <<exchange, persistent, cleanSession, reported, discarded>>

\* The application opens a new connection, having closed the old one.
Reconnect ==
    /\ ~connected
    /\ ConnectPrepare
    /\ toClient' = <<>> /\ toBroker' = <<>>
    /\ accepted' = FALSE
    /\ UNCHANGED <<exchange, persistent, cleanSession, reported, discarded>>

ExchangeNext ==
    \/ \E m \in Messages, id \in PacketIds : BrokerPublish(m, id)
    \/ \E m \in Messages : BrokerRepeat(m)
    \/ BrokerAck
    \/ \E clean \in BOOLEAN : BrokerAccept(clean)
    \/ ClientReceives
    \/ \E F \in SUBSET Running : ClientTick(F)
    \/ ClientLosesSession
    \/ ConnectionBreaks
    \/ Reconnect

ExchangeSpec == ExchangeInit /\ [][ExchangeNext]_vars

-----------------------------------------------------------------------------

\* QoS 2: a message is reported to the application once, over repetitions of
\* the broker, losses of the connection and resumed sessions. It is reported
\* again only if its reception was given up by a timeout in between.
DeliveredOnce == \A m \in ExactlyOnce : reported[m] = 2 => m \in discarded

\* QoS 1 and 2: no message is lost. The broker is told that an exchange is
\* complete only when the message was reported, whether or not operations were
\* short, receptions were given up or connections broke.
DeliveredBeforeDone == \A m \in Messages : exchange[m].stage = "done" => reported[m] > 0

\* The client never takes what a correct broker sends for a protocol error: no
\* reception of an old exchange or of an old session is left when its packet
\* identifier is used again.
NoProtocolError == ~effect.failed
=============================================================================
