-------------------------- MODULE PublishExchange --------------------------
(***************************************************************************)
(* The publish side of the client (SendOps) together with a broker that    *)
(* follows MQTT 3.1.1, over a connection that delivers in order and may    *)
(* break at any time. The broker is not part of the repository; it is what *)
(* the client is written for: it answers every PUBLISH and every PUBREL it *)
(* reads, takes a QoS 2 message when its packet identifier is not among    *)
(* the ones it holds, and keeps those over a broken connection as long as  *)
(* the session lasts.                                                      *)
(***************************************************************************)
EXTENDS SendOps

CONSTANT LateLimit      \* bound: acknowledgements of an old connection processed on a new one

VARIABLES
    link,           \* the connection: open (no CONNECT read), up, or closed
    cleanSession,   \* the clean session flag of every CONNECT
    persistent,     \* the broker keeps the session when the connection breaks
    held,           \* the identifiers of QoS 2 messages that are not released
    taken,          \* how often the broker took a message: 0, 1, or more (2)
    toBroker,       \* the messages under way to the broker
    toClient,       \* the messages under way to the client
    stray           \* the operations that were sent while not connected

brokerVars == <<cleanSession, persistent, held, taken>>
exchangeVars == <<vars, link, brokerVars, toBroker, toClient, stray>>

ConnectMsg == [type |-> "CONNECT", id |-> 0, qos |-> 0, dup |-> FALSE, op |-> 0]
ConnackMsg(answer) == [type |-> "CONNACK", id |-> 0, answer |-> answer]
AckMsg(type, id) == [type |-> type, id |-> id, answer |-> "none"]
IsAck(msg) == msg.type # "CONNACK"

ExchangeInit ==
    /\ Init
    /\ link = "closed"
    /\ cleanSession \in BOOLEAN
    /\ persistent = FALSE /\ held = {} /\ taken = [s \in Serial |-> 0]
    /\ toBroker = <<>> /\ toClient = <<>> /\ stray = {}

-----------------------------------------------------------------------------
(***************************************************************************)
(* The broker reads the next message.                                      *)
(***************************************************************************)

BrokerReads(type) ==
    /\ toBroker # <<>> /\ Head(toBroker).type = type
    /\ UNCHANGED <<vars, stray>>

\* A CONNECT is accepted, with the session the broker has or with a new one, or
\* refused.
BrokerConnect ==
    /\ link = "open" /\ BrokerReads("CONNECT")
    /\ toBroker' = Tail(toBroker)
    /\ \/ /\ link' = "up"
          /\ persistent' = ~cleanSession
          /\ held' = IF persistent THEN held ELSE {}
          /\ toClient' = Append(toClient, ConnackMsg(IF persistent THEN "resumed" ELSE "new"))
       \/ /\ link' = "closed"
          /\ toClient' = Append(toClient, ConnackMsg("refused"))
          /\ UNCHANGED <<persistent, held>>
    /\ UNCHANGED <<cleanSession, taken>>

\* A PUBLISH is taken, unless it repeats a QoS 2 message the broker holds, and
\* acknowledged.
BrokerPublish ==
    /\ link = "up" /\ BrokerReads("PUBLISH")
    /\ toBroker' = Tail(toBroker)
    /\ LET msg == Head(toBroker) IN
          /\ taken' = IF msg.qos = 2 /\ msg.id \in held THEN taken
                      ELSE [taken EXCEPT ![msg.op] = IF @ < 2 THEN @ + 1 ELSE @]
          /\ held' = IF msg.qos = 2 THEN held \cup {msg.id} ELSE held
          /\ toClient' = toClient \o
                (CASE msg.qos = 0 -> <<>>
                   [] msg.qos = 1 -> <<AckMsg("PUBACK", msg.id)>>
                   [] msg.qos = 2 -> <<AckMsg("PUBREC", msg.id)>>)
    /\ UNCHANGED <<link, cleanSession, persistent>>

BrokerPubrel ==
    /\ link = "up" /\ BrokerReads("PUBREL")
    /\ toBroker' = Tail(toBroker)
    /\ held' = held \ {Head(toBroker).id}
    /\ toClient' = Append(toClient, AckMsg("PUBCOMP", Head(toBroker).id))
    /\ UNCHANGED <<link, cleanSession, persistent, taken>>

\* The broker closes the connection after a DISCONNECT, and when the first
\* message is not a CONNECT.
BrokerCloses ==
    /\ \/ link = "up" /\ BrokerReads("DISCONNECT")
       \/ /\ link = "open"
          /\ \E type \in {"PUBLISH", "PUBREL", "DISCONNECT"} : BrokerReads(type)
    /\ link' = "closed"
    /\ toBroker' = <<>>
    /\ UNCHANGED <<brokerVars, toClient>>

-----------------------------------------------------------------------------
(***************************************************************************)
(* The client, fed from the connection.                                    *)
(***************************************************************************)

\* What a step of the client sends.
Sends(msgs) ==
    /\ toBroker' = IF link = "closed" THEN toBroker ELSE toBroker \o msgs
    /\ stray' = IF connected' THEN stray
                ELSE stray \cup {s \in Serial : \E i \in DOMAIN msgs : msgs[i].op = s}

\* The application, the timers and the loops of the client.
ClientActs ==
    /\ \/ PublishApi
       \/ Timers
       \/ \E s \in Serial : ForceDupResend(s) \/ TerminateOp(s)
       \/ ConnectEnds
       \/ Disconnect
    /\ Sends(out')
    /\ UNCHANGED <<link, brokerVars, toClient>>

ClientConnects ==
    /\ ConnectSend(cleanSession)
    /\ Sends(<<ConnectMsg>>)
    /\ UNCHANGED <<link, brokerVars, toClient>>

\* Mutant of WithPacketId: the acknowledgement goes to the oldest operation.
OldestOp(id) == {s \in sendOps : \A r \in sendOps : s <= r}

\* The operation an acknowledgement names (ClientImpl::handle).
WithPacketId(id) == {s \in sendOps : op[s].id = id}

\* The client handles an acknowledgement; one that names no operation is ignored.
ClientReadsAck ==
    LET msg == Head(toClient)
        hit == WithPacketId(msg.id)
    IN /\ ApiCall /\ ~networkDisconnected
       /\ IsAck(msg)
       /\ IF hit = {} THEN UNCHANGED vars
          ELSE \E s \in hit : \/ msg.type = "PUBREC" /\ AckPubrec(s)
                              \/ AckCompletes(s, msg.type)
                              \/ AckProtocolError(s, msg.type)
                              \/ AckOutOfOrder(s, msg.type)
       /\ Sends(IF hit = {} THEN <<>> ELSE out')

\* The client handles a CONNACK; one that no connect operation waits for is
\* ignored.
ClientReadsConnack ==
    LET answer == Head(toClient).answer
    IN /\ \/ answer = "resumed" /\ ConnackResumed
          \/ answer = "new" /\ ConnackClean
          \/ answer = "refused" /\ ConnackRefused
          \/ /\ ApiCall /\ answer # "none" /\ ~RecvConnack
             /\ UNCHANGED vars
       /\ Sends(IF RecvConnack THEN out' ELSE <<>>)

ClientReads ==
    /\ toClient # <<>>
    /\ ClientReadsAck \/ ClientReadsConnack
    /\ toClient' = Tail(toClient)
    /\ UNCHANGED <<link, brokerVars>>

\* What the application has read of the old connection and hands over late, after
\* the connect_prepare of the new one: nothing, or acknowledgements up to the bound.
LateData ==
    {late \in {SubSeq(toClient, 1, n) : n \in {k \in 0..LateLimit : k <= Len(toClient)}} :
        \A i \in DOMAIN late : IsAck(late[i])}

\* The connection breaks and the application reports it.
ConnectionBreaks ==
    /\ link # "closed" \/ Len(toClient) > LateLimit
    /\ NotifyNetworkDisconnected
    /\ link' = "closed" /\ toBroker' = <<>> /\ toClient' \in LateData
    /\ UNCHANGED <<brokerVars, stray>>

\* The application opens a new connection, having closed the old one.
Reconnect ==
    /\ ~connected /\ connectOp = "none"
    /\ ConnectPrepare
    /\ link' = "open" /\ toBroker' = <<>> /\ toClient' \in LateData
    /\ UNCHANGED <<brokerVars, stray>>

ExchangeNext ==
    \/ BrokerConnect
    \/ BrokerPublish
    \/ BrokerPubrel
    \/ BrokerCloses
    \/ ClientActs
    \/ ClientConnects
    \/ ClientReads
    \/ ConnectionBreaks
    \/ Reconnect

ExchangeSpec == ExchangeInit /\ [][ExchangeNext]_exchangeVars

-----------------------------------------------------------------------------

\* QoS 2: the broker takes a message at most once, over repetitions by timers
\* and by acknowledgements that cross, broken connections, refused CONNECTs and
\* resumed or lost sessions. Excepted is a PUBLISH that SendOp::send or a resume
\* sends after the session was lost: its timer runs, unsuspended, into the next
\* connection and repeats the message before the client knows whether the
\* session is still there.
TakenOnce ==
    [][\A s \in Serial \ stray :
          taken[s] > 0 /\ taken'[s] # taken[s] => Head(toBroker).qos = 1]_exchangeVars

\* QoS 1 and 2: a publish is reported as complete (handle(PubackMsg),
\* handle(PubcompMsg)) only when the broker has taken its message, whatever
\* other operations were cancelled, given up or aborted before their
\* acknowledgements arrived.
CompleteWasTaken ==
    [][\A s \in Serial :
          op[s].qos > 0 /\ result'[s] = "Complete" /\ result[s] # "Complete"
             => taken[s] > 0]_exchangeVars

\* Messages of the same QoS, and under full ordering all messages, are taken in
\* the order they were published in, also over reconnections: what is taken for
\* the first time overtakes no operation in progress (with the exception above).
TakenInOrder ==
    [][\A r, s \in Serial \ stray :
          ( /\ taken[s] = 0 /\ taken'[s] > 0 /\ r \in sendOps /\ r < s
            /\ publishOrdering = "Full" \/ op[r].qos = Head(toBroker).qos )
             => taken[r] > 0]_exchangeVars
=============================================================================
