----------------------------- MODULE AppProgram -----------------------------
(***************************************************************************)
(* The publisher and subscriber programs: main, AppClient, Pub, Sub, the   *)
(* network session (TcpSession, TlsSession), and the framing of incoming   *)
(* data (ClientImpl::processData).                                         *)
(*                                                                         *)
(* The bytes of the broker arrive in chunks of any size up to MaxRead. A   *)
(* byte is its position in the stream; what it means follows from the      *)
(* frame it belongs to. Of the library there is what the program sees: its *)
(* one operation with a callback, and the flags of the session. A handler  *)
(* of the event loop is one step; within it the program is called back and *)
(* io_context::stop only takes effect at its end. Writes are synchronous   *)
(* and, in one handler, all succeed or all fail. A publish of QoS 2 is to  *)
(* the program what one of QoS 1 is.                                       *)
(***************************************************************************)
EXTENDS Integers, Sequences

CONSTANTS
    Programs,       \* "pub0", "pub1" (publisher, by QoS) and "sub"
    Streams,        \* what the broker sends: sequences of frames
    Size,           \* the length of every frame, two or more bytes
    MaxRead,        \* m_inData.size()
    Attempts        \* sends of a PUBLISH before it is given up

ASSUME ProgramAssumption ==
    /\ Programs \subseteq {"pub0", "pub1", "sub"}
    /\ \A s \in Streams : s \in Seq(DOMAIN Size)
    /\ \A f \in DOMAIN Size : Size[f] \in Nat \ {0, 1}
    /\ MaxRead \in Nat \ {0} /\ Attempts \in Nat \ {0}

VARIABLES
    program,        \* which program runs
    stream,         \* the frames of the broker
    phase,          \* "new", "running", "ended" or "crashed"
    received,       \* bytes read from the socket
    buf,            \* TcpSession::m_buf
    dispatched,     \* frames given to the client, in order
    st              \* the program, the library and the session

vars == <<program, stream, phase, received, buf, dispatched, st>>

NoResult == -1

\* op: the operation of the library whose callback is the program's; valid: the
\* library accepts the topics of the command line.
Start0 == [op |-> "none", connected |-> FALSE, disconnecting |-> FALSE, netDown |-> FALSE,
           subscribed |-> FALSE, reported |-> FALSE, attempts |-> 0,
           valid |-> TRUE, stopped |-> FALSE, result |-> 0, acked |-> FALSE, help |-> FALSE, damaged |-> FALSE]

Init ==
    /\ program \in Programs /\ stream \in Streams /\ phase = "new"
    /\ received = 0 /\ buf = <<>> /\ dispatched = <<>>
    /\ \E valid \in BOOLEAN : st = [Start0 EXCEPT !.valid = valid]

-----------------------------------------------------------------------------
\* Ends and callbacks.

DoTerminate(s, result) == [s EXCEPT !.result = result, !.stopped = TRUE]

\* The callback of the operation with a status other than Complete: all three
\* programs terminate.
Failed(s) == DoTerminate([s EXCEPT !.op = "none"], 1)

\* brokerDisconnected; brokerDisconnectedImpl terminates when there is a reason.
BrokerDisconnected(s, reason) ==
    LET down == [s EXCEPT !.connected = FALSE, !.disconnecting = TRUE]
        ended == IF s.op \in {"connect", "subscribe"} THEN Failed(down) ELSE down
    IN  IF reason THEN DoTerminate(ended, 1) ELSE ended

\* notifyNetworkDisconnected.
NotifyNetworkDisconnected(s) ==
    LET down == [s EXCEPT !.netDown = TRUE] IN
    IF s.disconnecting THEN down ELSE BrokerDisconnected(down, FALSE)

\* Session::reportNetworkDisconnected, and the callback that createSession set.
NetworkLost(s) ==
    IF s.reported THEN s
    ELSE DoTerminate(NotifyNetworkDisconnected([s EXCEPT !.reported = TRUE]), 1)

\* sendDataImpl.
Write(s, ok) == IF ok THEN s ELSE NetworkLost(s)

\* The send of an operation that the loss of the network destroys: what follows
\* the write uses the operation.
WriteOwn(s, ok) ==
    LET after == Write(s, ok) IN
    IF after.op # s.op THEN [after EXCEPT !.damaged = TRUE] ELSE after

-----------------------------------------------------------------------------
\* The programs.

\* Pub::publishCompleteInternal.
PublishComplete(s) == DoTerminate([s EXCEPT !.op = "none"], 0)

\* Pub::brokerConnectedImpl. QoS 0 completes as soon as it is written.
PublishNow(s, ok) ==
    LET written == Write([s EXCEPT !.op = "publish", !.attempts = 1], ok) IN
    CASE ~s.valid -> DoTerminate(s, 1)
      [] s.valid /\ program = "pub0" -> PublishComplete(written)
      [] s.valid /\ program # "pub0" -> written

\* Sub::brokerConnectedImpl.
SubscribeNow(s, ok) ==
    IF s.valid THEN WriteOwn([s EXCEPT !.op = "subscribe"], ok) ELSE DoTerminate(s, 1)

\* Mutant of ConnectComplete: a refusal is taken for a connection that may still come.
ConnectCompleteWaiting(s, accepted, ok) ==
    LET done == [s EXCEPT !.op = "none", !.connected = accepted] IN
    CASE ~accepted -> done
      [] accepted /\ program = "sub" -> SubscribeNow(done, ok)
      [] accepted /\ program # "sub" -> PublishNow(done, ok)

\* ConnectOp::handle and AppClient::connectCompleteImpl.
ConnectComplete(s, accepted, ok) ==
    LET done == [s EXCEPT !.op = "none", !.connected = accepted] IN
    CASE ~accepted -> DoTerminate(done, 1)
      [] accepted /\ program = "sub" -> SubscribeNow(done, ok)
      [] accepted /\ program # "sub" -> PublishNow(done, ok)

\* Mutant of AckReceived: any PUBACK completes the program.
AckReceivedAny(s) == PublishComplete([s EXCEPT !.acked = s.op = "publish"])

\* processPublishAckMsg, also while disconnecting.
AckReceived(s) == IF s.op = "publish" THEN PublishComplete([s EXCEPT !.acked = TRUE]) ELSE s

\* A PUBLISH of QoS 1: a protocol error without connection or subscription.
MessageReceived(s, ok) ==
    IF s.connected /\ s.subscribed THEN Write(s, ok) ELSE BrokerDisconnected(s, TRUE)

\* One frame. Of a broken one only that it is; other frames that no operation
\* waits for are ignored.
Dispatch(s, frame, ok) ==
    CASE frame = "BAD" -> BrokerDisconnected(s, TRUE)
      [] frame = "PUBACK" -> AckReceived(s)
      [] frame \in {"CONNACK", "REFUSED"} /\ s.op = "connect" /\ ~s.disconnecting ->
            ConnectComplete(s, frame = "CONNACK", ok)
      [] frame = "SUBACK" /\ s.op = "subscribe" /\ ~s.disconnecting ->
            [s EXCEPT !.op = "none", !.subscribed = TRUE]
      [] frame = "PUBLISH" /\ ~s.disconnecting -> MessageReceived(s, ok)
      [] OTHER -> s

-----------------------------------------------------------------------------
\* Framing.

\* The last position of the first i frames.
EndOf[i \in 0..Len(stream)] == IF i = 0 THEN 0 ELSE EndOf[i - 1] + Size[stream[i]]

\* The frame that begins at position p, none if p is within a frame.
FrameAt(p) == {i \in DOMAIN stream : EndOf[i - 1] + 1 = p}

\* The frame is there up to its last byte.
Complete(bytes, used, i) == Len(bytes) - used >= Size[stream[i]]

\* One turn of the loop of processData: used bytes are consumed, the frames
\* given were read, s is the client. The loop ends, and further turns change
\* nothing, when the size or the rest of a frame is missing, or when a frame is
\* broken, which discards everything.
LoopTurn(l, bytes, ok) ==
    LET at == FrameAt(bytes[l.used + 1])
        i == CHOOSE k \in at : TRUE
        more == Len(bytes) - l.used > 1
        broken == at = {} \/ stream[i] = "BAD"
    IN  CASE ~more -> l
          [] more /\ broken ->
                [used |-> Len(bytes), given |-> Append(l.given, IF at = {} THEN 0 ELSE i),
                 s |-> Dispatch(l.s, "BAD", ok)]
          [] more /\ ~broken /\ ~Complete(bytes, l.used, i) -> l
          [] more /\ ~broken /\ Complete(bytes, l.used, i) ->
                [used |-> l.used + Size[stream[i]], given |-> Append(l.given, i),
                 s |-> Dispatch(l.s, stream[i], ok)]

\* processData, which takes nothing when the network is lost. Every turn but the
\* last takes a byte or more.
ProcessData(bytes, ok) ==
    LET turn[k \in 0..Len(bytes)] ==
            IF k = 0 THEN [used |-> 0, given |-> dispatched, s |-> st]
            ELSE LoopTurn(turn[k - 1], bytes, ok)
    IN  IF st.netDown THEN turn[0] ELSE turn[Len(bytes)]

\* Mutant of Rest: what is left of a chunk replaces the buffer.
RestOfChunk(bytes, chunk, consumed) ==
    IF consumed >= Len(bytes) THEN <<>>
    ELSE SubSeq(chunk, (IF consumed > Len(chunk) THEN Len(chunk) ELSE consumed) + 1, Len(chunk))

\* What doRead keeps for the next chunk.
Rest(bytes, chunk, consumed) == SubSeq(bytes, consumed + 1, Len(bytes))

\* doRead: the chunk goes behind what is buffered, and processData gets both.
ReadSome(n, ok) ==
    /\ received + n <= EndOf[Len(stream)]
    /\ LET chunk == [k \in 1..n |-> received + k]
           bytes == buf \o chunk
           done == ProcessData(bytes, ok)
       IN  /\ buf' = Rest(bytes, chunk, done.used)
           /\ dispatched' = done.given /\ st' = done.s
    /\ received' = received + n

-----------------------------------------------------------------------------
\* The event loop.

Handler == phase = "running" /\ ~st.stopped /\ ~st.damaged

OnlyProgram == UNCHANGED <<program, stream, phase, received, buf, dispatched>>

Read == \E n \in 1..MaxRead, ok \in BOOLEAN :
    Handler /\ ReadSome(n, ok) /\ UNCHANGED <<program, stream, phase>>

ReadFails == Handler /\ st' = NetworkLost(st) /\ OnlyProgram

Exhausted(s) == s.attempts >= Attempts

\* The response timer of the operation: connect and subscribe give up, publish
\* sends again.
ResponseTimeout ==
    /\ Handler /\ st.op # "none" /\ OnlyProgram
    /\ \/ /\ st.op \in {"connect", "subscribe"} \/ Exhausted(st)
          /\ st' = Failed(st)
       \/ /\ st.op = "publish" /\ ~Exhausted(st)
          /\ \E ok \in BOOLEAN : st' = Write([st EXCEPT !.attempts = @ + 1], ok)

\* The keep-alive: a PINGREQ is written, or was not answered. Its loss of the
\* network destroys the operation that is writing.
Ping ==
    /\ Handler /\ st.connected /\ OnlyProgram
    /\ \/ st' = [NetworkLost(st) EXCEPT !.damaged = TRUE]
       \/ st' = BrokerDisconnected(st, TRUE)

Signal == Handler /\ st' = DoTerminate(st, 100) /\ OnlyProgram

SendConnect(s, ok) == WriteOwn([s EXCEPT !.op = "connect"], ok)

\* AppClient::start: a step before the CONNECT fails (arguments, session or
\* configuration), the help, or the CONNECT.
Start ==
    /\ phase = "new"
    /\ \/ phase' = "ended" /\ st' = [st EXCEPT !.result = NoResult]
       \/ phase' = "running" /\ st' = [st EXCEPT !.stopped = TRUE, !.help = TRUE]
       \/ phase' = "running" /\ \E ok \in BOOLEAN : st' = SendConnect(st, ok)
    /\ UNCHANGED <<program, stream, received, buf, dispatched>>

\* ~AppClient: the destructor of the client aborts its operations, whose
\* callbacks still set the result.
Freed(s) == IF s.op # "none" THEN Failed(s) ELSE s

\* run returns, main leaves the block of the program and returns the result.
End ==
    /\ phase = "running" /\ st.stopped /\ ~st.damaged
    /\ phase' = "ended" /\ st' = Freed(st)
    /\ UNCHANGED <<program, stream, received, buf, dispatched>>

\* Undefined behaviour after the use of a destroyed operation: the program dies,
\* or goes on as if nothing had happened.
Damaged ==
    /\ st.damaged /\ phase = "running"
    /\ \/ phase' = "crashed" /\ UNCHANGED st
       \/ phase' = phase /\ st' = [st EXCEPT !.damaged = FALSE]
    /\ UNCHANGED <<program, stream, received, buf, dispatched>>

Next == Start \/ Read \/ ReadFails \/ ResponseTimeout \/ Ping \/ Signal \/ End \/ Damaged

\* The event loop runs the handlers that are due; nothing is assumed of the
\* broker, the keep-alive and the user.
Spec == Init /\ [][Next]_vars /\ WF_vars(Start) /\ WF_vars(End) /\ WF_vars(Damaged)
             /\ WF_vars(ResponseTimeout)

-----------------------------------------------------------------------------
\* Properties.

\* However the stream is cut into chunks, the client has been given exactly the
\* frames whose last byte has arrived, each once and in order, and the buffer
\* holds the rest; until a broken frame, after which it gets no other.
FramesInOrder ==
    LET good == {i \in 0..Len(stream) : \A k \in 1..i : stream[k] # "BAD"}
        arrived == {i \in good : EndOf[i] <= received}
        last == CHOOSE i \in arrived : \A k \in arrived : k <= i
        upTo(i) == [k \in 1..i |-> k]
    IN  \/ /\ dispatched = upTo(last)
           /\ buf = [k \in 1..(received - EndOf[last]) |-> EndOf[last] + k]
        \/ /\ last + 1 \in DOMAIN stream /\ stream[last + 1] = "BAD"
           /\ dispatched = upTo(last + 1) /\ buf = <<>>

\* The result starts as 0 and is overwritten on every way out, also by callbacks
\* after the loop has stopped. A publisher of QoS 1 returns 0 only if its message
\* was acknowledged, or if it was asked for the help.
SuccessIsAcked ==
    program = "pub1" /\ phase = "ended" /\ st.result = 0 => st.acked \/ st.help

\* A publisher ends, whatever finite stream the broker sends and wherever it falls
\* silent (AppClient::connectCompleteImpl and the other callbacks stop the event
\* loop). Data without end, in which no millisecond passes between two reads, is
\* not covered: the elapsed time is then truncated to zero and no timer advances.
PublisherEnds == program # "sub" => <>(phase \in {"ended", "crashed"})

=============================================================================
