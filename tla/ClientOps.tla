----------------------------- MODULE ClientOps -----------------------------
(***************************************************************************)
(* The operation table of the client (ClientImpl::m_ops) with the connect, *)
(* disconnect, subscribe, unsubscribe and keep-alive operations, the guard *)
(* of API calls, the preparation lock, and the way a session ends.         *)
(*                                                                         *)
(* The library runs in the thread of the application and calls it back in  *)
(* the middle of its loops, where the application may call the library     *)
(* again. stack is therefore what is left to do of the calls in progress,  *)
(* the next frame first: a loop of the code is a frame with an index, a    *)
(* callback is the frame "app", during which the application makes calls   *)
(* before it returns. An operation is destroyed by opComplete; a frame     *)
(* that still uses it afterwards is undefined behaviour, which ends the    *)
(* behaviour with fate = "undefined".                                      *)
(*                                                                         *)
(* Publish and receive operations, which outlive a session, are modelled   *)
(* in SendOps and RecvOps, elapsed time in ClientTime: here any timers     *)
(* that run may expire in a tick.                                          *)
(***************************************************************************)
EXTENDS TimerMgr

CONSTANTS
    MaxOps,     \* bound: operations the application prepares
    Prompt,     \* the application sends or cancels an operation before it does anything else
    WritesFail  \* the application reports the network as lost from its output callback

ASSUME ClientOpsAssumption == MaxOps \in Nat \ {0} /\ Prompt \in BOOLEAN /\ WritesFail \in BOOLEAN

VARIABLES
    ops,        \* m_ops, 0 for a null pointer
    op,         \* the operation objects: type, and whether they are prepared, sent or new
    client,     \* ClientState, SessionState and the other members of ClientImpl
    depth,      \* m_apiEnterCount
    timers,     \* m_timerMgr
    stack,      \* the rest of the calls in progress
    wire,       \* requests the broker has not answered on this connection
    outcome,    \* what the application was told of every operation
    fate        \* "running", "freed", or "undefined"

vars == <<ops, op, client, depth, timers, stack, wire, outcome, fate>>

Requests == {"connect", "subscribe", "unsubscribe"}
KeepAlive == MaxOps + 1
Handles == 1..MaxOps
Operations == 1..KeepAlive
Live == {ops[i] : i \in DOMAIN ops} \ {0}
OfType(type) == {s \in Live : op[s].type = type}
Prepared == {s \in Live : op[s].stage = "prepared"}
Idle == stack = <<>>

Untold == [returned |-> "none", calls |-> 0, cancelled |-> FALSE]
NewOp == [type |-> "none", stage |-> "new"]

Init ==
    /\ ops = <<>> /\ timers = <<>> /\ depth = 0 /\ stack = <<>> /\ wire = {} /\ fate = "running"
    /\ op = [s \in Operations |-> IF s = KeepAlive THEN [type |-> "keepalive", stage |-> "sent"] ELSE NewOp]
    /\ outcome = [s \in Handles |-> Untold]
    /\ client = [connected |-> FALSE, disconnecting |-> FALSE, initialized |-> FALSE,
                 networkDisconnected |-> FALSE, opsDeleted |-> FALSE, locked |-> FALSE]

-----------------------------------------------------------------------------
\* Frames: what to do, the operation and the argument, the index of a loop and its end.

NoArg == "none"
Frame(do, s, arg) == [do |-> do, op |-> s, arg |-> arg, idx |-> 0, end |-> 0]
Loop(do, s, arg, idx, end) == [do |-> do, op |-> s, arg |-> arg, idx |-> idx, end |-> end]

At(do) == fate = "running" /\ stack # <<>> /\ Head(stack).do = do
Top == Head(stack)
Then(frames) == stack' = frames \o Tail(stack)
Call(frames) == stack' = frames \o stack

Undefined == fate' = "undefined" /\ UNCHANGED <<ops, op, client, depth, timers, stack, wire, outcome>>

\* ClientImpl::opComplete: the entry becomes null, the object and its timers go.
Destroy(s) ==
    /\ ops' = [i \in DOMAIN ops |-> IF ops[i] = s THEN 0 ELSE ops[i]]
    /\ timers' = FreeTimers(timers, s)

\* ClientImpl::cleanOps: the entries that are not null, in their order.
CleanedOps ==
    LET kept == {i \in DOMAIN ops : ops[i] # 0} IN
    [n \in 1..Cardinality(kept) |-> ops[InSlotOrder(kept)[n]]]

\* ClientImpl::brokerDisconnected as frames; an empty reason is not reported.
SessionLost(reason, status) ==
    <<Frame("lost", 0, status), Frame("connectivity", 0, NoArg), Frame("report", 0, reason)>>

\* The body of notifyNetworkDisconnected between its guard.
NetworkLost == <<Frame("enter", 0, NoArg), Frame("netdown", 0, NoArg), Frame("exit", 0, NoArg)>>

-----------------------------------------------------------------------------
\* The guard of API calls.

\* The callbacks of the slots E, collected by a tick.
Collected(E) ==
    [n \in 1..Cardinality(E) |->
        LET slot == timers[InSlotOrder(E)[n]] IN Frame("expired", slot.holder, slot.name)]

StopAll(E) == [i \in Slots(timers) |-> IF i \in E THEN Stopped(timers[i]) ELSE timers[i]]

\* doApiEnter: the outermost call ticks by the time that has elapsed.
Enter ==
    /\ At("enter")
    /\ depth' = depth + 1
    /\ \E E \in SUBSET Running(timers) :
          /\ depth > 0 => E = {}
          /\ timers' = StopAll(E) /\ Then(Collected(E))
    /\ UNCHANGED <<ops, op, client, wire, outcome, fate>>

\* Mutant of Exit: the counter is taken back once more than it was raised.
ExitTwice ==
    /\ At("exit")
    /\ depth' = depth - 2 /\ Then(<<>>) /\ ops' = CleanedOps
    /\ UNCHANGED <<op, client, timers, wire, outcome, fate>>

\* doApiExit.
Exit ==
    /\ At("exit")
    /\ depth' = depth - 1 /\ Then(<<>>)
    /\ IF depth = 1 /\ client.opsDeleted
       THEN ops' = CleanedOps /\ client' = [client EXCEPT !.opsDeleted = FALSE]
       ELSE UNCHANGED <<ops, client>>
    /\ UNCHANGED <<op, timers, wire, outcome, fate>>

-----------------------------------------------------------------------------
\* Completion.

\* completeOpInternal: the operation is destroyed first, then its callback is
\* called if it has one. The destructor of a prepared operation leaves the
\* preparation lock alone.
CompleteOpInternal ==
    /\ At("complete")
    /\ IF Top.op \notin Live THEN Undefined ELSE
          /\ Destroy(Top.op)
          /\ client' = [client EXCEPT !.opsDeleted = TRUE]
          /\ Then(IF op[Top.op].stage = "sent" /\ op[Top.op].type \in Requests
                  THEN <<Frame("callback", Top.op, Top.arg)>> ELSE <<>>)
          /\ UNCHANGED <<op, depth, wire, outcome, fate>>

\* The completion callback of the application.
Callback ==
    /\ At("callback")
    /\ outcome' = [outcome EXCEPT ![Top.op].calls = @ + 1]
    /\ Then(<<Frame("app", 0, NoArg)>>)
    /\ UNCHANGED <<ops, op, client, depth, timers, wire, fate>>

\* A timer callback. An operation that a callback before it in the same tick
\* destroyed is gone.
Expired ==
    /\ At("expired")
    /\ IF Top.op \notin Live THEN Undefined ELSE
          /\ CASE Top.arg = "response" -> Then(<<Frame("complete", Top.op, "Timeout")>>)
               [] Top.arg = "resp" -> Then(SessionLost("NoBrokerResponse", "BrokerDisconnected"))
               [] Top.arg \in {"ping", "recv"} /\ TimerIsActive(timers, KeepAlive, "resp") -> Then(<<>>)
               [] OTHER -> Then(<<Frame("output", 0, NoArg), Frame("wait", KeepAlive, "resp")>>)
          /\ UNCHANGED <<ops, op, client, depth, timers, wire, outcome, fate>>

\* Timer::wait by a member function of an operation.
Wait ==
    /\ At("wait")
    /\ IF Top.op \notin Live THEN Undefined ELSE
          /\ timers' = TimerWait(timers, Top.op, Top.arg, 0)
          /\ outcome' = IF Top.op = KeepAlive THEN outcome
                        ELSE [outcome EXCEPT ![Top.op].returned = "Success"]
          /\ Then(<<>>)
          /\ UNCHANGED <<ops, op, client, depth, wire, fate>>

-----------------------------------------------------------------------------
\* The end of a session.

Lost ==
    /\ At("lost")
    /\ client' = [client EXCEPT !.initialized = FALSE, !.connected = FALSE, !.disconnecting = TRUE]
    /\ Then(<<Loop("terminate", 0, Top.arg, 1, Len(ops))>>)
    /\ UNCHANGED <<ops, op, depth, timers, wire, outcome, fate>>

\* Mutant of TerminateOps: the loop stops at a null pointer.
TerminateOpsUntilNull ==
    /\ At("terminate")
    /\ Then(IF Top.idx > Top.end \/ ops[Top.idx] = 0 THEN <<>>
            ELSE <<Frame("complete", ops[Top.idx], Top.arg), [Top EXCEPT !.idx = @ + 1]>>)
    /\ UNCHANGED <<ops, op, client, depth, timers, wire, outcome, fate>>

\* One iteration of the loop of terminateOps.
TerminateOps ==
    /\ At("terminate")
    /\ Then(IF Top.idx > Top.end THEN <<>>
            ELSE (IF ops[Top.idx] = 0 THEN <<>> ELSE <<Frame("complete", ops[Top.idx], Top.arg)>>)
                 \o <<[Top EXCEPT !.idx = @ + 1]>>)
    /\ UNCHANGED <<ops, op, client, depth, timers, wire, outcome, fate>>

\* connectivityChanged of all operations: a connect operation completes when
\* the network is gone, the others of this module do nothing.
ConnectivityChanged ==
    /\ At("connectivity")
    /\ Then(IF client.networkDisconnected /\ OfType("connect") # {}
            THEN <<Frame("complete", CHOOSE s \in OfType("connect") : TRUE, "BrokerDisconnected")>>
            ELSE <<>>)
    /\ UNCHANGED <<ops, op, client, depth, timers, wire, outcome, fate>>

\* m_brokerDisconnectReportCb.
Report ==
    /\ At("report")
    /\ Then(IF Top.arg = NoArg THEN <<>> ELSE <<Frame("app", 0, NoArg)>>)
    /\ UNCHANGED <<ops, op, client, depth, timers, wire, outcome, fate>>

\* notifyNetworkDisconnected.
NetworkDown ==
    /\ At("netdown")
    /\ client' = [client EXCEPT !.networkDisconnected = TRUE]
    /\ Then(IF client.disconnecting THEN <<>> ELSE SessionLost(NoArg, "BrokerDisconnected"))
    /\ UNCHANGED <<ops, op, depth, timers, wire, outcome, fate>>

-----------------------------------------------------------------------------
\* sendMessage: the output callback, in which the application reports the
\* network as lost when the write fails (AppClient), then messageSent.
Output ==
    /\ At("output")
    /\ \E written \in IF WritesFail THEN BOOLEAN ELSE {TRUE} :
          /\ Then((IF written THEN <<>> ELSE NetworkLost) \o <<Frame("sent", 0, NoArg)>>)
          /\ wire' = IF written /\ Top.op \in Handles /\ op[Top.op].type \in Requests
                     THEN wire \cup {Top.op} ELSE wire
    /\ UNCHANGED <<ops, op, client, depth, timers, outcome, fate>>

MessageSent ==
    /\ At("sent")
    /\ timers' = IF KeepAlive \in Live THEN TimerWait(timers, KeepAlive, "ping", 0) ELSE timers
    /\ Then(<<>>)
    /\ UNCHANGED <<ops, op, client, depth, wire, outcome, fate>>

-----------------------------------------------------------------------------
\* What the application does, at the top level or in a callback. It does not
\* call a client that is being freed.

MayAct == ~Prompt \/ Prepared = {}
CanCall ==
    /\ fate = "running"
    /\ Idle \/ At("app")
    /\ \A i \in DOMAIN stack : stack[i].do # "freed"

Unused == {s \in Handles : op[s] = NewOp}

\* A new operation object at the end of m_ops, with its timer.
Create(type) ==
    LET s == Least(Unused) IN
    /\ Unused # {}
    /\ op' = [op EXCEPT ![s] = [type |-> type, stage |-> "prepared"]]
    /\ ops' = Append(ops, s)
    /\ timers' = IF type \in Requests THEN AllocTimer(timers, s, "response") ELSE timers
    /\ client' = [client EXCEPT !.locked = TRUE]

\* The conditions of disconnectPrepare, subscribePrepare and unsubscribePrepare.
Allowed(type) ==
    /\ client.connected /\ ~client.disconnecting /\ ~client.networkDisconnected /\ ~client.locked
    /\ type = "disconnect" => OfType("disconnect") = {}

DisconnectPrepare ==
    /\ CanCall /\ MayAct /\ Allowed("disconnect") /\ Create("disconnect")
    /\ UNCHANGED <<depth, stack, wire, outcome, fate>>

SubscribePrepare ==
    /\ CanCall /\ MayAct /\ Allowed("subscribe") /\ Create("subscribe")
    /\ UNCHANGED <<depth, stack, wire, outcome, fate>>

UnsubscribePrepare ==
    /\ CanCall /\ MayAct /\ Allowed("unsubscribe") /\ Create("unsubscribe")
    /\ UNCHANGED <<depth, stack, wire, outcome, fate>>

\* connectPrepare forgets the loss of the network whatever comes of it, and
\* initialises the client again, but not from within a callback.
ConnectPrepare ==
    /\ CanCall /\ MayAct /\ Unused # {}
    /\ client' = [client EXCEPT !.networkDisconnected = FALSE]
    /\ CASE client.initialized -> Call(<<Frame("create", 0, NoArg)>>)
         [] ~client.initialized /\ depth = 0 ->
                Call(<<Frame("enter", 0, NoArg), Frame("init", 0, NoArg), Frame("exit", 0, NoArg), Frame("create", 0, NoArg)>>)
         [] OTHER -> UNCHANGED stack
    /\ UNCHANGED <<ops, op, depth, timers, wire, outcome, fate>>

\* initInternal.
InitInternal ==
    /\ At("init")
    /\ Then(<<Loop("terminate", 0, "Aborted", 1, Len(ops)), Frame("initialized", 0, NoArg)>>)
    /\ UNCHANGED <<ops, op, client, depth, timers, wire, outcome, fate>>

Initialized ==
    /\ At("initialized") /\ Then(<<>>)
    /\ client' = [client EXCEPT !.connected = FALSE, !.disconnecting = FALSE, !.initialized = TRUE]
    /\ UNCHANGED <<ops, op, depth, timers, wire, outcome, fate>>

\* The rest of connectPrepare. The network connection is a new one.
CreateConnect ==
    /\ At("create") /\ Then(<<>>)
    /\ IF OfType("connect") = {} /\ ~client.disconnecting /\ ~client.connected /\ ~client.locked
       THEN Create("connect") /\ wire' = {}
       ELSE UNCHANGED <<ops, op, client, timers, wire>>
    /\ UNCHANGED <<depth, outcome, fate>>

\* Mutant of SendFails: the operation is completed instead of dropped.
SendFailsReported(s) ==
    /\ client' = [client EXCEPT !.locked = FALSE]
    /\ op' = [op EXCEPT ![s].stage = "sent"]
    /\ outcome' = [outcome EXCEPT ![s].returned = "Error"]
    /\ Call(<<Frame("complete", s, "InternalError")>>)
    /\ UNCHANGED <<ops, depth, timers, wire, fate>>

\* The error paths of the three functions below.
SendFails(s) ==
    /\ Destroy(s)
    /\ client' = [client EXCEPT !.locked = FALSE, !.opsDeleted = TRUE]
    /\ outcome' = [outcome EXCEPT ![s].returned = "Error"]
    /\ UNCHANGED <<op, depth, stack, wire, fate>>

\* Mutant of SendSucceeds: the timer is not started.
SendSucceedsUntimed(s) ==
    /\ client' = [client EXCEPT !.locked = FALSE]
    /\ op' = [op EXCEPT ![s].stage = "sent"]
    /\ outcome' = [outcome EXCEPT ![s].returned = "Success"]
    /\ Call(<<Frame("output", s, NoArg)>>)
    /\ UNCHANGED <<ops, depth, timers, wire, fate>>

\* The message goes out before the guard is entered, and the timer is started
\* after the timers that expired meanwhile.
SendSucceeds(s) ==
    /\ client' = [client EXCEPT !.locked = FALSE]
    /\ op' = [op EXCEPT ![s].stage = "sent"]
    /\ Call(<<Frame("output", s, NoArg), Frame("enter", 0, NoArg), Frame("wait", s, "response"), Frame("exit", 0, NoArg)>>)
    /\ UNCHANGED <<ops, depth, timers, wire, outcome, fate>>

ConnectSend == CanCall /\ \E s \in Prepared : op[s].type = "connect" /\ (SendFails(s) \/ SendSucceeds(s))
SubscribeSend == CanCall /\ \E s \in Prepared : op[s].type = "subscribe" /\ (SendFails(s) \/ SendSucceeds(s))
UnsubscribeSend == CanCall /\ \E s \in Prepared : op[s].type = "unsubscribe" /\ (SendFails(s) \/ SendSucceeds(s))

\* DisconnectOp::send: the guard is entered first.
DisconnectSend ==
    /\ CanCall
    /\ \E s \in Prepared :
          /\ op[s].type = "disconnect"
          /\ op' = [op EXCEPT ![s].stage = "sent"]
          /\ Call(<<Frame("enter", 0, NoArg), Frame("disconnect", s, NoArg), Frame("exit", 0, NoArg)>>)
    /\ client' = [client EXCEPT !.locked = FALSE]
    /\ UNCHANGED <<ops, depth, timers, wire, outcome, fate>>

Disconnect ==
    /\ At("disconnect")
    /\ IF Top.op \notin Live THEN Undefined ELSE
          /\ Then(<<Frame("output", 0, NoArg), Frame("complete", Top.op, NoArg)>> \o SessionLost(NoArg, "BrokerDisconnected"))
          /\ UNCHANGED <<ops, op, client, depth, timers, wire, outcome, fate>>

\* Mutant of Unlocks: only a sent operation releases the lock.
UnlocksSent(s) == op[s].stage = "sent"

\* cancel takes an operation without callback for one that was not sent.
Unlocks(s) == op[s].stage = "prepared"

\* cancel of an operation whose handle is valid: the operation goes without a callback.
Cancel ==
    /\ CanCall
    /\ \E s \in Live \ {KeepAlive} :
          /\ op[s].stage = "prepared" \/ outcome[s].returned = "Success"
          /\ MayAct \/ s \in Prepared
          /\ Destroy(s)
          /\ client' = [client EXCEPT !.locked = IF Unlocks(s) THEN FALSE ELSE @, !.opsDeleted = TRUE]
          /\ outcome' = [outcome EXCEPT ![s].cancelled = TRUE]
    /\ UNCHANGED <<op, depth, stack, wire, fate>>

NotifyNetworkDisconnected ==
    /\ CanCall /\ MayAct /\ Call(NetworkLost)
    /\ UNCHANGED <<ops, op, client, depth, timers, wire, outcome, fate>>

AppReturn ==
    /\ At("app") /\ MayAct /\ Then(<<>>)
    /\ UNCHANGED <<ops, op, client, depth, timers, wire, outcome, fate>>

\* ~ClientImpl.
FreeClient ==
    /\ CanCall /\ MayAct /\ Idle
    /\ Call(<<Loop("terminate", 0, "Aborted", 1, Len(ops)), Frame("freed", 0, NoArg)>>)
    /\ UNCHANGED <<ops, op, client, depth, timers, wire, outcome, fate>>

Freed ==
    /\ At("freed") /\ Then(<<>>) /\ fate' = "freed"
    /\ UNCHANGED <<ops, op, client, depth, timers, wire, outcome>>

\* ClientImpl::tick at the end of the time that was programmed.
Tick(E) ==
    /\ CanCall /\ MayAct /\ Idle
    /\ E # {} /\ depth' = 1
    /\ timers' = StopAll(E) /\ Call(Collected(E) \o <<Frame("exit", 0, NoArg)>>)
    /\ UNCHANGED <<ops, op, client, wire, outcome, fate>>

-----------------------------------------------------------------------------
\* Incoming data: one message, the answer to a request or another one.

Answers(type) ==
    CASE type = "connect" -> {"CONNACK accepted", "CONNACK refused", "CONNACK invalid"}
      [] type = "subscribe" -> {"SUBACK", "SUBACK invalid"}
      [] type = "unsubscribe" -> {"UNSUBACK"}

\* processData; "garbage" is what the codec refuses.
ProcessData ==
    /\ CanCall /\ MayAct /\ Idle /\ ~client.networkDisconnected
    /\ \/ \E s \in wire : \E answer \in Answers(op[s].type) :
             /\ wire' = wire \ {s}
             /\ Call(<<Frame("enter", 0, NoArg), Frame("deliver", s, answer), Frame("exit", 0, NoArg)>>)
       \/ \E msg \in {"PINGRESP", "garbage"} :
             /\ client.initialized \/ client.disconnecting
             /\ Call(<<Frame("enter", 0, NoArg), Frame("deliver", 0, msg), Frame("exit", 0, NoArg)>>)
             /\ UNCHANGED wire
    /\ UNCHANGED <<ops, op, client, depth, timers, outcome, fate>>

\* After the guard, whose tick may have ended the session.
Deliver ==
    /\ At("deliver")
    /\ CASE client.networkDisconnected -> Then(<<>>)
         [] ~client.networkDisconnected /\ Top.arg = "garbage" -> Then(SessionLost("ProtocolError", "ProtocolError"))
         [] OTHER -> Then(<<Loop("dispatch", Top.op, Top.arg, 1, Len(ops))>>)
    /\ UNCHANGED <<ops, op, client, depth, timers, wire, outcome, fate>>

\* What operation s makes of message msg about operation about.
Handling(s, about, msg) ==
    IF s = KeepAlive THEN <<Frame("heard", s, msg)>> ELSE
    CASE op[s].type = "connect" /\ msg = "CONNACK accepted" ->
            <<Frame("connected", 0, NoArg), Frame("complete", s, "Complete")>>
      [] op[s].type = "connect" /\ msg = "CONNACK refused" ->
            <<Frame("refused", 0, NoArg), Frame("complete", s, "Complete")>>
      [] op[s].type = "connect" /\ msg = "CONNACK invalid" -> <<Frame("complete", s, "ProtocolError")>>
      [] s = about /\ msg \in {"SUBACK", "UNSUBACK"} -> <<Frame("complete", s, "Complete")>>
      [] s = about /\ msg = "SUBACK invalid" ->
            <<Frame("complete", s, "ProtocolError")>> \o SessionLost("ProtocolError", "BrokerDisconnected")
      [] OTHER -> <<>>

\* handle(ProtMessage): the operations that were there at the start, by index,
\* until the session is given up.
Dispatch ==
    /\ At("dispatch")
    /\ Then(IF client.disconnecting \/ Top.idx > Top.end THEN <<>>
            ELSE (IF ops[Top.idx] = 0 THEN <<>> ELSE Handling(ops[Top.idx], Top.op, Top.arg))
                 \o <<[Top EXCEPT !.idx = @ + 1]>>)
    /\ UNCHANGED <<ops, op, client, depth, timers, wire, outcome, fate>>

\* KeepAliveOp::handle.
Heard ==
    /\ At("heard")
    /\ IF Top.op \notin Live THEN Undefined ELSE
          /\ timers' = TimerWait(IF Top.arg = "PINGRESP" THEN TimerCancel(timers, Top.op, "resp") ELSE timers,
                                 Top.op, "recv", 0)
          /\ Then(<<>>)
          /\ UNCHANGED <<ops, op, client, depth, wire, outcome, fate>>

\* brokerConnected and the constructor of KeepAliveOp.
BrokerConnected ==
    /\ At("connected") /\ Then(<<>>)
    /\ client' = [client EXCEPT !.connected = TRUE]
    /\ IF KeepAlive \in Live THEN UNCHANGED <<ops, timers>>
       ELSE LET allocated == AllocTimer(AllocTimer(AllocTimer(timers, KeepAlive, "ping"),
                                                   KeepAlive, "recv"), KeepAlive, "resp")
            IN  /\ ops' = Append(ops, KeepAlive)
                /\ timers' = TimerWait(allocated, KeepAlive, "ping", 0)
    /\ UNCHANGED <<op, depth, wire, outcome, fate>>

\* A CONNACK that refuses resets the state of the session.
Refused ==
    /\ At("refused") /\ Then(<<>>)
    /\ client' = [client EXCEPT !.connected = FALSE, !.disconnecting = FALSE]
    /\ UNCHANGED <<ops, op, depth, timers, wire, outcome, fate>>

-----------------------------------------------------------------------------

\* The library goes on, and the application returns from its callback.
Step ==
    \/ Enter \/ Exit \/ CompleteOpInternal \/ Callback \/ Expired \/ Wait \/ Lost \/ TerminateOps
    \/ ConnectivityChanged \/ Report \/ NetworkDown \/ Output \/ MessageSent \/ InitInternal
    \/ Initialized \/ CreateConnect \/ Disconnect \/ Freed \/ Deliver \/ Dispatch \/ Heard
    \/ BrokerConnected \/ Refused \/ AppReturn

Next ==
    \/ Step
    \/ ConnectPrepare \/ DisconnectPrepare \/ SubscribePrepare \/ UnsubscribePrepare
    \/ ConnectSend \/ DisconnectSend \/ SubscribeSend \/ UnsubscribeSend
    \/ Cancel \/ NotifyNetworkDisconnected \/ FreeClient \/ ProcessData
    \/ \E E \in SUBSET Running(timers) : Tick(E)

Spec == Init /\ [][Next]_vars

-----------------------------------------------------------------------------
\* Properties.

\* Types; the guards of API calls (m_apiEnterCount) nest four deep at most, and
\* every one that is entered is left.
TypeOK ==
    /\ \A i \in DOMAIN ops : ops[i] \in Operations \cup {0}
    /\ op \in [Operations -> [type : Requests \cup {"disconnect", "keepalive", "none"},
                              stage : {"new", "prepared", "sent"}]]
    /\ \A f \in DOMAIN client : client[f] \in BOOLEAN
    /\ depth \in 0..4
    /\ \A i \in Slots(timers) : timers[i].holder \in Operations \cup {NoHolder}
    /\ wire \subseteq Handles
    /\ fate \in {"running", "freed", "undefined"}
    /\ \A s \in Handles : outcome[s].calls \in 0..2

\* The callback of a request is called if and only if its send succeeded
\* (main.dox, "Operating Concepts"), once, however the request ends; a request
\* that is cancelled has no callback, one that is in the table is still to be told.
CallbackIffSent ==
    fate # "undefined" =>
        \A s \in Handles :
            /\ outcome[s].calls = 1 => outcome[s].returned # "Error" /\ ~outcome[s].cancelled
            /\ outcome[s].calls <= 1
            /\ Idle /\ op[s].type \in Requests =>
                  (outcome[s].calls = 1 <=>
                      outcome[s].returned = "Success" /\ ~outcome[s].cancelled /\ s \notin Live)

\* The preparation lock is held exactly for an operation that the application
\* still has to send or to cancel: otherwise every later prepare would be
\* refused, or two operations would be prepared at a time.
LockHasHolder == fate # "undefined" => (client.locked <=> \E s \in Live : Prepared = {s})

\* Between calls the table agrees with the state of the session: the keep-alive
\* operation is there exactly while the client is connected, requests other than
\* connect exist only then, connect only before, and a session that has ended
\* leaves no operation, entry or timer behind.
TableMatchesSession ==
    Idle /\ fate = "running" =>
        /\ KeepAlive \in Live <=> client.connected
        /\ Live \ OfType("connect") # {} => client.connected /\ ~client.disconnecting /\ client.initialized
        /\ OfType("connect") # {} => ~client.connected /\ client.initialized
        /\ \A i, j \in DOMAIN ops : ops[i] # 0 /\ ops[i] = ops[j] => i = j
        /\ ~client.initialized => ops = <<>> /\ Running(timers) = {}

\* Between calls every request that was sent has its response timer running, and
\* a connected client waits for the time of its next PINGREQ or for a PINGRESP.
RequestsTimed ==
    Idle /\ fate = "running" =>
        /\ \A s \in Live : op[s].stage = "sent" /\ op[s].type \in Requests => TimerIsActive(timers, s, "response")
        /\ client.connected => \E name \in {"ping", "recv", "resp"} : TimerIsActive(timers, KeepAlive, name)

\* The assertion of opComplete (ClientImpl.cpp:625) and the life time it relies
\* on: no function of an operation runs, and none returns to it, after the
\* operation was destroyed.
OperationAlive == fate # "undefined"

=============================================================================
