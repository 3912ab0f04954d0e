----------------------------- MODULE ClientTime -----------------------------
(***************************************************************************)
(* Time in the client: the timer manager, the guard of API calls that      *)
(* charges it with the time that passed (doApiEnter, doApiExit, tick), the *)
(* three timers of KeepAliveOp, and the response timer of a connect,       *)
(* subscribe or unsubscribe operation.                                     *)
(*                                                                         *)
(* The timers only move when the application reports elapsed time: at the  *)
(* tick it was asked for, or when a call of the library takes the wait     *)
(* back. wait is what the application was asked for and since the true     *)
(* time since then. The application is as the documentation wants it: it   *)
(* reports the true time, and its tick is at most Latency late. Every call *)
(* is one step here, since callbacks of the application make no calls;     *)
(* those are the subject of ClientOps.                                     *)
(***************************************************************************)
EXTENDS TimerMgr

CONSTANTS
    KeepAliveMs,        \* SessionState::m_keepAliveMs
    ResponseMs,         \* ConfigState::m_responseTimeoutMs
    Latency             \* how late the tick of the application may be

ASSUME TimeAssumption ==
    KeepAliveMs \in Nat \ {0} /\ ResponseMs \in Nat \ {0} /\ Latency \in Nat

VARIABLES
    timers,         \* m_timerMgr
    connected,      \* SessionState::m_connected
    request,        \* the operation that awaits an answer: "none", "prepared" or "sent";
                    \* a connect operation when not connected, otherwise another one
    wait,           \* the wait the application was asked for, or NoWait
    since,          \* true time since it was asked
    sinceSent,      \* true time since the client sent a message
    spoken,         \* the client sent one since the CONNACK
    owed,           \* the ping timer rang since the client sent one
    sinceHeard,     \* true time since the broker sent a message
    heard,          \* a message came since the CONNACK
    rang,           \* the timers whose callbacks ran in the last step
    undefined       \* a callback ran on an operation that was destroyed

lib == <<timers, connected, request>>
app == <<wait, since>>
history == <<sinceSent, spoken, owed, sinceHeard, heard, rang, undefined>>
vars == <<lib, app, history>>

KA == 1
REQ == 2
NoWait == 0

\* Bounds: true time is counted as far as the properties tell it apart.
Longer == IF ResponseMs > KeepAliveMs THEN ResponseMs ELSE KeepAliveMs
SentBound == KeepAliveMs + ResponseMs + Latency
HeardBound == KeepAliveMs + ResponseMs + 2 * Latency
Capped(n, bound) == IF n > bound THEN bound + 1 ELSE n

Init ==
    /\ timers = <<>> /\ connected = FALSE /\ request = "none"
    /\ wait = NoWait /\ since = 0
    /\ sinceSent = 0 /\ spoken = FALSE /\ owed = FALSE
    /\ sinceHeard = 0 /\ heard = FALSE /\ rang = {} /\ undefined = FALSE

-----------------------------------------------------------------------------
\* The client as a record that the steps of a call pass on.

State == [ts |-> timers, connected |-> connected, request |-> request,
          sent |-> FALSE, owed |-> owed, rang |-> {}, undefined |-> FALSE]

\* KeepAliveOp::messageSent, called by sendMessage.
MessageSent(st) ==
    [st EXCEPT !.sent = TRUE, !.owed = FALSE,
               !.ts = IF st.connected THEN TimerWait(@, KA, "ping", KeepAliveMs) ELSE @]

RequestGone(st) == [st EXCEPT !.request = "none", !.ts = FreeTimers(@, REQ)]

\* brokerDisconnected.
SessionOver(st) ==
    [RequestGone(st) EXCEPT !.connected = FALSE, !.ts = FreeTimers(@, KA)]

\* Mutant of SendPing: a PINGREQ does not count as a message sent.
SendPingUncounted(st) ==
    IF TimerIsActive(st.ts, KA, "resp") THEN st
    ELSE [st EXCEPT !.sent = TRUE, !.owed = FALSE, !.ts = TimerWait(@, KA, "resp", ResponseMs)]

\* Mutant of SendPing: no answer is awaited.
SendPingUnwatched(st) == IF TimerIsActive(st.ts, KA, "resp") THEN st ELSE MessageSent(st)

\* A PINGREQ that is due while another one is unanswered is not sent.
SendPing(st) ==
    IF TimerIsActive(st.ts, KA, "resp") THEN st
    ELSE [MessageSent(st) EXCEPT !.ts = TimerWait(@, KA, "resp", ResponseMs)]

Alive(st, holder) == IF holder = KA THEN st.connected ELSE st.request # "none"

\* The callback of a slot that a tick has collected.
TimeoutCb(st, slot) ==
    LET ringing == [st EXCEPT !.rang = @ \cup {slot.name}] IN
    CASE ~Alive(st, slot.holder) -> [st EXCEPT !.undefined = TRUE]
      [] Alive(st, slot.holder) /\ slot.name \in {"ping", "recv"} ->
            SendPing([ringing EXCEPT !.owed = @ \/ slot.name = "ping"])
      [] Alive(st, slot.holder) /\ slot.name = "resp" -> SessionOver(ringing)
      [] Alive(st, slot.holder) /\ slot.name = "response" -> RequestGone(ringing)

\* TimerMgr::tick: the callbacks are collected first and called afterwards, in
\* the order of their slots; called[n] is the state after n of them.
TickBy(st, ms) ==
    LET order == InSlotOrder(Expiring(st.ts, ms))
        called[n \in 0..Len(order)] ==
            IF n = 0 THEN [st EXCEPT !.ts = Ticked(@, ms)]
            ELSE TimeoutCb(called[n - 1], st.ts[order[n]])
    IN  called[Len(order)]

\* Mutant of TakesWaitBack: the wait is not taken back when it is over already.
TakesWaitBackInTime(st) == GetMinWait(st.ts) # 0 /\ since < wait

\* doApiEnter charges the time that passed if there is a timer to charge.
TakesWaitBack(st) == GetMinWait(st.ts) # 0

\* What the application reports when the wait is taken back.
Elapsed == since

Entered(st) == IF TakesWaitBack(st) THEN TickBy(st, Elapsed) ELSE st

\* Mutant of NextWait: the timer that ends last decides.
NextWaitLast(ts) ==
    IF Running(ts) = {} THEN 0 ELSE CHOOSE m \in {ts[i].ms : i \in Running(ts)} :
                                       \A i \in Running(ts) : ts[i].ms <= m

NextWait(ts) == GetMinWait(ts)

\* The state a call leaves; w is the wait that is left of the one before.
\* doApiExit asks for a new one if a timer runs.
Leave(st, w) ==
    LET next == NextWait(st.ts) IN
    /\ timers' = st.ts /\ connected' = st.connected /\ request' = st.request
    /\ wait' = IF next # 0 THEN next ELSE w
    /\ since' = IF next # 0 \/ w = NoWait THEN 0 ELSE since
    /\ sinceSent' = IF st.sent THEN 0 ELSE sinceSent
    /\ spoken' = (st.connected /\ (spoken \/ st.sent)) /\ owed' = st.owed
    /\ rang' = st.rang /\ undefined' = st.undefined

\* A call that starts from st and does Body under the guard.
Guarded(st, Body(_)) ==
    Leave(Body(Entered(st)), IF TakesWaitBack(st) THEN NoWait ELSE wait)

-----------------------------------------------------------------------------
\* The steps. There is none after undefined behaviour.

Defined == ~undefined

\* Time passes as long as the application is not later than it may be.
TimePasses ==
    /\ Defined
    /\ wait # NoWait => since < wait + Latency
    /\ since' = IF wait = NoWait THEN 0 ELSE since + 1
    /\ sinceSent' = Capped(sinceSent + 1, SentBound)
    /\ sinceHeard' = Capped(sinceHeard + 1, HeardBound)
    /\ rang' = {}
    /\ UNCHANGED <<lib, wait, spoken, owed, heard, undefined>>

\* The tick, which the application may also call early.
Tick ==
    /\ Defined /\ wait # NoWait /\ since > 0
    /\ Leave(TickBy(State, since), NoWait)
    /\ UNCHANGED <<sinceHeard, heard>>

\* brokerConnected creates the KeepAliveOp, which starts its ping timer. Nothing
\* is sent.
BrokerConnected(st) ==
    [st EXCEPT !.connected = TRUE,
               !.ts = TimerWait(AllocTimer(AllocTimer(AllocTimer(@, KA, "ping"), KA, "recv"), KA, "resp"),
                                KA, "ping", KeepAliveMs)]

\* ConnectOp::handle, which completes the connect operation last. The tick of the
\* guard may have given the operation up.
HandleConnack(st) ==
    IF st.request = "sent" THEN RequestGone(BrokerConnected(st)) ELSE st

Connack ==
    /\ Defined /\ ~connected /\ request = "sent" /\ Guarded(State, HandleConnack)
    /\ sinceHeard' = 0 /\ heard' = FALSE

\* A CONNACK that refuses, or that is not valid, completes the operation only.
Refused ==
    /\ Defined /\ ~connected /\ request = "sent" /\ Guarded(State, RequestGone)
    /\ UNCHANGED <<sinceHeard, heard>>

RestartRecvTimer(ts) == TimerWait(ts, KA, "recv", KeepAliveMs)

\* KeepAliveOp::handle of a PINGRESP and of any other message.
HandlePingresp(st) ==
    IF st.connected THEN [st EXCEPT !.ts = RestartRecvTimer(TimerCancel(@, KA, "resp"))] ELSE st

HandleMessage(st) ==
    IF st.connected THEN [st EXCEPT !.ts = RestartRecvTimer(@)] ELSE st

ReceivePingresp ==
    /\ Defined /\ connected /\ Guarded(State, HandlePingresp)
    /\ sinceHeard' = 0 /\ heard' = TRUE

ReceiveMessage ==
    /\ Defined /\ connected /\ Guarded(State, HandleMessage)
    /\ sinceHeard' = 0 /\ heard' = TRUE

\* The answer to the request, which completes it.
HandleAnswer(st) == IF st.connected THEN RequestGone(HandleMessage(st)) ELSE st

ReceiveAnswer ==
    /\ Defined /\ connected /\ request = "sent" /\ Guarded(State, HandleAnswer)
    /\ sinceHeard' = 0 /\ heard' = TRUE

\* SendOp::send, which enters the guard before it sends.
PublishSend ==
    /\ Defined /\ connected /\ Guarded(State, MessageSent)
    /\ UNCHANGED <<sinceHeard, heard>>

\* connectPrepare, subscribePrepare and unsubscribePrepare. The guard of the first
\* has no timer to charge.
RequestPrepare ==
    /\ Defined /\ request = "none"
    /\ request' = "prepared" /\ timers' = AllocTimer(timers, REQ, "response")
    /\ rang' = {}
    /\ UNCHANGED <<connected, app, sinceSent, spoken, owed, sinceHeard, heard, undefined>>

\* The send functions send before they enter the guard, whose tick can end the
\* session and the operation, and then start the timer.
RestartTimer(st) ==
    IF st.request = "none" THEN [st EXCEPT !.undefined = TRUE]
    ELSE [st EXCEPT !.request = "sent", !.ts = TimerWait(@, REQ, "response", ResponseMs)]

RequestSend ==
    /\ Defined /\ request = "prepared"
    /\ Guarded(MessageSent(State), RestartTimer)
    /\ UNCHANGED <<sinceHeard, heard>>

\* cancel enters no guard either, so that the wait stays.
RequestCancel ==
    /\ Defined /\ request # "none"
    /\ timers' = RequestGone(State).ts /\ request' = "none"
    /\ rang' = {}
    /\ UNCHANGED <<connected, app, sinceSent, spoken, owed, sinceHeard, heard, undefined>>

\* notifyNetworkDisconnected or disconnect_send.
EndSession ==
    /\ Defined /\ (connected \/ request # "none") /\ Guarded(State, SessionOver)
    /\ UNCHANGED <<sinceHeard, heard>>

Next ==
    \/ TimePasses \/ Tick \/ Connack \/ Refused \/ ReceivePingresp \/ ReceiveMessage \/ ReceiveAnswer
    \/ PublishSend \/ RequestPrepare \/ RequestSend \/ RequestCancel \/ EndSession

Spec == Init /\ [][Next]_vars

-----------------------------------------------------------------------------
\* Properties.

\* Types, and the slots: however often sessions and requests come and go, no
\* more than the operations in progress can hold, so that a vector of fixed
\* size (ExtConfig::TimersLimit) does not run full.
TypeOK ==
    /\ Len(timers) <= 4
    /\ \A i \in Slots(timers) : timers[i].holder \in {NoHolder, KA, REQ} /\ timers[i].ms \in 0..Longer
    /\ wait \in 0..Longer /\ since \in 0..(Longer + Latency)
    /\ connected \in BOOLEAN /\ request \in {"none", "prepared", "sent"}

\* While a timer runs the application has been asked for a tick that comes no
\* later than the timer needs it, whichever calls were made since.
WaitCoversTimers ==
    GetMinWait(timers) # 0 => wait # NoWait /\ wait <= GetMinWait(timers)

\* A connected client sends a message in the keep-alive time, as it has promised
\* the broker, however its timers are restarted; for the first one the time that
\* the CONNACK took comes on top. A response time that is longer than the
\* keep-alive time bounds the silence while a PINGRESP is awaited, and only then
\* is a PINGREQ skipped for good: the client owes a message, and the broker speaks.
ClientSpeaks ==
    connected =>
        \/ sinceSent <= Latency + (IF spoken THEN Longer ELSE KeepAliveMs + ResponseMs)
        \/ ResponseMs > KeepAliveMs /\ owed /\ heard /\ sinceHeard <= KeepAliveMs + Latency

\* A broker that falls silent after it sent a message is noticed: a PINGREQ goes
\* out after the keep-alive time and its answer is awaited for the response time.
SilenceNoticed == connected /\ heard => sinceHeard <= HeardBound

\* The refinement mapping: the receive, PINGRESP and response timers are alarms
\* on true time. The ping timer is not: a request restarts it before it charges
\* the time that passed before the request.
AlarmNames == {"recv", "resp", "response"}
SlotsOf(n) == {i \in Slots(timers) : timers[i].name = n /\ timers[i].active}
TimeLeft(n) ==
    IF SlotsOf(n) = {} THEN -Latency - 1 ELSE timers[CHOOSE i \in SlotsOf(n) : TRUE].ms - since

A == INSTANCE Alarms WITH
        Names <- AlarmNames,
        Period <- [n \in AlarmNames |-> IF n = "recv" THEN KeepAliveMs ELSE ResponseMs],
        left <- [n \in AlarmNames |-> TimeLeft(n)],
        rang <- rang \cap AlarmNames

\* The timers behave as alarms on true time: whatever calls of the application
\* come in between and take the wait back, no timer rings before its time, and
\* none is more than Latency late.
AlarmsRingInTime == A!Spec

=============================================================================
