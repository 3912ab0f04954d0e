--------------------------- MODULE SendOpsProofs ---------------------------
(***************************************************************************)
(* Proofs about the publish operations, for every number of operations,    *)
(* every width of the packet identifier, every limit of the pools and      *)
(* every number of attempts.                                               *)
(***************************************************************************)
EXTENDS SendOps, PacketIdAllocProofs, SequenceTheorems

\* A new operation and the empty place are operation states.
LEMMA NewOpType ==
    /\ \A q \in 0..2, f \in BOOLEAN, n \in Nat : NewOp(q, f, n) \in OpState
    /\ NoOp \in OpState
BY PacketIdAssumption DEF NewOp, NoOp, OpState, PacketId

\* What happens to an operation while it is in the list keeps its type.
LEMMA OpStateKept ==
    ASSUME NEW r \in OpState, NEW id \in PacketId
    PROVE  /\ SentOnce(r) \in OpState /\ Resent(r) \in OpState /\ Received(r) \in OpState
           /\ Named(r, id) \in OpState /\ Postponed(r, id) \in OpState
           /\ Stopped(r) \in OpState /\ Started(r) \in OpState /\ Suspended(r) \in OpState
<1>1. SentOnce(r) \in OpState
  <2>1. [r EXCEPT !.paused = FALSE, !.published = TRUE, !.attempts = 1] \in OpState
    BY DEF OpState
  <2>2. \A t \in OpState : Started(t) \in OpState
    BY DEF Started, OpState
  <2> QED BY <2>1, <2>2 DEF SentOnce
<1>2. Resent(r) \in OpState
  <2>1. r.attempts + 1 \in Nat
    BY DEF OpState
  <2>2. \A n \in Nat : [r EXCEPT !.attempts = n, !.timer = TRUE] \in OpState
    BY DEF OpState
  <2> QED BY <2>1, <2>2 DEF Resent
<1>3. Received(r) \in OpState
  BY DEF Received, OpState
<1>4. Named(r, id) \in OpState
  BY DEF Named, OpState
<1>5. Postponed(r, id) \in OpState
  BY DEF Postponed, OpState
<1>6. Stopped(r) \in OpState
  BY DEF Stopped, OpState
<1>7. Started(r) \in OpState
  BY DEF Started, OpState
<1>8. Suspended(r) \in OpState
  BY DEF Suspended, OpState
<1> QED BY <1>1, <1>2, <1>3, <1>4, <1>5, <1>6, <1>7, <1>8

\* Zero is an identifier.
LEMMA ZeroId == 0 \in PacketId
BY PacketIdAssumption DEF PacketId

\* Suspending and stopping timers keeps the type of the operations.
LEMMA TimersKept ==
    ASSUME NEW f \in [Serial -> OpState], NEW F
    PROVE  /\ Suspend(f) \in [Serial -> OpState]
           /\ CancelTimers(f, F) \in [Serial -> OpState]
BY OpStateKept, ZeroId DEF Suspend, CancelTimers

\* The part of the type invariant that the operations of the list touch.
QueueOK ==
    /\ sendOps \subseteq Serial
    /\ op \in [Serial -> OpState]
    /\ allocatedPacketIds \subseteq PacketId
    /\ result \in [Serial -> Statuses \cup {"none"}]

\* Resuming operations keeps that part.
LEMMA ResumedType ==
    ASSUME QueueOK, NEW f \in [Serial -> OpState], NEW L \in SUBSET Serial, NEW R, NEW ids,
           NEW res \in [Serial -> Statuses \cup {"none"}], NEW sent, NEW lost \in BOOLEAN,
           Resumed(f, L, R, ids, res, sent, lost)
    PROVE  QueueOK'
<1>1. AfterResume(f, R) \in [Serial -> OpState]
  BY NewOpType, OpStateKept, ZeroId DEF AfterResume
<1>2. op' \in [Serial -> OpState]
  BY <1>1, TimersKept DEF Resumed
<1>3. result' \in [Serial -> Statuses \cup {"none"}]
  BY DEF Resumed, Statuses
<1> QED BY <1>2, <1>3 DEF QueueOK, Resumed, ReleasePacketIds

\* So does an operation that leaves the list ...
LEMMA LeaveType ==
    ASSUME QueueOK, NEW s \in Serial, NEW status \in Statuses \cup {"none"}, NEW sent,
           NEW lost \in BOOLEAN, Leave(s, status, sent, lost)
    PROVE  QueueOK'
<1> DEFINE f   == [op EXCEPT ![s] = NoOp]
           L   == sendOps \ {s}
           R   == IF disconnecting THEN {} ELSE Resumable(f, L, s)
           ids == {op[s].id}
           res == [result EXCEPT ![s] = status]
<1>1. /\ f \in [Serial -> OpState]
      /\ res \in [Serial -> Statuses \cup {"none"}]
      /\ L \in SUBSET Serial
  BY NewOpType DEF QueueOK
<1>2. Resumed(f, L, R, ids, res, sent, lost)
  BY DEF Leave
<1> HIDE DEF f, L, R, ids, res
<1> QED BY <1>1, <1>2, ResumedType

\* ... and one that sends its message again.
LEMMA ResendDupType ==
    ASSUME QueueOK, NEW s \in Serial, ResendDup(s)
    PROVE  QueueOK'
<1>1. CASE Leave(s, "Timeout", <<>>, FALSE)
  BY <1>1, LeaveType DEF Statuses
<1>2. CASE /\ op' = [op EXCEPT ![s] = Resent(@)]
           /\ UNCHANGED <<sendOps, allocatedPacketIds, result>>
  BY <1>2, OpStateKept, ZeroId DEF QueueOK
<1> QED BY <1>1, <1>2 DEF ResendDup

\* Steps of a loop keep the type of inCall.
LEMMA CallsKept ==
    /\ Idle \in Calls
    /\ \A c \in Calls, X \in SUBSET Serial : [c EXCEPT !.left = X] \in Calls
    /\ \A c \in Calls : [c EXCEPT !.ping = FALSE] \in Calls
    /\ \A X \in SUBSET Serial : /\ [Idle EXCEPT !.loop = "resend", !.left = X] \in Calls
                               /\ [Idle EXCEPT !.loop = "abort", !.left = X] \in Calls
                               /\ [Idle EXCEPT !.loop = "free", !.left = X] \in Calls
    /\ \A X \in SUBSET Serial, ping \in BOOLEAN, s \in Serial \cup {0} :
          [loop |-> "tick", left |-> X, ping |-> ping, then |-> s] \in Calls
<1>1. Idle \in Calls
  BY SendOpsAssumption DEF Idle, Calls
<1>2. \A c \in Calls, X \in SUBSET Serial : [c EXCEPT !.left = X] \in Calls
  BY DEF Calls
<1>3. \A c \in Calls : [c EXCEPT !.ping = FALSE] \in Calls
  BY DEF Calls
<1>4. \A c \in Calls, X \in SUBSET Serial :
         /\ [c EXCEPT !.loop = "resend", !.left = X] \in Calls
         /\ [c EXCEPT !.loop = "abort", !.left = X] \in Calls
         /\ [c EXCEPT !.loop = "free", !.left = X] \in Calls
  BY DEF Calls
<1>5. \A X \in SUBSET Serial, ping \in BOOLEAN, s \in Serial \cup {0} :
         [loop |-> "tick", left |-> X, ping |-> ping, then |-> s] \in Calls
  BY SendOpsAssumption DEF Calls, Serial
<1> QED BY <1>1, <1>2, <1>3, <1>4, <1>5

LEMMA ContinueType ==
    ASSUME NEW c \in Calls, opsDeleted \in BOOLEAN, Continue(c)
    PROVE  inCall' \in Calls /\ opsDeleted' \in BOOLEAN
BY CallsKept DEF Continue

LEMMA CallEndsType ==
    ASSUME CallEnds
    PROVE  inCall' \in Calls /\ opsDeleted' \in BOOLEAN
BY CallsKept DEF CallEnds

\* The identifier an operation takes when it is sent, and the pool afterwards.
LEMMA TakeType ==
    ASSUME TypeOK, NEW s \in Serial, TakePacketId(s)
    PROVE  /\ IdTaken(s) \in PacketId
           /\ allocatedPacketIds' \subseteq PacketId
           /\ lastPacketId' \in PacketId
           /\ preparationLocked' \in BOOLEAN
<1>1. lastPacketId \in PacketId /\ allocatedPacketIds \in SUBSET PacketId
  BY DEF TypeOK
<1>2. /\ AllocPacketId(lastPacketId, allocatedPacketIds) \in PacketId
      /\ AllocatedAfter(lastPacketId, allocatedPacketIds) \subseteq PacketId
      /\ LastAfter(lastPacketId, allocatedPacketIds) \in PacketId
  BY <1>1, AllocFresh
<1>3. CASE op[s].qos = 0
  BY <1>1, <1>3, ZeroId DEF TakePacketId, IdTaken
<1>4. CASE op[s].qos # 0
  BY <1>2, <1>4 DEF TakePacketId, IdTaken
<1> QED BY <1>3, <1>4

\* Init establishes the type invariant and every action keeps it.
LEMMA TypeInit == Init => TypeOK
<1> SUFFICES ASSUME Init PROVE TypeOK
  OBVIOUS
<1>1. op \in [Serial -> OpState]
  BY NewOpType DEF Init
<1>2. inCall \in Calls /\ lastPacketId \in PacketId
  BY CallsKept, ZeroId DEF Init
<1>3. nextOp \in 1..(MaxPublishes + 1) /\ publishOrdering \in {"SameQos", "Full"}
  BY SendOpsAssumption DEF Init
<1>4. result \in [Serial -> Statuses \cup {"none"}]
  BY DEF Init
<1> QED BY <1>1, <1>2, <1>3, <1>4 DEF Init, TypeOK

LEMMA PublishApiType == TypeOK /\ PublishApi => TypeOK'
<1> SUFFICES ASSUME TypeOK, PublishApi PROVE TypeOK'
  OBVIOUS
<1>1. ASSUME NEW q \in QosValues, NEW f \in Fits, NEW n \in Attempts, PublishPrepare(q, f, n)
      PROVE  TypeOK'
  <2>1. nextOp \in Serial /\ nextOp' \in 1..(MaxPublishes + 1)
    BY <1>1, SendOpsAssumption DEF PublishPrepare, TypeOK, Serial
  <2>2. NewOp(q, f, n) \in OpState
    BY NewOpType, SendOpsAssumption
  <2>3. op' \in [Serial -> OpState] /\ sendOps' \subseteq Serial
    BY <1>1, <2>1, <2>2 DEF PublishPrepare, TypeOK
  <2> QED BY <1>1, <2>1, <2>3 DEF PublishPrepare, TypeOK, sessionVars
<1>2. ASSUME NEW s \in Serial, PublishPause(s) PROVE TypeOK'
  <2>1. /\ IdTaken(s) \in PacketId /\ allocatedPacketIds' \subseteq PacketId
        /\ lastPacketId' \in PacketId /\ preparationLocked' \in BOOLEAN
    BY <1>2, TakeType DEF PublishPause
  <2>2. op' \in [Serial -> OpState]
    BY <1>2, <2>1, OpStateKept DEF PublishPause, TypeOK
  <2> QED BY <1>2, <2>1, <2>2 DEF PublishPause, TypeOK, sessionVars
<1>3. ASSUME NEW s \in Serial, PublishCancel(s) PROVE TypeOK'
  <2>1. QueueOK'
    BY <1>3, LeaveType DEF PublishCancel, TypeOK, QueueOK
  <2> QED BY <1>3, <2>1 DEF PublishCancel, TypeOK, QueueOK, sessionVars
<1>4. ASSUME NEW s \in Serial, NEW F \in SUBSET Running, NEW ping \in BOOLEAN,
             PublishSend(s, F, ping)
      PROVE  TypeOK'
  <2>1. /\ IdTaken(s) \in PacketId /\ allocatedPacketIds' \subseteq PacketId
        /\ lastPacketId' \in PacketId /\ preparationLocked' \in BOOLEAN
    BY <1>4, TakeType DEF PublishSend
  <2>2. [op EXCEPT ![s] = Named(@, IdTaken(s))] \in [Serial -> OpState]
    BY <2>1, OpStateKept DEF TypeOK
  <2>3. op' \in [Serial -> OpState]
    BY <1>4, <2>2, TimersKept DEF PublishSend
  <2>4. inCall' \in Calls
    <3>1. F \in SUBSET Serial
      BY DEF Running, TypeOK
    <3> QED BY <1>4, <3>1, CallsKept DEF PublishSend
  <2> QED BY <1>4, <2>1, <2>3, <2>4 DEF PublishSend, TypeOK, sessionVars
<1>5. ASSUME NEW o \in {"SameQos", "Full"}, SetPublishOrdering(o) PROVE TypeOK'
  BY <1>5 DEF SetPublishOrdering, TypeOK, sessionVars, queueVars
<1> QED BY <1>1, <1>2, <1>3, <1>4, <1>5 DEF PublishApi

LEMMA TimersType == TypeOK /\ Timers => TypeOK'
<1> SUFFICES ASSUME TypeOK, Timers PROVE TypeOK'
  OBVIOUS
<1>1. ASSUME NEW F \in SUBSET Running, NEW ping \in BOOLEAN, Tick(F, ping) PROVE TypeOK'
  <2>1. F \in SUBSET Serial
    BY DEF Running, TypeOK
  <2>2. inCall' \in Calls
    BY <1>1, <2>1, CallsKept DEF Tick
  <2>3. op' \in [Serial -> OpState]
    BY <1>1, TimersKept DEF Tick, TypeOK
  <2> QED BY <1>1, <2>2, <2>3 DEF Tick, TypeOK, sessionVars
<1>2. ASSUME NEW s \in Serial, ResponseTimeout(s) PROVE TypeOK'
  <2>1. QueueOK'
    BY <1>2, ResendDupType DEF ResponseTimeout, TypeOK, QueueOK
  <2>2. inCall' \in Calls /\ opsDeleted' \in BOOLEAN
    <3>1. inCall.left \ {s} \in SUBSET Serial
      BY DEF TypeOK, Calls
    <3>2. [inCall EXCEPT !.left = @ \ {s}] \in Calls
      BY <3>1, CallsKept DEF TypeOK
    <3> QED BY <1>2, <3>2, ContinueType DEF ResponseTimeout, TypeOK
  <2> QED BY <1>2, <2>1, <2>2 DEF ResponseTimeout, TypeOK, QueueOK, sessionVars
<1>3. CASE PingTimeout
  <2>1. op' \in [Serial -> OpState]
    BY <1>3, TimersKept DEF PingTimeout, TypeOK
  <2>2. inCall' \in Calls /\ opsDeleted' \in BOOLEAN
    <3>1. [inCall EXCEPT !.ping = FALSE] \in Calls
      BY CallsKept DEF TypeOK
    <3> QED BY <1>3, <3>1, ContinueType DEF PingTimeout, TypeOK
  <2> QED BY <1>3, <2>1, <2>2 DEF PingTimeout, TypeOK, SessionLost
<1>4. CASE DoSend
  <2> DEFINE s == inCall.then
  <2>1. s \in Serial
    BY <1>4, SendOpsAssumption DEF DoSend, TypeOK, Calls, Serial
  <2>2. op[s].fits \in BOOLEAN
    BY <2>1 DEF TypeOK, OpState
  <2>3. QueueOK'
    <3>1. CASE Leave(s, IF op[s].fits THEN "Complete" ELSE "none",
                     IF op[s].fits THEN <<Publish(op, s, FALSE)>> ELSE <<>>, FALSE)
      <4>1. (IF op[s].fits THEN "Complete" ELSE "none") \in Statuses \cup {"none"}
        BY DEF Statuses
      <4> HIDE DEF s
      <4> QED BY <2>1, <3>1, <4>1, LeaveType DEF TypeOK, QueueOK
    <3>2. CASE /\ op' = [op EXCEPT ![s] = SentOnce(@)]
               /\ UNCHANGED <<sendOps, allocatedPacketIds, result>>
      BY <2>1, <3>2, OpStateKept, ZeroId DEF TypeOK, QueueOK
    <3> QED BY <1>4, <3>1, <3>2 DEF DoSend
  <2> QED BY <1>4, <2>2, <2>3, CallsKept DEF DoSend, TypeOK, QueueOK, sessionVars
<1> QED BY <1>1, <1>2, <1>3, <1>4 DEF Timers

LEMMA AcknowledgementsType == TypeOK /\ Acknowledgements => TypeOK'
<1> SUFFICES ASSUME TypeOK, Acknowledgements PROVE TypeOK'
  OBVIOUS
<1>1. ASSUME NEW s \in Serial, AckPubrec(s) PROVE TypeOK'
  <2>1. op' \in [Serial -> OpState]
    BY <1>1, OpStateKept, ZeroId DEF AckPubrec, TypeOK
  <2>2. inCall' \in Calls /\ opsDeleted' \in BOOLEAN
    BY <1>1, CallEndsType DEF AckPubrec
  <2> QED BY <1>1, <2>1, <2>2 DEF AckPubrec, TypeOK, sessionVars
<1>2. ASSUME NEW s \in Serial, ForceDupResend(s) PROVE TypeOK'
  <2>1. QueueOK'
    <3>1. CASE UNCHANGED queueVars
      BY <3>1 DEF queueVars, TypeOK, QueueOK
    <3>2. CASE ResendDup(s)
      BY <3>2, ResendDupType DEF TypeOK, QueueOK
    <3> QED BY <1>2, <3>1, <3>2 DEF ForceDupResend
  <2>2. inCall' \in Calls /\ opsDeleted' \in BOOLEAN
    <3>1. LeftToResend(s) \in SUBSET Serial
      BY <2>1 DEF LeftToResend, QueueOK
    <3>2. [inCall EXCEPT !.left = LeftToResend(s)] \in Calls
      BY <3>1, CallsKept DEF TypeOK
    <3> QED BY <1>2, <3>2, ContinueType DEF ForceDupResend, TypeOK
  <2> QED BY <1>2, <2>1, <2>2 DEF ForceDupResend, TypeOK, QueueOK, sessionVars
<1>3. ASSUME NEW s \in Serial, NEW ack, AckCompletes(s, ack) PROVE TypeOK'
  <2>1. QueueOK'
    BY <1>3, LeaveType DEF AckCompletes, TypeOK, QueueOK, Statuses
  <2>2. inCall' \in Calls /\ opsDeleted' \in BOOLEAN
    BY <1>3, CallEndsType DEF AckCompletes
  <2> QED BY <1>3, <2>1, <2>2 DEF AckCompletes, TypeOK, QueueOK, sessionVars
<1>4. ASSUME NEW s \in Serial, NEW ack, AckProtocolError(s, ack) PROVE TypeOK'
  <2>1. QueueOK'
    BY <1>4, LeaveType DEF AckProtocolError, TypeOK, QueueOK, Statuses
  <2>2. inCall' \in Calls /\ opsDeleted' \in BOOLEAN
    BY <1>4, CallEndsType DEF AckProtocolError
  <2> QED BY <1>4, <2>1, <2>2 DEF AckProtocolError, TypeOK, QueueOK, SessionLost
<1>5. ASSUME NEW s \in Serial, NEW ack, AckOutOfOrder(s, ack) PROVE TypeOK'
  <2>1. {r \in sendOps : r <= s} \in SUBSET Serial
    BY DEF TypeOK
  <2>2. inCall' \in Calls
    BY <1>5, <2>1, CallsKept DEF AckOutOfOrder
  <2> QED BY <1>5, <2>2 DEF AckOutOfOrder, TypeOK, sessionVars, queueVars
<1> QED BY <1>1, <1>2, <1>3, <1>4, <1>5 DEF Acknowledgements

LEMMA LoseSessionType ==
    ASSUME TypeOK, LoseSession, networkDisconnected' \in BOOLEAN
    PROVE  TypeOK'
<1>1. op' \in [Serial -> OpState]
  BY TimersKept DEF LoseSession, TypeOK
<1>2. inCall' \in Calls /\ opsDeleted' \in BOOLEAN
  BY CallEndsType DEF LoseSession
<1> QED BY <1>1, <1>2 DEF LoseSession, SessionLost, TypeOK

LEMMA ConnectionType == TypeOK /\ Connection => TypeOK'
<1> SUFFICES ASSUME TypeOK, Connection PROVE TypeOK'
  OBVIOUS
<1> USE DEF connectUnchanged, queueVars
<1>1. CASE ConnectPrepare
  BY <1>1 DEF ConnectPrepare, TypeOK
<1>2. ASSUME NEW clean \in BOOLEAN, ConnectSend(clean) PROVE TypeOK'
  BY <1>2 DEF ConnectSend, TypeOK
<1>3. CASE ConnectEnds
  BY <1>3 DEF ConnectEnds, TypeOK
<1>4. CASE ConnackRefused
  BY <1>4 DEF ConnackRefused, TypeOK
<1>5. CASE ConnackResumed
  <2> DEFINE f == ResendAll.f
             sent == ResendAll.sent
             R == UNION {Resumable(f, sendOps, i) :
                            i \in {i \in PausedTail : \A j \in PausedTail : i <= j}}
  <2>1. f \in [Serial -> OpState]
    BY OpStateKept, ZeroId DEF ResendAll, TypeOK
  <2>2. Resumed(f, sendOps, R, {}, result, sent, FALSE)
    BY <1>5 DEF ConnackResumed
  <2> HIDE DEF f, R, sent
  <2>3. QueueOK'
    BY <2>1, <2>2, ResumedType DEF TypeOK, QueueOK
  <2>4. inCall' \in Calls /\ opsDeleted' \in BOOLEAN
    BY <1>5, CallEndsType DEF ConnackResumed
  <2> QED BY <1>5, <2>3, <2>4 DEF ConnackResumed, TypeOK, QueueOK
<1>6. CASE ConnackClean
  <2>1. inCall' \in Calls
    BY <1>6, CallsKept DEF ConnackClean, TypeOK
  <2> QED BY <1>6, <2>1 DEF ConnackClean, TypeOK
<1>7. ASSUME NEW s \in Serial, TerminateOp(s) PROVE TypeOK'
  <2>1. QueueOK'
    <3>1. CASE Leave(s, "Aborted", <<>>, FALSE)
      BY <3>1, LeaveType DEF TypeOK, QueueOK, Statuses
    <3>2. CASE UNCHANGED queueVars
      BY <3>2 DEF TypeOK, QueueOK
    <3> QED BY <1>7, <3>1, <3>2 DEF TerminateOp
  <2>2. inCall' \in Calls /\ opsDeleted' \in BOOLEAN
    <3>1. inCall.left \ {s} \in SUBSET Serial
      BY DEF TypeOK, Calls
    <3>2. [inCall EXCEPT !.left = @ \ {s}] \in Calls
      BY <3>1, CallsKept DEF TypeOK
    <3> QED BY <1>7, <3>2, ContinueType DEF TerminateOp, TypeOK
  <2> QED BY <1>7, <2>1, <2>2 DEF TerminateOp, TypeOK, QueueOK, sessionVars
<1>8. CASE FreeClient
  BY <1>8, CallsKept DEF FreeClient, TypeOK, sessionVars
<1>9. CASE NotifyNetworkDisconnected
  <2>1. CASE LoseSession
    BY <1>9, <2>1, LoseSessionType DEF NotifyNetworkDisconnected
  <2>2. CASE disconnecting
    BY <1>9, <2>1, <2>2, CallEndsType DEF NotifyNetworkDisconnected, TypeOK
  <2> QED BY <1>9, <2>1, <2>2 DEF NotifyNetworkDisconnected
<1>10. CASE RecvMalformed \/ Disconnect
  BY <1>10, LoseSessionType DEF RecvMalformed, Disconnect, TypeOK
<1> QED BY <1>1, <1>2, <1>3, <1>4, <1>5, <1>6, <1>7, <1>8, <1>9, <1>10 DEF Connection

\* Type correctness of the publish operations and of the session, in
\* particular of the packet identifiers the operations hold: whatever the
\* interleaving of API calls, timers, acknowledgements and reconnections, they
\* stay within their width, and an operation never outlives its place.
THEOREM SendOpsTypeOK == Spec => []TypeOK
<1>1. TypeOK /\ [Next]_vars => TypeOK'
  <2>1. TypeOK /\ UNCHANGED vars => TypeOK'
    BY DEF vars, sessionVars, queueVars, TypeOK
  <2> QED BY <2>1, PublishApiType, TimersType, AcknowledgementsType, ConnectionType DEF Next
<1> QED BY <1>1, TypeInit, PTL DEF Spec

-----------------------------------------------------------------------------
(***************************************************************************)
(* The response timers. Awaiting(X) says that every published operation    *)
(* of the list has its timer armed but for those of X, which the tick in   *)
(* progress has yet to handle.                                             *)
(***************************************************************************)
Timed(r) == r.published => r.timer

Awaiting(X) == \A s \in sendOps : Timed(op[s]) \/ s \in X

\* What the handlers of an operation do to its timer.
LEMMA TimerKept ==
    ASSUME NEW r \in OpState, NEW id \in PacketId
    PROVE  /\ SentOnce(r).timer /\ Resent(r).timer /\ Received(r).timer /\ Started(r).timer
           /\ Timed(r) => Timed(Suspended(r)) /\ Timed(Named(r, id)) /\ Timed(Postponed(r, id))
<1>1. SentOnce(r).timer
  <2>1. [r EXCEPT !.paused = FALSE, !.published = TRUE, !.attempts = 1] \in OpState
    BY DEF OpState
  <2>2. \A t \in OpState : Started(t).timer
    BY DEF Started, OpState
  <2> QED BY <2>1, <2>2 DEF SentOnce
<1>2. Resent(r).timer
  BY DEF Resent, OpState
<1>3. Received(r).timer
  BY DEF Received, OpState
<1>4. Started(r).timer
  BY DEF Started, OpState
<1>5. Timed(r) => Timed(Suspended(r))
  BY DEF Suspended, OpState, Timed
<1>6. Timed(r) => Timed(Named(r, id)) /\ Timed(Postponed(r, id))
  BY DEF Named, Postponed, OpState, Timed
<1> QED BY <1>1, <1>2, <1>3, <1>4, <1>5, <1>6

\* The empty place and a new operation are not published.
LEMMA NewOpTimed ==
    Timed(NoOp) /\ \A q \in 0..2, f \in BOOLEAN, n \in Nat : Timed(NewOp(q, f, n))
BY DEF Timed, NoOp, NewOp

\* Operations that are resumed are sent, and sending arms the timer.
LEMMA ResumedTimed ==
    ASSUME NEW f \in [Serial -> OpState], NEW L \in SUBSET Serial, NEW R, NEW ids,
           NEW res, NEW sent, NEW lost \in BOOLEAN, NEW X,
           \A s \in L : Timed(f[s]) \/ s \in X,
           Resumed(f, L, R, ids, res, sent, lost)
    PROVE  Awaiting(X)'
<1> DEFINE g == AfterResume(f, R)
<1>1. g \in [Serial -> OpState]
  BY NewOpType, OpStateKept, ZeroId DEF AfterResume
<1>2. \A s \in L : Timed(g[s]) \/ s \in X
  BY TimerKept, NewOpTimed, ZeroId DEF AfterResume, Timed
<1>3. \A s \in L : Timed(Suspend(g)[s]) \/ s \in X
  <2> HIDE DEF g
  <2> QED BY <1>1, <1>2, TimerKept, ZeroId DEF Suspend
<1>4. sendOps' \subseteq L /\ (op' = g \/ op' = Suspend(g))
  BY DEF Resumed
<1> HIDE DEF g
<1> QED BY <1>2, <1>3, <1>4 DEF Awaiting

LEMMA LeaveTimed ==
    ASSUME QueueOK, NEW s \in Serial, NEW status, NEW sent, NEW lost \in BOOLEAN, NEW X,
           Awaiting(X), Leave(s, status, sent, lost)
    PROVE  Awaiting(X \ {s})'
<1> DEFINE f   == [op EXCEPT ![s] = NoOp]
           L   == sendOps \ {s}
           R   == IF disconnecting THEN {} ELSE Resumable(f, L, s)
           ids == {op[s].id}
           res == [result EXCEPT ![s] = status]
           Y   == X \ {s}
<1>1. f \in [Serial -> OpState] /\ L \in SUBSET Serial
  BY NewOpType DEF QueueOK
<1>2. \A t \in L : Timed(f[t]) \/ t \in Y
  BY DEF Awaiting, QueueOK
<1>3. Resumed(f, L, R, ids, res, sent, lost)
  BY DEF Leave
<1> HIDE DEF f, L, R, ids, res, Y
<1>4. Awaiting(Y)'
  BY <1>1, <1>2, <1>3, ResumedTimed
<1> QED BY <1>4 DEF Y

\* Once its timeout is handled, an operation is gone or has its timer armed.
LEMMA ResendDupTimed ==
    ASSUME QueueOK, NEW s \in Serial, NEW X, Awaiting(X), ResendDup(s)
    PROVE  Awaiting(X \ {s})'
<1>1. CASE Leave(s, "Timeout", <<>>, FALSE)
  BY <1>1, LeaveTimed
<1>2. CASE /\ op' = [op EXCEPT ![s] = Resent(@)]
           /\ UNCHANGED <<sendOps, allocatedPacketIds, result>>
  <2>1. Timed(Resent(op[s]))
    BY TimerKept, ZeroId DEF QueueOK, Timed
  <2> QED BY <1>2, <2>1 DEF QueueOK, Awaiting
<1> QED BY <1>1, <1>2 DEF ResendDup

\* InFlightTimed follows from Awaiting of the operations a tick has to handle,
\* and outside a tick from Awaiting({}).
LEMMA TimedIff ==
    /\ InFlightTimed <=> Awaiting(IF inCall.loop = "tick" THEN inCall.left ELSE {})
    /\ ApiCall /\ InFlightTimed => Awaiting({})
BY DEF InFlightTimed, Awaiting, Timed, ApiCall, Idle

\* Every action keeps the timers armed.
LEMMA TimedStep == TypeOK /\ InFlightTimed /\ [Next]_vars => InFlightTimed'
<1> SUFFICES ASSUME TypeOK, InFlightTimed, [Next]_vars PROVE InFlightTimed'
  OBVIOUS
<1>1. QueueOK
  BY DEF TypeOK, QueueOK
<1>2. Awaiting({})' => InFlightTimed'
  BY DEF InFlightTimed, Awaiting, Timed
<1>3. ASSUME NEW X, (inCall.loop = "tick" /\ inCall.left = X)', Awaiting(X)'
      PROVE  InFlightTimed'
  BY <1>3 DEF InFlightTimed, Awaiting, Timed
<1>4. ASSUME inCall.loop # "tick" PROVE Awaiting({})
  BY <1>4 DEF InFlightTimed, Awaiting, Timed
<1>5. ApiCall => Awaiting({})
  BY TimedIff
<1>6. ASSUME UNCHANGED <<sendOps, op>>, Awaiting({}) PROVE Awaiting({})'
  BY <1>6 DEF Awaiting
<1>7. ASSUME op' = Suspend(op), UNCHANGED sendOps, Awaiting({}) PROVE Awaiting({})'
  BY <1>1, <1>7, TimerKept, ZeroId DEF Awaiting, Suspend, QueueOK
<1>8. ASSUME NEW s \in Serial, NEW status, NEW sent, NEW lost \in BOOLEAN,
             Leave(s, status, sent, lost), Awaiting({})
      PROVE  Awaiting({})'
  <2>1. {} \ {s} = {}
    OBVIOUS
  <2> QED BY <1>1, <1>8, <2>1, LeaveTimed
<1>9. CASE PublishApi
  <2>1. ASSUME NEW q \in QosValues, NEW f \in Fits, NEW n \in Attempts, PublishPrepare(q, f, n)
        PROVE  InFlightTimed'
    <3>1. Timed(NewOp(q, f, n))
      BY NewOpTimed, SendOpsAssumption
    <3>2. nextOp \in Serial
      BY <2>1, SendOpsAssumption DEF PublishPrepare, TypeOK, Serial
    <3>3. Awaiting({})'
      BY <1>1, <1>5, <2>1, <3>1, <3>2 DEF PublishPrepare, Awaiting, QueueOK
    <3> QED BY <1>2, <3>3
  <2>2. ASSUME NEW s \in Serial, PublishPause(s) PROVE InFlightTimed'
    <3>1. IdTaken(s) \in PacketId
      BY <2>2, TakeType DEF PublishPause
    <3>2. op[s] \in OpState /\ (Timed(op[s]) => Timed(Postponed(op[s], IdTaken(s))))
      BY <1>1, <3>1, TimerKept DEF QueueOK
    <3> QED BY <1>1, <1>2, <1>5, <2>2, <3>2 DEF PublishPause, Awaiting, QueueOK
  <2>3. ASSUME NEW s \in Serial, PublishCancel(s) PROVE InFlightTimed'
    BY <1>2, <1>5, <1>8, <2>3 DEF PublishCancel
  <2>4. ASSUME NEW s \in Serial, NEW F \in SUBSET Running, NEW ping \in BOOLEAN,
               PublishSend(s, F, ping)
        PROVE  InFlightTimed'
    <3>1. IdTaken(s) \in PacketId
      BY <2>4, TakeType DEF PublishSend
    <3>2. op[s] \in OpState /\ (Timed(op[s]) => Timed(Named(op[s], IdTaken(s))))
      BY <1>1, <3>1, TimerKept DEF QueueOK
    <3>3. Awaiting(F)'
      BY <1>1, <1>5, <2>4, <3>2 DEF PublishSend, Awaiting, CancelTimers, QueueOK
    <3> QED BY <1>3, <2>4, <3>3 DEF PublishSend
  <2>5. ASSUME NEW o, SetPublishOrdering(o) PROVE InFlightTimed'
    BY <1>2, <1>5, <1>6, <2>5 DEF SetPublishOrdering, queueVars
  <2> QED BY <1>9, <2>1, <2>2, <2>3, <2>4, <2>5 DEF PublishApi
<1>10. CASE Timers
  <2>1. ASSUME NEW F \in SUBSET Running, NEW ping \in BOOLEAN, Tick(F, ping)
        PROVE  InFlightTimed'
    <3>1. Awaiting(F)'
      BY <1>1, <1>5, <2>1 DEF Tick, Awaiting, CancelTimers, QueueOK
    <3> QED BY <1>3, <2>1, <3>1 DEF Tick
  <2>2. ASSUME NEW X, inCall.loop = "tick", inCall.left = X PROVE Awaiting(X)
    BY <2>2 DEF InFlightTimed, Awaiting, Timed
  <2>3. ASSUME NEW c \in Calls, NEW X, c.loop = "tick", c.left = X, Continue(c), Awaiting(X)'
        PROVE  InFlightTimed'
    <3>1. CASE X = {}
      BY <1>2, <2>3, <3>1
    <3>2. CASE X # {}
      BY <1>3, <2>3, <3>2 DEF Continue
    <3> QED BY <3>1, <3>2
  <2>4. ASSUME NEW s \in Serial, ResponseTimeout(s) PROVE InFlightTimed'
    <3>1. PICK X : X = inCall.left
      OBVIOUS
    <3>2. Awaiting(X)
      BY <2>2, <2>4, <3>1 DEF ResponseTimeout
    <3>3. Awaiting(X \ {s})'
      BY <1>1, <2>4, <3>2, ResendDupTimed DEF ResponseTimeout
    <3> DEFINE c == [inCall EXCEPT !.left = @ \ {s}]
    <3>4. c \in Calls /\ c.loop = "tick" /\ c.left = X \ {s}
      BY <2>4, <3>1 DEF ResponseTimeout, TypeOK, Calls
    <3>5. Continue(c)
      BY <2>4 DEF ResponseTimeout
    <3> HIDE DEF c
    <3> QED BY <2>3, <3>3, <3>4, <3>5
  <2>5. CASE PingTimeout
    <3>1. PICK X : X = inCall.left
      OBVIOUS
    <3>2. Awaiting(X)
      BY <2>2, <2>5, <3>1 DEF PingTimeout
    <3>3. Awaiting(X)'
      BY <1>1, <2>5, <3>2, TimerKept, ZeroId DEF PingTimeout, Awaiting, Suspend, QueueOK
    <3> DEFINE c == [inCall EXCEPT !.ping = FALSE]
    <3>4. c \in Calls /\ c.loop = "tick" /\ c.left = X
      BY <2>5, <3>1 DEF PingTimeout, TypeOK, Calls
    <3>5. Continue(c)
      BY <2>5 DEF PingTimeout
    <3> HIDE DEF c
    <3> QED BY <2>3, <3>3, <3>4, <3>5
  <2>6. CASE DoSend
    <3> DEFINE s == inCall.then
               status == IF op[s].fits THEN "Complete" ELSE "none"
               sent == IF op[s].fits THEN <<Publish(op, s, FALSE)>> ELSE <<>>
    <3>1. s \in Serial /\ Awaiting({})
      BY <2>2, <2>6, SendOpsAssumption DEF DoSend, TypeOK, Calls, Serial
    <3>2. CASE Leave(s, status, sent, FALSE)
      <4> HIDE DEF s, status, sent
      <4> QED BY <1>2, <1>8, <3>1, <3>2
    <3>3. CASE op' = [op EXCEPT ![s] = SentOnce(@)] /\ UNCHANGED sendOps
      <4>1. Timed(SentOnce(op[s]))
        BY <1>1, <3>1, TimerKept, ZeroId DEF QueueOK, Timed
      <4> HIDE DEF s
      <4> QED BY <1>1, <1>2, <3>1, <3>3, <4>1 DEF QueueOK, Awaiting
    <3> QED BY <2>6, <3>2, <3>3 DEF DoSend
  <2> QED BY <1>10, <2>1, <2>4, <2>5, <2>6 DEF Timers
<1>11. CASE Acknowledgements
  <2>1. ASSUME NEW s \in Serial, AckPubrec(s) PROVE InFlightTimed'
    <3>1. Timed(Received(op[s]))
      BY <1>1, TimerKept, ZeroId DEF QueueOK, Timed
    <3>2. Awaiting({})
      BY <1>5, <2>1 DEF AckPubrec, RecvAck
    <3> QED BY <1>1, <1>2, <2>1, <3>1, <3>2 DEF AckPubrec, QueueOK, Awaiting
  <2>2. ASSUME NEW s \in Serial, ForceDupResend(s) PROVE InFlightTimed'
    <3>1. Awaiting({})
      BY <1>4, <2>2 DEF ForceDupResend
    <3>2. Awaiting({})'
      <4>1. CASE UNCHANGED queueVars
        BY <1>6, <3>1, <4>1 DEF queueVars
      <4>2. CASE ResendDup(s)
        <5>1. {} \ {s} = {}
          OBVIOUS
        <5> QED BY <1>1, <3>1, <4>2, <5>1, ResendDupTimed
      <4> QED BY <2>2, <4>1, <4>2 DEF ForceDupResend
    <3> QED BY <1>2, <3>2
  <2>3. ASSUME NEW s \in Serial, NEW ack, AckCompletes(s, ack) PROVE InFlightTimed'
    BY <1>2, <1>5, <1>8, <2>3 DEF AckCompletes, RecvAck
  <2>4. ASSUME NEW s \in Serial, NEW ack, AckProtocolError(s, ack) PROVE InFlightTimed'
    BY <1>2, <1>5, <1>8, <2>4 DEF AckProtocolError, RecvAck
  <2>5. ASSUME NEW s \in Serial, NEW ack, AckOutOfOrder(s, ack) PROVE InFlightTimed'
    BY <1>2, <1>5, <1>6, <2>5 DEF AckOutOfOrder, RecvAck, queueVars
  <2> QED BY <1>11, <2>1, <2>2, <2>3, <2>4, <2>5 DEF Acknowledgements
<1>12. CASE Connection
  <2>1. CASE ConnectPrepare \/ (\E clean \in BOOLEAN : ConnectSend(clean)) \/ ConnectEnds
    BY <1>2, <1>5, <1>6, <2>1
    DEF ConnectPrepare, ConnectSend, ConnectEnds, connectUnchanged, queueVars
  <2>2. CASE ConnackRefused \/ ConnackClean \/ FreeClient
    BY <1>2, <1>5, <1>6, <2>2
    DEF ConnackRefused, ConnackClean, FreeClient, RecvConnack, connectUnchanged, queueVars
  <2>3. CASE ConnackResumed
    <3> DEFINE f == ResendAll.f
               sent == ResendAll.sent
               R == UNION {Resumable(f, sendOps, i) :
                              i \in {i \in PausedTail : \A j \in PausedTail : i <= j}}
    <3>1. f \in [Serial -> OpState] /\ sendOps \in SUBSET Serial
      BY <1>1, OpStateKept, ZeroId DEF ResendAll, QueueOK
    <3>2. \A s \in sendOps : Timed(f[s]) \/ s \in {}
      BY <1>1, <1>5, <2>3, TimerKept, ZeroId
      DEF ConnackResumed, RecvConnack, ResendAll, QueueOK, Awaiting, Timed
    <3>3. Resumed(f, sendOps, R, {}, result, sent, FALSE)
      BY <2>3 DEF ConnackResumed
    <3> HIDE DEF f, R, sent
    <3>4. Awaiting({})'
      BY <3>1, <3>2, <3>3, ResumedTimed
    <3> QED BY <1>2, <3>4
  <2>4. ASSUME NEW s \in Serial, TerminateOp(s) PROVE InFlightTimed'
    <3>1. Awaiting({})
      BY <1>4, <2>4 DEF TerminateOp
    <3> QED BY <1>2, <1>6, <1>8, <2>4, <3>1 DEF TerminateOp, queueVars
  <2>5. CASE NotifyNetworkDisconnected \/ RecvMalformed \/ Disconnect
    BY <1>2, <1>5, <1>6, <1>7, <2>5
    DEF NotifyNetworkDisconnected, RecvMalformed, Disconnect, LoseSession, queueVars
  <2> QED BY <1>12, <2>1, <2>2, <2>3, <2>4, <2>5 DEF Connection
<1>13. CASE UNCHANGED vars
  BY <1>13 DEF vars, queueVars, InFlightTimed
<1> QED BY <1>9, <1>10, <1>11, <1>12, <1>13 DEF Next

\* Every publish operation that waits for the broker has its response timer
\* armed, whatever happened to it: resumed, retransmitted, acknowledged with a
\* PUBREC, carried over a reconnection. InFlightTimed is inductive once the
\* types are known.
THEOREM SendOpsTimed == Spec => []InFlightTimed
<1>1. Init => InFlightTimed
  BY DEF Init, InFlightTimed
<1> QED BY <1>1, TimedStep, SendOpsTypeOK, PTL DEF Spec

-----------------------------------------------------------------------------
(***************************************************************************)
(* The safety of the publish operations, for every number of operations    *)
(* and attempts, every width of the packet identifier, every limit of the  *)
(* pools, either ordering (switched or not) and messages that may or may   *)
(* not fit the output buffer.                                              *)
(*                                                                         *)
(* All the handlers but publishPrepare and SendOp::send do one thing to    *)
(* the list: operations leave it, and the ones that stay advance. QueueKept*)
(* says what that means; the invariants are proved for it once.            *)
(***************************************************************************)

\* What a handler does to an operation that stays in the list: nothing but its
\* timer, the first PUBLISH, a repetition, or the PUBREC.
SameMessage(q, r) == q.qos = r.qos /\ q.fits = r.fits /\ q.total = r.total /\ q.id = r.id

Kept(q, r) ==
    /\ SameMessage(q, r)
    /\ q.paused = r.paused /\ q.published = r.published
    /\ q.acked = r.acked /\ q.attempts = r.attempts
    /\ q.timer => r.timer \/ r.published

SentNow(q, r) ==
    /\ SameMessage(q, r) /\ ~r.published
    /\ ~q.paused /\ q.published /\ q.acked = r.acked /\ q.attempts = 1

Repeated(q, r) ==
    /\ SameMessage(q, r) /\ r.attempts < r.total
    /\ q.paused = r.paused /\ q.published = r.published
    /\ q.acked = r.acked /\ q.attempts = r.attempts + 1

Confirmed(q, r) ==
    /\ SameMessage(q, r) /\ r.published
    /\ q.paused = r.paused /\ q.published /\ q.acked /\ q.attempts = 1

Advanced(q, r) == Kept(q, r) \/ SentNow(q, r) \/ Repeated(q, r) \/ Confirmed(q, r)

\* The operations of R that complete at once, and the identifiers of S.
Done(f, R) == {r \in R : CompletesAtOnce(f[r])}
IdsOf(f, S) == {f[r].id : r \in S}

QueueKept ==
    /\ sendOps' \subseteq sendOps
    /\ \A t \in sendOps' : Advanced(op'[t], op[t])
    /\ \A t \in Serial \ sendOps' : op'[t] = NoOp
    /\ allocatedPacketIds' =
          allocatedPacketIds \ (IdsOf(op, sendOps \ sendOps') \ {0})

\* A prepared operation stays prepared.
StaysPrepared == \A t \in sendOps' : Prepared(t) => Prepared(t)'

\* The empty place.
LEMMA NoOpFields ==
    /\ NoOp.qos = 0 /\ NoOp.fits = TRUE /\ NoOp.total = 0 /\ NoOp.id = 0
    /\ NoOp.attempts = 0 /\ NoOp.paused = FALSE /\ NoOp.published = FALSE
    /\ NoOp.acked = FALSE /\ NoOp.timer = FALSE
    /\ Stopped(NoOp) = NoOp
<1>1. \A r \in OpState : r.timer = FALSE => [r EXCEPT !.timer = FALSE] = r
  BY DEF OpState
<1>2. NoOp \in OpState
  BY NewOpType
<1>3. /\ NoOp.qos = 0 /\ NoOp.fits = TRUE /\ NoOp.total = 0 /\ NoOp.id = 0
      /\ NoOp.attempts = 0 /\ NoOp.paused = FALSE /\ NoOp.published = FALSE
      /\ NoOp.acked = FALSE /\ NoOp.timer = FALSE
  BY DEF NoOp, NewOp
<1>4. Stopped(NoOp) = NoOp
  BY <1>1, <1>2, <1>3 DEF Stopped
<1> QED BY <1>3, <1>4

\* What the handlers of an operation do to it.
LEMMA OpFields ==
    ASSUME NEW r \in OpState, NEW id \in PacketId
    PROVE  /\ Kept(r, r) /\ Kept(Stopped(r), r) /\ Kept(Suspended(r), r)
           /\ r.timer \/ r.published => Kept(Started(r), r)
           /\ ~r.published => SentNow(SentOnce(r), r)
           /\ r.attempts < r.total => Repeated(Resent(r), r)
           /\ r.published => Confirmed(Received(r), r)
<1> USE DEF SameMessage
<1>1. Kept(r, r)
  BY DEF Kept
<1>2. Kept(Stopped(r), r)
  BY DEF Kept, Stopped, OpState
<1>3. Kept(Suspended(r), r)
  BY DEF Kept, Suspended, OpState
<1>4. ASSUME r.timer \/ r.published PROVE Kept(Started(r), r)
  BY <1>4 DEF Kept, Started, OpState
<1>5. ASSUME ~r.published PROVE SentNow(SentOnce(r), r)
  <2> DEFINE q == [r EXCEPT !.paused = FALSE, !.published = TRUE, !.attempts = 1]
  <2>1. /\ q \in OpState
        /\ q.qos = r.qos /\ q.fits = r.fits /\ q.total = r.total /\ q.id = r.id
        /\ ~q.paused /\ q.published /\ q.acked = r.acked /\ q.attempts = 1
    BY DEF OpState
  <2>2. \A t \in OpState : Kept([t EXCEPT !.timer = TRUE], t) \/ ~t.published
    BY DEF Kept, OpState
  <2> HIDE DEF q
  <2>3. Kept(Started(q), q)
    BY <2>1, <2>2 DEF Started
  <2>4. SentOnce(r) = Started(q)
    BY DEF SentOnce, q
  <2> QED BY <1>5, <2>1, <2>3, <2>4 DEF Kept, SentNow
<1>6. ASSUME r.attempts < r.total PROVE Repeated(Resent(r), r)
  BY <1>6 DEF Repeated, Resent, OpState
<1>7. ASSUME r.published PROVE Confirmed(Received(r), r)
  BY <1>7 DEF Confirmed, Received, OpState
<1> QED BY <1>1, <1>2, <1>3, <1>4, <1>5, <1>6, <1>7

-----------------------------------------------------------------------------
(***************************************************************************)
(* The list of operations. Gone is needed for the timers of a tick, whose  *)
(* callbacks name operations and not places of the list; the life cycle    *)
(* because only an operation that was never published may be resumed.      *)
(***************************************************************************)
LifeCycle(r) ==
    /\ r.paused => ~r.published
    /\ r.acked => r.published
    /\ 1 <= r.total
    /\ r.published => 1 <= r.attempts /\ r.attempts <= r.total

Gone == \A s \in Serial \ sendOps : op[s] = NoOp

QueueSafe ==
    /\ Gone
    /\ \A s \in sendOps : LifeCycle(op[s])
    /\ PacketIdsInUse

\* What is resumed is paused.
LEMMA ResumablePaused ==
    ASSUME NEW f, NEW L, NEW i
    PROVE  Resumable(f, L, i) \subseteq {k \in L : f[k].paused}
BY DEF Resumable

\* Resuming operations: the ones that complete at once leave the list, the
\* others are published, and the rest is left alone but for its timers.
OnlyResumed(f, L, R, ids) ==
    /\ sendOps' = L \ Done(f, R)
    /\ \A t \in sendOps' :
          (t \in R => SentNow(op'[t], f[t])) /\ (t \notin R => Kept(op'[t], f[t]))
    /\ \A t \in Serial \ sendOps' : op'[t] = NoOp
    /\ allocatedPacketIds' =
          allocatedPacketIds \ ((ids \cup IdsOf(f, L \ sendOps')) \ {0})

LEMMA ResumedKept ==
    ASSUME NEW f \in [Serial -> OpState], NEW L \in SUBSET Serial, NEW R \in SUBSET L,
           NEW ids, NEW res, NEW sent, NEW lost \in BOOLEAN,
           \A k \in R : ~f[k].published,
           \A t \in Serial \ L : f[t] = NoOp,
           Resumed(f, L, R, ids, res, sent, lost)
    PROVE  OnlyResumed(f, L, R, ids)
<1> DEFINE done == Done(f, R)
           g == AfterResume(f, R)
<1>1. sendOps' = L \ done /\ op' = IF lost THEN Suspend(g) ELSE g
  BY DEF Resumed, Done
<1>2. g \in [Serial -> OpState]
  BY NewOpType, OpStateKept, ZeroId DEF AfterResume
<1>3. \A t \in L \ done :
         (t \in R => SentNow(g[t], f[t])) /\ (t \notin R => Kept(g[t], f[t]))
  BY OpFields, ZeroId DEF AfterResume, Done
<1>4. \A t \in Serial \ (L \ done) : g[t] = NoOp
  BY DEF AfterResume, Done
<1>5. allocatedPacketIds' =
         allocatedPacketIds \ ((ids \cup IdsOf(f, L \ sendOps')) \ {0})
  <2>1. L \ sendOps' = done
    BY <1>1 DEF Done
  <2>2. allocatedPacketIds' = allocatedPacketIds \ ((ids \cup {f[r].id : r \in done}) \ {0})
    BY DEF Resumed, ReleasePacketIds, Done
  <2> QED BY <2>1, <2>2 DEF IdsOf
<1> HIDE DEF g, done
<1>6. \A t \in Serial : op'[t] = g[t] \/ (g[t].timer /\ op'[t] = Suspended(g[t]))
  BY <1>1 DEF Suspend
<1>7. \A t \in Serial : Kept(op'[t], g[t]) /\ (g[t] = NoOp => op'[t] = NoOp)
  BY <1>2, <1>6, OpFields, ZeroId, NoOpFields
<1>8. \A t \in L \ done :
         (t \in R => SentNow(op'[t], f[t])) /\ (t \notin R => Kept(op'[t], f[t]))
  BY <1>3, <1>7 DEF Kept, SentNow, SameMessage
<1> QED BY <1>1, <1>4, <1>5, <1>7, <1>8 DEF done, OnlyResumed

\* An operation leaves the list: the operations without it, and the ones that
\* are resumed.
Without(s) == [op EXCEPT ![s] = NoOp]
Followers(s) == IF disconnecting THEN {} ELSE Resumable(Without(s), sendOps \ {s}, s)

LEMMA LeaveResumes ==
    ASSUME QueueOK, QueueSafe, NEW s \in Serial, NEW status, NEW sent,
           NEW lost \in BOOLEAN, Leave(s, status, sent, lost)
    PROVE  /\ \A t \in sendOps \ {s} : Without(s)[t] = op[t]
           /\ \A k \in Followers(s) : k \in sendOps \ {s} /\ op[k].paused
           /\ OnlyResumed(Without(s), sendOps \ {s}, Followers(s), {op[s].id})
<1> DEFINE f   == Without(s)
           L   == sendOps \ {s}
           R   == Followers(s)
           ids == {op[s].id}
           res == [result EXCEPT ![s] = status]
<1>1. /\ f \in [Serial -> OpState] /\ L \in SUBSET Serial
      /\ \A t \in L : f[t] = op[t]
      /\ \A t \in Serial \ L : f[t] = NoOp
  BY NewOpType DEF QueueOK, QueueSafe, Gone, Without
<1>2. R \in SUBSET L /\ \A k \in R : ~f[k].published /\ op[k].paused
  <2>1. R \subseteq {k \in L : f[k].paused}
    BY ResumablePaused DEF Followers
  <2> QED BY <1>1, <2>1 DEF QueueSafe, LifeCycle
<1>3. Resumed(f, L, R, ids, res, sent, lost)
  BY DEF Leave, Without, Followers
<1> HIDE DEF f, L, R, ids, res
<1>4. OnlyResumed(f, L, R, ids)
  BY <1>1, <1>2, <1>3, ResumedKept
<1> QED BY <1>1, <1>2, <1>4 DEF f, L, R, ids

LEMMA LeaveKept ==
    ASSUME QueueOK, QueueSafe, NEW s \in Serial, NEW status, NEW sent,
           NEW lost \in BOOLEAN, Leave(s, status, sent, lost)
    PROVE  QueueKept /\ s \notin sendOps' /\ StaysPrepared
<1> DEFINE L == sendOps \ {s}
           ids == {op[s].id}
<1>1. PICK f, R : f = Without(s) /\ R = Followers(s)
  OBVIOUS
<1>2. /\ \A t \in L : f[t] = op[t] /\ t \in Serial
      /\ \A k \in R : k \in L /\ op[k].paused
      /\ OnlyResumed(f, L, R, ids)
  <2>1. /\ \A t \in sendOps \ {s} : Without(s)[t] = op[t]
        /\ \A k \in Followers(s) : k \in sendOps \ {s} /\ op[k].paused
        /\ OnlyResumed(Without(s), sendOps \ {s}, Followers(s), {op[s].id})
    BY LeaveResumes
  <2> QED BY <1>1, <2>1 DEF QueueOK
<1>3. sendOps' \subseteq L
  BY <1>2 DEF OnlyResumed
<1>4. \A t \in sendOps' : Advanced(op'[t], op[t])
  BY <1>2, <1>3 DEF Advanced, OnlyResumed
<1>5. allocatedPacketIds' =
         allocatedPacketIds \ (IdsOf(op, sendOps \ sendOps') \ {0})
  <2>1. IdsOf(f, L \ sendOps') = IdsOf(op, L \ sendOps')
    BY <1>2 DEF IdsOf
  <2>2. CASE s \in sendOps
    <3>1. sendOps \ sendOps' = (L \ sendOps') \cup {s}
      BY <1>3, <2>2
    <3>2. ids \cup IdsOf(op, L \ sendOps') = IdsOf(op, sendOps \ sendOps')
      BY <3>1 DEF IdsOf
    <3> QED BY <1>2, <2>1, <3>2 DEF OnlyResumed
  <2>3. CASE s \notin sendOps
    <3>1. ids = {0} /\ L = sendOps
      BY <2>3, NoOpFields DEF QueueSafe, Gone
    <3> QED BY <1>2, <2>1, <3>1 DEF OnlyResumed
  <2> QED BY <2>2, <2>3
<1>6. StaysPrepared
  BY <1>2, <1>3 DEF StaysPrepared, Prepared, OnlyResumed, Kept
<1> QED BY <1>2, <1>3, <1>4, <1>5, <1>6 DEF QueueKept, OnlyResumed

\* SendOp::resendDupMsg: the operation leaves, or its message is repeated.
LEMMA ResendDupKept ==
    ASSUME QueueOK, QueueSafe, NEW s \in Serial, ResendDup(s)
    PROVE  QueueKept /\ StaysPrepared
<1>1. CASE Leave(s, "Timeout", <<>>, FALSE)
  BY <1>1, LeaveKept
<1>2. CASE /\ op[s].attempts < op[s].total
           /\ op' = [op EXCEPT ![s] = Resent(@)]
           /\ UNCHANGED <<sendOps, allocatedPacketIds>>
  <2>1. s \in sendOps
    BY <1>2, NoOpFields DEF QueueSafe, Gone
  <2>2. Repeated(op'[s], op[s])
    BY <1>2, OpFields, ZeroId DEF QueueOK
  <2>3. \A t \in sendOps : Advanced(op'[t], op[t])
    BY <1>2, <2>2, OpFields, ZeroId DEF QueueOK, Advanced
  <2>4. StaysPrepared
    BY <1>2, <2>2 DEF StaysPrepared, Prepared, Repeated, QueueOK
  <2> QED BY <1>2, <2>1, <2>3, <2>4 DEF QueueKept, QueueOK, QueueSafe, Gone, IdsOf
<1> QED BY <1>1, <1>2 DEF ResendDup

\* Only the timers change.
LEMMA TimersOnlyKept ==
    ASSUME QueueOK, QueueSafe, UNCHANGED <<sendOps, allocatedPacketIds>>,
           \/ op' = op
           \/ op' = Suspend(op)
           \/ \E F \in SUBSET Serial : op' = CancelTimers(op, F)
    PROVE  QueueKept /\ StaysPrepared
<1>1. \A t \in Serial : Kept(op'[t], op[t])
  BY OpFields, ZeroId DEF QueueOK, Suspend, CancelTimers
<1>2. \A t \in Serial \ sendOps : op'[t] = NoOp
  BY NoOpFields DEF QueueOK, QueueSafe, Gone, Suspend, CancelTimers
<1>3. StaysPrepared
  BY <1>1 DEF StaysPrepared, Prepared, Kept, QueueOK
<1> QED BY <1>1, <1>2, <1>3 DEF QueueKept, QueueOK, Advanced, IdsOf

\* The operations that stay keep the list safe, and none of them becomes a
\* prepared one.
LEMMA KeptSafe ==
    ASSUME QueueOK, QueueOK', QueueSafe, QueueKept
    PROVE  QueueSafe' /\ \A t \in sendOps' : t \in sendOps /\ (Prepared(t)' => Prepared(t))
<1>1. Gone'
  BY DEF QueueKept, Gone
<1>2. \A t \in sendOps' : t \in sendOps /\ op[t] \in OpState /\ op'[t] \in OpState
  BY DEF QueueKept, QueueOK
<1>3. \A t \in sendOps' : LifeCycle(op'[t])
  <2>1. ASSUME NEW q \in OpState, NEW r \in OpState, Advanced(q, r), LifeCycle(r)
        PROVE  LifeCycle(q)
    BY <2>1 DEF Advanced, Kept, SentNow, Repeated, Confirmed, SameMessage, LifeCycle, OpState
  <2> QED BY <1>2, <2>1 DEF QueueKept, QueueSafe
<1>4. \A t \in sendOps' : op'[t].id = op[t].id
  BY DEF QueueKept, Advanced, Kept, SentNow, Repeated, Confirmed, SameMessage
<1>5. PacketIdsInUse'
  <2>1. allocatedPacketIds' \ {0} = {op'[t].id : t \in sendOps'} \ {0}
    <3>1. {op'[t].id : t \in sendOps'} = {op[t].id : t \in sendOps'}
      BY <1>4
    <3>2. \A t \in sendOps', u \in sendOps \ sendOps' : op[t].id # 0 => op[t].id # op[u].id
      BY <1>2 DEF QueueSafe, PacketIdsInUse
    <3>3. allocatedPacketIds \ {0} = {op[t].id : t \in sendOps} \ {0}
      BY DEF QueueSafe, PacketIdsInUse
    <3>4. PICK A, B : A = {op[t].id : t \in sendOps'} /\ B = IdsOf(op, sendOps \ sendOps')
      OBVIOUS
    <3>5. {op[t].id : t \in sendOps} = A \cup B /\ A \cap B \subseteq {0}
      BY <1>2, <3>2, <3>4 DEF IdsOf
    <3>6. allocatedPacketIds' = allocatedPacketIds \ (B \ {0})
      BY <3>4 DEF QueueKept
    <3>7. allocatedPacketIds' \ {0} = A \ {0}
      BY <3>3, <3>5, <3>6
    <3> QED BY <3>1, <3>4, <3>7
  <2>2. \A r, t \in sendOps' : r # t /\ op'[r].id # 0 => op'[r].id # op'[t].id
    BY <1>2, <1>4 DEF QueueSafe, PacketIdsInUse
  <2> QED BY <2>1, <2>2 DEF PacketIdsInUse
<1>6. ASSUME NEW t \in sendOps', Prepared(t)' PROVE Prepared(t)
  BY <1>2, <1>6
  DEF Prepared, QueueKept, Advanced, Kept, SentNow, Repeated, Confirmed, SameMessage, OpState
<1> QED BY <1>1, <1>2, <1>3, <1>5, <1>6 DEF QueueSafe

-----------------------------------------------------------------------------
(***************************************************************************)
(* The operation that is prepared. It holds the preparation lock until     *)
(* SendOp::send, which releases the lock before the tick of apiEnter runs; *)
(* until that tick is over the operation is known by inCall.then.          *)
(***************************************************************************)
PreparedOp(s) ==
    /\ s = nextOp - 1
    /\ connectOp = "none"
    /\ preparationLocked \/ inCall.then = s
    /\ op[s].id = 0 \/ inCall.then = s

PrepSafe ==
    /\ sendOps \subseteq 1..(nextOp - 1)
    /\ \A s \in sendOps : Prepared(s) => PreparedOp(s)
    /\ connectOp # "none" => ~connected
    /\ inCall.then # 0 => inCall.loop = "tick"
    /\ inCall.then \in sendOps => Prepared(inCall.then)

SafeInv == TypeOK /\ QueueSafe /\ PrepSafe

\* Outside the calls that prepare or send a message, operations only leave or
\* advance.
LEMMA ResumedSessionKept ==
    ASSUME SafeInv, ConnackResumed
    PROVE  QueueKept /\ StaysPrepared
<1> DEFINE f == ResendAll.f
           sent == ResendAll.sent
           R == UNION {Resumable(f, sendOps, i) :
                          i \in {i \in PausedTail : \A j \in PausedTail : i <= j}}
<1>1. QueueOK
  BY DEF SafeInv, TypeOK, QueueOK
<1>2. f = [s \in Serial |->
             IF s \in {t \in sendOps : ~op[t].paused} THEN Started(op[s]) ELSE op[s]]
  BY DEF ResendAll
<1>3. /\ f \in [Serial -> OpState] /\ sendOps \in SUBSET Serial
      /\ \A t \in Serial \ sendOps : f[t] = NoOp
  BY <1>1, <1>2, OpStateKept, ZeroId DEF QueueOK, SafeInv, QueueSafe, Gone
<1>4. \A t \in sendOps : op[t].paused \/ op[t].published
  BY DEF SafeInv, PrepSafe, PreparedOp, Prepared, ConnackResumed, RecvConnack
<1>5. \A t \in sendOps : Kept(f[t], op[t])
  BY <1>1, <1>2, <1>4, OpFields, ZeroId DEF QueueOK
<1>6. R \in SUBSET sendOps /\ \A k \in R : ~f[k].published
  <2>1. \A k \in R : k \in sendOps /\ f[k].paused
    BY ResumablePaused
  <2> QED BY <1>5, <2>1 DEF SafeInv, QueueSafe, LifeCycle, Kept
<1>7. Resumed(f, sendOps, R, {}, result, sent, FALSE)
  BY DEF ConnackResumed
<1> HIDE DEF f, R, sent
<1>8. OnlyResumed(f, sendOps, R, {})
  BY <1>3, <1>6, <1>7, ResumedKept
<1>9. \A t \in sendOps' : t \in sendOps /\ Advanced(op'[t], op[t])
  BY <1>5, <1>8 DEF OnlyResumed, Advanced, Kept, SentNow, SameMessage
<1>10. IdsOf(f, sendOps \ sendOps') = IdsOf(op, sendOps \ sendOps')
  BY <1>5 DEF IdsOf, Kept, SameMessage
<1>11. StaysPrepared
  BY <1>4, <1>9 DEF StaysPrepared, Prepared
<1> QED BY <1>8, <1>9, <1>10, <1>11 DEF QueueKept, OnlyResumed

LEMMA DoSendKept ==
    ASSUME SafeInv, DoSend
    PROVE  QueueKept /\ \E s \in Serial : s = inCall.then /\ ~Prepared(s)'
<1>1. QueueOK
  BY DEF SafeInv, TypeOK, QueueOK
<1>2. PICK s : s = inCall.then
  OBVIOUS
<1>3. s \in Serial
  BY <1>2, SendOpsAssumption DEF DoSend, SafeInv, TypeOK, Calls, Serial
<1>4. CASE CompletesAtOnce(op[s])
  <2>1. PICK status, sent : Leave(s, status, sent, FALSE)
    BY <1>2, <1>4 DEF DoSend
  <2>2. QueueKept /\ s \notin sendOps'
    BY <1>1, <1>3, <2>1, LeaveKept DEF SafeInv
  <2> QED BY <1>2, <1>3, <2>2 DEF Prepared
<1>5. CASE ~CompletesAtOnce(op[s])
  <2>1. op' = [op EXCEPT ![s] = SentOnce(@)] /\ UNCHANGED <<sendOps, allocatedPacketIds>>
    BY <1>2, <1>5 DEF DoSend
  <2>2. s \in sendOps
    BY <1>3, <1>5, NoOpFields DEF CompletesAtOnce, SafeInv, QueueSafe, Gone
  <2>3. SentNow(op'[s], op[s])
    BY <1>1, <1>2, <1>3, <2>1, <2>2, OpFields, ZeroId DEF SafeInv, PrepSafe, Prepared, QueueOK
  <2>4. \A t \in sendOps : Advanced(op'[t], op[t])
    BY <1>1, <2>1, <2>3, OpFields, ZeroId DEF QueueOK, Advanced
  <2>5. QueueKept
    BY <1>1, <2>1, <2>2, <2>4 DEF QueueKept, QueueOK, SafeInv, QueueSafe, Gone, IdsOf
  <2> QED BY <1>2, <1>3, <2>3, <2>5 DEF Prepared, SentNow
<1> QED BY <1>4, <1>5

\* What remains to be shown of such a step is about the flags of the session
\* and the call in progress.
LEMMA PrepKept ==
    ASSUME SafeInv, TypeOK', QueueKept, nextOp' = nextOp,
           StaysPrepared \/ inCall'.then = 0,
           inCall'.then # 0 => inCall'.loop = "tick" /\ inCall'.then = inCall.then,
           connectOp' # "none" => ~connected',
           \A s \in sendOps : Prepared(s) /\ Prepared(s)' =>
              /\ connectOp' = "none"
              /\ preparationLocked' \/ inCall'.then = s
              /\ inCall.then = s => inCall'.then = s
    PROVE  SafeInv'
<1>1. QueueSafe' /\ \A t \in sendOps' : t \in sendOps /\ (Prepared(t)' => Prepared(t))
  <2>1. QueueOK /\ QueueOK'
    BY DEF SafeInv, TypeOK, QueueOK
  <2> QED BY <2>1, KeptSafe DEF SafeInv
<1>2. \A t \in sendOps' : op'[t].id = op[t].id
  BY DEF QueueKept, Advanced, Kept, SentNow, Repeated, Confirmed, SameMessage
<1>3. ASSUME NEW t \in sendOps', Prepared(t)' PROVE PreparedOp(t)'
  BY <1>1, <1>2, <1>3 DEF PreparedOp, SafeInv, PrepSafe
<1>4. inCall'.then \in sendOps' => Prepared(inCall.then)'
  <2> SUFFICES ASSUME inCall'.then \in sendOps' PROVE Prepared(inCall.then)'
    OBVIOUS
  <2>1. inCall'.then # 0
    BY DEF TypeOK, Serial
  <2>2. PICK t : t = inCall.then
    OBVIOUS
  <2>3. inCall'.then = t /\ t \in sendOps'
    BY <2>1, <2>2
  <2>4. Prepared(t) /\ Prepared(t)'
    BY <1>1, <2>1, <2>2, <2>3 DEF SafeInv, PrepSafe, StaysPrepared
  <2> QED BY <2>3, <2>4 DEF Prepared
<1>5. PrepSafe'
  BY <1>1, <1>3, <1>4 DEF PrepSafe, SafeInv
<1> QED BY <1>1, <1>5 DEF SafeInv

-----------------------------------------------------------------------------
(***************************************************************************)
(* publishPrepare and SendOp::send.                                        *)
(***************************************************************************)

\* An operation that is configured and then named.
LEMMA NewOpFields ==
    /\ \A q \in 0..2, f \in BOOLEAN, n \in Nat \ {0} :
          LifeCycle(NewOp(q, f, n)) /\ NewOp(q, f, n).id = 0
    /\ \A r \in OpState, id \in PacketId :
          /\ Named(r, id).id = id /\ Postponed(r, id).id = id
          /\ Named(r, id).paused = r.paused /\ Named(r, id).published = r.published
          /\ Postponed(r, id).paused
          /\ LifeCycle(r) => LifeCycle(Named(r, id))
          /\ LifeCycle(r) /\ ~r.published => LifeCycle(Postponed(r, id))
<1>1. \A q \in 0..2, f \in BOOLEAN, n \in Nat \ {0} :
          LifeCycle(NewOp(q, f, n)) /\ NewOp(q, f, n).id = 0
  BY DEF NewOp, LifeCycle
<1>2. ASSUME NEW r \in OpState, NEW id \in PacketId
      PROVE  /\ Named(r, id).id = id /\ Postponed(r, id).id = id
             /\ Named(r, id).paused = r.paused /\ Named(r, id).published = r.published
             /\ Postponed(r, id).paused
             /\ LifeCycle(r) => LifeCycle(Named(r, id))
             /\ LifeCycle(r) /\ ~r.published => LifeCycle(Postponed(r, id))
  BY DEF Named, Postponed, LifeCycle, OpState
<1> QED BY <1>1, <1>2

\* The identifier that SendOp::send takes is not in use.
LEMMA TakeFresh ==
    ASSUME TypeOK, NEW s \in Serial, TakePacketId(s)
    PROVE  /\ IdTaken(s) # 0 => IdTaken(s) \notin allocatedPacketIds
           /\ allocatedPacketIds' \ {0} = (allocatedPacketIds \cup {IdTaken(s)}) \ {0}
           /\ preparationLocked' = FALSE
<1>1. CASE op[s].qos = 0
  BY <1>1 DEF TakePacketId, IdTaken
<1>2. CASE op[s].qos # 0
  <2>1. ~Exhausted(allocatedPacketIds) =>
           AllocPacketId(lastPacketId, allocatedPacketIds) \notin allocatedPacketIds
    BY AllocFresh DEF TypeOK
  <2> QED BY <1>2, <2>1 DEF TakePacketId, IdTaken, AllocatedAfter, AllocPacketId
<1> QED BY <1>1, <1>2

\* It keeps the identifiers in use apart.
LEMMA NamedIdsInUse ==
    ASSUME TypeOK, PacketIdsInUse, NEW s \in sendOps, NEW id, op[s].id = 0,
           id # 0 => id \notin allocatedPacketIds,
           allocatedPacketIds' \ {0} = (allocatedPacketIds \cup {id}) \ {0},
           sendOps' = sendOps, op'[s].id = id,
           \A t \in sendOps \ {s} : op'[t].id = op[t].id
    PROVE  PacketIdsInUse'
<1>1. \A t \in sendOps : op[t].id # 0 => op[t].id \in allocatedPacketIds
  BY DEF PacketIdsInUse
<1>2. allocatedPacketIds' \ {0} = {op'[t].id : t \in sendOps'} \ {0}
  <2>1. PICK A : A = {op[t].id : t \in sendOps}
    OBVIOUS
  <2>2. {op'[t].id : t \in sendOps'} \ {0} = (A \cup {id}) \ {0}
    BY <2>1
  <2>3. allocatedPacketIds \ {0} = A \ {0}
    BY <2>1 DEF PacketIdsInUse
  <2> QED BY <2>2, <2>3
<1>3. \A r, t \in sendOps' : r # t /\ op'[r].id # 0 => op'[r].id # op'[t].id
  BY <1>1 DEF PacketIdsInUse
<1> QED BY <1>2, <1>3 DEF PacketIdsInUse

\* While no call is in progress the prepared operation holds the lock, has no
\* identifier, and is the only one.
LEMMA IdlePrepared ==
    ASSUME SafeInv, ApiCall, NEW s \in sendOps, Prepared(s)
    PROVE  /\ s = nextOp - 1 /\ connectOp = "none" /\ preparationLocked /\ op[s].id = 0
           /\ s \in Serial /\ s # 0 /\ inCall.then = 0
<1>1. s \in Serial /\ s # 0 /\ inCall.then = 0
  BY DEF SafeInv, TypeOK, Serial, ApiCall, Idle
<1> QED BY <1>1 DEF SafeInv, PrepSafe, PreparedOp

LEMMA PublishPrepareSafe ==
    ASSUME SafeInv, TypeOK', NEW q \in QosValues, NEW f \in Fits, NEW n \in Attempts,
           PublishPrepare(q, f, n)
    PROVE  SafeInv'
<1>1. nextOp \in Serial /\ nextOp \in Nat /\ nextOp \notin sendOps
  BY SendOpsAssumption DEF PublishPrepare, SafeInv, TypeOK, PrepSafe, Serial
<1>2. LifeCycle(NewOp(q, f, n)) /\ NewOp(q, f, n).id = 0
  BY NewOpFields, SendOpsAssumption
<1>3. /\ sendOps' = sendOps \cup {nextOp} /\ op'[nextOp] = NewOp(q, f, n)
      /\ \A t \in Serial \ {nextOp} : op'[t] = op[t]
      /\ allocatedPacketIds' = allocatedPacketIds /\ nextOp' = nextOp + 1
      /\ inCall' = inCall /\ connectOp' = connectOp /\ preparationLocked' /\ inCall.then = 0
      /\ connected /\ connected'
  BY <1>1 DEF PublishPrepare, SafeInv, TypeOK, sessionVars, ApiCall, Idle
<1>4. sendOps \subseteq Serial
  BY DEF SafeInv, TypeOK
<1>5. \A t \in sendOps : ~Prepared(t)
  BY IdlePrepared DEF PublishPrepare
<1>6. QueueSafe'
  <2>1. Gone' /\ \A t \in sendOps' : LifeCycle(op'[t])
    BY <1>1, <1>2, <1>3, <1>4 DEF SafeInv, QueueSafe, Gone
  <2>2. \A t \in sendOps : op'[t].id = op[t].id
    BY <1>1, <1>3, <1>4
  <2>3. {op'[t].id : t \in sendOps'} \ {0} = {op[t].id : t \in sendOps} \ {0}
    BY <1>2, <1>3, <2>2
  <2>4. PacketIdsInUse'
    BY <1>2, <1>3, <2>2, <2>3 DEF SafeInv, QueueSafe, PacketIdsInUse
  <2> QED BY <2>1, <2>4 DEF QueueSafe
<1>7. \A t \in sendOps' : Prepared(t)' => t = nextOp
  BY <1>1, <1>3, <1>4, <1>5 DEF Prepared
<1>8. PrepSafe'
  <2>1. connectOp' = "none" /\ inCall'.then = 0 /\ 0 \notin sendOps'
    BY <1>1, <1>3, <1>4 DEF SafeInv, PrepSafe, Serial
  <2>2. \A t \in sendOps' : Prepared(t)' => PreparedOp(t)'
    BY <1>1, <1>2, <1>3, <1>7, <2>1 DEF PreparedOp
  <2>3. sendOps' \subseteq 1..(nextOp' - 1)
    <3>1. \A t \in sendOps : t \in 1..(nextOp - 1)
      BY DEF SafeInv, PrepSafe
    <3>2. \A t \in sendOps \cup {nextOp} : t \in 1..nextOp
      BY <1>1, <3>1, SendOpsAssumption DEF Serial
    <3>3. nextOp' - 1 = nextOp
      BY <1>1, <1>3
    <3> QED BY <1>3, <3>2, <3>3
  <2> QED BY <2>1, <2>2, <2>3 DEF PrepSafe
<1> QED BY <1>6, <1>8 DEF SafeInv

\* SendOp::send, whether the operation is paused or goes on.
LEMMA SendSafe ==
    ASSUME SafeInv, TypeOK', ApiCall, NEW s \in sendOps, Prepared(s), TakePacketId(s),
           UNCHANGED <<sendOps, nextOp, connectOp, connected>>,
           op'[s].id = IdTaken(s), LifeCycle(op'[s]),
           \A t \in Serial \ {s} : Kept(op'[t], op[t]),
           \A t \in Serial \ sendOps : op'[t] = NoOp,
           \/ ~Prepared(s)' /\ inCall' = inCall
           \/ Prepared(s)' /\ inCall'.loop = "tick" /\ inCall'.then = s
    PROVE  SafeInv'
<1>1. /\ s = nextOp - 1 /\ connectOp = "none" /\ op[s].id = 0
      /\ s \in Serial /\ s # 0 /\ inCall.then = 0
  BY IdlePrepared
<1>2. sendOps \subseteq Serial
  BY DEF SafeInv, TypeOK
<1>3. /\ IdTaken(s) # 0 => IdTaken(s) \notin allocatedPacketIds
      /\ allocatedPacketIds' \ {0} = (allocatedPacketIds \cup {IdTaken(s)}) \ {0}
  BY <1>1, TakeFresh DEF SafeInv
<1>4. \A t \in sendOps \ {s} : op'[t].id = op[t].id /\ LifeCycle(op'[t])
  BY <1>2 DEF SafeInv, QueueSafe, Kept, SameMessage, LifeCycle
<1>5. PacketIdsInUse'
  BY <1>1, <1>3, <1>4, NamedIdsInUse DEF SafeInv, QueueSafe
<1>6. QueueSafe'
  BY <1>4, <1>5 DEF QueueSafe, Gone
<1>7. \A t \in sendOps \ {s} : ~Prepared(t)'
  <2>1. \A t \in sendOps \ {s} : ~Prepared(t)
    BY <1>1, IdlePrepared
  <2> QED BY <1>2, <2>1 DEF Prepared, Kept
<1>8. PrepSafe'
  BY <1>1, <1>2, <1>7 DEF PrepSafe, PreparedOp, SafeInv, Serial
<1> QED BY <1>6, <1>8 DEF SafeInv

LEMMA PublishPauseSafe ==
    ASSUME SafeInv, TypeOK', NEW s \in Serial, PublishPause(s)
    PROVE  SafeInv'
<1>1. /\ op \in [Serial -> OpState] /\ s \in sendOps /\ Prepared(s)
      /\ ~op[s].published /\ LifeCycle(op[s])
  BY DEF SafeInv, TypeOK, QueueSafe, PublishPause, Prepared
<1>2. IdTaken(s) \in PacketId
  BY TakeType DEF PublishPause, SafeInv
<1>3. op'[s] = Postponed(op[s], IdTaken(s)) /\ \A t \in Serial \ {s} : op'[t] = op[t]
  BY <1>1 DEF PublishPause
<1>4. op'[s].id = IdTaken(s) /\ op'[s].paused /\ LifeCycle(op'[s])
  BY <1>1, <1>2, <1>3, NewOpFields
<1>5. \A t \in Serial \ {s} : Kept(op'[t], op[t])
  BY <1>1, <1>3, OpFields, ZeroId
<1>6. \A t \in Serial \ sendOps : op'[t] = NoOp
  BY <1>1, <1>3 DEF SafeInv, QueueSafe, Gone
<1>7. ~Prepared(s)'
  BY <1>4 DEF Prepared
<1> QED BY <1>1, <1>4, <1>5, <1>6, <1>7, SendSafe DEF PublishPause, sessionVars

LEMMA PublishSendSafe ==
    ASSUME SafeInv, TypeOK', NEW s \in Serial, NEW F \in SUBSET Running, NEW ping \in BOOLEAN,
           PublishSend(s, F, ping)
    PROVE  SafeInv'
<1>1. /\ op \in [Serial -> OpState] /\ s \in sendOps /\ Prepared(s)
      /\ ~op[s].paused /\ ~op[s].published /\ LifeCycle(op[s])
  BY DEF SafeInv, TypeOK, QueueSafe, PublishSend, Prepared
<1>2. IdTaken(s) \in PacketId
  BY TakeType DEF PublishSend, SafeInv
<1> DEFINE r == Named(op[s], IdTaken(s))
<1>3. /\ op'[s] = r \/ op'[s] = Stopped(r)
      /\ \A t \in Serial \ {s} : op'[t] = op[t] \/ op'[t] = Stopped(op[t])
  BY <1>1 DEF PublishSend, CancelTimers
<1>4. /\ r \in OpState /\ r.id = IdTaken(s) /\ ~r.paused /\ ~r.published /\ LifeCycle(r)
  BY <1>1, <1>2, NewOpFields, OpStateKept
<1> HIDE DEF r
<1>5. Kept(op'[s], r)
  BY <1>3, <1>4, OpFields, ZeroId
<1>6. op'[s].id = IdTaken(s) /\ LifeCycle(op'[s]) /\ ~op'[s].paused /\ ~op'[s].published
  BY <1>4, <1>5 DEF Kept, SameMessage, LifeCycle
<1>7. \A t \in Serial \ {s} : Kept(op'[t], op[t])
  BY <1>1, <1>3, OpFields, ZeroId
<1>8. \A t \in Serial \ sendOps : op'[t] = NoOp
  BY <1>1, <1>3, NoOpFields DEF SafeInv, QueueSafe, Gone
<1>9. /\ Prepared(s)' /\ inCall'.loop = "tick" /\ inCall'.then = s
      /\ ApiCall /\ TakePacketId(s) /\ UNCHANGED <<sendOps, nextOp, connectOp, connected>>
  BY <1>1, <1>6 DEF Prepared, PublishSend, sessionVars
<1> QED BY <1>1, <1>6, <1>7, <1>8, <1>9, SendSafe

-----------------------------------------------------------------------------
(***************************************************************************)
(* All the steps.                                                          *)
(***************************************************************************)

\* The next iteration of a loop.
LEMMA ContinueThen ==
    ASSUME NEW c \in Calls, Continue(c)
    PROVE  inCall'.then = c.then /\ (inCall'.then # 0 => inCall'.loop = c.loop)
BY DEF Continue, Idle, Calls

\* Operations that are idle before and after.
LEMMA IdleCall ==
    /\ CallEnds => inCall'.then = 0
    /\ ApiCall => inCall.then = 0
BY DEF CallEnds, ApiCall, Idle

LEMMA PublishApiSafe ==
    ASSUME SafeInv, TypeOK', PublishApi
    PROVE  SafeInv'
<1>1. QueueOK
  BY DEF SafeInv, TypeOK, QueueOK
<1>2. ASSUME NEW s \in Serial, PublishCancel(s) PROVE SafeInv'
  <2>1. QueueKept /\ StaysPrepared /\ s \notin sendOps'
    BY <1>1, <1>2, LeaveKept DEF PublishCancel, SafeInv
  <2>2. \A t \in sendOps : Prepared(t) /\ Prepared(t)' => preparationLocked'
    <3> SUFFICES ASSUME NEW t \in sendOps, Prepared(t), Prepared(t)' PROVE preparationLocked'
      OBVIOUS
    <3>1. t = nextOp - 1 /\ preparationLocked
      BY <1>2, IdlePrepared DEF PublishCancel
    <3>2. Prepared(s) => s = nextOp - 1
      BY <1>2, IdlePrepared DEF PublishCancel
    <3>3. s # t
      BY <2>1 DEF Prepared
    <3> QED BY <1>2, <3>1, <3>2, <3>3 DEF PublishCancel
  <2> QED BY <1>2, <2>1, <2>2, IdleCall, IdlePrepared, PrepKept
          DEF PublishCancel, SafeInv, PrepSafe, sessionVars
<1>3. ASSUME NEW o, SetPublishOrdering(o) PROVE SafeInv'
  <2>1. QueueKept /\ StaysPrepared
    BY <1>1, <1>3, TimersOnlyKept DEF SetPublishOrdering, SafeInv, queueVars
  <2> QED BY <1>3, <2>1, IdleCall, IdlePrepared, PrepKept
          DEF SetPublishOrdering, SafeInv, PrepSafe, sessionVars
<1> QED BY <1>2, <1>3, PublishPrepareSafe, PublishPauseSafe, PublishSendSafe DEF PublishApi

LEMMA TimersSafe ==
    ASSUME SafeInv, TypeOK', Timers
    PROVE  SafeInv'
<1>1. QueueOK
  BY DEF SafeInv, TypeOK, QueueOK
<1>2. ASSUME NEW F \in SUBSET Running, NEW ping \in BOOLEAN, Tick(F, ping) PROVE SafeInv'
  <2>1. F \in SUBSET Serial
    BY DEF Running, SafeInv, TypeOK
  <2>2. QueueKept /\ StaysPrepared
    BY <1>1, <1>2, <2>1, TimersOnlyKept DEF Tick, SafeInv
  <2>3. inCall'.then = 0
    BY <1>2 DEF Tick
  <2> QED BY <1>2, <2>2, <2>3, IdleCall, IdlePrepared, PrepKept
          DEF Tick, SafeInv, PrepSafe, sessionVars
<1>3. ASSUME NEW s \in Serial, ResponseTimeout(s) PROVE SafeInv'
  <2>1. QueueKept /\ StaysPrepared
    BY <1>1, <1>3, ResendDupKept DEF ResponseTimeout, SafeInv
  <2>2. inCall'.then = inCall.then /\ (inCall'.then # 0 => inCall'.loop = "tick")
    <3> DEFINE c == [inCall EXCEPT !.left = @ \ {s}]
    <3>1. c \in Calls /\ c.loop = "tick" /\ c.then = inCall.then
      BY <1>3 DEF ResponseTimeout, SafeInv, TypeOK, Calls
    <3>2. Continue(c)
      BY <1>3 DEF ResponseTimeout
    <3> HIDE DEF c
    <3> QED BY <3>1, <3>2, ContinueThen
  <2> QED BY <1>3, <2>1, <2>2, PrepKept
          DEF ResponseTimeout, SafeInv, PrepSafe, PreparedOp, sessionVars
<1>4. CASE PingTimeout
  <2>1. QueueKept /\ StaysPrepared
    BY <1>1, <1>4, TimersOnlyKept DEF PingTimeout, SafeInv
  <2>2. inCall'.then = inCall.then /\ (inCall'.then # 0 => inCall'.loop = "tick")
    <3> DEFINE c == [inCall EXCEPT !.ping = FALSE]
    <3>1. c \in Calls /\ c.loop = "tick" /\ c.then = inCall.then
      BY <1>4 DEF PingTimeout, SafeInv, TypeOK, Calls
    <3>2. Continue(c)
      BY <1>4 DEF PingTimeout
    <3> HIDE DEF c
    <3> QED BY <3>1, <3>2, ContinueThen
  <2> QED BY <1>4, <2>1, <2>2, PrepKept
          DEF PingTimeout, SessionLost, SafeInv, PrepSafe, PreparedOp
<1>5. CASE DoSend
  <2>1. QueueKept
    BY <1>5, DoSendKept
  <2>2. PICK s \in Serial : s = inCall.then /\ ~Prepared(s)'
    BY <1>5, DoSendKept
  <2>3. inCall'.then = 0
    BY <1>5 DEF DoSend, Idle
  <2> QED BY <1>5, <2>1, <2>2, <2>3, PrepKept
          DEF DoSend, SafeInv, PrepSafe, PreparedOp, sessionVars
<1> QED BY <1>2, <1>3, <1>4, <1>5 DEF Timers

LEMMA AcknowledgementsSafe ==
    ASSUME SafeInv, TypeOK', Acknowledgements
    PROVE  SafeInv'
<1>1. QueueOK
  BY DEF SafeInv, TypeOK, QueueOK
<1>2. ASSUME NEW s \in Serial, AckPubrec(s) PROVE SafeInv'
  <2>1. Confirmed(op'[s], op[s]) /\ \A t \in Serial \ {s} : op'[t] = op[t]
    BY <1>1, <1>2, OpFields, ZeroId DEF AckPubrec, IsLegitSendAck, QueueOK
  <2>2. \A t \in sendOps : Advanced(op'[t], op[t])
    BY <1>1, <2>1, OpFields, ZeroId DEF QueueOK, Advanced
  <2>3. QueueKept
    BY <1>1, <1>2, <2>1, <2>2
    DEF QueueKept, QueueOK, SafeInv, QueueSafe, Gone, IdsOf, AckPubrec, RecvAck
  <2>4. inCall'.then = 0 /\ ApiCall
    BY <1>2, IdleCall DEF AckPubrec, RecvAck
  <2> QED BY <1>2, <2>3, <2>4, IdlePrepared, IdleCall, PrepKept
          DEF AckPubrec, SafeInv, PrepSafe, sessionVars
<1>3. ASSUME NEW s \in Serial, ForceDupResend(s) PROVE SafeInv'
  <2>1. QueueKept /\ StaysPrepared
    <3>1. CASE UNCHANGED queueVars
      BY <1>1, <3>1, TimersOnlyKept DEF SafeInv, queueVars
    <3>2. CASE ResendDup(s)
      BY <1>1, <3>2, ResendDupKept DEF SafeInv
    <3> QED BY <1>3, <3>1, <3>2 DEF ForceDupResend
  <2>2. inCall'.then = 0 /\ inCall.then = 0
    <3> DEFINE c == [inCall EXCEPT !.left = LeftToResend(s)]
    <3>1. LeftToResend(s) \in SUBSET Serial
      BY DEF LeftToResend, TypeOK
    <3>2. c \in Calls /\ c.then = inCall.then
      BY <3>1 DEF SafeInv, TypeOK, Calls
    <3>3. Continue(c)
      BY <1>3 DEF ForceDupResend
    <3>4. inCall.then = 0
      BY <1>3 DEF ForceDupResend, SafeInv, PrepSafe
    <3> HIDE DEF c
    <3> QED BY <3>2, <3>3, <3>4, ContinueThen
  <2> QED BY <1>3, <2>1, <2>2, PrepKept
          DEF ForceDupResend, SafeInv, PrepSafe, PreparedOp, sessionVars
<1>4. ASSUME NEW s \in Serial, NEW ack, AckCompletes(s, ack) PROVE SafeInv'
  <2>1. QueueKept /\ StaysPrepared
    BY <1>1, <1>4, LeaveKept DEF AckCompletes, SafeInv
  <2>2. inCall'.then = 0 /\ ApiCall
    BY <1>4, IdleCall DEF AckCompletes, RecvAck
  <2> QED BY <1>4, <2>1, <2>2, IdlePrepared, IdleCall, PrepKept
          DEF AckCompletes, SafeInv, PrepSafe, sessionVars
<1>5. ASSUME NEW s \in Serial, NEW ack, AckProtocolError(s, ack) PROVE SafeInv'
  <2>1. QueueKept /\ StaysPrepared
    BY <1>1, <1>5, LeaveKept DEF AckProtocolError, SafeInv
  <2>2. inCall'.then = 0 /\ ApiCall
    BY <1>5, IdleCall DEF AckProtocolError, RecvAck
  <2> QED BY <1>5, <2>1, <2>2, IdlePrepared, IdleCall, PrepKept
          DEF AckProtocolError, SessionLost, SafeInv, PrepSafe
<1>6. ASSUME NEW s \in Serial, NEW ack, AckOutOfOrder(s, ack) PROVE SafeInv'
  <2>1. QueueKept /\ StaysPrepared
    BY <1>1, <1>6, TimersOnlyKept DEF AckOutOfOrder, SafeInv, queueVars
  <2>2. inCall'.then = 0 /\ ApiCall
    BY <1>6 DEF AckOutOfOrder, RecvAck, Idle
  <2> QED BY <1>6, <2>1, <2>2, IdlePrepared, IdleCall, PrepKept
          DEF AckOutOfOrder, SafeInv, PrepSafe, sessionVars
<1> QED BY <1>2, <1>3, <1>4, <1>5, <1>6 DEF Acknowledgements

LEMMA ConnectionSafe ==
    ASSUME SafeInv, TypeOK', Connection
    PROVE  SafeInv'
<1>1. QueueOK
  BY DEF SafeInv, TypeOK, QueueOK
<1>2. ASSUME UNCHANGED queueVars PROVE QueueKept /\ StaysPrepared
  BY <1>1, <1>2, TimersOnlyKept DEF SafeInv, queueVars
<1>3. CASE ConnectPrepare
  BY <1>2, <1>3, IdleCall, IdlePrepared, PrepKept
  DEF ConnectPrepare, connectUnchanged, SafeInv, PrepSafe
<1>4. ASSUME NEW clean \in BOOLEAN, ConnectSend(clean) PROVE SafeInv'
  BY <1>2, <1>4, IdleCall, IdlePrepared, PrepKept
  DEF ConnectSend, connectUnchanged, SafeInv, PrepSafe
<1>5. CASE ConnectEnds
  BY <1>2, <1>5, IdleCall, IdlePrepared, PrepKept
  DEF ConnectEnds, connectUnchanged, SafeInv, PrepSafe
<1>6. CASE ConnackRefused
  BY <1>2, <1>6, IdleCall, IdlePrepared, PrepKept
  DEF ConnackRefused, RecvConnack, connectUnchanged, SafeInv, PrepSafe
<1>7. CASE ConnackResumed
  <2>1. QueueKept /\ StaysPrepared
    BY <1>7, ResumedSessionKept
  <2> QED BY <1>7, <2>1, IdleCall, IdlePrepared, PrepKept
          DEF ConnackResumed, RecvConnack, SafeInv, PrepSafe
<1>8. CASE ConnackClean
  <2>1. inCall'.then = 0
    BY <1>8 DEF ConnackClean, Idle
  <2> QED BY <1>2, <1>8, <2>1, IdleCall, IdlePrepared, PrepKept
          DEF ConnackClean, RecvConnack, SafeInv, PrepSafe
<1>9. ASSUME NEW s \in Serial, TerminateOp(s) PROVE SafeInv'
  <2>1. QueueKept /\ StaysPrepared
    <3>1. CASE Leave(s, "Aborted", <<>>, FALSE)
      BY <1>1, <3>1, LeaveKept DEF SafeInv
    <3> QED BY <1>2, <1>9, <3>1 DEF TerminateOp
  <2>2. inCall'.then = 0 /\ inCall.then = 0
    <3> DEFINE c == [inCall EXCEPT !.left = @ \ {s}]
    <3>1. c \in Calls /\ c.then = inCall.then
      BY DEF SafeInv, TypeOK, Calls
    <3>2. Continue(c)
      BY <1>9 DEF TerminateOp
    <3>3. inCall.then = 0
      BY <1>9 DEF TerminateOp, SafeInv, PrepSafe
    <3> HIDE DEF c
    <3> QED BY <3>1, <3>2, <3>3, ContinueThen
  <2> QED BY <1>9, <2>1, <2>2, PrepKept
          DEF TerminateOp, SafeInv, PrepSafe, PreparedOp, sessionVars
<1>10. CASE FreeClient
  <2>1. inCall'.then = 0
    BY <1>10 DEF FreeClient, Idle
  <2> QED BY <1>2, <1>10, <2>1, IdleCall, IdlePrepared, PrepKept
          DEF FreeClient, SafeInv, PrepSafe, sessionVars
<1>11. ASSUME ApiCall, LoseSession PROVE SafeInv'
  <2>1. QueueKept /\ StaysPrepared
    BY <1>1, <1>11, TimersOnlyKept DEF LoseSession, SafeInv
  <2> QED BY <1>11, <2>1, IdleCall, IdlePrepared, PrepKept DEF LoseSession, SessionLost
<1>12. CASE NotifyNetworkDisconnected
  <2>1. CASE disconnecting
    BY <1>2, <1>11, <1>12, <2>1, IdleCall, IdlePrepared, PrepKept
    DEF NotifyNetworkDisconnected, SafeInv, PrepSafe
  <2> QED BY <1>11, <1>12, <2>1 DEF NotifyNetworkDisconnected
<1>13. CASE RecvMalformed \/ Disconnect
  BY <1>11, <1>13 DEF RecvMalformed, Disconnect
<1> QED BY <1>3, <1>4, <1>5, <1>6, <1>7, <1>8, <1>9, <1>10, <1>12, <1>13 DEF Connection

LEMMA SafeInit == Init => SafeInv
<1> SUFFICES ASSUME Init PROVE SafeInv
  OBVIOUS
<1>1. Gone
  BY DEF Init, Gone
<1>2. PacketIdsInUse
  BY DEF Init, PacketIdsInUse
<1>3. PrepSafe
  BY DEF Init, PrepSafe, Idle
<1> QED BY <1>1, <1>2, <1>3, TypeInit DEF Init, SafeInv, QueueSafe

LEMMA SafeInvariant == Spec => []SafeInv
<1>1. SafeInv /\ TypeOK' /\ [Next]_vars => SafeInv'
  <2> SUFFICES ASSUME SafeInv, TypeOK', [Next]_vars PROVE SafeInv'
    OBVIOUS
  <2>1. CASE UNCHANGED vars
    BY <2>1 DEF vars, sessionVars, queueVars, SafeInv, QueueSafe, Gone, PacketIdsInUse,
                PrepSafe, PreparedOp, Prepared
  <2> QED BY <2>1, PublishApiSafe, TimersSafe, AcknowledgementsSafe, ConnectionSafe DEF Next
<1> QED BY <1>1, SafeInit, SendOpsTypeOK, PTL DEF Spec

\* The packet identifiers marked as in use are those of the publish operations
\* in the list, and no two of them share one: whatever completes, fails, is
\* resumed, terminated or carried over a reconnection, its destructor releases
\* exactly what SendOp::send took.
THEOREM SendOpsIdsInUse == Spec => []PacketIdsInUse
<1>1. SafeInv => PacketIdsInUse
  BY DEF SafeInv, QueueSafe
<1> QED BY <1>1, SafeInvariant, PTL

\* At most one operation is prepared and not sent, it is the last of the list,
\* and no connect operation exists then; the attempts of the published ones are
\* within their limit. The assertions of resendDupMsg and of
\* postReconnectionResend rest on it.
THEOREM SendOpsOnePreparation == Spec => []OnePreparation
<1>1. SafeInv => OnePreparation
  BY DEF SafeInv, QueueSafe, LifeCycle, PrepSafe, PreparedOp, OnePreparation
<1> QED BY <1>1, SafeInvariant, PTL

-----------------------------------------------------------------------------
(***************************************************************************)
(* What the publish operations send, and in which order: proofs for every  *)
(* number of operations and attempts and every limit.                      *)
(***************************************************************************)

(***************************************************************************)
(* InOrder(S) enumerates S in increasing order.                            *)
(***************************************************************************)
Below(S, s) == {r \in S : r < s}

\* Serial numbers are numbers.
LEMMA SerialNat == \A s \in Serial : s \in Nat /\ 1 <= s /\ s <= MaxPublishes
BY SendOpsAssumption DEF Serial

\* Sets of operations are finite and have a first and a last element.
LEMMA FiniteSerial ==
    ASSUME NEW S \in SUBSET Serial
    PROVE  /\ IsFiniteSet(S) /\ Cardinality(S) \in Nat
           /\ S # {} => /\ \E m \in S : \A n \in S : m <= n
                        /\ \E m \in S : \A n \in S : n <= m
<1>1. IsFiniteSet(Serial)
  BY FS_Interval, SendOpsAssumption DEF Serial
<1>2. IsFiniteSet(S) /\ Cardinality(S) \in Nat
  BY <1>1, FS_Subset, FS_CardinalityType
<1>3. ASSUME S # {} PROVE \E m \in S : \A n \in S : m <= n
  BY <1>3, LeastNat, SerialNat
<1>4. ASSUME S # {} PROVE \E m \in S : \A n \in S : n <= m
  <2> DEFINE T == {MaxPublishes - n : n \in S}
  <2>1. T \in SUBSET Nat /\ T # {}
    <3>1. \A n \in S : MaxPublishes - n \in Nat
      BY SerialNat, SendOpsAssumption
    <3> QED BY <1>4, <3>1
  <2>2. PICK t \in T : \A u \in T : t <= u
    BY <2>1, LeastNat
  <2>3. PICK m \in S : t = MaxPublishes - m
    BY <2>2
  <2>4. \A n \in S : MaxPublishes - m <= MaxPublishes - n
    BY <2>2, <2>3
  <2> QED BY <2>4, SerialNat, SendOpsAssumption
<1> QED BY <1>2, <1>3, <1>4

LEMMA Ranks ==
    ASSUME NEW S \in SUBSET Serial
    PROVE  /\ \A s \in S : /\ IsFiniteSet(Below(S, s))
                           /\ Cardinality(Below(S, s)) \in 0..(Cardinality(S) - 1)
           /\ \A s, t \in S : s < t => Cardinality(Below(S, s)) < Cardinality(Below(S, t))
<1>1. IsFiniteSet(S) /\ Cardinality(S) \in Nat
  BY FiniteSerial
<1>2. \A s \in S : IsFiniteSet(Below(S, s)) /\ Cardinality(Below(S, s)) \in Nat
  <2>1. \A s \in S : Below(S, s) \in SUBSET S
    BY DEF Below
  <2> QED BY <1>1, <2>1, FS_Subset, FS_CardinalityType
<1>3. \A s \in S : s \notin Below(S, s)
  BY SerialNat DEF Below
<1>4. ASSUME NEW s \in S, NEW T \in SUBSET S, IsFiniteSet(T), Below(S, s) \cup {s} \subseteq T
      PROVE  Cardinality(Below(S, s)) + 1 <= Cardinality(T)
  <2>1. /\ IsFiniteSet(Below(S, s) \cup {s})
        /\ Cardinality(Below(S, s) \cup {s}) = Cardinality(Below(S, s)) + 1
    BY <1>2, <1>3, FS_AddElement
  <2> QED BY <1>4, <2>1, FS_Subset
<1>5. \A s \in S : Cardinality(Below(S, s)) \in 0..(Cardinality(S) - 1)
  <2>1. ASSUME NEW s \in S PROVE Cardinality(Below(S, s)) + 1 <= Cardinality(S)
    BY <1>1, <1>4 DEF Below
  <2> QED BY <1>1, <1>2, <2>1
<1>6. ASSUME NEW s \in S, NEW t \in S, s < t
      PROVE  Cardinality(Below(S, s)) < Cardinality(Below(S, t))
  <2>1. Below(S, s) \cup {s} \subseteq Below(S, t) /\ Below(S, t) \in SUBSET S
    BY <1>6, SerialNat DEF Below
  <2>2. Cardinality(Below(S, s)) + 1 <= Cardinality(Below(S, t))
    BY <1>2, <1>4, <2>1
  <2> QED BY <1>2, <2>2
<1> QED BY <1>2, <1>5, <1>6

LEMMA RankExists ==
    ASSUME NEW S \in SUBSET Serial, NEW i \in 0..(Cardinality(S) - 1)
    PROVE  \E s \in S : Cardinality(Below(S, s)) = i
<1>1. IsFiniteSet(S) /\ Cardinality(S) \in Nat
  BY FiniteSerial
<1> DEFINE B == {k \in 0..(Cardinality(S) - 1) : ~\E s \in S : Cardinality(Below(S, s)) = k}
<1>2. SUFFICES ASSUME B # {} PROVE FALSE
  OBVIOUS
<1>3. B \in SUBSET Nat
  BY <1>1
<1>4. PICK b \in B : \A k \in B : b <= k
  BY <1>2, <1>3, LeastNat
<1>5. b \in Nat /\ b < Cardinality(S) /\ ~\E s \in S : Cardinality(Below(S, s)) = b
  BY <1>1, <1>4
<1>6. S # {}
  BY <1>1, <1>5, FS_EmptySet
<1>7. CASE b = 0
  <2>1. PICK m \in S : \A n \in S : m <= n
    BY <1>6, FiniteSerial
  <2>2. Below(S, m) = {}
    BY <2>1, SerialNat DEF Below
  <2> QED BY <1>5, <1>7, <2>2, FS_EmptySet
<1>8. CASE b # 0
  <2>1. b - 1 \in 0..(Cardinality(S) - 1) /\ b - 1 \notin B
    BY <1>1, <1>3, <1>4, <1>5, <1>8
  <2>2. PICK s \in S : Cardinality(Below(S, s)) = b - 1
    BY <2>1
  <2> DEFINE A == {r \in S : s < r}
  <2>3. /\ IsFiniteSet(Below(S, s) \cup {s})
        /\ Cardinality(Below(S, s) \cup {s}) = b
    <3>1. s \notin Below(S, s)
      BY SerialNat DEF Below
    <3> QED BY <1>5, <2>2, <3>1, Ranks, FS_AddElement
  <2>4. A # {}
    <3> SUFFICES ASSUME A = {} PROVE FALSE
      OBVIOUS
    <3>1. S = Below(S, s) \cup {s}
      BY SerialNat DEF Below
    <3>2. Cardinality(S) = b
      BY <2>3, <3>1
    <3> QED BY <1>5, <3>2
  <2>5. PICK t \in A : \A n \in A : t <= n
    BY <2>4, FiniteSerial
  <2>6. Below(S, t) = Below(S, s) \cup {s}
    BY <2>5, SerialNat DEF Below
  <2> QED BY <1>5, <2>3, <2>5, <2>6
<1> QED BY <1>7, <1>8

LEMMA InOrderFacts ==
    ASSUME NEW S \in SUBSET Serial
    PROVE  /\ Cardinality(S) \in Nat
           /\ InOrder(S) \in [1..Cardinality(S) -> S]
           /\ \A i, j \in 1..Cardinality(S) : i < j => InOrder(S)[i] < InOrder(S)[j]
           /\ \A s \in S : \E i \in 1..Cardinality(S) : InOrder(S)[i] = s
<1>1. Cardinality(S) \in Nat
  BY FiniteSerial
<1>2. \A i \in 1..Cardinality(S) :
         InOrder(S)[i] = CHOOSE s \in S : Cardinality(Below(S, s)) = i - 1
  BY DEF InOrder, Below
<1>3. \A i \in 1..Cardinality(S) :
         InOrder(S)[i] \in S /\ Cardinality(Below(S, InOrder(S)[i])) = i - 1
  <2>1. ASSUME NEW i \in 1..Cardinality(S)
        PROVE  \E s \in S : Cardinality(Below(S, s)) = i - 1
    <3>1. i - 1 \in 0..(Cardinality(S) - 1)
      BY <1>1
    <3> QED BY <3>1, RankExists
  <2> QED BY <1>2, <2>1
<1>4. InOrder(S) \in [1..Cardinality(S) -> S]
  BY <1>3 DEF InOrder
<1>5. \A s, t \in S : s \in Int /\ t \in Int
  BY SerialNat
<1>6. ASSUME NEW i \in 1..Cardinality(S), NEW j \in 1..Cardinality(S), i < j
      PROVE  InOrder(S)[i] < InOrder(S)[j]
  <2>1. PICK s \in S, t \in S : s = InOrder(S)[i] /\ t = InOrder(S)[j]
    BY <1>3
  <2>2. Cardinality(Below(S, s)) = i - 1 /\ Cardinality(Below(S, t)) = j - 1
    BY <1>3, <2>1
  <2>3. ~(t < s) /\ t # s
    BY <1>1, <1>6, <2>2, Ranks
  <2> QED BY <1>5, <2>1, <2>3
<1>7. ASSUME NEW s \in S PROVE \E i \in 1..Cardinality(S) : InOrder(S)[i] = s
  <2>1. PICK k \in 0..(Cardinality(S) - 1) : k = Cardinality(Below(S, s))
    BY Ranks
  <2>2. k + 1 \in 1..Cardinality(S)
    BY <1>1
  <2>3. PICK t \in S : t = InOrder(S)[k + 1] /\ Cardinality(Below(S, t)) = k
    BY <1>1, <1>3, <2>2
  <2>4. ~(t < s) /\ ~(s < t)
    BY <1>1, <2>1, <2>3, Ranks
  <2> QED BY <1>5, <2>2, <2>3, <2>4
<1> QED BY <1>1, <1>4, <1>6, <1>7

-----------------------------------------------------------------------------
(***************************************************************************)
(* The messages of a step.                                                 *)
(***************************************************************************)

\* The elements of two sequences one after the other.
Joined(a, b) ==
    /\ Len(a) \in Nat /\ Len(b) \in Nat
    /\ DOMAIN (a \o b) = 1..(Len(a) + Len(b))
    /\ \A i \in 1..Len(a) : (a \o b)[i] = a[i]
    /\ \A i \in 1..Len(b) : (a \o b)[Len(a) + i] = b[i]

LEMMA ConcatElements ==
    ASSUME NEW X, NEW Y, NEW a \in Seq(X), NEW b \in Seq(Y)
    PROVE  Joined(a, b)
<1> DEFINE Z == X \cup Y
<1>1. a \in Seq(Z) /\ b \in Seq(Z)
  BY SeqDef
<1> HIDE DEF Z
<1>2. /\ a \o b \in Seq(Z) /\ Len(a \o b) = Len(a) + Len(b)
      /\ \A i \in 1 .. Len(a) + Len(b) :
            (a \o b)[i] = IF i <= Len(a) THEN a[i] ELSE b[i - Len(a)]
  BY <1>1, ConcatProperties
<1>3. Len(a) \in Nat /\ Len(b) \in Nat
  BY <1>1, LenProperties
<1>4. DOMAIN (a \o b) = 1..(Len(a) + Len(b))
  BY <1>2, LenProperties
<1>5. ASSUME NEW i \in 1..Len(a) PROVE (a \o b)[i] = a[i]
  BY <1>2, <1>3
<1>6. ASSUME NEW i \in 1..Len(b) PROVE (a \o b)[Len(a) + i] = b[i]
  <2>1. Len(a) + i \in 1..(Len(a) + Len(b)) /\ ~(Len(a) + i <= Len(a)) /\ Len(a) + i - Len(a) = i
    BY <1>3
  <2> QED BY <1>2, <2>1
<1> QED BY <1>3, <1>4, <1>5, <1>6 DEF Joined

\* A function on an initial interval is a sequence.
LEMMA FunctionIsSeq ==
    ASSUME NEW n \in Nat, NEW X, NEW b \in [1..n -> X]
    PROVE  b \in Seq(X) /\ Len(b) = n
<1>1. b \in Seq(X)
  BY SeqDef
<1>2. DOMAIN b = 1..Len(b) /\ DOMAIN b = 1..n /\ Len(b) \in Nat
  BY <1>1, LenProperties
<1>3. \A k, m \in Nat : 1..k = 1..m => k = m
  <2> SUFFICES ASSUME NEW k \in Nat, NEW m \in Nat, 1..k = 1..m, k < m PROVE FALSE
    OBVIOUS
  <2>1. m \in 1..m /\ m \notin 1..k
    OBVIOUS
  <2> QED BY <2>1
<1>4. Len(b) = n
  BY <1>2, <1>3
<1> QED BY <1>1, <1>4

LEMMA PublishFields ==
    ASSUME NEW f, NEW s, NEW d
    PROVE  /\ Publish(f, s, d).type = "PUBLISH" /\ Publish(f, s, d).op = s
           /\ Publish(f, s, d).dup = d
           /\ Pubrel(s).type = "PUBREL" /\ Pubrel(s).op = 0
BY DEF Publish, Pubrel

\* out' is sent, followed by the first PUBLISH of the operations of R that fit,
\* in order; m and n are the lengths of the two parts.
FirstPart(sent, m) ==
    \A i \in 1..m : out'[i] = sent[i]

SecondPart(f, R, m, n) ==
    /\ \A i \in 1..n : \E s \in R : f[s].fits /\ out'[m + i] = Publish(f, s, FALSE)
    /\ \A s \in R : f[s].fits => \E i \in 1..n : out'[m + i] = Publish(f, s, FALSE)
    /\ \A i, j \in 1..n : i < j => out'[m + i].op < out'[m + j].op

Sends(f, R, sent) ==
    \E n \in Nat : /\ Len(sent) \in Nat
                   /\ DOMAIN out' = 1..(Len(sent) + n)
                   /\ FirstPart(sent, Len(sent)) /\ SecondPart(f, R, Len(sent), n)

LEMMA ResumedSends ==
    ASSUME NEW f, NEW R \in SUBSET Serial, NEW Y, NEW sent \in Seq(Y),
           out' = sent \o FirstPublishes(f, R)
    PROVE  Sends(f, R, sent)
<1> DEFINE S == {s \in R : f[s].fits}
           n == Cardinality(S)
           b == FirstPublishes(f, R)
           X == {Publish(f, s, FALSE) : s \in Serial}
<1>1. /\ n \in Nat /\ InOrder(S) \in [1..n -> S]
      /\ \A i, j \in 1..n : i < j => InOrder(S)[i] < InOrder(S)[j]
      /\ \A s \in S : \E i \in 1..n : InOrder(S)[i] = s
  <2>1. S \in SUBSET Serial
    OBVIOUS
  <2> HIDE DEF S
  <2> QED BY <2>1, InOrderFacts
<1>2. b = [i \in 1..n |-> Publish(f, InOrder(S)[i], FALSE)]
  BY <1>1 DEF FirstPublishes
<1> HIDE DEF b, n
<1>3. b \in [1..n -> X]
  BY <1>1, <1>2
<1> HIDE DEF S, X
<1>4. b \in Seq(X) /\ Len(b) = n
  BY <1>1, <1>3, FunctionIsSeq
<1>5. /\ Len(sent) \in Nat /\ DOMAIN out' = 1..(Len(sent) + n)
      /\ \A i \in 1..Len(sent) : out'[i] = sent[i]
      /\ \A i \in 1..n : out'[Len(sent) + i] = Publish(f, InOrder(S)[i], FALSE)
  <2>1. out' = sent \o b
    BY DEF b
  <2>2. Joined(sent, b)
    BY <1>4, ConcatElements
  <2>3. \A i \in 1..n : b[i] = Publish(f, InOrder(S)[i], FALSE)
    BY <1>2
  <2> QED BY <1>4, <2>1, <2>2, <2>3 DEF Joined
<1>6. SecondPart(f, R, Len(sent), n)
  <2>1. \A i \in 1..n : InOrder(S)[i] \in R /\ f[InOrder(S)[i]].fits
    BY <1>1 DEF S
  <2>2. \A s \in R : f[s].fits => s \in S
    BY DEF S
  <2>3. \A s \in R : f[s].fits => \E i \in 1..n : out'[Len(sent) + i] = Publish(f, s, FALSE)
    BY <1>1, <1>5, <2>2
  <2>4. \A i \in 1..n : out'[Len(sent) + i].op = InOrder(S)[i]
    <3>1. \A k : Publish(f, k, FALSE).op = k
      BY DEF Publish
    <3> QED BY <1>5, <3>1
  <2> QED BY <1>1, <1>5, <2>1, <2>3, <2>4 DEF SecondPart
<1> QED BY <1>1, <1>5, <1>6 DEF Sends, FirstPart

-----------------------------------------------------------------------------
(***************************************************************************)
(* Which operations a message may be sent for. A repetition is of an       *)
(* operation that was published, or of the next one of a loop.             *)
(***************************************************************************)
InTheLoop(s) ==
    /\ inCall.loop \in {"tick", "resend"} /\ s \in inCall.left
    /\ inCall.loop = "resend" => ~op[s].paused

Legal(msg) ==
    msg.type = "PUBLISH" =>
        /\ ~op[msg.op].acked
        /\ ~msg.dup => ~op[msg.op].published
        /\ msg.dup => op[msg.op].published \/ InTheLoop(msg.op)

OutLegal == \A i \in DOMAIN out' : Legal(out'[i])

\* Resuming operations that were never published is legal.
LEMMA ResumedLegal ==
    ASSUME NEW f, NEW R \in SUBSET Serial, NEW Y, NEW sent \in Seq(Y),
           out' = sent \o FirstPublishes(f, R),
           \A i \in 1..Len(sent) : Legal(sent[i]),
           \A k \in R : ~op[k].published /\ ~op[k].acked
    PROVE  OutLegal
<1>1. Sends(f, R, sent)
  BY ResumedSends
<1>2. PICK n \in Nat : /\ Len(sent) \in Nat /\ DOMAIN out' = 1..(Len(sent) + n)
                       /\ FirstPart(sent, Len(sent)) /\ SecondPart(f, R, Len(sent), n)
  BY <1>1 DEF Sends
<1>3. ASSUME NEW i \in DOMAIN out' PROVE Legal(out'[i])
  <2>1. CASE i <= Len(sent)
    BY <1>2, <2>1 DEF FirstPart
  <2>2. CASE ~(i <= Len(sent))
    <3>1. i - Len(sent) \in 1..n /\ i = Len(sent) + (i - Len(sent))
      BY <1>2, <2>2
    <3>2. PICK s \in R : out'[i] = Publish(f, s, FALSE)
      BY <1>2, <3>1 DEF SecondPart
    <3>3. Legal(Publish(f, s, FALSE))
      BY DEF Legal, Publish
    <3> QED BY <3>2, <3>3
  <2> QED BY <2>1, <2>2
<1> QED BY <1>3 DEF OutLegal

LEMMA LeaveLegal ==
    ASSUME SafeInv, NEW s \in Serial, NEW status, NEW Y, NEW sent \in Seq(Y), NEW lost,
           \A i \in 1..Len(sent) : Legal(sent[i]),
           Leave(s, status, sent, lost)
    PROVE  OutLegal
<1> DEFINE f == [op EXCEPT ![s] = NoOp]
           L == sendOps \ {s}
           R == IF disconnecting THEN {} ELSE Resumable(f, L, s)
<1>1. \A t \in L : t \in Serial /\ f[t] = op[t]
  BY DEF SafeInv, TypeOK
<1>2. \A k \in R : k \in sendOps /\ op[k].paused /\ k \in Serial
  <2>1. R \subseteq {k \in L : f[k].paused}
    BY ResumablePaused
  <2> QED BY <1>1, <2>1
<1>3. out' = sent \o FirstPublishes(f, R)
  BY DEF Leave, Resumed
<1>4. \A k \in R : ~op[k].published /\ ~op[k].acked
  BY <1>2 DEF SafeInv, QueueSafe, LifeCycle
<1>5. R \in SUBSET Serial
  BY <1>2
<1> HIDE DEF f, R
<1> QED BY <1>3, <1>4, <1>5, ResumedLegal

LEMMA QuietLegal ==
    /\ \A Y : <<>> \in Seq(Y) /\ Len(<<>>) = 0 /\ \A i \in 1..Len(<<>>) : Legal(<<>>[i])
    /\ out' = <<>> => OutLegal
<1>1. \A Y : <<>> \in Seq(Y) /\ Len(<<>>) = 0
  BY EmptySeq
<1>2. DOMAIN <<>> = {}
  OBVIOUS
<1> QED BY <1>1, <1>2 DEF OutLegal

\* One message.
LEMMA OneLegal ==
    ASSUME NEW msg, Legal(msg)
    PROVE  /\ <<msg>> \in Seq({msg}) /\ \A i \in 1..Len(<<msg>>) : Legal(<<msg>>[i])
           /\ out' = <<msg>> => OutLegal
<1>1. <<msg>> \in Seq({msg}) /\ Len(<<msg>>) = 1 /\ <<msg>>[1] = msg /\ DOMAIN <<msg>> = {1}
  OBVIOUS
<1> QED BY <1>1 DEF OutLegal

\* What a step sends.
Silent ==
    out' = <<>> \/ out' = <<DisconnectMsg>> \/ \E s \in Serial : out' = <<Pubrel(s)>>

Ends == \E s \in Serial, lost \in BOOLEAN : \E status : Leave(s, status, <<>>, lost)

Repeats ==
    \E s \in Serial : /\ InTheLoop(s) /\ op[s].attempts < op[s].total
                      /\ out' = <<Publish(op, s, TRUE)>> /\ ~op[s].acked

LEMMA StepSends ==
    ASSUME Next
    PROVE  Silent \/ Ends \/ Repeats \/ DoSend \/ ConnackResumed
<1>1. ASSUME NEW s \in Serial, NEW lost \in BOOLEAN, NEW status, Leave(s, status, <<>>, lost)
      PROVE  Ends
  BY <1>1, Zenon DEF Ends
<1>2. (out' = <<>> => Silent) /\ (out' = <<DisconnectMsg>> => Silent)
      /\ \A s \in Serial : out' = <<Pubrel(s)>> => Silent
  BY DEF Silent
<1>3. ASSUME NEW s \in Serial, ResendDup(s), InTheLoop(s) PROVE Silent \/ Ends \/ Repeats
  <2>1. CASE Leave(s, "Timeout", <<>>, FALSE)
    BY <1>1, <2>1
  <2>2. CASE /\ op[s].attempts < op[s].total
             /\ out' = <<IF op[s].acked THEN Pubrel(s) ELSE Publish(op, s, TRUE)>>
    BY <1>2, <1>3, <2>2 DEF Repeats
  <2> QED BY <1>3, <2>1, <2>2 DEF ResendDup
<1>4. CASE PublishApi
  BY <1>1, <1>2, <1>4
  DEF PublishApi, PublishPrepare, PublishPause, PublishCancel, PublishSend, SetPublishOrdering
<1>5. CASE Timers
  BY <1>2, <1>3, <1>5 DEF Timers, Tick, ResponseTimeout, PingTimeout, InTheLoop
<1>6. CASE Acknowledgements
  <2>1. ASSUME NEW s \in Serial, ForceDupResend(s) PROVE Silent \/ Ends \/ Repeats
    BY <1>2, <1>3, <2>1 DEF ForceDupResend, InTheLoop
  <2> QED BY <1>1, <1>2, <1>6, <2>1
          DEF Acknowledgements, AckPubrec, AckCompletes, AckProtocolError, AckOutOfOrder
<1>7. CASE Connection
  BY <1>1, <1>2, <1>7
  DEF Connection, ConnectPrepare, ConnectSend, ConnectEnds, ConnackRefused, ConnackClean,
      FreeClient, TerminateOp, NotifyNetworkDisconnected, RecvMalformed, Disconnect
<1> QED BY <1>4, <1>5, <1>6, <1>7 DEF Next

LEMMA DoSendLegal ==
    ASSUME SafeInv, DoSend
    PROVE  OutLegal
<1>1. PICK s \in Serial : s = inCall.then
  BY DoSendKept
<1>2. ~op[s].published /\ ~op[s].acked
  <2>1. CASE s \in sendOps
    BY <1>1, <2>1 DEF SafeInv, PrepSafe, QueueSafe, LifeCycle, Prepared
  <2>2. CASE s \notin sendOps
    BY <2>2, NoOpFields DEF SafeInv, QueueSafe, Gone
  <2> QED BY <2>1, <2>2
<1> DEFINE msg == Publish(op, s, FALSE)
<1>3. Legal(msg)
  BY <1>2 DEF Legal, Publish
<1> HIDE DEF msg
<1>4. CASE CompletesAtOnce(op[s])
  <2>1. CASE op[s].fits
    <3>1. PICK status : Leave(s, status, <<msg>>, FALSE)
      BY <1>1, <1>4, <2>1 DEF DoSend, msg
    <3> QED BY <1>3, <3>1, OneLegal, LeaveLegal
  <2>2. CASE ~op[s].fits
    <3>1. PICK status : Leave(s, status, <<>>, FALSE)
      BY <1>1, <1>4, <2>2 DEF DoSend
    <3> QED BY <3>1, QuietLegal, LeaveLegal
  <2> QED BY <2>1, <2>2
<1>5. CASE ~CompletesAtOnce(op[s])
  <2>1. out' = <<msg>>
    BY <1>1, <1>5 DEF DoSend, msg
  <2> QED BY <1>3, <2>1, OneLegal
<1> QED BY <1>4, <1>5

\* A reconnection repeats what was published, and resumes what was paused.
LEMMA ReconnectSends ==
    ASSUME SafeInv, ConnackResumed
    PROVE  \E n, Y :
              /\ n \in Nat /\ ResendAll.sent \in Seq(Y) /\ Len(ResendAll.sent) = n
              /\ \A i \in 1..n : Legal(ResendAll.sent[i])
              /\ \A i \in 1..n : ResendAll.sent[i].type = "PUBLISH" =>
                    ResendAll.sent[i].dup /\ ResendAll.sent[i].op \in sendOps
<1> DEFINE again == {s \in sendOps : ~op[s].paused}
           n == Cardinality(again)
           order == InOrder(again)
           Msg(s) == IF op[s].acked THEN Pubrel(s) ELSE Publish(op, s, TRUE)
           Y == {Msg(s) : s \in Serial}
<1>1. again \in SUBSET Serial
  BY DEF SafeInv, TypeOK
<1>2. \A s \in again : op[s].published
  BY DEF SafeInv, PrepSafe, PreparedOp, Prepared, ConnackResumed, RecvConnack
<1>3. ResendAll.sent = [i \in DOMAIN order |-> Msg(order[i])]
  BY DEF ResendAll
<1>4. \A s \in again : /\ Legal(Msg(s))
                       /\ Msg(s).type = "PUBLISH" => Msg(s).dup /\ Msg(s).op \in sendOps
  BY <1>2 DEF Legal, Publish, Pubrel
<1> HIDE DEF again
<1>5. n \in Nat /\ order \in [1..n -> again]
  BY <1>1, InOrderFacts
<1> HIDE DEF n, order, Msg
<1>6. ResendAll.sent \in [1..n -> Y] /\ \A i \in 1..n : ResendAll.sent[i] = Msg(order[i])
  BY <1>1, <1>3, <1>5
<1> HIDE DEF Y
<1>7. ResendAll.sent \in Seq(Y) /\ Len(ResendAll.sent) = n
  BY <1>5, <1>6, FunctionIsSeq
<1>8. \A i \in 1..n : /\ Legal(ResendAll.sent[i])
                      /\ ResendAll.sent[i].type = "PUBLISH" =>
                            ResendAll.sent[i].dup /\ ResendAll.sent[i].op \in sendOps
  BY <1>4, <1>5, <1>6
<1> QED BY <1>5, <1>7, <1>8

\* The operations a reconnection resumes.
TailResumed(f) ==
    UNION {Resumable(f, sendOps, i) : i \in {i \in PausedTail : \A j \in PausedTail : i <= j}}

LEMMA ReconnectFields ==
    ASSUME SafeInv, ConnackResumed
    PROVE  /\ ResendAll.f \in [Serial -> OpState]
           /\ \A t \in sendOps : Kept(ResendAll.f[t], op[t])
           /\ \A k \in TailResumed(ResendAll.f) : k \in sendOps /\ op[k].paused
           /\ Resumed(ResendAll.f, sendOps, TailResumed(ResendAll.f), {}, result,
                      ResendAll.sent, FALSE)
<1> DEFINE f == ResendAll.f
<1>1. QueueOK
  BY DEF SafeInv, TypeOK, QueueOK
<1>2. f = [s \in Serial |->
             IF s \in {t \in sendOps : ~op[t].paused} THEN Started(op[s]) ELSE op[s]]
  BY DEF ResendAll
<1>3. f \in [Serial -> OpState]
  BY <1>1, <1>2, OpStateKept, ZeroId DEF QueueOK
<1>4. \A t \in sendOps : op[t].paused \/ op[t].published
  BY DEF SafeInv, PrepSafe, PreparedOp, Prepared, ConnackResumed, RecvConnack
<1>5. \A t \in sendOps : Kept(f[t], op[t])
  BY <1>1, <1>2, <1>4, OpFields, ZeroId DEF QueueOK
<1> HIDE DEF f
<1>6. \A k \in TailResumed(f) : k \in sendOps /\ op[k].paused
  <2>1. \A k \in TailResumed(f) : k \in sendOps /\ f[k].paused
    BY ResumablePaused DEF TailResumed
  <2> QED BY <1>5, <2>1 DEF Kept
<1> QED BY <1>3, <1>5, <1>6 DEF f, ConnackResumed, TailResumed

LEMMA ReconnectLegal ==
    ASSUME SafeInv, ConnackResumed
    PROVE  OutLegal
<1>1. PICK f, R, sent : f = ResendAll.f /\ R = TailResumed(ResendAll.f) /\ sent = ResendAll.sent
  OBVIOUS
<1>2. Resumed(f, sendOps, R, {}, result, sent, FALSE)
  BY <1>1, ReconnectFields
<1>3. out' = sent \o FirstPublishes(f, R)
  BY <1>2 DEF Resumed
<1>4. \A k \in R : k \in sendOps /\ op[k].paused
  BY <1>1, ReconnectFields
<1>5. R \in SUBSET Serial /\ \A k \in R : ~op[k].published /\ ~op[k].acked
  BY <1>4 DEF SafeInv, TypeOK, QueueSafe, LifeCycle
<1>6. PICK n, Y : n \in Nat /\ sent \in Seq(Y) /\ Len(sent) = n /\ \A i \in 1..n : Legal(sent[i])
  BY <1>1, ReconnectSends
<1> QED BY <1>3, <1>5, <1>6, ResumedLegal

LEMMA StepLegal ==
    ASSUME SafeInv, Next
    PROVE  OutLegal
<1>1. CASE Silent
  <2>1. Legal(DisconnectMsg) /\ \A s : Legal(Pubrel(s))
    BY DEF Legal, DisconnectMsg, Pubrel
  <2> QED BY <1>1, <2>1, QuietLegal, OneLegal DEF Silent
<1>2. CASE Ends
  BY <1>2, QuietLegal, LeaveLegal DEF Ends
<1>3. CASE Repeats
  <2>1. PICK s \in Serial : /\ InTheLoop(s) /\ out' = <<Publish(op, s, TRUE)>>
                            /\ ~op[s].acked
    BY <1>3 DEF Repeats
  <2>2. Legal(Publish(op, s, TRUE))
    BY <2>1 DEF Legal, Publish
  <2> QED BY <2>1, <2>2, OneLegal
<1> QED BY <1>1, <1>2, <1>3, StepSends, DoSendLegal, ReconnectLegal

\* A message that the broker confirmed with a PUBREC is never published again:
\* not by the response timer, not by resendAllUntil, not after a reconnection
\* and not by resumeSendOpsSince.
THEOREM SendOpsAckedNeverRepublished == Spec => AckedNeverRepublished
<1>1. SafeInv /\ [Next]_vars =>
         [\A i \in DOMAIN out' : out'[i].type = "PUBLISH" => ~op[out'[i].op].acked]_vars
  BY StepLegal DEF OutLegal, Legal
<1> QED BY <1>1, SafeInvariant, PTL DEF Spec, AckedNeverRepublished

-----------------------------------------------------------------------------
(***************************************************************************)
(* The order of the list. f is the state of the operations and L the list. *)
(* Nothing is published ahead of an operation that was sent before it, and *)
(* only the last one may be neither paused nor published.                  *)
(***************************************************************************)
InLine(f, L) ==
    /\ \A r, s \in L : r < s /\ f[s].published => f[r].published
    /\ \A r, s \in L : r < s => f[r].paused \/ f[r].published
    /\ \A r \in L : ~(f[r].paused /\ f[r].published)

\* SendOp::canSend under full ordering: no earlier operation has a higher QoS,
\* and the one right before is not paused.
Ready(f, L, k) ==
    \A j \in L : j < k => /\ f[j].qos <= f[k].qos
                          /\ f[j].paused => \E m \in L : j < m /\ m < k

LEMMA CanSendReady ==
    ASSUME NEW f, NEW L \in SUBSET Serial, NEW k \in L, publishOrdering = "Full"
    PROVE  CanSend(f, L, k, k) <=> Ready(f, L, k)
<1>1. \A j \in L : j \in Nat
  BY SerialNat
<1>2. {j \in L : k <= j /\ j < k /\ f[j].paused /\ CompletesAtOnce(f[j])} = {}
  BY <1>1
<1>3. CanSend(f, L, k, k) <=>
         LET before == {j \in L : j < k}
         IN /\ \A j \in before : f[j].qos <= f[k].qos
            /\ \A j \in before : j < k /\ f[j].paused => \E m \in before : j < m
  BY <1>2 DEF CanSend
<1> QED BY <1>3 DEF Ready

\* Behind an operation that is not published the neighbour is a paused one.
LEMMA LastPaused ==
    ASSUME NEW f, NEW L \in SUBSET Serial, InLine(f, L), NEW k \in L, NEW r \in L, r < k,
           ~f[r].published
    PROVE  \E p \in L : /\ p < k /\ r <= p /\ f[p].paused
                        /\ \A m \in L : m < k => m <= p
<1> DEFINE B == {j \in L : j < k}
<1>1. B \in SUBSET Serial /\ r \in B
  OBVIOUS
<1>2. PICK p \in B : \A m \in B : m <= p
  <2> HIDE DEF B
  <2> QED BY <1>1, FiniteSerial
<1>3. p \in L /\ p < k /\ r <= p
  BY <1>1, <1>2
<1>4. ~f[p].published
  <2>1. p = r \/ r < p
    BY <1>3, SerialNat
  <2> QED BY <1>3, <2>1 DEF InLine
<1>5. f[p].paused
  BY <1>3, <1>4 DEF InLine
<1> QED BY <1>2, <1>3, <1>5

\* What is ready has only published operations before it.
LEMMA ReadyAllSent ==
    ASSUME NEW f, NEW L \in SUBSET Serial, InLine(f, L), NEW k \in L, Ready(f, L, k)
    PROVE  \A r \in L : r < k => f[r].published
<1> SUFFICES ASSUME NEW r \in L, r < k, ~f[r].published PROVE FALSE
  OBVIOUS
<1>1. PICK p \in L : p < k /\ f[p].paused /\ \A m \in L : m < k => m <= p
  BY LastPaused
<1>2. PICK m \in L : p < m /\ m < k
  BY <1>1 DEF Ready
<1> QED BY <1>1, <1>2, SerialNat

\* resumeSendOpsSince resumes nothing out of order.
LEMMA ResumableInOrder ==
    ASSUME NEW f, NEW L \in SUBSET Serial, InLine(f, L), NEW i \in Serial,
           publishOrdering = "Full", NEW k \in Resumable(f, L, i), NEW r \in L, r < k
    PROVE  f[r].published \/ r \in Resumable(f, L, i)
<1> SUFFICES ASSUME ~f[r].published PROVE r \in Resumable(f, L, i)
  OBVIOUS
<1>1. /\ k \in L /\ i <= k /\ f[k].paused
      /\ \A j \in L : i <= j /\ j <= k /\ f[j].paused => CanSend(f, L, i, j)
  BY DEF Resumable
<1>2. f[r].paused
  BY <1>1 DEF InLine
<1>3. i \in Nat /\ \A j \in L : j \in Nat
  BY SerialNat
<1>4. CASE i <= r
  BY <1>1, <1>2, <1>3, <1>4 DEF Resumable
<1>5. CASE r < i
  <2> DEFINE B == {j \in L : i <= j /\ j <= k /\ f[j].paused}
  <2>1. B \in SUBSET Serial /\ B # {}
    <3>1. k <= k
      BY <1>1, <1>3
    <3> QED BY <1>1, <3>1
  <2>2. PICK b \in B : \A j \in B : b <= j
    <3> HIDE DEF B
    <3> QED BY <2>1, FiniteSerial
  <2>3. b \in L /\ b \in Nat /\ i <= b /\ b <= k /\ f[b].paused
    BY <1>3, <2>2
  <2>4. ASSUME NEW j \in L, i <= j, j < b PROVE ~f[j].paused
    <3>1. j <= k /\ ~(b <= j)
      BY <1>1, <1>3, <2>3, <2>4
    <3> QED BY <2>2, <2>4, <3>1
  <2>5. PICK p \in L : p < b /\ f[p].paused /\ \A m \in L : m < b => m <= p
    <3>1. r < b
      BY <1>3, <1>5, <2>3
    <3> QED BY <2>3, <3>1, LastPaused
  <2> HIDE DEF B
  <2>6. CanSend(f, L, i, b)
    BY <1>1, <2>3
  <2> DEFINE gone == {j \in L : i <= j /\ j < b /\ f[j].paused /\ CompletesAtOnce(f[j])}
  <2>7. gone = {}
    BY <2>4
  <2>8. \A j \in L : j < b /\ j < i /\ f[j].paused => \E m \in L : m < b /\ j < m
    BY <2>6, <2>7 DEF CanSend
  <2>9. p < i
    BY <1>3, <2>4, <2>5
  <2> QED BY <1>3, <2>5, <2>8, <2>9
<1> QED BY <1>3, <1>4, <1>5

\* Once R is resumed: g is the state of the operations and M the list.
Resumes(f, L, R, g, M) ==
    /\ M = L \ Done(f, R)
    /\ \A t \in M : /\ g[t].qos = f[t].qos
                    /\ t \in R => ~g[t].paused /\ g[t].published
                    /\ t \notin R => /\ g[t].paused <=> f[t].paused
                                     /\ g[t].published <=> f[t].published

\* It keeps the order.
PublishedInOrder(f, L) == \A r, s \in L : r < s /\ f[s].published => f[r].published

LEMMA ResumesInOrder ==
    ASSUME NEW f, NEW L \in SUBSET Serial, InLine(f, L), NEW R, NEW g, NEW M,
           publishOrdering = "Full", R = {} \/ \E i \in Serial : R = Resumable(f, L, i),
           Resumes(f, L, R, g, M)
    PROVE  PublishedInOrder(g, M)
<1> SUFFICES ASSUME NEW r \in M, NEW s \in M, r < s, g[s].published PROVE g[r].published
  BY DEF PublishedInOrder
<1>1. r \in L /\ s \in L
  BY DEF Resumes
<1>2. f[r].published \/ r \in R
  <2>1. CASE s \in R
    BY <1>1, <2>1, ResumableInOrder
  <2>2. CASE s \notin R
    BY <1>1, <2>2 DEF Resumes, InLine
  <2> QED BY <2>1, <2>2
<1> QED BY <1>2 DEF Resumes

\* It stops only where it has to: what it leaves paused is not ready.
LEMMA ResumesAllReady ==
    ASSUME NEW f, NEW L \in SUBSET Serial, InLine(f, L), NEW i \in Serial, NEW g, NEW M,
           publishOrdering = "Full", Resumes(f, L, Resumable(f, L, i), g, M),
           NEW p \in M, i <= p, g[p].paused
    PROVE  ~Ready(g, M, p)
<1> DEFINE R == Resumable(f, L, i)
           B == {j \in L : i <= j /\ j <= p /\ f[j].paused /\ ~CanSend(f, L, i, j)}
<1>1. i \in Nat /\ (\A j \in L : j \in Nat) /\ M \subseteq L /\ p \in L
  BY SerialNat DEF Resumes
<1>2. p \notin R /\ f[p].paused
  BY DEF Resumes
<1>3. \A k \in L : k \in R <=>
         /\ i <= k /\ f[k].paused
         /\ \A j \in L : i <= j /\ j <= k /\ f[j].paused => CanSend(f, L, i, j)
  BY DEF Resumable
<1>4. \A k \in R : k \in L
  BY DEF Resumable
<1> HIDE DEF R
<1>5. B \in SUBSET Serial /\ B # {}
  BY <1>1, <1>2, <1>3
<1>6. PICK b \in B : \A j \in B : b <= j
  <2> HIDE DEF B
  <2> QED BY <1>5, FiniteSerial
<1>7. b \in L /\ b \in Nat /\ i <= b /\ b <= p /\ f[b].paused /\ ~CanSend(f, L, i, b)
  BY <1>1, <1>6
<1>8. ASSUME NEW j \in L, i <= j, j < b, f[j].paused PROVE CanSend(f, L, i, j)
  <2>1. j <= p /\ ~(b <= j)
    BY <1>1, <1>7, <1>8
  <2> QED BY <1>6, <1>8, <2>1
<1> HIDE DEF B
<1>9. ASSUME NEW j \in L, i <= j, j < b, f[j].paused PROVE j \in R
  <2>1. \A k \in L : k <= j => k < b
    BY <1>1, <1>7, <1>9
  <2> QED BY <1>3, <1>8, <1>9, <2>1
<1>10. \A k \in R : k < b
  <2>1. \A k \in R : k \in Nat
    BY <1>1, <1>4
  <2>2. \A k \in R : ~(b <= k)
    BY <1>3, <1>4, <1>7
  <2>3. b \in Nat
    BY <1>7
  <2> QED BY <2>1, <2>2, <2>3
<1>11. CASE b = p
  <2> DEFINE gone   == {j \in L : i <= j /\ j < p /\ f[j].paused /\ CompletesAtOnce(f[j])}
             before == {j \in L \ gone : j < p}
  <2>1. \A j \in L : j < p => (j \in gone <=> j \in Done(f, R))
    <3>1. ASSUME NEW j \in L, j < p, i <= j, f[j].paused PROVE j \in R
      BY <1>9, <1>11, <3>1
    <3>2. \A j \in L : j \in R => i <= j /\ f[j].paused
      BY <1>3
    <3> QED BY <3>1, <3>2 DEF Done
  <2>2. \A j : j \in before <=> j \in M /\ j < p
    BY <1>1, <2>1 DEF Resumes, R
  <2>3. \/ \E j \in before : ~(f[j].qos <= f[p].qos)
        \/ \E j \in before : j < i /\ f[j].paused /\ ~\E m \in before : j < m
    BY <1>7, <1>11 DEF CanSend
  <2> HIDE DEF gone, before
  <2>4. CASE \E j \in before : ~(f[j].qos <= f[p].qos)
    BY <2>2, <2>4 DEF Ready, Resumes
  <2>5. CASE \E j \in before : j < i /\ f[j].paused /\ ~\E m \in before : j < m
    <3>1. PICK j \in before : j < i /\ f[j].paused /\ ~\E m \in before : j < m
      BY <2>5
    <3>2. j \in M /\ j < p /\ j \in L
      BY <1>1, <2>2, <3>1
    <3>3. j \notin R
      <4>1. ~(i <= j)
        BY <1>1, <3>1, <3>2
      <4> QED BY <1>3, <3>2, <4>1
    <3>4. g[j].paused
      BY <3>1, <3>2, <3>3 DEF Resumes, R
    <3> QED BY <2>2, <3>1, <3>2, <3>4 DEF Ready
  <2> QED BY <2>3, <2>4, <2>5
<1>12. CASE b < p
  <2> DEFINE C == {j \in M : j < p}
  <2>1. b \in C /\ C \in SUBSET Serial
    <3>1. b \notin R
      BY <1>1, <1>7, <1>10
    <3>2. M = L \ Done(f, R)
      BY DEF Resumes, R
    <3>3. b \notin Done(f, R)
      BY <3>1 DEF Done
    <3> QED BY <1>1, <1>7, <1>12, <3>2, <3>3
  <2>2. PICK q \in C : \A m \in C : m <= q
    <3> HIDE DEF C
    <3> QED BY <2>1, FiniteSerial
  <2>3. q \in M /\ q \in L /\ q < p /\ b <= q
    BY <1>1, <2>1, <2>2
  <2>4. ~f[q].published
    <3>1. b < q \/ b = q
      BY <1>1, <1>7, <2>3
    <3> QED BY <1>7, <2>3, <3>1 DEF InLine
  <2>5. f[q].paused
    BY <1>1, <2>3, <2>4 DEF InLine
  <2>6. q \notin R
    BY <1>1, <1>7, <1>10, <2>3
  <2>7. g[q].paused
    BY <2>3, <2>5, <2>6 DEF Resumes, R
  <2>8. \A m \in M : ~(q < m /\ m < p)
    BY <1>1, <2>2, <2>3
  <2> QED BY <2>3, <2>7, <2>8 DEF Ready
<1> QED BY <1>1, <1>7, <1>11, <1>12

-----------------------------------------------------------------------------
(***************************************************************************)
(* The inductive invariant of full ordering. The operation that waits for  *)
(* the end of the tick of SendOp::send passed canSend before the tick; the *)
(* operations before it can only leave until then.                         *)
(***************************************************************************)
OrderInv ==
    publishOrdering = "Full" =>
        /\ PublishedInOrder(op, sendOps)
        /\ inCall.then # 0 => \A r \in sendOps : r < inCall.then => op[r].published

LEMMA OrderInLine ==
    ASSUME SafeInv, PublishedInOrder(op, sendOps)
    PROVE  /\ InLine(op, sendOps)
           /\ \A s \in Serial : InLine(Without(s), sendOps \ {s})
<1>1. \A r \in sendOps : r \in Serial /\ r \in Int /\ r <= nextOp - 1 /\ nextOp \in Int
  BY SerialNat DEF SafeInv, TypeOK, PrepSafe
<1>2. ASSUME NEW r \in sendOps, NEW s \in sendOps, r < s PROVE op[r].paused \/ op[r].published
  <2>1. r # nextOp - 1
    BY <1>1, <1>2
  <2> QED BY <2>1 DEF SafeInv, PrepSafe, PreparedOp, Prepared
<1>3. \A r \in sendOps : ~(op[r].paused /\ op[r].published)
  BY DEF SafeInv, QueueSafe, LifeCycle
<1>4. InLine(op, sendOps)
  BY <1>2, <1>3 DEF InLine, PublishedInOrder
<1>5. ASSUME NEW s \in Serial PROVE InLine(Without(s), sendOps \ {s})
  <2>1. \A t \in sendOps \ {s} : Without(s)[t] = op[t]
    BY <1>1 DEF Without, SafeInv, TypeOK
  <2> QED BY <1>4, <2>1 DEF InLine
<1> QED BY <1>4, <1>5

\* What a step does to the flags of the operations.
Unmoved ==
    /\ sendOps' = sendOps
    /\ \A t \in sendOps : /\ op'[t].qos = op[t].qos
                          /\ op'[t].paused <=> op[t].paused
                          /\ op'[t].published <=> op[t].published
                          /\ op'[t].fits = op[t].fits
                          /\ op'[t].timer => op[t].timer \/ op[t].published \/ InTheLoop(t)
                          /\ op[t].qos = 0 /\ op[t].id = 0 => op'[t].id = 0

Enters == \E q \in QosValues, f \in Fits, n \in Attempts : PublishPrepare(q, f, n)
Waits == \E s \in Serial : PublishPause(s)
Leaves == \E s \in Serial, lost \in BOOLEAN : \E status, sent : Leave(s, status, sent, lost)
Starts == \E s \in Serial : /\ s = inCall.then /\ s \in sendOps /\ sendOps' = sendOps
                            /\ op' = [op EXCEPT ![s] = SentOnce(@)]

\* The fields that the operations on an operation leave alone.
SameFlags(q, r) ==
    q.qos = r.qos /\ q.fits = r.fits /\ q.paused = r.paused /\ q.published = r.published

LEMMA SameFields ==
    ASSUME NEW r \in OpState, NEW id \in PacketId
    PROVE  /\ \A q \in {Stopped(r), Suspended(r), Named(r, id)} :
                 SameFlags(q, r) /\ (q.timer => r.timer)
           /\ \A q \in {Stopped(r), Suspended(r), Resent(r), Received(r)} : q.id = r.id
           /\ SameFlags(Resent(r), r) /\ SameFlags(Received(r), r)
           /\ Named(r, id).id = id
BY DEF Stopped, Suspended, Resent, Named, Received, OpState, SameFlags

LEMMA SendUnmoved ==
    ASSUME SafeInv, NEW s \in Serial, NEW F \in SUBSET Running, NEW ping \in BOOLEAN,
           PublishSend(s, F, ping)
    PROVE  Unmoved
<1>1. op \in [Serial -> OpState] /\ sendOps \subseteq Serial
  BY DEF SafeInv, TypeOK
<1>2. IdTaken(s) \in PacketId
  BY TakeType DEF PublishSend, SafeInv
<1>3. sendOps' = sendOps /\ op' = CancelTimers([op EXCEPT ![s] = Named(@, IdTaken(s))], F)
  BY DEF PublishSend
<1>4. \A t \in Serial : \E r \in OpState :
         /\ r = op[t] \/ (r = Named(op[t], IdTaken(s)) /\ s = t)
         /\ op'[t] = r \/ op'[t] = Stopped(r)
  BY <1>1, <1>2, <1>3, OpStateKept DEF CancelTimers
<1>5. op[s].qos = 0 => IdTaken(s) = 0
  BY DEF IdTaken
<1>6. ASSUME NEW t \in Serial
      PROVE  /\ SameFlags(op'[t], op[t]) /\ (op'[t].timer => op[t].timer)
             /\ op[t].qos = 0 /\ op[t].id = 0 => op'[t].id = 0
  <2>1. PICK r \in OpState : /\ r = op[t] \/ (r = Named(op[t], IdTaken(s)) /\ s = t)
                             /\ op'[t] = r \/ op'[t] = Stopped(r)
    BY <1>4
  <2>2. /\ SameFlags(r, op[t]) /\ (r.timer => op[t].timer)
        /\ op[t].qos = 0 /\ op[t].id = 0 => r.id = 0
    BY <1>1, <1>2, <1>5, <2>1, SameFields DEF SameFlags
  <2>3. SameFlags(op'[t], r) /\ (op'[t].timer => r.timer) /\ op'[t].id = r.id
    BY <1>2, <2>1, SameFields DEF SameFlags
  <2> QED BY <2>2, <2>3 DEF SameFlags
<1> QED BY <1>1, <1>3, <1>6 DEF Unmoved, SameFlags

LEMMA StepMoves ==
    ASSUME SafeInv, Next
    PROVE  Unmoved \/ Enters \/ Waits \/ Leaves \/ Starts \/ ConnackResumed
<1>1. op \in [Serial -> OpState] /\ sendOps \subseteq Serial
  BY DEF SafeInv, TypeOK
<1>2. ASSUME NEW s \in Serial, NEW lost \in BOOLEAN, NEW status, NEW sent,
             Leave(s, status, sent, lost)
      PROVE  Leaves
  BY <1>2, Zenon DEF Leaves
<1>3. ASSUME sendOps' = sendOps,
             \/ op' = op
             \/ op' = Suspend(op)
             \/ \E F \in SUBSET Serial : op' = CancelTimers(op, F)
             \/ \E s \in Serial : \/ op' = [op EXCEPT ![s] = Resent(@)] /\ InTheLoop(s)
                                  \/ op' = [op EXCEPT ![s] = Received(@)] /\ op[s].published
      PROVE  Unmoved
  <2>1. ASSUME NEW t \in Serial
        PROVE  /\ SameFlags(op'[t], op[t]) /\ op'[t].id = op[t].id
               /\ op'[t].timer => op[t].timer \/ op[t].published \/ InTheLoop(t)
    <3>1. \/ op'[t] \in {op[t], Stopped(op[t]), Suspended(op[t])}
          \/ op'[t] = Resent(op[t]) /\ InTheLoop(t)
          \/ op'[t] = Received(op[t]) /\ op[t].published
      BY <1>1, <1>3 DEF Suspend, CancelTimers
    <3>2. SameFlags(op[t], op[t])
      BY DEF SameFlags
    <3> QED BY <1>1, <3>1, <3>2, SameFields, ZeroId
  <2> QED BY <1>1, <1>3, <2>1 DEF Unmoved, SameFlags
<1>4. ASSUME NEW s \in Serial, ResendDup(s), InTheLoop(s) PROVE Unmoved \/ Leaves
  BY <1>2, <1>3, <1>4 DEF ResendDup
<1>5. CASE PublishApi
  BY <1>2, <1>3, <1>5, SendUnmoved
  DEF PublishApi, PublishCancel, SetPublishOrdering, Enters, Waits, queueVars
<1>6. CASE Timers
  <2>1. ASSUME NEW F \in SUBSET Running, NEW ping \in BOOLEAN, Tick(F, ping) PROVE Unmoved
    <3>1. F \in SUBSET Serial
      BY <1>1 DEF Running
    <3> QED BY <1>3, <2>1, <3>1 DEF Tick
  <2>2. ASSUME DoSend PROVE Leaves \/ Starts
    <3>1. PICK s \in Serial : s = inCall.then
      BY <2>2, DoSendKept
    <3>2. CASE CompletesAtOnce(op[s])
      BY <1>2, <2>2, <3>1, <3>2 DEF DoSend
    <3>3. CASE ~CompletesAtOnce(op[s])
      <4>1. s \in sendOps
        BY <3>3, NoOpFields DEF CompletesAtOnce, SafeInv, QueueSafe, Gone
      <4> QED BY <2>2, <3>1, <3>3, <4>1 DEF DoSend, Starts
    <3> QED BY <3>2, <3>3
  <2> QED BY <1>3, <1>4, <1>6, <2>1, <2>2
          DEF Timers, ResponseTimeout, PingTimeout, InTheLoop
<1>7. CASE Acknowledgements
  <2>1. ASSUME NEW s \in Serial, ForceDupResend(s) PROVE Unmoved \/ Leaves
    BY <1>3, <1>4, <2>1 DEF ForceDupResend, queueVars, InTheLoop
  <2> QED BY <1>2, <1>3, <1>7, <2>1
          DEF Acknowledgements, AckPubrec, AckCompletes, AckProtocolError, AckOutOfOrder,
              IsLegitSendAck, queueVars
<1>8. CASE Connection
  BY <1>2, <1>3, <1>8
  DEF Connection, ConnectPrepare, ConnectSend, ConnectEnds, ConnackRefused, ConnackClean,
      FreeClient, TerminateOp, NotifyNetworkDisconnected, RecvMalformed, Disconnect,
      LoseSession, queueVars, connectUnchanged
<1> QED BY <1>5, <1>6, <1>7, <1>8 DEF Next

\* The operation that a call in progress is to send at its end.
WaitsForTick ==
    \E s \in Serial, F \in SUBSET Running, ping \in BOOLEAN :
        PublishSend(s, F, ping) /\ inCall'.then = s

InTheTick == inCall'.then = inCall.then /\ QueueKept

LEMMA StepThen ==
    ASSUME SafeInv, Next, inCall'.then # 0
    PROVE  WaitsForTick \/ InTheTick
<1>1. ASSUME ApiCall, inCall' = inCall PROVE FALSE
  BY <1>1 DEF ApiCall, Idle
<1>2. ASSUME inCall' = Idle PROVE FALSE
  BY <1>2 DEF Idle
<1>3. ASSUME ApiCall PROVE inCall.then = 0
  BY <1>3 DEF ApiCall, Idle
<1>4. \A c \in Calls : Continue(c) => inCall'.then = c.then
  BY ContinueThen
<1>5. QueueOK
  BY DEF SafeInv, TypeOK, QueueOK
<1>6. CASE PublishApi
  <2>1. ASSUME NEW s \in Serial, NEW F \in SUBSET Running, NEW ping \in BOOLEAN,
               PublishSend(s, F, ping)
        PROVE  WaitsForTick
    <3>1. inCall'.then = s
      BY <2>1 DEF PublishSend
    <3> QED BY <2>1, <3>1 DEF WaitsForTick
  <2> QED BY <1>1, <1>6, <2>1
          DEF PublishApi, PublishPrepare, PublishPause, PublishCancel, SetPublishOrdering
<1>7. CASE Timers
  <2>1. ASSUME NEW s \in Serial, ResponseTimeout(s)
        PROVE  InTheTick
    <3>1. QueueKept
      BY <1>5, <2>1, ResendDupKept DEF ResponseTimeout, SafeInv
    <3> DEFINE c == [inCall EXCEPT !.left = @ \ {s}]
    <3>2. c \in Calls /\ c.then = inCall.then
      BY DEF SafeInv, TypeOK, Calls
    <3>3. Continue(c)
      BY <2>1 DEF ResponseTimeout
    <3> HIDE DEF c
    <3> QED BY <1>4, <3>1, <3>2, <3>3 DEF InTheTick
  <2>2. ASSUME PingTimeout PROVE InTheTick
    <3>1. QueueKept
      BY <1>5, <2>2, TimersOnlyKept DEF PingTimeout, SafeInv
    <3> DEFINE c == [inCall EXCEPT !.ping = FALSE]
    <3>2. c \in Calls /\ c.then = inCall.then
      BY DEF SafeInv, TypeOK, Calls
    <3>3. Continue(c)
      BY <2>2 DEF PingTimeout
    <3> HIDE DEF c
    <3> QED BY <1>4, <3>1, <3>2, <3>3 DEF InTheTick
  <2>3. ASSUME NEW F, NEW ping, Tick(F, ping) PROVE FALSE
    BY <2>3 DEF Tick
  <2> QED BY <1>2, <1>7, <2>1, <2>2, <2>3 DEF Timers, DoSend
<1>8. CASE Acknowledgements
  <2>1. ASSUME NEW s \in Serial, ForceDupResend(s) PROVE FALSE
    <3> DEFINE c == [inCall EXCEPT !.left = LeftToResend(s)]
    <3>1. LeftToResend(s) \in SUBSET Serial
      <4>1. sendOps' \subseteq Serial
        BY <1>5, <2>1, ResendDupKept DEF ForceDupResend, queueVars, QueueKept, SafeInv, QueueOK
      <4> QED BY <4>1 DEF LeftToResend
    <3>2. c \in Calls /\ c.then = 0
      BY <2>1, <3>1 DEF ForceDupResend, SafeInv, TypeOK, PrepSafe, Calls
    <3>3. Continue(c)
      BY <2>1 DEF ForceDupResend
    <3> HIDE DEF c
    <3> QED BY <1>4, <3>2, <3>3
  <2> QED BY <1>2, <1>8, <2>1
          DEF Acknowledgements, AckPubrec, AckCompletes, AckProtocolError, AckOutOfOrder,
              CallEnds, Idle
<1>9. CASE Connection
  <2>1. ASSUME NEW s \in Serial, TerminateOp(s) PROVE FALSE
    <3> DEFINE c == [inCall EXCEPT !.left = @ \ {s}]
    <3>1. c \in Calls /\ c.then = 0
      BY <2>1 DEF TerminateOp, SafeInv, TypeOK, PrepSafe, Calls
    <3>2. Continue(c)
      BY <2>1 DEF TerminateOp
    <3> HIDE DEF c
    <3> QED BY <1>4, <3>1, <3>2
  <2>2. ASSUME ConnackClean \/ FreeClient PROVE FALSE
    <3>1. CASE ConnackClean
      <4>1. inCall' = Idle \/ inCall' = [Idle EXCEPT !.loop = "abort", !.left = sendOps]
        BY <3>1 DEF ConnackClean
      <4>2. Idle.then = 0 /\ [Idle EXCEPT !.loop = "abort", !.left = sendOps].then = 0
        BY DEF Idle
      <4> QED BY <4>1, <4>2
    <3>2. CASE FreeClient
      BY <3>2 DEF FreeClient, Idle
    <3> QED BY <2>2, <3>1, <3>2
  <2>3. ASSUME CallEnds PROVE FALSE
    BY <1>2, <2>3 DEF CallEnds
  <2> QED BY <1>1, <1>9, <2>1, <2>2, <2>3
          DEF Connection, ConnectPrepare, ConnectSend, ConnectEnds, ConnackRefused,
              ConnackResumed, NotifyNetworkDisconnected, RecvMalformed, Disconnect,
              LoseSession, connectUnchanged, RecvConnack
<1> QED BY <1>6, <1>7, <1>8, <1>9 DEF Next

\* A connection that stays; nothing but publish_set_ordering switches the order.
LEMMA OrderingFixed ==
    ASSUME Next, ~MaySwitch
    PROVE  publishOrdering' = publishOrdering
<1>1. CASE PublishApi
  BY <1>1 DEF PublishApi, PublishPrepare, PublishPause, PublishCancel, PublishSend,
              SetPublishOrdering
<1>2. CASE Timers
  BY <1>2 DEF Timers, Tick, ResponseTimeout, PingTimeout, DoSend
<1>3. CASE Acknowledgements
  BY <1>3 DEF Acknowledgements, AckPubrec, ForceDupResend, AckCompletes, AckProtocolError,
              AckOutOfOrder
<1>4. CASE Connection
  BY <1>4 DEF Connection, ConnectPrepare, ConnectSend, ConnectEnds, ConnackRefused,
              ConnackResumed, ConnackClean, FreeClient, TerminateOp, NotifyNetworkDisconnected,
              RecvMalformed, Disconnect, LoseSession, connectUnchanged
<1> QED BY <1>1, <1>2, <1>3, <1>4 DEF Next

\* What resuming does, in terms of the order.
LEMMA OnlyResumedResumes ==
    ASSUME NEW f, NEW L, NEW R, NEW ids, OnlyResumed(f, L, R, ids)
    PROVE  Resumes(f, L, R, op', sendOps')
BY DEF OnlyResumed, Resumes, SentNow, Kept, SameMessage

LEMMA LeaveMoves ==
    ASSUME SafeInv, NEW s \in Serial, NEW lost \in BOOLEAN, NEW status, NEW sent,
           Leave(s, status, sent, lost)
    PROVE  Resumes(Without(s), sendOps \ {s}, Followers(s), op', sendOps')
<1>1. QueueOK
  BY DEF SafeInv, TypeOK, QueueOK
<1>2. OnlyResumed(Without(s), sendOps \ {s}, Followers(s), {op[s].id})
  BY <1>1, LeaveResumes DEF SafeInv
<1> QED BY <1>2, OnlyResumedResumes

\* Under full ordering a reconnection resumes from the first paused operation.
LEMMA ReconnectMoves ==
    ASSUME SafeInv, PublishedInOrder(op, sendOps), ConnackResumed
    PROVE  \E f : /\ f = ResendAll.f /\ InLine(f, sendOps)
                  /\ \A t \in sendOps : f[t].paused <=> op[t].paused
                  /\ \/ /\ \A t \in sendOps : ~op[t].paused
                        /\ TailResumed(f) = {}
                        /\ Resumes(f, sendOps, {}, op', sendOps')
                     \/ \E i \in sendOps :
                           /\ \A t \in sendOps : op[t].paused => i <= t
                           /\ TailResumed(f) = Resumable(f, sendOps, i)
                           /\ Resumes(f, sendOps, Resumable(f, sendOps, i), op', sendOps')
<1>1. PICK f, R : f = ResendAll.f /\ R = TailResumed(ResendAll.f)
  OBVIOUS
<1>2. /\ f \in [Serial -> OpState] /\ sendOps \in SUBSET Serial
      /\ \A t \in sendOps : Kept(f[t], op[t])
      /\ \A k \in R : k \in sendOps /\ op[k].paused
  BY <1>1, ReconnectFields DEF SafeInv, TypeOK
<1>3. Resumed(f, sendOps, R, {}, result, ResendAll.sent, FALSE)
  BY <1>1, ReconnectFields
<1>4. InLine(op, sendOps)
  BY OrderInLine
<1>5. InLine(f, sendOps) /\ \A t \in sendOps : f[t].paused <=> op[t].paused
  BY <1>2, <1>4 DEF InLine, Kept
<1>6. \A t \in Serial \ sendOps : f[t] = NoOp
  BY <1>1 DEF ResendAll, SafeInv, QueueSafe, Gone
<1>7. \A k \in R : ~f[k].published
  BY <1>2, <1>5 DEF InLine
<1>8. OnlyResumed(f, sendOps, R, {})
  <2>1. R \in SUBSET sendOps
    BY <1>2
  <2> QED BY <1>2, <1>3, <1>6, <1>7, <2>1, ResumedKept
<1>9. Resumes(f, sendOps, R, op', sendOps')
  BY <1>8, OnlyResumedResumes
<1>10. \A t \in sendOps : op[t].paused \/ op[t].published
  BY DEF SafeInv, PrepSafe, PreparedOp, Prepared, ConnackResumed, RecvConnack
<1>11. \A t \in sendOps : t \in PausedTail <=> op[t].paused
  <2>1. ASSUME NEW t \in sendOps, op[t].paused, NEW r \in sendOps, t <= r PROVE op[r].paused
    <3>1. t = r \/ t < r
      BY <1>2, <2>1, SerialNat
    <3> QED BY <1>4, <1>10, <2>1, <3>1 DEF InLine
  <2>2. \A t \in sendOps : t <= t
    BY <1>2, SerialNat
  <2> QED BY <2>1, <2>2 DEF PausedTail
<1>12. PausedTail \in SUBSET Serial /\ PausedTail \subseteq sendOps
  BY <1>2 DEF PausedTail
<1>13. CASE PausedTail = {}
  <2>1. R = {}
    BY <1>1, <1>13 DEF TailResumed
  <2> QED BY <1>1, <1>5, <1>9, <1>11, <1>13, <2>1
<1>14. CASE PausedTail # {}
  <2>1. PICK i \in PausedTail : \A j \in PausedTail : i <= j
    BY <1>12, <1>14, FiniteSerial
  <2>2. \A j \in PausedTail : (\A k \in PausedTail : j <= k) => j = i
    <3>1. \A j \in PausedTail : j \in Nat
      BY <1>12, SerialNat
    <3> QED BY <2>1, <3>1
  <2>3. R = Resumable(f, sendOps, i)
    <3>1. {j \in PausedTail : \A k \in PausedTail : j <= k} = {i}
      BY <2>1, <2>2
    <3> QED BY <1>1, <3>1 DEF TailResumed
  <2>4. i \in sendOps /\ \A t \in sendOps : op[t].paused => i <= t
    BY <1>11, <1>12, <2>1
  <2> QED BY <1>1, <1>5, <1>9, <2>3, <2>4
<1> QED BY <1>13, <1>14

LEMMA OrderStep ==
    ASSUME SafeInv, SafeInv', OrderInv, Next, ~MaySwitch
    PROVE  OrderInv'
<1>1. SUFFICES ASSUME publishOrdering = "Full", publishOrdering' = "Full"
      PROVE  /\ PublishedInOrder(op', sendOps')
             /\ inCall'.then # 0 =>
                   \A r \in sendOps' : r < inCall'.then => op'[r].published
  BY OrderingFixed DEF OrderInv, PublishedInOrder
<1>2. PublishedInOrder(op, sendOps)
  BY <1>1 DEF OrderInv
<1>3. sendOps \in SUBSET Serial /\ op \in [Serial -> OpState]
  BY DEF SafeInv, TypeOK
<1>4. PublishedInOrder(op', sendOps')
  <2>1. CASE Unmoved
    BY <1>2, <2>1 DEF Unmoved, PublishedInOrder
  <2>2. CASE Enters
    <3>1. PICK q \in QosValues, fits \in Fits, n \in Attempts : PublishPrepare(q, fits, n)
      BY <2>2 DEF Enters
    <3>2. nextOp \in Nat /\ \A t \in sendOps : t \in Nat /\ t < nextOp
      BY <1>3, SerialNat DEF SafeInv, TypeOK, PrepSafe
    <3>3. /\ sendOps' = sendOps \cup {nextOp} /\ nextOp \in Serial
          /\ op' = [op EXCEPT ![nextOp] = NewOp(q, fits, n)]
      BY <3>1, SendOpsAssumption DEF PublishPrepare, SafeInv, TypeOK, Serial
    <3>4. ~op'[nextOp].published /\ \A t \in sendOps : op'[t] = op[t]
      BY <1>3, <3>2, <3>3 DEF NewOp
    <3> QED BY <1>2, <3>2, <3>3, <3>4 DEF PublishedInOrder
  <2>3. CASE Waits
    <3>1. PICK s \in Serial : PublishPause(s)
      BY <2>3 DEF Waits
    <3>2. \A r \in OpState : \A id : Postponed(r, id).published = r.published
      BY DEF Postponed, OpState
    <3> QED BY <1>2, <1>3, <3>1, <3>2 DEF PublishPause, PublishedInOrder
  <2>4. CASE Leaves
    <3>1. PICK s, lost, status, sent : s \in Serial /\ lost \in BOOLEAN /\ Leave(s, status, sent, lost)
      BY <2>4 DEF Leaves
    <3>2. PICK f, L, R : f = Without(s) /\ L = sendOps \ {s} /\ R = Followers(s)
      OBVIOUS
    <3>3. Resumes(f, L, R, op', sendOps')
      BY <3>1, <3>2, LeaveMoves
    <3>4. InLine(f, L) /\ L \in SUBSET Serial
      BY <3>1, <1>2, <1>3, <3>2, OrderInLine
    <3>5. R = {} \/ R = Resumable(f, L, s)
      BY <3>2 DEF Followers
    <3> QED BY <3>1, <1>1, <3>3, <3>4, <3>5, ResumesInOrder
  <2>5. CASE Starts
    <3>1. PICK s \in Serial : /\ s = inCall.then /\ s \in sendOps /\ sendOps' = sendOps
                              /\ op' = [op EXCEPT ![s] = SentOnce(@)]
      BY <2>5 DEF Starts
    <3>2. op'[s].published /\ \A t \in sendOps \ {s} : op'[t] = op[t]
      <4>1. \A r \in OpState : ~r.published => SentOnce(r).published
        BY OpFields, ZeroId DEF SentNow
      <4>2. ~op[s].published
        BY <3>1 DEF SafeInv, PrepSafe, Prepared
      <4> QED BY <1>3, <3>1, <4>1, <4>2
    <3>3. s # 0 /\ \A r \in sendOps : r < s => op[r].published
      BY <1>1, <3>1, SerialNat DEF OrderInv
    <3>4. \A r \in sendOps : op[r].published => op'[r].published
      BY <3>2
    <3> QED BY <1>2, <3>1, <3>2, <3>3, <3>4 DEF PublishedInOrder
  <2>6. CASE ConnackResumed
    <3>1. PICK f : /\ InLine(f, sendOps)
                   /\ \/ Resumes(f, sendOps, {}, op', sendOps')
                      \/ \E i \in sendOps :
                            Resumes(f, sendOps, Resumable(f, sendOps, i), op', sendOps')
      BY <1>2, <2>6, ReconnectMoves
    <3> QED BY <1>1, <1>3, <3>1, ResumesInOrder
  <2> QED BY <2>1, <2>2, <2>3, <2>4, <2>5, <2>6, StepMoves
<1>5. ASSUME inCall'.then # 0, NEW r \in sendOps', r < inCall'.then PROVE op'[r].published
  <2>1. CASE WaitsForTick
    <3>1. PICK s \in Serial, F \in SUBSET Running, ping \in BOOLEAN :
             PublishSend(s, F, ping) /\ inCall'.then = s
      BY <2>1 DEF WaitsForTick
    <3>2. sendOps' = sendOps /\ s \in sendOps /\ CanSend(op, sendOps, s, s)
      BY <3>1 DEF PublishSend, Prepared
    <3>3. \A t \in sendOps : t < s => op[t].published
      BY <1>1, <1>2, <1>3, <3>2, CanSendReady, ReadyAllSent, OrderInLine
    <3> QED BY <1>5, <3>1, <3>2, <3>3, SendUnmoved DEF Unmoved
  <2>2. CASE InTheTick
    <3>1. r \in sendOps /\ op[r].published
      BY <1>1, <1>5, <2>2 DEF InTheTick, QueueKept, OrderInv
    <3> QED BY <2>2, <3>1
            DEF InTheTick, QueueKept, Advanced, Kept, SentNow, Repeated, Confirmed
  <2> QED BY <1>5, <2>1, <2>2, StepThen
<1> QED BY <1>4, <1>5

LEMMA OrderInvariant == ASSUME ~MaySwitch PROVE Spec => []OrderInv
<1>1. Init => OrderInv
  BY DEF Init, OrderInv, PublishedInOrder, Idle
<1>2. SafeInv /\ SafeInv' /\ OrderInv /\ [Next]_vars => OrderInv'
  <2> SUFFICES ASSUME SafeInv, SafeInv', OrderInv, [Next]_vars PROVE OrderInv'
    OBVIOUS
  <2>1. CASE UNCHANGED vars
    BY <2>1 DEF vars, sessionVars, queueVars, OrderInv, PublishedInOrder
  <2> QED BY <2>1, OrderStep
<1> QED BY <1>1, <1>2, SafeInvariant, PTL DEF Spec

-----------------------------------------------------------------------------
(***************************************************************************)
(* Why operations stay paused. While the operations of an old session are  *)
(* terminated the ones that are resumed meanwhile may stop anywhere; that  *)
(* loop ends with an empty list.                                           *)
(***************************************************************************)
NoneReady(f, L) == \A s \in L : f[s].paused => ~Ready(f, L, s)

Settled ==
    /\ publishOrdering = "Full" /\ connected /\ ~crashed
    /\ inCall.loop \in {"none", "tick", "resend"}

ReasonInv ==
    /\ connected => ~disconnecting
    /\ inCall.loop = "abort" => sendOps \subseteq inCall.left
    /\ Settled => NoneReady(op, sendOps)

\* The loop a step leaves the client in.
LEMMA ContinueLoop ==
    ASSUME NEW c \in Calls, Continue(c)
    PROVE  \/ inCall' = Idle /\ c.left = {} /\ c.loop # "free"
           \/ inCall' = c
BY DEF Continue

LEMMA TerminateLoop ==
    ASSUME SafeInv, ReasonInv, NEW s \in Serial, TerminateOp(s)
    PROVE  /\ inCall'.loop = "abort" => sendOps' \subseteq inCall'.left
           /\ ~crashed' /\ inCall'.loop \in {"none", "tick", "resend"} => sendOps' = {}
<1> DEFINE c == [inCall EXCEPT !.left = @ \ {s}]
<1>1. /\ c \in Calls /\ c.loop = inCall.loop /\ c.left = inCall.left \ {s}
      /\ inCall.loop \in {"abort", "free"}
  BY DEF SafeInv, TypeOK, Calls, TerminateOp
<1>2. Continue(c)
  BY DEF TerminateOp
<1> HIDE DEF c
<1>3. \/ inCall' = Idle /\ c.left = {} /\ c.loop # "free"
      \/ inCall' = c
  BY <1>1, <1>2, ContinueLoop
<1>4. sendOps' \subseteq sendOps \ {s}
  <2>1. CASE Leave(s, "Aborted", <<>>, FALSE)
    <3>1. QueueKept /\ s \notin sendOps'
      BY <2>1, LeaveKept DEF SafeInv, TypeOK, QueueOK
    <3> QED BY <3>1 DEF QueueKept
  <2>2. CASE UNCHANGED queueVars /\ s \notin sendOps
    BY <2>2 DEF queueVars
  <2> QED BY <2>1, <2>2 DEF TerminateOp
<1>5. Idle.loop = "none"
  BY DEF Idle
<1>6. inCall.loop = "abort" => sendOps \subseteq inCall.left
  BY DEF ReasonInv
<1> QED BY <1>1, <1>3, <1>4, <1>5, <1>6

\* All the other steps.
LEMMA StepSession ==
    ASSUME SafeInv, ReasonInv, Next
    PROVE  /\ connected' => ~disconnecting'
           /\ inCall'.loop = "abort" => sendOps' \subseteq inCall'.left
           /\ connected' /\ ~crashed' /\ inCall'.loop \in {"none", "tick", "resend"} =>
                \/ sendOps' = {}
                \/ ConnackResumed
                \/ connected /\ ~crashed /\ inCall.loop \in {"none", "tick", "resend"}
<1> DEFINE Up == connected /\ ~crashed /\ inCall.loop \in {"none", "tick", "resend"}
           Fine == /\ connected' => ~disconnecting'
                   /\ inCall'.loop = "abort" => sendOps' \subseteq inCall'.left
                   /\ connected' /\ ~crashed' /\ inCall'.loop \in {"none", "tick", "resend"} =>
                        sendOps' = {} \/ ConnackResumed \/ Up
<1>1. ApiCall => inCall = Idle /\ ~crashed /\ inCall.loop = "none"
  BY DEF ApiCall, Idle
<1>2. Idle.loop = "none"
  BY DEF Idle
<1>3. ASSUME inCall.loop \in {"none", "tick", "resend"}, inCall'.loop # "abort",
             ~connected' \/ (connected /\ disconnecting' = disconnecting),
             crashed' = crashed
      PROVE  Fine
  BY <1>3 DEF ReasonInv
<1>4. ASSUME NEW c \in Calls, Continue(c), c.loop # "abort" PROVE inCall'.loop # "abort"
  BY <1>2, <1>4, ContinueLoop
<1>5. CASE PublishApi
  <2>1. ASSUME ApiCall, inCall' = inCall, UNCHANGED sessionVars, crashed' = crashed PROVE Fine
    BY <1>1, <1>3, <2>1 DEF sessionVars
  <2>2. ASSUME NEW s, NEW F, NEW ping, PublishSend(s, F, ping) PROVE Fine
    <3>1. inCall'.loop = "tick"
      BY <2>2 DEF PublishSend
    <3> QED BY <1>1, <1>3, <2>2, <3>1 DEF PublishSend, sessionVars
  <2> QED BY <1>5, <2>1, <2>2
          DEF PublishApi, PublishPrepare, PublishPause, PublishCancel, SetPublishOrdering
<1>6. CASE Timers
  <2>1. ASSUME NEW F, NEW ping, Tick(F, ping) PROVE Fine
    <3>1. inCall'.loop = "tick"
      BY <2>1 DEF Tick
    <3> QED BY <1>1, <1>3, <2>1, <3>1 DEF Tick, sessionVars
  <2>2. ASSUME NEW s \in Serial, ResponseTimeout(s) PROVE Fine
    <3> DEFINE c == [inCall EXCEPT !.left = @ \ {s}]
    <3>1. c \in Calls /\ c.loop = "tick" /\ Continue(c)
      BY <2>2 DEF SafeInv, TypeOK, Calls, ResponseTimeout
    <3> HIDE DEF c
    <3>2. inCall'.loop # "abort"
      BY <1>4, <3>1
    <3> QED BY <1>3, <2>2, <3>2 DEF ResponseTimeout, sessionVars
  <2>3. ASSUME PingTimeout PROVE Fine
    <3> DEFINE c == [inCall EXCEPT !.ping = FALSE]
    <3>1. c \in Calls /\ c.loop = "tick" /\ Continue(c)
      BY <2>3 DEF SafeInv, TypeOK, Calls, PingTimeout
    <3> HIDE DEF c
    <3>2. inCall'.loop # "abort"
      BY <1>4, <3>1
    <3> QED BY <1>3, <2>3, <3>2 DEF PingTimeout, SessionLost
  <2>4. ASSUME DoSend PROVE Fine
    BY <1>2, <1>3, <2>4 DEF DoSend, sessionVars
  <2> QED BY <1>6, <2>1, <2>2, <2>3, <2>4 DEF Timers
<1>7. CASE Acknowledgements
  <2>1. ASSUME NEW s \in Serial, ForceDupResend(s) PROVE Fine
    <3> DEFINE c == [inCall EXCEPT !.left = LeftToResend(s)]
    <3>1. LeftToResend(s) \in SUBSET Serial
      <4>1. QueueOK
        BY DEF SafeInv, TypeOK, QueueOK
      <4>2. sendOps' \subseteq Serial
        BY <2>1, <4>1, ResendDupKept DEF ForceDupResend, queueVars, QueueKept, SafeInv, QueueOK
      <4> QED BY <4>2 DEF LeftToResend
    <3>2. c \in Calls /\ c.loop = "resend" /\ Continue(c)
      BY <2>1, <3>1 DEF SafeInv, TypeOK, Calls, ForceDupResend
    <3> HIDE DEF c
    <3>3. inCall'.loop # "abort"
      BY <1>4, <3>2
    <3> QED BY <1>3, <2>1, <3>3 DEF ForceDupResend, sessionVars
  <2>2. ASSUME NEW s, NEW ack, AckOutOfOrder(s, ack) PROVE Fine
    <3>1. inCall'.loop = "resend"
      BY <2>2 DEF AckOutOfOrder, Idle
    <3> QED BY <1>1, <1>3, <2>2, <3>1 DEF AckOutOfOrder, RecvAck, sessionVars
  <2>3. ASSUME NEW s, AckPubrec(s) PROVE Fine
    BY <1>1, <1>2, <1>3, <2>3 DEF AckPubrec, RecvAck, CallEnds, sessionVars
  <2>4. ASSUME NEW s, NEW ack, AckCompletes(s, ack) PROVE Fine
    BY <1>1, <1>2, <1>3, <2>4 DEF AckCompletes, RecvAck, CallEnds, sessionVars
  <2>5. ASSUME NEW s, NEW ack, AckProtocolError(s, ack) PROVE Fine
    BY <1>1, <1>2, <1>3, <2>5 DEF AckProtocolError, RecvAck, CallEnds, SessionLost
  <2> QED BY <1>7, <2>1, <2>2, <2>3, <2>4, <2>5 DEF Acknowledgements
<1>8. CASE Connection
  <2>1. ASSUME NEW s \in Serial, TerminateOp(s) PROVE Fine
    BY <2>1, TerminateLoop DEF TerminateOp, sessionVars, ReasonInv
  <2>2. CASE ConnackResumed
    BY <1>2, <2>2 DEF ConnackResumed, RecvConnack, CallEnds
  <2>3. CASE ConnackClean
    <3>1. \/ inCall' = Idle /\ (sendOps' = {} \/ crashed')
          \/ inCall' = [Idle EXCEPT !.loop = "abort", !.left = sendOps] /\ sendOps' = sendOps
      BY <2>3 DEF ConnackClean, queueVars
    <3>2. /\ [Idle EXCEPT !.loop = "abort", !.left = sendOps].loop = "abort"
          /\ [Idle EXCEPT !.loop = "abort", !.left = sendOps].left = sendOps
      BY DEF Idle
    <3>3. ~disconnecting'
      BY <2>3 DEF ConnackClean, RecvConnack
    <3> QED BY <1>2, <3>1, <3>2, <3>3
  <2>4. CASE FreeClient
    <3>1. inCall'.loop = "free"
      BY <2>4 DEF FreeClient, Idle
    <3> QED BY <1>1, <1>3, <2>4, <3>1 DEF FreeClient, sessionVars
  <2>5. ASSUME ApiCall, LoseSession PROVE Fine
    BY <1>1, <1>2, <1>3, <2>5 DEF LoseSession, SessionLost, CallEnds
  <2>6. CASE NotifyNetworkDisconnected
    BY <1>1, <1>2, <1>3, <2>5, <2>6 DEF NotifyNetworkDisconnected, CallEnds, ReasonInv
  <2>7. CASE ConnectPrepare
    <3>1. ApiCall /\ inCall' = inCall /\ crashed' = crashed
      BY <2>7 DEF ConnectPrepare, connectUnchanged
    <3>2. ~connected' \/ (connected /\ disconnecting' = disconnecting)
      BY <2>7 DEF ConnectPrepare, ReasonInv, SafeInv, TypeOK
    <3> QED BY <1>1, <1>3, <3>1, <3>2
  <2>8. CASE ConnectEnds \/ ConnackRefused \/ \E clean \in BOOLEAN : ConnectSend(clean)
    BY <1>1, <1>3, <2>8
    DEF ConnectSend, ConnectEnds, ConnackRefused, RecvConnack, connectUnchanged
  <2> QED BY <1>8, <2>1, <2>2, <2>3, <2>4, <2>5, <2>6, <2>7, <2>8
          DEF Connection, RecvMalformed, Disconnect
<1> QED BY <1>5, <1>6, <1>7, <1>8 DEF Next

LEMMA NoneReadyStep ==
    ASSUME SafeInv, OrderInv, ReasonInv, Next, Settled, publishOrdering = "Full"
    PROVE  ConnackResumed \/ NoneReady(op', sendOps')
<1>1. PublishedInOrder(op, sendOps) /\ NoneReady(op, sendOps) /\ ~disconnecting
  BY DEF OrderInv, ReasonInv, Settled
<1>2. sendOps \in SUBSET Serial /\ op \in [Serial -> OpState]
  BY DEF SafeInv, TypeOK
<1>3. /\ nextOp \in Int /\ \A t \in sendOps : t \in Int /\ t <= nextOp - 1
      /\ \A t \in sendOps : Prepared(t) => t = nextOp - 1
  BY <1>2, SerialNat DEF SafeInv, TypeOK, PrepSafe, PreparedOp
<1>4. ASSUME NEW t \in sendOps', t \in sendOps, op[t].paused,
             op'[t].qos = op[t].qos,
             \A j : j < t => (j \in sendOps' <=> j \in sendOps),
             \A j \in sendOps : j < t => /\ op'[j].qos = op[j].qos
                                         /\ op'[j].paused <=> op[j].paused
      PROVE  ~Ready(op', sendOps', t)
  <2>1. ~Ready(op, sendOps, t)
    BY <1>1, <1>4 DEF NoneReady
  <2>2. \A m : m \in sendOps' /\ m < t <=> m \in sendOps /\ m < t
    BY <1>4
  <2> QED BY <1>4, <2>1, <2>2 DEF Ready
<1>5. CASE Unmoved
  BY <1>1, <1>5 DEF Unmoved, NoneReady, Ready
<1>6. CASE Enters
  <2>1. PICK q \in QosValues, fits \in Fits, n \in Attempts : PublishPrepare(q, fits, n)
    BY <1>6 DEF Enters
  <2>2. /\ sendOps' = sendOps \cup {nextOp} /\ nextOp \in Serial
        /\ op' = [op EXCEPT ![nextOp] = NewOp(q, fits, n)]
    BY <2>1, SendOpsAssumption DEF PublishPrepare, SafeInv, TypeOK, Serial
  <2>3. ~op'[nextOp].paused /\ \A t \in sendOps : op'[t] = op[t]
    BY <1>2, <1>3, <2>2 DEF NewOp
  <2>4. ASSUME NEW t \in sendOps, op'[t].paused PROVE ~Ready(op', sendOps', t)
    <3>1. t # nextOp /\ ~(nextOp < t)
      BY <1>3
    <3>2. \A j : j < t => (j \in sendOps' <=> j \in sendOps)
      BY <2>2, <3>1
    <3> QED BY <1>4, <2>2, <2>3, <2>4, <3>2
  <2> QED BY <2>2, <2>3, <2>4 DEF NoneReady
<1>7. CASE Waits
  <2>1. PICK s \in Serial : PublishPause(s)
    BY <1>7 DEF Waits
  <2>2. /\ s \in sendOps /\ Prepared(s) /\ sendOps' = sendOps /\ ~CanSend(op, sendOps, s, s)
        /\ op'[s] = Postponed(op[s], IdTaken(s)) /\ \A t \in sendOps \ {s} : op'[t] = op[t]
    BY <1>2, <2>1 DEF PublishPause, Prepared
  <2>3. op'[s].qos = op[s].qos
    BY <1>2, <2>2 DEF Postponed, OpState
  <2>4. \A t, j \in sendOps : j < t => j # s
    BY <1>3, <2>2
  <2>5. ~Ready(op', sendOps', s)
    <3>1. ~Ready(op, sendOps, s)
      BY <1>2, <2>2, CanSendReady
    <3> QED BY <2>2, <2>3, <2>4, <3>1 DEF Ready
  <2>6. ASSUME NEW t \in sendOps \ {s}, op'[t].paused PROVE ~Ready(op', sendOps', t)
    BY <1>4, <2>2, <2>4, <2>6
  <2> QED BY <2>2, <2>5, <2>6 DEF NoneReady
<1>8. CASE Leaves
  <2>1. PICK s, lost, status, sent : s \in Serial /\ lost \in BOOLEAN /\ Leave(s, status, sent, lost)
    BY <1>8 DEF Leaves
  <2>2. PICK f, L : f = Without(s) /\ L = sendOps \ {s}
    OBVIOUS
  <2>3. Resumes(f, L, Resumable(f, L, s), op', sendOps')
    BY <1>1, <2>1, <2>2, LeaveMoves DEF Followers
  <2>4. InLine(f, L) /\ L \in SUBSET Serial /\ \A t \in L : f[t] = op[t] /\ t \in Int
    BY <1>1, <1>2, <1>3, <2>2, OrderInLine DEF Without
  <2>5. ASSUME NEW p \in sendOps', op'[p].paused PROVE ~Ready(op', sendOps', p)
    <3>1. p \in L
      BY <2>3 DEF Resumes
    <3>2. CASE s <= p
      BY <2>1, <2>3, <2>4, <2>5, <3>2, ResumesAllReady
    <3>3. CASE ~(s <= p)
      <4>1. s \in Int /\ p \in Int /\ p < s
        BY <2>1, <2>4, <3>1, <3>3, SerialNat
      <4>2. \A k \in Resumable(f, L, s) : k \in L /\ s <= k
        BY DEF Resumable
      <4>3. \A j \in sendOps : j <= p =>
               /\ j \in L /\ j \notin Resumable(f, L, s)
        <5>1. \A j \in sendOps : j <= p => j # s /\ ~(s <= j)
          BY <1>3, <4>1
        <5> QED BY <2>2, <4>2, <5>1
      <4>4. \A j \in sendOps : j <= p =>
               /\ j \in sendOps' /\ op'[j].qos = op[j].qos
               /\ op'[j].paused <=> op[j].paused
        BY <2>3, <2>4, <4>3 DEF Resumes, Done
      <4>5. sendOps' \subseteq sendOps /\ p <= p /\ \A j \in sendOps : j < p => j <= p
        BY <1>3, <2>2, <2>3, <4>1 DEF Resumes
      <4> QED BY <1>4, <2>5, <4>4, <4>5
    <3> QED BY <3>2, <3>3
  <2> QED BY <2>5 DEF NoneReady
<1>9. CASE Starts
  <2>1. PICK s \in Serial : /\ s = inCall.then /\ s \in sendOps /\ sendOps' = sendOps
                            /\ op' = [op EXCEPT ![s] = SentOnce(@)]
    BY <1>9 DEF Starts
  <2>2. Prepared(s) /\ ~op[s].published
    BY <2>1 DEF SafeInv, PrepSafe, Prepared
  <2>3. ~op'[s].paused /\ \A t \in sendOps \ {s} : op'[t] = op[t]
    <3>1. \A r \in OpState : ~r.published => ~SentOnce(r).paused
      BY OpFields, ZeroId DEF SentNow
    <3> QED BY <1>2, <2>1, <2>2, <3>1
  <2>4. \A t, j \in sendOps : j < t => j # s
    BY <1>3, <2>1, <2>2
  <2>5. ASSUME NEW t \in sendOps \ {s}, op'[t].paused PROVE ~Ready(op', sendOps', t)
    BY <1>4, <2>1, <2>3, <2>4, <2>5
  <2> QED BY <2>1, <2>3, <2>5 DEF NoneReady
<1> QED BY <1>5, <1>6, <1>7, <1>8, <1>9, StepMoves

LEMMA ReconnectNoneReady ==
    ASSUME SafeInv, OrderInv, publishOrdering = "Full", ConnackResumed
    PROVE  NoneReady(op', sendOps')
<1>1. sendOps \in SUBSET Serial /\ PublishedInOrder(op, sendOps)
  BY DEF SafeInv, TypeOK, OrderInv
<1>2. PICK f : /\ InLine(f, sendOps)
               /\ \A t \in sendOps : f[t].paused <=> op[t].paused
               /\ \/ /\ \A t \in sendOps : ~op[t].paused
                     /\ Resumes(f, sendOps, {}, op', sendOps')
                  \/ \E i \in sendOps :
                        /\ \A t \in sendOps : op[t].paused => i <= t
                        /\ Resumes(f, sendOps, Resumable(f, sendOps, i), op', sendOps')
  BY <1>1, ReconnectMoves
<1>3. CASE /\ \A t \in sendOps : ~op[t].paused
           /\ Resumes(f, sendOps, {}, op', sendOps')
  BY <1>2, <1>3 DEF Resumes, NoneReady
<1>4. ASSUME NEW i \in sendOps, \A t \in sendOps : op[t].paused => i <= t,
             Resumes(f, sendOps, Resumable(f, sendOps, i), op', sendOps')
      PROVE  NoneReady(op', sendOps')
  <2>1. ASSUME NEW p \in sendOps', op'[p].paused PROVE ~Ready(op', sendOps', p)
    <3>1. i <= p
      BY <1>2, <1>4, <2>1 DEF Resumes
    <3> QED BY <1>1, <1>2, <1>4, <2>1, <3>1, ResumesAllReady
  <2> QED BY <2>1 DEF NoneReady
<1> QED BY <1>2, <1>3, <1>4

LEMMA ReasonInvariant == ASSUME ~MaySwitch PROVE Spec => []ReasonInv
<1>1. Init => ReasonInv
  BY DEF Init, ReasonInv, NoneReady, Idle
<1>2. ASSUME SafeInv, OrderInv, ReasonInv, Next PROVE ReasonInv'
  <2>1. ASSUME Settled' PROVE NoneReady(op', sendOps')
    <3>1. publishOrdering = "Full"
      BY <1>2, <2>1, OrderingFixed DEF Settled
    <3>2. sendOps' = {} \/ ConnackResumed \/ Settled
      BY <1>2, <2>1, <3>1, StepSession DEF Settled
    <3>3. CASE sendOps' = {}
      BY <3>3 DEF NoneReady
    <3> QED BY <1>2, <3>1, <3>2, <3>3, NoneReadyStep, ReconnectNoneReady
  <2> QED BY <1>2, <2>1, StepSession DEF ReasonInv, NoneReady, Ready
<1>3. SafeInv /\ OrderInv /\ ReasonInv /\ [Next]_vars => ReasonInv'
  <2>1. ASSUME UNCHANGED vars PROVE ReasonInv' = ReasonInv
    BY <2>1 DEF vars, sessionVars, queueVars, ReasonInv, Settled, NoneReady, Ready
  <2> QED BY <1>2, <2>1
<1> QED BY <1>1, <1>3, SafeInvariant, OrderInvariant, PTL DEF Spec

\* Full ordering, chosen once: while the client is connected and no call is in
\* progress, every paused operation has a reason to be: resumeSendOpsSince and
\* brokerConnected resume all that canSend allows, in whatever order operations
\* complete, fail, time out or are cancelled.
THEOREM SendOpsPausedForAReason == ASSUME ~MaySwitch PROVE Spec => []PausedForAReason
<1>1. SafeInv /\ ReasonInv => PausedForAReason
  <2> SUFFICES ASSUME SafeInv, ReasonInv, publishOrdering = "Full", connected, ApiCall,
                      NEW s \in sendOps, op[s].paused
               PROVE  ~CanSend(op, sendOps, s, s)
    BY DEF PausedForAReason
  <2>1. Settled
    BY DEF Settled, ApiCall, Idle
  <2>2. ~Ready(op, sendOps, s)
    BY <2>1 DEF ReasonInv, NoneReady
  <2> QED BY <2>2, CanSendReady DEF SafeInv, TypeOK
<1> QED BY <1>1, SafeInvariant, ReasonInvariant, PTL

-----------------------------------------------------------------------------
(***************************************************************************)
(* Messages that fit the output buffer. Then a loop only meets operations  *)
(* that are still there: what a tick finds expired was published, and      *)
(* resendAllUntil ends with the operation it was started for, before it    *)
(* gets to the prepared one.                                               *)
(***************************************************************************)
OpFit(r) == r.fits /\ (r.timer => r.published) /\ (r.qos = 0 => r.id = 0)

FitOps == \A s \in sendOps : OpFit(op[s])

Last(S) == CHOOSE r \in S : \A t \in S : t <= r

FitTick ==
    /\ inCall.loop = "tick" => \A s \in inCall.left : s \in sendOps /\ op[s].published
    /\ inCall.then # 0 => inCall.then \in sendOps

FitResend ==
    inCall.loop = "resend" =>
        /\ \A s \in inCall.left : s \in sendOps /\ ~Prepared(s)
        /\ inCall.left # {} => op[Last(inCall.left)].qos # 0

FitInv == FitOps /\ FitTick /\ FitResend

\* What a loop repeats was published.
LEMMA LoopPublished ==
    ASSUME FitInv, NEW s, InTheLoop(s)
    PROVE  s \in sendOps /\ op[s].published
BY DEF FitInv, FitTick, FitResend, InTheLoop, Prepared

LEMMA ResumedFit ==
    ASSUME NEW f, NEW L, NEW R, NEW ids, OnlyResumed(f, L, R, ids), \A t \in L : OpFit(f[t])
    PROVE  FitOps'
<1>1. \A q, r : OpFit(r) /\ (Kept(q, r) \/ SentNow(q, r)) => OpFit(q)
  BY DEF OpFit, Kept, SentNow, SameMessage
<1>2. \A t \in sendOps' : t \in L /\ (Kept(op'[t], f[t]) \/ SentNow(op'[t], f[t]))
  BY DEF OnlyResumed
<1> QED BY <1>1, <1>2 DEF FitOps

LEMMA FitOpsStep ==
    ASSUME SafeInv, FitInv, Next, Fits \subseteq {TRUE}
    PROVE  FitOps'
<1>1. sendOps \in SUBSET Serial /\ op \in [Serial -> OpState] /\ QueueOK
  BY DEF SafeInv, TypeOK, QueueOK
<1>2. \A t \in sendOps : OpFit(op[t])
  BY DEF FitInv, FitOps
<1>3. CASE Unmoved
  BY <1>2, <1>3, LoopPublished DEF Unmoved, FitOps, OpFit
<1>4. CASE Enters
  <2>1. PICK q \in QosValues, fits \in Fits, n \in Attempts : PublishPrepare(q, fits, n)
    BY <1>4 DEF Enters
  <2>2. /\ sendOps' = sendOps \cup {nextOp} /\ nextOp \in Serial
        /\ op' = [op EXCEPT ![nextOp] = NewOp(q, fits, n)]
    BY <2>1, SendOpsAssumption DEF PublishPrepare, SafeInv, TypeOK, Serial
  <2>3. OpFit(NewOp(q, fits, n))
    BY DEF OpFit, NewOp
  <2>4. op'[nextOp] = NewOp(q, fits, n) /\ \A t \in Serial \ {nextOp} : op'[t] = op[t]
    BY <1>1, <2>2
  <2> QED BY <1>1, <1>2, <2>2, <2>3, <2>4 DEF FitOps
<1>5. CASE Waits
  <2>1. PICK s \in Serial : PublishPause(s)
    BY <1>5 DEF Waits
  <2>2. /\ s \in sendOps /\ sendOps' = sendOps
        /\ op' = [op EXCEPT ![s] = Postponed(@, IdTaken(s))]
        /\ op[s].qos = 0 => IdTaken(s) = 0
    BY <2>1 DEF PublishPause, Prepared, IdTaken
  <2>3. \A r \in OpState : \A id :
           OpFit(r) /\ (r.qos = 0 => id = 0) => OpFit(Postponed(r, id))
    BY DEF OpFit, Postponed, OpState
  <2> QED BY <1>1, <1>2, <2>2, <2>3 DEF FitOps
<1>6. CASE Leaves
  <2>1. PICK s, lost, status, sent : s \in Serial /\ lost \in BOOLEAN /\ Leave(s, status, sent, lost)
    BY <1>6 DEF Leaves
  <2>2. \A t \in sendOps \ {s} : Without(s)[t] = op[t]
    BY <1>1 DEF Without
  <2>3. OnlyResumed(Without(s), sendOps \ {s}, Followers(s), {op[s].id})
    BY <1>1, <2>1, LeaveResumes DEF SafeInv
  <2>4. \A t \in sendOps \ {s} : OpFit(Without(s)[t])
    BY <1>2, <2>2
  <2> QED BY <2>3, <2>4, ResumedFit
<1>7. CASE Starts
  <2>1. PICK s \in Serial : /\ s = inCall.then /\ s \in sendOps /\ sendOps' = sendOps
                            /\ op' = [op EXCEPT ![s] = SentOnce(@)]
    BY <1>7 DEF Starts
  <2>2. ~op[s].published
    BY <2>1 DEF SafeInv, PrepSafe, Prepared
  <2>3. OpFit(SentOnce(op[s]))
    <3>1. SentNow(SentOnce(op[s]), op[s])
      BY <1>1, <2>2, OpFields, ZeroId
    <3> QED BY <1>2, <2>1, <3>1 DEF OpFit, SentNow, SameMessage
  <2> QED BY <1>1, <1>2, <2>1, <2>3 DEF FitOps
<1>8. CASE ConnackResumed
  <2>1. PICK f, R : f = ResendAll.f /\ R = TailResumed(ResendAll.f)
    OBVIOUS
  <2>2. /\ f \in [Serial -> OpState]
        /\ \A t \in sendOps : Kept(f[t], op[t])
        /\ \A k \in R : k \in sendOps /\ op[k].paused
    BY <1>8, <2>1, ReconnectFields
  <2>3. Resumed(f, sendOps, R, {}, result, ResendAll.sent, FALSE)
    BY <1>8, <2>1, ReconnectFields
  <2>4. \A t \in Serial \ sendOps : f[t] = NoOp
    BY <2>1 DEF ResendAll, SafeInv, QueueSafe, Gone
  <2>5. R \in SUBSET sendOps /\ \A k \in R : ~f[k].published
    BY <2>2 DEF Kept, SafeInv, QueueSafe, LifeCycle
  <2>6. OnlyResumed(f, sendOps, R, {})
    BY <1>1, <2>2, <2>3, <2>4, <2>5, ResumedKept
  <2>7. \A t \in sendOps : OpFit(f[t])
    BY <1>2, <2>2 DEF OpFit, Kept, SameMessage
  <2> QED BY <2>6, <2>7, ResumedFit
<1> QED BY <1>3, <1>4, <1>5, <1>6, <1>7, <1>8, StepMoves

\* What an iteration of a loop does to the other operations.
OthersStay(s) ==
    \A t \in sendOps \ {s} :
        /\ ~op[t].paused \/ op[t].qos # 0 => t \in sendOps' /\ op'[t].qos = op[t].qos
        /\ ~op[t].paused => op'[t].published = op[t].published

LEMMA ResendOthers ==
    ASSUME SafeInv, FitInv, NEW s \in Serial, ResendDup(s) \/ UNCHANGED queueVars
    PROVE  OthersStay(s) /\ QueueKept
<1>1. QueueOK /\ op \in [Serial -> OpState] /\ sendOps \in SUBSET Serial
  BY DEF SafeInv, TypeOK, QueueOK
<1>2. QueueKept
  BY <1>1, ResendDupKept, TimersOnlyKept DEF SafeInv, queueVars
<1>3. CASE Leave(s, "Timeout", <<>>, FALSE)
  <2>1. PICK f, R : f = Without(s) /\ R = Followers(s)
    OBVIOUS
  <2>2. /\ \A t \in sendOps \ {s} : f[t] = op[t]
        /\ \A k \in R : k \in sendOps \ {s} /\ op[k].paused
    BY <1>1, <1>3, <2>1, LeaveResumes DEF SafeInv
  <2>3. OnlyResumed(f, sendOps \ {s}, R, {op[s].id})
    BY <1>1, <1>3, <2>1, LeaveResumes DEF SafeInv
  <2>4. ASSUME NEW t \in sendOps \ {s}, ~op[t].paused \/ op[t].qos # 0 PROVE t \in sendOps'
    <3>1. t \notin Done(f, R)
      BY <2>2, <2>4 DEF Done, CompletesAtOnce, FitInv, FitOps, OpFit
    <3> QED BY <2>3, <3>1 DEF OnlyResumed
  <2>5. ASSUME NEW t \in sendOps', t # s PROVE op'[t].qos = op[t].qos
    BY <2>2, <2>3, <2>5 DEF OnlyResumed, SentNow, Kept, SameMessage
  <2>6. ASSUME NEW t \in sendOps', t # s, ~op[t].paused PROVE op'[t].published = op[t].published
    BY <2>2, <2>3, <2>6 DEF OnlyResumed, Kept
  <2> QED BY <1>2, <2>4, <2>5, <2>6 DEF OthersStay
<1>4. CASE sendOps' = sendOps /\ op' = [op EXCEPT ![s] = Resent(@)]
  BY <1>1, <1>2, <1>4 DEF OthersStay
<1>5. CASE UNCHANGED queueVars
  BY <1>2, <1>5 DEF OthersStay, queueVars
<1> QED BY <1>3, <1>4, <1>5 DEF ResendDup

\* The steps that are, or stay, in one of the two loops.
TickStarts ==
    \E F \in SUBSET Running, ping \in BOOLEAN :
        Tick(F, ping) \/ \E s \in Serial : PublishSend(s, F, ping)
TickGoesOn == (\E s \in Serial : ResponseTimeout(s)) \/ PingTimeout
ResendStarts ==
    \E s \in Serial, ack \in {"PUBACK", "PUBREC", "PUBCOMP"} : AckOutOfOrder(s, ack)
ResendGoesOn == \E s \in Serial : ForceDupResend(s)

OutOfLoops == inCall'.loop \notin {"tick", "resend"}

LEMMA StepLoops ==
    ASSUME SafeInv, Next
    PROVE  OutOfLoops \/ TickStarts \/ TickGoesOn \/ ResendStarts \/ ResendGoesOn
<1>1. Idle.loop = "none"
  BY DEF Idle
<1>2. ApiCall /\ inCall' = inCall => OutOfLoops
  BY <1>1 DEF ApiCall, OutOfLoops
<1>3. inCall' = Idle => OutOfLoops
  BY <1>1 DEF OutOfLoops
<1>4. CASE PublishApi
  <2>1. ASSUME NEW s \in Serial, NEW F \in SUBSET Running, NEW ping \in BOOLEAN,
               PublishSend(s, F, ping)
        PROVE  TickStarts
    BY <2>1, Zenon DEF TickStarts
  <2> QED BY <1>2, <1>4, <2>1
          DEF PublishApi, PublishPrepare, PublishPause, PublishCancel, SetPublishOrdering
<1>5. CASE Timers
  <2>1. ASSUME NEW F \in SUBSET Running, NEW ping \in BOOLEAN, Tick(F, ping) PROVE TickStarts
    BY <2>1, Zenon DEF TickStarts
  <2>2. ASSUME DoSend PROVE OutOfLoops
    BY <1>3, <2>2 DEF DoSend
  <2> QED BY <1>5, <2>1, <2>2 DEF Timers, TickGoesOn
<1>6. CASE Acknowledgements
  <2>1. ASSUME CallEnds PROVE OutOfLoops
    BY <1>3, <2>1 DEF CallEnds
  <2> QED BY <1>6, <2>1
          DEF Acknowledgements, AckPubrec, AckCompletes, AckProtocolError, ResendStarts,
              ResendGoesOn
<1>7. CASE Connection
  <2>1. ASSUME CallEnds PROVE OutOfLoops
    BY <1>3, <2>1 DEF CallEnds
  <2>2. ASSUME ConnackClean PROVE OutOfLoops
    <3>1. \/ inCall' = Idle
          \/ inCall' = [Idle EXCEPT !.loop = "abort", !.left = sendOps]
      BY <2>2 DEF ConnackClean
    <3>2. [Idle EXCEPT !.loop = "abort", !.left = sendOps].loop = "abort"
      BY DEF Idle
    <3> QED BY <1>3, <3>1, <3>2 DEF OutOfLoops
  <2>3. ASSUME FreeClient PROVE OutOfLoops
    BY <2>3 DEF FreeClient, Idle, OutOfLoops
  <2>4. ASSUME NEW s \in Serial, TerminateOp(s) PROVE OutOfLoops
    <3> DEFINE c == [inCall EXCEPT !.left = @ \ {s}]
    <3>1. c \in Calls /\ c.loop \in {"abort", "free"}
      BY <2>4 DEF SafeInv, TypeOK, Calls, TerminateOp
    <3>2. Continue(c)
      BY <2>4 DEF TerminateOp
    <3> HIDE DEF c
    <3> QED BY <1>1, <3>1, <3>2, ContinueLoop DEF OutOfLoops
  <2> QED BY <1>2, <1>7, <2>1, <2>2, <2>3, <2>4
          DEF Connection, ConnectPrepare, ConnectSend, ConnectEnds, ConnackRefused,
              ConnackResumed, NotifyNetworkDisconnected, RecvMalformed, Disconnect,
              LoseSession, connectUnchanged, RecvConnack
<1> QED BY <1>4, <1>5, <1>6, <1>7 DEF Next

LEMMA FitTickStep ==
    ASSUME SafeInv, SafeInv', FitInv, Next
    PROVE  FitTick'
<1>1. sendOps \in SUBSET Serial /\ op \in [Serial -> OpState] /\ inCall \in Calls
  BY DEF SafeInv, TypeOK
<1>2. CASE inCall'.loop # "tick"
  <2>1. inCall'.then = 0
    BY <1>2 DEF SafeInv, PrepSafe
  <2> QED BY <1>2, <2>1 DEF FitTick
<1>3. CASE TickStarts
  <2>1. PICK F \in SUBSET Running, ping \in BOOLEAN :
           Tick(F, ping) \/ \E s \in Serial : PublishSend(s, F, ping)
    BY <1>3 DEF TickStarts
  <2>2. \A t \in F : t \in sendOps /\ op[t].published
    BY DEF Running, FitInv, FitOps, OpFit
  <2>3. CASE Tick(F, ping)
    <3>1. sendOps' = sendOps /\ op' = CancelTimers(op, F) /\ inCall'.left = F /\ inCall'.then = 0
      BY <2>3 DEF Tick
    <3>2. \A t \in Serial : op'[t].published = op[t].published
      BY <1>1, <3>1, SameFields, ZeroId DEF CancelTimers, SameFlags
    <3> QED BY <1>1, <2>2, <3>1, <3>2 DEF FitTick
  <2>4. ASSUME NEW s \in Serial, PublishSend(s, F, ping) PROVE FitTick'
    <3>1. /\ sendOps' = sendOps /\ s \in sendOps /\ inCall'.left = F /\ inCall'.then = s
      BY <2>4 DEF PublishSend, Prepared
    <3>2. Unmoved
      BY <2>4, SendUnmoved
    <3> QED BY <2>2, <3>1, <3>2 DEF FitTick, Unmoved
  <2> QED BY <2>1, <2>3, <2>4
<1>4. CASE inCall'.loop = "tick" /\ TickGoesOn
  <2>1. ASSUME NEW s \in Serial, ResponseTimeout(s) PROVE FitTick'
    <3> DEFINE c == [inCall EXCEPT !.left = @ \ {s}]
    <3>1. c \in Calls /\ c.left = inCall.left \ {s} /\ c.then = inCall.then /\ Continue(c)
      BY <1>1, <2>1 DEF Calls, ResponseTimeout
    <3> HIDE DEF c
    <3>2. inCall' = c
      <4>1. Idle.loop # "tick"
        BY DEF Idle
      <4> QED BY <1>4, <3>1, <4>1, ContinueLoop
    <3>3. OthersStay(s)
      BY <2>1, ResendOthers DEF ResponseTimeout
    <3>4. op[s].published /\ \A t \in inCall.left : t \in sendOps /\ op[t].published
      BY <2>1 DEF FitInv, FitTick, ResponseTimeout
    <3>5. \A t \in inCall.left \ {s} : t \in sendOps' /\ op'[t].published
      BY <3>3, <3>4 DEF OthersStay, SafeInv, QueueSafe, LifeCycle
    <3>6. ASSUME inCall.then # 0 PROVE inCall.then \in sendOps'
      <4>1. PICK p : p = inCall.then
        OBVIOUS
      <4>2. p \in sendOps /\ ~op[p].paused /\ ~op[p].published
        BY <3>6, <4>1 DEF FitInv, FitTick, SafeInv, PrepSafe, Prepared
      <4> QED BY <3>3, <3>4, <4>1, <4>2 DEF OthersStay
    <3> QED BY <3>1, <3>2, <3>5, <3>6 DEF FitTick
  <2>2. ASSUME PingTimeout PROVE FitTick'
    <3> DEFINE c == [inCall EXCEPT !.ping = FALSE]
    <3>1. c \in Calls /\ c.left = inCall.left /\ c.then = inCall.then /\ Continue(c)
      BY <1>1, <2>2 DEF Calls, PingTimeout
    <3> HIDE DEF c
    <3>2. inCall' = c
      <4>1. Idle.loop # "tick"
        BY DEF Idle
      <4> QED BY <1>4, <3>1, <4>1, ContinueLoop
    <3>3. sendOps' = sendOps /\ op' = Suspend(op) /\ inCall.loop = "tick"
      BY <2>2 DEF PingTimeout
    <3>4. \A t \in Serial : op'[t].published = op[t].published
      BY <1>1, <3>3, SameFields, ZeroId DEF Suspend, SameFlags
    <3> QED BY <1>1, <3>1, <3>2, <3>3, <3>4 DEF FitInv, FitTick
  <2> QED BY <1>4, <2>1, <2>2 DEF TickGoesOn
<1>5. CASE inCall'.loop = "tick" /\ (ResendStarts \/ ResendGoesOn)
  <2>1. ASSUME NEW s, NEW ack, AckOutOfOrder(s, ack) PROVE FALSE
    BY <1>5, <2>1 DEF AckOutOfOrder, Idle
  <2>2. ASSUME NEW s \in Serial, ForceDupResend(s) PROVE FALSE
    <3> DEFINE c == [inCall EXCEPT !.left = LeftToResend(s)]
    <3>1. c.loop = "resend" /\ Continue(c)
      BY <1>1, <2>2 DEF ForceDupResend, Calls
    <3> HIDE DEF c
    <3> QED BY <1>5, <3>1 DEF Continue, Idle
  <2> QED BY <1>5, <2>1, <2>2 DEF ResendStarts, ResendGoesOn
<1> QED BY <1>2, <1>3, <1>4, <1>5, StepLoops DEF OutOfLoops

\* The last of a set of operations.
LEMMA LastOf ==
    ASSUME NEW S \in SUBSET Serial, S # {}
    PROVE  Last(S) \in S /\ \A t \in S : t <= Last(S)
<1>1. \E m \in S : \A n \in S : n <= m
  BY FiniteSerial
<1> QED BY <1>1 DEF Last

LEMMA IsLast ==
    ASSUME NEW S \in SUBSET Serial, NEW u \in S, \A t \in S : t <= u
    PROVE  Last(S) = u
<1>1. Last(S) \in S /\ \A t \in S : t <= Last(S)
  BY LastOf
<1>2. \A t \in S : t \in Nat
  BY SerialNat
<1> QED BY <1>1, <1>2

LEMMA FitResendStep ==
    ASSUME SafeInv, SafeInv', FitInv, Next
    PROVE  FitResend'
<1>1. /\ sendOps \in SUBSET Serial /\ op \in [Serial -> OpState] /\ inCall \in Calls
      /\ QueueOK /\ QueueOK' /\ sendOps' \in SUBSET Serial
  BY DEF SafeInv, TypeOK, QueueOK
<1>2. \A t \in sendOps : t \in Nat /\ t <= nextOp - 1 /\ nextOp \in Nat
  BY <1>1, SerialNat DEF SafeInv, PrepSafe, TypeOK
<1>3. \A t \in sendOps : Prepared(t) => t = nextOp - 1
  BY DEF SafeInv, PrepSafe, PreparedOp
<1>4. CASE inCall'.loop # "resend"
  BY <1>4 DEF FitResend
<1>5. CASE inCall'.loop = "resend" /\ (TickStarts \/ TickGoesOn)
  <2>1. Idle.loop = "none"
    BY DEF Idle
  <2>2. ASSUME TickStarts PROVE FALSE
    <3>1. PICK F \in SUBSET Running, ping \in BOOLEAN :
             Tick(F, ping) \/ \E s \in Serial : PublishSend(s, F, ping)
      BY <2>2 DEF TickStarts
    <3>2. Tick(F, ping) => inCall'.loop = "tick"
      BY DEF Tick
    <3>3. \A s \in Serial : PublishSend(s, F, ping) => inCall'.loop = "tick"
      BY DEF PublishSend
    <3> QED BY <1>5, <3>1, <3>2, <3>3
  <2>3. ASSUME NEW s \in Serial, ResponseTimeout(s) PROVE FALSE
    <3> DEFINE c == [inCall EXCEPT !.left = @ \ {s}]
    <3>1. c \in Calls /\ c.loop = "tick" /\ Continue(c)
      BY <1>1, <2>3 DEF Calls, ResponseTimeout
    <3> HIDE DEF c
    <3> QED BY <1>5, <2>1, <3>1, ContinueLoop
  <2>4. ASSUME PingTimeout PROVE FALSE
    <3> DEFINE c == [inCall EXCEPT !.ping = FALSE]
    <3>1. c \in Calls /\ c.loop = "tick" /\ Continue(c)
      BY <1>1, <2>4 DEF Calls, PingTimeout
    <3> HIDE DEF c
    <3> QED BY <1>5, <2>1, <3>1, ContinueLoop
  <2> QED BY <1>5, <2>2, <2>3, <2>4 DEF TickGoesOn
<1>6. CASE ResendStarts
  <2>1. PICK s \in Serial, ack \in {"PUBACK", "PUBREC", "PUBCOMP"} : AckOutOfOrder(s, ack)
    BY <1>6 DEF ResendStarts
  <2>2. /\ s \in sendOps /\ op[s].id # 0 /\ inCall = Idle
        /\ sendOps' = sendOps /\ op' = op
        /\ inCall'.left = {r \in sendOps : r <= s}
    BY <2>1 DEF AckOutOfOrder, RecvAck, ApiCall, queueVars, Idle
  <2>3. op[s].qos # 0
    BY <2>2 DEF FitInv, FitOps, OpFit
  <2>4. ~Prepared(s)
    <3>1. inCall.then = 0 /\ s # 0
      BY <1>2, <2>2, SerialNat DEF Idle
    <3> QED BY <2>2, <3>1 DEF SafeInv, PrepSafe, PreparedOp
  <2>5. \A r \in inCall'.left : r \in sendOps /\ ~Prepared(r)
    BY <1>2, <1>3, <2>2, <2>4
  <2>6. Last(inCall'.left) = s
    <3>1. PICK S : S = inCall'.left
      OBVIOUS
    <3>2. S \in SUBSET Serial /\ s \in S /\ \A t \in S : t <= s
      BY <1>1, <1>2, <2>2, <3>1
    <3> QED BY <3>1, <3>2, IsLast
  <2> QED BY <2>2, <2>3, <2>5, <2>6 DEF FitResend, Prepared
<1>7. CASE inCall'.loop = "resend" /\ ResendGoesOn
  <2>1. PICK s \in Serial : ForceDupResend(s)
    BY <1>7 DEF ResendGoesOn
  <2> DEFINE c == [inCall EXCEPT !.left = LeftToResend(s)]
  <2>2. PICK X : X = LeftToResend(s)
    OBVIOUS
  <2>3. X \in SUBSET Serial
    BY <1>1, <2>2 DEF LeftToResend
  <2>4. c \in Calls /\ c.left = X /\ Continue(c)
    BY <1>1, <2>1, <2>2, <2>3 DEF Calls, ForceDupResend
  <2> HIDE DEF c
  <2>5. inCall'.left = X
    <3>1. Idle.loop = "none"
      BY DEF Idle
    <3> QED BY <1>7, <2>4, <3>1, ContinueLoop
  <2>6. PICK A, u : A = inCall.left /\ u = Last(inCall.left)
    OBVIOUS
  <2>7. /\ A \in SUBSET Serial /\ s \in A
        /\ (\A t \in A : t \in sendOps /\ ~Prepared(t)) /\ op[u].qos # 0
    BY <1>1, <2>1, <2>6 DEF ForceDupResend, Calls, FitInv, FitResend
  <2>8. u \in A /\ \A t \in A : t <= u
    BY <2>6, <2>7, LastOf
  <2>9. X = {r \in sendOps' : s # u /\ s < r /\ (u \in sendOps' => r <= u)}
    BY <2>2, <2>6 DEF LeftToResend, Last
  <2>10. OthersStay(s) /\ QueueKept
    BY <2>1, ResendOthers DEF ForceDupResend
  <2>11. CASE s = u
    BY <2>5, <2>9, <2>11 DEF FitResend
  <2>12. CASE s # u
    <3>1. u \in sendOps /\ u \in sendOps' /\ op'[u].qos # 0
      BY <2>7, <2>8, <2>10, <2>12 DEF OthersStay
    <3>2. \A t \in sendOps' : t \in sendOps /\ (Prepared(t)' => Prepared(t))
      BY <1>1, <2>10, KeptSafe DEF SafeInv
    <3>3. \A r \in X : r \in sendOps' /\ r <= u /\ r \in sendOps
      BY <2>9, <3>1, <3>2
    <3>4. \A r \in X : ~Prepared(r)'
      <4>1. ASSUME NEW r \in X, Prepared(r) PROVE FALSE
        <5>1. r = nextOp - 1 /\ r \in Nat /\ u \in Nat /\ u <= nextOp - 1 /\ r <= u
          BY <1>2, <1>3, <3>1, <3>3, <4>1
        <5>2. r = u
          BY <5>1
        <5> QED BY <2>7, <2>8, <4>1, <5>2
      <4> QED BY <3>2, <3>3, <4>1
    <3>5. Last(X) = u
      <4>1. s < u
        <5>1. s \in Nat /\ u \in Nat /\ s <= u
          BY <1>2, <2>7, <2>8
        <5> QED BY <2>12, <5>1
      <4>2. u \in X
        BY <1>2, <2>9, <2>12, <3>1, <4>1
      <4> QED BY <2>3, <3>3, <4>2, IsLast
    <3> QED BY <2>5, <3>1, <3>3, <3>4, <3>5 DEF FitResend
  <2> QED BY <2>11, <2>12
<1> QED BY <1>4, <1>5, <1>6, <1>7, StepLoops DEF OutOfLoops

LEMMA FitInvariant == ASSUME Fits \subseteq {TRUE} PROVE Spec => []FitInv
<1>1. Init => FitInv
  BY DEF Init, FitInv, FitOps, FitTick, FitResend, Idle
<1>2. SafeInv /\ SafeInv' /\ FitInv /\ [Next]_vars => FitInv'
  <2> SUFFICES ASSUME SafeInv, SafeInv', FitInv, [Next]_vars PROVE FitInv'
    OBVIOUS
  <2>1. CASE UNCHANGED vars
    BY <2>1 DEF vars, sessionVars, queueVars, FitInv, FitOps, FitTick, FitResend, Prepared
  <2> QED BY <2>1, FitOpsStep, FitTickStep, FitResendStep DEF FitInv
<1> QED BY <1>1, <1>2, SafeInvariant, PTL DEF Spec

\* The DUP flag of a PUBLISH says whether that message was sent before: in the
\* loops of a tick and of resendAllUntil, after a reconnection, and when paused
\* operations are resumed. That every message fits the output buffer is needed:
\* otherwise an operation may leave the list during resendAllUntil, and the
\* loop then reaches an operation that is only prepared.
THEOREM SendOpsDupOnRepublish == ASSUME Fits \subseteq {TRUE} PROVE Spec => DupOnRepublish
<1>1. ASSUME SafeInv, FitInv, Next
      PROVE  \A i \in DOMAIN out' :
                out'[i].type = "PUBLISH" => (out'[i].dup <=> op[out'[i].op].published)
  <2>1. SUFFICES ASSUME NEW i \in DOMAIN out', out'[i].type = "PUBLISH"
                 PROVE  out'[i].dup <=> op[out'[i].op].published
    OBVIOUS
  <2>2. PICK msg : msg = out'[i]
    OBVIOUS
  <2>3. Legal(msg) /\ msg.type = "PUBLISH"
    BY <1>1, <2>1, <2>2, StepLegal DEF OutLegal
  <2>4. InTheLoop(msg.op) => op[msg.op].published
    BY <1>1, LoopPublished
  <2> QED BY <2>2, <2>3, <2>4 DEF Legal
<1>2. SafeInv /\ FitInv /\ [Next]_vars =>
         [\A i \in DOMAIN out' :
             out'[i].type = "PUBLISH" => (out'[i].dup <=> op[out'[i].op].published)]_vars
  BY <1>1
<1> QED BY <1>2, SafeInvariant, FitInvariant, PTL DEF Spec, DupOnRepublish

-----------------------------------------------------------------------------
(***************************************************************************)
(* The order of the messages. Message i is orderly when everything before  *)
(* its operation was published, or is published earlier in the same step,  *)
(* or leaves without a message.                                            *)
(***************************************************************************)
Overtaken(i, r) == r \in sendOps /\ r < out'[i].op /\ ~op[r].published

Earlier(i, r) == \E j \in DOMAIN out' : j < i /\ out'[j].op = r

Orderly(i) ==
    \A r : Overtaken(i, r) =>
        Earlier(i, r) \/ (r \notin sendOps' /\ \A j \in DOMAIN out' : out'[j].op # r)

\* Repetitions are orderly.
LEMMA PublishedOrderly ==
    ASSUME PublishedInOrder(op, sendOps), NEW i \in DOMAIN out',
           out'[i].op \in sendOps, op[out'[i].op].published
    PROVE  Orderly(i)
BY DEF Orderly, Overtaken, PublishedInOrder

\* So are the messages of the operations that are resumed: what is before one
\* of them was published, or is resumed before it.
LEMMA ResumedOrderly ==
    ASSUME NEW f, NEW L \in SUBSET Serial, InLine(f, L), NEW R, publishOrdering = "Full",
           R = {} \/ \E i \in Serial : R = Resumable(f, L, i), \A t \in R : f[t].fits,
           NEW m \in Nat, NEW n \in Nat, DOMAIN out' = 1..(m + n), SecondPart(f, R, m, n),
           NEW x \in DOMAIN out', ~(x <= m)
    PROVE  /\ out'[x].op \in R
           /\ \A r \in L : r < out'[x].op /\ ~f[r].published => Earlier(x, r)
<1>1. x \in Nat /\ x - m \in 1..n /\ x = m + (x - m)
  OBVIOUS
<1>2. PICK s \in R : out'[x] = Publish(f, s, FALSE)
  BY <1>1 DEF SecondPart
<1>3. out'[x].op = s
  BY <1>2 DEF Publish
<1>4. ASSUME NEW r \in L, r < s, ~f[r].published PROVE Earlier(x, r)
  <2>1. r \in R
    BY <1>4, ResumableInOrder
  <2>2. PICK y \in 1..n : out'[m + y] = Publish(f, r, FALSE)
    BY <2>1 DEF SecondPart
  <2>3. out'[m + y].op = r /\ m + y \in DOMAIN out' /\ m + y \in Nat
    BY <2>2 DEF Publish
  <2>4. r \in Nat /\ s \in Nat
    <3>1. s \in L
      BY <1>2 DEF Resumable
    <3> QED BY <3>1, SerialNat
  <2>5. m + y < x
    <3>1. ASSUME x - m < y PROVE FALSE
      <4>1. out'[m + (x - m)].op < out'[m + y].op
        BY <1>1, <3>1 DEF SecondPart
      <4> QED BY <1>1, <1>3, <1>4, <2>3, <2>4, <4>1
    <3>2. x # m + y
      BY <1>3, <1>4, <2>3, <2>4
    <3> QED BY <1>1, <3>1, <3>2
  <2> QED BY <2>3, <2>5 DEF Earlier
<1> QED BY <1>3, <1>4

LEMMA LeaveFollowers ==
    ASSUME SafeInv, NEW s \in Serial, NEW status, NEW sent, NEW lost \in BOOLEAN,
           Leave(s, status, sent, lost)
    PROVE  /\ \A t \in sendOps \ {s} : Without(s)[t] = op[t]
           /\ \A k \in Followers(s) : k \in sendOps \ {s} /\ op[k].paused
<1>1. QueueOK
  BY DEF SafeInv, TypeOK, QueueOK
<1>2. /\ \A t \in sendOps \ {s} : Without(s)[t] = op[t]
      /\ \A k \in Followers(s) : k \in sendOps \ {s} /\ op[k].paused
      /\ OnlyResumed(Without(s), sendOps \ {s}, Followers(s), {op[s].id})
  BY <1>1, LeaveResumes DEF SafeInv
<1> QED BY <1>2

\* An operation that leaves: it is not overtaken, or it leaves without a message.
LEMMA LeaveOrderly ==
    ASSUME SafeInv, FitInv, PublishedInOrder(op, sendOps), publishOrdering = "Full",
           NEW s \in Serial, NEW status, NEW Y, NEW sent \in Seq(Y), NEW lost \in BOOLEAN,
           Leave(s, status, sent, lost), NEW x \in DOMAIN out', ~(x <= Len(sent))
    PROVE  /\ out'[x].op \in sendOps \ {s}
           /\ \A r : Overtaken(x, r) /\ r # s => Earlier(x, r)
<1>1. sendOps \in SUBSET Serial /\ QueueOK /\ QueueSafe
  BY DEF SafeInv, TypeOK, QueueOK
<1>2. PICK f, L, R : f = Without(s) /\ L = sendOps \ {s} /\ R = Followers(s)
  OBVIOUS
<1>3. /\ \A t \in L : f[t] = op[t]
      /\ \A k \in R : k \in L
  <2>1. /\ \A t \in sendOps \ {s} : Without(s)[t] = op[t]
        /\ \A k \in Followers(s) : k \in sendOps \ {s} /\ op[k].paused
    BY LeaveFollowers
  <2> QED BY <1>2, <2>1
<1>4. InLine(f, L) /\ L \in SUBSET Serial
  BY <1>1, <1>2, OrderInLine
<1>5. R = {} \/ R = Resumable(f, L, s)
  BY <1>2 DEF Followers
<1>6. \A t \in R : f[t].fits
  BY <1>2, <1>3 DEF FitInv, FitOps, OpFit
<1>7. out' = sent \o FirstPublishes(f, R)
  BY <1>2 DEF Leave, Resumed, Without, Followers
<1>8. Sends(f, R, sent)
  <2>1. R \in SUBSET Serial
    BY <1>3, <1>4
  <2> QED BY <1>7, <2>1, ResumedSends
<1>9. PICK n \in Nat : /\ Len(sent) \in Nat /\ DOMAIN out' = 1..(Len(sent) + n)
                       /\ SecondPart(f, R, Len(sent), n)
  BY <1>8 DEF Sends
<1>10. /\ out'[x].op \in R
       /\ \A r \in L : r < out'[x].op /\ ~f[r].published => Earlier(x, r)
  <2>1. PICK m \in Nat : m = Len(sent)
    BY <1>9
  <2> QED BY <1>4, <1>5, <1>6, <1>9, <2>1, ResumedOrderly
<1> QED BY <1>2, <1>3, <1>10 DEF Overtaken

LEMMA EndsOrderly ==
    ASSUME SafeInv, FitInv, PublishedInOrder(op, sendOps), publishOrdering = "Full", Ends
    PROVE  \A i \in DOMAIN out' : Orderly(i)
<1>1. PICK s, lost, status : s \in Serial /\ lost \in BOOLEAN /\ Leave(s, status, <<>>, lost)
  BY DEF Ends
<1>2. <<>> \in Seq(Serial) /\ Len(<<>>) = 0
  BY QuietLegal
<1>3. DOMAIN out' \subseteq Nat \ {0}
  <2>1. PICK f, R : f = Without(s) /\ R = Followers(s)
    OBVIOUS
  <2>2. out' = <<>> \o FirstPublishes(f, R)
    BY <1>1, <2>1 DEF Leave, Resumed, Without, Followers
  <2>3. R \in SUBSET Serial
    BY <1>1, <2>1, LeaveFollowers DEF SafeInv, TypeOK
  <2>4. Sends(f, R, <<>>)
    BY <1>2, <2>2, <2>3, ResumedSends
  <2>5. PICK n \in Nat : DOMAIN out' = 1..(0 + n)
    BY <1>2, <2>4 DEF Sends
  <2> QED BY <2>5
<1>4. ASSUME NEW j \in DOMAIN out'
      PROVE  /\ out'[j].op \in sendOps \ {s}
             /\ \A r : Overtaken(j, r) /\ r # s => Earlier(j, r)
  <2>1. ~(j <= Len(<<>>))
    BY <1>2, <1>3
  <2> QED BY <1>1, <1>2, <2>1, LeaveOrderly
<1>5. s \notin sendOps'
  <2>1. QueueOK
    BY DEF SafeInv, TypeOK, QueueOK
  <2>2. QueueKept /\ s \notin sendOps' /\ StaysPrepared
    BY <1>1, <2>1, LeaveKept DEF SafeInv
  <2> QED BY <2>2
<1>6. \A j \in DOMAIN out' : out'[j].op # s
  BY <1>4
<1> QED BY <1>4, <1>5, <1>6 DEF Orderly

LEMMA DoSendOrderly ==
    ASSUME SafeInv, FitInv, OrderInv, publishOrdering = "Full", DoSend
    PROVE  \A i \in DOMAIN out' : Orderly(i)
<1>1. PICK s \in Serial : s = inCall.then
  BY DoSendKept
<1>2. /\ s # 0 /\ s \in sendOps /\ op[s].fits
      /\ PublishedInOrder(op, sendOps)
      /\ \A r \in sendOps : r < s => op[r].published
  BY <1>1 DEF DoSend, FitInv, FitTick, FitOps, OpFit, OrderInv
<1>3. PICK msg : msg = Publish(op, s, FALSE)
  OBVIOUS
<1>4. msg.op = s
  BY <1>3 DEF Publish
<1>5. <<msg>> \in Seq({msg}) /\ Len(<<msg>>) = 1 /\ <<msg>>[1] = msg /\ DOMAIN <<msg>> = {1}
  OBVIOUS
<1>6. \A i \in DOMAIN out' : out'[i].op = s => Orderly(i)
  BY <1>2 DEF Orderly, Overtaken
<1>7. CASE CompletesAtOnce(op[s])
  <2>1. PICK status : Leave(s, status, <<msg>>, FALSE)
    BY <1>1, <1>2, <1>3, <1>7 DEF DoSend
  <2>2. PICK f, R : f = Without(s) /\ R = Followers(s)
    OBVIOUS
  <2>3. out' = <<msg>> \o FirstPublishes(f, R)
    BY <2>1, <2>2 DEF Leave, Resumed, Without, Followers
  <2>4. R \in SUBSET Serial
    BY <2>1, <2>2, LeaveFollowers DEF SafeInv, TypeOK
  <2>5. Sends(f, R, <<msg>>)
    BY <1>5, <2>3, <2>4, ResumedSends
  <2>6. PICK n \in Nat : DOMAIN out' = 1..(1 + n) /\ FirstPart(<<msg>>, 1)
    BY <1>5, <2>5 DEF Sends
  <2>7. 1 \in DOMAIN out' /\ out'[1].op = s
    BY <1>4, <1>5, <2>6 DEF FirstPart
  <2>8. ASSUME NEW i \in DOMAIN out', i # 1 PROVE Orderly(i)
    <3>1. i \in Nat /\ 1 < i /\ ~(i <= Len(<<msg>>))
      BY <1>5, <2>6, <2>8
    <3>2. \A r : Overtaken(i, r) /\ r # s => Earlier(i, r)
      BY <1>2, <1>5, <2>1, <3>1, LeaveOrderly
    <3>3. Earlier(i, s)
      BY <2>7, <3>1 DEF Earlier
    <3> QED BY <3>2, <3>3 DEF Orderly
  <2> QED BY <1>6, <2>7, <2>8
<1>8. CASE ~CompletesAtOnce(op[s])
  <2>1. out' = <<msg>>
    BY <1>1, <1>3, <1>8 DEF DoSend
  <2> QED BY <1>4, <1>5, <1>6, <2>1
<1> QED BY <1>7, <1>8

LEMMA ReconnectOrderly ==
    ASSUME SafeInv, FitInv, PublishedInOrder(op, sendOps), publishOrdering = "Full",
           ConnackResumed, NEW x \in DOMAIN out', out'[x].type = "PUBLISH"
    PROVE  Orderly(x)
<1>1. PICK f, R, sent : f = ResendAll.f /\ R = TailResumed(ResendAll.f) /\ sent = ResendAll.sent
  OBVIOUS
<1>2. /\ \A t \in sendOps : Kept(f[t], op[t])
      /\ \A k \in R : k \in sendOps /\ op[k].paused
      /\ sendOps \in SUBSET Serial
  BY <1>1, ReconnectFields DEF SafeInv, TypeOK
<1>3. out' = sent \o FirstPublishes(f, R)
  <2>1. Resumed(f, sendOps, R, {}, result, sent, FALSE)
    BY <1>1, ReconnectFields
  <2> QED BY <2>1 DEF Resumed
<1>4. InLine(f, sendOps) /\ (R = {} \/ \E i \in Serial : R = Resumable(f, sendOps, i))
  <2>1. PICK g : /\ g = ResendAll.f /\ InLine(g, sendOps)
                 /\ \/ TailResumed(g) = {}
                    \/ \E i \in sendOps : TailResumed(g) = Resumable(g, sendOps, i)
    BY ReconnectMoves
  <2> QED BY <1>1, <1>2, <2>1
<1>5. PICK m, Y :
         /\ m \in Nat /\ sent \in Seq(Y) /\ Len(sent) = m
         /\ \A i \in 1..m : Legal(sent[i])
         /\ \A i \in 1..m : sent[i].type = "PUBLISH" => sent[i].dup /\ sent[i].op \in sendOps
  BY <1>1, ReconnectSends
<1>6. Sends(f, R, sent)
  <2>1. R \in SUBSET Serial
    BY <1>2
  <2> QED BY <1>3, <1>5, <2>1, ResumedSends
<1>7. PICK n \in Nat : /\ DOMAIN out' = 1..(m + n)
                       /\ FirstPart(sent, m) /\ SecondPart(f, R, m, n)
  BY <1>5, <1>6 DEF Sends
<1>8. CASE x <= m
  <2>1. x \in 1..m /\ out'[x] = sent[x]
    BY <1>7, <1>8 DEF FirstPart
  <2>2. PICK msg : msg = out'[x]
    OBVIOUS
  <2>3. Legal(msg) /\ msg.type = "PUBLISH" /\ msg.dup /\ msg.op \in sendOps
    BY <1>5, <2>1, <2>2
  <2>4. op[msg.op].published
    BY <2>3, LoopPublished DEF Legal
  <2> QED BY <2>2, <2>3, <2>4, PublishedOrderly
<1>9. CASE ~(x <= m)
  <2>1. \A t \in R : f[t].fits
    BY <1>2 DEF FitInv, FitOps, OpFit, Kept, SameMessage
  <2>2. \A r \in sendOps : r < out'[x].op /\ ~f[r].published => Earlier(x, r)
    BY <1>2, <1>4, <1>5, <1>7, <1>9, <2>1, ResumedOrderly
  <2> QED BY <1>2, <2>2 DEF Orderly, Overtaken, Kept
<1> QED BY <1>8, <1>9

\* Under full ordering nothing is published ahead of an operation that was sent
\* before it: whatever completes, fails, is cancelled, times out or reconnects,
\* canSend and resumeSendOpsSince keep the order of publish_send.
THEOREM SendOpsSentInOrder ==
    ASSUME ~MaySwitch, Fits \subseteq {TRUE} PROVE Spec => SentInOrder
<1>1. ASSUME SafeInv, FitInv, OrderInv, Next, publishOrdering = "Full",
             NEW i \in DOMAIN out', out'[i].type = "PUBLISH"
      PROVE  Orderly(i)
  <2>1. PublishedInOrder(op, sendOps)
    BY <1>1 DEF OrderInv
  <2>2. CASE Silent
    <3>1. DisconnectMsg.type # "PUBLISH" /\ \A s : Pubrel(s).type # "PUBLISH"
      BY DEF DisconnectMsg, Pubrel
    <3>2. DOMAIN <<>> = {} /\ \A msg : DOMAIN <<msg>> = {1} /\ <<msg>>[1] = msg
      OBVIOUS
    <3> QED BY <1>1, <2>2, <3>1, <3>2 DEF Silent
  <2>3. CASE Ends
    BY <1>1, <2>1, <2>3, EndsOrderly
  <2>4. CASE Repeats
    <3>1. PICK s \in Serial : InTheLoop(s) /\ out' = <<Publish(op, s, TRUE)>>
      BY <2>4 DEF Repeats
    <3>2. s \in sendOps /\ op[s].published
      BY <1>1, <3>1, LoopPublished
    <3>3. \A msg : DOMAIN <<msg>> = {1} /\ <<msg>>[1] = msg
      OBVIOUS
    <3>4. out'[i].op = s
      BY <1>1, <3>1, <3>3 DEF Publish
    <3> QED BY <1>1, <2>1, <3>2, <3>4, PublishedOrderly
  <2>5. CASE DoSend
    BY <1>1, <2>5, DoSendOrderly
  <2>6. CASE ConnackResumed
    BY <1>1, <2>1, <2>6, ReconnectOrderly
  <2> QED BY <1>1, <2>2, <2>3, <2>4, <2>5, <2>6, StepSends
<1>2. SafeInv /\ FitInv /\ OrderInv /\ [Next]_vars =>
         [publishOrdering = "Full" =>
            \A i \in DOMAIN out' : out'[i].type = "PUBLISH" =>
               \A r \in sendOps : r < out'[i].op /\ ~op[r].published =>
                  \/ \E j \in DOMAIN out' : j < i /\ out'[j].op = r
                  \/ r \notin sendOps' /\ \A j \in DOMAIN out' : out'[j].op # r]_vars
  BY <1>1 DEF Orderly, Overtaken, Earlier
<1> QED BY <1>2, SafeInvariant, FitInvariant, OrderInvariant, PTL DEF Spec, SentInOrder
=============================================================================
