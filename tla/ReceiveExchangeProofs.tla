----------------------- MODULE ReceiveExchangeProofs -----------------------
(***************************************************************************)
(* Proofs about the receive operations, for every pool of operations and   *)
(* every set of packet identifiers, and a broker that may send anything.   *)
(***************************************************************************)
EXTENDS ReceiveExchange, SequenceTheorems, FiniteSetTheorems, TLAPS

\* The part of the type invariant on the operations.
RecvOK == recvOps \subseteq RecvSlots /\ recv \in [RecvSlots -> RecvState]

\* The inductive invariant.
RecvInv == RecvOK /\ UniqueReception

LEMMA NewRecvType == NewRecv \in RecvState
BY DEF NewRecv, RecvState

\* What happens to the timer of an operation leaves its packet identifier.
LEMMA TimerOnly ==
    ASSUME NEW r \in RecvState
    PROVE  /\ [r EXCEPT !.suspended = TRUE] \in RecvState
           /\ [r EXCEPT !.suspended = TRUE].id = r.id
           /\ [r EXCEPT !.timer = FALSE] \in RecvState
           /\ [r EXCEPT !.timer = FALSE].id = r.id
           /\ PostReconnectionResume(r) \in RecvState
           /\ PostReconnectionResume(r).id = r.id
<1>1. /\ [r EXCEPT !.suspended = TRUE] \in RecvState
      /\ [r EXCEPT !.suspended = TRUE].id = r.id
      /\ [r EXCEPT !.timer = FALSE] \in RecvState
      /\ [r EXCEPT !.timer = FALSE].id = r.id
  BY DEF RecvState
<1>2. (r.suspended /\ ~r.timer) \in BOOLEAN
  OBVIOUS
<1>3. \A b \in BOOLEAN : /\ [r EXCEPT !.suspended = b, !.timer = TRUE] \in RecvState
                         /\ [r EXCEPT !.suspended = b, !.timer = TRUE].id = r.id
  BY DEF RecvState
<1> QED BY <1>1, <1>2, <1>3 DEF PostReconnectionResume

\* The loss of the session keeps the operations f and their identifiers.
LEMMA SuspendedKeeps ==
    ASSUME NEW f \in [RecvSlots -> RecvState]
    PROVE  /\ Suspended(f) \in [RecvSlots -> RecvState]
           /\ \A s \in RecvSlots : Suspended(f)[s].id = f[s].id
BY TimerOnly DEF Suspended

LEMMA SessionLostKeeps ==
    ASSUME NEW f \in [RecvSlots -> RecvState], SessionLost(f)
    PROVE  /\ recv' \in [RecvSlots -> RecvState]
           /\ \A s \in RecvSlots : recv'[s].id = f[s].id
BY SuspendedKeeps DEF SessionLost

\* Operations that keep their identifiers, or leave, keep the invariant.
LEMMA SameIds ==
    ASSUME RecvInv, recv' \in [RecvSlots -> RecvState], recvOps' \subseteq recvOps,
           \A s \in recvOps' : recv'[s].id = recv[s].id
    PROVE  RecvInv'
BY DEF RecvInv, RecvOK, UniqueReception

\* A new operation without an identifier, or with one that no other has.
LEMMA OneMore ==
    ASSUME RecvInv, NEW s \in RecvSlots \ recvOps, NEW id \in PacketIds \cup {0},
           id # 0 => InProgress(id) = {},
           recvOps' = recvOps \cup {s}, recv' \in [RecvSlots -> RecvState],
           recv'[s].id = id,
           \A r \in recvOps : recv'[r].id = recv[r].id
    PROVE  RecvInv'
<1>1. \A r \in recvOps : id # 0 => recv[r].id # id
  BY DEF InProgress
<1> QED BY <1>1 DEF RecvInv, RecvOK, UniqueReception

LEMMA CompleteKeeps ==
    ASSUME RecvInv, NEW F, Complete(F)
    PROVE  RecvInv'
<1>1. recv' \in [RecvSlots -> RecvState]
  BY NewRecvType DEF Complete, RecvInv, RecvOK
<1>2. \A s \in recvOps' : recv'[s].id = recv[s].id
  BY DEF Complete, RecvInv, RecvOK
<1> QED BY <1>1, <1>2, SameIds DEF Complete

LEMMA PublishKeeps ==
    ASSUME RecvInv, NEW p \in Publishes(PacketIds), RecvPublish(p)
    PROVE  RecvInv'
<1>1. CASE PublishIgnored(p)
  BY <1>1, SameIds DEF PublishIgnored, RecvInv, RecvOK
<1>2. ASSUME NEW s \in RecvSlots, PublishRejected(p, s) PROVE RecvInv'
  <2> DEFINE f == [recv EXCEPT ![s] = NewRecv]
  <2>1. f \in [RecvSlots -> RecvState]
    BY NewRecvType DEF RecvInv, RecvOK
  <2>2. f[s].id = 0 /\ \A r \in recvOps : f[r].id = recv[r].id
    BY <1>2 DEF PublishRejected, RecvInv, RecvOK, NewRecv
  <2>3. SessionLost(f) /\ recvOps' = recvOps \cup {s} /\ s \notin recvOps
    BY <1>2 DEF PublishRejected
  <2> HIDE DEF f
  <2>4. recv' \in [RecvSlots -> RecvState] /\ \A r \in RecvSlots : recv'[r].id = f[r].id
    BY <2>1, <2>3, SessionLostKeeps
  <2>5. recv'[s].id = 0 /\ \A r \in recvOps : recv'[r].id = recv[r].id
    BY <2>2, <2>4 DEF RecvInv, RecvOK
  <2> QED BY <2>3, <2>4, <2>5, OneMore
<1>3. ASSUME NEW s \in RecvSlots, PublishReported(p, s) PROVE RecvInv'
  <2>1. CASE UNCHANGED <<recvOps, recv>>
    BY <2>1, SameIds DEF RecvInv, RecvOK
  <2>2. CASE /\ p.qos = 2 /\ recvOps' = recvOps \cup {s}
             /\ recv' = [recv EXCEPT ![s] = [NewRecv EXCEPT !.id = p.id, !.timer = TRUE]]
    <3>1. p.id \in PacketIds /\ InProgress(p.id) = {} /\ s \notin recvOps
      BY <1>3, <2>2 DEF PublishReported, NeedsOp, Publishes
    <3>2. /\ [NewRecv EXCEPT !.id = p.id, !.timer = TRUE] \in RecvState
          /\ [NewRecv EXCEPT !.id = p.id, !.timer = TRUE].id = p.id
      BY <3>1 DEF NewRecv, RecvState
    <3>3. /\ recv' \in [RecvSlots -> RecvState] /\ recv'[s].id = p.id
          /\ \A r \in recvOps : recv'[r].id = recv[r].id
      BY <2>2, <3>1, <3>2 DEF RecvInv, RecvOK
    <3> QED BY <2>2, <3>1, <3>3, OneMore
  <2> QED BY <1>3, <2>1, <2>2 DEF PublishReported
<1>4. ASSUME NEW s \in RecvSlots, PublishCutOff(p, s) PROVE RecvInv'
  <2>1. /\ p.id \in PacketIds /\ InProgress(p.id) = {} /\ s \notin recvOps
        /\ recvOps' = recvOps \cup {s}
        /\ recv' = [Suspended(recv) EXCEPT ![s] = [NewRecv EXCEPT !.id = p.id, !.timer = TRUE]]
    BY <1>4 DEF PublishCutOff, NeedsOp, Publishes
  <2>2. /\ Suspended(recv) \in [RecvSlots -> RecvState]
        /\ \A r \in RecvSlots : Suspended(recv)[r].id = recv[r].id
    BY SuspendedKeeps DEF RecvInv, RecvOK
  <2>3. /\ [NewRecv EXCEPT !.id = p.id, !.timer = TRUE] \in RecvState
        /\ [NewRecv EXCEPT !.id = p.id, !.timer = TRUE].id = p.id
    BY <2>1 DEF NewRecv, RecvState
  <2>4. /\ recv' \in [RecvSlots -> RecvState] /\ recv'[s].id = p.id
        /\ \A r \in recvOps : recv'[r].id = recv[r].id
    BY <2>1, <2>2, <2>3 DEF RecvInv, RecvOK
  <2> QED BY <2>1, <2>4, OneMore
<1>5. ASSUME NEW s \in RecvSlots, PublishInUse(p, s) PROVE RecvInv'
  <2>1. CASE SessionLost(recv)
    <3>1. /\ recv' \in [RecvSlots -> RecvState]
          /\ \A r \in RecvSlots : recv'[r].id = recv[r].id
      BY <2>1, SessionLostKeeps DEF RecvInv, RecvOK
    <3> QED BY <1>5, <3>1, SameIds DEF PublishInUse, RecvInv, RecvOK
  <2>2. CASE recv' = [recv EXCEPT ![s].timer = FALSE]
    <3>1. recv' = [recv EXCEPT ![s] = [recv[s] EXCEPT !.timer = FALSE]]
      BY <2>2 DEF RecvInv, RecvOK
    <3>2. /\ recv' \in [RecvSlots -> RecvState]
          /\ \A r \in RecvSlots : recv'[r].id = recv[r].id
      BY <3>1, TimerOnly DEF RecvInv, RecvOK
    <3> QED BY <1>5, <3>2, SameIds DEF PublishInUse, RecvInv, RecvOK
  <2> QED BY <1>5, <2>1, <2>2 DEF PublishInUse
<1> QED BY <1>1, <1>2, <1>3, <1>4, <1>5 DEF RecvPublish

LEMMA PubrelKeeps ==
    ASSUME RecvInv, NEW id \in PacketIds, NEW valid \in BOOLEAN, RecvPubrel(id, valid)
    PROVE  RecvInv'
<1>1. CASE UNCHANGED <<recvOps, recv>>
  BY <1>1, SameIds DEF RecvInv, RecvOK
<1>2. ASSUME NEW s \in InProgress(id), Complete({s}) PROVE RecvInv'
  BY <1>2, CompleteKeeps
<1>3. ASSUME NEW s \in InProgress(id), SessionLost([recv EXCEPT ![s].timer = FALSE]),
             UNCHANGED recvOps
      PROVE  RecvInv'
  <2> DEFINE f == [recv EXCEPT ![s].timer = FALSE]
  <2>1. s \in RecvSlots
    BY DEF InProgress, RecvInv, RecvOK
  <2>2. f = [recv EXCEPT ![s] = [recv[s] EXCEPT !.timer = FALSE]]
    BY DEF RecvInv, RecvOK
  <2>3. f \in [RecvSlots -> RecvState] /\ \A r \in RecvSlots : f[r].id = recv[r].id
    BY <2>1, <2>2, TimerOnly DEF RecvInv, RecvOK
  <2>4. SessionLost(f)
    BY <1>3
  <2> HIDE DEF f
  <2>5. recv' \in [RecvSlots -> RecvState] /\ \A r \in RecvSlots : recv'[r].id = recv[r].id
    BY <2>3, <2>4, SessionLostKeeps
  <2> QED BY <1>3, <2>5, SameIds DEF RecvInv, RecvOK
<1> QED BY <1>1, <1>2, <1>3 DEF RecvPubrel

LEMMA SessionKeeps ==
    ASSUME RecvInv,
           \/ ConnectPrepare
           \/ \E sessionPresent \in BOOLEAN : BrokerConnected(sessionPresent)
           \/ LoseSession
           \/ NotifyNetworkDisconnected
    PROVE  RecvInv'
<1>1. CASE UNCHANGED <<recvOps, recv>>
  BY <1>1, SameIds DEF RecvInv, RecvOK
<1>2. CASE SessionLost(recv) /\ UNCHANGED recvOps
  <2>1. recv' \in [RecvSlots -> RecvState] /\ \A s \in RecvSlots : recv'[s].id = recv[s].id
    BY <1>2, SessionLostKeeps DEF RecvInv, RecvOK
  <2> QED BY <1>2, <2>1, SameIds DEF RecvInv, RecvOK
<1>3. CASE Complete(recvOps)
  BY <1>3, CompleteKeeps
<1>4. CASE /\ recv' = [s \in RecvSlots |->
                         IF s \in recvOps THEN PostReconnectionResume(recv[s]) ELSE recv[s]]
           /\ UNCHANGED recvOps
  <2>1. recv' \in [RecvSlots -> RecvState] /\ \A s \in RecvSlots : recv'[s].id = recv[s].id
    BY <1>4, TimerOnly DEF RecvInv, RecvOK
  <2> QED BY <1>4, <2>1, SameIds DEF RecvInv, RecvOK
<1> QED BY <1>1, <1>2, <1>3, <1>4
        DEF ConnectPrepare, BrokerConnected, LoseSession, NotifyNetworkDisconnected

\* Every step keeps the invariant.
LEMMA RecvInvariant == Spec => []RecvInv
<1>1. Init => RecvInv
  BY NewRecvType DEF Init, RecvInv, RecvOK, UniqueReception
<1>2. RecvInv /\ [Next]_recvVars => RecvInv'
  <2> SUFFICES ASSUME RecvInv, [Next]_recvVars PROVE RecvInv'
    OBVIOUS
  <2>1. CASE UNCHANGED recvVars
    BY <2>1, SameIds DEF recvVars, RecvInv, RecvOK
  <2>2. ASSUME NEW F \in SUBSET Running, Tick(F) PROVE RecvInv'
    BY <2>2, CompleteKeeps DEF Tick
  <2> QED BY <2>1, <2>2, PublishKeeps, PubrelKeeps, SessionKeeps DEF Next
<1> QED BY <1>1, <1>2, PTL DEF Spec

\* No two receptions in progress share a packet identifier, whatever the broker
\* sends and however often the session is lost and resumed, for every pool of
\* operations and every set of identifiers: the search in m_recvOps for the
\* operation of a PUBLISH or a PUBREL has one answer at most.
THEOREM RecvUnique == Spec => []UniqueReception
<1>1. RecvInv => UniqueReception
  BY DEF RecvInv
<1> QED BY <1>1, RecvInvariant, PTL

\* The fields of an effect.
LEMMA EffectFields ==
    /\ Quiet.sent = <<>> /\ Quiet.report = {} /\ Quiet.failed = FALSE
    /\ Failed.sent = <<>> /\ Failed.report = {} /\ Failed.failed = TRUE
    /\ \A x : /\ [Quiet EXCEPT !.sent = x].sent = x
              /\ [Quiet EXCEPT !.sent = x].report = {}
              /\ [Quiet EXCEPT !.sent = x].failed = FALSE
    /\ \A x, y : /\ [Quiet EXCEPT !.report = y, !.sent = x].sent = x
                 /\ [Quiet EXCEPT !.report = y, !.sent = x].report = y
                 /\ [Quiet EXCEPT !.report = y, !.sent = x].failed = FALSE
BY DEF Quiet, Failed

LEMMA SentOnly ==
    ASSUME NEW e, \E x : e = [Quiet EXCEPT !.sent = x]
    PROVE  e.report \subseteq Messages /\ e.failed \in BOOLEAN
<1>1. PICK x : e = [Quiet EXCEPT !.sent = x]
  OBVIOUS
<1>2. e.report = {} /\ e.failed = FALSE
  BY <1>1 DEF Quiet
<1> QED BY <1>2

\* What the client reports in a step.
LEMMA EffectType ==
    ASSUME Next
    PROVE  effect'.report \subseteq Messages /\ effect'.failed \in BOOLEAN
<1>1. ASSUME NEW p \in Publishes(PacketIds), RecvPublish(p)
      PROVE  effect'.report \subseteq Messages /\ effect'.failed \in BOOLEAN
  <2>1. p.msg \in Messages
    BY DEF Publishes
  <2>2. CASE PublishIgnored(p)
    BY <2>2, EffectFields DEF PublishIgnored
  <2>3. ASSUME NEW s \in RecvSlots, PublishRejected(p, s)
        PROVE  effect'.report \subseteq Messages /\ effect'.failed \in BOOLEAN
    BY <2>3, EffectFields DEF PublishRejected
  <2>4. ASSUME NEW s \in RecvSlots, PublishReported(p, s) \/ PublishCutOff(p, s)
        PROVE  effect'.report \subseteq Messages /\ effect'.failed \in BOOLEAN
    <3>1. PICK x : effect' = [Quiet EXCEPT !.report = {p.msg}, !.sent = x]
      BY <2>4 DEF PublishReported, PublishCutOff
    <3>2. effect'.report = {p.msg} /\ effect'.failed = FALSE
      BY <3>1, EffectFields
    <3> QED BY <2>1, <3>2
  <2>5. ASSUME NEW s \in RecvSlots, PublishInUse(p, s)
        PROVE  effect'.report \subseteq Messages /\ effect'.failed \in BOOLEAN
    <3>1. effect' = Failed \/ \E x : effect' = [Quiet EXCEPT !.sent = x]
      BY <2>5 DEF PublishInUse
    <3>2. CASE effect' = Failed
      BY <3>2, EffectFields
    <3>3. CASE \E x : effect' = [Quiet EXCEPT !.sent = x]
      BY <3>3, SentOnly
    <3> QED BY <3>1, <3>2, <3>3
  <2> QED BY <1>1, <2>2, <2>3, <2>4, <2>5 DEF RecvPublish
<1>2. ASSUME NEW id \in PacketIds, NEW valid \in BOOLEAN, RecvPubrel(id, valid)
      PROVE  effect'.report \subseteq Messages /\ effect'.failed \in BOOLEAN
  <2>1. effect' = Quiet \/ effect' = Failed \/ \E x : effect' = [Quiet EXCEPT !.sent = x]
    BY <1>2 DEF RecvPubrel
  <2>2. CASE effect' = Quiet
    BY <2>2, EffectFields
  <2>3. CASE effect' = Failed
    BY <2>3, EffectFields
  <2>4. CASE \E x : effect' = [Quiet EXCEPT !.sent = x]
    BY <2>4, SentOnly
  <2> QED BY <2>1, <2>2, <2>3, <2>4
<1>3. CASE \/ \E F \in SUBSET Running : Tick(F)
           \/ ConnectPrepare
           \/ \E sessionPresent \in BOOLEAN : BrokerConnected(sessionPresent)
           \/ LoseSession
           \/ NotifyNetworkDisconnected
  BY <1>3, EffectFields
  DEF Tick, ConnectPrepare, BrokerConnected, LoseSession, NotifyNetworkDisconnected
<1> QED BY <1>1, <1>2, <1>3 DEF Next

\* The flags of the session stay Boolean.
LEMMA FlagsType ==
    ASSUME TypeOK, Next
    PROVE  /\ networkDisconnected' \in BOOLEAN
           /\ connected' \in BOOLEAN /\ disconnecting' \in BOOLEAN
<1>1. ASSUME NEW p \in Publishes(PacketIds), RecvPublish(p)
      PROVE  /\ networkDisconnected' \in BOOLEAN
             /\ connected' \in BOOLEAN /\ disconnecting' \in BOOLEAN
  BY <1>1 DEF RecvPublish, PublishIgnored, PublishRejected, PublishReported, PublishCutOff,
              PublishInUse, SessionLost, TypeOK
<1>2. ASSUME NEW id \in PacketIds, NEW valid \in BOOLEAN, RecvPubrel(id, valid)
      PROVE  /\ networkDisconnected' \in BOOLEAN
             /\ connected' \in BOOLEAN /\ disconnecting' \in BOOLEAN
  BY <1>2 DEF RecvPubrel, SessionLost, TypeOK
<1>3. CASE \/ \E F \in SUBSET Running : Tick(F)
           \/ ConnectPrepare
           \/ \E sessionPresent \in BOOLEAN : BrokerConnected(sessionPresent)
           \/ LoseSession
           \/ NotifyNetworkDisconnected
  BY <1>3 DEF Tick, ConnectPrepare, BrokerConnected, LoseSession,
              NotifyNetworkDisconnected, SessionLost, TypeOK
<1> QED BY <1>1, <1>2, <1>3 DEF Next

\* Type correctness of the receive side: whatever arrives, an operation holds
\* no packet identifier the broker did not use, and only messages that were
\* published are reported.
THEOREM RecvTypeOK == Spec => []TypeOK
<1>1. Init => TypeOK
  <2>1. Quiet.report = {} /\ Quiet.failed = FALSE
    BY EffectFields
  <2> QED BY <2>1, NewRecvType DEF Init, TypeOK
<1>2. TypeOK /\ RecvInv' /\ [Next]_recvVars => TypeOK'
  <2> SUFFICES ASSUME TypeOK, RecvInv', [Next]_recvVars PROVE TypeOK'
    OBVIOUS
  <2>1. CASE UNCHANGED recvVars
    BY <2>1 DEF recvVars, TypeOK
  <2>2. CASE Next
    BY <2>2, EffectType, FlagsType DEF TypeOK, RecvInv, RecvOK
  <2> QED BY <2>1, <2>2
<1> QED BY <1>1, <1>2, RecvInvariant, PTL DEF Spec

-----------------------------------------------------------------------------
(***************************************************************************)
(* The receive side and the broker together: proofs for every number of    *)
(* messages, operations and packet identifiers, channels of any length,    *)
(* and connections that break at any time, for an application that does    *)
(* not change the clean session flag.                                      *)
(***************************************************************************)

-----------------------------------------------------------------------------
(***************************************************************************)
(* The connection delivers in order. What the invariants say of a channel  *)
(* is which messages it holds and which one is ahead of which.             *)
(***************************************************************************)
Elements(q) == {q[i] : i \in 1..Len(q)}

Ahead(q, x, y) == \E i, j \in 1..Len(q) : i < j /\ q[i] = x /\ q[j] = y

LEMMA AheadElements ==
    ASSUME NEW q, NEW x, NEW y, Ahead(q, x, y)
    PROVE  x \in Elements(q) /\ y \in Elements(q)
BY DEF Ahead, Elements

LEMMA EmptyChannel == Elements(<<>>) = {} /\ \A x, y : ~Ahead(<<>>, x, y)
<1>1. Len(<<>>) = 0
  BY EmptySeq
<1>2. 1..0 = {}
  OBVIOUS
<1> QED BY <1>1, <1>2 DEF Elements, Ahead

\* A message is sent: it goes behind all the others.
Sent(q, r, e) ==
    /\ \A x : x \in Elements(r) <=> x \in Elements(q) \/ x = e
    /\ \A x, y : Ahead(r, x, y) <=> Ahead(q, x, y) \/ (x \in Elements(q) /\ y = e)

LEMMA AppendSends ==
    ASSUME NEW X, NEW q \in Seq(X), NEW e \in X
    PROVE  Append(q, e) \in Seq(X) /\ Sent(q, Append(q, e), e)
<1> DEFINE r == Append(q, e)
           n == Len(q)
<1>1. /\ r \in Seq(X) /\ Len(r) = n + 1 /\ n \in Nat
      /\ \A i \in 1..n : r[i] = q[i]
      /\ r[n + 1] = e
  BY AppendProperties, LenProperties
<1> HIDE DEF r, n
<1>2. \A i : i \in 1..Len(r) <=> i \in 1..n \/ i = n + 1
  BY <1>1
<1>3. \A x : x \in Elements(r) <=> x \in Elements(q) \/ x = e
  BY <1>1, <1>2 DEF Elements, n
<1>4. ASSUME NEW x, NEW y, Ahead(r, x, y)
      PROVE  Ahead(q, x, y) \/ (x \in Elements(q) /\ y = e)
  <2>1. PICK i \in 1..Len(r), j \in 1..Len(r) : i < j /\ r[i] = x /\ r[j] = y
    BY <1>4 DEF Ahead
  <2>2. i \in 1..n /\ q[i] = x
    BY <1>1, <2>1
  <2>3. CASE j \in 1..n
    <3>1. i \in 1..Len(q) /\ j \in 1..Len(q) /\ q[j] = y
      BY <1>1, <2>1, <2>2, <2>3 DEF n
    <3> QED BY <2>1, <2>2, <3>1 DEF Ahead
  <2>4. CASE j = n + 1
    BY <1>1, <2>1, <2>2, <2>4 DEF Elements, n
  <2> QED BY <1>2, <2>3, <2>4
<1>5. ASSUME NEW x, NEW y, Ahead(q, x, y) PROVE Ahead(r, x, y)
  <2>1. PICK i \in 1..n, j \in 1..n : i < j /\ q[i] = x /\ q[j] = y
    BY <1>5 DEF Ahead, n
  <2>2. i \in 1..Len(r) /\ j \in 1..Len(r) /\ r[i] = x /\ r[j] = y
    BY <1>1, <1>2, <2>1
  <2> QED BY <2>1, <2>2 DEF Ahead
<1>6. ASSUME NEW x \in Elements(q) PROVE Ahead(r, x, e)
  <2>1. PICK i \in 1..n : q[i] = x
    BY DEF Elements, n
  <2>2. i \in 1..Len(r) /\ n + 1 \in 1..Len(r) /\ r[i] = x /\ i < n + 1
    BY <1>1, <1>2, <2>1
  <2> QED BY <1>1, <2>2 DEF Ahead
<1>7. Sent(q, r, e)
  BY <1>3, <1>4, <1>5, <1>6 DEF Sent
<1> QED BY <1>1, <1>7 DEF r

\* A message is taken: it was ahead of all the others.
Taken(q, r, e) ==
    /\ \A x : x \in Elements(q) <=> x = e \/ x \in Elements(r)
    /\ \A x, y : Ahead(q, x, y) <=> Ahead(r, x, y) \/ (x = e /\ y \in Elements(r))

LEMMA TailTakes ==
    ASSUME NEW X, NEW q \in Seq(X), q # <<>>
    PROVE  Tail(q) \in Seq(X) /\ Head(q) \in X /\ Taken(q, Tail(q), Head(q))
<1> DEFINE r == Tail(q)
           e == Head(q)
           n == Len(r)
<1>1. /\ r \in Seq(X) /\ e \in X /\ n \in Nat /\ Len(q) = n + 1
      /\ q[1] = e /\ \A i \in 1..n : r[i] = q[i + 1]
  <2>1. Len(q) \in Nat /\ Len(q) # 0
    BY EmptySeq, LenProperties
  <2>2. r \in Seq(X) /\ e \in X /\ Len(r) = Len(q) - 1 /\ q[1] = e
    BY <2>1, HeadTailProperties
  <2>3. \A i \in 1..Len(r) : r[i] = q[i + 1]
    BY HeadTailProperties
  <2> QED BY <2>1, <2>2, <2>3
<1> HIDE DEF r, e, n
<1>2. \A i : i \in 1..Len(q) <=> i = 1 \/ i \in 2..(n + 1)
  BY <1>1
<1>3. \A i \in 2..(n + 1) : i - 1 \in 1..n /\ q[i] = r[i - 1]
  <2>1. ASSUME NEW i \in 2..(n + 1) PROVE i - 1 \in 1..n /\ (i - 1) + 1 = i
    BY <1>1
  <2> QED BY <1>1, <2>1
<1>4. \A x : x \in Elements(q) <=> x = e \/ x \in Elements(r)
  <2>1. ASSUME NEW x \in Elements(q) PROVE x = e \/ x \in Elements(r)
    BY <1>1, <1>2, <1>3 DEF Elements, n
  <2>2. e \in Elements(q)
    BY <1>1, <1>2 DEF Elements
  <2>3. ASSUME NEW x \in Elements(r) PROVE x \in Elements(q)
    <3>1. PICK i \in 1..n : r[i] = x
      BY DEF Elements, n
    <3>2. i + 1 \in 1..Len(q) /\ q[i + 1] = x
      BY <1>1, <3>1
    <3> QED BY <3>2 DEF Elements
  <2> QED BY <2>1, <2>2, <2>3
<1>5. ASSUME NEW x, NEW y, Ahead(q, x, y)
      PROVE  Ahead(r, x, y) \/ (x = e /\ y \in Elements(r))
  <2>1. PICK i \in 1..Len(q), j \in 1..Len(q) : i < j /\ q[i] = x /\ q[j] = y
    BY <1>5 DEF Ahead
  <2>2. j \in 2..(n + 1) /\ j - 1 \in 1..n /\ r[j - 1] = y
    BY <1>1, <1>2, <1>3, <2>1
  <2>3. CASE i = 1
    BY <1>1, <2>1, <2>2, <2>3 DEF Elements, n
  <2>4. CASE i \in 2..(n + 1)
    <3>1. i - 1 \in 1..n /\ r[i - 1] = x /\ i - 1 < j - 1
      BY <1>1, <1>3, <2>1, <2>2, <2>4
    <3> QED BY <2>2, <3>1 DEF Ahead, n
  <2> QED BY <1>2, <2>3, <2>4
<1>6. ASSUME NEW x, NEW y, Ahead(r, x, y) PROVE Ahead(q, x, y)
  <2>1. PICK i \in 1..n, j \in 1..n : i < j /\ r[i] = x /\ r[j] = y
    BY <1>6 DEF Ahead, n
  <2>2. /\ i + 1 \in 1..Len(q) /\ j + 1 \in 1..Len(q) /\ i + 1 < j + 1
        /\ q[i + 1] = x /\ q[j + 1] = y
    BY <1>1, <2>1
  <2> QED BY <2>2 DEF Ahead
<1>7. ASSUME NEW y \in Elements(r) PROVE Ahead(q, e, y)
  <2>1. PICK i \in 1..n : r[i] = y
    BY DEF Elements, n
  <2>2. 1 \in 1..Len(q) /\ i + 1 \in 1..Len(q) /\ 1 < i + 1 /\ q[i + 1] = y
    BY <1>1, <2>1
  <2> QED BY <1>1, <2>2 DEF Ahead
<1>8. Taken(q, r, e)
  BY <1>4, <1>5, <1>6, <1>7 DEF Taken
<1> QED BY <1>1, <1>8 DEF r, e

-----------------------------------------------------------------------------
(***************************************************************************)
(* The messages.                                                           *)
(***************************************************************************)
ToClient == {PublishMsg(m, id, dup) : m \in Messages, id \in PacketIds, dup \in BOOLEAN}
            \cup {PubrelMsg(id) : id \in PacketIds} \cup {ConnackMsg(b) : b \in BOOLEAN}
ToBroker == [type : {"PUBACK", "PUBREC", "PUBCOMP"}, id : PacketIds]

LEMMA PublishFields ==
    ASSUME NEW m, NEW id, NEW dup
    PROVE  /\ PublishMsg(m, id, dup).type = "PUBLISH" /\ PublishMsg(m, id, dup).id = id
           /\ PublishMsg(m, id, dup).dup = dup /\ PublishMsg(m, id, dup).msg = m
           /\ PublishMsg(m, id, dup).valid = TRUE
           /\ PublishMsg(m, id, dup).qos = IF m \in ExactlyOnce THEN 2 ELSE 1
BY DEF PublishMsg

LEMMA OtherFields ==
    /\ \A id : PubrelMsg(id).type = "PUBREL" /\ PubrelMsg(id).id = id
    /\ \A b : ConnackMsg(b).type = "CONNACK" /\ ConnackMsg(b).sessionPresent = b
BY DEF PubrelMsg, ConnackMsg

\* What a message to the client can be.
IsPublish(x) ==
    /\ x.type = "PUBLISH" /\ x.id \in PacketIds /\ x.msg \in Messages /\ x.valid
    /\ x.msg \in ExactlyOnce <=> x.qos = 2
    /\ x.qos = 1 \/ x.qos = 2
    /\ x \in Publishes(PacketIds)

LEMMA ToClientFields ==
    /\ \A x \in ToClient : \/ IsPublish(x)
                           \/ x.type = "PUBREL" /\ x.id \in PacketIds
                           \/ x.type = "CONNACK" /\ x.sessionPresent \in BOOLEAN
    /\ \A m \in Messages, id \in PacketIds, dup \in BOOLEAN : PublishMsg(m, id, dup) \in ToClient
    /\ \A id \in PacketIds : PubrelMsg(id) \in ToClient
    /\ \A b \in BOOLEAN : ConnackMsg(b) \in ToClient
<1>1. ASSUME NEW m \in Messages, NEW id \in PacketIds, NEW dup \in BOOLEAN
      PROVE  IsPublish(PublishMsg(m, id, dup))
  <2>1. PublishMsg(m, id, dup) \in Publishes(PacketIds)
    BY DEF PublishMsg, Publishes
  <2>2. PICK x : x = PublishMsg(m, id, dup)
    OBVIOUS
  <2>3. /\ x.type = "PUBLISH" /\ x.id = id /\ x.msg = m /\ x.valid = TRUE
        /\ x.qos = IF m \in ExactlyOnce THEN 2 ELSE 1
    BY <2>2 DEF PublishMsg
  <2>4. (x.msg \in ExactlyOnce <=> x.qos = 2) /\ (x.qos = 1 \/ x.qos = 2)
    BY <2>3
  <2>5. IsPublish(x)
    BY <2>1, <2>2, <2>3, <2>4 DEF IsPublish
  <2> QED BY <2>2, <2>5
<1>2. ASSUME NEW x \in ToClient
      PROVE  \/ IsPublish(x)
             \/ x.type = "PUBREL" /\ x.id \in PacketIds
             \/ x.type = "CONNACK" /\ x.sessionPresent \in BOOLEAN
  <2>1. CASE x \in {PublishMsg(m, id, dup) : m \in Messages, id \in PacketIds, dup \in BOOLEAN}
    BY <1>1, <2>1
  <2>2. CASE x \in {PubrelMsg(id) : id \in PacketIds}
    BY <2>2, OtherFields
  <2>3. CASE x \in {ConnackMsg(b) : b \in BOOLEAN}
    BY <2>3, OtherFields
  <2> QED BY <2>1, <2>2, <2>3 DEF ToClient
<1> QED BY <1>2 DEF ToClient

LEMMA AckFields ==
    ASSUME NEW type \in {"PUBACK", "PUBREC", "PUBCOMP"}, NEW id \in PacketIds
    PROVE  \E a \in ToBroker : /\ a.type = type /\ a.id = id
                               /\ Ack(type, id) = <<a>>
<1> DEFINE a == [type |-> type, id |-> id]
<1>1. a \in ToBroker /\ a.type = type /\ a.id = id
  BY DEF ToBroker
<1>2. Ack(type, id) = <<a>>
  BY DEF Ack
<1> HIDE DEF a
<1> QED BY <1>1, <1>2

-----------------------------------------------------------------------------
(***************************************************************************)
(* The inductive invariant.                                                *)
(***************************************************************************)

\* The exchange of a message is in progress, with a packet identifier.
Open(m, id) ==
    m \in Messages /\ exchange[m].stage \in {"publish", "release"} /\ exchange[m].id = id

Stages == {"new", "publish", "release", "done", "dropped"}

TypeInv ==
    /\ RecvInv
    /\ toClient \in Seq(ToClient) /\ toBroker \in Seq(ToBroker)
    /\ exchange \in [Messages -> [stage : Stages, id : PacketIds \cup {0}]]
    /\ \A m, id : Open(m, id) => id \in PacketIds
    /\ reported \in [Messages -> 0..2]
    /\ IsFiniteSet(Unacked)

\* A CONNACK is under way to the client.
Pending == \E x \in Elements(toClient) : x.type = "CONNACK"

\* What the client holds of receptions belongs to a session that is over.
Over == cleanSession /\ (~accepted \/ Pending)

\* The client takes a PUBLISH with this identifier for a repetition.
Held(id) == ~Over /\ InProgress(id) # {}

\* The connection and the session: the CONNACK comes first, and an old session
\* that the broker keeps is one that the client keeps.
SessionInv ==
    /\ ~accepted => toClient = <<>> /\ toBroker = <<>> /\ ~connected
    /\ accepted => (persistent <=> ~cleanSession)
    /\ cleanSession => ~persistent
    /\ \A x, y : Ahead(toClient, x, y) => y.type # "CONNACK"
    /\ Pending => ~connected /\ ~disconnecting
    /\ accepted /\ ~Pending => connected \/ disconnecting
    /\ disconnecting => ~connected
    /\ ~cleanSession /\ ~persistent => recvOps = {}
    /\ \A x \in Elements(toClient) : x.type = "CONNACK" =>
          /\ x.sessionPresent => ~cleanSession
          /\ ~x.sessionPresent /\ ~cleanSession => recvOps = {}

\* One exchange at a time has a packet identifier.
OneExchange == \A m, n, id : Open(m, id) /\ Open(n, id) => m = n

\* A copy of a message under way to the client.
Copy(x) == x \in Elements(toClient) /\ x.type = "PUBLISH"
Release(x) == x \in Elements(toClient) /\ x.type = "PUBREL"

CopiesBelong ==
    \A x : Copy(x) => /\ \A m : Open(m, x.id) => m = x.msg
                      /\ exchange[x.msg].stage # "new"
                      /\ x.msg \in ExactlyOnce => Open(x.msg, x.id)

\* Acknowledgements are of messages that were reported; a PUBCOMP is the last
\* one of its exchange and nothing of it is left at the client.
AcksEarned ==
    \A a \in Elements(toBroker) :
        /\ a.type = "PUBACK" =>
              \A m : Open(m, a.id) /\ m \notin ExactlyOnce => reported[m] > 0
        /\ a.type # "PUBACK" =>
              \E m \in ExactlyOnce : Open(m, a.id) /\ reported[m] > 0

PubcompEnds ==
    \A a \in Elements(toBroker) : a.type = "PUBCOMP" =>
        /\ ~Held(a.id)
        /\ \A m : Open(m, a.id) => exchange[m].stage = "release"
        /\ \A x : Copy(x) => x.id # a.id

PubcompLast ==
    \A a, b : Ahead(toBroker, a, b) /\ a.type = "PUBCOMP" /\ b.type # "PUBACK" => b.id # a.id

\* A reception is of an exchange in progress, and of a message that was reported.
HeldReported ==
    \A id \in PacketIds : Held(id) => \E m \in ExactlyOnce : Open(m, id) /\ reported[m] > 0

\* A PUBREL under way while the message is still to be confirmed belongs to the
\* exchange before, and the client has nothing of either.
OldRelease ==
    \A x, m : Release(x) /\ Open(m, x.id) /\ m \in ExactlyOnce /\ exchange[m].stage = "publish" =>
        /\ ~Held(x.id)
        /\ \A a \in Elements(toBroker) : a.type = "PUBREC" => a.id # x.id

\* The copies of a message are ahead of the PUBRELs of its exchange and behind
\* those of the exchange before.
CopiesFirst ==
    \A x, y : Ahead(toClient, x, y) /\ x.id = y.id =>
        /\ x.type = "PUBLISH" /\ x.msg \in ExactlyOnce /\ y.type = "PUBREL" =>
              exchange[x.msg].stage = "release"
        /\ y.type = "PUBLISH" /\ y.msg \in ExactlyOnce /\ x.type = "PUBREL" =>
              exchange[y.msg].stage = "publish"

\* The first copy of a message is not taken for a repetition.
FirstCopy ==
    /\ \A x : Copy(x) /\ ~x.dup => ~Held(x.id)
    /\ \A x, y : Ahead(toClient, x, y) /\ x.type = "PUBLISH" /\ y.type = "PUBLISH" /\ ~y.dup =>
          x.id # y.id

\* What was reported, by the stage of the exchange.
StageReported ==
    \A m \in Messages :
        /\ exchange[m].stage \in {"release", "done"} => reported[m] > 0
        /\ exchange[m].stage = "new" => reported[m] = 0

\* A message that may still be repeated and was reported is remembered, or was
\* given up, or its session is over.
Remembered ==
    /\ \A x : Copy(x) /\ x.msg \in ExactlyOnce =>
          reported[x.msg] = 0 \/ Held(x.id) \/ x.msg \in discarded
    /\ \A m, id : m \in ExactlyOnce /\ Open(m, id) /\ exchange[m].stage = "publish"
                /\ reported[m] > 0 =>
          Held(id) \/ m \in discarded \/ (~accepted /\ cleanSession)

OrderlyInv ==
    /\ OneExchange /\ CopiesBelong /\ AcksEarned /\ PubcompEnds /\ PubcompLast
    /\ HeldReported /\ OldRelease /\ CopiesFirst /\ FirstCopy /\ StageReported /\ Remembered

ExchangeInv == TypeInv /\ SessionInv /\ OrderlyInv /\ DeliveredOnce /\ NoProtocolError

\* MessageOf and Unacked, in terms of Open.
LEMMA OpenFacts ==
    /\ \A id, m : m \in MessageOf(id) <=> Open(m, id)
    /\ \A m : m \in Unacked <=> m \in Messages /\ Open(m, exchange[m].id)
BY DEF MessageOf, Unacked, Open

\* A step that only takes messages off the channels and forgets receptions.
Forgotten(id) ==
    \/ \A m : Open(m, id) => m \in discarded'
    \/ ~accepted' /\ cleanSession' /\ Elements(toClient)' = {}

OnlyLess ==
    /\ \A x : x \in Elements(toClient)' => x \in Elements(toClient)
    /\ \A x, y : Ahead(toClient, x, y)' => Ahead(toClient, x, y)
    /\ \A a : a \in Elements(toBroker)' => a \in Elements(toBroker)
    /\ \A a, b : Ahead(toBroker, a, b)' => Ahead(toBroker, a, b)
    /\ exchange' = exchange /\ reported' = reported
    /\ \A m : m \in discarded => m \in discarded'
    /\ \A id : Held(id)' => Held(id)
    /\ \A id : Held(id) => Held(id)' \/ Forgotten(id)
    /\ ~accepted /\ cleanSession => ~accepted' /\ cleanSession'

LEMMA LessKept ==
    ASSUME OrderlyInv, OnlyLess
    PROVE  OrderlyInv'
<1>1. /\ \A m, id : Open(m, id)' <=> Open(m, id)
      /\ \A x : Copy(x)' => Copy(x)
      /\ \A x : Release(x)' => Release(x)
  BY DEF OnlyLess, Open, Copy, Release
<1>2. OneExchange' /\ CopiesBelong' /\ StageReported'
  BY <1>1 DEF OrderlyInv, OneExchange, CopiesBelong, StageReported, OnlyLess
<1>3. AcksEarned'
  BY <1>1 DEF OrderlyInv, AcksEarned, OnlyLess
<1>4. PubcompEnds'
  BY <1>1 DEF OrderlyInv, PubcompEnds, OnlyLess
<1>5. PubcompLast'
  BY DEF OrderlyInv, PubcompLast, OnlyLess
<1>6. HeldReported'
  BY <1>1 DEF OrderlyInv, HeldReported, OnlyLess
<1>7. OldRelease'
  BY <1>1 DEF OrderlyInv, OldRelease, OnlyLess
<1>8. CopiesFirst'
  BY DEF OrderlyInv, CopiesFirst, OnlyLess
<1>9. FirstCopy'
  BY <1>1 DEF OrderlyInv, FirstCopy, OnlyLess
<1>10. Remembered'
  <2>1. ASSUME NEW x, Copy(x)', x.msg \in ExactlyOnce
        PROVE  reported'[x.msg] = 0 \/ Held(x.id)' \/ x.msg \in discarded'
    <3>1. Open(x.msg, x.id) /\ Copy(x)
      BY <1>1, <2>1 DEF OrderlyInv, CopiesBelong
    <3>2. Elements(toClient)' # {}
      BY <2>1 DEF Copy
    <3> QED BY <2>1, <3>1, <3>2 DEF OrderlyInv, Remembered, OnlyLess, Forgotten
  <2>2. ASSUME NEW m, NEW id, m \in ExactlyOnce, Open(m, id)', exchange'[m].stage = "publish",
               reported'[m] > 0
        PROVE  Held(id)' \/ m \in discarded' \/ (~accepted' /\ cleanSession')
    BY <1>1, <2>2 DEF OrderlyInv, Remembered, OnlyLess, Forgotten
  <2> QED BY <2>1, <2>2 DEF Remembered
<1> QED BY <1>2, <1>3, <1>4, <1>5, <1>6, <1>7, <1>8, <1>9, <1>10 DEF OrderlyInv

-----------------------------------------------------------------------------
(***************************************************************************)
(* What a step of the client sends and reports.                            *)
(***************************************************************************)

LEMMA QuietStep ==
    ASSUME TypeInv, Observed, effect' = Quiet
    PROVE  toBroker' = toBroker /\ reported' = reported /\ NoProtocolError'
<1>1. effect'.sent = <<>> /\ effect'.report = {} /\ effect'.failed = FALSE
  BY EffectFields
<1>2. toBroker \in Seq(ToBroker) /\ toBroker' = toBroker \o <<>>
  BY <1>1 DEF TypeInv, Observed
<1>3. toBroker' = toBroker
  BY <1>2, ConcatEmptySeq
<1>4. reported' = [m \in Messages |-> reported[m]]
  BY <1>1 DEF Observed
<1>5. reported' = reported
  BY <1>4 DEF TypeInv
<1> QED BY <1>1, <1>3, <1>5 DEF NoProtocolError

LEMMA AckSent ==
    ASSUME TypeInv, Observed, NEW type \in {"PUBACK", "PUBREC", "PUBCOMP"}, NEW id \in PacketIds,
           effect'.sent = Ack(type, id)
    PROVE  \E a \in ToBroker : /\ a.type = type /\ a.id = id
                               /\ toBroker' \in Seq(ToBroker) /\ Sent(toBroker, toBroker', a)
<1>1. PICK a \in ToBroker : a.type = type /\ a.id = id /\ Ack(type, id) = <<a>>
  BY AckFields
<1>2. toBroker \in Seq(ToBroker) /\ toBroker' = toBroker \o <<a>>
  BY <1>1 DEF TypeInv, Observed
<1>3. toBroker' = Append(toBroker, a)
  BY <1>1, <1>2, AppendIsConcat
<1>4. toBroker' \in Seq(ToBroker) /\ Sent(toBroker, toBroker', a)
  BY <1>1, <1>2, <1>3, AppendSends
<1> QED BY <1>1, <1>4

NoReport == reported' = reported

MoreReported(m) ==
    /\ reported' \in [Messages -> 0..2]
    /\ \A n : n \in Messages /\ n # m => reported'[n] = reported[n]
    /\ \A n : n \in Messages /\ reported[n] > 0 => reported'[n] > 0
    /\ reported'[m] > 0
    /\ reported'[m] = 2 => reported[m] > 0

LEMMA ReportedOnce ==
    ASSUME TypeInv, Observed, NEW m \in Messages, effect'.report = {m}
    PROVE  MoreReported(m)
<1>1. reported' = [n \in Messages |->
                     IF n = m /\ reported[n] < 2 THEN reported[n] + 1 ELSE reported[n]]
  BY DEF Observed
<1>2. \A n \in Messages : reported[n] \in 0..2
  BY DEF TypeInv
<1>3. \A n \in Messages : /\ reported'[n] \in 0..2
                          /\ n # m => reported'[n] = reported[n]
                          /\ reported[n] > 0 => reported'[n] > 0
  BY <1>1, <1>2
<1>4. reported'[m] > 0 /\ (reported'[m] = 2 => reported[m] > 0)
  BY <1>1, <1>2
<1>5. reported' \in [Messages -> 0..2]
  BY <1>1, <1>2
<1> QED BY <1>3, <1>4, <1>5 DEF MoreReported

LEMMA NothingReported ==
    ASSUME TypeInv, Observed, effect'.report = {}
    PROVE  NoReport
<1>1. reported' = [m \in Messages |-> reported[m]]
  BY DEF Observed
<1> QED BY <1>1 DEF TypeInv, NoReport

\* Operations that keep their packet identifiers.
LEMMA SameReceptions ==
    ASSUME RecvInv, recvOps' = recvOps, \A s \in RecvSlots : recv'[s].id = recv[s].id
    PROVE  \A id : InProgress(id)' = InProgress(id)
BY DEF InProgress, RecvInv, RecvOK

-----------------------------------------------------------------------------
(***************************************************************************)
(* The messages and the connection.                                        *)
(***************************************************************************)

\* The exchanges are as before.
LEMMA SameExchanges ==
    ASSUME TypeInv, exchange' = exchange
    PROVE  /\ exchange' \in [Messages -> [stage : Stages, id : PacketIds \cup {0}]]
           /\ \A m, id : Open(m, id)' <=> Open(m, id)
           /\ \A m, id : Open(m, id)' => id \in PacketIds
           /\ IsFiniteSet(Unacked')
<1>1. \A m, id : Open(m, id)' <=> Open(m, id)
  BY DEF Open
<1>2. Unacked' = Unacked
  BY DEF Unacked
<1> QED BY <1>1, <1>2 DEF TypeInv

\* The client takes the next message.
LEMMA NextMessage ==
    ASSUME ExchangeInv, toClient # <<>>, toClient' = Tail(toClient), NEW x, x = Head(toClient)
    PROVE  /\ accepted /\ toClient' \in Seq(ToClient) /\ x \in ToClient
           /\ Taken(toClient, toClient', x)
           /\ x.type # "CONNACK" => ~Pending
           /\ \A y \in Elements(toClient') : y.type # "CONNACK"
<1>1. accepted
  BY DEF ExchangeInv, SessionInv
<1>2. toClient \in Seq(ToClient)
  BY DEF ExchangeInv, TypeInv
<1>3. toClient' \in Seq(ToClient) /\ x \in ToClient /\ Taken(toClient, toClient', x)
  BY <1>2, TailTakes
<1>4. \A y \in Elements(toClient') : Ahead(toClient, x, y)
  BY <1>3 DEF Taken
<1>5. \A y \in Elements(toClient') : y.type # "CONNACK"
  BY <1>4 DEF ExchangeInv, SessionInv
<1>6. x.type # "CONNACK" => ~Pending
  BY <1>3, <1>5 DEF Taken, Pending
<1> QED BY <1>1, <1>3, <1>5, <1>6

\* The session is as before, or lost, after a message that is not a CONNACK.
LEMMA SessionAfterMessage ==
    ASSUME ExchangeInv, toClient # <<>>, toClient' = Tail(toClient),
           Head(toClient).type # "CONNACK", UNCHANGED brokerVars,
           UNCHANGED <<connected, disconnecting>> \/ (~connected' /\ disconnecting')
    PROVE  SessionInv' /\ ~Pending /\ ~Pending' /\ ~Over /\ ~Over'
<1>1. PICK x : x = Head(toClient)
  OBVIOUS
<1>2. /\ accepted /\ Taken(toClient, toClient', x) /\ ~Pending
      /\ \A y \in Elements(toClient') : y.type # "CONNACK"
  BY <1>1, NextMessage
<1>3. ~Pending'
  BY <1>2 DEF Pending
<1>4. \A y, z : Ahead(toClient', y, z) => z.type # "CONNACK"
  BY <1>2 DEF Taken, ExchangeInv, SessionInv
<1>5. /\ accepted' /\ (persistent' <=> ~cleanSession')
      /\ connected' \/ disconnecting'
      /\ disconnecting' => ~connected'
  BY <1>2 DEF ExchangeInv, SessionInv, brokerVars
<1>6. SessionInv'
  BY <1>2, <1>3, <1>4, <1>5 DEF SessionInv
<1>7. ~Over /\ ~Over'
  BY <1>2, <1>3, <1>5 DEF Over
<1> QED BY <1>2, <1>3, <1>6, <1>7

-----------------------------------------------------------------------------
(***************************************************************************)
(* Steps that only take messages off and forget receptions.                *)
(***************************************************************************)

LEMMA TickKeeps ==
    ASSUME ExchangeInv, NEW F \in SUBSET Running, ClientTick(F)
    PROVE  ExchangeInv'
<1>1. /\ Complete(F) /\ effect' = Quiet /\ Observed
      /\ UNCHANGED <<connected, disconnecting, exchange, persistent, cleanSession, accepted,
                     toClient>>
  BY DEF ClientTick, Tick, brokerVars
<1>2. toBroker' = toBroker /\ reported' = reported /\ NoProtocolError'
  BY <1>1, QuietStep DEF ExchangeInv
<1>3. TypeInv'
  BY <1>1, <1>2, SameExchanges, CompleteKeeps DEF ExchangeInv, TypeInv
<1>4. recvOps' \subseteq recvOps /\ Pending' = Pending /\ Over' = Over
  BY <1>1 DEF Complete, Pending, Over
<1>5. SessionInv'
  BY <1>1, <1>2, <1>4 DEF ExchangeInv, SessionInv
<1>6. ASSUME NEW id PROVE Held(id)' => Held(id)
  BY <1>1, <1>4 DEF Held, InProgress, Complete, ExchangeInv, TypeInv, RecvInv, RecvOK
<1>7. \A m : m \in discarded => m \in discarded'
  BY DEF ClientTick
<1>8. ASSUME NEW id, Held(id), ~Held(id)' PROVE Forgotten(id)
  <2>1. PICK s \in recvOps : recv[s].id = id
    BY <1>8 DEF Held, InProgress
  <2>2. s \in F
    <3>1. ASSUME s \notin F PROVE s \in recvOps' /\ recv'[s].id = id
      BY <1>1, <2>1, <3>1 DEF Complete, ExchangeInv, TypeInv, RecvInv, RecvOK
    <3> QED BY <1>4, <1>8, <3>1 DEF Held, InProgress
  <2>3. \A m : m \in MessageOf(id) => m \in discarded'
    BY <2>1, <2>2 DEF ClientTick
  <2> QED BY <2>3, OpenFacts DEF Forgotten
<1>9. OnlyLess
  BY <1>1, <1>2, <1>6, <1>7, <1>8 DEF OnlyLess
<1>10. OrderlyInv'
  BY <1>9, LessKept DEF ExchangeInv
<1>11. DeliveredOnce'
  BY <1>2, <1>7 DEF ExchangeInv, DeliveredOnce
<1> QED BY <1>2, <1>3, <1>5, <1>10, <1>11 DEF ExchangeInv

LEMMA LosesSessionKeeps ==
    ASSUME ExchangeInv, ClientLosesSession
    PROVE  ExchangeInv'
<1>1. /\ connected /\ SessionLost(recv) /\ effect' = Quiet /\ Observed
      /\ UNCHANGED <<recvOps, exchange, persistent, cleanSession, accepted, toClient, discarded>>
  BY DEF ClientLosesSession, LoseSession, brokerVars
<1>2. toBroker' = toBroker /\ reported' = reported /\ NoProtocolError'
  BY <1>1, QuietStep DEF ExchangeInv
<1>3. RecvInv'
  BY SessionKeeps DEF ClientLosesSession, ExchangeInv, TypeInv
<1>4. TypeInv'
  BY <1>1, <1>2, <1>3, SameExchanges DEF ExchangeInv, TypeInv
<1>5. Pending' = Pending /\ Over' = Over
  BY <1>1 DEF Pending, Over
<1>6. ~connected' /\ disconnecting' /\ ~Pending
  BY <1>1 DEF SessionLost, ExchangeInv, SessionInv
<1>7. SessionInv'
  BY <1>1, <1>2, <1>5, <1>6 DEF ExchangeInv, SessionInv
<1>8. \A id : InProgress(id)' = InProgress(id)
  BY <1>1, SessionLostKeeps, SameReceptions DEF ExchangeInv, TypeInv, RecvInv, RecvOK
<1>9. OnlyLess
  BY <1>1, <1>2, <1>5, <1>8 DEF OnlyLess, Held
<1>10. OrderlyInv'
  BY <1>9, LessKept DEF ExchangeInv
<1>11. DeliveredOnce'
  BY <1>1, <1>2 DEF ExchangeInv, DeliveredOnce
<1> QED BY <1>2, <1>4, <1>7, <1>10, <1>11 DEF ExchangeInv

\* The connection is gone, and with it what was under way.
LEMMA NoConnection ==
    ASSUME ExchangeInv, RecvInv', recvOps' = recvOps, effect' = Quiet,
           ~connected', \A id : InProgress(id)' = InProgress(id),
           toClient' = <<>>, toBroker' = <<>>, accepted' = FALSE,
           UNCHANGED <<exchange, persistent, cleanSession, reported, discarded>>
    PROVE  ExchangeInv'
<1>1. NoProtocolError'
  BY EffectFields DEF NoProtocolError
<1>2. /\ Elements(toClient') = {} /\ Elements(toBroker') = {}
      /\ \A x, y : ~Ahead(toClient', x, y) /\ ~Ahead(toBroker', x, y)
  BY EmptyChannel
<1>3. toClient' \in Seq(ToClient) /\ toBroker' \in Seq(ToBroker)
  BY EmptySeq
<1>4. TypeInv'
  BY <1>3, SameExchanges DEF ExchangeInv, TypeInv
<1>5. ~Pending'
  BY <1>2 DEF Pending
<1>6. SessionInv'
  BY <1>2, <1>5 DEF ExchangeInv, SessionInv
<1>7. \A id : Held(id)' => Held(id)
  BY <1>5 DEF Held, Over
<1>8. \A id : Held(id) => Held(id)' \/ Forgotten(id)
  BY <1>2 DEF Held, Over, Forgotten
<1>9. OnlyLess
  BY <1>2, <1>7, <1>8 DEF OnlyLess
<1>10. OrderlyInv'
  BY <1>9, LessKept DEF ExchangeInv
<1>11. DeliveredOnce'
  BY DEF ExchangeInv, DeliveredOnce
<1> QED BY <1>1, <1>4, <1>6, <1>10, <1>11 DEF ExchangeInv

LEMMA BreaksKeeps ==
    ASSUME ExchangeInv, ConnectionBreaks
    PROVE  ExchangeInv'
<1>1. RecvInv'
  BY SessionKeeps DEF ConnectionBreaks, ExchangeInv, TypeInv
<1>2. ~connected' /\ recvOps' = recvOps /\ effect' = Quiet
  BY DEF ConnectionBreaks, NotifyNetworkDisconnected, SessionLost, ExchangeInv, SessionInv
<1>3. \A id : InProgress(id)' = InProgress(id)
  <2>1. CASE SessionLost(recv)
    BY <1>2, <2>1, SessionLostKeeps, SameReceptions DEF ExchangeInv, TypeInv, RecvInv, RecvOK
  <2>2. CASE recv' = recv
    BY <1>2, <2>2 DEF InProgress
  <2> QED BY <2>1, <2>2 DEF ConnectionBreaks, NotifyNetworkDisconnected
<1> QED BY <1>1, <1>2, <1>3, NoConnection DEF ConnectionBreaks

LEMMA ReconnectKeeps ==
    ASSUME ExchangeInv, Reconnect
    PROVE  ExchangeInv'
<1>1. RecvInv'
  BY SessionKeeps DEF Reconnect, ExchangeInv, TypeInv
<1>2. ~connected' /\ recvOps' = recvOps /\ recv' = recv /\ effect' = Quiet
  BY DEF Reconnect, ConnectPrepare
<1>3. \A id : InProgress(id)' = InProgress(id)
  BY <1>2 DEF InProgress
<1> QED BY <1>1, <1>2, <1>3, NoConnection DEF Reconnect

-----------------------------------------------------------------------------
(***************************************************************************)
(* The client handles a message.                                           *)
(***************************************************************************)

\* What every message has in common.
Handled(x) ==
    /\ toClient # <<>> /\ toClient' = Tail(toClient) /\ x = Head(toClient)
    /\ Observed
    /\ UNCHANGED <<exchange, persistent, cleanSession, accepted, discarded>>

LEMMA HandledFacts ==
    ASSUME ExchangeInv, NEW x, Handled(x)
    PROVE  /\ Taken(toClient, toClient', x) /\ x \in Elements(toClient) /\ x \in ToClient
           /\ accepted /\ toClient' \in Seq(ToClient)
           /\ \A y : y \in Elements(toClient') => y \in Elements(toClient) /\ Ahead(toClient, x, y)
           /\ \A y, z : Ahead(toClient', y, z) => Ahead(toClient, y, z)
           /\ x.type # "CONNACK" => ~Pending
           /\ \A y \in Elements(toClient') : y.type # "CONNACK"
BY NextMessage DEF Handled, Taken

\* Nothing is sent and nothing is reported, and the client holds what it held.
LEMMA QuietKeeps ==
    ASSUME ExchangeInv, NEW x, Handled(x), effect' = Quiet, RecvInv', SessionInv',
           \A id : Held(id)' <=> Held(id)
    PROVE  ExchangeInv'
<1>1. toBroker' = toBroker /\ reported' = reported /\ NoProtocolError'
  BY QuietStep DEF ExchangeInv, Handled
<1>2. TypeInv'
  BY <1>1, HandledFacts, SameExchanges DEF ExchangeInv, TypeInv, Handled
<1>3. OnlyLess
  BY <1>1, HandledFacts DEF OnlyLess, Handled
<1>4. OrderlyInv'
  BY <1>3, LessKept DEF ExchangeInv
<1>5. DeliveredOnce'
  BY <1>1 DEF ExchangeInv, DeliveredOnce, Handled
<1> QED BY <1>1, <1>2, <1>4, <1>5 DEF ExchangeInv

LEMMA IgnoredKeeps ==
    ASSUME ExchangeInv, NEW p, Handled(p), p.type = "PUBLISH", PublishIgnored(p)
    PROVE  ExchangeInv'
<1>1. UNCHANGED <<connected, disconnecting, recvOps, recv>> /\ effect' = Quiet
  BY DEF PublishIgnored
<1>2. SessionInv' /\ ~Over /\ ~Over'
  BY <1>1, SessionAfterMessage DEF Handled, brokerVars
<1>3. \A id : Held(id)' <=> Held(id)
  BY <1>1, <1>2 DEF Held, InProgress
<1>4. RecvInv'
  BY <1>1, SameIds DEF ExchangeInv, TypeInv, RecvInv, RecvOK
<1> QED BY <1>1, <1>2, <1>3, <1>4, QuietKeeps

LEMMA ConnackKeeps ==
    ASSUME ExchangeInv, NEW x, Handled(x), x.type = "CONNACK", BrokerConnected(x.sessionPresent)
    PROVE  ExchangeInv'
<1>1. /\ accepted /\ x \in Elements(toClient)
      /\ \A y \in Elements(toClient') : y.type # "CONNACK"
      /\ \A y, z : Ahead(toClient', y, z) => Ahead(toClient, y, z)
      /\ x \in ToClient
  BY HandledFacts
<1>2. Pending /\ ~Pending'
  BY <1>1 DEF Pending
<1>3. /\ x.sessionPresent => ~cleanSession
      /\ ~x.sessionPresent /\ ~cleanSession => recvOps = {}
      /\ ~disconnecting
  BY <1>1, <1>2 DEF ExchangeInv, SessionInv
<1>4. connected' /\ disconnecting' = disconnecting /\ effect' = Quiet
  BY DEF BrokerConnected
<1>5. SessionInv'
  <2>1. accepted' /\ (persistent' <=> ~cleanSession')
    BY <1>1 DEF Handled, ExchangeInv, SessionInv
  <2>2. \A y, z : Ahead(toClient', y, z) => z.type # "CONNACK"
    BY <1>1 DEF ExchangeInv, SessionInv
  <2> QED BY <1>1, <1>2, <1>3, <1>4, <2>1, <2>2 DEF SessionInv
<1>6. x.sessionPresent \in BOOLEAN
  BY <1>1, ToClientFields DEF IsPublish
<1>7. RecvInv'
  BY <1>6, SessionKeeps DEF ExchangeInv, TypeInv
<1>8. CASE cleanSession
  <2>1. Complete(recvOps) /\ Over /\ recvOps' = {}
    BY <1>2, <1>3, <1>8 DEF BrokerConnected, Complete, Over
  <2>2. \A id : Held(id)' <=> Held(id)
    BY <2>1 DEF Held, InProgress
  <2> QED BY <1>4, <1>5, <1>7, <2>2, QuietKeeps
<1>9. CASE ~cleanSession
  <2>1. ~Over /\ ~Over'
    BY <1>9 DEF Over, Handled
  <2>2. CASE x.sessionPresent /\ UNCHANGED recvOps
             /\ recv' = [s \in RecvSlots |->
                           IF s \in recvOps THEN PostReconnectionResume(recv[s]) ELSE recv[s]]
    <3>1. \A s \in RecvSlots : recv'[s].id = recv[s].id
      BY <2>2, TimerOnly DEF ExchangeInv, TypeInv, RecvInv, RecvOK
    <3>2. \A id : InProgress(id)' = InProgress(id)
      BY <2>2, <3>1, SameReceptions DEF ExchangeInv, TypeInv
    <3>3. \A id : Held(id)' <=> Held(id)
      BY <2>1, <3>2 DEF Held
    <3> QED BY <1>4, <1>5, <1>7, <3>3, QuietKeeps
  <2>3. CASE ~x.sessionPresent /\ Complete(recvOps)
    <3>1. recvOps = {} /\ recvOps' = {}
      BY <1>3, <1>9, <2>3 DEF Complete
    <3>2. \A id : Held(id)' <=> Held(id)
      BY <2>1, <3>1 DEF Held, InProgress
    <3> QED BY <1>4, <1>5, <1>7, <3>2, QuietKeeps
  <2> QED BY <2>2, <2>3 DEF BrokerConnected
<1> QED BY <1>8, <1>9

\* A step that takes the head x off, sends the acknowledgement a and leaves the
\* exchanges as they are.
Answered(x, a) ==
    /\ a \in ToBroker /\ toBroker' \in Seq(ToBroker) /\ Sent(toBroker, toBroker', a)
    /\ toClient' \in Seq(ToClient)
    /\ \A m, id : Open(m, id)' <=> Open(m, id)
    /\ exchange' = exchange
    /\ Copy(x) \/ Release(x)
    /\ \A y : Copy(y)' => Copy(y) /\ Ahead(toClient, x, y)
    /\ \A y : Release(y)' => Release(y) /\ Ahead(toClient, x, y)
    /\ \A y, z : Ahead(toClient', y, z) => Ahead(toClient, y, z)
    /\ \A b : b \in Elements(toBroker)' <=> b \in Elements(toBroker) \/ b = a
    /\ \A b, c : Ahead(toBroker', b, c) => Ahead(toBroker, b, c) \/ (b \in Elements(toBroker) /\ c = a)

LEMMA AnswerFacts ==
    ASSUME ExchangeInv, NEW x, Handled(x), x.type \in {"PUBLISH", "PUBREL"},
           NEW type \in {"PUBACK", "PUBREC", "PUBCOMP"},
           x.id \in PacketIds, effect'.sent = Ack(type, x.id)
    PROVE  \E a : Answered(x, a) /\ a.type = type /\ a.id = x.id
<1>1. PICK a \in ToBroker : /\ a.type = type /\ a.id = x.id
                            /\ toBroker' \in Seq(ToBroker) /\ Sent(toBroker, toBroker', a)
  BY AckSent DEF ExchangeInv, Handled
<1>2. exchange' = exchange /\ \A m, id : Open(m, id)' <=> Open(m, id)
  BY SameExchanges DEF ExchangeInv, Handled
<1>3. /\ toClient' \in Seq(ToClient) /\ x \in Elements(toClient)
      /\ \A y : y \in Elements(toClient') => y \in Elements(toClient) /\ Ahead(toClient, x, y)
      /\ \A y, z : Ahead(toClient', y, z) => Ahead(toClient, y, z)
  BY HandledFacts
<1>4. /\ Copy(x) \/ Release(x)
      /\ \A y : Copy(y)' => Copy(y) /\ Ahead(toClient, x, y)
      /\ \A y : Release(y)' => Release(y) /\ Ahead(toClient, x, y)
  BY <1>3 DEF Copy, Release
<1>5. /\ \A b : b \in Elements(toBroker)' <=> b \in Elements(toBroker) \/ b = a
      /\ \A b, c : Ahead(toBroker', b, c) =>
            Ahead(toBroker, b, c) \/ (b \in Elements(toBroker) /\ c = a)
  BY <1>1 DEF Sent
<1>6. Answered(x, a)
  BY <1>1, <1>2, <1>3, <1>4, <1>5 DEF Answered
<1> QED BY <1>1, <1>6

\* What is so of every PUBLISH that is handled.
LEMMA PublishFacts ==
    ASSUME ExchangeInv, NEW p, Handled(p), p.type = "PUBLISH"
    PROVE  /\ IsPublish(p) /\ Copy(p) /\ ~Pending /\ ~Over
           /\ connected \/ disconnecting
           /\ \A m : Open(m, p.id) => m = p.msg
           /\ exchange[p.msg].stage # "new"
           /\ p.msg \in ExactlyOnce => Open(p.msg, p.id)
           /\ p.qos = 2 <=> p.msg \in ExactlyOnce
<1>1. p \in ToClient /\ p \in Elements(toClient) /\ ~Pending /\ accepted
  BY HandledFacts
<1>2. IsPublish(p)
  BY <1>1, ToClientFields
<1>3. Copy(p)
  BY <1>1 DEF Copy
<1>4. ~Over /\ (connected \/ disconnecting)
  BY <1>1 DEF Over, ExchangeInv, SessionInv
<1>5. /\ \A m : Open(m, p.id) => m = p.msg
      /\ exchange[p.msg].stage # "new"
      /\ p.msg \in ExactlyOnce => Open(p.msg, p.id)
  BY <1>3 DEF ExchangeInv, OrderlyInv, CopiesBelong
<1>6. p.qos = 2 <=> p.msg \in ExactlyOnce
  BY <1>2 DEF IsPublish
<1> QED BY <1>1, <1>2, <1>3, <1>4, <1>5, <1>6

\* The parts of the invariant that no answer disturbs.
LEMMA AnswerKeeps ==
    ASSUME ExchangeInv, NEW x, NEW a, Answered(x, a)
    PROVE  OneExchange' /\ CopiesBelong' /\ CopiesFirst'
<1>1. OneExchange'
  BY DEF ExchangeInv, OrderlyInv, OneExchange, Answered
<1>2. CopiesBelong'
  BY DEF ExchangeInv, OrderlyInv, CopiesBelong, Answered
<1>3. CopiesFirst'
  BY DEF ExchangeInv, OrderlyInv, CopiesFirst, Answered
<1> QED BY <1>1, <1>2, <1>3

\* QoS 1: the message is reported and acknowledged, and nothing is kept.
LEMMA ReportedQos1Keeps ==
    ASSUME ExchangeInv, NEW p, Handled(p), p.type = "PUBLISH", p.qos = 1, NEW s \in RecvSlots,
           PublishReported(p, s)
    PROVE  ExchangeInv'
<1>1. /\ IsPublish(p) /\ Copy(p) /\ ~Pending /\ ~Over
      /\ \A m : Open(m, p.id) => m = p.msg
      /\ exchange[p.msg].stage # "new"
      /\ p.msg \notin ExactlyOnce
  BY PublishFacts
<1>2. /\ effect' = [Quiet EXCEPT !.report = {p.msg},
                                 !.sent = IF p.qos = 0 THEN <<>> ELSE Ack("PUBACK", p.id)]
      /\ UNCHANGED <<recvOps, recv, connected, disconnecting>>
  BY DEF PublishReported
<1>3. effect'.sent = Ack("PUBACK", p.id) /\ effect'.report = {p.msg} /\ effect'.failed = FALSE
  BY <1>2, EffectFields
<1>4. MoreReported(p.msg) /\ p.msg \in Messages /\ p.id \in PacketIds
  BY <1>1, <1>3, ReportedOnce DEF ExchangeInv, Handled, IsPublish
<1>5. PICK a : Answered(p, a) /\ a.type = "PUBACK" /\ a.id = p.id
  BY <1>3, <1>4, AnswerFacts
<1>6. SessionInv' /\ ~Over'
  BY <1>2, SessionAfterMessage DEF Handled, brokerVars
<1>7. \A id : Held(id)' <=> Held(id)
  BY <1>1, <1>2, <1>6 DEF Held, InProgress
<1>8. RecvInv'
  BY <1>2, SameIds DEF ExchangeInv, TypeInv, RecvInv, RecvOK
<1>9. TypeInv'
  BY <1>4, <1>5, <1>8, SameExchanges DEF ExchangeInv, TypeInv, Answered, MoreReported
<1>10. \A m \in ExactlyOnce : reported'[m] = reported[m]
  BY <1>1, <1>4, ExchangeAssumption DEF MoreReported
<1>11. OneExchange' /\ CopiesBelong' /\ CopiesFirst'
  BY <1>5, AnswerKeeps
<1>12. AcksEarned'
  <2>1. ASSUME NEW b, b \in Elements(toBroker)', b.type = "PUBACK",
               NEW m, Open(m, b.id), m \notin ExactlyOnce
        PROVE  reported'[m] > 0
    <3>1. m \in Messages
      BY <2>1 DEF Open
    <3>2. CASE b \in Elements(toBroker)
      BY <1>4, <2>1, <3>1, <3>2 DEF MoreReported, ExchangeInv, OrderlyInv, AcksEarned
    <3>3. CASE b = a
      BY <1>1, <1>4, <1>5, <2>1, <3>3 DEF MoreReported
    <3> QED BY <1>5, <2>1, <3>2, <3>3 DEF Answered
  <2>2. ASSUME NEW b, b \in Elements(toBroker)', b.type # "PUBACK"
        PROVE  \E m \in ExactlyOnce : Open(m, b.id) /\ reported'[m] > 0
    BY <1>5, <1>10, <2>2 DEF Answered, ExchangeInv, OrderlyInv, AcksEarned
  <2> QED BY <1>5, <2>1, <2>2 DEF AcksEarned, Answered
<1>13. PubcompEnds'
  BY <1>5, <1>7 DEF ExchangeInv, OrderlyInv, PubcompEnds, Answered
<1>14. PubcompLast'
  BY <1>5 DEF ExchangeInv, OrderlyInv, PubcompLast, Answered
<1>15. HeldReported'
  BY <1>5, <1>7, <1>10 DEF ExchangeInv, OrderlyInv, HeldReported, Answered
<1>16. OldRelease'
  BY <1>5, <1>7 DEF ExchangeInv, OrderlyInv, OldRelease, Answered
<1>17. FirstCopy'
  BY <1>5, <1>7 DEF ExchangeInv, OrderlyInv, FirstCopy, Answered
<1>18. StageReported'
  BY <1>1, <1>4, <1>5 DEF ExchangeInv, OrderlyInv, StageReported, Answered, MoreReported
<1>19. Remembered'
  BY <1>5, <1>7, <1>10 DEF ExchangeInv, OrderlyInv, Remembered, Answered, Handled
<1>20. DeliveredOnce' /\ NoProtocolError'
  BY <1>3, <1>10 DEF ExchangeInv, DeliveredOnce, NoProtocolError, Handled
<1>21. OrderlyInv'
  BY <1>11, <1>12, <1>13, <1>14, <1>15, <1>16, <1>17, <1>18, <1>19 DEF OrderlyInv
<1> QED BY <1>6, <1>9, <1>20, <1>21 DEF ExchangeInv

\* QoS 2: a PUBREC is sent for the message p. What holds of it: the message was
\* reported, no PUBREL of an exchange before is left, and no PUBCOMP is under way.
LEMMA PubrecKeeps ==
    ASSUME ExchangeInv, NEW p, Handled(p), p.type = "PUBLISH", p.qos = 2,
           RecvInv', SessionInv', effect'.failed = FALSE, effect'.sent = Ack("PUBREC", p.id),
           \A id : Held(id)' <=> Held(id) \/ id = p.id,
           reported' \in [Messages -> 0..2],
           \A n : n \in Messages /\ n # p.msg => reported'[n] = reported[n],
           \A n : n \in Messages /\ reported[n] > 0 => reported'[n] > 0,
           reported'[p.msg] > 0,
           reported'[p.msg] = 2 => reported[p.msg] = 2 \/ p.msg \in discarded,
           ~Held(p.id) \/ p.dup
    PROVE  ExchangeInv'
<1>1. /\ IsPublish(p) /\ Copy(p) /\ ~Pending /\ ~Over
      /\ \A m : Open(m, p.id) => m = p.msg
      /\ exchange[p.msg].stage # "new"
      /\ p.msg \in ExactlyOnce /\ Open(p.msg, p.id)
  BY PublishFacts
<1>2. p.msg \in Messages /\ p.id \in PacketIds
  BY <1>1 DEF IsPublish
<1>3. PICK a : Answered(p, a) /\ a.type = "PUBREC" /\ a.id = p.id
  BY <1>2, AnswerFacts
<1>4. TypeInv'
  BY <1>3, SameExchanges DEF ExchangeInv, TypeInv, Answered
<1>5. \A b \in Elements(toBroker) : b.type = "PUBCOMP" => b.id # p.id
  BY <1>1 DEF ExchangeInv, OrderlyInv, PubcompEnds
<1>6. \A y : Release(y)' /\ y.id = p.id => exchange[p.msg].stage = "release"
  <2>1. ASSUME NEW y, Release(y)', y.id = p.id PROVE exchange[p.msg].stage = "release"
    <3>1. Ahead(toClient, p, y) /\ y.type = "PUBREL"
      BY <1>3, <2>1 DEF Answered, Release
    <3> QED BY <1>1, <2>1, <3>1 DEF ExchangeInv, OrderlyInv, CopiesFirst
  <2> QED BY <2>1
<1>7. OneExchange' /\ CopiesBelong' /\ CopiesFirst'
  BY <1>3, AnswerKeeps
<1>8. \A n : n \in ExactlyOnce => n \in Messages
  BY ExchangeAssumption
<1>9. AcksEarned'
  <2>1. ASSUME NEW b, b \in Elements(toBroker)', b.type = "PUBACK",
               NEW m, Open(m, b.id), m \notin ExactlyOnce
        PROVE  reported'[m] > 0
    <3>1. m \in Messages /\ b \in Elements(toBroker)
      BY <1>3, <2>1 DEF Open, Answered
    <3> QED BY <2>1, <3>1 DEF ExchangeInv, OrderlyInv, AcksEarned
  <2>2. ASSUME NEW b, b \in Elements(toBroker)', b.type # "PUBACK"
        PROVE  \E m \in ExactlyOnce : Open(m, b.id) /\ reported'[m] > 0
    <3>1. CASE b \in Elements(toBroker)
      BY <1>8, <2>2, <3>1 DEF ExchangeInv, OrderlyInv, AcksEarned
    <3>2. CASE b = a
      BY <1>1, <1>3, <3>2
    <3> QED BY <1>3, <2>2, <3>1, <3>2 DEF Answered
  <2> QED BY <1>3, <2>1, <2>2 DEF AcksEarned, Answered
<1>10. PubcompEnds'
  BY <1>3, <1>5 DEF ExchangeInv, OrderlyInv, PubcompEnds, Answered
<1>11. PubcompLast'
  BY <1>3, <1>5 DEF ExchangeInv, OrderlyInv, PubcompLast, Answered
<1>12. HeldReported'
  <2>1. ASSUME NEW id \in PacketIds, Held(id)'
        PROVE  \E m \in ExactlyOnce : Open(m, id) /\ reported'[m] > 0
    BY <1>1, <1>8, <2>1 DEF ExchangeInv, OrderlyInv, HeldReported
  <2> QED BY <1>3, <2>1 DEF HeldReported, Answered
<1>13. OldRelease'
  BY <1>1, <1>3, <1>6 DEF ExchangeInv, OrderlyInv, OldRelease, Answered
<1>14. FirstCopy'
  <2>1. ASSUME NEW y, Copy(y)', ~y.dup PROVE ~Held(y.id)'
    <3>1. Copy(y) /\ Ahead(toClient, p, y) /\ y.type = "PUBLISH"
      BY <1>3, <2>1 DEF Answered, Copy
    <3>2. y.id # p.id /\ ~Held(y.id)
      BY <1>1, <2>1, <3>1 DEF ExchangeInv, OrderlyInv, FirstCopy, Copy
    <3> QED BY <3>2
  <2>2. \A y, z : Ahead(toClient', y, z) => Ahead(toClient, y, z)
    BY <1>3 DEF Answered
  <2> QED BY <2>1, <2>2 DEF ExchangeInv, OrderlyInv, FirstCopy
<1>15. StageReported'
  <2>1. ASSUME NEW m \in Messages, exchange[m].stage = "new" PROVE reported'[m] = 0
    BY <1>1, <2>1 DEF ExchangeInv, OrderlyInv, StageReported
  <2> QED BY <1>3, <2>1 DEF ExchangeInv, OrderlyInv, StageReported, Answered
<1>16. Remembered'
  <2>1. ASSUME NEW y, Copy(y)', y.msg \in ExactlyOnce
        PROVE  reported'[y.msg] = 0 \/ Held(y.id)' \/ y.msg \in discarded'
    <3>1. Copy(y) /\ Open(y.msg, y.id)
      BY <1>3, <2>1 DEF Answered, ExchangeInv, OrderlyInv, CopiesBelong
    <3>2. CASE y.msg = p.msg
      BY <1>1, <3>1, <3>2 DEF Open
    <3>3. CASE y.msg # p.msg
      BY <1>8, <2>1, <3>1, <3>3 DEF ExchangeInv, OrderlyInv, Remembered, Handled
    <3> QED BY <3>2, <3>3
  <2>2. ASSUME NEW m, NEW id, m \in ExactlyOnce, Open(m, id), exchange[m].stage = "publish",
               reported'[m] > 0
        PROVE  Held(id)' \/ m \in discarded' \/ (~accepted' /\ cleanSession')
    <3>1. CASE m = p.msg
      BY <1>1, <2>2, <3>1 DEF Open
    <3>2. CASE m # p.msg
      BY <1>8, <2>2, <3>2 DEF ExchangeInv, OrderlyInv, Remembered, Handled
    <3> QED BY <3>1, <3>2
  <2> QED BY <1>3, <2>1, <2>2 DEF Remembered, Answered
<1>17. DeliveredOnce' /\ NoProtocolError'
  <2>1. ASSUME NEW m \in ExactlyOnce, reported'[m] = 2 PROVE m \in discarded
    BY <1>8, <2>1 DEF ExchangeInv, DeliveredOnce
  <2> QED BY <2>1 DEF DeliveredOnce, NoProtocolError, Handled
<1>18. OrderlyInv'
  BY <1>7, <1>9, <1>10, <1>11, <1>12, <1>13, <1>14, <1>15, <1>16 DEF OrderlyInv
<1> QED BY <1>4, <1>17, <1>18 DEF ExchangeInv

\* A message of QoS 2 that is new to the client.
LEMMA ReportedQos2Keeps ==
    ASSUME ExchangeInv, NEW p, Handled(p), p.type = "PUBLISH", p.qos = 2, NEW s \in RecvSlots,
           PublishReported(p, s) \/ PublishCutOff(p, s)
    PROVE  ExchangeInv'
<1>1. /\ IsPublish(p) /\ Copy(p) /\ ~Over /\ p.msg \in ExactlyOnce
  BY PublishFacts
<1>2. /\ effect' = [Quiet EXCEPT !.report = {p.msg}, !.sent = Ack("PUBREC", p.id)]
      /\ recvOps' = recvOps \cup {s} /\ s \notin recvOps
      /\ \/ recv' = [recv EXCEPT ![s] = [NewRecv EXCEPT !.id = p.id, !.timer = TRUE]]
         \/ recv' = [Suspended(recv) EXCEPT ![s] = [NewRecv EXCEPT !.id = p.id, !.timer = TRUE]]
      /\ UNCHANGED <<connected, disconnecting>> \/ (~connected' /\ disconnecting')
      /\ InProgress(p.id) = {}
  BY DEF PublishReported, PublishCutOff, NeedsOp
<1>3. effect'.sent = Ack("PUBREC", p.id) /\ effect'.report = {p.msg} /\ effect'.failed = FALSE
  BY <1>2, EffectFields
<1>4. p.msg \in Messages /\ p.id \in PacketIds /\ p \in Publishes(PacketIds)
  BY <1>1 DEF IsPublish
<1>5. MoreReported(p.msg)
  BY <1>3, <1>4, ReportedOnce DEF ExchangeInv, Handled
<1>6. SessionInv' /\ ~Over'
  BY <1>2, SessionAfterMessage DEF Handled, brokerVars
<1>7. RecvInv'
  BY <1>4, PublishKeeps DEF ExchangeInv, TypeInv, RecvPublish
<1>8. recv'[s].id = p.id /\ \A r \in recvOps : recv'[r].id = recv[r].id
  <2>1. /\ Suspended(recv) \in [RecvSlots -> RecvState]
        /\ \A r \in RecvSlots : Suspended(recv)[r].id = recv[r].id
    BY SuspendedKeeps DEF ExchangeInv, TypeInv, RecvInv, RecvOK
  <2> QED BY <1>2, <2>1 DEF NewRecv, ExchangeInv, TypeInv, RecvInv, RecvOK
<1>9. \A id : Held(id)' <=> Held(id) \/ id = p.id
  BY <1>1, <1>2, <1>6, <1>8 DEF Held, InProgress
<1>10. ~Held(p.id)
  BY <1>2 DEF Held
<1>11. reported[p.msg] > 0 => p.msg \in discarded
  BY <1>1, <1>10 DEF ExchangeInv, OrderlyInv, Remembered
<1> QED BY <1>3, <1>5, <1>6, <1>7, <1>9, <1>10, <1>11, PubrecKeeps DEF MoreReported

\* A message of QoS 2 that is repeated. The first copy of a message never meets
\* the reception of another one.
LEMMA InUseKeeps ==
    ASSUME ExchangeInv, NEW p, Handled(p), p.type = "PUBLISH", NEW s \in RecvSlots,
           PublishInUse(p, s)
    PROVE  ExchangeInv'
<1>1. /\ IsPublish(p) /\ Copy(p) /\ ~Over
      /\ \A m : Open(m, p.id) => m = p.msg
  BY PublishFacts
<1>2. p.qos = 2 /\ s \in InProgress(p.id) /\ Held(p.id)
  BY <1>1 DEF PublishInUse, NeedsOp, Held
<1>3. p.dup
  BY <1>1, <1>2 DEF ExchangeInv, OrderlyInv, FirstCopy
<1>4. /\ recv' = [recv EXCEPT ![s].timer = FALSE]
      /\ effect' = [Quiet EXCEPT !.sent = Ack("PUBREC", p.id)]
      /\ UNCHANGED <<connected, disconnecting, recvOps>>
  BY <1>3 DEF PublishInUse
<1>5. effect'.sent = Ack("PUBREC", p.id) /\ effect'.report = {} /\ effect'.failed = FALSE
  BY <1>4, EffectFields
<1>6. reported' = reported
  BY <1>5, NothingReported DEF ExchangeInv, Handled, NoReport
<1>7. p.msg \in Messages /\ p.id \in PacketIds /\ p \in Publishes(PacketIds)
  BY <1>1 DEF IsPublish
<1>8. reported[p.msg] > 0
  BY <1>1, <1>2, <1>7 DEF ExchangeInv, OrderlyInv, HeldReported
<1>9. SessionInv' /\ ~Over'
  BY <1>4, SessionAfterMessage DEF Handled, brokerVars
<1>10. RecvInv'
  BY <1>7, PublishKeeps DEF ExchangeInv, TypeInv, RecvPublish
<1>11. \A r \in RecvSlots : recv'[r].id = recv[r].id
  <2>1. recv[s] \in RecvState /\ recv' = [recv EXCEPT ![s] = [recv[s] EXCEPT !.timer = FALSE]]
    BY <1>4 DEF ExchangeInv, TypeInv, RecvInv, RecvOK
  <2> QED BY <2>1, TimerOnly DEF ExchangeInv, TypeInv, RecvInv, RecvOK
<1>12. \A id : InProgress(id)' = InProgress(id)
  BY <1>4, <1>11, SameReceptions DEF ExchangeInv, TypeInv
<1>13. \A id : Held(id)' <=> Held(id) \/ id = p.id
  BY <1>1, <1>2, <1>9, <1>12 DEF Held
<1> QED BY <1>2, <1>3, <1>5, <1>6, <1>8, <1>9, <1>10, <1>13, PubrecKeeps
        DEF ExchangeInv, TypeInv

\* A PUBREL ends the reception: nothing of the exchange is left at the client or
\* behind the PUBREL.
LEMMA PubrelEndsKeeps ==
    ASSUME ExchangeInv, NEW x, Handled(x), x.type = "PUBREL", x.id \in PacketIds,
           NEW s \in InProgress(x.id), Complete({s}),
           effect' = [Quiet EXCEPT !.sent = Ack("PUBCOMP", x.id)],
           UNCHANGED <<connected, disconnecting>>
    PROVE  ExchangeInv'
<1>1. effect'.sent = Ack("PUBCOMP", x.id) /\ effect'.report = {} /\ effect'.failed = FALSE
  BY EffectFields
<1>2. reported' = reported
  BY <1>1, NothingReported DEF ExchangeInv, Handled, NoReport
<1>3. PICK a : Answered(x, a) /\ a.type = "PUBCOMP" /\ a.id = x.id
  BY <1>1, AnswerFacts
<1>4. SessionInv' /\ ~Over /\ ~Over'
  BY SessionAfterMessage DEF Handled, brokerVars
<1>5. RecvInv'
  BY CompleteKeeps DEF ExchangeInv, TypeInv
<1>6. TypeInv'
  BY <1>2, <1>3, <1>5, SameExchanges DEF ExchangeInv, TypeInv, Answered
<1>7. Held(x.id) /\ Release(x)
  BY <1>3, <1>4 DEF Held, Answered, Copy
<1>8. PICK m \in ExactlyOnce : Open(m, x.id) /\ reported[m] > 0
  BY <1>7 DEF ExchangeInv, OrderlyInv, HeldReported
<1>9. exchange[m].stage = "release"
  BY <1>7, <1>8 DEF ExchangeInv, OrderlyInv, OldRelease, Open
<1>10. \A n : Open(n, x.id) => n = m
  BY <1>8 DEF ExchangeInv, OrderlyInv, OneExchange
<1>11. ASSUME NEW y, Copy(y)' PROVE y.id # x.id
  <2>1. Copy(y) /\ Ahead(toClient, x, y) /\ y.type = "PUBLISH"
    BY <1>3, <1>11 DEF Answered, Copy
  <2>2. Open(m, y.id) => m = y.msg
    BY <2>1 DEF ExchangeInv, OrderlyInv, CopiesBelong
  <2> QED BY <1>8, <1>9, <2>1, <2>2 DEF ExchangeInv, OrderlyInv, CopiesFirst
<1>12. ~Held(x.id)' /\ \A id : id # x.id => (Held(id)' <=> Held(id))
  <2>1. s \in recvOps /\ recv[s].id = x.id /\ x.id # 0
    BY ExchangeAssumption DEF InProgress
  <2>2. \A r \in recvOps : recv[r].id = x.id => r = s
    BY <2>1 DEF ExchangeInv, TypeInv, RecvInv, UniqueReception
  <2>3. recvOps' = recvOps \ {s} /\ \A r \in recvOps' : recv'[r].id = recv[r].id
    BY DEF Complete, ExchangeInv, TypeInv, RecvInv, RecvOK
  <2>4. InProgress(x.id)' = {}
    BY <2>2, <2>3 DEF InProgress
  <2>5. \A id : id # x.id => InProgress(id)' = InProgress(id)
    BY <2>1, <2>3 DEF InProgress
  <2> QED BY <1>4, <2>4, <2>5 DEF Held
<1>13. \A b \in Elements(toBroker) : b.type = "PUBCOMP" => b.id # x.id
  BY <1>7 DEF ExchangeInv, OrderlyInv, PubcompEnds
<1>14. OneExchange' /\ CopiesBelong' /\ CopiesFirst'
  BY <1>3, AnswerKeeps
<1>15. AcksEarned'
  <2>1. ASSUME NEW b, b \in Elements(toBroker)', b.type # "PUBACK"
        PROVE  \E n \in ExactlyOnce : Open(n, b.id) /\ reported[n] > 0
    <3>1. CASE b \in Elements(toBroker)
      BY <2>1, <3>1 DEF ExchangeInv, OrderlyInv, AcksEarned
    <3>2. CASE b = a
      BY <1>3, <1>8, <3>2
    <3> QED BY <1>3, <2>1, <3>1, <3>2 DEF Answered
  <2> QED BY <1>2, <1>3, <2>1 DEF ExchangeInv, OrderlyInv, AcksEarned, Answered
<1>16. PubcompEnds'
  <2>1. ASSUME NEW b, b \in Elements(toBroker)', b.type = "PUBCOMP"
        PROVE  /\ ~Held(b.id)'
               /\ \A n : Open(n, b.id) => exchange[n].stage = "release"
               /\ \A y : Copy(y)' => y.id # b.id
    <3>1. CASE b \in Elements(toBroker)
      BY <1>3, <1>12, <2>1, <3>1 DEF ExchangeInv, OrderlyInv, PubcompEnds, Answered
    <3>2. CASE b = a
      BY <1>3, <1>9, <1>10, <1>11, <1>12, <3>2
    <3> QED BY <1>3, <2>1, <3>1, <3>2 DEF Answered
  <2> QED BY <1>3, <2>1 DEF PubcompEnds, Answered
<1>17. PubcompLast'
  BY <1>3, <1>13 DEF ExchangeInv, OrderlyInv, PubcompLast, Answered
<1>18. HeldReported'
  BY <1>2, <1>3, <1>12 DEF ExchangeInv, OrderlyInv, HeldReported, Answered
<1>19. OldRelease'
  BY <1>3, <1>12 DEF ExchangeInv, OrderlyInv, OldRelease, Answered
<1>20. FirstCopy'
  BY <1>3, <1>12 DEF ExchangeInv, OrderlyInv, FirstCopy, Answered
<1>21. StageReported'
  BY <1>2, <1>3 DEF ExchangeInv, OrderlyInv, StageReported, Answered
<1>22. Remembered'
  <2>1. ASSUME NEW y, Copy(y)', y.msg \in ExactlyOnce
        PROVE  reported'[y.msg] = 0 \/ Held(y.id)' \/ y.msg \in discarded'
    <3>1. Copy(y) /\ (Held(y.id)' <=> Held(y.id))
      BY <1>3, <1>11, <1>12, <2>1 DEF Answered
    <3> QED BY <1>2, <2>1, <3>1 DEF ExchangeInv, OrderlyInv, Remembered, Handled
  <2>2. ASSUME NEW n, NEW id, n \in ExactlyOnce, Open(n, id), exchange[n].stage = "publish",
               reported'[n] > 0
        PROVE  Held(id)' \/ n \in discarded' \/ (~accepted' /\ cleanSession')
    <3>1. id # x.id
      BY <1>9, <1>10, <2>2
    <3> QED BY <1>2, <1>12, <2>2, <3>1 DEF ExchangeInv, OrderlyInv, Remembered, Handled
  <2> QED BY <1>3, <2>1, <2>2 DEF Remembered, Answered
<1>23. DeliveredOnce' /\ NoProtocolError'
  BY <1>1, <1>2 DEF ExchangeInv, DeliveredOnce, NoProtocolError, Handled
<1>24. OrderlyInv'
  BY <1>14, <1>15, <1>16, <1>17, <1>18, <1>19, <1>20, <1>21, <1>22 DEF OrderlyInv
<1> QED BY <1>4, <1>6, <1>23, <1>24 DEF ExchangeInv

LEMMA ReceivesKeeps ==
    ASSUME ExchangeInv, ClientReceives
    PROVE  ExchangeInv'
<1>1. PICK x : x = Head(toClient)
  OBVIOUS
<1>2. Handled(x)
  BY <1>1 DEF ClientReceives, Handled, brokerVars
<1>3. x \in ToClient /\ x \in Elements(toClient)
  BY <1>2, HandledFacts
<1>4. CASE x.type = "PUBLISH" /\ RecvPublish(x)
  <2>1. ASSUME NEW s \in RecvSlots, PublishRejected(x, s) PROVE FALSE
    <3>1. IsPublish(x) /\ (connected \/ disconnecting)
      BY <1>2, <1>4, PublishFacts
    <3> QED BY <2>1, <3>1 DEF PublishRejected, IsPublish
  <2>2. ASSUME NEW s \in RecvSlots, PublishReported(x, s) PROVE ExchangeInv'
    <3>1. x.qos = 1 \/ x.qos = 2
      BY <1>2, <1>4, PublishFacts DEF IsPublish
    <3> QED BY <1>2, <1>4, <2>2, <3>1, ReportedQos1Keeps, ReportedQos2Keeps
  <2>3. ASSUME NEW s \in RecvSlots, PublishCutOff(x, s) PROVE ExchangeInv'
    <3>1. x.qos = 2
      BY <2>3 DEF PublishCutOff
    <3> QED BY <1>2, <1>4, <2>3, <3>1, ReportedQos2Keeps
  <2> QED BY <1>2, <1>4, <2>1, <2>2, <2>3, IgnoredKeeps, InUseKeeps DEF RecvPublish
<1>5. CASE x.type = "PUBREL" /\ RecvPubrel(x.id, TRUE)
  <2>1. x.id \in PacketIds
    BY <1>3, <1>5, ToClientFields DEF IsPublish
  <2>2. CASE effect' = Quiet /\ UNCHANGED <<connected, disconnecting, recvOps, recv>>
    <3>1. SessionInv' /\ ~Over /\ ~Over'
      BY <1>2, <1>5, <2>2, SessionAfterMessage DEF Handled, brokerVars
    <3>2. \A id : Held(id)' <=> Held(id)
      BY <2>2, <3>1 DEF Held, InProgress
    <3>3. RecvInv'
      BY <2>2, SameIds DEF ExchangeInv, TypeInv, RecvInv, RecvOK
    <3> QED BY <1>2, <2>2, <3>1, <3>2, <3>3, QuietKeeps
  <2> QED BY <1>2, <1>5, <2>1, <2>2, PubrelEndsKeeps DEF RecvPubrel
<1>6. CASE x.type = "CONNACK" /\ BrokerConnected(x.sessionPresent)
  BY <1>2, <1>6, ConnackKeeps
<1>7. CASE x.type = "CONNACK" /\ disconnecting
  BY <1>3, <1>7 DEF ExchangeInv, SessionInv, Pending
<1> QED BY <1>1, <1>4, <1>5, <1>6, <1>7 DEF ClientReceives

-----------------------------------------------------------------------------
(***************************************************************************)
(* The broker.                                                             *)
(***************************************************************************)

\* A step of the broker within a connection leaves the client, what it holds and
\* the session as they are.
BrokerOnly ==
    /\ UNCHANGED <<networkDisconnected, connected, disconnecting, recvOps, recv, effect>>
    /\ UNCHANGED <<reported, discarded, persistent, cleanSession, accepted>>
    /\ accepted

LEMMA BrokerSession ==
    ASSUME ExchangeInv, BrokerOnly, toClient' \in Seq(ToClient),
           \A x : x \in Elements(toClient) => x \in Elements(toClient'),
           \A x : x \in Elements(toClient') => x \in Elements(toClient) \/ x.type # "CONNACK",
           \A x, y : Ahead(toClient', x, y) => Ahead(toClient, x, y) \/ y.type # "CONNACK"
    PROVE  /\ SessionInv' /\ RecvInv' /\ DeliveredOnce' /\ NoProtocolError'
           /\ \A id : Held(id)' <=> Held(id)
<1>1. Pending' <=> Pending
  BY DEF Pending
<1>2. SessionInv'
  BY <1>1 DEF ExchangeInv, SessionInv, BrokerOnly
<1>3. \A id : Held(id)' <=> Held(id)
  BY <1>1 DEF Held, Over, InProgress, BrokerOnly
<1>4. RecvInv'
  BY SameIds DEF ExchangeInv, TypeInv, RecvInv, RecvOK, BrokerOnly
<1>5. DeliveredOnce' /\ NoProtocolError'
  BY DEF ExchangeInv, DeliveredOnce, NoProtocolError, BrokerOnly
<1> QED BY <1>2, <1>3, <1>4, <1>5

LEMMA SentFacts ==
    ASSUME ExchangeInv, NEW e \in ToClient, toClient' = Append(toClient, e), e.type # "CONNACK"
    PROVE  /\ toClient' \in Seq(ToClient)
           /\ \A x : x \in Elements(toClient') <=> x \in Elements(toClient) \/ x = e
           /\ \A x, y : Ahead(toClient', x, y) <=>
                 Ahead(toClient, x, y) \/ (x \in Elements(toClient) /\ y = e)
<1>1. toClient \in Seq(ToClient)
  BY DEF ExchangeInv, TypeInv
<1>2. toClient' \in Seq(ToClient) /\ Sent(toClient, toClient', e)
  BY <1>1, AppendSends
<1> QED BY <1>2 DEF Sent

\* The broker sends the PUBLISH or the PUBREL of an open exchange again, and
\* does not change the exchange.
Repeated(e, m, id) ==
    /\ Open(m, id) /\ e.id = id /\ e \in ToClient
    /\ \/ e.type = "PUBLISH" /\ exchange[m].stage = "publish" /\ e.msg = m /\ e.dup
       \/ e.type = "PUBREL" /\ exchange[m].stage = "release"

LEMMA AgainFacts ==
    ASSUME ExchangeInv, NEW m, m \in Unacked, NEW id, id = exchange[m].id, NEW e, e = Again(m)
    PROVE  Repeated(e, m, id) /\ id \in PacketIds
<1>1. Open(m, id) /\ id \in PacketIds /\ exchange[m].stage \in {"publish", "release"}
  BY DEF Unacked, Open, ExchangeInv, TypeInv
<1>2. m \in Messages
  BY <1>1 DEF Open
<1>3. CASE exchange[m].stage = "publish"
  <2>1. e = PublishMsg(m, id, TRUE)
    BY <1>3 DEF Again
  <2>2. e \in ToClient
    BY <1>1, <1>2, <2>1, ToClientFields
  <2>3. e.type = "PUBLISH" /\ e.id = id /\ e.msg = m /\ e.dup
    BY <2>1 DEF PublishMsg
  <2> QED BY <1>1, <1>3, <2>2, <2>3 DEF Repeated
<1>4. CASE exchange[m].stage = "release"
  <2>1. e = PubrelMsg(id)
    BY <1>4 DEF Again
  <2>2. e \in ToClient
    BY <1>1, <1>2, <2>1, ToClientFields
  <2>3. e.type = "PUBREL" /\ e.id = id
    BY <2>1 DEF PubrelMsg
  <2> QED BY <1>1, <1>4, <2>2, <2>3 DEF Repeated
<1> QED BY <1>1, <1>3, <1>4

LEMMA RepeatKeeps ==
    ASSUME ExchangeInv, NEW m \in Messages, BrokerRepeat(m)
    PROVE  ExchangeInv'
<1>1. /\ BrokerOnly /\ toBroker' = toBroker /\ exchange' = exchange
      /\ toClient' = Append(toClient, Again(m)) /\ m \in Unacked
  BY DEF BrokerRepeat, BrokerOnly, MaySend, clientUnchanged, recvVars, brokerVars
<1>2. PICK id : id = exchange[m].id
  OBVIOUS
<1>3. PICK e : e = Again(m)
  OBVIOUS
<1>4. Open(m, id) /\ id \in PacketIds /\ exchange[m].stage \in {"publish", "release"}
  BY <1>1, <1>2 DEF Unacked, Open, ExchangeInv, TypeInv
<1>5. Repeated(e, m, id)
  BY <1>1, <1>2, <1>3, AgainFacts
<1>6. /\ toClient' \in Seq(ToClient) /\ e.type # "CONNACK"
      /\ \A x : x \in Elements(toClient') <=> x \in Elements(toClient) \/ x = e
      /\ \A x, y : Ahead(toClient', x, y) <=>
            Ahead(toClient, x, y) \/ (x \in Elements(toClient) /\ y = e)
  BY <1>1, <1>3, <1>5, SentFacts DEF Repeated
<1>7. /\ SessionInv' /\ RecvInv' /\ DeliveredOnce' /\ NoProtocolError'
      /\ \A j : Held(j)' <=> Held(j)
  BY <1>1, <1>6, BrokerSession
<1>8. TypeInv'
  BY <1>1, <1>6, <1>7, SameExchanges DEF ExchangeInv, TypeInv, BrokerOnly
<1>9. /\ \A n, j : Open(n, j)' <=> Open(n, j)
      /\ \A x : Copy(x)' <=> Copy(x) \/ (x = e /\ e.type = "PUBLISH")
      /\ \A x : Release(x)' <=> Release(x) \/ (x = e /\ e.type = "PUBREL")
  BY <1>1, <1>6 DEF Open, Copy, Release
<1>10. \A n : Open(n, id) => n = m
  BY <1>4 DEF ExchangeInv, OrderlyInv, OneExchange
<1>11. OneExchange' /\ StageReported' /\ PubcompLast'
  BY <1>1, <1>9 DEF ExchangeInv, OrderlyInv, OneExchange, StageReported, PubcompLast, BrokerOnly
<1>12. CopiesBelong'
  BY <1>1, <1>5, <1>9, <1>10 DEF ExchangeInv, OrderlyInv, CopiesBelong, Repeated, BrokerOnly
<1>13. AcksEarned' /\ HeldReported'
  BY <1>1, <1>7, <1>9 DEF ExchangeInv, OrderlyInv, AcksEarned, HeldReported, BrokerOnly
<1>14. PubcompEnds'
  <2>1. ASSUME NEW b, b \in Elements(toBroker), b.type = "PUBCOMP", NEW x, Copy(x)'
        PROVE  x.id # b.id
    BY <1>5, <1>9, <2>1 DEF ExchangeInv, OrderlyInv, PubcompEnds, Repeated
  <2> QED BY <1>1, <1>7, <1>9, <2>1 DEF ExchangeInv, OrderlyInv, PubcompEnds
<1>15. OldRelease'
  BY <1>1, <1>5, <1>7, <1>9, <1>10 DEF ExchangeInv, OrderlyInv, OldRelease, Repeated
<1>16. CopiesFirst'
  <2>1. ASSUME NEW x, NEW y, Ahead(toClient', x, y), x.id = y.id,
               x.type = "PUBLISH", x.msg \in ExactlyOnce, y.type = "PUBREL"
        PROVE  exchange[x.msg].stage = "release"
    <3>1. CASE Ahead(toClient, x, y)
      BY <2>1, <3>1 DEF ExchangeInv, OrderlyInv, CopiesFirst
    <3>2. CASE x \in Elements(toClient) /\ y = e
      <4>1. Open(x.msg, id)
        BY <1>5, <2>1, <3>2 DEF Repeated, ExchangeInv, OrderlyInv, CopiesBelong, Copy
      <4> QED BY <1>5, <1>10, <2>1, <3>2, <4>1 DEF Repeated
    <3> QED BY <1>6, <2>1, <3>1, <3>2
  <2>2. ASSUME NEW x, NEW y, Ahead(toClient', x, y), x.id = y.id,
               y.type = "PUBLISH", y.msg \in ExactlyOnce, x.type = "PUBREL"
        PROVE  exchange[y.msg].stage = "publish"
    BY <1>5, <1>6, <2>2 DEF ExchangeInv, OrderlyInv, CopiesFirst, Repeated
  <2> QED BY <1>1, <2>1, <2>2 DEF CopiesFirst
<1>17. FirstCopy'
  BY <1>5, <1>6, <1>7, <1>9 DEF ExchangeInv, OrderlyInv, FirstCopy, Repeated
<1>18. Remembered'
  <2>1. ASSUME NEW x, Copy(x)', x.msg \in ExactlyOnce
        PROVE  reported[x.msg] = 0 \/ Held(x.id) \/ x.msg \in discarded
    <3>1. CASE Copy(x)
      BY <2>1, <3>1 DEF ExchangeInv, OrderlyInv, Remembered
    <3>2. CASE x = e /\ e.type = "PUBLISH"
      <4>1. x.msg = m /\ x.id = id /\ exchange[m].stage = "publish" /\ reported[m] \in 0..2
        BY <1>5, <3>2 DEF Repeated, ExchangeInv, TypeInv
      <4>2. reported[m] = 0 \/ reported[m] > 0
        BY <4>1
      <4> QED BY <1>1, <1>4, <2>1, <4>1, <4>2
              DEF ExchangeInv, OrderlyInv, Remembered, BrokerOnly
    <3> QED BY <1>9, <2>1, <3>1, <3>2
  <2>2. reported' = reported /\ discarded' = discarded
    BY <1>1 DEF BrokerOnly
  <2> QED BY <1>1, <1>7, <1>9, <2>1, <2>2
          DEF ExchangeInv, OrderlyInv, Remembered, BrokerOnly
<1>19. OrderlyInv'
  BY <1>11, <1>12, <1>13, <1>14, <1>15, <1>16, <1>17, <1>18 DEF OrderlyInv
<1> QED BY <1>7, <1>8, <1>19 DEF ExchangeInv

\* A new exchange begins: its packet identifier is not used anywhere.
LEMMA PublishNewKeeps ==
    ASSUME ExchangeInv, NEW m \in Messages, NEW id \in PacketIds, BrokerPublish(m, id)
    PROVE  ExchangeInv'
<1>1. /\ BrokerOnly /\ toBroker' = toBroker
      /\ exchange[m].stage = "new" /\ MessageOf(id) = {} /\ NoCopyLeft(id)
      /\ exchange' = [exchange EXCEPT ![m] = [stage |-> "publish", id |-> id]]
      /\ toClient' = Append(toClient, PublishMsg(m, id, FALSE))
  BY DEF BrokerPublish, BrokerOnly, MaySend, clientUnchanged, recvVars
<1>2. PICK e : e = PublishMsg(m, id, FALSE)
  OBVIOUS
<1>3. e.type = "PUBLISH" /\ e.type # "CONNACK" /\ e.id = id /\ e.msg = m /\ ~e.dup
  BY <1>2 DEF PublishMsg
<1>4. e \in ToClient
  BY <1>2, ToClientFields
<1>5. /\ toClient' \in Seq(ToClient)
      /\ \A x : x \in Elements(toClient') <=> x \in Elements(toClient) \/ x = e
      /\ \A x, y : Ahead(toClient', x, y) <=>
            Ahead(toClient, x, y) \/ (x \in Elements(toClient) /\ y = e)
  BY <1>1, <1>2, <1>3, <1>4, SentFacts
<1>6. /\ SessionInv' /\ RecvInv' /\ DeliveredOnce' /\ NoProtocolError'
      /\ \A j : Held(j)' <=> Held(j)
  <2>1. /\ BrokerOnly /\ toClient' \in Seq(ToClient)
        /\ \A x : x \in Elements(toClient) => x \in Elements(toClient')
        /\ \A x : x \in Elements(toClient') => x \in Elements(toClient) \/ x.type # "CONNACK"
        /\ \A x, y : Ahead(toClient', x, y) => Ahead(toClient, x, y) \/ y.type # "CONNACK"
    <3>1. BrokerOnly /\ e.type # "CONNACK"
      BY <1>1, <1>3
    <3> QED BY <1>5, <3>1
  <2> QED BY <2>1, BrokerSession
<1>7. /\ exchange'[m].stage = "publish" /\ exchange'[m].id = id
      /\ \A n \in Messages : n # m => exchange'[n] = exchange[n]
      /\ exchange' \in [Messages -> [stage : Stages, id : PacketIds \cup {0}]]
  BY <1>1 DEF ExchangeInv, TypeInv, Stages
<1>8. \A n, j : Open(n, j)' <=> Open(n, j) \/ (n = m /\ j = id)
  BY <1>1, <1>7 DEF Open
<1>9. \A n : ~Open(n, id)
  BY <1>1, OpenFacts
<1>10. \A j : ~Open(m, j)
  BY <1>1 DEF Open
<1>11. IsFiniteSet(Unacked')
  <2>1. IsFiniteSet(Unacked \cup {m})
    BY FS_AddElement DEF ExchangeInv, TypeInv
  <2>2. Unacked' \subseteq Unacked \cup {m}
    BY <1>7 DEF Unacked
  <2> QED BY <2>1, <2>2, FS_Subset
<1>12. TypeInv'
  BY <1>1, <1>5, <1>6, <1>7, <1>8, <1>11 DEF ExchangeInv, TypeInv, BrokerOnly
<1>13. /\ \A x : Copy(x)' <=> Copy(x) \/ x = e
       /\ \A x : Release(x)' <=> Release(x)
  BY <1>3, <1>5 DEF Copy, Release
<1>14. /\ \A x : Copy(x) => x.id # id
       /\ \A b \in Elements(toBroker) : b.type = "PUBACK" => b.id # id
  <2>1. toClient \in Seq(ToClient) /\ toBroker \in Seq(ToBroker)
    BY DEF ExchangeInv, TypeInv
  <2>2. DOMAIN toClient = 1..Len(toClient) /\ DOMAIN toBroker = 1..Len(toBroker)
    BY <2>1, LenProperties
  <2> QED BY <1>1, <2>2 DEF NoCopyLeft, Copy, Elements
<1>15. /\ ~Held(id)
       /\ \A b \in Elements(toBroker) : b.id # id
  BY <1>9, <1>14 DEF ExchangeInv, OrderlyInv, HeldReported, AcksEarned
<1>16. OneExchange'
  BY <1>8, <1>9, <1>10 DEF ExchangeInv, OrderlyInv, OneExchange
<1>17. CopiesBelong'
  <2>1. ASSUME NEW x, Copy(x)
        PROVE  /\ \A n : Open(n, x.id)' => n = x.msg
               /\ exchange'[x.msg].stage # "new"
               /\ x.msg \in ExactlyOnce => Open(x.msg, x.id)'
    <3>1. exchange[x.msg].stage # "new" /\ x.msg # m
      BY <1>1, <2>1 DEF ExchangeInv, OrderlyInv, CopiesBelong
    <3>2. x.msg \in Messages
      <4>1. toClient \in Seq(ToClient)
        BY DEF ExchangeInv, TypeInv
      <4>2. x \in ToClient
        BY <2>1, <4>1, ElementOfSeq DEF Copy, Elements
      <4> QED BY <2>1, <4>2, ToClientFields DEF Copy, IsPublish
    <3>3. exchange'[x.msg].stage # "new"
      BY <1>7, <3>1, <3>2
    <3> QED BY <1>8, <1>14, <2>1, <3>3 DEF ExchangeInv, OrderlyInv, CopiesBelong
  <2>2. /\ \A n : Open(n, e.id)' => n = e.msg
        /\ exchange'[e.msg].stage # "new"
        /\ Open(e.msg, e.id)'
    BY <1>3, <1>7, <1>8, <1>9
  <2> QED BY <1>13, <2>1, <2>2 DEF CopiesBelong
<1>18. AcksEarned'
  BY <1>1, <1>8, <1>15 DEF ExchangeInv, OrderlyInv, AcksEarned, BrokerOnly
<1>19. PubcompEnds'
  <2>1. ASSUME NEW b \in Elements(toBroker), b.type = "PUBCOMP"
        PROVE  /\ ~Held(b.id)'
               /\ \A n : Open(n, b.id)' => exchange'[n].stage = "release"
               /\ \A x : Copy(x)' => x.id # b.id
    <3>1. b.id # id
      BY <1>15
    <3>2. \A n : Open(n, b.id)' => n # m /\ n \in Messages /\ Open(n, b.id)
      BY <1>8, <1>10, <3>1 DEF Open
    <3> QED BY <1>3, <1>6, <1>7, <1>13, <2>1, <3>1, <3>2
            DEF ExchangeInv, OrderlyInv, PubcompEnds
  <2> QED BY <1>1, <2>1 DEF PubcompEnds
<1>20. PubcompLast'
  BY <1>1 DEF ExchangeInv, OrderlyInv, PubcompLast
<1>21. HeldReported'
  BY <1>1, <1>6, <1>8 DEF ExchangeInv, OrderlyInv, HeldReported, BrokerOnly
<1>22. OldRelease'
  <2>1. ASSUME NEW x, NEW n, Release(x), Open(n, x.id)', n \in ExactlyOnce,
               exchange'[n].stage = "publish"
        PROVE  ~Held(x.id) /\ \A a \in Elements(toBroker) : a.type = "PUBREC" => a.id # x.id
    <3>1. CASE x.id = id
      BY <1>15, <3>1
    <3>2. CASE x.id # id
      <4>1. Open(n, x.id) /\ n # m /\ n \in Messages
        BY <1>8, <1>10, <2>1, <3>2 DEF Open
      <4> QED BY <1>7, <2>1, <4>1 DEF ExchangeInv, OrderlyInv, OldRelease
    <3> QED BY <3>1, <3>2
  <2> QED BY <1>1, <1>6, <1>13, <2>1 DEF OldRelease
<1>23. CopiesFirst'
  <2>1. \A x : Copy(x) /\ x.msg \in ExactlyOnce => exchange'[x.msg] = exchange[x.msg]
    BY <1>7, <1>10 DEF ExchangeInv, OrderlyInv, CopiesBelong, Open
  <2>2. ASSUME NEW x, NEW y, Ahead(toClient, x, y), x.id = y.id
        PROVE  /\ x.type = "PUBLISH" /\ x.msg \in ExactlyOnce /\ y.type = "PUBREL" =>
                     exchange'[x.msg].stage = "release"
               /\ y.type = "PUBLISH" /\ y.msg \in ExactlyOnce /\ x.type = "PUBREL" =>
                     exchange'[y.msg].stage = "publish"
    BY <2>1, <2>2, AheadElements DEF ExchangeInv, OrderlyInv, CopiesFirst, Copy
  <2> QED BY <1>3, <1>5, <1>7, <2>2 DEF CopiesFirst
<1>24. FirstCopy'
  BY <1>3, <1>5, <1>6, <1>13, <1>14, <1>15 DEF ExchangeInv, OrderlyInv, FirstCopy, Copy
<1>25. StageReported'
  <2>1. \A n \in Messages : n # m => exchange'[n].stage = exchange[n].stage
    BY <1>7
  <2> QED BY <1>1, <1>7, <2>1 DEF ExchangeInv, OrderlyInv, StageReported, BrokerOnly
<1>26. Remembered'
  <2>1. reported[m] = 0 /\ reported' = reported /\ discarded' = discarded
    BY <1>1 DEF ExchangeInv, OrderlyInv, StageReported, BrokerOnly
  <2>2. ASSUME NEW x, Copy(x)', x.msg \in ExactlyOnce
        PROVE  reported'[x.msg] = 0 \/ Held(x.id)' \/ x.msg \in discarded'
    BY <1>3, <1>6, <1>13, <2>1, <2>2 DEF ExchangeInv, OrderlyInv, Remembered
  <2>3. ASSUME NEW n, NEW j, n \in ExactlyOnce, Open(n, j)', exchange'[n].stage = "publish",
               reported'[n] > 0
        PROVE  Held(j)' \/ n \in discarded' \/ (~accepted' /\ cleanSession')
    <3>1. n # m
      BY <2>1, <2>3
    <3>2. Open(n, j) /\ exchange[n].stage = "publish"
      BY <1>7, <1>8, <2>3, <3>1 DEF Open
    <3> QED BY <1>1, <1>6, <2>1, <2>3, <3>2 DEF ExchangeInv, OrderlyInv, Remembered, BrokerOnly
  <2> QED BY <2>2, <2>3 DEF Remembered
<1>27. OrderlyInv'
  BY <1>16, <1>17, <1>18, <1>19, <1>20, <1>21, <1>22, <1>23, <1>24, <1>25, <1>26 DEF OrderlyInv
<1> QED BY <1>6, <1>12, <1>27 DEF ExchangeInv

\* An acknowledgement a arrives and moves the exchange of m on to the stage next.
AckFor(a, m, next) ==
    /\ toBroker' \in Seq(ToBroker) /\ Taken(toBroker, toBroker', a)
    /\ a \in Elements(toBroker)
    /\ \A b : b \in Elements(toBroker') => b \in Elements(toBroker) /\ Ahead(toBroker, a, b)
    /\ \A b, c : Ahead(toBroker', b, c) => Ahead(toBroker, b, c)
    /\ Open(m, a.id)
    /\ exchange'[m].stage = next /\ exchange'[m].id = exchange[m].id
    /\ \A n \in Messages : n # m => exchange'[n] = exchange[n]
    /\ exchange' \in [Messages -> [stage : Stages, id : PacketIds \cup {0}]]

\* A message of QoS 1, or of QoS 2 on the PUBCOMP: the exchange is over.
LEMMA EndsKeeps ==
    ASSUME ExchangeInv, BrokerOnly, NEW a, NEW m, AckFor(a, m, "done"), toClient' = toClient,
           \/ a.type = "PUBACK" /\ m \notin ExactlyOnce
           \/ a.type = "PUBCOMP" /\ m \in ExactlyOnce
    PROVE  ExchangeInv'
<1>1. /\ SessionInv' /\ RecvInv' /\ DeliveredOnce' /\ NoProtocolError'
      /\ \A j : Held(j)' <=> Held(j)
  BY BrokerSession DEF ExchangeInv, TypeInv
<1>2. m \in Messages
  BY DEF AckFor, Open
<1>3. \A n, j : Open(n, j)' <=> Open(n, j) /\ n # m
  BY <1>2 DEF AckFor, Open
<1>4. \A x : (Copy(x)' <=> Copy(x)) /\ (Release(x)' <=> Release(x))
  BY DEF Copy, Release
<1>5. IsFiniteSet(Unacked')
  <2>1. Unacked' \subseteq Unacked
    BY <1>2 DEF Unacked, AckFor
  <2> QED BY <2>1, FS_Subset DEF ExchangeInv, TypeInv
<1>6. TypeInv'
  BY <1>1, <1>3, <1>5 DEF ExchangeInv, TypeInv, BrokerOnly, AckFor
<1>7. \A n \in Messages : n # m => exchange'[n].stage = exchange[n].stage
  BY DEF AckFor
<1>8. exchange'[m].stage = "done" /\ exchange[m].stage # "new"
  BY DEF AckFor, Open
<1>9. reported[m] > 0
  <2>1. CASE a.type = "PUBACK" /\ m \notin ExactlyOnce
    BY <2>1 DEF AckFor, ExchangeInv, OrderlyInv, AcksEarned
  <2>2. CASE a.type = "PUBCOMP" /\ m \in ExactlyOnce
    BY <2>2 DEF AckFor, ExchangeInv, OrderlyInv, AcksEarned, OneExchange
  <2> QED BY <2>1, <2>2
<1>10. \A n : Open(n, a.id) => n = m
  BY DEF AckFor, ExchangeInv, OrderlyInv, OneExchange
\* Nothing of an exchange of QoS 2 that ends is left.
<1>11. m \in ExactlyOnce => /\ a.type = "PUBCOMP" /\ ~Held(a.id)
                            /\ \A x : Copy(x) => x.id # a.id
                            /\ \A b \in Elements(toBroker') : b.type # "PUBACK" => b.id # a.id
  BY DEF AckFor, ExchangeInv, OrderlyInv, PubcompEnds, PubcompLast
<1>12. \A x : Copy(x) /\ x.msg \in ExactlyOnce => x.msg # m
  BY <1>11 DEF ExchangeInv, OrderlyInv, CopiesBelong, AckFor, Open
<1>13. \A x : Copy(x) => x.msg \in Messages
  <2>1. toClient \in Seq(ToClient)
    BY DEF ExchangeInv, TypeInv
  <2>2. \A x : Copy(x) => x \in ToClient /\ x.type = "PUBLISH"
    BY <2>1, ElementOfSeq DEF Copy, Elements
  <2> QED BY <2>2, ToClientFields DEF IsPublish
<1>14. OneExchange'
  BY <1>3 DEF ExchangeInv, OrderlyInv, OneExchange
<1>15. CopiesBelong'
  <2>1. ASSUME NEW x, Copy(x) PROVE exchange'[x.msg].stage # "new"
    BY <1>7, <1>8, <1>13, <2>1 DEF ExchangeInv, OrderlyInv, CopiesBelong
  <2> QED BY <1>3, <1>4, <1>12, <2>1 DEF ExchangeInv, OrderlyInv, CopiesBelong
<1>16. \A j : Held(j) /\ j \in PacketIds =>
          \E n \in ExactlyOnce : Open(n, j) /\ n # m /\ reported[n] > 0
  <2>1. ASSUME NEW j \in PacketIds, Held(j), NEW n \in ExactlyOnce, Open(n, j), n = m PROVE FALSE
    <3>1. j = a.id
      BY <2>1 DEF AckFor, Open
    <3> QED BY <1>11, <2>1, <3>1
  <2> QED BY <2>1 DEF ExchangeInv, OrderlyInv, HeldReported
<1>17. HeldReported'
  BY <1>1, <1>3, <1>16 DEF HeldReported, BrokerOnly
<1>18. AcksEarned'
  <2>1. ASSUME NEW b, b \in Elements(toBroker'), b.type = "PUBACK", NEW n, Open(n, b.id),
               n \notin ExactlyOnce
        PROVE  reported[n] > 0
    BY <2>1 DEF AckFor, ExchangeInv, OrderlyInv, AcksEarned
  <2>2. ASSUME NEW b, b \in Elements(toBroker'), b.type # "PUBACK"
        PROVE  \E n \in ExactlyOnce : Open(n, b.id) /\ n # m /\ reported[n] > 0
    <3>1. PICK n \in ExactlyOnce : Open(n, b.id) /\ reported[n] > 0
      BY <2>2 DEF AckFor, ExchangeInv, OrderlyInv, AcksEarned
    <3>2. ASSUME n = m PROVE FALSE
      <4>1. b.id = a.id
        BY <3>1, <3>2 DEF AckFor, Open
      <4> QED BY <1>11, <2>2, <3>1, <3>2, <4>1
    <3> QED BY <3>1, <3>2
  <2> QED BY <1>3, <2>1, <2>2 DEF AcksEarned, BrokerOnly
<1>19. PubcompEnds'
  <2>1. ASSUME NEW b, b \in Elements(toBroker'), b.type = "PUBCOMP"
        PROVE  /\ ~Held(b.id) /\ \A x : Copy(x) => x.id # b.id
               /\ \A n : Open(n, b.id)' => exchange'[n].stage = "release"
    <3>1. b \in Elements(toBroker)
      BY <2>1 DEF AckFor
    <3>2. \A n : Open(n, b.id)' => Open(n, b.id) /\ n # m /\ n \in Messages
      BY <1>3 DEF Open
    <3> QED BY <1>7, <2>1, <3>1, <3>2 DEF ExchangeInv, OrderlyInv, PubcompEnds
  <2> QED BY <1>1, <1>4, <2>1 DEF PubcompEnds
<1>20. PubcompLast'
  BY DEF ExchangeInv, OrderlyInv, PubcompLast, AckFor
<1>21. OldRelease'
  <2>1. ASSUME NEW x, NEW n, Release(x), Open(n, x.id)', n \in ExactlyOnce,
               exchange'[n].stage = "publish"
        PROVE  ~Held(x.id) /\ \A b \in Elements(toBroker) : b.type = "PUBREC" => b.id # x.id
    <3>1. Open(n, x.id) /\ n # m /\ n \in Messages
      BY <1>3, <2>1 DEF Open
    <3> QED BY <1>7, <2>1, <3>1 DEF ExchangeInv, OrderlyInv, OldRelease
  <2>2. \A b : b \in Elements(toBroker') => b \in Elements(toBroker)
    BY DEF AckFor
  <2> QED BY <1>1, <1>4, <2>1, <2>2 DEF OldRelease
<1>22. CopiesFirst'
  <2>1. \A x : Copy(x) /\ x.msg \in ExactlyOnce => exchange'[x.msg].stage = exchange[x.msg].stage
    BY <1>7, <1>12, <1>13
  <2>2. ASSUME NEW x, NEW y, Ahead(toClient, x, y), x.id = y.id
        PROVE  /\ x.type = "PUBLISH" /\ x.msg \in ExactlyOnce /\ y.type = "PUBREL" =>
                     exchange'[x.msg].stage = "release"
               /\ y.type = "PUBLISH" /\ y.msg \in ExactlyOnce /\ x.type = "PUBREL" =>
                     exchange'[y.msg].stage = "publish"
    BY <2>1, <2>2, AheadElements DEF ExchangeInv, OrderlyInv, CopiesFirst, Copy
  <2> QED BY <2>2 DEF CopiesFirst
<1>23. FirstCopy'
  BY <1>1, <1>4 DEF ExchangeInv, OrderlyInv, FirstCopy
<1>24. StageReported'
  BY <1>7, <1>8, <1>9 DEF ExchangeInv, OrderlyInv, StageReported, BrokerOnly
<1>25. Remembered'
  <2>1. reported' = reported /\ discarded' = discarded /\ accepted'
    BY DEF BrokerOnly
  <2>2. ASSUME NEW n, NEW j, n \in ExactlyOnce, Open(n, j)', exchange'[n].stage = "publish",
               reported[n] > 0
        PROVE  Held(j) \/ n \in discarded
    <3>1. Open(n, j) /\ exchange[n].stage = "publish"
      BY <1>3, <1>7, <2>2 DEF Open
    <3> QED BY <2>2, <3>1 DEF ExchangeInv, OrderlyInv, Remembered, BrokerOnly
  <2> QED BY <1>1, <1>4, <2>1, <2>2 DEF ExchangeInv, OrderlyInv, Remembered
<1>26. OrderlyInv'
  BY <1>14, <1>15, <1>17, <1>18, <1>19, <1>20, <1>21, <1>22, <1>23, <1>24, <1>25 DEF OrderlyInv
<1> QED BY <1>1, <1>6, <1>26 DEF ExchangeInv

\* A PUBREC: the broker answers with a PUBREL. If it is the first one of the
\* exchange, no PUBREL with the packet identifier was under way.
LEMMA ReleasesKeeps ==
    ASSUME ExchangeInv, BrokerOnly, NEW a, NEW m \in ExactlyOnce, AckFor(a, m, "release"),
           a.type = "PUBREC", toClient' = Append(toClient, PubrelMsg(a.id))
    PROVE  ExchangeInv'
<1>1. PICK e : e = PubrelMsg(a.id)
  OBVIOUS
<1>2. /\ m \in Messages /\ exchange[m].stage \in {"publish", "release"} /\ Open(m, a.id)
      /\ a.id \in PacketIds /\ a \in Elements(toBroker)
  BY DEF AckFor, Open, ExchangeInv, TypeInv
<1>3. e.type = "PUBREL" /\ e.id = a.id /\ e.type # "CONNACK" /\ e.type # "PUBLISH"
  BY <1>1 DEF PubrelMsg
<1>4. e \in ToClient
  BY <1>1, <1>2, ToClientFields
<1>5. /\ toClient' \in Seq(ToClient)
      /\ \A x : x \in Elements(toClient') <=> x \in Elements(toClient) \/ x = e
      /\ \A x, y : Ahead(toClient', x, y) <=>
            Ahead(toClient, x, y) \/ (x \in Elements(toClient) /\ y = e)
  BY <1>1, <1>3, <1>4, SentFacts
<1>6. /\ SessionInv' /\ RecvInv' /\ DeliveredOnce' /\ NoProtocolError'
      /\ \A j : Held(j)' <=> Held(j)
  <2>1. e.type # "CONNACK"
    BY <1>3
  <2>2. /\ \A x : x \in Elements(toClient) => x \in Elements(toClient')
        /\ \A x : x \in Elements(toClient') => x \in Elements(toClient) \/ x.type # "CONNACK"
        /\ \A x, y : Ahead(toClient', x, y) => Ahead(toClient, x, y) \/ y.type # "CONNACK"
    BY <1>5, <2>1
  <2> QED BY <1>5, <2>2, BrokerSession
<1>7. /\ exchange'[m].stage = "release"
      /\ \A n \in Messages : n # m => exchange'[n].stage = exchange[n].stage
  BY DEF AckFor
<1>8. \A n, j : Open(n, j)' <=> Open(n, j)
  BY <1>2 DEF AckFor, Open
<1>9. Unacked' = Unacked
  BY <1>2, <1>7 DEF Unacked
<1>10. TypeInv'
  BY <1>5, <1>6, <1>8, <1>9 DEF ExchangeInv, TypeInv, BrokerOnly, AckFor
<1>11. /\ \A x : Copy(x)' <=> Copy(x)
       /\ \A x : Release(x)' <=> Release(x) \/ x = e
  BY <1>3, <1>5 DEF Copy, Release
<1>12. reported[m] > 0
  BY <1>2 DEF ExchangeInv, OrderlyInv, AcksEarned, OneExchange
<1>13. \A n : Open(n, a.id) => n = m
  BY <1>2 DEF ExchangeInv, OrderlyInv, OneExchange
<1>14. \A x : Copy(x) => x.msg \in Messages
  <2>1. toClient \in Seq(ToClient)
    BY DEF ExchangeInv, TypeInv
  <2>2. \A x : Copy(x) => x \in ToClient /\ x.type = "PUBLISH"
    BY <2>1, ElementOfSeq DEF Copy, Elements
  <2> QED BY <2>2, ToClientFields DEF IsPublish
<1>15. OneExchange'
  BY <1>8 DEF ExchangeInv, OrderlyInv, OneExchange
<1>16. CopiesBelong'
  <2>1. ASSUME NEW x, Copy(x) PROVE exchange'[x.msg].stage # "new"
    BY <1>7, <1>14, <2>1 DEF ExchangeInv, OrderlyInv, CopiesBelong
  <2> QED BY <1>8, <1>11, <2>1 DEF ExchangeInv, OrderlyInv, CopiesBelong
<1>17. AcksEarned' /\ HeldReported'
  BY <1>6, <1>8 DEF ExchangeInv, OrderlyInv, AcksEarned, HeldReported, BrokerOnly, AckFor
<1>18. PubcompEnds'
  <2>1. ASSUME NEW b, b \in Elements(toBroker'), b.type = "PUBCOMP"
        PROVE  /\ ~Held(b.id) /\ \A x : Copy(x) => x.id # b.id
               /\ \A n : Open(n, b.id)' => exchange'[n].stage = "release"
    <3>1. b \in Elements(toBroker)
      BY <2>1 DEF AckFor
    <3>2. \A n : Open(n, b.id)' => Open(n, b.id) /\ n \in Messages
      BY <1>8 DEF Open
    <3> QED BY <1>7, <2>1, <3>1, <3>2 DEF ExchangeInv, OrderlyInv, PubcompEnds
  <2> QED BY <1>6, <1>11, <2>1 DEF PubcompEnds
<1>19. PubcompLast'
  BY DEF ExchangeInv, OrderlyInv, PubcompLast, AckFor
<1>20. OldRelease'
  <2>1. ASSUME NEW x, NEW n, Release(x)', Open(n, x.id), n \in ExactlyOnce,
               exchange'[n].stage = "publish"
        PROVE  ~Held(x.id) /\ \A b \in Elements(toBroker) : b.type = "PUBREC" => b.id # x.id
    <3>1. n # m /\ n \in Messages
      BY <1>7, <2>1 DEF Open
    <3>2. Release(x)
      BY <1>3, <1>11, <1>13, <2>1, <3>1
    <3> QED BY <1>7, <2>1, <3>1, <3>2 DEF ExchangeInv, OrderlyInv, OldRelease
  <2>2. \A b : b \in Elements(toBroker') => b \in Elements(toBroker)
    BY DEF AckFor
  <2> QED BY <1>6, <1>8, <2>1, <2>2 DEF OldRelease
<1>21. CopiesFirst'
  <2>1. ASSUME NEW x, NEW y, Ahead(toClient', x, y), x.id = y.id,
               x.type = "PUBLISH", x.msg \in ExactlyOnce, y.type = "PUBREL"
        PROVE  exchange'[x.msg].stage = "release"
    <3>1. Copy(x)
      BY <1>5, <2>1, AheadElements DEF Copy
    <3>2. x.msg \in Messages
      BY <1>14, <3>1
    <3>3. CASE x.msg = m
      BY <1>7, <3>3
    <3>4. CASE x.msg # m
      <4>1. Open(x.msg, x.id)
        BY <2>1, <3>1 DEF ExchangeInv, OrderlyInv, CopiesBelong
      <4>2. y # e
        BY <1>3, <1>13, <2>1, <3>4, <4>1
      <4>3. Ahead(toClient, x, y)
        BY <1>5, <2>1, <4>2
      <4> QED BY <1>7, <2>1, <3>2, <3>4, <4>3 DEF ExchangeInv, OrderlyInv, CopiesFirst
    <3> QED BY <3>3, <3>4
  <2>2. ASSUME NEW x, NEW y, Ahead(toClient', x, y), x.id = y.id,
               y.type = "PUBLISH", y.msg \in ExactlyOnce, x.type = "PUBREL"
        PROVE  exchange'[y.msg].stage = "publish"
    <3>1. Ahead(toClient, x, y)
      BY <1>3, <1>5, <2>2
    <3>2. Copy(y) /\ Release(x)
      BY <2>2, <3>1, AheadElements DEF Copy, Release
    <3>3. exchange[y.msg].stage = "publish" /\ Open(y.msg, y.id) /\ y.msg \in Messages
      BY <1>14, <2>2, <3>1, <3>2 DEF ExchangeInv, OrderlyInv, CopiesFirst, CopiesBelong
    <3>4. y.id # a.id
      BY <1>2, <2>2, <3>2, <3>3 DEF ExchangeInv, OrderlyInv, OldRelease
    <3>5. y.msg # m
      BY <1>2, <3>3, <3>4 DEF Open
    <3> QED BY <1>7, <3>3, <3>5
  <2> QED BY <2>1, <2>2 DEF CopiesFirst
<1>22. FirstCopy'
  <2>1. ASSUME NEW x, NEW y, Ahead(toClient', x, y), y.type = "PUBLISH"
        PROVE  Ahead(toClient, x, y)
    BY <1>3, <1>5, <2>1
  <2> QED BY <1>6, <1>11, <2>1 DEF ExchangeInv, OrderlyInv, FirstCopy
<1>23. StageReported'
  BY <1>7, <1>12 DEF ExchangeInv, OrderlyInv, StageReported, BrokerOnly
<1>24. Remembered'
  <2>1. reported' = reported /\ discarded' = discarded /\ accepted'
    BY DEF BrokerOnly
  <2>2. ASSUME NEW n, NEW j, n \in ExactlyOnce, Open(n, j), exchange'[n].stage = "publish",
               reported[n] > 0
        PROVE  Held(j) \/ n \in discarded
    <3>1. exchange[n].stage = "publish"
      BY <1>7, <2>2 DEF Open
    <3> QED BY <2>2, <3>1 DEF ExchangeInv, OrderlyInv, Remembered, BrokerOnly
  <2> QED BY <1>6, <1>8, <1>11, <2>1, <2>2 DEF ExchangeInv, OrderlyInv, Remembered
<1>25. OrderlyInv'
  BY <1>15, <1>16, <1>17, <1>18, <1>19, <1>20, <1>21, <1>22, <1>23, <1>24 DEF OrderlyInv
<1> QED BY <1>6, <1>10, <1>25 DEF ExchangeInv

LEMMA AckKeeps ==
    ASSUME ExchangeInv, BrokerAck
    PROVE  ExchangeInv'
<1> DEFINE a == Head(toBroker)
           hit == {m \in MessageOf(a.id) : \/ a.type = "PUBACK" /\ m \notin ExactlyOnce
                                           \/ a.type # "PUBACK" /\ m \in ExactlyOnce}
           next == IF a.type = "PUBREC" THEN "release" ELSE "done"
<1>1. /\ toBroker # <<>> /\ toBroker' = Tail(toBroker)
      /\ exchange' = [m \in Messages |->
                        IF m \in hit THEN [exchange[m] EXCEPT !.stage = next] ELSE exchange[m]]
      /\ toClient' = IF hit # {} /\ next = "release"
                     THEN Append(toClient, PubrelMsg(a.id)) ELSE toClient
  BY DEF BrokerAck
<1>2. toBroker \in Seq(ToBroker)
  BY DEF ExchangeInv, TypeInv
<1>3. toBroker' \in Seq(ToBroker) /\ a \in ToBroker /\ Taken(toBroker, toBroker', a)
  BY <1>1, <1>2, TailTakes
<1>4. BrokerOnly
  BY <1>1 DEF BrokerAck, BrokerOnly, clientUnchanged, recvVars, ExchangeInv, SessionInv
<1>5. /\ a \in Elements(toBroker)
      /\ \A b : b \in Elements(toBroker') => b \in Elements(toBroker) /\ Ahead(toBroker, a, b)
      /\ \A b, c : Ahead(toBroker', b, c) => Ahead(toBroker, b, c)
  BY <1>3 DEF Taken
<1>6. a.type \in {"PUBACK", "PUBREC", "PUBCOMP"}
  BY <1>3 DEF ToBroker
<1>7. \A m : m \in hit <=> /\ Open(m, a.id)
                           /\ \/ a.type = "PUBACK" /\ m \notin ExactlyOnce
                              \/ a.type # "PUBACK" /\ m \in ExactlyOnce
  BY OpenFacts
<1> HIDE DEF a, hit, next
<1>8. CASE hit = {}
  <2>1. exchange' = exchange /\ toClient' = toClient
    BY <1>1, <1>8 DEF ExchangeInv, TypeInv
  <2>2. /\ SessionInv' /\ RecvInv' /\ DeliveredOnce' /\ NoProtocolError'
        /\ \A j : Held(j)' <=> Held(j)
    BY <1>4, <2>1, BrokerSession DEF ExchangeInv, TypeInv
  <2>3. TypeInv'
    BY <1>3, <1>4, <2>1, <2>2, SameExchanges DEF ExchangeInv, TypeInv, BrokerOnly
  <2>4. OnlyLess
    BY <1>4, <1>5, <2>1, <2>2 DEF OnlyLess, BrokerOnly
  <2>5. OrderlyInv'
    BY <2>4, LessKept DEF ExchangeInv
  <2> QED BY <2>2, <2>3, <2>5 DEF ExchangeInv
<1>9. ASSUME NEW m, m \in hit PROVE ExchangeInv'
  <2>1. Open(m, a.id) /\ m \in Messages
    BY <1>7, <1>9 DEF Open
  <2>2. \A n : n \in hit => n = m
    BY <1>7, <2>1 DEF ExchangeInv, OrderlyInv, OneExchange
  <2>3. next \in Stages
    BY DEF next, Stages
  <2>4. /\ exchange'[m] = [exchange[m] EXCEPT !.stage = next]
        /\ \A n \in Messages : n # m => exchange'[n] = exchange[n]
        /\ exchange[m] \in [stage : Stages, id : PacketIds \cup {0}]
    BY <1>1, <1>9, <2>1, <2>2 DEF ExchangeInv, TypeInv
  <2>5. exchange'[m].stage = next /\ exchange'[m].id = exchange[m].id
    BY <2>4
  <2>6. exchange' \in [Messages -> [stage : Stages, id : PacketIds \cup {0}]]
    <3>1. \A n \in Messages : exchange'[n] \in [stage : Stages, id : PacketIds \cup {0}]
      BY <2>3, <2>4 DEF ExchangeInv, TypeInv
    <3> QED BY <1>1, <3>1
  <2>7. AckFor(a, m, next)
    BY <1>3, <1>5, <2>1, <2>4, <2>5, <2>6 DEF AckFor
  <2>8. CASE a.type = "PUBREC"
    <3>1. next = "release" /\ toClient' = Append(toClient, PubrelMsg(a.id)) /\ m \in ExactlyOnce
      BY <1>1, <1>7, <1>9, <2>8 DEF next
    <3> QED BY <1>4, <2>7, <2>8, <3>1, ReleasesKeeps
  <2>9. CASE a.type # "PUBREC"
    <3>1. next = "done" /\ toClient' = toClient
      BY <1>1, <2>9 DEF next
    <3> QED BY <1>4, <1>6, <1>7, <1>9, <2>7, <2>9, <3>1, EndsKeeps
  <2> QED BY <2>8, <2>9
<1> QED BY <1>8, <1>9

\* A message ahead of a sequence of others.
LEMMA FirstAhead ==
    ASSUME NEW X, NEW c \in X, NEW f \in Seq(X), NEW r, r = <<c>> \o f
    PROVE  /\ r \in Seq(X) /\ c \in Elements(r)
           /\ \A x : x \in Elements(r) => x = c \/ x \in Elements(f)
           /\ \A x, y : Ahead(r, x, y) => y \in Elements(f)
<1>1. <<c>> \in Seq(X) /\ Len(<<c>>) = 1 /\ <<c>>[1] = c
  OBVIOUS
<1>2. PICK n \in Nat : n = Len(f)
  BY LenProperties
<1>3. r \in Seq(X) /\ Len(r) = 1 + n
  BY <1>1, <1>2, ConcatProperties
<1>4. \A i \in 1..Len(r) : r[i] = IF i <= 1 THEN <<c>>[i] ELSE f[i - 1]
  BY <1>1, <1>2, <1>3, ConcatProperties
<1>5. r[1] = c /\ 1 \in 1..Len(r)
  BY <1>1, <1>2, <1>3, <1>4
<1>6. ASSUME NEW i \in 1..Len(r), i # 1 PROVE r[i] \in Elements(f)
  <2>1. i - 1 \in 1..Len(f) /\ r[i] = f[i - 1]
    BY <1>2, <1>3, <1>4, <1>6
  <2> QED BY <2>1 DEF Elements
<1>7. c \in Elements(r) /\ \A x : x \in Elements(r) => x = c \/ x \in Elements(f)
  BY <1>5, <1>6 DEF Elements
<1>8. ASSUME NEW x, NEW y, Ahead(r, x, y) PROVE y \in Elements(f)
  <2>1. PICK i \in 1..Len(r), j \in 1..Len(r) : i < j /\ r[j] = y
    BY <1>8 DEF Ahead
  <2>2. j # 1
    BY <1>2, <1>3, <2>1
  <2> QED BY <1>6, <2>1, <2>2
<1> QED BY <1>3, <1>7, <1>8

\* The broker answers a CONNECT; what the connection before held is gone.
Answers(clean) ==
    /\ ~accepted /\ ~connected /\ ~disconnecting
    /\ toClient = <<>> /\ toBroker = <<>> /\ toBroker' = toBroker
    /\ accepted' /\ cleanSession' = cleanSession /\ clean = cleanSession
    /\ (persistent' <=> ~cleanSession)
    /\ UNCHANGED <<networkDisconnected, connected, disconnecting, recvOps, recv, effect>>
    /\ UNCHANGED <<reported, discarded>>
    /\ Elements(toBroker') = {} /\ \A x, y : ~Ahead(toBroker', x, y)
    /\ RecvInv' /\ DeliveredOnce' /\ NoProtocolError'

LEMMA AcceptFacts ==
    ASSUME ExchangeInv, ~MaySwitch, NEW clean \in BOOLEAN, BrokerAccept(clean)
    PROVE  Answers(clean)
<1>1. ~accepted /\ ~connected /\ ~disconnecting /\ clean = cleanSession
  BY DEF BrokerAccept
<1>2. toClient = <<>> /\ toBroker = <<>>
  BY <1>1 DEF ExchangeInv, SessionInv
<1>3. /\ toBroker' = toBroker /\ accepted' /\ cleanSession' = cleanSession
      /\ (persistent' <=> ~cleanSession)
      /\ UNCHANGED <<networkDisconnected, connected, disconnecting, recvOps, recv, effect>>
      /\ UNCHANGED <<reported, discarded>>
  BY <1>1 DEF BrokerAccept, clientUnchanged, recvVars
<1>4. Elements(toBroker') = {} /\ \A x, y : ~Ahead(toBroker', x, y)
  BY <1>2, <1>3, EmptyChannel
<1>5. RecvInv'
  BY <1>3, SameIds DEF ExchangeInv, TypeInv, RecvInv, RecvOK
<1>6. DeliveredOnce' /\ NoProtocolError'
  BY <1>3 DEF ExchangeInv, DeliveredOnce, NoProtocolError
<1> QED BY <1>1, <1>2, <1>3, <1>4, <1>5, <1>6 DEF Answers

LEMMA ConnackFields ==
    ASSUME NEW b \in BOOLEAN, NEW c, c = ConnackMsg(b)
    PROVE  /\ c \in ToClient /\ c.type = "CONNACK" /\ (c.sessionPresent <=> b)
           /\ c.type # "PUBLISH" /\ c.type # "PUBREL"
<1>1. c \in ToClient
  BY ToClientFields
<1>2. c.type = "CONNACK" /\ c.sessionPresent = b
  BY DEF ConnackMsg
<1> QED BY <1>1, <1>2

\* Without the session: all exchanges in progress are over.
LEMMA NewSessionKeeps ==
    ASSUME ExchangeInv, NEW clean, Answers(clean), ~(persistent /\ ~clean),
           toClient' = <<ConnackMsg(FALSE)>>,
           exchange' = [m \in Messages |->
                 IF m \in Unacked THEN [stage |-> "dropped", id |-> 0] ELSE exchange[m]]
    PROVE  ExchangeInv'
<1>1. PICK c : c = ConnackMsg(FALSE)
  OBVIOUS
<1>2. c \in ToClient /\ c.type = "CONNACK" /\ ~c.sessionPresent /\ c.type # "PUBLISH"
      /\ c.type # "PUBREL"
  BY <1>1, ConnackFields
<1>3. <<>> \in Seq(ToClient) /\ toClient' = <<c>> \o <<>>
  BY <1>1, <1>2
<1>4. Elements(<<>>) = {}
  BY EmptyChannel
<1>5. /\ toClient' \in Seq(ToClient) /\ c \in Elements(toClient')
      /\ \A x : x \in Elements(toClient') => x = c
      /\ \A x, y : ~Ahead(toClient', x, y)
  BY <1>2, <1>3, <1>4, FirstAhead
<1>6. Pending'
  BY <1>2, <1>5 DEF Pending
<1>7. ~cleanSession => recvOps = {} /\ recvOps' = {}
  BY DEF Answers, ExchangeInv, SessionInv
<1>8. SessionInv'
  BY <1>2, <1>5, <1>6, <1>7 DEF Answers, SessionInv
<1>9. \A id : ~Held(id)'
  BY <1>6, <1>7 DEF Answers, Held, Over, InProgress
<1>10. ASSUME NEW m \in Messages
       PROVE  /\ exchange'[m] \in [stage : Stages, id : PacketIds \cup {0}]
              /\ exchange'[m].stage \notin {"publish", "release"}
              /\ exchange'[m].stage = "done" => exchange[m].stage = "done"
              /\ exchange'[m].stage = "new" => exchange[m].stage = "new"
  <2>1. CASE m \in Unacked
    BY <2>1 DEF Stages
  <2>2. CASE m \notin Unacked
    BY <2>2 DEF Unacked, ExchangeInv, TypeInv
  <2> QED BY <2>1, <2>2
<1>11. \A m, id : ~Open(m, id)'
  BY <1>10 DEF Open
<1>12. IsFiniteSet(Unacked')
  <2>1. Unacked' = {}
    BY <1>10 DEF Unacked
  <2> QED BY <2>1, FS_EmptySet
<1>13. exchange' \in [Messages -> [stage : Stages, id : PacketIds \cup {0}]]
  BY <1>10
<1>14. TypeInv'
  BY <1>5, <1>11, <1>12, <1>13 DEF Answers, ExchangeInv, TypeInv
<1>15. \A x : ~Copy(x)' /\ ~Release(x)'
  BY <1>2, <1>5 DEF Copy, Release
<1>16. OneExchange' /\ CopiesBelong' /\ OldRelease' /\ Remembered'
  BY <1>11, <1>15 DEF OneExchange, CopiesBelong, OldRelease, Remembered
<1>17. AcksEarned' /\ PubcompEnds' /\ PubcompLast'
  BY DEF Answers, AcksEarned, PubcompEnds, PubcompLast
<1>18. HeldReported' /\ CopiesFirst' /\ FirstCopy'
  BY <1>5, <1>9, <1>15 DEF HeldReported, CopiesFirst, FirstCopy
<1>19. StageReported'
  BY <1>10 DEF StageReported, Answers, ExchangeInv, OrderlyInv
<1>20. OrderlyInv'
  BY <1>16, <1>17, <1>18, <1>19 DEF OrderlyInv
<1> QED BY <1>8, <1>14, <1>20 DEF ExchangeInv, Answers

\* With the session: everything that is not acknowledged is sent again, in any
\* order.
LEMMA OldSessionKeeps ==
    ASSUME ExchangeInv, NEW clean, Answers(clean), persistent /\ ~clean,
           NEW order \in [1..Cardinality(Unacked) -> Unacked],
           toClient' = <<ConnackMsg(TRUE)>> \o [i \in DOMAIN order |-> Again(order[i])],
           exchange' = exchange
    PROVE  ExchangeInv'
<1>1. PICK c : c = ConnackMsg(TRUE)
  OBVIOUS
<1>2. c \in ToClient /\ c.type = "CONNACK" /\ c.sessionPresent /\ c.type # "PUBLISH"
      /\ c.type # "PUBREL"
  BY <1>1, ConnackFields
<1>3. PICK n \in Nat : n = Cardinality(Unacked)
  BY FS_CardinalityType DEF ExchangeInv, TypeInv
<1>4. PICK f : f = [i \in 1..n |-> Again(order[i])]
  OBVIOUS
<1>5. ASSUME NEW i \in 1..n
      PROVE  \E m, id : f[i] \in ToClient /\ Repeated(f[i], m, id)
  <2>1. order[i] \in Unacked /\ f[i] = Again(order[i])
    BY <1>3, <1>4
  <2>2. Repeated(f[i], order[i], exchange[order[i]].id)
    BY <2>1, AgainFacts
  <2>3. f[i] \in ToClient
    BY <2>2 DEF Repeated
  <2> QED BY <2>2, <2>3
<1>6. f \in Seq(ToClient) /\ Len(f) = n
  BY <1>4, <1>5, IsASeq
<1>7. \A x : x \in Elements(f) => \E m, id : Repeated(x, m, id)
  BY <1>5, <1>6 DEF Elements
<1>8. toClient' = <<c>> \o f
  BY <1>1, <1>3, <1>4
<1>9. /\ toClient' \in Seq(ToClient) /\ c \in Elements(toClient')
      /\ \A x : x \in Elements(toClient') => x = c \/ x \in Elements(f)
      /\ \A x, y : Ahead(toClient', x, y) => y \in Elements(f)
  BY <1>2, <1>6, <1>8, FirstAhead
<1>10. Pending'
  BY <1>2, <1>9 DEF Pending
<1>11. ~cleanSession /\ clean = cleanSession
  BY DEF Answers
<1>12. \A x : x \in Elements(f) => x.type # "CONNACK"
  BY <1>7 DEF Repeated
<1>13. SessionInv'
  <2>1. \A x, y : Ahead(toClient', x, y) => y.type # "CONNACK"
    BY <1>9, <1>12
  <2>2. \A x \in Elements(toClient') : x.type = "CONNACK" => x.sessionPresent
    BY <1>2, <1>9, <1>12
  <2> QED BY <1>10, <1>11, <2>1, <2>2 DEF Answers, SessionInv
<1>14. \A id : Held(id)' <=> Held(id)
  BY <1>11 DEF Answers, Held, Over, InProgress
<1>15. TypeInv'
  BY <1>9, SameExchanges DEF Answers, ExchangeInv, TypeInv
<1>16. \A m, id : Open(m, id)' <=> Open(m, id)
  BY DEF Open
<1>17. ASSUME NEW x, Copy(x)'
       PROVE  Open(x.msg, x.id) /\ exchange[x.msg].stage = "publish" /\ x.dup
  <2>1. x \in Elements(f) /\ x.type = "PUBLISH"
    BY <1>2, <1>9, <1>17 DEF Copy
  <2> QED BY <1>7, <2>1 DEF Repeated
<1>18. ASSUME NEW x, Release(x)', NEW m, Open(m, x.id)
       PROVE  exchange[m].stage = "release"
  <2>1. x \in Elements(f) /\ x.type = "PUBREL"
    BY <1>2, <1>9, <1>18 DEF Release
  <2>2. PICK n2 : Open(n2, x.id) /\ exchange[n2].stage = "release"
    BY <1>7, <2>1 DEF Repeated
  <2> QED BY <1>18, <2>2 DEF ExchangeInv, OrderlyInv, OneExchange
<1>19. OneExchange' /\ CopiesBelong'
  BY <1>16, <1>17 DEF ExchangeInv, OrderlyInv, OneExchange, CopiesBelong
<1>20. AcksEarned' /\ PubcompEnds' /\ PubcompLast'
  BY DEF Answers, AcksEarned, PubcompEnds, PubcompLast
<1>21. HeldReported' /\ StageReported'
  BY <1>14, <1>16 DEF Answers, ExchangeInv, OrderlyInv, HeldReported, StageReported
<1>22. OldRelease'
  BY <1>16, <1>18 DEF OldRelease
<1>23. CopiesFirst'
  <2>1. ASSUME NEW x, NEW y, Ahead(toClient', x, y), x.id = y.id PROVE
           /\ ~(x.type = "PUBLISH" /\ y.type = "PUBREL")
           /\ ~(y.type = "PUBLISH" /\ x.type = "PUBREL")
    <3>1. x \in Elements(toClient') /\ y \in Elements(toClient')
      BY <2>1, AheadElements
    <3> QED BY <1>17, <1>18, <2>1, <3>1 DEF Copy, Release
  <2> QED BY <2>1 DEF CopiesFirst
<1>24. FirstCopy'
  <2>1. ASSUME NEW x, NEW y, Ahead(toClient', x, y), y.type = "PUBLISH" PROVE y.dup
    <3>1. Copy(y)'
      BY <2>1, AheadElements DEF Copy
    <3> QED BY <1>17, <3>1
  <2> QED BY <1>17, <2>1 DEF FirstCopy
<1>25. Remembered'
  <2>1. ASSUME NEW m, NEW id, m \in ExactlyOnce, Open(m, id), exchange[m].stage = "publish"
        PROVE  reported[m] = 0 \/ Held(id) \/ m \in discarded
    <3>1. reported[m] \in 0..2
      BY <2>1 DEF Open, ExchangeInv, TypeInv
    <3>2. reported[m] = 0 \/ reported[m] > 0
      BY <3>1
    <3> QED BY <1>11, <2>1, <3>2 DEF ExchangeInv, OrderlyInv, Remembered
  <2>2. reported' = reported /\ discarded' = discarded
    BY DEF Answers
  <2>3. ASSUME NEW x, Copy(x)', x.msg \in ExactlyOnce
        PROVE  reported'[x.msg] = 0 \/ Held(x.id)' \/ x.msg \in discarded'
    BY <1>14, <1>17, <2>1, <2>2, <2>3
  <2>4. ASSUME NEW m, NEW id, m \in ExactlyOnce, Open(m, id)', exchange'[m].stage = "publish",
               reported'[m] > 0
        PROVE  Held(id)' \/ m \in discarded' \/ (~accepted' /\ cleanSession')
    <3>1. ~(reported[m] = 0)
      BY <2>2, <2>4
    <3> QED BY <1>14, <1>16, <2>1, <2>2, <2>4, <3>1
  <2> QED BY <2>3, <2>4 DEF Remembered
<1>26. OrderlyInv'
  BY <1>19, <1>20, <1>21, <1>22, <1>23, <1>24, <1>25 DEF OrderlyInv
<1> QED BY <1>13, <1>15, <1>26 DEF ExchangeInv, Answers

LEMMA AcceptKeeps ==
    ASSUME ExchangeInv, ~MaySwitch, NEW clean \in BOOLEAN, BrokerAccept(clean)
    PROVE  ExchangeInv'
<1>1. Answers(clean)
  BY AcceptFacts
<1>2. CASE persistent /\ ~clean
  <2>1. PICK order \in [1..Cardinality(Unacked) -> Unacked] :
            /\ toClient' = <<ConnackMsg(TRUE)>> \o [i \in DOMAIN order |-> Again(order[i])]
            /\ exchange' = exchange
    BY <1>2 DEF BrokerAccept
  <2> QED BY <1>1, <1>2, <2>1, OldSessionKeeps
<1>3. CASE ~(persistent /\ ~clean)
  <2>1. /\ toClient' = <<ConnackMsg(FALSE)>>
        /\ exchange' = [m \in Messages |->
                 IF m \in Unacked THEN [stage |-> "dropped", id |-> 0] ELSE exchange[m]]
    BY <1>3 DEF BrokerAccept
  <2> QED BY <1>1, <1>3, <2>1, NewSessionKeeps
<1> QED BY <1>2, <1>3

-----------------------------------------------------------------------------

LEMMA ExchangeBegins == ExchangeInit => ExchangeInv
<1> SUFFICES ASSUME ExchangeInit PROVE ExchangeInv
  OBVIOUS
<1>1. /\ Elements(toClient) = {} /\ Elements(toBroker) = {}
      /\ \A x, y : ~Ahead(toClient, x, y) /\ ~Ahead(toBroker, x, y)
  BY EmptyChannel DEF ExchangeInit
<1>2. RecvInv /\ recvOps = {} /\ ~connected /\ ~disconnecting
  BY NewRecvType DEF ExchangeInit, Init, RecvInv, RecvOK, UniqueReception
<1>3. /\ exchange \in [Messages -> [stage : Stages, id : PacketIds \cup {0}]]
      /\ \A m \in Messages : exchange[m].stage = "new" /\ reported[m] = 0
      /\ reported \in [Messages -> 0..2]
  BY DEF ExchangeInit, Stages
<1>4. Unacked = {} /\ \A m, id : ~Open(m, id)
  BY <1>3 DEF Unacked, Open
<1>5. TypeInv
  BY <1>2, <1>3, <1>4, FS_EmptySet, EmptySeq DEF TypeInv, ExchangeInit
<1>6. ~Pending /\ \A x : ~Copy(x) /\ ~Release(x)
  BY <1>1 DEF Pending, Copy, Release
<1>7. SessionInv
  BY <1>1, <1>2, <1>6 DEF SessionInv, ExchangeInit
<1>8. \A id : ~Held(id)
  BY <1>2 DEF Held, InProgress
<1>9. OrderlyInv
  <2>1. OneExchange /\ CopiesBelong /\ OldRelease /\ Remembered
    BY <1>4, <1>6 DEF OneExchange, CopiesBelong, OldRelease, Remembered
  <2>2. AcksEarned /\ PubcompEnds /\ PubcompLast /\ CopiesFirst
    BY <1>1 DEF AcksEarned, PubcompEnds, PubcompLast, CopiesFirst
  <2>3. HeldReported /\ FirstCopy /\ StageReported
    BY <1>1, <1>3, <1>6, <1>8 DEF HeldReported, FirstCopy, StageReported
  <2> QED BY <2>1, <2>2, <2>3 DEF OrderlyInv
<1>10. DeliveredOnce
  BY <1>3, ExchangeAssumption DEF DeliveredOnce
<1>11. NoProtocolError
  BY EffectFields DEF NoProtocolError, ExchangeInit, Init
<1> QED BY <1>5, <1>7, <1>9, <1>10, <1>11 DEF ExchangeInv

LEMMA ExchangeStutters ==
    ASSUME ExchangeInv, UNCHANGED vars
    PROVE  ExchangeInv'
<1>1. /\ recvOps' = recvOps /\ recv' = recv /\ exchange' = exchange /\ toClient' = toClient
      /\ toBroker' = toBroker /\ reported' = reported /\ discarded' = discarded
      /\ connected' = connected /\ disconnecting' = disconnecting /\ effect' = effect
      /\ persistent' = persistent /\ cleanSession' = cleanSession /\ accepted' = accepted
  BY DEF vars, recvVars, brokerVars
<1>2. RecvInv'
  BY <1>1, SameIds DEF ExchangeInv, TypeInv, RecvInv, RecvOK
<1>3. TypeInv'
  BY <1>1, <1>2, SameExchanges DEF ExchangeInv, TypeInv
<1>4. Pending' = Pending /\ \A id : Held(id)' <=> Held(id)
  BY <1>1 DEF Pending, Held, Over, InProgress
<1>5. SessionInv'
  BY <1>1, <1>4 DEF ExchangeInv, SessionInv
<1>6. OnlyLess
  BY <1>1, <1>4 DEF OnlyLess
<1>7. OrderlyInv'
  BY <1>6, LessKept DEF ExchangeInv
<1>8. DeliveredOnce' /\ NoProtocolError'
  BY <1>1 DEF ExchangeInv, DeliveredOnce, NoProtocolError
<1> QED BY <1>3, <1>5, <1>7, <1>8 DEF ExchangeInv

LEMMA ExchangeInvariant ==
    ASSUME ~MaySwitch
    PROVE  ExchangeSpec => []ExchangeInv
<1>1. ExchangeInv /\ [ExchangeNext]_vars => ExchangeInv'
  <2> SUFFICES ASSUME ExchangeInv, [ExchangeNext]_vars PROVE ExchangeInv'
    OBVIOUS
  <2>1. CASE UNCHANGED vars
    BY <2>1, ExchangeStutters
  <2>2. ASSUME NEW m \in Messages, NEW id \in PacketIds, BrokerPublish(m, id) PROVE ExchangeInv'
    BY <2>2, PublishNewKeeps
  <2>3. ASSUME NEW m \in Messages, BrokerRepeat(m) PROVE ExchangeInv'
    BY <2>3, RepeatKeeps
  <2>4. CASE BrokerAck
    BY <2>4, AckKeeps
  <2>5. ASSUME NEW clean \in BOOLEAN, BrokerAccept(clean) PROVE ExchangeInv'
    BY <2>5, AcceptKeeps
  <2>6. CASE ClientReceives
    BY <2>6, ReceivesKeeps
  <2>7. ASSUME NEW F \in SUBSET Running, ClientTick(F) PROVE ExchangeInv'
    BY <2>7, TickKeeps
  <2>8. CASE ClientLosesSession
    BY <2>8, LosesSessionKeeps
  <2>9. CASE ConnectionBreaks
    BY <2>9, BreaksKeeps
  <2>10. CASE Reconnect
    BY <2>10, ReconnectKeeps
  <2> QED BY <2>1, <2>2, <2>3, <2>4, <2>5, <2>6, <2>7, <2>8, <2>9, <2>10 DEF ExchangeNext
<1> QED BY <1>1, ExchangeBegins, PTL DEF ExchangeSpec

\* QoS 2: handle(PublishMsg) and handle(PubrelMsg) report a message to the
\* application once, whatever is repeated and however often the connection
\* breaks, unless the reception was given up by its timeout in between: for
\* every number of messages, packet identifiers and operations and channels of
\* any length, for an application that keeps its clean session flag.
THEOREM ExchangeDeliveredOnce ==
    ASSUME ~MaySwitch
    PROVE  ExchangeSpec => []DeliveredOnce
<1>1. ExchangeInv => DeliveredOnce
  BY DEF ExchangeInv
<1> QED BY <1>1, ExchangeInvariant, PTL

\* QoS 1 and 2: the broker learns from the acknowledgements of RecvOp that an
\* exchange is complete only when the message was reported.
THEOREM ExchangeDeliveredBeforeDone ==
    ASSUME ~MaySwitch
    PROVE  ExchangeSpec => []DeliveredBeforeDone
<1>1. ExchangeInv => DeliveredBeforeDone
  BY DEF ExchangeInv, OrderlyInv, StageReported, DeliveredBeforeDone
<1> QED BY <1>1, ExchangeInvariant, PTL

\* What a correct broker sends is never taken for a protocol error by
\* handle(PublishMsg): the packet identifier of a new message is not that of a
\* reception the client still holds.
THEOREM ExchangeNoProtocolError ==
    ASSUME ~MaySwitch
    PROVE  ExchangeSpec => []NoProtocolError
<1>1. ExchangeInv => NoProtocolError
  BY DEF ExchangeInv
<1> QED BY <1>1, ExchangeInvariant, PTL
=============================================================================
