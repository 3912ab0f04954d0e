-------------------------- MODULE AppProgramProofs --------------------------
(***************************************************************************)
(* Proofs about the publisher and subscriber programs, for every stream of *)
(* the broker, every size of its frames and every way to cut it into       *)
(* chunks.                                                                 *)
(***************************************************************************)
EXTENDS AppProgram, SequenceTheorems, WellFoundedInduction, TLAPS

\* A set of numbers has a least element.
LEMMA LeastNumber ==
    ASSUME NEW T, T \subseteq Nat, T # {}
    PROVE  \E k \in T : \A j \in T : k <= j
<1>1. PICK k \in T : \A j \in T : ~(<<j, k>> \in OpToRel(<, Nat))
  BY NatLessThanWellFounded, WFMin
<1>2. \A j \in T : ~(j < k)
  BY <1>1 DEF OpToRel
<1> QED BY <1>2

-----------------------------------------------------------------------------
\* Where the frames end.

StreamOK == stream \in Seq(DOMAIN Size)

Ends(f, m) == f = [i \in 0..m |-> IF i = 0 THEN 0 ELSE f[i - 1] + Size[stream[i]]]

\* Arithmetic of positions in the stream.
LEMMA Minus ==
    ASSUME NEW a \in Nat, NEW b \in Nat, NEW r \in Nat, NEW c, c = r - a, NEW x, x = b - a PROVE c - x = r - b
  OBVIOUS

LEMMA Inside ==
    ASSUME NEW m \in Nat, NEW x \in Nat, m - x > 1 PROVE x + 1 \in 1..m
  OBVIOUS

LEMMA Difference ==
    ASSUME NEW a \in Nat, NEW b \in Nat, a <= b, NEW x, x = b - a PROVE x \in Nat
  OBVIOUS

LEMMA EndsExist ==
    ASSUME NEW m \in Nat
    PROVE  \E f : Ends(f, m)
<1> DEFINE B == {k \in Nat : ~\E f : Ends(f, k)}
<1>1. SUFFICES ASSUME B # {} PROVE FALSE
  OBVIOUS
<1>2. PICK b \in B : \A k \in B : b <= k
  <2>1. B \subseteq Nat
    OBVIOUS
  <2> HIDE DEF B
  <2> QED BY <1>1, <2>1, LeastNumber
<1>3. b \in Nat /\ ~\E f : Ends(f, b)
  BY <1>2
<1>4. CASE b = 0
  <2> DEFINE f == [i \in 0..0 |-> 0]
  <2>1. f = [i \in 0..0 |-> IF i = 0 THEN 0 ELSE f[i - 1] + Size[stream[i]]]
    OBVIOUS
  <2>2. Ends(f, 0)
    BY <2>1 DEF Ends
  <2> QED BY <1>3, <1>4, <2>2
<1>5. CASE b # 0
  <2>1. b - 1 \in Nat /\ b - 1 \notin B
    BY <1>2, <1>3, <1>5
  <2>2. PICK g : Ends(g, b - 1)
    BY <2>1
  <2>3. PICK y : y = g[b - 1] + Size[stream[b]]
    OBVIOUS
  <2>4. \A i \in 0..(b - 1) : g[i] = IF i = 0 THEN 0 ELSE g[i - 1] + Size[stream[i]]
    BY <2>2 DEF Ends
  <2> DEFINE f == [i \in 0..b |-> IF i = b THEN y ELSE g[i]]
  <2>5. ASSUME NEW i \in 0..b
        PROVE  f[i] = IF i = 0 THEN 0 ELSE f[i - 1] + Size[stream[i]]
    <3>1. CASE i = b
      <4>1. f[i] = y /\ f[i - 1] = g[i - 1]
        BY <1>3, <1>5, <3>1
      <4> QED BY <1>5, <2>3, <3>1, <4>1
    <3>2. CASE i # b
      <4>1. i \in 0..(b - 1) /\ f[i] = g[i] /\ (i # 0 => f[i - 1] = g[i - 1])
        BY <1>3, <3>2
      <4> HIDE DEF f
      <4> QED BY <2>4, <4>1
    <3> QED BY <3>1, <3>2
  <2>6. f = [i \in 0..b |-> IF i = 0 THEN 0 ELSE f[i - 1] + Size[stream[i]]]
    <3> HIDE DEF f
    <3>1. f = [i \in 0..b |-> f[i]]
      BY DEF f
    <3> QED BY <2>5, <3>1
  <2>7. Ends(f, b)
    BY <2>6 DEF Ends
  <2> QED BY <1>3, <2>7
<1> QED BY <1>4, <1>5

\* The frames follow each other, each with two bytes or more.
LEMMA EndFacts ==
    ASSUME StreamOK
    PROVE  /\ Len(stream) \in Nat /\ DOMAIN stream = 1..Len(stream) /\ EndOf[0] = 0
           /\ \A i \in 1..Len(stream) : /\ Size[stream[i]] \in Nat /\ Size[stream[i]] > 1
                                        /\ EndOf[i] = EndOf[i - 1] + Size[stream[i]]
           /\ \A i \in 0..Len(stream) : EndOf[i] \in Nat
           /\ \A i, j \in 0..Len(stream) : i <= j => EndOf[i] + (j - i) <= EndOf[j]
<1>1. PICK m : m = Len(stream)
  OBVIOUS
<1>2. m \in Nat /\ DOMAIN stream = 1..m
  BY <1>1 DEF StreamOK
<1>3. \A i \in 1..m : Size[stream[i]] \in Nat /\ Size[stream[i]] > 1
  <2>1. \A i \in 1..m : stream[i] \in DOMAIN Size
    BY <1>1 DEF StreamOK
  <2> QED BY <2>1, ProgramAssumption
<1>4. Ends(EndOf, m)
  <2>1. EndOf = CHOOSE f : Ends(f, m)
    BY <1>1 DEF EndOf, Ends
  <2> QED BY <1>2, <2>1, EndsExist
<1>5. \A i \in 0..m : EndOf[i] = IF i = 0 THEN 0 ELSE EndOf[i - 1] + Size[stream[i]]
  BY <1>4 DEF Ends
<1>6. EndOf[0] = 0 /\ \A i \in 1..m : i - 1 \in 0..m /\ EndOf[i] = EndOf[i - 1] + Size[stream[i]]
  <2>1. 0 \in 0..m /\ \A i \in 1..m : i \in 0..m /\ i # 0 /\ i - 1 \in 0..m
    BY <1>2
  <2> QED BY <1>5, <2>1
<1>7. \A i \in 0..m : EndOf[i] \in Nat
  <2> DEFINE B == {i \in 0..m : EndOf[i] \notin Nat}
  <2>1. SUFFICES ASSUME B # {} PROVE FALSE
    OBVIOUS
  <2>2. PICK b \in B : \A k \in B : b <= k
    <3>1. B \subseteq Nat
      BY <1>2
    <3> HIDE DEF B
    <3> QED BY <2>1, <3>1, LeastNumber
  <2>3. b \in 1..m /\ EndOf[b] \notin Nat
    BY <1>2, <1>6, <2>2
  <2>4. b - 1 \in 0..m /\ b - 1 \notin B
    BY <1>2, <2>2, <2>3
  <2>5. EndOf[b - 1] \in Nat
    BY <2>4
  <2> QED BY <1>3, <1>6, <2>3, <2>5
<1>8. ASSUME NEW i \in 0..m, NEW j \in 0..m, i <= j PROVE EndOf[i] + (j - i) <= EndOf[j]
  <2> DEFINE B == {k \in 0..m : i <= k /\ ~(EndOf[i] + (k - i) <= EndOf[k])}
  <2>1. SUFFICES ASSUME B # {} PROVE FALSE
    BY <1>8
  <2>2. PICK b \in B : \A k \in B : b <= k
    <3>1. B \subseteq Nat
      BY <1>2
    <3> HIDE DEF B
    <3> QED BY <2>1, <3>1, LeastNumber
  <2>3. b \in 0..m /\ i <= b /\ ~(EndOf[i] + (b - i) <= EndOf[b])
    BY <2>2
  <2>4. b # i
    BY <1>2, <1>7, <2>3
  <2>5. b \in 1..m /\ b - 1 \in 0..m /\ i <= b - 1 /\ b - 1 \notin B
    BY <1>2, <2>2, <2>3, <2>4
  <2>6. EndOf[i] + ((b - 1) - i) <= EndOf[b - 1]
    BY <2>5
  <2>7. EndOf[b] = EndOf[b - 1] + Size[stream[b]] /\ Size[stream[b]] > 1
    BY <1>3, <1>6, <2>5
  <2>8. EndOf[i] \in Nat /\ EndOf[b] \in Nat /\ EndOf[b - 1] \in Nat /\ Size[stream[b]] \in Nat
    BY <1>3, <1>7, <2>5
  <2> QED BY <1>2, <2>3, <2>5, <2>6, <2>7, <2>8
<1> QED BY <1>1, <1>2, <1>3, <1>6, <1>7, <1>8

-----------------------------------------------------------------------------
\* The program, the library and the session, whatever is done to them.

StType ==
    [op : {"none", "connect", "subscribe", "publish"}, connected : BOOLEAN, disconnecting : BOOLEAN,
     netDown : BOOLEAN, subscribed : BOOLEAN, reported : BOOLEAN, attempts : Nat, valid : BOOLEAN,
     stopped : BOOLEAN, result : Int, acked : BOOLEAN, help : BOOLEAN, damaged : BOOLEAN]

\* The loop has been stopped if the network is lost, and a publisher that waits
\* for an acknowledgement is stopped without an error only by it.
Fine(s) ==
    /\ s \in StType
    /\ s.netDown => s.stopped
    /\ program = "pub1" /\ s.stopped /\ s.result = 0 => s.acked \/ s.help

\* Nothing starts the loop again.
Keeps(u, s) == Fine(u) /\ (s.stopped => u.stopped)

LEMMA TerminateType ==
    ASSUME NEW s \in StType, NEW r \in Int, NEW u, u = DoTerminate(s, r)
    PROVE  u \in StType /\ u.stopped /\ u.result = r /\ u.acked = s.acked
  BY DEF DoTerminate, StType

LEMMA TerminateFacts ==
    ASSUME NEW s \in StType, NEW r \in Int, r # 0, NEW u, u = DoTerminate(s, r)
    PROVE  Fine(u) /\ u.stopped
  BY TerminateType DEF Fine

LEMMA FailedFacts ==
    ASSUME NEW s \in StType, NEW u, u = Failed(s)
    PROVE  Fine(u) /\ u.stopped
<1>1. PICK v : v = [s EXCEPT !.op = "none"]
  OBVIOUS
<1>2. v \in StType
  BY <1>1 DEF StType
<1> QED BY <1>1, <1>2, TerminateFacts DEF Failed

LEMMA DisconnectedFacts ==
    ASSUME NEW s \in StType, NEW reason \in BOOLEAN, NEW u, u = BrokerDisconnected(s, reason)
    PROVE  /\ u \in StType /\ (reason => u.stopped)
           /\ Fine(s) => Keeps(u, s)
<1>1. PICK down : down = [s EXCEPT !.connected = FALSE, !.disconnecting = TRUE]
  OBVIOUS
<1>2. PICK ended : ended = IF s.op \in {"connect", "subscribe"} THEN Failed(down) ELSE down
  OBVIOUS
<1>3. /\ down \in StType /\ down.netDown = s.netDown /\ down.stopped = s.stopped
      /\ down.result = s.result /\ down.acked = s.acked /\ down.help = s.help
  BY <1>1 DEF StType
<1>4. Fine(s) => Fine(down)
  BY <1>3 DEF Fine
<1>5. ended \in StType /\ (Fine(s) => Keeps(ended, s))
  <2>1. CASE s.op \in {"connect", "subscribe"}
    <3>1. Fine(ended) /\ ended.stopped
      BY <1>2, <1>3, <2>1, FailedFacts
    <3> QED BY <3>1 DEF Keeps, Fine
  <2>2. CASE s.op \notin {"connect", "subscribe"}
    BY <1>2, <1>3, <1>4, <2>2 DEF Keeps
  <2> QED BY <2>1, <2>2
<1>6. u = IF reason THEN DoTerminate(ended, 1) ELSE ended
  BY <1>1, <1>2 DEF BrokerDisconnected
<1>7. CASE reason
  <2>1. Fine(u) /\ u.stopped
    BY <1>5, <1>6, <1>7, TerminateFacts
  <2> QED BY <2>1 DEF Keeps, Fine
<1>8. CASE ~reason
  BY <1>5, <1>6, <1>8
<1> QED BY <1>7, <1>8

LEMMA NetworkLostFacts ==
    ASSUME NEW s, Fine(s), NEW u, u = NetworkLost(s)
    PROVE  Keeps(u, s)
<1>1. CASE s.reported
  BY <1>1 DEF NetworkLost, Keeps
<1>2. CASE ~s.reported
  <2>1. PICK a : a = [s EXCEPT !.reported = TRUE]
    OBVIOUS
  <2>2. PICK b : b = [a EXCEPT !.netDown = TRUE]
    OBVIOUS
  <2>3. PICK c : c = IF a.disconnecting THEN b ELSE BrokerDisconnected(b, FALSE)
    OBVIOUS
  <2>4. a \in StType
    BY <2>1 DEF Fine, StType
  <2>5. b \in StType
    BY <2>2, <2>4 DEF StType
  <2>6. c \in StType
    BY <2>3, <2>5, DisconnectedFacts
  <2>7. u = DoTerminate(c, 1)
    BY <1>2, <2>1, <2>2, <2>3 DEF NetworkLost, NotifyNetworkDisconnected
  <2>8. Fine(u) /\ u.stopped
    BY <2>6, <2>7, TerminateFacts
  <2> QED BY <2>8 DEF Keeps
<1> QED BY <1>1, <1>2

LEMMA WriteFacts ==
    ASSUME NEW s, Fine(s), NEW ok \in BOOLEAN, NEW u, u \in {Write(s, ok), WriteOwn(s, ok)}
    PROVE  Keeps(u, s)
<1>1. PICK a : a = Write(s, ok)
  OBVIOUS
<1>2. Keeps(a, s)
  BY <1>1, NetworkLostFacts DEF Write, Keeps
<1>3. CASE u = a
  BY <1>2, <1>3
<1>4. CASE u = [a EXCEPT !.damaged = TRUE]
  <2>1. a \in StType
    BY <1>2 DEF Keeps, Fine
  <2>2. /\ u \in StType /\ u.netDown = a.netDown /\ u.stopped = a.stopped
        /\ u.result = a.result /\ u.acked = a.acked /\ u.help = a.help
    BY <1>4, <2>1 DEF StType
  <2> QED BY <1>2, <2>2 DEF Keeps, Fine
<1>5. u = a \/ u = [a EXCEPT !.damaged = TRUE]
  BY <1>1 DEF WriteOwn
<1> QED BY <1>3, <1>4, <1>5

\* A change of a field that is not about the end of the program.
Inner(v, s) ==
    /\ v \in StType /\ v.netDown = s.netDown /\ v.stopped = s.stopped
    /\ v.result = s.result /\ v.acked = s.acked /\ v.help = s.help

LEMMA InnerFacts ==
    ASSUME NEW s, Fine(s), NEW v, Inner(v, s)
    PROVE  Keeps(v, s) /\ Fine(v)
  BY DEF Inner, Keeps, Fine

LEMMA KeepsTrans ==
    ASSUME NEW s, NEW v, NEW u, Keeps(v, s), Keeps(u, v)
    PROVE  Keeps(u, s)
  BY DEF Keeps

LEMMA CompleteFacts ==
    ASSUME NEW s, Fine(s), program # "pub1" \/ s.acked, NEW u, u = PublishComplete(s)
    PROVE  Keeps(u, s)
<1>1. s \in StType
  BY DEF Fine
<1>2. PICK v : v = [s EXCEPT !.op = "none"]
  OBVIOUS
<1>3. v \in StType /\ v.acked = s.acked
  BY <1>1, <1>2 DEF StType
<1>4. u \in StType /\ u.stopped /\ u.acked = v.acked
  <2>1. u = DoTerminate(v, 0) /\ 0 \in Int
    BY <1>2 DEF PublishComplete
  <2> QED BY <1>3, <2>1, TerminateType
<1> QED BY <1>3, <1>4 DEF Keeps, Fine

LEMMA ConnectedFacts ==
    ASSUME NEW s, Fine(s), NEW ok \in BOOLEAN,
           NEW u, \/ u = SubscribeNow(s, ok)
                  \/ u = PublishNow(s, ok)
    PROVE  Keeps(u, s)
<1>1. s \in StType /\ s.valid \in BOOLEAN
  BY DEF Fine, StType
<1>2. CASE u = DoTerminate(s, 1)
  BY <1>1, <1>2, TerminateFacts DEF Keeps
<1>3. CASE u = WriteOwn([s EXCEPT !.op = "subscribe"], ok)
  <2>1. PICK v : v = [s EXCEPT !.op = "subscribe"]
    OBVIOUS
  <2>2. Inner(v, s)
    BY <1>1, <2>1 DEF Inner, StType
  <2>3. Fine(v) /\ Keeps(v, s)
    BY <2>2, InnerFacts
  <2>4. Keeps(u, v)
    BY <1>3, <2>1, <2>3, WriteFacts
  <2> QED BY <2>3, <2>4, KeepsTrans
<1>4. PICK v : v = [s EXCEPT !.op = "publish", !.attempts = 1]
  OBVIOUS
<1>5. PICK a : a = Write(v, ok)
  OBVIOUS
<1>6. Keeps(a, s) /\ Fine(a)
  <2>1. Inner(v, s)
    BY <1>1, <1>4 DEF Inner, StType
  <2>2. Fine(v) /\ Keeps(v, s)
    BY <2>1, InnerFacts
  <2>3. Keeps(a, v)
    BY <1>5, <2>2, WriteFacts
  <2> QED BY <2>2, <2>3, KeepsTrans DEF Keeps
<1>7. CASE u = a
  BY <1>6, <1>7
<1>8. CASE u = PublishComplete(a) /\ program = "pub0"
  <2>1. Keeps(u, a)
    BY <1>6, <1>8, CompleteFacts
  <2> QED BY <1>6, <2>1, KeepsTrans
<1>9. CASE u = SubscribeNow(s, ok)
  BY <1>2, <1>3, <1>9 DEF SubscribeNow
<1>10. CASE u = PublishNow(s, ok)
  <2>1. u = DoTerminate(s, 1) \/ u = a \/ (u = PublishComplete(a) /\ program = "pub0")
    BY <1>1, <1>4, <1>5, <1>10 DEF PublishNow
  <2> QED BY <1>2, <1>7, <1>8, <2>1
<1> QED BY <1>9, <1>10

LEMMA ConnectCompleteFacts ==
    ASSUME NEW s, Fine(s), NEW accepted \in BOOLEAN, NEW ok \in BOOLEAN,
           NEW u, u = ConnectComplete(s, accepted, ok)
    PROVE  Keeps(u, s)
<1>1. s \in StType
  BY DEF Fine
<1>2. PICK v : v = [s EXCEPT !.op = "none", !.connected = accepted]
  OBVIOUS
<1>3. Inner(v, s)
  BY <1>1, <1>2 DEF Inner, StType
<1>4. Fine(v) /\ Keeps(v, s)
  BY <1>3, InnerFacts
<1>5. u = DoTerminate(v, 1) \/ u = SubscribeNow(v, ok) \/ u = PublishNow(v, ok)
  BY <1>2 DEF ConnectComplete
<1>6. Keeps(u, v)
  <2>1. CASE u = DoTerminate(v, 1)
    BY <1>4, <2>1, TerminateFacts DEF Keeps, Fine
  <2>2. CASE u = SubscribeNow(v, ok) \/ u = PublishNow(v, ok)
    BY <1>4, <2>2, ConnectedFacts
  <2> QED BY <1>5, <2>1, <2>2
<1> QED BY <1>4, <1>6, KeepsTrans

\* A frame, broken or not.
LEMMA DispatchFacts ==
    ASSUME NEW s, Fine(s), NEW frame, NEW ok \in BOOLEAN, NEW u, u = Dispatch(s, frame, ok)
    PROVE  Keeps(u, s) /\ (frame = "BAD" => u.stopped)
<1>1. s \in StType
  BY DEF Fine
<1>2. CASE u = BrokerDisconnected(s, TRUE)
  BY <1>1, <1>2, DisconnectedFacts
<1>3. ASSUME u = AckReceived(s) PROVE Keeps(u, s)
  <2>1. CASE s.op = "publish"
    <3>1. PICK v : v = [s EXCEPT !.acked = TRUE]
      OBVIOUS
    <3>2. /\ v \in StType /\ v.acked /\ v.netDown = s.netDown /\ v.stopped = s.stopped
      BY <1>1, <3>1 DEF StType
    <3>3. Fine(v) /\ Keeps(v, s)
      BY <3>2 DEF Fine, Keeps
    <3>4. u = PublishComplete(v)
      BY <1>3, <2>1, <3>1 DEF AckReceived
    <3>5. Keeps(u, v)
      BY <3>2, <3>3, <3>4, CompleteFacts
    <3> QED BY <3>3, <3>5, KeepsTrans
  <2>2. CASE s.op # "publish"
    BY <1>3, <2>2 DEF AckReceived, Keeps
  <2> QED BY <2>1, <2>2
<1>4. ASSUME \E accepted \in BOOLEAN : u = ConnectComplete(s, accepted, ok) PROVE Keeps(u, s)
  BY <1>4, ConnectCompleteFacts
<1>5. ASSUME u = [s EXCEPT !.op = "none", !.subscribed = TRUE] PROVE Keeps(u, s)
  <2>1. Inner(u, s)
    BY <1>1, <1>5 DEF Inner, StType
  <2> QED BY <2>1, InnerFacts
<1>6. ASSUME u = MessageReceived(s, ok) PROVE Keeps(u, s)
  <2>1. CASE u = Write(s, ok)
    BY <2>1, WriteFacts
  <2>2. CASE u = BrokerDisconnected(s, TRUE)
    BY <1>1, <2>2, DisconnectedFacts
  <2> QED BY <1>6, <2>1, <2>2 DEF MessageReceived
<1>7. ASSUME u = s PROVE Keeps(u, s)
  BY <1>7 DEF Keeps
<1>8. CASE frame = "BAD"
  <2>1. u = BrokerDisconnected(s, TRUE)
    BY <1>8 DEF Dispatch
  <2> QED BY <1>1, <1>2, <2>1, DisconnectedFacts
<1>9. CASE frame # "BAD"
  <2>1. \/ u = AckReceived(s) \/ u = ConnectComplete(s, frame = "CONNACK", ok)
        \/ u = [s EXCEPT !.op = "none", !.subscribed = TRUE]
        \/ u = MessageReceived(s, ok) \/ u = s
    BY <1>9 DEF Dispatch
  <2>2. (frame = "CONNACK") \in BOOLEAN
    OBVIOUS
  <2> QED BY <1>3, <1>4, <1>5, <1>6, <1>7, <1>9, <2>1, <2>2
<1> QED BY <1>8, <1>9

-----------------------------------------------------------------------------
\* The loop of processData.

Turns(f, bytes, ok, m) ==
    f = [k \in 0..m |-> IF k = 0 THEN [used |-> 0, given |-> dispatched, s |-> st]
                        ELSE LoopTurn(f[k - 1], bytes, ok)]

LEMMA TurnsExist ==
    ASSUME NEW bytes, NEW ok, NEW m \in Nat
    PROVE  \E f : Turns(f, bytes, ok, m)
<1> DEFINE B == {k \in Nat : ~\E f : Turns(f, bytes, ok, k)}
<1>1. SUFFICES ASSUME B # {} PROVE FALSE
  OBVIOUS
<1>2. PICK b \in B : \A k \in B : b <= k
  <2>1. B \subseteq Nat
    OBVIOUS
  <2> HIDE DEF B
  <2> QED BY <1>1, <2>1, LeastNumber
<1>3. b \in Nat /\ ~\E f : Turns(f, bytes, ok, b)
  BY <1>2
<1>0. PICK x : x = [used |-> 0, given |-> dispatched, s |-> st]
  OBVIOUS
<1>4. CASE b = 0
  <2> DEFINE f == [k \in 0..0 |-> x]
  <2>1. f = [k \in 0..0 |-> IF k = 0 THEN x ELSE LoopTurn(f[k - 1], bytes, ok)]
    OBVIOUS
  <2>2. Turns(f, bytes, ok, 0)
    BY <1>0, <2>1 DEF Turns
  <2> QED BY <1>3, <1>4, <2>2
<1>5. CASE b # 0
  <2>1. b - 1 \in Nat /\ b - 1 \notin B
    BY <1>2, <1>3, <1>5
  <2>2. PICK g : Turns(g, bytes, ok, b - 1)
    BY <2>1
  <2>3. PICK y : y = LoopTurn(g[b - 1], bytes, ok)
    OBVIOUS
  <2>4. \A k \in 0..(b - 1) : g[k] = IF k = 0 THEN x ELSE LoopTurn(g[k - 1], bytes, ok)
    BY <1>0, <2>2 DEF Turns
  <2> DEFINE f == [k \in 0..b |-> IF k = b THEN y ELSE g[k]]
  <2>5. ASSUME NEW k \in 0..b
        PROVE  f[k] = IF k = 0 THEN x ELSE LoopTurn(f[k - 1], bytes, ok)
    <3>1. CASE k = b
      <4>1. f[k] = y /\ f[k - 1] = g[k - 1]
        BY <1>3, <1>5, <3>1
      <4> QED BY <1>5, <2>3, <3>1, <4>1
    <3>2. CASE k # b
      <4>1. k \in 0..(b - 1) /\ f[k] = g[k] /\ (k # 0 => f[k - 1] = g[k - 1])
        BY <1>3, <3>2
      <4> HIDE DEF f
      <4> QED BY <2>4, <4>1
    <3> QED BY <3>1, <3>2
  <2>6. f = [k \in 0..b |-> IF k = 0 THEN x ELSE LoopTurn(f[k - 1], bytes, ok)]
    <3> HIDE DEF f
    <3>1. f = [k \in 0..b |-> f[k]]
      BY DEF f
    <3> QED BY <2>5, <3>1
  <2>7. Turns(f, bytes, ok, b)
    BY <1>0, <2>6 DEF Turns
  <2> QED BY <1>3, <2>7
<1> QED BY <1>4, <1>5

LEMMA ProcessTurns ==
    ASSUME NEW bytes, NEW ok, Len(bytes) \in Nat, ~st.netDown
    PROVE  \E f : Turns(f, bytes, ok, Len(bytes)) /\ ProcessData(bytes, ok) = f[Len(bytes)]
<1>1. PICK m : m = Len(bytes)
  OBVIOUS
<1> DEFINE c == CHOOSE f : Turns(f, bytes, ok, m)
<1>2. Turns(c, bytes, ok, m)
  <2>1. \E f : Turns(f, bytes, ok, m)
    BY <1>1, TurnsExist
  <2> QED BY <2>1
<1>3. ProcessData(bytes, ok) = c[m]
  BY <1>1 DEF ProcessData, Turns
<1> QED BY <1>1, <1>2, <1>3

\* The first j frames, none of them broken.
Sound(j) == j \in 0..Len(stream) /\ \A k \in 1..j : stream[k] # "BAD"
UpTo(j) == [k \in 1..j |-> k]
Bytes(from, to) == [k \in 1..(to - from) |-> from + k]

\* Of the first r bytes, no frame after the first j is complete.
Whole(j, r) == j < Len(stream) /\ stream[j + 1] # "BAD" => r < EndOf[j + 1]

\* The loop over the bytes from behind frame i up to r has read up to frame j.
ReadUpTo(l, i, r, j) ==
    /\ Sound(j) /\ i <= j /\ EndOf[j] <= r
    /\ l.used = EndOf[j] - EndOf[i] /\ l.given = UpTo(j)

\* It has met a broken frame behind frame j.
BrokenAt(l, r, m, j) ==
    /\ Sound(j) /\ j < Len(stream) /\ stream[j + 1] = "BAD" /\ EndOf[j] <= r
    /\ l.used = m /\ l.given = UpTo(j + 1) /\ l.s.stopped

InLoop(l, i, r, m, k) ==
    /\ Fine(l.s)
    /\ \/ \E j \in 0..Len(stream) : ReadUpTo(l, i, r, j) /\ (Whole(j, r) \/ j >= i + k)
       \/ \E j \in 0..Len(stream) : BrokenAt(l, r, m, j)

LEMMA UpToAppend ==
    ASSUME NEW j \in Nat
    PROVE  Append(UpTo(j), j + 1) = UpTo(j + 1) /\ UpTo(j) \in Seq(Nat) /\ Len(UpTo(j)) = j
  BY DEF UpTo

\* The frame behind the first j.
LEMMA FrameBehind ==
    ASSUME StreamOK, NEW j \in 0..Len(stream), j < Len(stream)
    PROVE  FrameAt(EndOf[j] + 1) = {j + 1}
<1>1. j + 1 \in DOMAIN stream /\ (j + 1) - 1 = j
  BY EndFacts
<1>2. ASSUME NEW i \in DOMAIN stream, EndOf[i - 1] + 1 = EndOf[j] + 1 PROVE i = j + 1
  <2>1. i - 1 \in 0..Len(stream) /\ EndOf[i - 1] \in Nat /\ EndOf[j] \in Nat /\ i \in Nat /\ j \in Nat
    <3>1. Len(stream) \in Nat /\ i \in 1..Len(stream)
      BY EndFacts
    <3>2. i - 1 \in 0..Len(stream) /\ i \in Nat /\ j \in Nat
      BY <3>1
    <3> QED BY <3>2, EndFacts
  <2>2. EndOf[i - 1] = EndOf[j]
    BY <1>2, <2>1
  <2>3. i - 1 <= j => EndOf[i - 1] + (j - (i - 1)) <= EndOf[j]
    BY <2>1, EndFacts
  <2>4. j <= i - 1 => EndOf[j] + ((i - 1) - j) <= EndOf[i - 1]
    BY <2>1, EndFacts
  <2> QED BY <2>1, <2>2, <2>3, <2>4
<1> QED BY <1>1, <1>2 DEF FrameAt

LEMMA TurnStep ==
    ASSUME StreamOK, NEW i \in 0..Len(stream), NEW r \in Nat, EndOf[i] <= r, r <= EndOf[Len(stream)],
           NEW bytes, bytes = Bytes(EndOf[i], r), NEW m, m = r - EndOf[i], NEW ok \in BOOLEAN,
           NEW k \in Nat, NEW l, InLoop(l, i, r, m, k), NEW u, u = LoopTurn(l, bytes, ok)
    PROVE  InLoop(u, i, r, m, k + 1)
<1>0. /\ Len(stream) \in Nat /\ DOMAIN stream = 1..Len(stream)
      /\ \A n \in 0..Len(stream) : EndOf[n] \in Nat /\ n \in Nat
  BY EndFacts
<1>1. m \in Nat /\ Len(bytes) = m /\ \A n \in 1..m : bytes[n] = EndOf[i] + n
  <2>1. m \in Nat /\ EndOf[i] \in Nat
    BY <1>0
  <2>2. bytes \in [1..m -> Nat]
    BY <2>1 DEF Bytes
  <2>3. Len(bytes) = m
    BY <2>1, <2>2
  <2> QED BY <2>1, <2>3 DEF Bytes
<1>2. ASSUME NEW j \in 0..Len(stream), BrokenAt(l, r, m, j) PROVE InLoop(u, i, r, m, k + 1)
  <2>1. l.used = m
    BY <1>2 DEF BrokenAt
  <2>2. ~(Len(bytes) - l.used > 1)
    BY <1>1, <2>1
  <2>3. u = l
    BY <2>2 DEF LoopTurn
  <2> QED BY <1>2, <2>3 DEF InLoop
<1>3. ASSUME NEW j \in 0..Len(stream), ReadUpTo(l, i, r, j), Whole(j, r) \/ j >= i + k
      PROVE  InLoop(u, i, r, m, k + 1)
  <2>0. /\ Sound(j) /\ i <= j /\ EndOf[j] <= r /\ l.used = EndOf[j] - EndOf[i] /\ l.given = UpTo(j)
        /\ Fine(l.s)
    BY <1>3 DEF ReadUpTo, InLoop
  <2>1. /\ EndOf[i] \in Nat /\ EndOf[j] \in Nat /\ EndOf[i] + (j - i) <= EndOf[j] /\ j \in Nat /\ i \in Nat
        /\ l.used \in Nat
    <3>1. EndOf[i] + (j - i) <= EndOf[j]
      BY <2>0, EndFacts
    <3>2. EndOf[i] \in Nat /\ EndOf[j] \in Nat /\ j \in Nat /\ i \in Nat
      BY <1>0, Zenon
    <3>3. EndOf[i] <= EndOf[j]
      <4>1. PICK a, b : a = EndOf[i] /\ b = EndOf[j]
        OBVIOUS
      <4>2. a \in Nat /\ b \in Nat /\ a + (j - i) <= b
        BY <3>1, <3>2, <4>1, Zenon
      <4>3. a <= b
        BY <2>0, <3>2, <4>2
      <4> QED BY <4>1, <4>3
    <3>4. l.used \in Nat
      BY <2>0, <3>2, <3>3, Difference
    <3> QED BY <3>1, <3>2, <3>4
  <2>2. Len(bytes) - l.used = r - EndOf[j]
    <3>1. PICK a, b, c : a = EndOf[i] /\ b = EndOf[j] /\ c = Len(bytes)
      OBVIOUS
    <3>2. a \in Nat /\ b \in Nat /\ c = r - a /\ l.used = b - a
      BY <1>1, <2>0, <2>1, <3>1, Zenon
    <3>3. c - l.used = r - b
      BY <3>2, Minus
    <3> QED BY <3>1, <3>3, Zenon
  <2>3. ASSUME u = l, Whole(j, r) PROVE InLoop(u, i, r, m, k + 1)
    BY <1>3, <2>0, <2>3 DEF InLoop
  <2>4. CASE ~(Len(bytes) - l.used > 1)
    <3>1. u = l
      BY <2>4 DEF LoopTurn
    <3>2. Whole(j, r)
      <4> SUFFICES ASSUME j < Len(stream) PROVE r < EndOf[j + 1]
        BY DEF Whole
      <4>1. j + 1 \in 1..Len(stream) /\ (j + 1) - 1 = j
        BY <1>0, <2>1
      <4>2. EndOf[j + 1] = EndOf[j] + Size[stream[j + 1]] /\ Size[stream[j + 1]] > 1 /\ Size[stream[j + 1]] \in Nat
        BY <4>1, EndFacts
      <4> QED BY <2>1, <2>2, <2>4, <4>2
    <3> QED BY <2>3, <3>1, <3>2
  <2>5. CASE Len(bytes) - l.used > 1
    <3>1. j < Len(stream)
      BY <1>0, <2>1, <2>2, <2>5
    <3>2. PICK q : q = j + 1
      OBVIOUS
    <3>3. q \in 1..Len(stream) /\ q \in 0..Len(stream) /\ q - 1 = j
      BY <1>0, <2>1, <3>1, <3>2
    <3>4. EndOf[q] = EndOf[j] + Size[stream[q]] /\ Size[stream[q]] > 1 /\ Size[stream[q]] \in Nat
      BY <3>3, EndFacts
    <3>5. bytes[l.used + 1] = EndOf[j] + 1
      <4>1. PICK x : x = l.used /\ x \in Nat
        BY <2>1
      <4>2. Len(bytes) = m /\ m \in Nat
        BY <1>1
      <4>3. m - x > 1
        BY <2>5, <4>1, <4>2, Zenon
      <4>4. x + 1 \in 1..m
        BY <4>1, <4>2, <4>3, Inside
      <4>5. bytes[x + 1] = EndOf[i] + (x + 1)
        BY <1>1, <4>4
      <4>6. x = EndOf[j] - EndOf[i]
        BY <2>0, <4>1, Zenon
      <4>7. EndOf[i] + (x + 1) = EndOf[j] + 1
        <5>1. PICK a, b : a = EndOf[i] /\ b = EndOf[j]
          OBVIOUS
        <5>2. a \in Nat /\ b \in Nat /\ x = b - a
          BY <2>1, <4>6, <5>1, Zenon
        <5>3. a + (x + 1) = b + 1
          BY <5>2
        <5> QED BY <5>1, <5>3
      <4> QED BY <4>1, <4>5, <4>7
    <3>6. FrameAt(bytes[l.used + 1]) = {q}
      BY <3>1, <3>2, <3>5, FrameBehind
    <3>7. (CHOOSE n \in {q} : TRUE) = q
      OBVIOUS
    <3>8. u = CASE stream[q] = "BAD" ->
                     [used |-> Len(bytes), given |-> Append(l.given, q), s |-> Dispatch(l.s, "BAD", ok)]
                [] stream[q] # "BAD" /\ ~Complete(bytes, l.used, q) -> l
                [] stream[q] # "BAD" /\ Complete(bytes, l.used, q) ->
                     [used |-> l.used + Size[stream[q]], given |-> Append(l.given, q),
                      s |-> Dispatch(l.s, stream[q], ok)]
      BY <2>5, <3>6, <3>7 DEF LoopTurn
    <3>9. Append(l.given, q) = UpTo(q)
      BY <2>0, <2>1, <3>2, UpToAppend
    <3>10. CASE stream[q] = "BAD"
      <4>1. u.used = m /\ u.given = UpTo(q) /\ u.s = Dispatch(l.s, "BAD", ok)
        BY <1>1, <3>8, <3>9, <3>10
      <4>2. Fine(u.s) /\ u.s.stopped
        BY <2>0, <4>1, DispatchFacts DEF Keeps
      <4>3. BrokenAt(u, r, m, j)
        BY <2>0, <3>1, <3>2, <3>10, <4>1, <4>2 DEF BrokenAt
      <4> QED BY <4>2, <4>3 DEF InLoop
    <3>11. CASE stream[q] # "BAD" /\ ~Complete(bytes, l.used, q)
      <4>1. u = l
        BY <3>8, <3>11
      <4>2. r < EndOf[q]
        BY <2>1, <2>2, <3>4, <3>11 DEF Complete
      <4>3. Whole(j, r)
        BY <3>2, <4>2 DEF Whole
      <4> QED BY <2>3, <4>1, <4>3
    <3>12. CASE stream[q] # "BAD" /\ Complete(bytes, l.used, q)
      <4>1. u.used = l.used + Size[stream[q]] /\ u.given = UpTo(q) /\ u.s = Dispatch(l.s, stream[q], ok)
        BY <3>8, <3>9, <3>12
      <4>2. Fine(u.s)
        BY <2>0, <4>1, DispatchFacts DEF Keeps
      <4>3. EndOf[q] <= r
        BY <2>1, <2>2, <3>4, <3>12 DEF Complete
      <4>4. Sound(q)
        <5>1. \A n \in 1..q : n \in 1..j \/ n = q
          BY <2>1, <3>2
        <5> QED BY <2>0, <3>3, <3>12, <5>1 DEF Sound
      <4>5. ReadUpTo(u, i, r, q)
        <5>0. i <= q
          BY <2>0, <2>1, <3>2
        <5>1. u.used = EndOf[q] - EndOf[i] /\ i <= q
          <6>1. u.used = l.used + Size[stream[q]]
            BY <4>1
          <6>2. PICK a, b, c, d : a = EndOf[i] /\ b = EndOf[j] /\ c = EndOf[q] /\ d = Size[stream[q]]
            OBVIOUS
          <6>3. a \in Nat /\ b \in Nat /\ d \in Nat /\ c = b + d /\ l.used = b - a
            BY <2>0, <2>1, <3>4, <6>2, Zenon
          <6>4. l.used + d = c - a
            BY <6>3
          <6> QED BY <5>0, <6>1, <6>2, <6>4
        <5> QED BY <4>1, <4>3, <4>4, <5>1 DEF ReadUpTo
      <4>6. ~Whole(j, r)
        BY <1>0, <3>1, <3>2, <3>3, <3>12, <4>3 DEF Whole
      <4>7. q >= i + (k + 1)
        BY <1>3, <2>1, <3>2, <4>6
      <4> QED BY <3>3, <4>2, <4>5, <4>7 DEF InLoop
    <3> QED BY <3>10, <3>11, <3>12
  <2> QED BY <2>4, <2>5
<1> QED BY <1>2, <1>3 DEF InLoop

\* processData, called with what is behind frame i.
LEMMA ProcessFacts ==
    ASSUME StreamOK, NEW i \in 0..Len(stream), Sound(i), NEW r \in Nat, EndOf[i] <= r,
           r <= EndOf[Len(stream)], NEW bytes, bytes = Bytes(EndOf[i], r), NEW ok \in BOOLEAN,
           Fine(st), ~st.netDown, dispatched = UpTo(i), NEW l, l = ProcessData(bytes, ok)
    PROVE  /\ Fine(l.s)
           /\ \/ \E j \in 0..Len(stream) : ReadUpTo(l, i, r, j) /\ Whole(j, r)
              \/ \E j \in 0..Len(stream) : BrokenAt(l, r, r - EndOf[i], j)
<1>0. /\ Len(stream) \in Nat
      /\ \A n \in 0..Len(stream) : EndOf[n] \in Nat /\ n \in Nat
  <2>1. Len(stream) \in Nat /\ \A n \in 0..Len(stream) : EndOf[n] \in Nat
    BY EndFacts, Zenon
  <2>2. \A n \in 0..Len(stream) : n \in Nat
    BY <2>1, SMT
  <2> QED BY <2>1, <2>2, Zenon
<1>1. PICK m : m = r - EndOf[i]
  OBVIOUS
<1>2. m \in Nat /\ Len(bytes) = m
  <2>1. m \in Nat /\ EndOf[i] \in Nat
    BY <1>0, <1>1
  <2>2. bytes \in [1..m -> Nat]
    BY <1>1, <2>1 DEF Bytes
  <2> QED BY <2>1, <2>2
<1>3. PICK f : Turns(f, bytes, ok, m) /\ l = f[m]
  BY <1>2, ProcessTurns
<1>4. /\ f[0] = [used |-> 0, given |-> dispatched, s |-> st]
      /\ \A k \in 1..m : f[k] = LoopTurn(f[k - 1], bytes, ok)
  <2>1. \A k \in 0..m : f[k] = IF k = 0 THEN [used |-> 0, given |-> dispatched, s |-> st]
                               ELSE LoopTurn(f[k - 1], bytes, ok)
    BY <1>3 DEF Turns
  <2>2. 0 \in 0..m /\ \A k \in 1..m : k \in 0..m /\ k # 0
    BY <1>2
  <2> QED BY <2>1, <2>2
<1>5. InLoop(f[0], i, r, m, 0)
  <2>1. f[0].used = 0 /\ f[0].given = dispatched /\ f[0].s = st
    BY <1>4
  <2>2. i <= i /\ 0 = EndOf[i] - EndOf[i] /\ i >= i + 0
    BY <1>0
  <2>3. ReadUpTo(f[0], i, r, i)
    BY <2>1, <2>2 DEF ReadUpTo
  <2> QED BY <2>1, <2>2, <2>3 DEF InLoop
<1>6. ASSUME NEW k \in 1..m, InLoop(f[k - 1], i, r, m, k - 1) PROVE InLoop(f[k], i, r, m, k)
  <2>1. PICK a, b, c : a = f[k - 1] /\ b = f[k] /\ c = k - 1
    OBVIOUS
  <2>2. c \in Nat /\ c + 1 = k /\ b = LoopTurn(a, bytes, ok)
    BY <1>2, <1>4, <2>1
  <2>3. InLoop(a, i, r, m, c)
    BY <1>6, <2>1
  <2>4. InLoop(b, i, r, m, c + 1)
    BY <1>1, <2>2, <2>3, TurnStep
  <2> QED BY <2>1, <2>2, <2>4
<1>7. InLoop(f[m], i, r, m, m)
  <2> DEFINE B == {k \in 0..m : ~InLoop(f[k], i, r, m, k)}
  <2>1. SUFFICES ASSUME B # {} PROVE FALSE
    BY <1>2
  <2>2. PICK b \in B : \A k \in B : b <= k
    <3>1. B \subseteq Nat
      BY <1>2
    <3> HIDE DEF B
    <3> QED BY <2>1, <3>1, LeastNumber
  <2>3. b \in 0..m /\ ~InLoop(f[b], i, r, m, b) /\ b # 0
    BY <1>5, <2>2
  <2>4. b \in 1..m /\ b - 1 \in 0..m /\ b - 1 \notin B
    BY <1>2, <2>2, <2>3
  <2>5. InLoop(f[b - 1], i, r, m, b - 1)
    BY <2>4
  <2> QED BY <1>6, <2>3, <2>4, <2>5
<1>8. ASSUME NEW j \in 0..Len(stream), ReadUpTo(l, i, r, j), j >= i + m PROVE Whole(j, r)
  <2> SUFFICES ASSUME j < Len(stream) PROVE r < EndOf[j + 1]
    BY DEF Whole
  <2>1. i <= j /\ EndOf[j] <= r
    BY <1>8 DEF ReadUpTo
  <2>2. EndOf[i] + (j - i) <= EndOf[j]
    BY <2>1, EndFacts
  <2>3. PICK q : q = j + 1
    OBVIOUS
  <2>4. q \in 1..Len(stream) /\ q - 1 = j /\ q \in 0..Len(stream)
    BY <1>0, <2>3
  <2>5. EndOf[q] = EndOf[j] + Size[stream[q]] /\ Size[stream[q]] > 1 /\ Size[stream[q]] \in Nat
    BY <2>4, EndFacts
  <2>6. EndOf[i] \in Nat /\ EndOf[j] \in Nat /\ i \in Nat /\ j \in Nat
    BY <1>0
  <2>7. r <= EndOf[j]
    BY <1>1, <1>2, <1>8, <2>2, <2>6
  <2> QED BY <2>3, <2>5, <2>6, <2>7
<1> QED BY <1>1, <1>3, <1>7, <1>8 DEF InLoop

-----------------------------------------------------------------------------
\* The inductive invariant.

\* The client has the first j frames and the buffer holds what is behind them.
Reading(j) ==
    /\ Sound(j) /\ EndOf[j] <= received /\ Whole(j, received)
    /\ dispatched = UpTo(j) /\ buf = Bytes(EndOf[j], received)

\* The client has met the broken frame behind the first j, and has stopped.
Broken(j) ==
    /\ Sound(j) /\ j < Len(stream) /\ stream[j + 1] = "BAD" /\ EndOf[j] <= received
    /\ dispatched = UpTo(j + 1) /\ buf = <<>> /\ st.stopped

AppInv ==
    /\ StreamOK /\ received \in Nat /\ received <= EndOf[Len(stream)]
    /\ Fine(st)
    /\ \E j \in 0..Len(stream) : Reading(j) \/ Broken(j)
    /\ SuccessIsAcked

LEMMA InitInv == ASSUME Init PROVE AppInv
<1>1. /\ stream \in Streams /\ phase = "new" /\ received = 0 /\ buf = <<>> /\ dispatched = <<>>
      /\ \E valid \in BOOLEAN : st = [Start0 EXCEPT !.valid = valid]
  BY DEF Init
<1>2. StreamOK
  BY <1>1, ProgramAssumption DEF StreamOK
<1>3. /\ Len(stream) \in Nat /\ EndOf[0] = 0
      /\ \A n \in 0..Len(stream) : EndOf[n] \in Nat /\ n \in Nat
  BY <1>2, EndFacts
<1>4. received \in Nat /\ received <= EndOf[Len(stream)]
  <2>1. Len(stream) \in 0..Len(stream)
    BY <1>3
  <2>2. EndOf[Len(stream)] \in Nat
    BY <1>3, <2>1
  <2> QED BY <1>1, <2>2
<1>5. Fine(st)
  <2>1. PICK valid \in BOOLEAN : st = [Start0 EXCEPT !.valid = valid]
    BY <1>1
  <2>2. Start0 \in StType /\ Start0.netDown = FALSE /\ Start0.stopped = FALSE
    BY DEF Start0, StType
  <2>3. st \in StType /\ st.netDown = FALSE /\ st.stopped = FALSE
    BY <2>1, <2>2 DEF StType
  <2> QED BY <2>3 DEF Fine
<1>6. Reading(0)
  <2>1. Sound(0) /\ EndOf[0] <= received
    BY <1>1, <1>3 DEF Sound
  <2>2. Whole(0, received)
    <3> SUFFICES ASSUME 0 < Len(stream) PROVE received < EndOf[0 + 1]
      BY DEF Whole
    <3>1. 1 \in 1..Len(stream) /\ 1 - 1 = 0
      BY <1>3
    <3>2. EndOf[1] = EndOf[0] + Size[stream[1]] /\ Size[stream[1]] > 1 /\ Size[stream[1]] \in Nat
      BY <1>2, <3>1, EndFacts
    <3> QED BY <1>1, <1>3, <3>2
  <2>3. dispatched = UpTo(0) /\ buf = Bytes(EndOf[0], received)
    BY <1>1, <1>3 DEF UpTo, Bytes
  <2> QED BY <2>1, <2>2, <2>3 DEF Reading
<1>7. SuccessIsAcked
  BY <1>1 DEF SuccessIsAcked
<1> QED BY <1>2, <1>3, <1>4, <1>5, <1>6, <1>7 DEF AppInv

LEMMA SameStream ==
    ASSUME stream' = stream
    PROVE  /\ EndOf' = EndOf
           /\ StreamOK' <=> StreamOK
           /\ \A j : Sound(j)' <=> Sound(j)
           /\ \A j, r : Whole(j, r)' <=> Whole(j, r)
<1>1. EndOf' = EndOf
  BY DEF EndOf
<1> QED BY <1>1 DEF StreamOK, Sound, Whole

\* A step that reads nothing.
LEMMA StStep ==
    ASSUME AppInv, UNCHANGED <<program, stream, received, buf, dispatched>>, Keeps(st', st), SuccessIsAcked'
    PROVE  AppInv'
<1>1. /\ program' = program /\ stream' = stream /\ received' = received /\ buf' = buf
      /\ dispatched' = dispatched
  OBVIOUS
<1>2. /\ EndOf' = EndOf /\ (StreamOK' <=> StreamOK) /\ \A j : Sound(j)' <=> Sound(j)
      /\ \A j, r : Whole(j, r)' <=> Whole(j, r)
  BY <1>1, SameStream
<1>3. Fine(st)'
  BY <1>1 DEF Keeps, Fine
<1>4. ASSUME NEW j \in 0..Len(stream), Reading(j) \/ Broken(j) PROVE (Reading(j) \/ Broken(j))'
  <2>1. CASE Reading(j)
    <3>1. Whole(j, received)'
      BY <1>1, <2>1 DEF Whole, Reading, EndOf
    <3> QED BY <1>1, <1>2, <2>1, <3>1 DEF Reading
  <2>2. CASE Broken(j)
    <3>1. st'.stopped
      BY <2>2 DEF Broken, Keeps
    <3> QED BY <1>1, <1>2, <2>2, <3>1 DEF Broken
  <2> QED BY <1>4, <2>1, <2>2
<1>5. (\E j \in 0..Len(stream) : Reading(j) \/ Broken(j))'
  BY <1>1, <1>4 DEF AppInv
<1> QED BY <1>1, <1>2, <1>3, <1>5 DEF AppInv

LEMMA RestBytes ==
    ASSUME NEW a \in Nat, NEW b \in Nat, NEW r \in Nat, a <= b, b <= r
    PROVE  SubSeq(Bytes(a, r), (b - a) + 1, r - a) = Bytes(b, r)
  BY DEF Bytes

LEMMA MoreBytes ==
    ASSUME NEW a \in Nat, NEW r \in Nat, NEW n \in Nat, a <= r
    PROVE  Bytes(a, r) \o [k \in 1..n |-> r + k] = Bytes(a, r + n)
<1>1. PICK x, y, z : x = Bytes(a, r) /\ y = [k \in 1..n |-> r + k] /\ z = Bytes(a, r + n)
  OBVIOUS
<1>2. x \in Seq(Nat) /\ Len(x) = r - a /\ \A k \in 1..(r - a) : x[k] = a + k
  BY <1>1 DEF Bytes
<1>3. y \in Seq(Nat) /\ Len(y) = n /\ \A k \in 1..n : y[k] = r + k
  BY <1>1
<1>4. z \in Seq(Nat) /\ Len(z) = (r + n) - a /\ \A k \in 1..((r + n) - a) : z[k] = a + k
  BY <1>1 DEF Bytes
<1>5. x \o y \in Seq(Nat) /\ Len(x \o y) = Len(x) + Len(y)
  BY <1>2, <1>3, ConcatProperties
<1>6. \A k \in 1..(Len(x) + Len(y)) : (x \o y)[k] = IF k <= Len(x) THEN x[k] ELSE y[k - Len(x)]
  BY <1>2, <1>3, ConcatProperties
<1>7. PICK p, q : p = r - a /\ q = (r + n) - a
  OBVIOUS
<1>8. p \in Nat /\ q \in Nat /\ q = p + n /\ a + p = r
  BY <1>7
<1>9. Len(x) = p /\ Len(y) = n /\ Len(z) = q /\ Len(x \o y) = q
  BY <1>2, <1>3, <1>4, <1>5, <1>7, <1>8
<1>10. ASSUME NEW k \in 1..q PROVE (x \o y)[k] = z[k]
  <2>1. (x \o y)[k] = IF k <= p THEN x[k] ELSE y[k - p]
    BY <1>6, <1>8, <1>9
  <2>2. z[k] = a + k
    BY <1>4, <1>7
  <2>3. CASE k <= p
    <3>1. k \in 1..p
      BY <1>8, <2>3
    <3> QED BY <1>2, <1>7, <2>1, <2>2, <2>3, <3>1
  <2>4. CASE ~(k <= p)
    <3>1. k - p \in 1..n /\ r + (k - p) = a + k
      BY <1>8, <2>4
    <3> QED BY <1>3, <2>1, <2>2, <2>4, <3>1
  <2> QED BY <2>3, <2>4
<1>11. x \o y = z
  BY <1>4, <1>5, <1>9, <1>10, SeqEqual
<1> QED BY <1>1, <1>11

-----------------------------------------------------------------------------
\* The steps.

\* A handler runs: the client reads, and knows of no broken frame.
LEMMA HandlerReads ==
    ASSUME AppInv, Handler
    PROVE  /\ Fine(st) /\ ~st.netDown /\ phase = "running"
           /\ \E j \in 0..Len(stream) : Reading(j)
<1>1. Fine(st) /\ phase = "running" /\ ~st.stopped
  BY DEF AppInv, Handler
<1>2. ~st.netDown
  BY <1>1 DEF Fine
<1>3. \E j \in 0..Len(stream) : Reading(j)
  BY <1>1 DEF AppInv, Broken
<1> QED BY <1>1, <1>2, <1>3

LEMMA ReadInv == ASSUME AppInv, Read PROVE AppInv'
<1>1. PICK n \in 1..MaxRead, ok \in BOOLEAN :
        Handler /\ ReadSome(n, ok) /\ UNCHANGED <<program, stream, phase>>
  BY DEF Read
<1>2. program' = program /\ stream' = stream /\ phase' = phase
  BY <1>1
<1>3. PICK i \in 0..Len(stream) : Reading(i)
  BY <1>1, HandlerReads
<1>4. Fine(st) /\ ~st.netDown /\ phase = "running"
  BY <1>1, HandlerReads
<1>5. StreamOK /\ received \in Nat
  BY DEF AppInv
<1>6. PICK r : r = received + n
  OBVIOUS
<1>7. PICK bytes : bytes = buf \o [k \in 1..n |-> received + k]
  OBVIOUS
<1>8. PICK l : l = ProcessData(bytes, ok)
  OBVIOUS
<1>9. /\ r <= EndOf[Len(stream)] /\ received' = r
      /\ buf' = Rest(bytes, [k \in 1..n |-> received + k], l.used)
      /\ dispatched' = l.given /\ st' = l.s
  BY <1>1, <1>6, <1>7, <1>8 DEF ReadSome
<1>10. /\ Len(stream) \in Nat
       /\ \A k \in 0..Len(stream) : EndOf[k] \in Nat /\ k \in Nat
  BY <1>5, EndFacts
<1>11. n \in Nat /\ r \in Nat /\ received <= r
  BY <1>5, <1>6, ProgramAssumption
<1>12. /\ Sound(i) /\ EndOf[i] <= received /\ dispatched = UpTo(i)
       /\ buf = Bytes(EndOf[i], received)
  BY <1>3 DEF Reading
<1>13. EndOf[i] \in Nat /\ EndOf[i] <= r
  BY <1>5, <1>10, <1>11, <1>12
<1>14. bytes = Bytes(EndOf[i], r)
  BY <1>5, <1>6, <1>7, <1>11, <1>12, <1>13, MoreBytes
<1>15. PICK m : m = r - EndOf[i]
  OBVIOUS
<1>16. m \in Nat /\ Len(bytes) = m
  <2>1. m \in Nat
    BY <1>11, <1>13, <1>15
  <2>2. bytes \in [1..m -> Nat]
    BY <1>13, <1>14, <1>15 DEF Bytes
  <2> QED BY <2>1, <2>2
<1>17. buf' = SubSeq(bytes, l.used + 1, m)
  BY <1>9, <1>16 DEF Rest
<1>18. /\ Fine(l.s)
       /\ \/ \E j \in 0..Len(stream) : ReadUpTo(l, i, r, j) /\ Whole(j, r)
          \/ \E j \in 0..Len(stream) : BrokenAt(l, r, r - EndOf[i], j)
  BY <1>4, <1>5, <1>8, <1>9, <1>11, <1>12, <1>13, <1>14, ProcessFacts
<1>19. /\ EndOf' = EndOf /\ (StreamOK' <=> StreamOK) /\ \A j : Sound(j)' <=> Sound(j)
  BY <1>2, SameStream
<1>20. ASSUME NEW j \in 0..Len(stream), ReadUpTo(l, i, r, j), Whole(j, r) PROVE Reading(j)'
  <2>1. Sound(j) /\ i <= j /\ EndOf[j] <= r /\ l.used = EndOf[j] - EndOf[i] /\ l.given = UpTo(j)
    BY <1>20 DEF ReadUpTo
  <2>2. EndOf[i] + (j - i) <= EndOf[j] /\ EndOf[j] \in Nat
    BY <1>5, <2>1, EndFacts
  <2>3. EndOf[i] <= EndOf[j]
    BY <1>10, <1>13, <2>1, <2>2
  <2>4. buf' = Bytes(EndOf[j], r)
    <3>1. SubSeq(Bytes(EndOf[i], r), (EndOf[j] - EndOf[i]) + 1, r - EndOf[i]) = Bytes(EndOf[j], r)
      BY <1>11, <1>13, <2>1, <2>2, <2>3, RestBytes
    <3> QED BY <1>14, <1>15, <1>17, <2>1, <3>1
  <2>5. Whole(j, received)'
    BY <1>2, <1>9, <1>19, <1>20 DEF Whole
  <2> QED BY <1>9, <1>19, <2>1, <2>4, <2>5 DEF Reading, UpTo, Bytes
<1>21. ASSUME NEW j \in 0..Len(stream), BrokenAt(l, r, r - EndOf[i], j) PROVE Broken(j)'
  <2>1. /\ Sound(j) /\ j < Len(stream) /\ stream[j + 1] = "BAD" /\ EndOf[j] <= r
        /\ l.used = m /\ l.given = UpTo(j + 1) /\ l.s.stopped
    BY <1>15, <1>21 DEF BrokenAt
  <2>2. buf' = <<>>
    <3>1. SubSeq(bytes, m + 1, m) = <<>>
      BY <1>16
    <3> QED BY <1>17, <2>1, <3>1
  <2> QED BY <1>2, <1>9, <1>19, <2>1, <2>2 DEF Broken, UpTo
<1>22. (\E j \in 0..Len(stream) : Reading(j) \/ Broken(j))'
  BY <1>2, <1>18, <1>20, <1>21
<1>23. Fine(st)'
  BY <1>2, <1>9, <1>18 DEF Fine
<1>24. SuccessIsAcked'
  BY <1>2, <1>4 DEF SuccessIsAcked
<1>25. (received \in Nat /\ received <= EndOf[Len(stream)])'
  BY <1>2, <1>9, <1>11, <1>19
<1> QED BY <1>5, <1>19, <1>22, <1>23, <1>24, <1>25 DEF AppInv

\* The steps of the event loop that read nothing.
LEMMA HandlerStep ==
    ASSUME AppInv, Handler, OnlyProgram, Keeps(st', st)
    PROVE  AppInv'
<1>1. SuccessIsAcked'
  BY DEF Handler, OnlyProgram, SuccessIsAcked
<1> QED BY <1>1, StStep DEF OnlyProgram

LEMMA ReadFailsInv == ASSUME AppInv, ReadFails PROVE AppInv'
<1>1. Handler /\ OnlyProgram /\ Fine(st) /\ st' = NetworkLost(st)
  BY DEF ReadFails, AppInv
<1>2. Keeps(st', st)
  BY <1>1, NetworkLostFacts
<1> QED BY <1>1, <1>2, HandlerStep

LEMMA ResponseTimeoutInv == ASSUME AppInv, ResponseTimeout PROVE AppInv'
<1>1. Handler /\ OnlyProgram /\ Fine(st) /\ st \in StType
  BY DEF ResponseTimeout, AppInv, Fine
<1>2. CASE st' = Failed(st)
  <2>1. Keeps(st', st)
    BY <1>1, <1>2, FailedFacts DEF Keeps
  <2> QED BY <1>1, <2>1, HandlerStep
<1>3. ASSUME NEW ok \in BOOLEAN, st' = Write([st EXCEPT !.attempts = @ + 1], ok) PROVE AppInv'
  <2>1. PICK v : v = [st EXCEPT !.attempts = @ + 1]
    OBVIOUS
  <2>2. Inner(v, st)
    BY <1>1, <2>1 DEF Inner, StType
  <2>3. Fine(v) /\ Keeps(v, st)
    BY <1>1, <2>2, InnerFacts
  <2>4. Keeps(st', v)
    BY <1>3, <2>1, <2>3, WriteFacts
  <2>5. Keeps(st', st)
    BY <2>3, <2>4, KeepsTrans
  <2> QED BY <1>1, <2>5, HandlerStep
<1> QED BY <1>2, <1>3 DEF ResponseTimeout

LEMMA PingInv == ASSUME AppInv, Ping PROVE AppInv'
<1>1. Handler /\ OnlyProgram /\ Fine(st) /\ st \in StType
  BY DEF Ping, AppInv, Fine
<1>2. CASE st' = [NetworkLost(st) EXCEPT !.damaged = TRUE]
  <2>1. PICK v : v = NetworkLost(st)
    OBVIOUS
  <2>2. Keeps(v, st) /\ Fine(v) /\ v \in StType
    BY <1>1, <2>1, NetworkLostFacts DEF Keeps, Fine
  <2>3. Inner(st', v)
    BY <1>2, <2>1, <2>2 DEF Inner, StType
  <2>4. Keeps(st', v)
    BY <2>2, <2>3, InnerFacts
  <2>5. Keeps(st', st)
    BY <2>2, <2>4, KeepsTrans
  <2> QED BY <1>1, <2>5, HandlerStep
<1>3. CASE st' = BrokerDisconnected(st, TRUE)
  <2>1. Keeps(st', st)
    BY <1>1, <1>3, DisconnectedFacts
  <2> QED BY <1>1, <2>1, HandlerStep
<1> QED BY <1>2, <1>3 DEF Ping

LEMMA SignalInv == ASSUME AppInv, Signal PROVE AppInv'
<1>1. Handler /\ OnlyProgram /\ st \in StType /\ st' = DoTerminate(st, 100)
  BY DEF Signal, AppInv, Fine
<1>2. Keeps(st', st)
  BY <1>1, TerminateFacts DEF Keeps
<1> QED BY <1>1, <1>2, HandlerStep

LEMMA StartInv == ASSUME AppInv, Start PROVE AppInv'
<1>1. /\ UNCHANGED <<program, stream, received, buf, dispatched>>
      /\ Fine(st) /\ st \in StType
  BY DEF Start, AppInv, Fine
<1>2. CASE st' = [st EXCEPT !.result = NoResult]
  <2>1. /\ st' \in StType /\ st'.netDown = st.netDown /\ st'.stopped = st.stopped /\ st'.result = -1
    BY <1>1, <1>2 DEF StType, NoResult
  <2>2. Keeps(st', st)
    BY <1>1, <2>1 DEF Keeps, Fine
  <2>3. SuccessIsAcked'
    BY <2>1 DEF SuccessIsAcked
  <2> QED BY <1>1, <2>2, <2>3, StStep
<1>3. CASE phase' = "running" /\ st' = [st EXCEPT !.stopped = TRUE, !.help = TRUE]
  <2>1. /\ st' \in StType /\ st'.stopped /\ st'.help
    BY <1>1, <1>3 DEF StType
  <2>2. Keeps(st', st)
    BY <1>1, <2>1 DEF Keeps, Fine
  <2>3. SuccessIsAcked'
    BY <1>3 DEF SuccessIsAcked
  <2> QED BY <1>1, <2>2, <2>3, StStep
<1>4. ASSUME NEW ok \in BOOLEAN, phase' = "running", st' = SendConnect(st, ok) PROVE AppInv'
  <2>1. PICK v : v = [st EXCEPT !.op = "connect"]
    OBVIOUS
  <2>2. Inner(v, st)
    BY <1>1, <2>1 DEF Inner, StType
  <2>3. Fine(v) /\ Keeps(v, st)
    BY <1>1, <2>2, InnerFacts
  <2>4. Keeps(st', v)
    BY <1>4, <2>1, <2>3, WriteFacts DEF SendConnect
  <2>5. Keeps(st', st)
    BY <2>3, <2>4, KeepsTrans
  <2>6. SuccessIsAcked'
    BY <1>4 DEF SuccessIsAcked
  <2> QED BY <1>1, <2>5, <2>6, StStep
<1> QED BY <1>2, <1>3, <1>4 DEF Start

\* The callbacks of the destructor report failures only.
LEMMA EndInv == ASSUME AppInv, End PROVE AppInv'
<1>1. /\ UNCHANGED <<program, stream, received, buf, dispatched>> /\ st.stopped
      /\ Fine(st) /\ st \in StType /\ st' = Freed(st)
  BY DEF End, AppInv, Fine
<1>2. Keeps(st', st)
  BY <1>1, FailedFacts DEF Freed, Keeps
<1>3. SuccessIsAcked'
  BY <1>1, <1>2 DEF SuccessIsAcked, Keeps, Fine
<1> QED BY <1>1, <1>2, <1>3, StStep

LEMMA DamagedInv == ASSUME AppInv, Damaged PROVE AppInv'
<1>1. /\ UNCHANGED <<program, stream, received, buf, dispatched>>
      /\ Fine(st) /\ st \in StType /\ phase = "running"
  BY DEF Damaged, AppInv, Fine
<1>2. phase' # "ended"
  BY <1>1 DEF Damaged
<1>3. Keeps(st', st)
  <2>1. CASE st' = st
    BY <1>1, <2>1 DEF Keeps
  <2>2. CASE st' = [st EXCEPT !.damaged = FALSE]
    <3>1. Inner(st', st)
      BY <1>1, <2>2 DEF Inner, StType
    <3> QED BY <1>1, <3>1, InnerFacts
  <2> QED BY <2>1, <2>2 DEF Damaged
<1>4. SuccessIsAcked'
  BY <1>2 DEF SuccessIsAcked
<1> QED BY <1>1, <1>3, <1>4, StStep

LEMMA NextInv == ASSUME AppInv, [Next]_vars PROVE AppInv'
<1>1. CASE UNCHANGED vars
  <2>1. UNCHANGED <<program, stream, received, buf, dispatched>> /\ st' = st /\ phase' = phase
    BY <1>1 DEF vars
  <2>2. Keeps(st', st)
    BY <2>1 DEF Keeps, AppInv
  <2>3. SuccessIsAcked'
    BY <2>1 DEF SuccessIsAcked, AppInv
  <2> QED BY <2>1, <2>2, <2>3, StStep
<1>2. CASE Next
  BY <1>2, StartInv, ReadInv, ReadFailsInv, ResponseTimeoutInv, PingInv, SignalInv, EndInv,
     DamagedInv DEF Next
<1> QED BY <1>1, <1>2

-----------------------------------------------------------------------------
\* What follows from the invariant.

\* Frame j is the last sound one that has arrived.
LEMMA LastFrame ==
    ASSUME AppInv, NEW j \in 0..Len(stream), Reading(j) \/ Broken(j),
           NEW k \in 0..Len(stream), Sound(k), EndOf[k] <= received
    PROVE  k <= j
<1>1. SUFFICES ASSUME j < k PROVE FALSE
  <2>1. Len(stream) \in Nat
    BY EndFacts DEF AppInv
  <2> QED BY <2>1
<1>2. StreamOK /\ received \in Nat
  BY DEF AppInv
<1>3. Len(stream) \in Nat /\ \A n \in 0..Len(stream) : EndOf[n] \in Nat /\ n \in Nat
  BY <1>2, EndFacts
<1>4. PICK q : q = j + 1
  OBVIOUS
<1>5. q \in 1..k /\ q \in 0..Len(stream) /\ q <= k /\ j < Len(stream)
  BY <1>1, <1>3, <1>4
<1>6. stream[q] # "BAD"
  BY <1>5 DEF Sound
<1>7. received < EndOf[q]
  BY <1>4, <1>5, <1>6 DEF Reading, Broken, Whole
<1>8. EndOf[q] + (k - q) <= EndOf[k]
  BY <1>2, <1>5, EndFacts
<1> QED BY <1>2, <1>3, <1>5, <1>7, <1>8

LEMMA InvFrames == ASSUME AppInv PROVE FramesInOrder
<1>1. PICK j \in 0..Len(stream) : Reading(j) \/ Broken(j)
  BY DEF AppInv
<1>2. PICK good : good = {i \in 0..Len(stream) : \A k \in 1..i : stream[k] # "BAD"}
  OBVIOUS
<1>3. PICK arrived : arrived = {i \in good : EndOf[i] <= received}
  OBVIOUS
<1>4. \A k \in arrived : k \in 0..Len(stream) /\ Sound(k) /\ EndOf[k] <= received
  BY <1>2, <1>3 DEF Sound
<1>5. j \in arrived
  BY <1>1, <1>2, <1>3 DEF Reading, Broken, Sound
<1>6. \A k \in arrived : k <= j
  BY <1>1, <1>4, LastFrame
<1>7. Len(stream) \in Nat
  BY EndFacts DEF AppInv
<1>8. PICK last : last = CHOOSE i \in arrived : \A k \in arrived : k <= i
  OBVIOUS
<1>9. last \in arrived /\ \A k \in arrived : k <= last
  BY <1>5, <1>6, <1>8
<1>10. last = j
  <2>1. last <= j /\ j <= last /\ last \in 0..Len(stream)
    BY <1>4, <1>5, <1>6, <1>9
  <2> QED BY <1>7, <2>1
<1>11. CASE Reading(j)
  <2>1. dispatched = UpTo(last) /\ buf = Bytes(EndOf[last], received)
    BY <1>10, <1>11 DEF Reading
  <2> QED BY <1>2, <1>3, <1>8, <2>1 DEF FramesInOrder, UpTo, Bytes
<1>12. CASE Broken(j)
  <2>1. /\ last + 1 \in DOMAIN stream /\ stream[last + 1] = "BAD"
        /\ dispatched = UpTo(last + 1) /\ buf = <<>>
    <3>1. DOMAIN stream = 1..Len(stream)
      BY EndFacts DEF AppInv
    <3> QED BY <1>7, <1>10, <1>12, <3>1 DEF Broken
  <2> QED BY <1>2, <1>3, <1>8, <2>1 DEF FramesInOrder, UpTo
<1> QED BY <1>1, <1>11, <1>12

LEMMA AlwaysAppInv == Spec => []AppInv
<1>1. Init => AppInv
  BY InitInv
<1>2. AppInv /\ [Next]_vars => AppInv'
  BY NextInv
<1> QED BY <1>1, <1>2, PTL DEF Spec

\* However the stream of the broker is cut into chunks, processData gives the
\* client exactly the frames that have arrived, in order, and doRead keeps the
\* rest, until a broken frame.
THEOREM FramesAlwaysInOrder == Spec => []FramesInOrder
<1>1. AppInv => FramesInOrder
  BY InvFrames
<1> QED BY <1>1, AlwaysAppInv, PTL

\* A publisher of QoS 1 that returns 0 has seen the acknowledgement of its
\* message, or was asked for the help: no way out of the event loop, and no
\* callback of the destructor, leaves the initial 0 behind.
THEOREM SuccessAlwaysAcked == Spec => []SuccessIsAcked
<1>1. AppInv => SuccessIsAcked
  BY DEF AppInv
<1> QED BY <1>1, AlwaysAppInv, PTL

=============================================================================
