-------------------------- MODULE ClientTimeProofs --------------------------
(***************************************************************************)
(* Proofs about time in the client, for every keep-alive time, response    *)
(* time and latency of the application.                                    *)
(*                                                                         *)
(* The slots of the timer manager are found by their names; what they say  *)
(* of a timer is how long it still waits. The operators of TimerMgr are    *)
(* described in these terms first, and then a call of the client is.       *)
(***************************************************************************)
EXTENDS ClientTime, FiniteSetTheorems, SequenceTheorems, WellFoundedInduction, TLAPS

TimerNames == {"ping", "recv", "resp", "response"}
HolderOf(n) == IF n = "response" THEN REQ ELSE KA
PeriodOf(n) == IF n \in {"ping", "recv"} THEN KeepAliveMs ELSE ResponseMs

\* A slot in use. The time of a timer that is not running is zero.
UsedSlot(s) ==
    /\ s.name \in TimerNames /\ s.holder = HolderOf(s.name) /\ ~s.suspended
    /\ s.ms \in 0..PeriodOf(s.name) /\ (s.active <=> s.ms > 0)

SlotType ==
    {s \in [holder : {NoHolder, KA, REQ}, name : TimerNames \cup {"none"}, active : BOOLEAN,
            ms : 0..Longer, suspended : BOOLEAN] : s = FreeSlot \/ UsedSlot(s)}

\* The slots of the timers P, each with one.
Shape(ts, P) ==
    /\ ts \in Seq(SlotType) /\ Len(ts) <= 4
    /\ \A i, j \in 1..Len(ts) : ts[i].name = ts[j].name /\ ts[i].name # "none" => i = j
    /\ \A n \in TimerNames : n \in P <=> \E i \in 1..Len(ts) : ts[i].name = n

\* How long a timer still waits, zero if it does not.
Left(ts, n) ==
    IF \E i \in 1..Len(ts) : ts[i].name = n THEN ts[SlotOf(ts, HolderOf(n), n)].ms ELSE 0

LEMMA Periods ==
    /\ Longer \in Nat /\ KeepAliveMs \in Nat \ {0} /\ ResponseMs \in Nat \ {0}
    /\ KeepAliveMs <= Longer /\ ResponseMs <= Longer
    /\ \A n : PeriodOf(n) \in Nat /\ PeriodOf(n) <= Longer
  BY TimeAssumption DEF Longer, PeriodOf

LEMMA SlotFacts ==
    /\ FreeSlot \in SlotType /\ FreeSlot.name = "none" /\ FreeSlot.holder = NoHolder
    /\ FreeSlot.ms = 0 /\ FreeSlot.active = FALSE /\ FreeSlot.suspended = FALSE
    /\ \A s \in SlotType : /\ s.name = "none" <=> s = FreeSlot
                           /\ s.name # "none" <=> UsedSlot(s)
                           /\ s.holder = NoHolder <=> s = FreeSlot
                           /\ s.ms \in 0..Longer /\ s.active \in BOOLEAN
                           /\ s.active <=> s.ms > 0
                           /\ ~s.suspended
<1>1. /\ FreeSlot.name = "none" /\ FreeSlot.holder = NoHolder
      /\ FreeSlot.ms = 0 /\ FreeSlot.active = FALSE /\ FreeSlot.suspended = FALSE
  BY DEF FreeSlot
<1>2. FreeSlot \in SlotType
  BY Periods DEF FreeSlot, SlotType
<1>3. ASSUME NEW s \in SlotType
      PROVE  /\ s.name = "none" <=> s = FreeSlot
             /\ s.name # "none" <=> UsedSlot(s)
             /\ s.holder = NoHolder <=> s = FreeSlot
             /\ s.ms \in 0..Longer /\ s.active \in BOOLEAN
             /\ s.active <=> s.ms > 0
             /\ ~s.suspended
  <2>1. CASE s = FreeSlot
    <3>1. s.name = "none" /\ s.holder = NoHolder /\ s.ms = 0 /\ ~s.active /\ ~s.suspended
      BY <1>1, <2>1
    <3>2. ~UsedSlot(s)
      BY <3>1 DEF UsedSlot, TimerNames
    <3>3. s.ms \in 0..Longer /\ s.active \in BOOLEAN
      BY DEF SlotType
    <3> QED BY <2>1, <3>1, <3>2, <3>3
  <2>2. CASE UsedSlot(s)
    <3>1. s.name # "none" /\ s.holder # NoHolder
      BY <2>2 DEF UsedSlot, TimerNames, HolderOf, NoHolder, KA, REQ
    <3>2. s # FreeSlot
      BY <1>1, <3>1
    <3>3. s.ms \in 0..Longer /\ s.active \in BOOLEAN
      BY DEF SlotType
    <3>4. (s.active <=> s.ms > 0) /\ ~s.suspended
      BY <2>2 DEF UsedSlot
    <3> QED BY <2>2, <3>1, <3>2, <3>3, <3>4
  <2> QED BY <2>1, <2>2 DEF SlotType
<1> QED BY <1>1, <1>2, <1>3

\* The slot of a name.
LEMMA SlotOfName ==
    ASSUME NEW ts, NEW P, Shape(ts, P), NEW i \in 1..Len(ts), ts[i].name # "none"
    PROVE  /\ ts[i].name \in P /\ ts[i].name \in TimerNames
           /\ SlotOf(ts, HolderOf(ts[i].name), ts[i].name) = i
           /\ Left(ts, ts[i].name) = ts[i].ms
           /\ UsedSlot(ts[i])
<1>1. ts \in Seq(SlotType) /\ DOMAIN ts = 1..Len(ts) /\ ts[i] \in SlotType
  BY DEF Shape
<1>2. UsedSlot(ts[i])
  BY <1>1, SlotFacts
<1>3. SlotOf(ts, HolderOf(ts[i].name), ts[i].name) = i
  <2>1. \A j \in Slots(ts) : ts[j].holder = HolderOf(ts[i].name) /\ ts[j].name = ts[i].name => j = i
    BY <1>1 DEF Slots, Shape
  <2>2. ts[i].holder = HolderOf(ts[i].name)
    BY <1>2 DEF UsedSlot
  <2> QED BY <1>1, <2>1, <2>2 DEF SlotOf, Slots
<1> QED BY <1>2, <1>3 DEF Left, Shape, UsedSlot

LEMMA NameHasSlot ==
    ASSUME NEW ts, NEW P, Shape(ts, P), NEW n \in TimerNames, n \in P
    PROVE  \E i \in 1..Len(ts) : /\ ts[i].name = n /\ i = SlotOf(ts, HolderOf(n), n)
                                 /\ Left(ts, n) = ts[i].ms
<1>1. PICK i \in 1..Len(ts) : ts[i].name = n
  BY DEF Shape
<1>2. ts[i].name # "none"
  BY <1>1 DEF TimerNames
<1> QED BY <1>1, <1>2, SlotOfName

LEMMA LeftRange ==
    ASSUME NEW ts, NEW P, Shape(ts, P), NEW n \in TimerNames
    PROVE  /\ Left(ts, n) \in 0..PeriodOf(n) /\ Left(ts, n) \in Nat
           /\ n \notin P => Left(ts, n) = 0
<1>0. PeriodOf(n) \in Nat
  BY TimeAssumption DEF PeriodOf
<1>1. CASE n \in P
  <2>1. PICK i \in 1..Len(ts) : ts[i].name = n /\ Left(ts, n) = ts[i].ms
    BY <1>1, NameHasSlot
  <2>2. UsedSlot(ts[i])
    BY <2>1, SlotOfName DEF TimerNames
  <2> QED BY <1>0, <1>1, <2>1, <2>2 DEF UsedSlot
<1>2. CASE n \notin P
  <2>1. Left(ts, n) = 0
    BY <1>2 DEF Left, Shape
  <2> QED BY <1>0, <1>2, <2>1
<1> QED BY <1>1, <1>2

LEMMA IsActive ==
    ASSUME NEW ts, NEW P, Shape(ts, P), NEW n \in TimerNames, n \in P
    PROVE  TimerIsActive(ts, HolderOf(n), n) <=> Left(ts, n) # 0
<1>1. PICK i \in 1..Len(ts) : /\ ts[i].name = n /\ i = SlotOf(ts, HolderOf(n), n)
                              /\ Left(ts, n) = ts[i].ms
  BY NameHasSlot
<1>2. ts[i] \in SlotType
  BY DEF Shape
<1>3. ts[i].active <=> ts[i].ms # 0
  BY <1>2, SlotFacts
<1> QED BY <1>1, <1>3 DEF TimerIsActive

\* A change that keeps the names.
LEMMA SameNames ==
    ASSUME NEW ts, NEW P, Shape(ts, P), NEW u \in Seq(SlotType), Len(u) = Len(ts),
           \A i \in 1..Len(ts) : u[i].name = ts[i].name
    PROVE  /\ Shape(u, P)
           /\ \A i \in 1..Len(ts) : ts[i].name # "none" => Left(u, ts[i].name) = u[i].ms
<1>1. Shape(u, P)
  BY DEF Shape
<1> QED BY <1>1, SlotOfName

-----------------------------------------------------------------------------
\* The operators of TimerMgr.

OthersLeft(u, ts, n) == \A m \in TimerNames : m # n => Left(u, m) = Left(ts, m)

LEMMA SetSlot ==
    ASSUME NEW ts, NEW P, Shape(ts, P), NEW k \in 1..Len(ts), ts[k].name \in TimerNames,
           NEW u \in Seq(SlotType), Len(u) = Len(ts), u[k].name = ts[k].name,
           \A i \in 1..Len(ts) : i # k => u[i] = ts[i]
    PROVE  /\ Shape(u, P) /\ Left(u, ts[k].name) = u[k].ms
           /\ OthersLeft(u, ts, ts[k].name)
<1>1. \A i \in 1..Len(ts) : u[i].name = ts[i].name
  OBVIOUS
<1>2. Shape(u, P)
  BY <1>1 DEF Shape
<1>3. \A i \in 1..Len(ts) : ts[i].name # "none" => Left(u, ts[i].name) = u[i].ms
  BY <1>1, <1>2, SlotOfName
<1>4. Left(u, ts[k].name) = u[k].ms
  BY <1>3 DEF TimerNames
<1>5. ASSUME NEW m \in TimerNames, m # ts[k].name PROVE Left(u, m) = Left(ts, m)
  <2>1. CASE m \in P
    <3>1. PICK i \in 1..Len(ts) : ts[i].name = m /\ Left(ts, m) = ts[i].ms
      BY <2>1, NameHasSlot
    <3> QED BY <1>3, <1>5, <3>1 DEF TimerNames
  <2>2. CASE m \notin P
    BY <1>2, <2>2, LeftRange
  <2> QED BY <2>1, <2>2
<1> QED BY <1>2, <1>4, <1>5 DEF OthersLeft

LEMMA WaitFacts ==
    ASSUME NEW ts, NEW P, Shape(ts, P), NEW n \in TimerNames, n \in P, NEW h, h = HolderOf(n),
           NEW ms \in 1..PeriodOf(n), NEW u, u = TimerWait(ts, h, n, ms)
    PROVE  Shape(u, P) /\ Left(u, n) = ms /\ OthersLeft(u, ts, n)
<1>1. PICK k \in 1..Len(ts) : ts[k].name = n /\ k = SlotOf(ts, HolderOf(n), n)
  BY NameHasSlot
<1> DEFINE s == [ts[k] EXCEPT !.active = TRUE, !.ms = ms]
<1>2. ts \in Seq(SlotType) /\ ts[k] \in SlotType /\ UsedSlot(ts[k])
  <2>1. ts \in Seq(SlotType) /\ ts[k] \in SlotType
    BY <1>1 DEF Shape
  <2>2. ts[k].name # "none"
    BY <1>1 DEF TimerNames
  <2> QED BY <1>1, <2>1, <2>2, SlotOfName
<1>3. s \in SlotType /\ s.name = n /\ s.ms = ms
  <2>1. ms \in 0..Longer /\ ms > 0
    BY Periods
  <2>2. s \in [holder : {NoHolder, KA, REQ}, name : TimerNames \cup {"none"}, active : BOOLEAN,
               ms : 0..Longer, suspended : BOOLEAN]
    BY <1>2, <2>1 DEF SlotType
  <2>3. /\ s.name = ts[k].name /\ s.holder = ts[k].holder /\ s.suspended = ts[k].suspended
        /\ s.active = TRUE /\ s.ms = ms
    BY <1>2 DEF SlotType
  <2>4. UsedSlot(s)
    BY <1>1, <1>2, <2>1, <2>3 DEF UsedSlot
  <2> QED BY <1>1, <2>2, <2>3, <2>4 DEF SlotType
<1>4. u = [ts EXCEPT ![k] = s]
  <2>1. DOMAIN ts = 1..Len(ts)
    BY <1>2
  <2>2. \A a, b : [[ts EXCEPT ![k].active = a] EXCEPT ![k].ms = b] = [ts EXCEPT ![k] = [ts[k] EXCEPT !.active = a, !.ms = b]]
    BY <1>2, <2>1
  <2> QED BY <1>1, <2>2 DEF TimerWait
<1> HIDE DEF s
<1>5. /\ u \in Seq(SlotType) /\ Len(u) = Len(ts) /\ u[k] = s
      /\ \A i \in 1..Len(ts) : i # k => u[i] = ts[i]
  BY <1>2, <1>3, <1>4, ExceptSeq
<1>6. ts[k].name \in TimerNames /\ u[k].name = ts[k].name /\ u[k].ms = ms
  BY <1>1, <1>3, <1>5
<1>7. /\ Shape(u, P) /\ Left(u, ts[k].name) = u[k].ms
      /\ OthersLeft(u, ts, ts[k].name)
  BY <1>1, <1>5, <1>6, SetSlot
<1> QED BY <1>1, <1>6, <1>7

LEMMA StoppedSlot ==
    ASSUME NEW s \in SlotType
    PROVE  Stopped(s) \in SlotType /\ Stopped(s).name = s.name /\ Stopped(s).ms = 0
<1>1. PeriodOf(s.name) \in Nat /\ Longer \in Nat
  BY Periods
<1>2. s \in [holder : {NoHolder, KA, REQ}, name : TimerNames \cup {"none"}, active : BOOLEAN,
             ms : 0..Longer, suspended : BOOLEAN]
  BY DEF SlotType
<1>3. Stopped(s) \in [holder : {NoHolder, KA, REQ}, name : TimerNames \cup {"none"}, active : BOOLEAN,
                      ms : 0..Longer, suspended : BOOLEAN]
  <2>1. 0 \in 0..Longer /\ FALSE \in BOOLEAN
    BY <1>1
  <2> QED BY <1>2, <2>1 DEF Stopped
<1>4. /\ Stopped(s).name = s.name /\ Stopped(s).holder = s.holder
      /\ Stopped(s).suspended = s.suspended /\ Stopped(s).ms = 0
  BY <1>2 DEF Stopped
<1>5. ~Stopped(s).active
  BY <1>2 DEF Stopped
<1>6. CASE s = FreeSlot
  <2>1. ~s.active /\ s.ms = 0
    BY <1>6, SlotFacts
  <2>2. Stopped(s) = s
    BY <1>2, <2>1 DEF Stopped
  <2> QED BY <1>4, <2>2
<1>7. CASE UsedSlot(s)
  <2>1. UsedSlot(Stopped(s))
    BY <1>1, <1>4, <1>5, <1>7 DEF UsedSlot
  <2> QED BY <1>3, <1>4, <2>1 DEF SlotType
<1> QED BY <1>6, <1>7 DEF SlotType

LEMMA CancelFacts ==
    ASSUME NEW ts, NEW P, Shape(ts, P), NEW n \in TimerNames, n \in P, NEW h, h = HolderOf(n),
           NEW u, u = TimerCancel(ts, h, n)
    PROVE  Shape(u, P) /\ Left(u, n) = 0 /\ OthersLeft(u, ts, n)
<1>1. PICK k \in 1..Len(ts) : ts[k].name = n /\ k = SlotOf(ts, HolderOf(n), n)
  BY NameHasSlot
<1>2. ts \in Seq(SlotType) /\ ts[k] \in SlotType
  BY DEF Shape
<1>3. Stopped(ts[k]) \in SlotType /\ Stopped(ts[k]).name = n /\ Stopped(ts[k]).ms = 0
  BY <1>1, <1>2, StoppedSlot
<1>4. u = [ts EXCEPT ![k] = Stopped(ts[k])]
  BY <1>1, <1>2 DEF TimerCancel
<1>5. /\ u \in Seq(SlotType) /\ Len(u) = Len(ts) /\ u[k] = Stopped(ts[k])
      /\ \A i \in 1..Len(ts) : i # k => u[i] = ts[i]
  BY <1>2, <1>3, <1>4, ExceptSeq
<1> QED BY <1>1, <1>3, <1>5, SetSlot

LEMMA FreeFacts ==
    ASSUME NEW ts, NEW P, Shape(ts, P), NEW h \in {KA, REQ}, NEW u, u = FreeTimers(ts, h)
    PROVE  /\ Shape(u, {n \in P : HolderOf(n) # h})
           /\ \A n \in TimerNames : Left(u, n) = IF HolderOf(n) = h THEN 0 ELSE Left(ts, n)
<1>1. ts \in Seq(SlotType) /\ DOMAIN ts = 1..Len(ts) /\ Len(ts) \in Nat
  BY DEF Shape
<1>2. u = [i \in 1..Len(ts) |-> IF ts[i].holder = h THEN FreeSlot ELSE ts[i]]
  BY <1>1 DEF FreeTimers, Slots
<1>3. u \in Seq(SlotType) /\ Len(u) = Len(ts)
  BY <1>1, <1>2, SlotFacts
<1>4. \A i \in 1..Len(ts) : u[i] = IF ts[i].holder = h THEN FreeSlot ELSE ts[i]
  BY <1>2
<1>5. \A i \in 1..Len(ts) : u[i].name # "none" => u[i] = ts[i] /\ HolderOf(ts[i].name) # h
  BY <1>1, <1>4, SlotFacts DEF UsedSlot
<1>6. \A i \in 1..Len(ts) : ts[i].name # "none" /\ HolderOf(ts[i].name) # h => u[i] = ts[i]
  BY <1>1, <1>4, SlotFacts DEF UsedSlot
<1>7. Shape(u, {n \in P : HolderOf(n) # h})
  <2>1. \A i, j \in 1..Len(u) : u[i].name = u[j].name /\ u[i].name # "none" => i = j
    BY <1>3, <1>5 DEF Shape
  <2>2. ASSUME NEW n \in TimerNames
        PROVE  n \in {m \in P : HolderOf(m) # h} <=> \E i \in 1..Len(u) : u[i].name = n
    <3>1. n # "none"
      BY DEF TimerNames
    <3> QED BY <1>3, <1>5, <1>6, <3>1 DEF Shape
  <2> QED BY <1>3, <2>1, <2>2 DEF Shape
<1>8. ASSUME NEW n \in TimerNames
      PROVE  Left(u, n) = IF HolderOf(n) = h THEN 0 ELSE Left(ts, n)
  <2>1. CASE n \in P /\ HolderOf(n) # h
    <3>1. PICK i \in 1..Len(ts) : ts[i].name = n /\ Left(ts, n) = ts[i].ms
      BY <2>1, NameHasSlot
    <3>2. u[i] = ts[i] /\ i \in 1..Len(u) /\ u[i].name # "none"
      BY <1>3, <1>6, <2>1, <3>1 DEF TimerNames
    <3> QED BY <1>7, <2>1, <3>1, <3>2, SlotOfName
  <2>2. CASE ~(n \in P /\ HolderOf(n) # h)
    BY <1>7, <2>2, LeftRange
  <2> QED BY <2>1, <2>2
<1> QED BY <1>7, <1>8

\* A set of numbers has a least element.
LEMMA LeastNumber ==
    ASSUME NEW T, T \subseteq Nat, T # {}
    PROVE  /\ \E k \in T : \A j \in T : k <= j
           /\ Least(T) \in T /\ \A j \in T : Least(T) <= j
<1>1. PICK k \in T : \A j \in T : ~(<<j, k>> \in OpToRel(<, Nat))
  BY NatLessThanWellFounded, WFMin
<1>2. \A j \in T : ~(j < k)
  BY <1>1 DEF OpToRel
<1>3. \E x \in T : \A y \in T : x <= y
  BY <1>2
<1> QED BY <1>3 DEF Least

\* One more slot in use.
Added(u, ts, k, n) ==
    /\ u \in Seq(SlotType) /\ Len(u) <= 4 /\ Len(ts) <= Len(u)
    /\ k \in 1..Len(u) /\ u[k].name = n /\ u[k].ms = 0
    /\ \A i \in 1..Len(u) : i # k => i \in 1..Len(ts) /\ u[i] = ts[i]
    /\ k \in 1..Len(ts) => ts[k].name = "none"

LEMMA AddSlot ==
    ASSUME NEW ts, NEW P, Shape(ts, P), NEW n \in TimerNames, n \notin P,
           NEW u, NEW k, Added(u, ts, k, n)
    PROVE  /\ Shape(u, P \cup {n})
           /\ \A m \in TimerNames : Left(u, m) = Left(ts, m)
<1>0. /\ u \in Seq(SlotType) /\ Len(u) <= 4 /\ Len(ts) <= Len(u)
      /\ k \in 1..Len(u) /\ u[k].name = n /\ u[k].ms = 0
      /\ \A i \in 1..Len(u) : i # k => i \in 1..Len(ts) /\ u[i] = ts[i]
      /\ k \in 1..Len(ts) => ts[k].name = "none"
  BY DEF Added
<1>1. Shape(u, P \cup {n})
  <2>1. \A i \in 1..Len(ts) : ts[i].name # n
    BY DEF Shape
  <2>2. \A i, j \in 1..Len(u) : u[i].name = u[j].name /\ u[i].name # "none" => i = j
    BY <1>0, <2>1 DEF Shape
  <2>3. \A m \in TimerNames : m \in P \cup {n} <=> \E i \in 1..Len(u) : u[i].name = m
    <3>1. ASSUME NEW m \in P, m \in TimerNames PROVE \E i \in 1..Len(u) : u[i].name = m
      <4>1. PICK i \in 1..Len(ts) : ts[i].name = m
        BY <3>1 DEF Shape
      <4>2. i # k
        BY <1>0, <3>1, <4>1 DEF TimerNames
      <4>3. i \in 1..Len(u)
        BY <1>0, <4>1 DEF Shape
      <4> QED BY <1>0, <4>1, <4>2, <4>3
    <3>2. ASSUME NEW i \in 1..Len(u), u[i].name \in TimerNames PROVE u[i].name \in P \cup {n}
      BY <1>0, <3>2 DEF Shape
    <3> QED BY <1>0, <3>1, <3>2
  <2> QED BY <1>0, <2>2, <2>3 DEF Shape
<1>2. ASSUME NEW m \in TimerNames PROVE Left(u, m) = Left(ts, m)
  <2>1. CASE m \in P
    <3>1. PICK i \in 1..Len(ts) : ts[i].name = m /\ Left(ts, m) = ts[i].ms
      BY <2>1, NameHasSlot
    <3>2. i # k /\ i \in 1..Len(u)
      BY <1>0, <3>1 DEF TimerNames, Shape
    <3>3. u[i].name = m /\ u[i].name # "none" /\ u[i].ms = ts[i].ms
      BY <1>0, <3>1, <3>2 DEF TimerNames
    <3> QED BY <1>0, <1>1, <3>1, <3>2, <3>3, SlotOfName
  <2>2. CASE m = n
    <3>1. Left(ts, m) = 0
      BY <2>2, LeftRange
    <3>2. u[k].name # "none"
      BY <1>0 DEF TimerNames
    <3> QED BY <1>0, <1>1, <2>2, <3>1, <3>2, SlotOfName
  <2>3. CASE m \notin P /\ m # n
    BY <1>1, <2>3, LeftRange
  <2> QED BY <2>1, <2>2, <2>3
<1> QED BY <1>1, <1>2

LEMMA AllocFacts ==
    ASSUME NEW ts, NEW P, Shape(ts, P), NEW n \in TimerNames, n \notin P, NEW h, h = HolderOf(n),
           NEW u, u = AllocTimer(ts, h, n)
    PROVE  /\ Shape(u, P \cup {n})
           /\ \A m \in TimerNames : Left(u, m) = Left(ts, m)
<1> DEFINE s == [FreeSlot EXCEPT !.holder = h, !.name = n]
           free == {i \in Slots(ts) : ts[i].holder = NoHolder}
<1>1. s \in SlotType /\ s.name = n /\ s.ms = 0
  <2>1. /\ s.holder = h /\ s.name = n /\ s.ms = 0 /\ ~s.active /\ ~s.suspended
        /\ s \in [holder : {NoHolder, KA, REQ}, name : TimerNames \cup {"none"}, active : BOOLEAN,
                  ms : 0..Longer, suspended : BOOLEAN]
    <3>1. h \in {NoHolder, KA, REQ}
      BY DEF HolderOf
    <3>2. FreeSlot \in [holder : {NoHolder, KA, REQ}, name : TimerNames \cup {"none"}, active : BOOLEAN,
                        ms : 0..Longer, suspended : BOOLEAN]
      BY SlotFacts DEF SlotType
    <3>3. s \in [holder : {NoHolder, KA, REQ}, name : TimerNames \cup {"none"}, active : BOOLEAN,
                 ms : 0..Longer, suspended : BOOLEAN]
      BY <3>1, <3>2
    <3>4. /\ s.holder = h /\ s.name = n /\ s.ms = FreeSlot.ms /\ s.active = FreeSlot.active
          /\ s.suspended = FreeSlot.suspended
      BY <3>2
    <3> QED BY <3>3, <3>4, SlotFacts
  <2>2. PeriodOf(n) \in Nat
    BY TimeAssumption DEF PeriodOf
  <2>3. UsedSlot(s)
    BY <2>1, <2>2 DEF UsedSlot
  <2> QED BY <2>1, <2>3 DEF SlotType
<1>2. ts \in Seq(SlotType) /\ DOMAIN ts = 1..Len(ts) /\ Len(ts) \in Nat /\ Len(ts) <= 4
  BY DEF Shape
<1>3. \A i \in free : i \in 1..Len(ts) /\ ts[i].name = "none"
  BY <1>2, SlotFacts DEF Slots
<1>4. u = IF free = {} THEN Append(ts, s) ELSE [ts EXCEPT ![Least(free)] = s]
  BY DEF AllocTimer
<1> HIDE DEF s
<1>5. CASE free = {}
  <2>1. \A i \in 1..Len(ts) : ts[i].name \in TimerNames \ {n}
    <3>1. ASSUME NEW i \in 1..Len(ts) PROVE ts[i].name \in TimerNames
      <4>1. i \in Slots(ts) /\ ts[i] \in SlotType
        BY <1>2 DEF Slots
      <4>2. ts[i].holder # NoHolder
        BY <1>5, <4>1
      <4> QED BY <4>1, <4>2, SlotFacts DEF UsedSlot
    <3> QED BY <3>1 DEF Shape
  <2>2. Len(ts) <= 3
    <3> SUFFICES ASSUME Len(ts) = 4 PROVE FALSE
      BY <1>2
    <3>1. 1 \in 1..Len(ts) /\ 2 \in 1..Len(ts) /\ 3 \in 1..Len(ts) /\ 4 \in 1..Len(ts)
      OBVIOUS
    <3>2. \A i, j \in 1..Len(ts) : i # j => ts[i].name # ts[j].name
      BY <2>1 DEF Shape, TimerNames
    <3>3. /\ ts[1].name # ts[2].name /\ ts[1].name # ts[3].name /\ ts[1].name # ts[4].name
          /\ ts[2].name # ts[3].name /\ ts[2].name # ts[4].name /\ ts[3].name # ts[4].name
      BY <3>1, <3>2
    <3>4. /\ ts[1].name \in TimerNames \ {n} /\ ts[2].name \in TimerNames \ {n}
          /\ ts[3].name \in TimerNames \ {n} /\ ts[4].name \in TimerNames \ {n}
      BY <2>1, <3>1
    <3> QED BY <3>3, <3>4 DEF TimerNames
  <2>3. /\ u \in Seq(SlotType) /\ Len(u) = Len(ts) + 1 /\ u[Len(ts) + 1] = s
        /\ \A i \in 1..Len(ts) : u[i] = ts[i]
    BY <1>1, <1>2, <1>4, <1>5, AppendProperties
  <2>4. /\ Len(u) <= 4 /\ Len(ts) <= Len(u) /\ Len(ts) + 1 \in 1..Len(u)
        /\ \A i \in 1..Len(u) : i # Len(ts) + 1 => i \in 1..Len(ts) /\ u[i] = ts[i]
        /\ Len(ts) + 1 \notin 1..Len(ts)
    BY <1>2, <2>2, <2>3
  <2>5. PICK k : k = Len(ts) + 1
    OBVIOUS
  <2>6. k \in 1..Len(u) /\ u[k].name = n /\ u[k].ms = 0 /\ (k \in 1..Len(ts) => ts[k].name = "none")
    BY <1>1, <2>3, <2>4, <2>5
  <2>7. \A i \in 1..Len(u) : i # k => i \in 1..Len(ts) /\ u[i] = ts[i]
    BY <2>4, <2>5
  <2>8. Added(u, ts, k, n)
    BY <2>3, <2>4, <2>6, <2>7 DEF Added
  <2> QED BY <2>8, AddSlot
<1>6. CASE free # {}
  <2> DEFINE k == Least(free)
  <2>1. free \subseteq Nat
    BY <1>3
  <2>2. k \in 1..Len(ts) /\ ts[k].name = "none"
    BY <1>3, <1>6, <2>1, LeastNumber
  <2>3. u = [ts EXCEPT ![k] = s]
    BY <1>4, <1>6
  <2> HIDE DEF k
  <2>4. /\ u \in Seq(SlotType) /\ Len(u) = Len(ts) /\ u[k] = s
        /\ \A i \in 1..Len(ts) : i # k => u[i] = ts[i]
    BY <1>1, <1>2, <2>2, <2>3, ExceptSeq
  <2>5. /\ Len(u) <= 4 /\ Len(ts) <= Len(u) /\ k \in 1..Len(u) /\ u[k].name = n /\ u[k].ms = 0
        /\ \A i \in 1..Len(u) : i # k => i \in 1..Len(ts) /\ u[i] = ts[i]
    BY <1>1, <1>2, <2>2, <2>4
  <2>6. k \in 1..Len(ts) => ts[k].name = "none"
    BY <2>2
  <2>7. Added(u, ts, k, n)
    BY <2>4, <2>5, <2>6 DEF Added
  <2> QED BY <2>7, AddSlot
<1> QED BY <1>5, <1>6

\* The slots that time runs for, and the ones that are due.
LEMMA RunningSlots ==
    ASSUME NEW ts, NEW P, Shape(ts, P), NEW ms \in Nat
    PROVE  /\ Running(ts) = {i \in 1..Len(ts) : ts[i].ms > 0}
           /\ Expiring(ts, ms) = {i \in 1..Len(ts) : ts[i].ms > 0 /\ ts[i].ms <= ms}
           /\ \A i \in Running(ts) : ts[i].name \in TimerNames /\ Left(ts, ts[i].name) = ts[i].ms
           /\ \A n \in TimerNames : Left(ts, n) # 0 => \E i \in Running(ts) : ts[i].name = n
<1>1. ts \in Seq(SlotType) /\ DOMAIN ts = 1..Len(ts)
  BY DEF Shape
<1>2. \A i \in 1..Len(ts) : ts[i].ms > 0 <=> ts[i].holder # NoHolder /\ ts[i].active /\ ~ts[i].suspended
  BY <1>1, SlotFacts
<1>3. Running(ts) = {i \in 1..Len(ts) : ts[i].ms > 0}
  BY <1>1, <1>2 DEF Running, Slots
<1>4. \A i \in Running(ts) : ts[i].name # "none"
  BY <1>1, <1>3, SlotFacts
<1>5. \A i \in Running(ts) : ts[i].name \in TimerNames /\ Left(ts, ts[i].name) = ts[i].ms
  BY <1>3, <1>4, SlotOfName
<1>6. ASSUME NEW n \in TimerNames, Left(ts, n) # 0 PROVE \E i \in Running(ts) : ts[i].name = n
  <2>1. n \in P /\ Left(ts, n) \in Nat
    BY <1>6, LeftRange
  <2>2. PICK i \in 1..Len(ts) : ts[i].name = n /\ Left(ts, n) = ts[i].ms
    BY <2>1, NameHasSlot
  <2> QED BY <1>3, <1>6, <2>1, <2>2
<1> QED BY <1>3, <1>5, <1>6 DEF Expiring

LEMMA TickedFacts ==
    ASSUME NEW ts, NEW P, Shape(ts, P), NEW ms \in Nat, NEW u, u = Ticked(ts, ms)
    PROVE  /\ Shape(u, P)
           /\ \A n \in TimerNames :
                 Left(u, n) = IF Left(ts, n) <= ms THEN 0 ELSE Left(ts, n) - ms
<1>1. ts \in Seq(SlotType) /\ DOMAIN ts = 1..Len(ts) /\ Len(ts) \in Nat
  BY DEF Shape
<1>2. u = [i \in 1..Len(ts) |->
              CASE i \in Expiring(ts, ms) -> Stopped(ts[i])
                [] i \in Running(ts) \ Expiring(ts, ms) -> [ts[i] EXCEPT !.ms = @ - ms]
                [] OTHER -> ts[i]]
  BY <1>1 DEF Ticked, Slots
<1>3. ASSUME NEW i \in 1..Len(ts)
      PROVE  /\ u[i] \in SlotType /\ u[i].name = ts[i].name
             /\ u[i].ms = IF ts[i].ms <= ms THEN 0 ELSE ts[i].ms - ms
  <2>1. ts[i] \in SlotType /\ ts[i].ms \in 0..Longer
    BY <1>1, SlotFacts
  <2>2. CASE i \in Expiring(ts, ms)
    <3>1. u[i] = Stopped(ts[i])
      BY <1>2, <2>2
    <3>2. ts[i].ms <= ms
      BY <2>2 DEF Expiring
    <3> QED BY <2>1, <3>1, <3>2, StoppedSlot
  <2>3. CASE i \in Running(ts) \ Expiring(ts, ms)
    <3>1. u[i] = [ts[i] EXCEPT !.ms = @ - ms]
      BY <1>2, <2>3
    <3>2. ts[i].ms > ms
      BY <2>1, <2>3, RunningSlots
    <3>3. UsedSlot(ts[i])
      <4>1. ts[i].name # "none"
        BY <2>3, RunningSlots DEF TimerNames
      <4> QED BY <2>1, <4>1, SlotFacts
    <3>4. /\ u[i].name = ts[i].name /\ u[i].holder = ts[i].holder /\ u[i].ms = ts[i].ms - ms
          /\ u[i].suspended = ts[i].suspended /\ u[i].active = ts[i].active
      BY <2>1, <3>1 DEF SlotType
    <3>5. u[i] \in [holder : {NoHolder, KA, REQ}, name : TimerNames \cup {"none"}, active : BOOLEAN,
                    ms : 0..Longer, suspended : BOOLEAN]
      BY <2>1, <3>1, <3>2, Periods DEF SlotType
    <3>6. u[i].ms \in 0..PeriodOf(u[i].name) /\ u[i].ms > 0 /\ ts[i].ms > 0
      BY <2>1, <3>2, <3>3, <3>4, TimeAssumption DEF UsedSlot, PeriodOf
    <3>7. UsedSlot(u[i])
      BY <3>3, <3>4, <3>6 DEF UsedSlot
    <3> QED BY <2>1, <3>2, <3>4, <3>5, <3>7 DEF SlotType
  <2>4. CASE i \notin Running(ts)
    <3>1. u[i] = ts[i]
      BY <1>2, <2>4 DEF Expiring
    <3>2. ts[i].ms = 0
      BY <2>1, <2>4, RunningSlots
    <3> QED BY <2>1, <3>1, <3>2
  <2> QED BY <2>2, <2>3, <2>4
<1>4. u \in Seq(SlotType) /\ Len(u) = Len(ts)
  <2>1. u \in [1..Len(ts) -> SlotType]
    BY <1>2, <1>3
  <2> QED BY <1>1, <2>1
<1>5. Shape(u, P) /\ \A i \in 1..Len(ts) : ts[i].name # "none" => Left(u, ts[i].name) = u[i].ms
  BY <1>3, <1>4, SameNames
<1>6. ASSUME NEW n \in TimerNames
      PROVE  Left(u, n) = IF Left(ts, n) <= ms THEN 0 ELSE Left(ts, n) - ms
  <2>1. CASE n \in P
    <3>1. PICK i \in 1..Len(ts) : ts[i].name = n /\ Left(ts, n) = ts[i].ms
      BY <2>1, NameHasSlot
    <3> QED BY <1>3, <1>5, <3>1 DEF TimerNames
  <2>2. CASE n \notin P
    BY <1>5, <2>2, LeftRange
  <2> QED BY <2>1, <2>2
<1> QED BY <1>5, <1>6

\* The least wait; it is zero only if no timer runs.
LEMMA MinWaitFacts ==
    ASSUME NEW ts, NEW P, Shape(ts, P)
    PROVE  /\ GetMinWait(ts) \in 0..Longer
           /\ \A n \in TimerNames : Left(ts, n) # 0 => GetMinWait(ts) # 0 /\ GetMinWait(ts) <= Left(ts, n)
           /\ GetMinWait(ts) # 0 => \E n \in TimerNames : Left(ts, n) = GetMinWait(ts)
<1> DEFINE T == {ts[i].ms : i \in Running(ts)}
<1>1. \A i \in Running(ts) : /\ ts[i].ms \in 1..Longer
                             /\ ts[i].name \in TimerNames /\ Left(ts, ts[i].name) = ts[i].ms
  <2>1. \A i \in 1..Len(ts) : ts[i].ms \in 0..Longer
    BY SlotFacts DEF Shape
  <2> QED BY <2>1, RunningSlots, Periods
<1>2. T \subseteq Nat
  BY <1>1, Periods
<1>3. CASE Running(ts) = {}
  <2>1. GetMinWait(ts) = 0 /\ \A n \in TimerNames : Left(ts, n) = 0
    BY <1>3, RunningSlots DEF GetMinWait
  <2> QED BY <2>1, Periods
<1>4. CASE Running(ts) # {}
  <2>1. GetMinWait(ts) = Least(T)
    BY <1>4 DEF GetMinWait
  <2>2. T # {}
    BY <1>4
  <2> HIDE DEF T
  <2>3. Least(T) \in T /\ \A j \in T : Least(T) <= j
    BY <1>2, <2>2, LeastNumber
  <2>4. PICK i \in Running(ts) : Least(T) = ts[i].ms
    BY <2>3 DEF T
  <2>5. ASSUME NEW n \in TimerNames, Left(ts, n) # 0 PROVE Least(T) <= Left(ts, n)
    <3>1. PICK j \in Running(ts) : ts[j].name = n
      BY <2>5, RunningSlots
    <3>2. Left(ts, n) \in T
      BY <1>1, <3>1 DEF T
    <3> QED BY <2>3, <3>2
  <2>6. Least(T) \in 1..Longer
    BY <1>1, <2>4
  <2>7. GetMinWait(ts) \in 0..Longer /\ GetMinWait(ts) # 0
    BY <2>1, <2>6, Periods
  <2> QED BY <1>1, <2>1, <2>4, <2>5, <2>7
<1> QED BY <1>3, <1>4

-----------------------------------------------------------------------------
\* The order of the callbacks of a tick.

Below(S, s) == {j \in S : j < s}

LEMMA Ranks ==
    ASSUME NEW S, IsFiniteSet(S), S \subseteq Nat
    PROVE  /\ Cardinality(S) \in Nat
           /\ \A s \in S : /\ IsFiniteSet(Below(S, s))
                           /\ Cardinality(Below(S, s)) \in 0..(Cardinality(S) - 1)
           /\ \A s, t \in S : s < t => Cardinality(Below(S, s)) < Cardinality(Below(S, t))
<1>1. Cardinality(S) \in Nat
  BY FS_CardinalityType
<1>2. \A s \in S : IsFiniteSet(Below(S, s)) /\ Cardinality(Below(S, s)) \in Nat
  <2>1. \A s \in S : Below(S, s) \in SUBSET S
    BY DEF Below
  <2> QED BY <2>1, FS_Subset, FS_CardinalityType
<1>3. \A s \in S : s \in Nat /\ s \notin Below(S, s)
  BY DEF Below
<1>4. ASSUME NEW s \in S, NEW T \in SUBSET S, IsFiniteSet(T), Below(S, s) \cup {s} \subseteq T
      PROVE  Cardinality(Below(S, s)) + 1 <= Cardinality(T)
  <2>1. /\ IsFiniteSet(Below(S, s) \cup {s})
        /\ Cardinality(Below(S, s) \cup {s}) = Cardinality(Below(S, s)) + 1
    BY <1>2, <1>3, FS_AddElement
  <2> QED BY <1>4, <2>1, FS_Subset
<1>5. \A s \in S : Cardinality(Below(S, s)) \in 0..(Cardinality(S) - 1)
  <2>1. ASSUME NEW s \in S PROVE Cardinality(Below(S, s)) + 1 <= Cardinality(S)
    BY <1>4 DEF Below
  <2> QED BY <1>1, <1>2, <2>1
<1>6. ASSUME NEW s \in S, NEW t \in S, s < t
      PROVE  Cardinality(Below(S, s)) < Cardinality(Below(S, t))
  <2>1. Below(S, s) \cup {s} \subseteq Below(S, t) /\ Below(S, t) \in SUBSET S
    <3>1. \A j \in S : j < s => j < t
      BY <1>3, <1>6
    <3> QED BY <1>6, <3>1 DEF Below
  <2>2. Cardinality(Below(S, s)) + 1 <= Cardinality(Below(S, t))
    BY <1>2, <1>4, <2>1
  <2> QED BY <1>2, <2>2
<1> QED BY <1>1, <1>2, <1>5, <1>6

LEMMA RankExists ==
    ASSUME NEW S, IsFiniteSet(S), S \subseteq Nat, NEW i \in 0..(Cardinality(S) - 1)
    PROVE  \E s \in S : Cardinality(Below(S, s)) = i
<1>0. \A s, t \in S : s \in Nat /\ (s < t \/ t < s \/ s = t) /\ ~(s < t /\ t <= s)
  OBVIOUS
<1>1. Cardinality(S) \in Nat
  BY FS_CardinalityType
<1> DEFINE B == {k \in 0..(Cardinality(S) - 1) : ~\E s \in S : Cardinality(Below(S, s)) = k}
<1>2. SUFFICES ASSUME B # {} PROVE FALSE
  OBVIOUS
<1>3. B \subseteq Nat
  BY <1>1
<1>4. PICK b \in B : \A k \in B : b <= k
  <2> HIDE DEF B
  <2> QED BY <1>2, <1>3, LeastNumber
<1>5. b \in Nat /\ b < Cardinality(S) /\ ~\E s \in S : Cardinality(Below(S, s)) = b
  BY <1>1, <1>4
<1>6. S # {}
  BY <1>1, <1>5, FS_EmptySet
<1>7. CASE b = 0
  <2>1. PICK m \in S : \A n \in S : m <= n
    BY <1>6, LeastNumber
  <2>2. Below(S, m) = {}
    BY <1>0, <2>1 DEF Below
  <2> QED BY <1>5, <1>7, <2>2, FS_EmptySet
<1>8. CASE b # 0
  <2>1. b - 1 \in 0..(Cardinality(S) - 1) /\ b - 1 \notin B
    BY <1>1, <1>3, <1>4, <1>5, <1>8
  <2>2. PICK s \in S : Cardinality(Below(S, s)) = b - 1
    BY <2>1
  <2> DEFINE U == {r \in S : s < r}
  <2>3. /\ IsFiniteSet(Below(S, s) \cup {s})
        /\ Cardinality(Below(S, s) \cup {s}) = b
    <3>1. s \notin Below(S, s)
      BY DEF Below
    <3>2. IsFiniteSet(Below(S, s))
      BY Ranks
    <3>3. Cardinality(Below(S, s) \cup {s}) = Cardinality(Below(S, s)) + 1
      BY <3>1, <3>2, FS_AddElement
    <3>4. IsFiniteSet(Below(S, s) \cup {s})
      BY <3>1, <3>2, FS_AddElement
    <3> QED BY <1>5, <2>2, <3>3, <3>4
  <2>4. U # {} /\ U \subseteq Nat
    <3>1. ASSUME U = {} PROVE FALSE
      <4>1. S = Below(S, s) \cup {s}
        BY <1>0, <3>1 DEF Below
      <4>2. Cardinality(S) = b
        BY <2>3, <4>1
      <4> QED BY <1>5, <4>2
    <3> QED BY <3>1
  <2> HIDE DEF U
  <2>5. PICK t \in U : \A n \in U : t <= n
    BY <2>4, LeastNumber
  <2>6. Below(S, t) = Below(S, s) \cup {s}
    <3>1. t \in S /\ s < t /\ \A n \in S : s < n => t <= n
      BY <2>5 DEF U
    <3>2. \A j \in S : j < t <=> (j < s \/ j = s)
      BY <1>0, <3>1
    <3> QED BY <3>2 DEF Below
  <2> QED BY <1>5, <2>3, <2>5, <2>6 DEF U
<1> QED BY <1>7, <1>8

LEMMA InSlotOrderFacts ==
    ASSUME NEW S, IsFiniteSet(S), S \subseteq Nat
    PROVE  /\ Cardinality(S) \in Nat
           /\ InSlotOrder(S) \in [1..Cardinality(S) -> S] /\ Len(InSlotOrder(S)) = Cardinality(S)
           /\ \A s \in S : \E n \in 1..Cardinality(S) : InSlotOrder(S)[n] = s
           /\ \A n, m \in 1..Cardinality(S) : n # m => InSlotOrder(S)[n] # InSlotOrder(S)[m]
<1>1. Cardinality(S) \in Nat
  BY FS_CardinalityType
<1>2. \A n \in 1..Cardinality(S) :
         InSlotOrder(S)[n] = CHOOSE s \in S : Cardinality(Below(S, s)) = n - 1
  BY DEF InSlotOrder, Below
<1>3. \A n \in 1..Cardinality(S) :
         InSlotOrder(S)[n] \in S /\ Cardinality(Below(S, InSlotOrder(S)[n])) = n - 1
  <2>1. ASSUME NEW n \in 1..Cardinality(S)
        PROVE  \E s \in S : Cardinality(Below(S, s)) = n - 1
    <3>1. n - 1 \in 0..(Cardinality(S) - 1)
      BY <1>1
    <3> QED BY <3>1, RankExists
  <2> QED BY <1>2, <2>1
<1>4. InSlotOrder(S) \in [1..Cardinality(S) -> S]
  BY <1>3 DEF InSlotOrder
<1>5. Len(InSlotOrder(S)) = Cardinality(S)
  <2>1. InSlotOrder(S) \in Seq(S)
    BY <1>1, <1>4
  <2> QED BY <1>1, <1>4, <2>1
<1>6. ASSUME NEW s \in S PROVE \E n \in 1..Cardinality(S) : InSlotOrder(S)[n] = s
  <2>1. PICK k \in 0..(Cardinality(S) - 1) : k = Cardinality(Below(S, s))
    BY Ranks
  <2>2. k + 1 \in 1..Cardinality(S)
    BY <1>1
  <2>3. PICK t \in S : t = InSlotOrder(S)[k + 1] /\ Cardinality(Below(S, t)) = k
    <3>1. InSlotOrder(S)[k + 1] \in S /\ Cardinality(Below(S, InSlotOrder(S)[k + 1])) = (k + 1) - 1
      BY <1>3, <2>2
    <3>2. (k + 1) - 1 = k
      BY <1>1
    <3> QED BY <3>1, <3>2
  <2>4. ~(s < t) /\ ~(t < s)
    <3>1. (s < t => k < k) /\ (t < s => k < k)
      BY <2>1, <2>3, Ranks
    <3> QED BY <1>1, <3>1
  <2>5. s \in Nat /\ t \in Nat
    OBVIOUS
  <2> QED BY <2>5, <2>2, <2>3, <2>4
<1>7. ASSUME NEW n \in 1..Cardinality(S), NEW m \in 1..Cardinality(S), n # m
      PROVE  InSlotOrder(S)[n] # InSlotOrder(S)[m]
  BY <1>1, <1>3, <1>7
<1> QED BY <1>1, <1>4, <1>5, <1>6, <1>7

-----------------------------------------------------------------------------
\* The client as a record.

StateType ==
    [ts : Seq(SlotType), connected : BOOLEAN, request : {"none", "prepared", "sent"},
     sent : BOOLEAN, owed : BOOLEAN, rang : SUBSET TimerNames, undefined : BOOLEAN]

KeepAliveNames == {"ping", "recv", "resp"}

\* The timers that have a slot.
Present(r) ==
    (IF r.connected THEN KeepAliveNames ELSE {}) \cup (IF r.request # "none" THEN {"response"} ELSE {})

Base(r) == r \in StateType /\ Shape(r.ts, Present(r))

\* If the response time is not the longer one, the ping timer does not end before
\* the wait for the answer to a PINGREQ.
PingLast(ts) ==
    ResponseMs <= KeepAliveMs /\ Left(ts, "resp") # 0 => Left(ts, "ping") >= Left(ts, "resp")

\* Otherwise it may have ended without a PINGREQ, and does not run. The client
\* then waits for an answer or for the next message of the broker.
Skipped(r) ==
    ResponseMs > KeepAliveMs /\ r.owed /\ (Left(r.ts, "resp") # 0 \/ Left(r.ts, "recv") # 0)

Good(r) ==
    /\ Base(r) /\ PingLast(r.ts)
    /\ r.connected => Left(r.ts, "ping") # 0 \/ Skipped(r)
    /\ r.request = "sent" => Left(r.ts, "response") # 0

\* The timers that the time ms ends, and what it leaves of the others.
Due(ts, ms) == {n \in TimerNames : Left(ts, n) # 0 /\ Left(ts, n) <= ms}
After(ts, ms, n) == IF Left(ts, n) <= ms THEN 0 ELSE Left(ts, n) - ms

\* The ping timer does not run, and what the client waits for may be in T.
SkippedOr(r, T) ==
    /\ ResponseMs > KeepAliveMs /\ r.owed
    /\ Left(r.ts, "resp") # 0 \/ "resp" \in T \/ Left(r.ts, "recv") # 0 \/ "recv" \in T

\* r is what becomes of st in a tick of which the callbacks of T are not done.
InTick(st, ms, r, T) ==
    /\ Base(r)
    /\ r.rang \subseteq Due(st.ts, ms)
    /\ \A n \in TimerNames : Left(r.ts, n) \in {0, PeriodOf(n), After(st.ts, ms, n)}
    /\ st.sent => r.sent
    /\ r.connected => /\ st.connected
                      /\ Left(r.ts, "ping") # 0 \/ "ping" \in T \/ SkippedOr(r, T)
                      /\ ~r.sent => /\ Left(r.ts, "ping") = After(st.ts, ms, "ping")
                                    /\ Left(r.ts, "resp") = After(st.ts, ms, "resp")
                      /\ Left(r.ts, "recv") = After(st.ts, ms, "recv")
                      /\ "recv" \in Due(st.ts, ms) \ T => Left(r.ts, "resp") # 0
                      /\ "resp" \notin Due(st.ts, ms) \ T
                      /\ After(st.ts, ms, "resp") # 0 => Left(r.ts, "resp") = After(st.ts, ms, "resp")
    /\ r.request # "none" => /\ r.request = st.request /\ "response" \notin Due(st.ts, ms) \ T
                             /\ Left(r.ts, "response") = After(st.ts, ms, "response")
    /\ PingLast(r.ts)

LEMMA BaseFacts ==
    ASSUME NEW r, Base(r)
    PROVE  /\ Shape(r.ts, Present(r)) /\ r \in StateType
           /\ r.connected \in BOOLEAN /\ r.sent \in BOOLEAN /\ r.owed \in BOOLEAN /\ r.undefined \in BOOLEAN
           /\ r.rang \in SUBSET TimerNames /\ r.request \in {"none", "prepared", "sent"}
           /\ \A n \in KeepAliveNames : n \in TimerNames /\ HolderOf(n) = KA /\ (n \in Present(r) <=> r.connected)
           /\ "response" \in TimerNames /\ HolderOf("response") = REQ
           /\ "response" \in Present(r) <=> r.request # "none"
           /\ \A n \in TimerNames : Left(r.ts, n) \in 0..PeriodOf(n) /\ Left(r.ts, n) \in Nat
           /\ ~r.connected => \A n \in KeepAliveNames : Left(r.ts, n) = 0
           /\ r.request = "none" => Left(r.ts, "response") = 0
<1>1. Shape(r.ts, Present(r)) /\ r \in StateType
  BY DEF Base
<1>2. /\ r.connected \in BOOLEAN /\ r.sent \in BOOLEAN /\ r.owed \in BOOLEAN /\ r.undefined \in BOOLEAN
      /\ r.rang \in SUBSET TimerNames /\ r.request \in {"none", "prepared", "sent"}
  BY <1>1 DEF StateType
<1>3. \A n \in KeepAliveNames : n \in TimerNames /\ HolderOf(n) = KA /\ (n \in Present(r) <=> r.connected)
  BY DEF KeepAliveNames, TimerNames, HolderOf, Present
<1>4. /\ "response" \in TimerNames /\ HolderOf("response") = REQ
      /\ "response" \in Present(r) <=> r.request # "none"
  BY DEF KeepAliveNames, TimerNames, HolderOf, Present
<1>5. \A n \in TimerNames : Left(r.ts, n) \in 0..PeriodOf(n) /\ Left(r.ts, n) \in Nat
  BY <1>1, LeftRange
<1>6. \A n \in TimerNames : n \notin Present(r) => Left(r.ts, n) = 0
  BY <1>1, LeftRange
<1> QED BY <1>1, <1>2, <1>3, <1>4, <1>5, <1>6

\* Two clients that differ in their timers, and perhaps in what is not a timer.
SameRest(u, r) ==
    u.connected = r.connected /\ u.request = r.request /\ u.rang = r.rang /\ u.undefined = r.undefined

LEMMA SentFacts ==
    ASSUME NEW r, Base(r), NEW u, u = MessageSent(r)
    PROVE  /\ Base(u) /\ SameRest(u, r) /\ u.sent
           /\ r.connected => Left(u.ts, "ping") = KeepAliveMs /\ OthersLeft(u.ts, r.ts, "ping")
           /\ ~r.connected => u.ts = r.ts
<1>1. PICK v : v = IF r.connected THEN TimerWait(r.ts, KA, "ping", KeepAliveMs) ELSE r.ts
  OBVIOUS
<1>2. r \in StateType
  BY DEF Base
<1>3. u = [r EXCEPT !.sent = TRUE, !.owed = FALSE, !.ts = v]
  BY <1>1, <1>2 DEF MessageSent, StateType
<1>4. /\ u.connected = r.connected /\ u.request = r.request /\ u.rang = r.rang
      /\ u.undefined = r.undefined /\ u.sent = TRUE /\ u.ts = v
  BY <1>2, <1>3 DEF StateType
<1>5. /\ Shape(v, Present(r))
      /\ r.connected => Left(v, "ping") = KeepAliveMs /\ OthersLeft(v, r.ts, "ping")
      /\ ~r.connected => v = r.ts
  <2>1. CASE r.connected
    <3>1. v = TimerWait(r.ts, KA, "ping", KeepAliveMs)
      BY <1>1, <2>1
    <3>2. "ping" \in TimerNames /\ "ping" \in Present(r) /\ KA = HolderOf("ping")
      BY <2>1, BaseFacts DEF KeepAliveNames
    <3>3. KeepAliveMs \in 1..PeriodOf("ping")
      BY TimeAssumption DEF PeriodOf
    <3>4. Shape(r.ts, Present(r))
      BY DEF Base
    <3> QED BY <2>1, <3>1, <3>2, <3>3, <3>4, WaitFacts
  <2>2. CASE ~r.connected
    BY <1>1, <2>2 DEF Base
  <2> QED BY <2>1, <2>2
<1>6. u \in StateType
  <2>1. v \in Seq(SlotType)
    BY <1>5 DEF Shape
  <2> QED BY <1>2, <1>3, <2>1 DEF StateType
<1>7. Present(u) = Present(r)
  BY <1>4 DEF Present
<1> QED BY <1>4, <1>5, <1>6, <1>7 DEF Base, SameRest

LEMMA RequestGoneFacts ==
    ASSUME NEW r, Base(r), NEW u, u = RequestGone(r)
    PROVE  /\ Base(u) /\ u.connected = r.connected /\ u.request = "none" /\ u.owed = r.owed
           /\ u.sent = r.sent /\ u.rang = r.rang /\ u.undefined = r.undefined
           /\ Left(u.ts, "response") = 0 /\ OthersLeft(u.ts, r.ts, "response")
<1>1. PICK v : v = FreeTimers(r.ts, REQ)
  OBVIOUS
<1>2. r \in StateType /\ Shape(r.ts, Present(r))
  BY DEF Base
<1>3. u = [r EXCEPT !.request = "none", !.ts = v]
  BY <1>1, <1>2 DEF RequestGone, StateType
<1>4. /\ u.connected = r.connected /\ u.request = "none" /\ u.rang = r.rang /\ u.owed = r.owed
      /\ u.undefined = r.undefined /\ u.sent = r.sent /\ u.ts = v
  BY <1>2, <1>3 DEF StateType
<1>5. /\ Shape(v, {n \in Present(r) : HolderOf(n) # REQ})
      /\ \A n \in TimerNames : Left(v, n) = IF HolderOf(n) = REQ THEN 0 ELSE Left(r.ts, n)
  BY <1>1, <1>2, FreeFacts
<1>6. {n \in Present(r) : HolderOf(n) # REQ} = Present(u)
  BY <1>4 DEF Present, HolderOf, KeepAliveNames, KA, REQ
<1>7. u \in StateType
  <2>1. v \in Seq(SlotType)
    BY <1>5 DEF Shape
  <2> QED BY <1>2, <1>3, <2>1 DEF StateType
<1>8. Left(v, "response") = 0 /\ OthersLeft(v, r.ts, "response")
  BY <1>5 DEF OthersLeft, HolderOf, TimerNames, KA, REQ
<1> QED BY <1>4, <1>5, <1>6, <1>7, <1>8 DEF Base

LEMMA SessionOverFacts ==
    ASSUME NEW r, Base(r), NEW u, u = SessionOver(r)
    PROVE  /\ Base(u) /\ u.connected = FALSE /\ u.request = "none"
           /\ u.sent = r.sent /\ u.rang = r.rang /\ u.undefined = r.undefined
           /\ \A n \in TimerNames : Left(u.ts, n) = 0
<1>1. PICK q : q = RequestGone(r)
  OBVIOUS
<1>2. /\ Base(q) /\ q.connected = r.connected /\ q.request = "none"
      /\ q.sent = r.sent /\ q.rang = r.rang /\ q.undefined = r.undefined
      /\ Left(q.ts, "response") = 0
  BY <1>1, RequestGoneFacts
<1>3. PICK v : v = FreeTimers(q.ts, KA)
  OBVIOUS
<1>4. q \in StateType /\ Shape(q.ts, Present(q))
  BY <1>2 DEF Base
<1>5. u = [q EXCEPT !.connected = FALSE, !.ts = v]
  BY <1>1, <1>3, <1>4 DEF SessionOver, StateType
<1>6. /\ u.connected = FALSE /\ u.request = "none" /\ u.rang = q.rang
      /\ u.undefined = q.undefined /\ u.sent = q.sent /\ u.ts = v
  BY <1>2, <1>4, <1>5 DEF StateType
<1>7. /\ Shape(v, {n \in Present(q) : HolderOf(n) # KA})
      /\ \A n \in TimerNames : Left(v, n) = IF HolderOf(n) = KA THEN 0 ELSE Left(q.ts, n)
  BY <1>3, <1>4, FreeFacts
<1>8. {n \in Present(q) : HolderOf(n) # KA} = Present(u)
  BY <1>2, <1>6 DEF Present, HolderOf, KeepAliveNames, KA, REQ
<1>9. u \in StateType
  <2>1. v \in Seq(SlotType)
    BY <1>7 DEF Shape
  <2> QED BY <1>4, <1>5, <2>1 DEF StateType
<1>10. \A n \in TimerNames : Left(v, n) = 0
  BY <1>2, <1>7 DEF HolderOf, TimerNames, KA, REQ
<1> QED BY <1>2, <1>6, <1>7, <1>8, <1>9, <1>10 DEF Base

LEMMA SendPingFacts ==
    ASSUME NEW r, Base(r), r.connected, NEW u, u = SendPing(r)
    PROVE  /\ Base(u) /\ SameRest(u, r)
           /\ Left(r.ts, "resp") # 0 => u = r
           /\ Left(r.ts, "resp") = 0 =>
                 /\ u.sent /\ Left(u.ts, "ping") = KeepAliveMs /\ Left(u.ts, "resp") = ResponseMs
                 /\ Left(u.ts, "recv") = Left(r.ts, "recv")
                 /\ Left(u.ts, "response") = Left(r.ts, "response")
<1>1. "resp" \in TimerNames /\ "resp" \in Present(r) /\ KA = HolderOf("resp") /\ Shape(r.ts, Present(r))
  BY BaseFacts DEF KeepAliveNames
<1>2. TimerIsActive(r.ts, KA, "resp") <=> Left(r.ts, "resp") # 0
  BY <1>1, IsActive
<1>3. CASE Left(r.ts, "resp") # 0
  <2>1. u = r
    BY <1>2, <1>3 DEF SendPing
  <2> QED BY <1>3, <2>1 DEF SameRest
<1>4. CASE Left(r.ts, "resp") = 0
  <2>1. PICK q : q = MessageSent(r)
    OBVIOUS
  <2>2. /\ Base(q) /\ SameRest(q, r) /\ q.sent
        /\ Left(q.ts, "ping") = KeepAliveMs /\ OthersLeft(q.ts, r.ts, "ping")
    BY <2>1, SentFacts
  <2>3. PICK v : v = TimerWait(q.ts, KA, "resp", ResponseMs)
    OBVIOUS
  <2>4. q \in StateType /\ Shape(q.ts, Present(q)) /\ "resp" \in Present(q)
    BY <1>1, <2>2 DEF Base, SameRest, Present
  <2>5. u = [q EXCEPT !.ts = v]
    BY <1>2, <1>4, <2>1, <2>3, <2>4 DEF SendPing, StateType
  <2>6. /\ u.connected = q.connected /\ u.request = q.request /\ u.rang = q.rang
        /\ u.undefined = q.undefined /\ u.sent = q.sent /\ u.ts = v
    BY <2>4, <2>5 DEF StateType
  <2>7. ResponseMs \in 1..PeriodOf("resp")
    BY TimeAssumption DEF PeriodOf
  <2>8. Shape(v, Present(q)) /\ Left(v, "resp") = ResponseMs /\ OthersLeft(v, q.ts, "resp")
    BY <1>1, <2>3, <2>4, <2>7, WaitFacts
  <2>9. u \in StateType
    <3>1. v \in Seq(SlotType)
      BY <2>8 DEF Shape
    <3> QED BY <2>4, <2>5, <3>1 DEF StateType
  <2>10. Present(u) = Present(q)
    BY <2>6 DEF Present
  <2>11. Base(u) /\ SameRest(u, r) /\ u.sent
    BY <2>2, <2>6, <2>8, <2>9, <2>10 DEF Base, SameRest
  <2>12. /\ Left(v, "ping") = KeepAliveMs /\ Left(v, "recv") = Left(r.ts, "recv")
         /\ Left(v, "response") = Left(r.ts, "response")
    BY <2>2, <2>8 DEF OthersLeft, TimerNames
  <2> QED BY <1>4, <2>6, <2>8, <2>11, <2>12
<1> QED BY <1>3, <1>4

-----------------------------------------------------------------------------
\* A tick.

\* The operators on a client that only concern what is not a timer.
LEMMA RingFacts ==
    ASSUME NEW r, Base(r), NEW n \in TimerNames, NEW u, u = [r EXCEPT !.rang = @ \cup {n}]
    PROVE  /\ Base(u) /\ u.ts = r.ts /\ u.connected = r.connected /\ u.request = r.request
           /\ u.sent = r.sent /\ u.rang = r.rang \cup {n} /\ u.owed = r.owed
<1>1. r \in StateType
  BY DEF Base
<1>2. /\ u.ts = r.ts /\ u.connected = r.connected /\ u.request = r.request
      /\ u.sent = r.sent /\ u.rang = r.rang \cup {n} /\ u.owed = r.owed
  BY <1>1 DEF StateType
<1>3. u \in StateType
  BY <1>1 DEF StateType
<1>4. Present(u) = Present(r)
  BY <1>2 DEF Present
<1> QED BY <1>2, <1>3, <1>4 DEF Base

LEMMA OwedFacts ==
    ASSUME NEW r, Base(r), NEW c \in BOOLEAN, NEW u, u = [r EXCEPT !.owed = c]
    PROVE  /\ Base(u) /\ u.ts = r.ts /\ u.connected = r.connected /\ u.request = r.request
           /\ u.sent = r.sent /\ u.rang = r.rang /\ u.owed = c
<1>1. r \in StateType
  BY DEF Base
<1>2. /\ u.ts = r.ts /\ u.connected = r.connected /\ u.request = r.request
      /\ u.sent = r.sent /\ u.rang = r.rang /\ u.owed = c
  BY <1>1 DEF StateType
<1>3. u \in StateType
  BY <1>1 DEF StateType
<1>4. Present(u) = Present(r)
  BY <1>2 DEF Present
<1> QED BY <1>2, <1>3, <1>4 DEF Base

LEMMA UndefinedFacts ==
    ASSUME NEW r, Base(r), NEW u, u = [r EXCEPT !.undefined = TRUE]
    PROVE  /\ Base(u) /\ u.ts = r.ts /\ u.connected = r.connected /\ u.request = r.request
           /\ u.sent = r.sent /\ u.rang = r.rang /\ u.owed = r.owed
<1>1. r \in StateType
  BY DEF Base
<1>2. /\ u.ts = r.ts /\ u.connected = r.connected /\ u.request = r.request
      /\ u.sent = r.sent /\ u.rang = r.rang /\ u.owed = r.owed
  BY <1>1 DEF StateType
<1>3. u \in StateType
  BY <1>1 DEF StateType
<1>4. Present(u) = Present(r)
  BY <1>2 DEF Present
<1> QED BY <1>2, <1>3, <1>4 DEF Base

LEMMA AfterFacts ==
    ASSUME NEW st, Base(st), NEW ms \in Nat, NEW n \in TimerNames
    PROVE  /\ After(st.ts, ms, n) \in 0..PeriodOf(n) /\ After(st.ts, ms, n) \in Nat
           /\ After(st.ts, ms, n) # 0 <=> Left(st.ts, n) # 0 /\ n \notin Due(st.ts, ms)
           /\ After(st.ts, ms, n) # 0 => After(st.ts, ms, n) = Left(st.ts, n) - ms
<1>1. Left(st.ts, n) \in 0..PeriodOf(n) /\ Left(st.ts, n) \in Nat /\ PeriodOf(n) \in Nat
  BY BaseFacts, TimeAssumption DEF PeriodOf
<1> QED BY <1>1 DEF After, Due

LEMMA TickStarts ==
    ASSUME NEW st, Good(st), st.rang = {}, NEW ms \in Nat, NEW u, u = [st EXCEPT !.ts = Ticked(@, ms)]
    PROVE  InTick(st, ms, u, Due(st.ts, ms))
<1>1. st \in StateType /\ Shape(st.ts, Present(st)) /\ Base(st)
  BY DEF Good, Base
<1>2. PICK v : v = Ticked(st.ts, ms)
  OBVIOUS
<1>3. /\ u.ts = v /\ u.connected = st.connected /\ u.request = st.request
      /\ u.sent = st.sent /\ u.rang = {} /\ u.owed = st.owed
  BY <1>1, <1>2 DEF StateType
<1>4. Shape(v, Present(st)) /\ \A n \in TimerNames : Left(v, n) = After(st.ts, ms, n)
  BY <1>1, <1>2, TickedFacts DEF After
<1>5. Base(u)
  <2>1. v \in Seq(SlotType)
    BY <1>4 DEF Shape
  <2>2. u \in StateType
    BY <1>1, <1>2, <2>1 DEF StateType
  <2>3. Present(u) = Present(st)
    BY <1>3 DEF Present
  <2> QED BY <1>3, <1>4, <2>2, <2>3 DEF Base
<1>6. "ping" \in TimerNames /\ "recv" \in TimerNames /\ "resp" \in TimerNames
  BY DEF TimerNames
<1>7. ASSUME u.connected
      PROVE  Left(v, "ping") # 0 \/ "ping" \in Due(st.ts, ms) \/ SkippedOr(u, Due(st.ts, ms))
  <2>1. Left(st.ts, "ping") # 0 \/ Skipped(st)
    BY <1>3, <1>7 DEF Good
  <2>2. \A n \in {"ping", "recv", "resp"} : Left(st.ts, n) # 0 => Left(v, n) # 0 \/ n \in Due(st.ts, ms)
    BY <1>1, <1>4, <1>6, AfterFacts
  <2> QED BY <1>3, <2>1, <2>2 DEF Skipped, SkippedOr
<1>8. PingLast(v)
  <2>1. ASSUME ResponseMs <= KeepAliveMs, After(st.ts, ms, "resp") # 0
        PROVE  After(st.ts, ms, "ping") >= After(st.ts, ms, "resp")
    <3>1. Left(st.ts, "resp") # 0 /\ After(st.ts, ms, "resp") = Left(st.ts, "resp") - ms
      BY <1>1, <1>6, <2>1, AfterFacts
    <3>2. Left(st.ts, "ping") >= Left(st.ts, "resp")
      BY <2>1, <3>1 DEF Good, PingLast
    <3>3. Left(st.ts, "ping") \in Nat /\ Left(st.ts, "resp") \in Nat /\ After(st.ts, ms, "resp") \in Nat
      BY <1>1, <1>6, BaseFacts, AfterFacts
    <3>4. Left(st.ts, "resp") > ms
      BY <2>1, <3>1, <3>3
    <3>5. After(st.ts, ms, "ping") = Left(st.ts, "ping") - ms
      BY <3>2, <3>3, <3>4 DEF After
    <3> QED BY <3>1, <3>2, <3>3, <3>5
  <2> QED BY <1>4, <1>6, <2>1 DEF PingLast
<1>9. Left(v, "response") = After(st.ts, ms, "response")
  BY <1>4 DEF TimerNames
<1> QED BY <1>3, <1>4, <1>5, <1>6, <1>7, <1>8, <1>9 DEF InTick

\* One callback of a tick.
LEMMA CallbackStep ==
    ASSUME NEW st, Good(st), NEW ms \in Nat, NEW n \in Due(st.ts, ms),
           NEW T, NEW T2, T \subseteq T2 \cup {n},
           NEW r, InTick(st, ms, r, T),
           NEW slot, slot.name = n, slot.holder = HolderOf(n),
           NEW u, u = TimeoutCb(r, slot)
    PROVE  InTick(st, ms, u, T2)
<1> DEFINE D == Due(st.ts, ms)
           X(m) == After(st.ts, ms, m)
<1>0. Base(st) /\ n \in TimerNames /\ n \in D /\ D \subseteq TimerNames
  BY DEF Good, Due
<1>1. /\ Base(r) /\ r.rang \subseteq D
      /\ \A m \in TimerNames : Left(r.ts, m) \in {0, PeriodOf(m), X(m)}
      /\ st.sent => r.sent
      /\ PingLast(r.ts)
      /\ r.request # "none" => /\ r.request = st.request /\ "response" \notin D \ T
                               /\ Left(r.ts, "response") = X("response")
  BY DEF InTick
<1>2. ASSUME r.connected
      PROVE  /\ st.connected
             /\ Left(r.ts, "ping") # 0 \/ "ping" \in T \/ SkippedOr(r, T)
             /\ ~r.sent => Left(r.ts, "ping") = X("ping") /\ Left(r.ts, "resp") = X("resp")
             /\ Left(r.ts, "recv") = X("recv")
             /\ "recv" \in D \ T => Left(r.ts, "resp") # 0
             /\ "resp" \notin D \ T
             /\ X("resp") # 0 => Left(r.ts, "resp") = X("resp")
  BY <1>2 DEF InTick
<1>3. "ping" \in TimerNames /\ "recv" \in TimerNames /\ "resp" \in TimerNames /\ "response" \in TimerNames
  BY DEF TimerNames
<1>4. PICK q : q = [r EXCEPT !.rang = @ \cup {n}]
  OBVIOUS
<1>5. /\ Base(q) /\ q.ts = r.ts /\ q.connected = r.connected /\ q.request = r.request
      /\ q.sent = r.sent /\ q.rang = r.rang \cup {n} /\ q.owed = r.owed
  BY <1>0, <1>1, <1>4, RingFacts
<1> HIDE DEF D, X
<1>6. CASE ~Alive(r, slot.holder)
  <2>1. u = [r EXCEPT !.undefined = TRUE]
    BY <1>6 DEF TimeoutCb
  <2>2. /\ Base(u) /\ u.ts = r.ts /\ u.connected = r.connected /\ u.request = r.request
        /\ u.sent = r.sent /\ u.rang = r.rang /\ u.owed = r.owed
    BY <1>1, <2>1, UndefinedFacts
  <2>3. /\ r.connected => n = "response"
        /\ r.request # "none" => n # "response"
    BY <1>6 DEF Alive, HolderOf, KA, REQ
  <2>4. /\ r.connected => /\ \A m \in {"ping", "recv", "resp"} : m \in T => m \in T2
                          /\ "recv" \in D \ T2 => "recv" \in D \ T
                          /\ "resp" \in D \ T2 => "resp" \in D \ T
        /\ r.request # "none" => ("response" \in D \ T2 => "response" \in D \ T)
    BY <2>3
  <2>5. r.connected /\ SkippedOr(r, T) => SkippedOr(u, T2)
    BY <2>2, <2>4 DEF SkippedOr
  <2> QED BY <1>1, <1>2, <2>2, <2>4, <2>5 DEF InTick, D, X
<1>7. CASE Alive(r, slot.holder) /\ n \in {"ping", "recv"}
  <2>1. r.connected
    BY <1>7 DEF Alive, HolderOf, KA, REQ
  <2>2. PICK p : p = [q EXCEPT !.owed = @ \/ n = "ping"]
    OBVIOUS
  <2>3. u = SendPing(p)
    BY <1>4, <1>7, <2>2 DEF TimeoutCb
  <2>4. /\ Base(p) /\ p.ts = r.ts /\ p.connected = r.connected /\ p.request = r.request
        /\ p.sent = r.sent /\ p.rang = r.rang \cup {n} /\ (p.owed <=> r.owed \/ n = "ping")
    <3>1. q.owed \in BOOLEAN
      BY <1>5, BaseFacts
    <3>2. PICK c \in BOOLEAN : c = (q.owed \/ n = "ping")
      BY <3>1
    <3>3. p = [q EXCEPT !.owed = c]
      BY <2>2, <3>2
    <3>4. /\ Base(p) /\ p.ts = q.ts /\ p.connected = q.connected /\ p.request = q.request
          /\ p.sent = q.sent /\ p.rang = q.rang /\ p.owed = c
      BY <1>5, <3>3, OwedFacts
    <3> QED BY <1>5, <3>2, <3>4
  <2>5. /\ "ping" \in T /\ n # "ping" => "ping" \in T2
        /\ "recv" \in D \ T2 => "recv" \in D \ T \/ n = "recv"
        /\ "resp" \in D \ T2 => "resp" \in D \ T
        /\ "response" \in D \ T2 => "response" \in D \ T
    BY <1>7
  <2>6. p.rang \subseteq D
    BY <1>0, <1>1, <2>4
  <2>7. CASE Left(r.ts, "resp") # 0
    <3>1. u = p
      BY <2>1, <2>3, <2>4, <2>7, SendPingFacts
    <3>2. Left(r.ts, "ping") # 0 \/ "ping" \in T2 \/ SkippedOr(p, T2)
      <4>1. CASE n = "recv"
        BY <1>2, <2>1, <2>4, <2>5, <2>7, <4>1 DEF SkippedOr
      <4>2. CASE n = "ping"
        <5>1. Left(r.ts, "resp") \in Nat /\ Left(r.ts, "ping") \in Nat
          BY <1>1, <1>3, BaseFacts
        <5>2. Left(r.ts, "ping") # 0 \/ ResponseMs > KeepAliveMs
          BY <1>1, <2>7, <5>1, Periods DEF PingLast
        <5> QED BY <2>4, <2>7, <4>2, <5>2 DEF SkippedOr
      <4> QED BY <1>7, <4>1, <4>2
    <3> QED BY <1>1, <1>2, <2>1, <2>4, <2>5, <2>6, <2>7, <3>1, <3>2 DEF InTick, D, X
  <2>8. CASE Left(r.ts, "resp") = 0
    <3>1. /\ Base(u) /\ SameRest(u, p) /\ u.sent /\ Left(u.ts, "ping") = KeepAliveMs
          /\ Left(u.ts, "resp") = ResponseMs /\ Left(u.ts, "recv") = Left(r.ts, "recv")
          /\ Left(u.ts, "response") = Left(r.ts, "response")
      <4>1. p.connected /\ Left(p.ts, "resp") = 0
        BY <2>1, <2>4, <2>8
      <4>2. /\ Base(u) /\ SameRest(u, p) /\ u.sent /\ Left(u.ts, "ping") = KeepAliveMs
            /\ Left(u.ts, "resp") = ResponseMs /\ Left(u.ts, "recv") = Left(p.ts, "recv")
            /\ Left(u.ts, "response") = Left(p.ts, "response")
        BY <2>3, <2>4, <4>1, SendPingFacts
      <4> QED BY <2>4, <4>2
    <3>2. u.connected /\ u.rang = p.rang /\ u.request = r.request
      BY <2>1, <2>4, <3>1 DEF SameRest
    <3>3. u.rang \subseteq D
      BY <2>6, <3>2
    <3>4. \A m \in TimerNames : Left(u.ts, m) \in {0, PeriodOf(m), X(m)}
      BY <1>1, <1>3, <3>1 DEF TimerNames, PeriodOf
    <3>5. KeepAliveMs # 0 /\ ResponseMs # 0 /\ PingLast(u.ts)
      BY <3>1, Periods DEF PingLast
    <3>6. X("resp") = 0
      BY <1>2, <2>1, <2>8
    <3> QED BY <1>1, <1>2, <2>1, <2>5, <3>1, <3>2, <3>3, <3>4, <3>5, <3>6 DEF InTick, D, X
  <2> QED BY <2>7, <2>8
<1>8. CASE Alive(r, slot.holder) /\ n = "resp"
  <2>1. u = SessionOver(q)
    BY <1>4, <1>8 DEF TimeoutCb
  <2>2. /\ Base(u) /\ u.connected = FALSE /\ u.request = "none" /\ u.sent = q.sent /\ u.rang = q.rang
        /\ \A m \in TimerNames : Left(u.ts, m) = 0
    BY <1>5, <2>1, SessionOverFacts
  <2>3. u.rang \subseteq D
    BY <1>0, <1>1, <1>5, <2>2
  <2>4. PingLast(u.ts)
    BY <1>3, <2>2 DEF PingLast
  <2> QED BY <1>1, <1>5, <2>2, <2>3, <2>4 DEF InTick, D, X
<1>9. CASE Alive(r, slot.holder) /\ n = "response"
  <2>1. u = RequestGone(q)
    BY <1>4, <1>9 DEF TimeoutCb
  <2>2. /\ Base(u) /\ u.connected = r.connected /\ u.sent = r.sent /\ u.rang = q.rang
        /\ u.request = "none" /\ u.owed = r.owed
        /\ Left(u.ts, "response") = 0 /\ OthersLeft(u.ts, r.ts, "response")
    BY <1>5, <2>1, RequestGoneFacts
  <2>3. u.rang \subseteq D
    BY <1>0, <1>1, <1>5, <2>2
  <2>4. /\ Left(u.ts, "ping") = Left(r.ts, "ping") /\ Left(u.ts, "recv") = Left(r.ts, "recv")
        /\ Left(u.ts, "resp") = Left(r.ts, "resp")
    BY <1>3, <2>2 DEF OthersLeft
  <2>5. \A m \in TimerNames : Left(u.ts, m) \in {0, PeriodOf(m), X(m)}
    BY <1>1, <2>2, <2>4 DEF TimerNames
  <2>6. /\ \A m \in {"ping", "recv", "resp"} : m \in T => m \in T2
        /\ "recv" \in D \ T2 => "recv" \in D \ T
        /\ "resp" \in D \ T2 => "resp" \in D \ T
    BY <1>9
  <2>7. PingLast(u.ts)
    BY <1>1, <2>4 DEF PingLast
  <2>8. SkippedOr(r, T) => SkippedOr(u, T2)
    BY <2>2, <2>4, <2>6 DEF SkippedOr
  <2> QED BY <1>1, <1>2, <2>2, <2>3, <2>4, <2>5, <2>6, <2>7, <2>8 DEF InTick, D, X
<1> QED BY <1>0, <1>6, <1>7, <1>8, <1>9 DEF TimerNames

\* The states in a tick, of which called[n] is the one after n callbacks.
TickStates(f, st, ms, order, m) ==
    f = [n \in 0..m |-> IF n = 0 THEN [st EXCEPT !.ts = Ticked(@, ms)]
                        ELSE TimeoutCb(f[n - 1], st.ts[order[n]])]

LEMMA TickStatesExist ==
    ASSUME NEW st, NEW ms, NEW order, NEW m \in Nat
    PROVE  \E f : TickStates(f, st, ms, order, m)
<1> DEFINE B == {k \in Nat : ~\E f : TickStates(f, st, ms, order, k)}
<1>1. SUFFICES ASSUME B # {} PROVE FALSE
  OBVIOUS
<1>2. PICK b \in B : \A k \in B : b <= k
  <2>1. B \subseteq Nat
    OBVIOUS
  <2> HIDE DEF B
  <2> QED BY <1>1, <2>1, LeastNumber
<1>3. b \in Nat /\ ~\E f : TickStates(f, st, ms, order, b)
  BY <1>2
<1>4. CASE b = 0
  <2>1. PICK x : x = [st EXCEPT !.ts = Ticked(@, ms)]
    OBVIOUS
  <2> DEFINE f == [n \in 0..0 |-> x]
  <2>2. f = [n \in 0..0 |-> IF n = 0 THEN x ELSE TimeoutCb(f[n - 1], st.ts[order[n]])]
    OBVIOUS
  <2>3. TickStates(f, st, ms, order, 0)
    BY <2>1, <2>2 DEF TickStates
  <2> QED BY <1>3, <1>4, <2>3
<1>5. CASE b # 0
  <2>1. b - 1 \in Nat /\ b - 1 \notin B
    BY <1>2, <1>3, <1>5
  <2>2. PICK g : TickStates(g, st, ms, order, b - 1)
    BY <2>1
  <2>3. PICK x : x = [st EXCEPT !.ts = Ticked(@, ms)]
    OBVIOUS
  <2>4. PICK y : y = TimeoutCb(g[b - 1], st.ts[order[b]])
    OBVIOUS
  <2>5. \A n \in 0..(b - 1) : g[n] = IF n = 0 THEN x ELSE TimeoutCb(g[n - 1], st.ts[order[n]])
    BY <2>2, <2>3 DEF TickStates
  <2> DEFINE f == [n \in 0..b |-> IF n = b THEN y ELSE g[n]]
  <2>6. ASSUME NEW n \in 0..b
        PROVE  f[n] = IF n = 0 THEN x ELSE TimeoutCb(f[n - 1], st.ts[order[n]])
    <3>1. CASE n = b
      <4>1. f[n] = y /\ f[n - 1] = g[n - 1]
        BY <1>3, <1>5, <3>1
      <4> QED BY <1>5, <2>4, <3>1, <4>1
    <3>2. CASE n # b
      <4>1. n \in 0..(b - 1) /\ f[n] = g[n] /\ (n # 0 => f[n - 1] = g[n - 1])
        BY <1>3, <3>2
      <4> HIDE DEF f
      <4> QED BY <2>5, <4>1
    <3> QED BY <3>1, <3>2
  <2>7. f = [n \in 0..b |-> IF n = 0 THEN x ELSE TimeoutCb(f[n - 1], st.ts[order[n]])]
    <3> HIDE DEF f
    <3>1. f = [n \in 0..b |-> f[n]]
      BY DEF f
    <3> QED BY <2>6, <3>1
  <2>8. TickStates(f, st, ms, order, b)
    BY <2>3, <2>7 DEF TickStates
  <2> QED BY <1>3, <2>8
<1> QED BY <1>4, <1>5

LEMMA TickBySteps ==
    ASSUME NEW st, NEW ms, NEW order, order = InSlotOrder(Expiring(st.ts, ms)), Len(order) \in Nat
    PROVE  \E f : TickStates(f, st, ms, order, Len(order)) /\ TickBy(st, ms) = f[Len(order)]
<1>1. PICK m : m = Len(order)
  OBVIOUS
<1> DEFINE c == CHOOSE f : TickStates(f, st, ms, order, m)
<1>2. TickStates(c, st, ms, order, m)
  <2>1. \E f : TickStates(f, st, ms, order, m)
    BY <1>1, TickStatesExist
  <2> QED BY <2>1
<1>3. TickBy(st, ms) = c[m]
  BY <1>1 DEF TickBy, TickStates
<1> QED BY <1>1, <1>2, <1>3

\* A tick, which calls what it has collected.
LEMMA TickFacts ==
    ASSUME NEW st, Good(st), st.rang = {}, NEW ms \in Nat, NEW r, r = TickBy(st, ms)
    PROVE  InTick(st, ms, r, {})
<1>1. PICK E : E = Expiring(st.ts, ms)
  OBVIOUS
<1>2. Shape(st.ts, Present(st)) /\ Base(st)
  BY DEF Good, Base
<1>3. st.ts \in Seq(SlotType) /\ Len(st.ts) \in Nat
  BY <1>2 DEF Shape
<1>4. E = {i \in 1..Len(st.ts) : st.ts[i].ms > 0 /\ st.ts[i].ms <= ms}
  BY <1>1, <1>2, RunningSlots
<1>5. IsFiniteSet(E) /\ E \subseteq Nat
  <2>1. IsFiniteSet(1..Len(st.ts))
    BY <1>3, FS_Interval
  <2>2. E \subseteq 1..Len(st.ts) /\ E \subseteq Nat
    BY <1>3, <1>4
  <2> QED BY <2>1, <2>2, FS_Subset
<1>6. PICK order : order = InSlotOrder(E)
  OBVIOUS
<1>7. PICK m : m = Len(order)
  OBVIOUS
<1>8. /\ m \in Nat /\ order \in [1..m -> E]
      /\ \A i \in E : \E k \in 1..m : order[k] = i
  <2>1. PICK c : c = Cardinality(E)
    OBVIOUS
  <2>2. c \in Nat /\ order \in [1..c -> E] /\ Len(order) = c
    BY <1>5, <1>6, <2>1, InSlotOrderFacts
  <2>3. \A i \in E : \E k \in 1..c : order[k] = i
    BY <1>5, <1>6, <2>1, InSlotOrderFacts
  <2> QED BY <1>7, <2>2, <2>3
<1>9. PICK f : TickStates(f, st, ms, order, m) /\ r = f[m]
  BY <1>1, <1>6, <1>7, <1>8, TickBySteps
<1>10. /\ f[0] = [st EXCEPT !.ts = Ticked(@, ms)]
       /\ \A k \in 1..m : f[k] = TimeoutCb(f[k - 1], st.ts[order[k]])
  <2>1. \A k \in 0..m : f[k] = IF k = 0 THEN [st EXCEPT !.ts = Ticked(@, ms)]
                               ELSE TimeoutCb(f[k - 1], st.ts[order[k]])
    BY <1>9 DEF TickStates
  <2>2. 0 \in 0..m /\ \A k \in 1..m : k \in 0..m /\ k # 0
    BY <1>8
  <2> QED BY <2>1, <2>2
<1> DEFINE T(k) == {st.ts[order[j]].name : j \in (k + 1)..m}
<1>11. ASSUME NEW i \in E
       PROVE  st.ts[i].name \in Due(st.ts, ms) /\ st.ts[i].holder = HolderOf(st.ts[i].name)
  <2>1. i \in 1..Len(st.ts) /\ st.ts[i] \in SlotType /\ st.ts[i].ms > 0 /\ st.ts[i].ms <= ms
    BY <1>3, <1>4
  <2>2. st.ts[i].name # "none"
    BY <2>1, SlotFacts
  <2>3. /\ st.ts[i].name \in TimerNames /\ Left(st.ts, st.ts[i].name) = st.ts[i].ms
        /\ UsedSlot(st.ts[i]) /\ st.ts[i].ms # 0
    BY <1>2, <2>1, <2>2, SlotOfName, SlotFacts
  <2> QED BY <2>1, <2>3 DEF Due, UsedSlot
<1>12. Due(st.ts, ms) = T(0)
  <2>1. ASSUME NEW n \in Due(st.ts, ms) PROVE n \in T(0)
    <3>1. n \in TimerNames /\ Left(st.ts, n) # 0 /\ Left(st.ts, n) <= ms
      BY <2>1 DEF Due
    <3>2. PICK i \in Running(st.ts) : st.ts[i].name = n /\ Left(st.ts, n) = st.ts[i].ms
      BY <1>2, <3>1, RunningSlots
    <3>3. i \in E
      BY <1>2, <1>4, <3>1, <3>2, RunningSlots
    <3>4. PICK k \in 1..m : order[k] = i
      BY <1>8, <3>3
    <3>5. k \in (0 + 1)..m
      BY <1>8, <3>4
    <3> QED BY <3>2, <3>4, <3>5
  <2>2. ASSUME NEW k \in (0 + 1)..m PROVE st.ts[order[k]].name \in Due(st.ts, ms)
    BY <1>8, <1>11, <2>2
  <2> QED BY <2>1, <2>2
<1>13. InTick(st, ms, f[0], T(0))
  <2>1. PICK x : x = f[0]
    OBVIOUS
  <2>2. InTick(st, ms, x, Due(st.ts, ms))
    BY <1>10, <2>1, TickStarts
  <2> HIDE DEF T
  <2> QED BY <1>12, <2>1, <2>2
<1>14. ASSUME NEW k \in 1..m, InTick(st, ms, f[k - 1], T(k - 1)) PROVE InTick(st, ms, f[k], T(k))
  <2>1. order[k] \in E
    BY <1>8
  <2>2. PICK slot : slot = st.ts[order[k]]
    OBVIOUS
  <2>3. slot.name \in Due(st.ts, ms) /\ slot.holder = HolderOf(slot.name)
    BY <1>11, <2>1, <2>2
  <2>4. T(k - 1) \subseteq T(k) \cup {slot.name}
    <3>1. ASSUME NEW j \in ((k - 1) + 1)..m PROVE st.ts[order[j]].name \in T(k) \cup {slot.name}
      <4>1. j = k \/ j \in (k + 1)..m
        BY <1>8, <3>1
      <4> QED BY <2>2, <4>1
    <3> QED BY <3>1
  <2>5. f[k] = TimeoutCb(f[k - 1], slot)
    BY <1>10, <2>2
  <2> HIDE DEF T
  <2> QED BY <1>14, <2>3, <2>4, <2>5, CallbackStep
<1>15. InTick(st, ms, f[m], T(m))
  <2> HIDE DEF T
  <2> DEFINE B == {k \in 0..m : ~InTick(st, ms, f[k], T(k))}
  <2>1. SUFFICES ASSUME B # {} PROVE FALSE
    BY <1>8
  <2>2. PICK b \in B : \A k \in B : b <= k
    <3>1. B \subseteq Nat
      BY <1>8
    <3> HIDE DEF B
    <3> QED BY <2>1, <3>1, LeastNumber
  <2>3. b \in 0..m /\ ~InTick(st, ms, f[b], T(b)) /\ b # 0
    BY <1>13, <2>2
  <2>4. b \in 1..m /\ b - 1 \in 0..m /\ b - 1 \notin B
    BY <1>8, <2>2, <2>3
  <2>5. InTick(st, ms, f[b - 1], T(b - 1))
    BY <2>4
  <2> QED BY <1>14, <2>3, <2>4, <2>5
<1>16. T(m) = {}
  BY <1>8
<1> QED BY <1>9, <1>15, <1>16

\* What a call finds once it has entered the guard.
Idle(ts) == \A n \in TimerNames : Left(ts, n) = 0

LEMMA EnteredFacts ==
    ASSUME NEW st, Good(st), st.rang = {}, since \in Nat, NEW r, r = Entered(st)
    PROVE  /\ InTick(st, since, r, {})
           /\ TakesWaitBack(st) <=> ~Idle(st.ts)
           /\ ~TakesWaitBack(st) => r = st
<1>1. Base(st) /\ Shape(st.ts, Present(st))
  BY DEF Good, Base
<1>2. TakesWaitBack(st) <=> ~Idle(st.ts)
  BY <1>1, MinWaitFacts DEF TakesWaitBack, Idle
<1>3. CASE TakesWaitBack(st)
  <2>1. r = TickBy(st, since)
    BY <1>3 DEF Entered, Elapsed
  <2> QED BY <1>2, <1>3, <2>1, TickFacts
<1>4. CASE ~TakesWaitBack(st)
  <2>1. r = st /\ Idle(st.ts)
    BY <1>2, <1>4 DEF Entered
  <2>2. ~st.connected
    BY <2>1 DEF Good, Skipped, Idle, TimerNames
  <2>3. Due(st.ts, since) = {} /\ \A n \in TimerNames : After(st.ts, since, n) = 0
    BY <2>1, since \in Nat DEF Due, After, Idle
  <2>4. InTick(st, since, st, {})
    BY <1>1, <2>1, <2>2, <2>3 DEF InTick, Idle, Good, TimerNames
  <2> QED BY <1>2, <1>4, <2>1, <2>4
<1> QED BY <1>3, <1>4

-----------------------------------------------------------------------------
\* The inductive invariant.

\* The wait of the application covers every timer that runs.
Covers(ts, w) == \A n \in TimerNames : Left(ts, n) # 0 => w # NoWait /\ w <= Left(ts, n)

\* The broker that has been silent for the time h will be noticed: by the receive
\* timer or by the wait for the PINGRESP, of which the time s is not charged yet.
Watched(ts, h, s) ==
    \/ Left(ts, "recv") # 0 /\ h + Left(ts, "recv") - s <= KeepAliveMs
    \/ Left(ts, "resp") # 0 /\ h + Left(ts, "resp") - s <= KeepAliveMs + Latency + ResponseMs

\* How long the client has been silent: x is the time since it sent a message, sp
\* says whether it sent one in this session. The first ping timer of a session
\* starts at the CONNACK, which was awaited for the response time.
SentTimed(ts, x, sp, s) ==
    /\ Left(ts, "ping") # 0 => x + Left(ts, "ping") - s <= KeepAliveMs + (IF sp THEN 0 ELSE ResponseMs)
    /\ Left(ts, "resp") # 0 => sp /\ x + Left(ts, "resp") - s <= ResponseMs
    /\ Left(ts, "response") # 0 => x + Left(ts, "response") - s <= ResponseMs

\* The receive timer runs since the last message of the broker.
RecvTimed(ts, h, e, s) == Left(ts, "recv") # 0 => e /\ h + Left(ts, "recv") - s <= KeepAliveMs

TimeInv ==
    /\ Good(State)
    /\ wait \in 0..Longer /\ since \in Nat /\ since <= wait + Latency
    /\ wait = NoWait => since = 0
    /\ Covers(timers, wait)
    /\ sinceSent \in Nat /\ sinceHeard \in Nat /\ heard \in BOOLEAN
    /\ spoken \in BOOLEAN /\ (spoken => connected)
    /\ SentTimed(timers, sinceSent, spoken, since)
    /\ RecvTimed(timers, sinceHeard, heard, since)
    /\ connected /\ heard => Watched(timers, sinceHeard, since)

-----------------------------------------------------------------------------
\* What a call has made of the client when it leaves.

Called(r) ==
    /\ Good(r)
    /\ r.rang \cap AlarmNames \subseteq Due(timers, since)
    /\ \A n \in AlarmNames : Left(r.ts, n) \in {0, PeriodOf(n), After(timers, since, n)}
    /\ ~r.sent => SentTimed(r.ts, sinceSent, r.connected /\ spoken, 0)

\* The silence of the broker is watched, if there is to be a watch.
Watch(r, h, e) == (r.connected /\ e => Watched(r.ts, h, 0)) /\ RecvTimed(r.ts, h, e, 0)

LEMMA Names ==
    /\ AlarmNames \subseteq TimerNames /\ "ping" \in TimerNames /\ "recv" \in TimerNames
    /\ "resp" \in TimerNames /\ "response" \in TimerNames /\ "ping" \notin AlarmNames
    /\ "recv" \in AlarmNames /\ "resp" \in AlarmNames /\ "response" \in AlarmNames
    /\ PeriodOf("ping") = KeepAliveMs /\ PeriodOf("recv") = KeepAliveMs
    /\ PeriodOf("resp") = ResponseMs /\ PeriodOf("response") = ResponseMs
    /\ HolderOf("ping") = KA /\ HolderOf("recv") = KA /\ HolderOf("resp") = KA
    /\ HolderOf("response") = REQ
    /\ KeepAliveMs \in Nat /\ ResponseMs \in Nat /\ Latency \in Nat
    /\ 0 < ResponseMs /\ 0 < KeepAliveMs
    /\ Longer \in Nat /\ KeepAliveMs <= Longer /\ ResponseMs <= Longer
    /\ TimerNames = AlarmNames \cup {"ping"} /\ AlarmNames = {"recv", "resp", "response"}
  BY TimeAssumption, Periods DEF AlarmNames, TimerNames, PeriodOf, HolderOf

LEMMA StateFacts ==
    ASSUME TimeInv
    PROVE  /\ Good(State) /\ Base(State) /\ State.rang = {} /\ State.ts = timers
           /\ State.connected = connected /\ State.request = request /\ State.owed = owed /\ ~State.sent
           /\ \A n \in TimerNames : Left(timers, n) \in 0..PeriodOf(n) /\ Left(timers, n) \in Nat
           /\ \A n \in TimerNames : Left(timers, n) # 0 => since <= Left(timers, n) + Latency
<1>1. Good(State) /\ Base(State)
  BY DEF TimeInv, Good
<1>2. /\ State.rang = {} /\ State.ts = timers
      /\ State.connected = connected /\ State.request = request /\ State.owed = owed /\ ~State.sent
  BY DEF State
<1>3. \A n \in TimerNames : Left(timers, n) \in 0..PeriodOf(n) /\ Left(timers, n) \in Nat
  BY <1>1, <1>2, BaseFacts
<1>4. ASSUME NEW n \in TimerNames, Left(timers, n) # 0 PROVE since <= Left(timers, n) + Latency
  <2>1. wait <= Left(timers, n) /\ since <= wait + Latency /\ wait \in Nat /\ since \in Nat
    BY <1>4, Names DEF TimeInv, Covers
  <2> QED BY <1>3, <2>1, Names
<1> QED BY <1>1, <1>2, <1>3, <1>4

\* The client after the time that passed was charged, perhaps after a message
\* that a call sends before it enters.
LEMMA AfterTick ==
    ASSUME TimeInv, NEW st, Good(st), st.connected = connected,
           OthersLeft(st.ts, timers, "ping"), st.sent \/ Left(st.ts, "ping") = Left(timers, "ping"),
           NEW r, InTick(st, since, r, {})
    PROVE  Called(r) /\ Watch(r, sinceHeard, heard) /\ (r.connected => connected)
<1>0. /\ since \in Nat /\ sinceSent \in Nat /\ sinceHeard \in Nat /\ State.ts = timers /\ Base(State)
      /\ Base(st)
  BY StateFacts DEF TimeInv, Good
<1>2. \A n \in AlarmNames : Left(st.ts, n) = Left(timers, n) /\ n \in TimerNames /\ n # "ping"
  BY Names DEF OthersLeft
<1>3. /\ Base(r) /\ r.rang \subseteq Due(st.ts, since) /\ (st.sent => r.sent)
      /\ \A n \in TimerNames : Left(r.ts, n) \in {0, PeriodOf(n), After(st.ts, since, n)}
      /\ r.request # "none" => /\ r.request = st.request /\ "response" \notin Due(st.ts, since)
                               /\ Left(r.ts, "response") = After(st.ts, since, "response")
      /\ PingLast(r.ts)
  BY DEF InTick
<1>4. \A n \in AlarmNames : /\ After(st.ts, since, n) = After(timers, since, n)
                            /\ n \in Due(st.ts, since) <=> n \in Due(timers, since)
  BY <1>2 DEF After, Due
<1>5. ASSUME r.connected
      PROVE  /\ connected /\ (Left(r.ts, "ping") # 0 \/ Skipped(r))
             /\ Left(r.ts, "recv") = After(timers, since, "recv")
             /\ "recv" \in Due(timers, since) => Left(r.ts, "resp") # 0
             /\ "resp" \notin Due(timers, since)
             /\ After(timers, since, "resp") # 0 => Left(r.ts, "resp") = After(timers, since, "resp")
             /\ ~r.sent => /\ Left(r.ts, "ping") = After(timers, since, "ping")
                           /\ Left(r.ts, "resp") = After(timers, since, "resp")
  <2>1. /\ st.connected /\ (Left(r.ts, "ping") # 0 \/ SkippedOr(r, {}))
        /\ Left(r.ts, "recv") = After(st.ts, since, "recv")
        /\ "recv" \in Due(st.ts, since) => Left(r.ts, "resp") # 0
        /\ "resp" \notin Due(st.ts, since)
        /\ After(st.ts, since, "resp") # 0 => Left(r.ts, "resp") = After(st.ts, since, "resp")
        /\ ~r.sent => /\ Left(r.ts, "ping") = After(st.ts, since, "ping")
                      /\ Left(r.ts, "resp") = After(st.ts, since, "resp")
    BY <1>5 DEF InTick
  <2>2. connected
    BY <2>1
  <2>3. ~r.sent => After(st.ts, since, "ping") = After(timers, since, "ping")
    BY <1>3 DEF After
  <2>4. Left(r.ts, "ping") # 0 \/ Skipped(r)
    BY <2>1 DEF Skipped, SkippedOr
  <2> QED BY <1>4, <2>1, <2>2, <2>3, <2>4, Names
<1>6. \A n \in TimerNames : /\ After(timers, since, n) \in Nat
                            /\ After(timers, since, n) # 0 <=> Left(timers, n) # 0 /\ n \notin Due(timers, since)
                            /\ After(timers, since, n) # 0 => After(timers, since, n) = Left(timers, n) - since
  BY <1>0, AfterFacts
<1>7. \A n \in TimerNames : /\ Left(timers, n) \in Nat
                            /\ Left(timers, n) # 0 => since <= Left(timers, n) + Latency
  BY StateFacts
<1>8. \A n \in TimerNames : Left(r.ts, n) \in 0..PeriodOf(n) /\ Left(r.ts, n) \in Nat
  BY <1>3, BaseFacts
<1>9. ASSUME r.connected, heard PROVE Watched(r.ts, sinceHeard, 0)
  <2>1. Watched(timers, sinceHeard, since)
    BY <1>5, <1>9 DEF TimeInv
  <2>2. CASE Left(timers, "recv") # 0 /\ sinceHeard + Left(timers, "recv") - since <= KeepAliveMs
    <3>1. CASE "recv" \in Due(timers, since)
      <4>1. Left(r.ts, "resp") # 0 /\ Left(r.ts, "resp") <= ResponseMs /\ Left(r.ts, "resp") \in Nat
        BY <1>5, <1>8, <1>9, <3>1, Names
      <4>2. sinceHeard <= KeepAliveMs + Latency
        BY <1>0, <1>7, <2>2, Names
      <4> QED BY <1>0, <4>1, <4>2, Names DEF Watched
    <3>2. CASE "recv" \notin Due(timers, since)
      <4>1. Left(r.ts, "recv") # 0 /\ Left(r.ts, "recv") = Left(timers, "recv") - since
        BY <1>5, <1>6, <1>9, <2>2, <3>2, Names
      <4> QED BY <1>0, <1>7, <2>2, <4>1, Names DEF Watched
    <3> QED BY <3>1, <3>2
  <2>3. CASE /\ Left(timers, "resp") # 0
             /\ sinceHeard + Left(timers, "resp") - since <= KeepAliveMs + Latency + ResponseMs
    <3>1. Left(r.ts, "resp") # 0 /\ Left(r.ts, "resp") = Left(timers, "resp") - since
      BY <1>5, <1>6, <1>9, <2>3, Names
    <3> QED BY <1>0, <1>7, <2>3, <3>1, Names DEF Watched
  <2> QED BY <2>1, <2>2, <2>3 DEF Watched
<1>10. Good(r)
  <2>1. ASSUME r.request = "sent" PROVE Left(r.ts, "response") # 0
    <3>1. Left(st.ts, "response") # 0 /\ "response" \notin Due(st.ts, since)
      BY <1>3, <2>1 DEF Good
    <3> QED BY <1>0, <1>3, <2>1, <3>1, AfterFacts, Names
  <2> QED BY <1>3, <1>5, <2>1 DEF Good
<1>11. r.rang \cap AlarmNames \subseteq Due(timers, since)
  BY <1>3, <1>4
<1>12. \A n \in AlarmNames : Left(r.ts, n) \in {0, PeriodOf(n), After(timers, since, n)}
  BY <1>2, <1>3, <1>4
<1>13. /\ ~r.connected => Left(r.ts, "ping") = 0 /\ Left(r.ts, "resp") = 0 /\ Left(r.ts, "recv") = 0
       /\ r.request = "none" => Left(r.ts, "response") = 0
  BY <1>3, BaseFacts DEF KeepAliveNames
<1>14. ASSUME ~r.sent PROVE SentTimed(r.ts, sinceSent, r.connected /\ spoken, 0)
  <2>0. SentTimed(timers, sinceSent, spoken, since)
    BY DEF TimeInv
  <2>1. ASSUME Left(r.ts, "ping") # 0
        PROVE  /\ r.connected /\ Left(timers, "ping") # 0
               /\ Left(r.ts, "ping") = Left(timers, "ping") - since
    BY <1>5, <1>6, <1>13, <1>14, <2>1, Names
  <2>2. ASSUME Left(r.ts, "resp") # 0
        PROVE  /\ r.connected /\ Left(timers, "resp") # 0
               /\ Left(r.ts, "resp") = Left(timers, "resp") - since
    BY <1>5, <1>6, <1>13, <1>14, <2>2, Names
  <2>3. ASSUME Left(r.ts, "response") # 0
        PROVE  /\ Left(timers, "response") # 0
               /\ Left(r.ts, "response") = Left(timers, "response") - since
    BY <1>3, <1>4, <1>6, <1>13, <2>3, Names
  <2>4. Left(r.ts, "ping") # 0 =>
           sinceSent + Left(r.ts, "ping") - 0 <= KeepAliveMs + (IF r.connected /\ spoken THEN 0 ELSE ResponseMs)
    BY <1>0, <1>7, <2>0, <2>1, Names DEF SentTimed
  <2>5. Left(r.ts, "resp") # 0 =>
           r.connected /\ spoken /\ sinceSent + Left(r.ts, "resp") - 0 <= ResponseMs
    BY <1>0, <1>7, <2>0, <2>2, Names DEF SentTimed
  <2>6. Left(r.ts, "response") # 0 => sinceSent + Left(r.ts, "response") - 0 <= ResponseMs
    BY <1>0, <1>7, <2>0, <2>3, Names DEF SentTimed
  <2> QED BY <2>4, <2>5, <2>6 DEF SentTimed
<1>15. RecvTimed(r.ts, sinceHeard, heard, 0)
  <2>1. ASSUME Left(r.ts, "recv") # 0
        PROVE  /\ Left(timers, "recv") # 0
               /\ Left(r.ts, "recv") = Left(timers, "recv") - since
    BY <1>5, <1>6, <1>13, <2>1, Names
  <2>2. RecvTimed(timers, sinceHeard, heard, since)
    BY DEF TimeInv
  <2> QED BY <1>0, <1>7, <2>1, <2>2, Names DEF RecvTimed
<1> QED BY <1>5, <1>9, <1>10, <1>11, <1>12, <1>14, <1>15 DEF Called, Watch

\* What a call does to the client once it has entered.
LEMMA SentCalled ==
    ASSUME NEW r, Called(r), NEW u, u = MessageSent(r), NEW h, NEW e, Watch(r, h, e)
    PROVE  Called(u) /\ Watch(u, h, e)
<1>1. Base(r) /\ Good(r)
  BY DEF Called, Good
<1>2. /\ Base(u) /\ SameRest(u, r) /\ u.sent
      /\ r.connected => Left(u.ts, "ping") = KeepAliveMs /\ OthersLeft(u.ts, r.ts, "ping")
      /\ ~r.connected => u.ts = r.ts
  BY <1>1, SentFacts
<1>3. \A n \in AlarmNames : Left(u.ts, n) = Left(r.ts, n)
  BY <1>2, Names DEF OthersLeft
<1>4. PingLast(u.ts)
  <2>1. CASE r.connected
    <3>1. Left(u.ts, "resp") \in 0..ResponseMs
      BY <1>2, BaseFacts, Names
    <3> QED BY <1>2, <2>1, <3>1, Names DEF PingLast
  <2>2. CASE ~r.connected
    BY <1>1, <1>2, <2>2 DEF Good
  <2> QED BY <2>1, <2>2
<1>5. Good(u)
  BY <1>1, <1>2, <1>3, <1>4, Names DEF Good, SameRest
<1>6. Called(u)
  BY <1>2, <1>3, <1>5 DEF Called, SameRest
<1>7. Watch(u, h, e)
  BY <1>2, <1>3, Names DEF Watch, Watched, RecvTimed, SameRest
<1> QED BY <1>6, <1>7

LEMMA GoneCalled ==
    ASSUME NEW r, Called(r), NEW u, u = RequestGone(r), NEW h, NEW e, Watch(r, h, e)
    PROVE  Called(u) /\ Watch(u, h, e)
<1>1. Base(r) /\ Good(r)
  BY DEF Called, Good
<1>2. /\ Base(u) /\ u.connected = r.connected /\ u.sent = r.sent /\ u.rang = r.rang
      /\ u.owed = r.owed /\ u.request = "none" /\ Left(u.ts, "response") = 0 /\ OthersLeft(u.ts, r.ts, "response")
  BY <1>1, RequestGoneFacts
<1>3. /\ Left(u.ts, "ping") = Left(r.ts, "ping") /\ Left(u.ts, "recv") = Left(r.ts, "recv")
      /\ Left(u.ts, "resp") = Left(r.ts, "resp")
  BY <1>2, Names DEF OthersLeft
<1>4. Good(u)
  BY <1>1, <1>2, <1>3 DEF Good, PingLast, Skipped
<1>5. \A n \in AlarmNames : Left(u.ts, n) \in {0, PeriodOf(n), After(timers, since, n)}
  BY <1>2, <1>3, Names DEF Called
<1>6. Called(u)
  BY <1>2, <1>3, <1>4, <1>5 DEF Called, SentTimed
<1>7. Watch(u, h, e)
  BY <1>2, <1>3 DEF Watch, Watched, RecvTimed
<1> QED BY <1>6, <1>7

LEMMA OverCalled ==
    ASSUME NEW r, Called(r), NEW u, u = SessionOver(r), NEW h, NEW e
    PROVE  Called(u) /\ Watch(u, h, e)
<1>1. Base(r)
  BY DEF Called, Good
<1>2. /\ Base(u) /\ ~u.connected /\ u.request = "none" /\ u.sent = r.sent /\ u.rang = r.rang
      /\ \A n \in TimerNames : Left(u.ts, n) = 0
  BY <1>1, SessionOverFacts
<1>3. Good(u)
  BY <1>2, Names DEF Good, PingLast
<1>4. SentTimed(u.ts, sinceSent, u.connected /\ spoken, 0) /\ RecvTimed(u.ts, h, e, 0)
  BY <1>2, Names DEF SentTimed, RecvTimed
<1> QED BY <1>2, <1>3, <1>4, Names DEF Called, Watch

\* A timer of the receive direction that a message restarts.
LEMMA HeardCalled ==
    ASSUME NEW r, Called(r), NEW u, u \in {HandleMessage(r), HandlePingresp(r)}
    PROVE  Called(u) /\ Watch(u, 0, TRUE)
<1>1. Base(r) /\ Good(r) /\ r \in StateType /\ Shape(r.ts, Present(r))
  BY DEF Called, Good, Base
<1>2. CASE ~r.connected
  <2>1. u = r
    BY <1>2 DEF HandleMessage, HandlePingresp
  <2>2. Left(r.ts, "recv") = 0
    BY <1>1, <1>2, BaseFacts DEF KeepAliveNames
  <2> QED BY <1>2, <2>1, <2>2 DEF Watch, RecvTimed
<1>3. CASE r.connected
  <2>1. "recv" \in Present(r) /\ "resp" \in Present(r)
    BY <1>1, <1>3, BaseFacts DEF KeepAliveNames
  <2>2. PICK c : c \in {r.ts, TimerCancel(r.ts, KA, "resp")} /\ u = [r EXCEPT !.ts = RestartRecvTimer(c)]
    <3>1. \/ u = [r EXCEPT !.ts = RestartRecvTimer(r.ts)]
          \/ u = [r EXCEPT !.ts = RestartRecvTimer(TimerCancel(r.ts, KA, "resp"))]
      BY <1>1, <1>3 DEF HandleMessage, HandlePingresp, StateType
    <3> QED BY <3>1
  <2>3. /\ Shape(c, Present(r)) /\ OthersLeft(c, r.ts, "resp")
        /\ Left(c, "resp") \in {0, Left(r.ts, "resp")}
    <3>1. CASE c = r.ts
      BY <1>1, <3>1 DEF OthersLeft
    <3>2. CASE c = TimerCancel(r.ts, KA, "resp")
      BY <1>1, <2>1, <3>2, CancelFacts, Names
    <3> QED BY <2>2, <3>1, <3>2
  <2>4. PICK v : v = RestartRecvTimer(c)
    OBVIOUS
  <2>5. Shape(v, Present(r)) /\ Left(v, "recv") = KeepAliveMs /\ OthersLeft(v, c, "recv")
    <3>1. v = TimerWait(c, KA, "recv", KeepAliveMs) /\ KeepAliveMs \in 1..PeriodOf("recv")
      BY <2>4, Names DEF RestartRecvTimer
    <3> QED BY <2>1, <2>3, <3>1, WaitFacts, Names
  <2>6. /\ u.ts = v /\ u.connected = r.connected /\ u.request = r.request
        /\ u.sent = r.sent /\ u.rang = r.rang /\ u.owed = r.owed
    BY <1>1, <2>2, <2>4 DEF StateType
  <2>7. Base(u)
    <3>1. v \in Seq(SlotType)
      BY <2>5 DEF Shape
    <3>2. u \in StateType
      BY <1>1, <2>2, <2>4, <3>1 DEF StateType
    <3>3. Present(u) = Present(r)
      BY <2>6 DEF Present
    <3> QED BY <2>5, <2>6, <3>2, <3>3 DEF Base
  <2>8. /\ Left(v, "ping") = Left(r.ts, "ping") /\ Left(v, "response") = Left(r.ts, "response")
        /\ Left(v, "resp") \in {0, Left(r.ts, "resp")}
    BY <2>3, <2>5, Names DEF OthersLeft
  <2>9. Good(u)
    <3>1. PingLast(v)
      BY <1>1, <2>8 DEF Good, PingLast
    <3>2. Left(v, "ping") # 0 \/ Skipped(u)
      BY <1>1, <1>3, <2>5, <2>6, <2>8, Names DEF Good, Skipped
    <3>3. u.request = "sent" => Left(v, "response") # 0
      BY <1>1, <2>6, <2>8 DEF Good
    <3> QED BY <2>6, <2>7, <3>1, <3>2, <3>3 DEF Good
  <2>10. \A n \in AlarmNames : Left(v, n) \in {0, PeriodOf(n), After(timers, since, n)}
    BY <2>5, <2>8, Names DEF Called
  <2>11. Called(u)
    <3>1. ~u.sent => SentTimed(v, sinceSent, u.connected /\ spoken, 0)
      BY <2>6, <2>8 DEF Called, SentTimed
    <3> QED BY <2>6, <2>8, <2>9, <2>10, <3>1 DEF Called
  <2>12. Watched(v, 0, 0) /\ RecvTimed(v, 0, TRUE, 0)
    BY <2>5, Names DEF Watched, RecvTimed
  <2> QED BY <2>6, <2>11, <2>12 DEF Watch
<1> QED BY <1>2, <1>3

LEMMA ConnectCalled ==
    ASSUME TimeInv, NEW r, Called(r), ~r.connected, ~connected, r.request = "sent",
           NEW u, u = BrokerConnected(r), NEW h
    PROVE  Called(u) /\ Watch(u, h, FALSE)
<1>1. Base(r) /\ Good(r) /\ r \in StateType /\ Shape(r.ts, Present(r))
  BY DEF Called, Good, Base
<1>2. PICK P : P = Present(r)
  OBVIOUS
<1>3. "ping" \notin P /\ "recv" \notin P /\ "resp" \notin P
  BY <1>1, <1>2, BaseFacts DEF KeepAliveNames
<1>4. PICK a : a = AllocTimer(r.ts, KA, "ping")
  OBVIOUS
<1>5. Shape(a, P \cup {"ping"}) /\ \A n \in TimerNames : Left(a, n) = Left(r.ts, n)
  <2>1. "ping" \in TimerNames /\ KA = HolderOf("ping") /\ Shape(r.ts, P)
    BY <1>1, <1>2, Names
  <2> QED BY <1>3, <1>4, <2>1, AllocFacts
<1>6. PICK b : b = AllocTimer(a, KA, "recv")
  OBVIOUS
<1>7. Shape(b, (P \cup {"ping"}) \cup {"recv"}) /\ \A n \in TimerNames : Left(b, n) = Left(a, n)
  <2>1. "recv" \notin P \cup {"ping"}
    BY <1>3
  <2>2. "recv" \in TimerNames /\ KA = HolderOf("recv")
    BY Names
  <2> QED BY <1>5, <1>6, <2>1, <2>2, AllocFacts
<1>8. PICK c : c = AllocTimer(b, KA, "resp")
  OBVIOUS
<1>9. PICK Q : Q = ((P \cup {"ping"}) \cup {"recv"}) \cup {"resp"}
  OBVIOUS
<1>10. Shape(c, Q) /\ \A n \in TimerNames : Left(c, n) = Left(b, n)
  <2>1. "resp" \notin (P \cup {"ping"}) \cup {"recv"}
    BY <1>3
  <2>2. "resp" \in TimerNames /\ KA = HolderOf("resp")
    BY Names
  <2> QED BY <1>7, <1>8, <1>9, <2>1, <2>2, AllocFacts
<1>11. PICK v : v = TimerWait(c, KA, "ping", KeepAliveMs)
  OBVIOUS
<1>12. Shape(v, Q) /\ Left(v, "ping") = KeepAliveMs /\ OthersLeft(v, c, "ping")
  <2>1. "ping" \in Q /\ KeepAliveMs \in 1..PeriodOf("ping")
    BY <1>9, Names
  <2> QED BY <1>10, <1>11, <2>1, WaitFacts, Names
<1>13. u = [r EXCEPT !.connected = TRUE, !.ts = v]
  BY <1>1, <1>4, <1>6, <1>8, <1>11 DEF BrokerConnected, StateType
<1>14. u.ts = v /\ u.connected = TRUE /\ u.request = r.request /\ u.sent = r.sent /\ u.rang = r.rang
  BY <1>1, <1>13 DEF StateType
<1>15. Present(u) = Q
  BY <1>2, <1>9, <1>14 DEF Present, KeepAliveNames
<1>16. u \in StateType
  <2>1. v \in Seq(SlotType)
    BY <1>12 DEF Shape
  <2> QED BY <1>1, <1>13, <2>1 DEF StateType
<1>17. \A n \in AlarmNames : Left(v, n) = Left(r.ts, n)
  BY <1>5, <1>7, <1>10, <1>12, Names DEF OthersLeft
<1>18. Left(v, "resp") = 0 /\ Left(v, "recv") = 0 /\ Left(v, "response") # 0
  BY <1>1, <1>17, BaseFacts, Names DEF KeepAliveNames, Good
<1>19. Good(u)
  BY <1>12, <1>14, <1>15, <1>16, <1>18, Names DEF Good, Base, PingLast
<1>20. ASSUME ~r.sent PROVE SentTimed(v, sinceSent, spoken, 0)
  <2>1. SentTimed(r.ts, sinceSent, FALSE, 0) /\ ~spoken /\ sinceSent \in Nat
    BY <1>20 DEF Called, TimeInv
  <2>2. Left(v, "response") = Left(r.ts, "response") /\ Left(v, "response") \in Nat
    BY <1>1, <1>17, BaseFacts, Names
  <2>3. sinceSent + Left(v, "response") - 0 <= ResponseMs
    BY <1>18, <2>1, <2>2 DEF SentTimed
  <2> QED BY <1>12, <1>18, <2>1, <2>2, <2>3, Names DEF SentTimed
<1>21. Called(u)
  <2>1. ~u.sent => SentTimed(u.ts, sinceSent, u.connected /\ spoken, 0)
    BY <1>14, <1>20 DEF SentTimed
  <2> QED BY <1>14, <1>17, <1>19, <2>1 DEF Called
<1> QED BY <1>14, <1>18, <1>21 DEF Watch, RecvTimed

LEMMA RestartCalled ==
    ASSUME NEW r, Called(r), r.sent, NEW u, u = RestartTimer(r), NEW h, NEW e, Watch(r, h, e)
    PROVE  Called(u) /\ Watch(u, h, e)
<1>1. Base(r) /\ Good(r) /\ r \in StateType /\ Shape(r.ts, Present(r))
  BY DEF Called, Good, Base
<1>2. CASE r.request = "none"
  <2>1. /\ Base(u) /\ u.ts = r.ts /\ u.connected = r.connected /\ u.sent = r.sent /\ u.rang = r.rang
        /\ u.owed = r.owed /\ u.request = r.request
    BY <1>1, <1>2, UndefinedFacts DEF RestartTimer
  <2> QED BY <1>1, <2>1 DEF Called, Watch, Good, Skipped
<1>3. CASE r.request # "none"
  <2>1. PICK v : v = TimerWait(r.ts, REQ, "response", ResponseMs)
    OBVIOUS
  <2>2. Shape(v, Present(r)) /\ Left(v, "response") = ResponseMs /\ OthersLeft(v, r.ts, "response")
    <3>1. "response" \in Present(r) /\ ResponseMs \in 1..PeriodOf("response")
      BY <1>1, <1>3, BaseFacts, Names
    <3> QED BY <1>1, <2>1, <3>1, WaitFacts, Names
  <2>3. u = [r EXCEPT !.request = "sent", !.ts = v]
    BY <1>1, <1>3, <2>1 DEF RestartTimer, StateType
  <2>4. /\ u.ts = v /\ u.connected = r.connected /\ u.request = "sent" /\ u.sent = r.sent /\ u.rang = r.rang
        /\ u.owed = r.owed
    BY <1>1, <2>3 DEF StateType
  <2>5. Base(u)
    <3>1. v \in Seq(SlotType)
      BY <2>2 DEF Shape
    <3>2. u \in StateType
      BY <1>1, <2>3, <3>1 DEF StateType
    <3>3. Present(u) = Present(r)
      BY <1>3, <2>4 DEF Present
    <3> QED BY <2>2, <2>4, <3>2, <3>3 DEF Base
  <2>6. /\ Left(v, "ping") = Left(r.ts, "ping") /\ Left(v, "recv") = Left(r.ts, "recv")
        /\ Left(v, "resp") = Left(r.ts, "resp")
    BY <2>2, Names DEF OthersLeft
  <2>7. Good(u)
    BY <1>1, <2>2, <2>4, <2>5, <2>6, Names DEF Good, PingLast, Skipped
  <2>8. \A n \in AlarmNames : Left(v, n) \in {0, PeriodOf(n), After(timers, since, n)}
    BY <2>2, <2>6, Names DEF Called
  <2>9. Called(u)
    BY <2>4, <2>6, <2>7, <2>8 DEF Called
  <2> QED BY <2>4, <2>6, <2>9 DEF Watch, Watched, RecvTimed
<1> QED BY <1>2, <1>3

-----------------------------------------------------------------------------
\* The alarms, and the step that a call is.

AlarmLeft(ts, s, n) == IF Left(ts, n) = 0 THEN -Latency - 1 ELSE Left(ts, n) - s

LEMMA ActiveSlots ==
    ASSUME NEW ts, NEW P, Shape(ts, P), NEW n \in TimerNames,
           NEW S, S = {i \in Slots(ts) : ts[i].name = n /\ ts[i].active}
    PROVE  /\ S = {} => Left(ts, n) = 0
           /\ \A i \in S : Left(ts, n) = ts[i].ms /\ Left(ts, n) # 0
<1>1. ts \in Seq(SlotType) /\ DOMAIN ts = 1..Len(ts)
  BY DEF Shape
<1>2. \A i \in 1..Len(ts) : ts[i].active <=> ts[i].ms # 0
  BY <1>1, SlotFacts, Names
<1>3. \A i \in S : Left(ts, n) = ts[i].ms /\ Left(ts, n) # 0
  BY <1>1, <1>2, SlotOfName DEF Slots, TimerNames
<1>4. ASSUME S = {} PROVE Left(ts, n) = 0
  <2>1. CASE n \in P
    <3>1. PICK i \in 1..Len(ts) : ts[i].name = n /\ Left(ts, n) = ts[i].ms
      BY <2>1, NameHasSlot
    <3> QED BY <1>1, <1>2, <1>4, <3>1 DEF Slots
  <2>2. CASE n \notin P
    BY <2>2, LeftRange
  <2> QED BY <2>1, <2>2
<1> QED BY <1>3, <1>4

LEMMA AlarmFacts ==
    ASSUME NEW P, Shape(timers, P), NEW n \in AlarmNames
    PROVE  TimeLeft(n) = AlarmLeft(timers, since, n)
<1>1. PICK ts, s : ts = timers /\ s = since
  OBVIOUS
<1>2. PICK S : S = {i \in Slots(ts) : ts[i].name = n /\ ts[i].active}
  OBVIOUS
<1>3. PICK x : x = IF S = {} THEN -Latency - 1 ELSE ts[CHOOSE i \in S : TRUE].ms - s
  OBVIOUS
<1>4. TimeLeft(n) = x
  BY <1>1, <1>2, <1>3 DEF TimeLeft, SlotsOf
<1>5. n \in TimerNames /\ Shape(ts, P)
  BY <1>1, Names
<1>6. x = AlarmLeft(ts, s, n)
  <2>1. /\ S = {} => Left(ts, n) = 0
        /\ \A i \in S : Left(ts, n) = ts[i].ms /\ Left(ts, n) # 0
    BY <1>2, <1>5, ActiveSlots
  <2>2. CASE S = {}
    BY <1>3, <2>1, <2>2 DEF AlarmLeft
  <2>3. CASE S # {}
    <3>1. PICK i \in S : i = CHOOSE j \in S : TRUE
      BY <2>3
    <3>2. x = ts[i].ms - s
      BY <1>3, <2>3, <3>1
    <3> QED BY <2>1, <3>1, <3>2 DEF AlarmLeft
  <2> QED BY <2>2, <2>3
<1> QED BY <1>1, <1>4, <1>6

LEMMA AlarmFactsPrime ==
    ASSUME NEW P, Shape(timers', P), NEW n \in AlarmNames
    PROVE  TimeLeft(n)' = AlarmLeft(timers', since', n)
<1>1. PICK ts, s : ts = timers' /\ s = since'
  OBVIOUS
<1>2. PICK S : S = {i \in Slots(ts) : ts[i].name = n /\ ts[i].active}
  OBVIOUS
<1>3. PICK x : x = IF S = {} THEN -Latency - 1 ELSE ts[CHOOSE i \in S : TRUE].ms - s
  OBVIOUS
<1>4. TimeLeft(n)' = x
  BY <1>1, <1>2, <1>3 DEF TimeLeft, SlotsOf
<1>5. n \in TimerNames /\ Shape(ts, P)
  BY <1>1, Names
<1>6. x = AlarmLeft(ts, s, n)
  <2>1. /\ S = {} => Left(ts, n) = 0
        /\ \A i \in S : Left(ts, n) = ts[i].ms /\ Left(ts, n) # 0
    BY <1>2, <1>5, ActiveSlots
  <2>2. CASE S = {}
    BY <1>3, <2>1, <2>2 DEF AlarmLeft
  <2>3. CASE S # {}
    <3>1. PICK i \in S : i = CHOOSE j \in S : TRUE
      BY <2>3
    <3>2. x = ts[i].ms - s
      BY <1>3, <2>3, <3>1
    <3> QED BY <2>1, <3>1, <3>2 DEF AlarmLeft
  <2> QED BY <2>2, <2>3
<1> QED BY <1>1, <1>4, <1>6

\* The steps of the alarms in these terms.
LEMMA ActStep ==
    ASSUME NEW P, Shape(timers, P), NEW Q, Shape(timers', Q),
           rang' \cap AlarmNames \subseteq
              {n \in AlarmNames : AlarmLeft(timers, since, n) # -Latency - 1 /\ AlarmLeft(timers, since, n) <= 0},
           \A n \in AlarmNames :
              \/ AlarmLeft(timers', since', n) = -Latency - 1
              \/ AlarmLeft(timers', since', n) = PeriodOf(n)
              \/ AlarmLeft(timers', since', n) = AlarmLeft(timers, since, n) /\ n \notin rang'
    PROVE  A!Act
<1>1. \A n \in AlarmNames : TimeLeft(n) = AlarmLeft(timers, since, n)
  BY AlarmFacts
<1>2. \A n \in AlarmNames : TimeLeft(n)' = AlarmLeft(timers', since', n)
  BY AlarmFactsPrime
<1>3. \A n \in AlarmNames : (IF n = "recv" THEN KeepAliveMs ELSE ResponseMs) = PeriodOf(n)
  BY DEF AlarmNames, PeriodOf
<1> QED BY <1>1, <1>2, <1>3 DEF A!Act, A!Off

LEMMA PassStep ==
    ASSUME NEW P, Shape(timers, P), NEW Q, Shape(timers', Q), rang' = {},
           \A n \in AlarmNames :
              IF AlarmLeft(timers, since, n) = -Latency - 1
              THEN AlarmLeft(timers', since', n) = -Latency - 1
              ELSE /\ AlarmLeft(timers, since, n) > -Latency
                   /\ AlarmLeft(timers', since', n) = AlarmLeft(timers, since, n) - 1
    PROVE  A!Pass
<1>1. \A n \in AlarmNames : TimeLeft(n) = AlarmLeft(timers, since, n)
  BY AlarmFacts
<1>2. \A n \in AlarmNames : TimeLeft(n)' = AlarmLeft(timers', since', n)
  BY AlarmFactsPrime
<1> QED BY <1>1, <1>2 DEF A!Pass, A!Off

\* The client that the next call starts from.
LEMMA NextState ==
    ASSUME NEW u, Good(u), timers' = u.ts, connected' = u.connected, request' = u.request,
           owed' = u.owed
    PROVE  Good(State)' /\ Shape(timers', Present(u))
<1>1. u \in StateType /\ Shape(u.ts, Present(u)) /\ Base(u)
  BY DEF Good, Base
<1>2. PICK s : s = [ts |-> u.ts, connected |-> u.connected, request |-> u.request,
                    sent |-> FALSE, owed |-> u.owed, rang |-> {}, undefined |-> FALSE]
  OBVIOUS
<1>3. s.ts = u.ts /\ s.connected = u.connected /\ s.request = u.request /\ s.owed = u.owed
  BY <1>2
<1>4. s \in StateType
  BY <1>1, <1>2 DEF StateType
<1>5. Present(s) = Present(u)
  BY <1>3 DEF Present
<1>6. Good(s)
  BY <1>1, <1>3, <1>4, <1>5 DEF Good, Base, Skipped
<1>7. State' = s
  BY <1>2 DEF State
<1> QED BY <1>1, <1>6, <1>7

\* A call keeps the invariant, and is a step of the alarms.
LEMMA CallStep ==
    ASSUME TimeInv, NEW u, Called(u), NEW w \in {NoWait, wait}, Leave(u, w),
           Watch(u, sinceHeard', heard'), sinceHeard' \in Nat, heard' \in BOOLEAN
    PROVE  TimeInv' /\ A!Act
<1>0. /\ wait \in Nat /\ wait <= Longer /\ since \in Nat /\ since <= wait + Latency
      /\ wait = NoWait => since = 0
      /\ sinceSent \in Nat
  BY Names DEF TimeInv
<1>1. Good(u) /\ Base(u) /\ Shape(u.ts, Present(u))
  BY DEF Called, Good, Base
<1>2. PICK m : m = GetMinWait(u.ts)
  OBVIOUS
<1>3. /\ m \in 0..Longer
      /\ \A n \in TimerNames : Left(u.ts, n) # 0 => m # 0 /\ m <= Left(u.ts, n)
  BY <1>1, <1>2, MinWaitFacts
<1>4. /\ timers' = u.ts /\ connected' = u.connected /\ request' = u.request /\ rang' = u.rang
      /\ wait' = IF m # 0 THEN m ELSE w
      /\ since' = IF m # 0 \/ w = NoWait THEN 0 ELSE since
      /\ sinceSent' = IF u.sent THEN 0 ELSE sinceSent
      /\ spoken' = (u.connected /\ (spoken \/ u.sent)) /\ owed' = u.owed
  BY <1>2 DEF Leave, NextWait
<1>5. Good(State)' /\ Shape(timers', Present(u))
  BY <1>1, <1>4, NextState
<1>6. \A n \in TimerNames : Left(u.ts, n) \in 0..PeriodOf(n) /\ Left(u.ts, n) \in Nat
  BY <1>1, BaseFacts
<1>7. wait' \in 0..Longer /\ since' \in Nat /\ since' <= wait' + Latency /\ (wait' = NoWait => since' = 0)
  BY <1>0, <1>3, <1>4, Names DEF NoWait
<1>8. Covers(timers', wait')
  BY <1>3, <1>4 DEF Covers, NoWait
<1>9. \A n \in TimerNames : Left(u.ts, n) # 0 => since' = 0
  BY <1>3, <1>4
<1>10. SentTimed(timers', sinceSent', spoken', since')
  <2>1. CASE u.sent
    <3>1. sinceSent' = 0 /\ (spoken' <=> u.connected)
      BY <1>4, <2>1
    <3>2. ~u.connected => Left(u.ts, "resp") = 0
      BY <1>1, BaseFacts DEF KeepAliveNames
    <3>3. Left(u.ts, "ping") # 0 => 0 + Left(u.ts, "ping") - since' <= KeepAliveMs + (IF spoken' THEN 0 ELSE ResponseMs)
      BY <1>6, <1>9, Names
    <3>4. \A n \in {"resp", "response"} : Left(u.ts, n) # 0 => 0 + Left(u.ts, n) - since' <= ResponseMs
      BY <1>6, <1>9, Names
    <3> QED BY <1>4, <3>1, <3>2, <3>3, <3>4 DEF SentTimed
  <2>2. CASE ~u.sent
    <3>1. sinceSent' = sinceSent /\ (spoken' <=> u.connected /\ spoken)
      BY <1>4, <2>2
    <3>2. SentTimed(u.ts, sinceSent, u.connected /\ spoken, 0)
      BY <2>2 DEF Called
    <3> QED BY <1>4, <1>9, <3>1, <3>2, Names DEF SentTimed
  <2> QED BY <2>1, <2>2
<1>11. /\ u.connected /\ heard' => Watched(timers', sinceHeard', since')
       /\ RecvTimed(timers', sinceHeard', heard', since')
  BY <1>4, <1>9, Names DEF Watch, Watched, RecvTimed
<1>12. sinceSent' \in Nat /\ spoken' \in BOOLEAN /\ (spoken' => connected')
  BY <1>0, <1>4
<1>13. TimeInv'
  BY <1>4, <1>5, <1>7, <1>8, <1>10, <1>11, <1>12 DEF TimeInv
<1>14. A!Act
  <2>1. Shape(timers, Present(State)) /\ Base(State) /\ State.ts = timers
    BY StateFacts DEF Base
  <2>2. \A n \in TimerNames : /\ Left(timers, n) \in Nat
                              /\ Left(timers, n) # 0 => since <= Left(timers, n) + Latency
    BY StateFacts
  <2>3. ASSUME NEW n \in rang' \cap AlarmNames
        PROVE  AlarmLeft(timers, since, n) # -Latency - 1 /\ AlarmLeft(timers, since, n) <= 0
    <3>1. n \in TimerNames /\ Left(timers, n) # 0 /\ Left(timers, n) <= since
      BY <1>4, <2>3 DEF Called, Due
    <3> QED BY <1>0, <2>2, <3>1, Names DEF AlarmLeft
  <2>4. ASSUME NEW n \in AlarmNames
        PROVE  \/ AlarmLeft(timers', since', n) = -Latency - 1
               \/ AlarmLeft(timers', since', n) = PeriodOf(n)
               \/ AlarmLeft(timers', since', n) = AlarmLeft(timers, since, n) /\ n \notin rang'
    <3>0. n \in TimerNames
      BY Names
    <3>1. CASE Left(u.ts, n) = 0
      BY <1>4, <3>1 DEF AlarmLeft
    <3>2. CASE Left(u.ts, n) # 0
      <4>1. since' = 0 /\ AlarmLeft(timers', since', n) = Left(u.ts, n)
        BY <1>3, <1>4, <1>6, <3>0, <3>2 DEF AlarmLeft
      <4>2. Left(u.ts, n) = PeriodOf(n) \/ Left(u.ts, n) = After(timers, since, n)
        BY <3>2 DEF Called
      <4>3. CASE Left(u.ts, n) = After(timers, since, n)
        <5>1. /\ Left(timers, n) # 0 /\ n \notin Due(timers, since)
              /\ After(timers, since, n) = Left(timers, n) - since
          BY <1>0, <2>1, <3>0, <3>2, <4>3, AfterFacts
        <5>2. n \notin rang'
          BY <1>4, <5>1 DEF Called
        <5> QED BY <4>1, <4>3, <5>1, <5>2 DEF AlarmLeft
      <4> QED BY <4>1, <4>2, <4>3
    <3> QED BY <3>1, <3>2
  <2> QED BY <1>5, <2>1, <2>3, <2>4, ActStep
<1> QED BY <1>13, <1>14

-----------------------------------------------------------------------------
\* The steps of the specification.

\* The state of a call that enters first.
LEMMA Enters ==
    ASSUME TimeInv, NEW r, r = Entered(State)
    PROVE  Called(r) /\ Watch(r, sinceHeard, heard) /\ (r.connected => connected)
<1>1. /\ Good(State) /\ Base(State) /\ State.rang = {} /\ State.ts = timers /\ since \in Nat
      /\ State.connected = connected
  BY StateFacts DEF TimeInv
<1>2. PICK st : st = State
  OBVIOUS
<1>3. InTick(st, since, r, {})
  BY <1>1, <1>2, EnteredFacts
<1>4. Good(st) /\ st.connected = connected /\ OthersLeft(st.ts, timers, "ping")
      /\ Left(st.ts, "ping") = Left(timers, "ping")
  BY <1>1, <1>2 DEF OthersLeft
<1> QED BY <1>3, <1>4, AfterTick

LEMMA TypesKept ==
    ASSUME TimeInv
    PROVE  /\ sinceHeard \in Nat /\ heard \in BOOLEAN /\ 0 \in Nat /\ sinceSent \in Nat
           /\ NoWait \in {NoWait, wait} /\ wait \in {NoWait, wait}
           /\ \A st : (IF TakesWaitBack(st) THEN NoWait ELSE wait) \in {NoWait, wait}
  BY DEF TimeInv

LEMMA TimePassesStep == ASSUME TimeInv, TimePasses PROVE TimeInv' /\ A!Pass
<1>0. /\ wait \in 0..Longer /\ since \in Nat /\ since <= wait + Latency
      /\ wait = NoWait => since = 0
      /\ sinceSent \in Nat /\ sinceHeard \in Nat /\ heard \in BOOLEAN
      /\ spoken \in BOOLEAN /\ (spoken => connected)
  BY DEF TimeInv
<1>1. /\ timers' = timers /\ connected' = connected /\ request' = request /\ wait' = wait
      /\ heard' = heard /\ rang' = {} /\ spoken' = spoken /\ owed' = owed
      /\ since' = IF wait = NoWait THEN 0 ELSE since + 1
      /\ wait # NoWait => since < wait + Latency
  BY DEF TimePasses, lib
<1>2. /\ sinceSent' \in Nat /\ sinceSent' <= sinceSent + 1
      /\ sinceHeard' \in Nat /\ sinceHeard' <= sinceHeard + 1
  BY <1>0, Names DEF TimePasses, Capped, SentBound, HeardBound
<1>3. /\ Good(State) /\ State.ts = timers /\ State.connected = connected /\ State.request = request
      /\ State.owed = owed /\ Shape(timers, Present(State))
      /\ \A n \in TimerNames : Left(timers, n) \in 0..PeriodOf(n) /\ Left(timers, n) \in Nat
  BY StateFacts DEF Base
<1>4. Good(State)' /\ Shape(timers', Present(State))
  BY <1>1, <1>3, NextState
<1>5. ASSUME NEW n \in TimerNames, Left(timers, n) # 0
      PROVE  wait # NoWait /\ wait <= Left(timers, n) /\ since' = since + 1
  BY <1>1, <1>5 DEF TimeInv, Covers
<1>6. since' \in Nat /\ since' <= wait' + Latency /\ (wait' = NoWait => since' = 0)
  BY <1>0, <1>1, Names DEF NoWait
<1>7. Covers(timers', wait')
  BY <1>1, <1>5 DEF Covers
<1>8. /\ SentTimed(timers', sinceSent', spoken', since')
      /\ RecvTimed(timers', sinceHeard', heard', since')
  <2>1. /\ SentTimed(timers, sinceSent, spoken, since)
        /\ RecvTimed(timers, sinceHeard, heard, since)
    BY DEF TimeInv
  <2>2. \A n \in TimerNames : Left(timers, n) # 0 =>
           /\ sinceSent' + Left(timers, n) - since' <= sinceSent + Left(timers, n) - since
           /\ sinceHeard' + Left(timers, n) - since' <= sinceHeard + Left(timers, n) - since
    BY <1>0, <1>2, <1>3, <1>5
  <2>3. \A n \in TimerNames : /\ sinceSent' + Left(timers, n) - since' \in Int
                              /\ sinceSent + Left(timers, n) - since \in Int
                              /\ sinceHeard' + Left(timers, n) - since' \in Int
                              /\ sinceHeard + Left(timers, n) - since \in Int
    BY <1>0, <1>2, <1>3, <1>6
  <2>4. SentTimed(timers', sinceSent', spoken', since')
    BY <1>1, <2>1, <2>2, <2>3, Names DEF SentTimed
  <2>5. RecvTimed(timers', sinceHeard', heard', since')
    BY <1>1, <2>1, <2>2, <2>3, Names DEF RecvTimed
  <2> QED BY <2>4, <2>5
<1>9. ASSUME connected, heard PROVE Watched(timers', sinceHeard', since')
  <2>1. Watched(timers, sinceHeard, since)
    BY <1>9 DEF TimeInv
  <2>2. Left(timers, "recv") # 0 \/ Left(timers, "resp") # 0
    BY <2>1 DEF Watched
  <2>3. since' = since + 1
    BY <1>5, <2>2, Names
  <2> QED BY <1>0, <1>1, <1>2, <1>3, <2>1, <2>3, Names DEF Watched
<1>10. TimeInv'
  BY <1>0, <1>1, <1>2, <1>4, <1>6, <1>7, <1>8, <1>9 DEF TimeInv
<1>11. A!Pass
  <2>1. ASSUME NEW n \in AlarmNames
        PROVE  IF AlarmLeft(timers, since, n) = -Latency - 1
               THEN AlarmLeft(timers', since', n) = -Latency - 1
               ELSE /\ AlarmLeft(timers, since, n) > -Latency
                    /\ AlarmLeft(timers', since', n) = AlarmLeft(timers, since, n) - 1
    <3>0. n \in TimerNames
      BY Names
    <3>1. CASE Left(timers, n) = 0
      BY <1>1, <3>1 DEF AlarmLeft
    <3>2. CASE Left(timers, n) # 0
      <4>1. wait # NoWait /\ wait <= Left(timers, n) /\ since' = since + 1 /\ since < wait + Latency
        BY <1>1, <1>5, <3>0, <3>2
      <4>2. /\ AlarmLeft(timers, since, n) = Left(timers, n) - since
            /\ AlarmLeft(timers', since', n) = Left(timers, n) - (since + 1)
        BY <1>1, <3>2, <4>1 DEF AlarmLeft
      <4>3. Left(timers, n) - since > -Latency
        BY <1>0, <1>3, <3>0, <4>1, Names
      <4> QED BY <1>0, <1>3, <3>0, <4>2, <4>3, Names
    <3> QED BY <3>1, <3>2
  <2> QED BY <1>1, <1>3, <1>4, <2>1, PassStep
<1> QED BY <1>10, <1>11

LEMMA TickStep == ASSUME TimeInv, Tick PROVE TimeInv' /\ A!Act
<1>1. PICK r : r = TickBy(State, since)
  OBVIOUS
<1>2. Leave(r, NoWait) /\ sinceHeard' = sinceHeard /\ heard' = heard
  BY <1>1 DEF Tick
<1>3. /\ Good(State) /\ Base(State) /\ State.rang = {} /\ State.ts = timers /\ since \in Nat
      /\ State.connected = connected
  BY StateFacts DEF TimeInv
<1>4. PICK st : st = State
  OBVIOUS
<1>5. InTick(st, since, r, {})
  BY <1>1, <1>3, <1>4, TickFacts
<1>6. Good(st) /\ st.connected = connected /\ OthersLeft(st.ts, timers, "ping")
      /\ Left(st.ts, "ping") = Left(timers, "ping")
  BY <1>3, <1>4 DEF OthersLeft
<1>7. Called(r) /\ Watch(r, sinceHeard, heard)
  BY <1>5, <1>6, AfterTick
<1>8. Watch(r, sinceHeard', heard') /\ sinceHeard' \in Nat /\ heard' \in BOOLEAN
  BY <1>2, <1>7, TypesKept
<1> QED BY <1>2, <1>7, <1>8, TypesKept, CallStep

LEMMA ConnackStep == ASSUME TimeInv, Connack PROVE TimeInv' /\ A!Act
<1>1. PICK r : r = Entered(State)
  OBVIOUS
<1>2. PICK u : u = HandleConnack(r)
  OBVIOUS
<1>3. PICK w \in {NoWait, wait} : w = IF TakesWaitBack(State) THEN NoWait ELSE wait
  OBVIOUS
<1>4. Leave(u, w) /\ sinceHeard' = 0 /\ heard' = FALSE /\ ~connected
  BY <1>1, <1>2, <1>3 DEF Connack, Guarded
<1>5. Called(r) /\ ~r.connected
  BY <1>1, <1>4, Enters
<1>6. Called(u) /\ Watch(u, 0, FALSE)
  <2>1. CASE r.request = "sent"
    <3>1. PICK b : b = BrokerConnected(r)
      OBVIOUS
    <3>2. Called(b) /\ Watch(b, 0, FALSE)
      BY <1>4, <1>5, <2>1, <3>1, ConnectCalled
    <3>3. u = RequestGone(b)
      BY <1>2, <2>1, <3>1 DEF HandleConnack
    <3> QED BY <3>2, <3>3, GoneCalled
  <2>2. CASE r.request # "sent"
    <3>1. u = r
      BY <1>2, <2>2 DEF HandleConnack
    <3>2. Left(r.ts, "recv") = 0
      BY <1>5, BaseFacts DEF Called, Good, KeepAliveNames
    <3> QED BY <1>5, <3>1, <3>2 DEF Watch, RecvTimed
  <2> QED BY <2>1, <2>2
<1>7. Watch(u, sinceHeard', heard') /\ sinceHeard' \in Nat /\ heard' \in BOOLEAN
  BY <1>4, <1>6
<1> QED BY <1>4, <1>6, <1>7, CallStep

LEMMA RefusedStep == ASSUME TimeInv, Refused PROVE TimeInv' /\ A!Act
<1>1. PICK r : r = Entered(State)
  OBVIOUS
<1>2. PICK u : u = RequestGone(r)
  OBVIOUS
<1>3. PICK w \in {NoWait, wait} : w = IF TakesWaitBack(State) THEN NoWait ELSE wait
  OBVIOUS
<1>4. Leave(u, w) /\ sinceHeard' = sinceHeard /\ heard' = heard
  BY <1>1, <1>2, <1>3 DEF Refused, Guarded
<1>5. Called(u) /\ Watch(u, sinceHeard, heard)
  BY <1>1, <1>2, Enters, GoneCalled
<1>6. Watch(u, sinceHeard', heard') /\ sinceHeard' \in Nat /\ heard' \in BOOLEAN
  BY <1>4, <1>5, TypesKept
<1> QED BY <1>4, <1>5, <1>6, CallStep

LEMMA ReceiveStep ==
    ASSUME TimeInv, ReceivePingresp \/ ReceiveMessage \/ ReceiveAnswer PROVE TimeInv' /\ A!Act
<1>1. PICK r : r = Entered(State)
  OBVIOUS
<1>2. PICK w \in {NoWait, wait} : w = IF TakesWaitBack(State) THEN NoWait ELSE wait
  OBVIOUS
<1>3. PICK u : /\ u \in {HandleMessage(r), HandlePingresp(r), HandleAnswer(r)}
               /\ Leave(u, w) /\ sinceHeard' = 0 /\ heard' = TRUE
  BY <1>1, <1>2 DEF ReceivePingresp, ReceiveMessage, ReceiveAnswer, Guarded
<1>4. Called(r)
  BY <1>1, Enters
<1>5. Called(u) /\ Watch(u, 0, TRUE)
  <2>1. CASE u \in {HandleMessage(r), HandlePingresp(r)}
    BY <1>4, <2>1, HeardCalled
  <2>2. CASE u = HandleAnswer(r)
    <3>1. PICK q : q = HandleMessage(r)
      OBVIOUS
    <3>2. Called(q) /\ Watch(q, 0, TRUE)
      BY <1>4, <3>1, HeardCalled
    <3>3. CASE r.connected
      <4>1. u = RequestGone(q)
        BY <2>2, <3>1, <3>3 DEF HandleAnswer
      <4> QED BY <3>2, <4>1, GoneCalled
    <3>4. CASE ~r.connected
      <4>1. u = q
        BY <2>2, <3>1, <3>4 DEF HandleAnswer, HandleMessage
      <4> QED BY <3>2, <4>1
    <3> QED BY <3>3, <3>4
  <2> QED BY <1>3, <2>1, <2>2
<1>6. Watch(u, sinceHeard', heard') /\ sinceHeard' \in Nat /\ heard' \in BOOLEAN
  BY <1>3, <1>5
<1> QED BY <1>3, <1>5, <1>6, CallStep

LEMMA PublishSendStep == ASSUME TimeInv, PublishSend PROVE TimeInv' /\ A!Act
<1>1. PICK r : r = Entered(State)
  OBVIOUS
<1>2. PICK u : u = MessageSent(r)
  OBVIOUS
<1>3. PICK w \in {NoWait, wait} : w = IF TakesWaitBack(State) THEN NoWait ELSE wait
  OBVIOUS
<1>4. Leave(u, w) /\ sinceHeard' = sinceHeard /\ heard' = heard
  BY <1>1, <1>2, <1>3 DEF PublishSend, Guarded
<1>5. Called(u) /\ Watch(u, sinceHeard, heard)
  BY <1>1, <1>2, Enters, SentCalled
<1>6. Watch(u, sinceHeard', heard') /\ sinceHeard' \in Nat /\ heard' \in BOOLEAN
  BY <1>4, <1>5, TypesKept
<1> QED BY <1>4, <1>5, <1>6, CallStep

LEMMA EndSessionStep == ASSUME TimeInv, EndSession PROVE TimeInv' /\ A!Act
<1>1. PICK r : r = Entered(State)
  OBVIOUS
<1>2. PICK u : u = SessionOver(r)
  OBVIOUS
<1>3. PICK w \in {NoWait, wait} : w = IF TakesWaitBack(State) THEN NoWait ELSE wait
  OBVIOUS
<1>4. Leave(u, w) /\ sinceHeard' = sinceHeard /\ heard' = heard
  BY <1>1, <1>2, <1>3 DEF EndSession, Guarded
<1>5. Called(u) /\ Watch(u, sinceHeard, heard)
  BY <1>1, <1>2, Enters, OverCalled
<1>6. Watch(u, sinceHeard', heard') /\ sinceHeard' \in Nat /\ heard' \in BOOLEAN
  BY <1>4, <1>5, TypesKept
<1> QED BY <1>4, <1>5, <1>6, CallStep

LEMMA RequestSendStep == ASSUME TimeInv, RequestSend PROVE TimeInv' /\ A!Act
<1>1. PICK st : st = MessageSent(State)
  OBVIOUS
<1>2. PICK r : r = Entered(st)
  OBVIOUS
<1>3. PICK u : u = RestartTimer(r)
  OBVIOUS
<1>4. PICK w \in {NoWait, wait} : w = IF TakesWaitBack(st) THEN NoWait ELSE wait
  OBVIOUS
<1>5. Leave(u, w) /\ sinceHeard' = sinceHeard /\ heard' = heard
  BY <1>1, <1>2, <1>3, <1>4 DEF RequestSend, Guarded
<1>6. /\ Good(State) /\ Base(State) /\ State.rang = {} /\ State.ts = timers /\ since \in Nat
      /\ State.connected = connected /\ State.request = request /\ request = "prepared"
  BY StateFacts DEF TimeInv, RequestSend
<1>7. /\ Base(st) /\ SameRest(st, State) /\ st.sent
      /\ connected => Left(st.ts, "ping") = KeepAliveMs /\ OthersLeft(st.ts, timers, "ping")
      /\ ~connected => st.ts = timers
  BY <1>1, <1>6, SentFacts
<1>8. /\ st.connected = connected /\ st.rang = {} /\ OthersLeft(st.ts, timers, "ping")
      /\ st.request = "prepared"
  BY <1>6, <1>7 DEF SameRest, OthersLeft
<1>9. Good(st)
  <2>1. CASE connected
    <3>1. Left(st.ts, "resp") \in 0..ResponseMs
      BY <1>7, BaseFacts, Names
    <3> QED BY <1>7, <1>8, <2>1, <3>1, Names DEF Good, PingLast
  <2>2. CASE ~connected
    BY <1>6, <1>7, <1>8, <2>2 DEF Good
  <2> QED BY <2>1, <2>2
<1>10. InTick(st, since, r, {})
  BY <1>2, <1>6, <1>8, <1>9, EnteredFacts
<1>11. Called(r) /\ Watch(r, sinceHeard, heard) /\ r.sent
  BY <1>7, <1>8, <1>9, <1>10, AfterTick DEF InTick
<1>12. Called(u) /\ Watch(u, sinceHeard, heard)
  BY <1>3, <1>11, RestartCalled
<1>13. Watch(u, sinceHeard', heard') /\ sinceHeard' \in Nat /\ heard' \in BOOLEAN
  BY <1>5, <1>12, TypesKept
<1> QED BY <1>5, <1>12, <1>13, CallStep

\* A call that enters no guard leaves the wait of the application as it is.
LEMMA QuietStep ==
    ASSUME TimeInv, NEW u, Base(u), timers' = u.ts, connected' = u.connected, request' = u.request,
           u.connected = connected, u.request # "sent", u.owed = owed, rang' = {},
           OthersLeft(u.ts, timers, "response"), Left(u.ts, "response") \in {0, Left(timers, "response")},
           UNCHANGED <<app, sinceSent, spoken, owed, sinceHeard, heard>>
    PROVE  TimeInv' /\ A!Act
<1>1. /\ wait' = wait /\ since' = since /\ sinceSent' = sinceSent /\ sinceHeard' = sinceHeard
      /\ heard' = heard /\ spoken' = spoken /\ owed' = owed
  BY DEF app
<1>2. \A n \in TimerNames : Left(u.ts, n) \in {0, Left(timers, n)}
  BY Names DEF OthersLeft
<1>3. /\ Left(u.ts, "ping") = Left(timers, "ping") /\ Left(u.ts, "recv") = Left(timers, "recv")
      /\ Left(u.ts, "resp") = Left(timers, "resp")
  BY Names DEF OthersLeft
<1>4. /\ Good(State) /\ State.ts = timers /\ State.connected = connected /\ State.owed = owed
      /\ Shape(timers, Present(State))
  BY StateFacts DEF Base
<1>5. Good(u)
  BY <1>3, <1>4 DEF Good, PingLast, Skipped
<1>6. Good(State)' /\ Shape(timers', Present(u))
  BY <1>1, <1>5, NextState
<1>7. Covers(timers', wait')
  BY <1>1, <1>2 DEF TimeInv, Covers
<1>8. /\ SentTimed(timers', sinceSent', spoken', since')
      /\ RecvTimed(timers', sinceHeard', heard', since')
  BY <1>1, <1>3 DEF TimeInv, SentTimed, RecvTimed
<1>9. connected /\ heard => Watched(timers', sinceHeard', since')
  BY <1>1, <1>3 DEF TimeInv, Watched
<1>10. TimeInv'
  BY <1>1, <1>6, <1>7, <1>8, <1>9 DEF TimeInv
<1>11. \A n \in AlarmNames :
          \/ AlarmLeft(timers', since', n) = -Latency - 1
          \/ AlarmLeft(timers', since', n) = AlarmLeft(timers, since, n) /\ n \notin rang'
  BY <1>1, <1>2, Names DEF AlarmLeft
<1>12. A!Act
  BY <1>4, <1>6, <1>11, ActStep
<1> QED BY <1>10, <1>12

LEMMA RequestPrepareStep == ASSUME TimeInv, RequestPrepare PROVE TimeInv' /\ A!Act
<1>1. PICK v : v = AllocTimer(timers, REQ, "response")
  OBVIOUS
<1>2. /\ request = "none" /\ request' = "prepared" /\ timers' = v /\ rang' = {}
      /\ connected' = connected /\ UNCHANGED <<app, sinceSent, spoken, owed, sinceHeard, heard>>
  BY <1>1 DEF RequestPrepare
<1>3. /\ Base(State) /\ State.ts = timers /\ State.connected = connected /\ State.request = request
      /\ State.owed = owed /\ State \in StateType /\ Shape(timers, Present(State))
  BY StateFacts DEF Base
<1>4. "response" \notin Present(State) /\ "response" \in TimerNames /\ REQ = HolderOf("response")
  BY <1>2, <1>3, BaseFacts
<1>5. /\ Shape(v, Present(State) \cup {"response"})
      /\ \A n \in TimerNames : Left(v, n) = Left(timers, n)
  BY <1>1, <1>3, <1>4, AllocFacts
<1>6. PICK u : u = [State EXCEPT !.ts = v, !.request = "prepared"]
  OBVIOUS
<1>7. u.ts = v /\ u.connected = connected /\ u.request = "prepared" /\ u.owed = owed
  BY <1>3, <1>6 DEF StateType
<1>8. Base(u)
  <2>1. v \in Seq(SlotType)
    BY <1>5 DEF Shape
  <2>2. u \in StateType
    BY <1>3, <1>6, <2>1 DEF StateType
  <2>3. Present(u) = Present(State) \cup {"response"}
    BY <1>3, <1>7 DEF Present
  <2> QED BY <1>5, <1>7, <2>2, <2>3 DEF Base
<1>9. OthersLeft(u.ts, timers, "response") /\ Left(u.ts, "response") \in {0, Left(timers, "response")}
  BY <1>4, <1>5, <1>7 DEF OthersLeft
<1> QED BY <1>2, <1>7, <1>8, <1>9, QuietStep

LEMMA RequestCancelStep == ASSUME TimeInv, RequestCancel PROVE TimeInv' /\ A!Act
<1>1. PICK u : u = RequestGone(State)
  OBVIOUS
<1>2. /\ request' = "none" /\ timers' = u.ts /\ rang' = {}
      /\ connected' = connected /\ UNCHANGED <<app, sinceSent, spoken, owed, sinceHeard, heard>>
  BY <1>1 DEF RequestCancel
<1>3. Base(State) /\ State.ts = timers /\ State.connected = connected /\ State.owed = owed
  BY StateFacts
<1>4. /\ Base(u) /\ u.connected = connected /\ u.request = "none" /\ u.owed = owed
      /\ Left(u.ts, "response") = 0 /\ OthersLeft(u.ts, timers, "response")
  BY <1>1, <1>3, RequestGoneFacts
<1> QED BY <1>2, <1>4, QuietStep

-----------------------------------------------------------------------------
\* The theorems.

LEMMA InitFacts == ASSUME Init PROVE TimeInv /\ A!Init
<1>1. /\ timers = <<>> /\ connected = FALSE /\ request = "none" /\ wait = NoWait /\ since = 0
      /\ sinceSent = 0 /\ sinceHeard = 0 /\ heard = FALSE /\ rang = {}
      /\ spoken = FALSE /\ owed = FALSE
  BY DEF Init
<1>2. Shape(<<>>, {}) /\ \A n \in TimerNames : Left(<<>>, n) = 0
  BY DEF Shape, Left
<1>3. State.ts = <<>> /\ State.connected = FALSE /\ State.request = "none" /\ State \in StateType
  <2>1. State.ts = <<>> /\ State.connected = FALSE /\ State.request = "none"
    BY <1>1 DEF State
  <2>2. <<>> \in Seq(SlotType) /\ FALSE \in BOOLEAN /\ {} \in SUBSET TimerNames
    BY <1>2 DEF Shape
  <2>3. State = [ts |-> <<>>, connected |-> FALSE, request |-> "none",
                 sent |-> FALSE, owed |-> FALSE, rang |-> {}, undefined |-> FALSE]
    BY <1>1 DEF State
  <2> QED BY <2>1, <2>2, <2>3 DEF StateType
<1>4. Present(State) = {}
  BY <1>3 DEF Present
<1>5. Good(State)
  BY <1>2, <1>3, <1>4, Names DEF Good, Base, PingLast
<1>6. Covers(timers, wait)
  BY <1>1, <1>2 DEF Covers
<1>7. TimeInv
  <2>1. ~connected /\ heard \in BOOLEAN /\ spoken \in BOOLEAN /\ ~spoken
    BY <1>1
  <2>2. /\ wait \in 0..Longer /\ since \in Nat /\ since <= wait + Latency
        /\ sinceSent \in Nat /\ sinceHeard \in Nat
    BY <1>1, Names DEF NoWait
  <2>3. SentTimed(timers, sinceSent, spoken, since) /\ RecvTimed(timers, sinceHeard, heard, since)
    BY <1>1, <1>2, Names DEF SentTimed, RecvTimed
  <2> QED BY <1>1, <1>5, <1>6, <2>1, <2>2, <2>3 DEF TimeInv
<1>8. \A n \in AlarmNames : TimeLeft(n) = -Latency - 1
  <2>1. Shape(timers, {}) /\ \A n \in AlarmNames : Left(timers, n) = 0
    BY <1>1, <1>2, Names
  <2> QED BY <2>1, AlarmFacts DEF AlarmLeft
<1>9. A!Init
  BY <1>1, <1>8 DEF A!Init, A!Off
<1> QED BY <1>7, <1>9

\* A step keeps the invariant and is a step of the alarms.
LEMMA NextFacts == ASSUME TimeInv, [Next]_vars PROVE TimeInv' /\ [A!Next]_(A!alarmVars)
<1>1. CASE Next
  <2>1. TimeInv' /\ (A!Pass \/ A!Act)
    BY <1>1, TimePassesStep, TickStep, ConnackStep, RefusedStep, ReceiveStep, PublishSendStep,
       RequestPrepareStep, RequestSendStep, RequestCancelStep, EndSessionStep DEF Next
  <2> QED BY <2>1 DEF A!Next
<1>2. CASE UNCHANGED vars
  <2>1. /\ timers' = timers /\ connected' = connected /\ request' = request /\ wait' = wait
        /\ since' = since /\ sinceSent' = sinceSent /\ sinceHeard' = sinceHeard
        /\ heard' = heard /\ rang' = rang /\ spoken' = spoken /\ owed' = owed
    BY <1>2 DEF vars, lib, app, history
  <2>2. State' = State
    BY <2>1 DEF State
  <2>3. TimeInv'
    BY <2>1, <2>2 DEF TimeInv
  <2>4. \A n \in AlarmNames : TimeLeft(n)' = TimeLeft(n)
    BY <2>1 DEF TimeLeft, SlotsOf
  <2>5. UNCHANGED A!alarmVars
    BY <2>1, <2>4 DEF A!alarmVars
  <2> QED BY <2>3, <2>5
<1> QED BY <1>1, <1>2

\* What the inductive invariant says of the properties.
LEMMA InvProperties == TimeInv => TypeOK /\ WaitCoversTimers /\ ClientSpeaks /\ SilenceNoticed
<1> SUFFICES ASSUME TimeInv PROVE TypeOK /\ WaitCoversTimers /\ ClientSpeaks /\ SilenceNoticed
  OBVIOUS
<1>1. /\ Good(State) /\ State \in StateType /\ State.ts = timers /\ State.connected = connected
      /\ State.request = request /\ Shape(timers, Present(State))
      /\ \A n \in TimerNames : Left(timers, n) \in Nat
      /\ \A n \in TimerNames : Left(timers, n) # 0 => since <= Left(timers, n) + Latency
  BY StateFacts DEF Base
<1>2. /\ wait \in 0..Longer /\ since \in Nat /\ since <= wait + Latency
      /\ sinceSent \in Nat /\ sinceHeard \in Nat
  BY DEF TimeInv
<1>3. TypeOK
  <2>1. timers \in Seq(SlotType) /\ Len(timers) <= 4 /\ Slots(timers) = 1..Len(timers)
    BY <1>1 DEF Shape, Slots
  <2>2. \A i \in Slots(timers) : timers[i].holder \in {NoHolder, KA, REQ} /\ timers[i].ms \in 0..Longer
    BY <2>1 DEF SlotType
  <2>3. connected \in BOOLEAN /\ request \in {"none", "prepared", "sent"}
    BY <1>1 DEF StateType
  <2>4. since \in 0..(Longer + Latency)
    BY <1>2, Names
  <2> QED BY <1>2, <2>1, <2>2, <2>3, <2>4 DEF TypeOK
<1>4. WaitCoversTimers
  <2>1. GetMinWait(timers) # 0 => \E n \in TimerNames : Left(timers, n) = GetMinWait(timers)
    BY <1>1, MinWaitFacts
  <2> QED BY <2>1 DEF WaitCoversTimers, TimeInv, Covers
<1>5. ClientSpeaks
  <2> SUFFICES ASSUME connected
               PROVE  \/ sinceSent <= Latency + (IF spoken THEN Longer ELSE KeepAliveMs + ResponseMs)
                      \/ /\ ResponseMs > KeepAliveMs /\ owed
                         /\ heard /\ sinceHeard <= KeepAliveMs + Latency
    BY DEF ClientSpeaks
  <2>1. SentTimed(timers, sinceSent, spoken, since) /\ RecvTimed(timers, sinceHeard, heard, since)
    BY DEF TimeInv
  <2>2. Left(timers, "ping") # 0 \/ Skipped(State)
    BY <1>1 DEF Good
  <2>3. CASE Left(timers, "ping") # 0
    <3>1. since <= Left(timers, "ping") + Latency /\ Left(timers, "ping") \in Nat
      BY <1>1, <2>3, Names
    <3>2. sinceSent + Left(timers, "ping") - since <= KeepAliveMs + (IF spoken THEN 0 ELSE ResponseMs)
      BY <2>1, <2>3 DEF SentTimed
    <3> QED BY <1>2, <3>1, <3>2, Names
  <2>4. CASE Left(timers, "resp") # 0
    <3>1. since <= Left(timers, "resp") + Latency /\ Left(timers, "resp") \in Nat
      BY <1>1, <2>4, Names
    <3>2. spoken /\ sinceSent + Left(timers, "resp") - since <= ResponseMs
      BY <2>1, <2>4 DEF SentTimed
    <3> QED BY <1>2, <3>1, <3>2, Names
  <2>5. CASE Skipped(State) /\ Left(timers, "recv") # 0
    <3>1. since <= Left(timers, "recv") + Latency /\ Left(timers, "recv") \in Nat
      BY <1>1, <2>5, Names
    <3>2. heard /\ sinceHeard + Left(timers, "recv") - since <= KeepAliveMs
      BY <2>1, <2>5 DEF RecvTimed
    <3>3. ResponseMs > KeepAliveMs /\ owed
      BY <2>5 DEF Skipped, State
    <3> QED BY <1>2, <3>1, <3>2, <3>3, Names
  <2> QED BY <1>1, <2>2, <2>3, <2>4, <2>5 DEF Skipped
<1>6. SilenceNoticed
  <2>1. ASSUME connected, heard PROVE sinceHeard <= KeepAliveMs + ResponseMs + 2 * Latency
    <3>1. Watched(timers, sinceHeard, since)
      BY <2>1 DEF TimeInv
    <3>2. \A n \in {"recv", "resp"} : Left(timers, n) # 0 => since <= Left(timers, n) + Latency /\ Left(timers, n) \in Nat
      BY <1>1, Names
    <3> QED BY <1>2, <3>1, <3>2, Names DEF Watched
  <2> QED BY <2>1 DEF SilenceNoticed, HeardBound
<1> QED BY <1>3, <1>4, <1>5, <1>6

LEMMA TimeInvHolds == Spec => []TimeInv
<1>1. Init => TimeInv
  BY InitFacts
<1>2. TimeInv /\ [Next]_vars => TimeInv'
  BY NextFacts
<1> QED BY <1>1, <1>2, PTL DEF Spec

\* The types, and the number of slots: sessions and requests that come and go
\* never need a fifth slot (TimerMgr::allocTimer takes a free one first), for
\* every keep-alive time, response time and latency.
THEOREM TimeTypeCorrect == Spec => []TypeOK
  BY TimeInvHolds, InvProperties, PTL

\* While a timer of the client runs, the application has been asked for a tick
\* that is no later than the timer (doApiExit after every call, and the calls
\* that enter no guard).
THEOREM WaitAlwaysCovers == Spec => []WaitCoversTimers
  BY TimeInvHolds, InvProperties, PTL

\* A connected client is not silent for longer than the longer one of the
\* keep-alive time and the response time, and before its first message not for
\* longer than their sum, with the latency of its application added; unless the
\* response time is the longer one, a PINGREQ was skipped (KeepAliveOp::sendPing
\* returns while a PINGRESP is awaited, and nothing restarts the ping timer) and
\* the broker goes on sending.
THEOREM ClientAlwaysSpeaks == Spec => []ClientSpeaks
  BY TimeInvHolds, InvProperties, PTL

\* A session with a broker that fell silent is over after the keep-alive time,
\* the response time and two latencies: the receive timer sends a PINGREQ and
\* the wait for its answer ends the session (KeepAliveOp::recvTimeoutInternal,
\* pingTimeoutInternal).
THEOREM SilenceAlwaysNoticed == Spec => []SilenceNoticed
  BY TimeInvHolds, InvProperties, PTL

\* The timers of the client implement alarms on true time, although the timer
\* manager only counts what the application reports (doApiEnter, tick): none
\* rings early, and none more than the latency late.
THEOREM TimersAreAlarms == Spec => AlarmsRingInTime
<1>1. Init => A!Init
  BY InitFacts
<1>2. TimeInv /\ [Next]_vars => [A!Next]_(A!alarmVars)
  BY NextFacts
<1>3. Spec => A!Init /\ [][A!Next]_(A!alarmVars)
  BY <1>1, <1>2, TimeInvHolds, PTL DEF Spec
<1> QED BY <1>3 DEF AlarmsRingInTime, A!Spec

=============================================================================
