--------------------------- MODULE ClientOpsProofs ---------------------------
(***************************************************************************)
(* Proofs about the operation table, the guard of API calls, the           *)
(* preparation lock and the end of a session, for every number of          *)
(* operations and every interleaving of callbacks and calls.               *)
(*                                                                         *)
(* The invariants speak of the frames of stack as a set, of the timers as  *)
(* the set of those that exist and the set of those that run, and of the   *)
(* depth of guards at which every frame will be executed. These views, and *)
(* what the steps do to them, come first.                                  *)
(***************************************************************************)
EXTENDS ClientOps, FiniteSetTheorems, SequenceTheorems, WellFoundedInduction, TLAPS

\* A set of numbers has a least element.
LEMMA LeastNumber ==
    ASSUME NEW T, T \subseteq Nat, T # {}
    PROVE  /\ \E k \in T : \A j \in T : k <= j
           /\ Least(T) \in T /\ \A j \in T : Least(T) <= j
<1>1. PICK k \in T : \A j \in T : ~(<<j, k>> \in OpToRel(<, Nat))
  BY NatLessThanWellFounded, WFMin
<1>2. \A j \in T : ~(j < k)
  BY <1>1 DEF OpToRel
<1>3. \E x \in T : \A y \in T : x <= y
  BY <1>2
<1> QED BY <1>3 DEF Least

-----------------------------------------------------------------------------
\* The order of a set of slots.

Smaller(S, s) == {j \in S : j < s}

LEMMA Ranks ==
    ASSUME NEW S, IsFiniteSet(S), S \subseteq Nat
    PROVE  /\ Cardinality(S) \in Nat
           /\ \A s \in S : /\ IsFiniteSet(Smaller(S, s))
                           /\ Cardinality(Smaller(S, s)) \in 0..(Cardinality(S) - 1)
           /\ \A s, t \in S : s < t => Cardinality(Smaller(S, s)) < Cardinality(Smaller(S, t))
<1>1. Cardinality(S) \in Nat
  BY FS_CardinalityType
<1>2. \A s \in S : IsFiniteSet(Smaller(S, s)) /\ Cardinality(Smaller(S, s)) \in Nat
  <2>1. \A s \in S : Smaller(S, s) \in SUBSET S
    BY DEF Smaller
  <2> QED BY <2>1, FS_Subset, FS_CardinalityType
<1>3. \A s \in S : s \in Nat /\ s \notin Smaller(S, s)
  BY DEF Smaller
<1>4. ASSUME NEW s \in S, NEW T \in SUBSET S, IsFiniteSet(T), Smaller(S, s) \cup {s} \subseteq T
      PROVE  Cardinality(Smaller(S, s)) + 1 <= Cardinality(T)
  <2>1. /\ IsFiniteSet(Smaller(S, s) \cup {s})
        /\ Cardinality(Smaller(S, s) \cup {s}) = Cardinality(Smaller(S, s)) + 1
    BY <1>2, <1>3, FS_AddElement
  <2> QED BY <1>4, <2>1, FS_Subset
<1>5. \A s \in S : Cardinality(Smaller(S, s)) \in 0..(Cardinality(S) - 1)
  <2>1. ASSUME NEW s \in S PROVE Cardinality(Smaller(S, s)) + 1 <= Cardinality(S)
    BY <1>4 DEF Smaller
  <2> QED BY <1>1, <1>2, <2>1
<1>6. ASSUME NEW s \in S, NEW t \in S, s < t
      PROVE  Cardinality(Smaller(S, s)) < Cardinality(Smaller(S, t))
  <2>1. Smaller(S, s) \cup {s} \subseteq Smaller(S, t) /\ Smaller(S, t) \in SUBSET S
    <3>1. \A j \in S : j < s => j < t
      BY <1>3, <1>6
    <3> QED BY <1>6, <3>1 DEF Smaller
  <2>2. Cardinality(Smaller(S, s)) + 1 <= Cardinality(Smaller(S, t))
    BY <1>2, <1>4, <2>1
  <2> QED BY <1>2, <2>2
<1> QED BY <1>1, <1>2, <1>5, <1>6

LEMMA RankExists ==
    ASSUME NEW S, IsFiniteSet(S), S \subseteq Nat, NEW i \in 0..(Cardinality(S) - 1)
    PROVE  \E s \in S : Cardinality(Smaller(S, s)) = i
<1>0. \A s, t \in S : s \in Nat /\ (s < t \/ t < s \/ s = t) /\ ~(s < t /\ t <= s)
  OBVIOUS
<1>1. Cardinality(S) \in Nat
  BY FS_CardinalityType
<1> DEFINE B == {k \in 0..(Cardinality(S) - 1) : ~\E s \in S : Cardinality(Smaller(S, s)) = k}
<1>2. SUFFICES ASSUME B # {} PROVE FALSE
  OBVIOUS
<1>3. B \subseteq Nat
  BY <1>1
<1>4. PICK b \in B : \A k \in B : b <= k
  <2> HIDE DEF B
  <2> QED BY <1>2, <1>3, LeastNumber
<1>5. b \in Nat /\ b < Cardinality(S) /\ ~\E s \in S : Cardinality(Smaller(S, s)) = b
  BY <1>1, <1>4
<1>6. S # {}
  BY <1>1, <1>5, FS_EmptySet
<1>7. CASE b = 0
  <2>1. PICK m \in S : \A n \in S : m <= n
    BY <1>6, LeastNumber
  <2>2. Smaller(S, m) = {}
    BY <1>0, <2>1 DEF Smaller
  <2> QED BY <1>5, <1>7, <2>2, FS_EmptySet
<1>8. CASE b # 0
  <2>1. b - 1 \in 0..(Cardinality(S) - 1) /\ b - 1 \notin B
    BY <1>1, <1>3, <1>4, <1>5, <1>8
  <2>2. PICK s \in S : Cardinality(Smaller(S, s)) = b - 1
    BY <2>1
  <2> DEFINE U == {r \in S : s < r}
  <2>3. /\ IsFiniteSet(Smaller(S, s) \cup {s})
        /\ Cardinality(Smaller(S, s) \cup {s}) = b
    <3>1. s \notin Smaller(S, s)
      BY DEF Smaller
    <3>2. IsFiniteSet(Smaller(S, s))
      BY Ranks
    <3>3. Cardinality(Smaller(S, s) \cup {s}) = Cardinality(Smaller(S, s)) + 1
      BY <3>1, <3>2, FS_AddElement
    <3>4. IsFiniteSet(Smaller(S, s) \cup {s})
      BY <3>1, <3>2, FS_AddElement
    <3> QED BY <1>5, <2>2, <3>3, <3>4
  <2>4. U # {} /\ U \subseteq Nat
    <3>1. ASSUME U = {} PROVE FALSE
      <4>1. S = Smaller(S, s) \cup {s}
        BY <1>0, <3>1 DEF Smaller
      <4>2. Cardinality(S) = b
        BY <2>3, <4>1
      <4> QED BY <1>5, <4>2
    <3> QED BY <3>1
  <2> HIDE DEF U
  <2>5. PICK t \in U : \A n \in U : t <= n
    BY <2>4, LeastNumber
  <2>6. Smaller(S, t) = Smaller(S, s) \cup {s}
    <3>1. t \in S /\ s < t /\ \A n \in S : s < n => t <= n
      BY <2>5 DEF U
    <3>2. \A j \in S : j < t <=> (j < s \/ j = s)
      BY <1>0, <3>1
    <3> QED BY <3>2 DEF Smaller
  <2> QED BY <1>5, <2>3, <2>5, <2>6 DEF U
<1> QED BY <1>7, <1>8

LEMMA InSlotOrderFacts ==
    ASSUME NEW S, IsFiniteSet(S), S \subseteq Nat
    PROVE  /\ Cardinality(S) \in Nat
           /\ InSlotOrder(S) \in [1..Cardinality(S) -> S] /\ Len(InSlotOrder(S)) = Cardinality(S)
           /\ \A s \in S : \E n \in 1..Cardinality(S) : InSlotOrder(S)[n] = s
           /\ \A n, m \in 1..Cardinality(S) : n # m => InSlotOrder(S)[n] # InSlotOrder(S)[m]
<1>1. Cardinality(S) \in Nat
  BY FS_CardinalityType
<1>2. \A n \in 1..Cardinality(S) :
         InSlotOrder(S)[n] = CHOOSE s \in S : Cardinality(Smaller(S, s)) = n - 1
  BY DEF InSlotOrder, Smaller
<1>3. \A n \in 1..Cardinality(S) :
         InSlotOrder(S)[n] \in S /\ Cardinality(Smaller(S, InSlotOrder(S)[n])) = n - 1
  <2>1. ASSUME NEW n \in 1..Cardinality(S)
        PROVE  \E s \in S : Cardinality(Smaller(S, s)) = n - 1
    <3>1. n - 1 \in 0..(Cardinality(S) - 1)
      BY <1>1
    <3> QED BY <3>1, RankExists
  <2> QED BY <1>2, <2>1
<1>4. InSlotOrder(S) \in [1..Cardinality(S) -> S]
  BY <1>3 DEF InSlotOrder
<1>5. Len(InSlotOrder(S)) = Cardinality(S)
  <2>1. InSlotOrder(S) \in Seq(S)
    BY <1>1, <1>4
  <2> QED BY <1>1, <1>4, <2>1
<1>6. ASSUME NEW s \in S PROVE \E n \in 1..Cardinality(S) : InSlotOrder(S)[n] = s
  <2>1. PICK k \in 0..(Cardinality(S) - 1) : k = Cardinality(Smaller(S, s))
    BY Ranks
  <2>2. k + 1 \in 1..Cardinality(S)
    BY <1>1
  <2>3. PICK t \in S : t = InSlotOrder(S)[k + 1] /\ Cardinality(Smaller(S, t)) = k
    <3>1. InSlotOrder(S)[k + 1] \in S /\ Cardinality(Smaller(S, InSlotOrder(S)[k + 1])) = (k + 1) - 1
      BY <1>3, <2>2
    <3>2. (k + 1) - 1 = k
      BY <1>1
    <3> QED BY <3>1, <3>2
  <2>4. ~(s < t) /\ ~(t < s)
    <3>1. (s < t => k < k) /\ (t < s => k < k)
      BY <2>1, <2>3, Ranks
    <3> QED BY <1>1, <3>1
  <2>5. s \in Nat /\ t \in Nat
    OBVIOUS
  <2> QED BY <2>5, <2>2, <2>3, <2>4
<1>7. ASSUME NEW n \in 1..Cardinality(S), NEW m \in 1..Cardinality(S), n # m
      PROVE  InSlotOrder(S)[n] # InSlotOrder(S)[m]
  BY <1>1, <1>3, <1>7
<1> QED BY <1>1, <1>4, <1>5, <1>6, <1>7

-----------------------------------------------------------------------------
\* The frames of a stack.

FramesOf(t) == {t[i] : i \in DOMAIN t}
Below(t) == {t[i] : i \in DOMAIN t \ {1}}
IsStack(t) == t \in Seq(FramesOf(t))

LEMMA StackBasics ==
    ASSUME NEW t, IsStack(t)
    PROVE  /\ Len(t) \in Nat /\ DOMAIN t = 1..Len(t)
           /\ \A i \in 1..Len(t) : t[i] \in FramesOf(t)
           /\ \A i \in 2..Len(t) : t[i] \in Below(t)
           /\ t # <<>> => Head(t) = t[1] /\ 1 \in 1..Len(t) /\ FramesOf(t) = {Head(t)} \cup Below(t)
           /\ t = <<>> => FramesOf(t) = {} /\ Below(t) = {}
<1>1. Len(t) \in Nat /\ DOMAIN t = 1..Len(t)
  BY DEF IsStack
<1>2. \A i \in 1..Len(t) : t[i] \in FramesOf(t)
  BY <1>1 DEF FramesOf
<1>3. \A i \in 2..Len(t) : t[i] \in Below(t)
  BY <1>1 DEF Below
<1>4. ASSUME t # <<>> PROVE Head(t) = t[1] /\ 1 \in 1..Len(t) /\ FramesOf(t) = {Head(t)} \cup Below(t)
  <2>1. Head(t) = t[1] /\ 1 \in 1..Len(t)
    BY <1>1, <1>4 DEF IsStack
  <2> QED BY <1>1, <2>1 DEF FramesOf, Below
<1>5. ASSUME t = <<>> PROVE FramesOf(t) = {} /\ Below(t) = {}
  BY <1>5 DEF FramesOf, Below
<1> QED BY <1>1, <1>2, <1>3, <1>4, <1>5

LEMMA FunctionIsSeq ==
    ASSUME NEW m \in Nat, NEW S, NEW u \in [1..m -> S]
    PROVE  u \in Seq(S) /\ Len(u) = m
<1>1. u \in Seq(S)
  OBVIOUS
<1> QED BY <1>1

LEMMA TailStack ==
    ASSUME NEW t, IsStack(t), t # <<>>, NEW u, u = Tail(t)
    PROVE  /\ IsStack(u) /\ Len(u) = Len(t) - 1 /\ \A i \in 1..Len(u) : u[i] = t[i + 1]
           /\ FramesOf(u) = Below(t) /\ Below(u) \subseteq Below(t)
<1>1. Len(t) \in Nat /\ DOMAIN t = 1..Len(t) /\ t \in Seq(FramesOf(t))
  BY StackBasics DEF IsStack
<1>2. PICK m : m = Len(u)
  OBVIOUS
<1>3. m = Len(t) - 1 /\ m \in Nat /\ u \in Seq(FramesOf(t)) /\ DOMAIN u = 1..m /\ \A i \in 1..m : u[i] = t[i + 1]
  BY <1>1, <1>2, HeadTailProperties
<1>4. FramesOf(u) = Below(t)
  <2>1. ASSUME NEW i \in 1..m PROVE u[i] \in Below(t)
    <3>1. i + 1 \in DOMAIN t \ {1}
      BY <1>1, <1>3
    <3> QED BY <1>3, <3>1 DEF Below
  <2>2. ASSUME NEW i \in DOMAIN t \ {1} PROVE t[i] \in FramesOf(u)
    <3>1. i - 1 \in 1..m /\ (i - 1) + 1 = i
      BY <1>1, <1>3
    <3>2. u[i - 1] = t[i]
      BY <1>3, <3>1
    <3> QED BY <1>3, <3>1, <3>2 DEF FramesOf
  <2>3. FramesOf(u) = {u[i] : i \in 1..m}
    BY <1>3 DEF FramesOf
  <2>4. Below(t) = {t[i] : i \in DOMAIN t \ {1}}
    BY DEF Below
  <2>5. FramesOf(u) \subseteq Below(t)
    BY <2>1, <2>3
  <2>6. Below(t) \subseteq FramesOf(u)
    BY <2>2, <2>4
  <2> QED BY <2>5, <2>6
<1>5. u \in Seq(FramesOf(u))
  <2>0. PICK S : S = FramesOf(u)
    OBVIOUS
  <2>1. \A i \in 1..m : u[i] \in S
    BY <1>3, <2>0 DEF FramesOf
  <2>2. u \in [1..m -> FramesOf(t)]
    BY <1>2, <1>3, LenProperties
  <2>3. u \in [1..m -> S]
    BY <2>1, <2>2
  <2>4. u \in Seq(S)
    BY <1>3, <2>3, FunctionIsSeq
  <2> QED BY <2>0, <2>4
<1>6. Below(u) \subseteq FramesOf(u)
  BY DEF Below, FramesOf
<1> QED BY <1>2, <1>3, <1>4, <1>5, <1>6 DEF IsStack

LEMMA JoinStack ==
    ASSUME NEW x, IsStack(x), NEW y, IsStack(y), NEW u, u = x \o y
    PROVE  /\ IsStack(u) /\ Len(u) = Len(x) + Len(y)
           /\ \A i \in 1..Len(x) : u[i] = x[i]
           /\ \A i \in 1..Len(y) : u[Len(x) + i] = y[i]
           /\ FramesOf(u) = FramesOf(x) \cup FramesOf(y)
           /\ x # <<>> => Head(u) = x[1] /\ u # <<>> /\ Below(u) = Below(x) \cup FramesOf(y)
           /\ x = <<>> => u = y
           /\ y = <<>> => u = x
<1>1. PICK m, n : m = Len(x) /\ n = Len(y)
  OBVIOUS
<1>2. m \in Nat /\ n \in Nat /\ DOMAIN x = 1..m /\ DOMAIN y = 1..n
  BY <1>1, StackBasics
<1>3. PICK S : S = FramesOf(x) \cup FramesOf(y)
  OBVIOUS
<1>4. x \in Seq(S) /\ y \in Seq(S)
  BY <1>3 DEF IsStack
<1>5. u \in Seq(S) /\ Len(u) = m + n /\ \A i \in 1..(m + n) : u[i] = IF i <= m THEN x[i] ELSE y[i - m]
  BY <1>1, <1>4, ConcatProperties
<1>6. DOMAIN u = 1..(m + n)
  BY <1>5
<1>7. \A i \in 1..m : i \in 1..(m + n) /\ u[i] = x[i]
  BY <1>2, <1>5
<1>8. \A i \in 1..n : m + i \in 1..(m + n) /\ u[m + i] = y[i]
  <2>1. \A i \in 1..n : m + i \in 1..(m + n) /\ ~(m + i <= m) /\ (m + i) - m = i
    BY <1>2
  <2> QED BY <1>5, <2>1
<1>9. ASSUME NEW k \in 1..(m + n) PROVE k \in 1..m \/ \E i \in 1..n : k = m + i
  <2>1. CASE k <= m
    BY <1>2, <2>1
  <2>2. CASE ~(k <= m)
    <3>1. k - m \in 1..n /\ k = m + (k - m)
      BY <1>2, <2>2
    <3> QED BY <3>1
  <2> QED BY <2>1, <2>2
<1>10. FramesOf(u) = S
  <2>1. \A k \in 1..(m + n) : u[k] \in S
    BY <1>5
  <2>2. \A f \in S : \E k \in 1..(m + n) : u[k] = f
    BY <1>2, <1>3, <1>7, <1>8 DEF FramesOf
  <2> QED BY <1>6, <2>1, <2>2 DEF FramesOf
<1>11. IsStack(u)
  BY <1>5, <1>10 DEF IsStack
<1>12. ASSUME x # <<>>
       PROVE  Head(u) = x[1] /\ u # <<>> /\ Below(u) = Below(x) \cup FramesOf(y)
  <2>1. 1 \in 1..m
    BY <1>1, <1>12, StackBasics
  <2>2. u # <<>> /\ Head(u) = u[1] /\ u[1] = x[1]
    BY <1>2, <1>5, <1>7, <2>1
  <2>3. Below(u) \subseteq Below(x) \cup FramesOf(y)
    <3>1. ASSUME NEW k \in (1..(m + n)) \ {1} PROVE u[k] \in Below(x) \cup FramesOf(y)
      <4>1. CASE k \in 1..m
        BY <1>2, <1>7, <4>1 DEF Below
      <4>2. ASSUME NEW i \in 1..n, k = m + i PROVE u[k] \in FramesOf(y)
        BY <1>2, <1>8, <4>2 DEF FramesOf
      <4> QED BY <1>9, <4>1, <4>2
    <3> QED BY <1>6, <3>1 DEF Below
  <2>4. Below(x) \subseteq Below(u)
    BY <1>2, <1>6, <1>7 DEF Below
  <2>5. FramesOf(y) \subseteq Below(u)
    <3>1. \A i \in 1..n : m + i \in (1..(m + n)) \ {1}
      BY <1>2, <2>1
    <3> QED BY <1>2, <1>6, <1>8, <3>1 DEF Below, FramesOf
  <2> QED BY <2>2, <2>3, <2>4, <2>5
<1>13. (x = <<>> => u = y) /\ (y = <<>> => u = x)
  BY <1>4
<1> QED BY <1>1, <1>3, <1>5, <1>7, <1>8, <1>10, <1>11, <1>12, <1>13

LEMMA NoFrame == IsStack(<<>>) /\ FramesOf(<<>>) = {} /\ Below(<<>>) = {} /\ Len(<<>>) = 0
  BY DEF IsStack, FramesOf, Below

LEMMA OneFrame ==
    ASSUME NEW a, NEW t, t = <<a>>
    PROVE  IsStack(t) /\ FramesOf(t) = {a} /\ Below(t) = {} /\ t # <<>> /\ t[1] = a /\ Len(t) = 1
<1>1. DOMAIN t = 1..1 /\ t[1] = a /\ Len(t) = 1
  OBVIOUS
<1>2. FramesOf(t) = {a} /\ Below(t) = {}
  BY <1>1 DEF FramesOf, Below
<1> QED BY <1>1, <1>2 DEF IsStack

LEMMA TwoFrames ==
    ASSUME NEW a, NEW b, NEW t, t = <<a, b>>
    PROVE  /\ IsStack(t) /\ FramesOf(t) = {a, b} /\ Below(t) = {b} /\ t # <<>> /\ Len(t) = 2
           /\ t[1] = a /\ t[2] = b
<1>1. DOMAIN t = 1..2 /\ t[1] = a /\ t[2] = b /\ Len(t) = 2
  OBVIOUS
<1>2. FramesOf(t) = {a, b} /\ Below(t) = {b}
  BY <1>1 DEF FramesOf, Below
<1> QED BY <1>1, <1>2 DEF IsStack

LEMMA ThreeFrames ==
    ASSUME NEW a, NEW b, NEW c, NEW t, t = <<a, b, c>>
    PROVE  /\ IsStack(t) /\ FramesOf(t) = {a, b, c} /\ Below(t) = {b, c} /\ t # <<>> /\ Len(t) = 3
           /\ t[1] = a /\ t[2] = b /\ t[3] = c
<1>1. DOMAIN t = 1..3 /\ t[1] = a /\ t[2] = b /\ t[3] = c /\ Len(t) = 3
  OBVIOUS
<1>2. FramesOf(t) = {a, b, c} /\ Below(t) = {b, c}
  BY <1>1 DEF FramesOf, Below
<1> QED BY <1>1, <1>2 DEF IsStack

LEMMA FourFrames ==
    ASSUME NEW a, NEW b, NEW c, NEW d, NEW t, t = <<a, b, c, d>>
    PROVE  /\ IsStack(t) /\ FramesOf(t) = {a, b, c, d} /\ Below(t) = {b, c, d} /\ t # <<>> /\ Len(t) = 4
           /\ t[1] = a /\ t[2] = b /\ t[3] = c /\ t[4] = d
<1>1. DOMAIN t = 1..4 /\ t[1] = a /\ t[2] = b /\ t[3] = c /\ t[4] = d /\ Len(t) = 4
  OBVIOUS
<1>2. FramesOf(t) = {a, b, c, d} /\ Below(t) = {b, c, d}
  BY <1>1 DEF FramesOf, Below
<1> QED BY <1>1, <1>2 DEF IsStack
-----------------------------------------------------------------------------
\* The timers: the ones that exist and the ones that run, as pairs of an
\* operation and a name.

KeepAliveNames == {"ping", "recv", "resp"}

SlotType ==
    {s \in [holder : 0..KeepAlive, name : {"none", "ping", "recv", "resp", "response"},
            active : BOOLEAN, ms : {0}, suspended : {FALSE}] :
        \/ s = FreeSlot
        \/ s.holder \in Handles /\ s.name = "response"
        \/ s.holder = KeepAlive /\ s.name \in KeepAliveNames}

SameTimer(s, t) == s.holder # NoHolder /\ s.holder = t.holder /\ s.name = t.name
TimersOK(ts) == ts \in Seq(SlotType) /\ \A i, j \in 1..Len(ts) : SameTimer(ts[i], ts[j]) => i = j

KeyOf(slot) == <<slot.holder, slot.name>>
Used(ts) == {i \in 1..Len(ts) : ts[i].holder # NoHolder}
Keys(ts) == {KeyOf(ts[i]) : i \in Used(ts)}
Active(ts) == {KeyOf(ts[i]) : i \in {i \in Used(ts) : ts[i].active}}

LEMMA Numbers ==
    /\ MaxOps \in Nat /\ KeepAlive \in Nat /\ KeepAlive = MaxOps + 1 /\ NoHolder = 0
    /\ \A s \in Operations : s \in Nat /\ s # 0 /\ s \in 0..KeepAlive
    /\ \A s \in Handles : s \in Operations /\ s # KeepAlive /\ s # 0
    /\ KeepAlive \in Operations /\ KeepAlive \notin Handles /\ 0 \notin Operations /\ 0 \notin Handles
    /\ \A s \in Operations : s \in Handles \/ s = KeepAlive
  BY ClientOpsAssumption DEF KeepAlive, Operations, Handles, NoHolder

LEMMA SlotFacts ==
    /\ FreeSlot \in SlotType /\ FreeSlot.holder = NoHolder /\ ~FreeSlot.active
    /\ \A s \in SlotType : /\ s.active \in BOOLEAN /\ s.ms = 0 /\ s.suspended = FALSE
                           /\ s.holder = NoHolder <=> s = FreeSlot
                           /\ s.holder # NoHolder => s.holder \in Operations
                           /\ s.holder \in Handles => s.name = "response"
                           /\ s.holder = KeepAlive => s.name \in KeepAliveNames
<1>1. FreeSlot.holder = NoHolder /\ FreeSlot.active = FALSE
  BY DEF FreeSlot
<1>2. FreeSlot \in SlotType
  BY Numbers DEF FreeSlot, SlotType
<1>3. ASSUME NEW s \in SlotType
      PROVE  /\ s.active \in BOOLEAN /\ s.ms = 0 /\ s.suspended = FALSE
             /\ s.holder = NoHolder <=> s = FreeSlot
             /\ s.holder # NoHolder => s.holder \in Operations
             /\ s.holder \in Handles => s.name = "response"
             /\ s.holder = KeepAlive => s.name \in KeepAliveNames
  <2>1. s.active \in BOOLEAN /\ s.ms = 0 /\ s.suspended = FALSE
    BY DEF SlotType
  <2>2. CASE s = FreeSlot
    <3>1. s.holder = NoHolder /\ s.holder \notin Handles /\ s.holder # KeepAlive
      BY <1>1, <2>2, Numbers
    <3> QED BY <2>1, <2>2, <3>1
  <2>3. CASE s.holder \in Handles /\ s.name = "response"
    <3>1. s.holder # NoHolder /\ s.holder \in Operations /\ s.holder # KeepAlive /\ s # FreeSlot
      BY <1>1, <2>3, Numbers
    <3> QED BY <2>1, <2>3, <3>1
  <2>4. CASE s.holder = KeepAlive /\ s.name \in KeepAliveNames
    <3>1. s.holder # NoHolder /\ s.holder \in Operations /\ s.holder \notin Handles /\ s # FreeSlot
      BY <1>1, <2>4, Numbers
    <3> QED BY <2>1, <2>4, <3>1
  <2> QED BY <2>2, <2>3, <2>4 DEF SlotType
<1> QED BY <1>1, <1>2, <1>3

LEMMA TimerBasics ==
    ASSUME NEW ts, TimersOK(ts)
    PROVE  /\ Len(ts) \in Nat /\ Slots(ts) = 1..Len(ts) /\ DOMAIN ts = 1..Len(ts)
           /\ ts = [i \in 1..Len(ts) |-> ts[i]]
           /\ \A i \in 1..Len(ts) : ts[i] \in SlotType
  BY DEF TimersOK, Slots

LEMMA SlotOfKey ==
    ASSUME NEW ts, TimersOK(ts), NEW h, NEW n, <<h, n>> \in Keys(ts)
    PROVE  \E i \in Used(ts) : ts[i].holder = h /\ ts[i].name = n /\ SlotOf(ts, h, n) = i
<1>1. PICK i \in Used(ts) : ts[i].holder = h /\ ts[i].name = n
  BY DEF Keys, KeyOf
<1>2. i \in 1..Len(ts) /\ ts[i].holder # NoHolder
  BY <1>1 DEF Used
<1>3. \A j \in 1..Len(ts) : ts[j].holder = h /\ ts[j].name = n => j = i
  BY <1>1, <1>2 DEF TimersOK, SameTimer
<1>4. SlotOf(ts, h, n) = i
  BY <1>1, <1>2, <1>3, TimerBasics DEF SlotOf
<1> QED BY <1>1, <1>4

\* A change that leaves every slot to its timer.
Same(u, ts) ==
    /\ u \in Seq(SlotType) /\ Len(u) = Len(ts)
    /\ \A i \in 1..Len(ts) : u[i].holder = ts[i].holder /\ u[i].name = ts[i].name

LEMMA SameKeys ==
    ASSUME NEW ts, TimersOK(ts), NEW u, Same(u, ts)
    PROVE  /\ TimersOK(u) /\ Keys(u) = Keys(ts) /\ Used(u) = Used(ts)
           /\ \A i \in Used(ts) : KeyOf(u[i]) = KeyOf(ts[i]) /\ (KeyOf(ts[i]) \in Active(u) <=> u[i].active)
           /\ Active(u) \subseteq Keys(ts)
<1>1. Used(u) = Used(ts) /\ \A i \in Used(ts) : i \in 1..Len(ts) /\ KeyOf(u[i]) = KeyOf(ts[i])
  BY DEF Same, Used, KeyOf
<1>2. TimersOK(u)
  BY DEF TimersOK, SameTimer, Same
<1>3. Keys(u) = Keys(ts)
  BY <1>1 DEF Keys
<1>4. ASSUME NEW i \in Used(ts) PROVE KeyOf(ts[i]) \in Active(u) <=> u[i].active
  <2>1. u[i].active => KeyOf(u[i]) \in Active(u)
    BY <1>1 DEF Active
  <2>2. ASSUME KeyOf(ts[i]) \in Active(u) PROVE u[i].active
    <3>1. PICK j \in Used(u) : u[j].active /\ KeyOf(u[j]) = KeyOf(ts[i])
      BY <2>2 DEF Active
    <3>2. KeyOf(u[j]) = KeyOf(u[i]) /\ i \in 1..Len(u) /\ j \in 1..Len(u) /\ u[j].holder # NoHolder
      BY <1>1, <3>1 DEF Used
    <3>3. SameTimer(u[j], u[i])
      BY <3>2 DEF SameTimer, KeyOf
    <3>4. i = j
      BY <1>2, <3>2, <3>3 DEF TimersOK
    <3> QED BY <3>1, <3>4
  <2> QED BY <1>1, <2>1, <2>2
<1>5. Active(u) \subseteq Keys(ts)
  BY <1>3 DEF Active, Keys
<1> QED BY <1>1, <1>2, <1>3, <1>4, <1>5

LEMMA ActiveFacts ==
    ASSUME NEW ts, TimersOK(ts)
    PROVE  /\ Active(ts) \subseteq Keys(ts)
           /\ \A i \in Used(ts) : KeyOf(ts[i]) \in Active(ts) <=> ts[i].active
           /\ \A h, n : <<h, n>> \in Keys(ts) => (TimerIsActive(ts, h, n) <=> <<h, n>> \in Active(ts))
           /\ Running(ts) = {i \in Used(ts) : ts[i].active}
           /\ Running(ts) = {} <=> Active(ts) = {}
<1>1. Same(ts, ts)
  BY DEF Same, TimersOK
<1>2. /\ Active(ts) \subseteq Keys(ts)
      /\ \A i \in Used(ts) : KeyOf(ts[i]) \in Active(ts) <=> ts[i].active
  BY <1>1, SameKeys
<1>3. ASSUME NEW h, NEW n, <<h, n>> \in Keys(ts)
      PROVE  TimerIsActive(ts, h, n) <=> <<h, n>> \in Active(ts)
  <2>1. PICK i \in Used(ts) : ts[i].holder = h /\ ts[i].name = n /\ SlotOf(ts, h, n) = i
    BY <1>3, SlotOfKey
  <2>2. KeyOf(ts[i]) = <<h, n>>
    BY <2>1 DEF KeyOf
  <2> QED BY <1>2, <2>1, <2>2 DEF TimerIsActive
<1>4. Running(ts) = {i \in Used(ts) : ts[i].active}
  <2>1. \A i \in 1..Len(ts) : ts[i].suspended = FALSE /\ ts[i].active \in BOOLEAN
    BY TimerBasics, SlotFacts
  <2> QED BY <2>1, TimerBasics DEF Running, Used
<1>5. Running(ts) = {} <=> Active(ts) = {}
  BY <1>4 DEF Active
<1> QED BY <1>2, <1>3, <1>4, <1>5

LEMMA WaitFacts ==
    ASSUME NEW ts, TimersOK(ts), NEW h, NEW n, <<h, n>> \in Keys(ts), NEW u, u = TimerWait(ts, h, n, 0)
    PROVE  TimersOK(u) /\ Keys(u) = Keys(ts) /\ Active(u) = Active(ts) \cup {<<h, n>>}
<1>1. PICK i \in Used(ts) : ts[i].holder = h /\ ts[i].name = n /\ SlotOf(ts, h, n) = i
  BY SlotOfKey
<1>2. i \in 1..Len(ts) /\ ts[i] \in SlotType /\ KeyOf(ts[i]) = <<h, n>> /\ ts[i].holder # NoHolder
  BY <1>1, TimerBasics DEF Used, KeyOf
<1>3. PICK v : v = [ts[i] EXCEPT !.active = TRUE, !.ms = 0]
  OBVIOUS
<1>4. v \in SlotType /\ v.holder = ts[i].holder /\ v.name = ts[i].name /\ v.active
  <2>1. /\ v \in [holder : 0..KeepAlive, name : {"none", "ping", "recv", "resp", "response"},
                  active : BOOLEAN, ms : {0}, suspended : {FALSE}]
        /\ v.holder = ts[i].holder /\ v.name = ts[i].name /\ v.active
    BY <1>2, <1>3 DEF SlotType
  <2>2. ts[i] # FreeSlot
    BY <1>2, SlotFacts
  <2> QED BY <1>2, <2>1, <2>2 DEF SlotType
<1>5. u = [ts EXCEPT ![i] = v]
  <2>1. DOMAIN ts = 1..Len(ts)
    BY TimerBasics
  <2> QED BY <1>1, <1>2, <1>3, <2>1 DEF TimerWait
<1>6. /\ u \in Seq(SlotType) /\ Len(u) = Len(ts)
      /\ \A j \in 1..Len(ts) : u[j] = IF j = i THEN v ELSE ts[j]
  <2>1. ts \in Seq(SlotType) /\ Len(ts) \in Nat
    BY TimerBasics DEF TimersOK
  <2> QED BY <1>2, <1>4, <1>5, <2>1
<1>7. Same(u, ts)
  BY <1>4, <1>6 DEF Same
<1>8. \A j \in Used(ts) : KeyOf(ts[j]) \in Active(u) <=> (KeyOf(ts[j]) \in Active(ts) \/ j = i)
  <2>1. \A j \in Used(ts) : j \in 1..Len(ts) /\ (u[j].active <=> ts[j].active \/ j = i)
    BY <1>4, <1>6 DEF Used
  <2> QED BY <1>7, <2>1, SameKeys, ActiveFacts
<1>9. \A j \in Used(ts) : KeyOf(ts[j]) = <<h, n>> <=> j = i
  <2>1. ASSUME NEW j \in Used(ts), KeyOf(ts[j]) = KeyOf(ts[i]) PROVE j = i
    <3>1. j \in 1..Len(ts) /\ SameTimer(ts[j], ts[i])
      BY <1>2, <2>1 DEF Used, SameTimer, KeyOf
    <3> QED BY <1>2, <3>1 DEF TimersOK
  <2> QED BY <1>2, <2>1
<1>10. Active(u) \subseteq Keys(ts) /\ Active(ts) \subseteq Keys(ts)
  BY <1>7, SameKeys, ActiveFacts
<1>11. \A k \in Keys(ts) : k \in Active(u) <=> k \in Active(ts) \/ k = <<h, n>>
  BY <1>8, <1>9 DEF Keys
<1> QED BY <1>7, <1>10, <1>11, SameKeys

LEMMA StoppedFacts ==
    ASSUME NEW s \in SlotType, NEW v, v = Stopped(s)
    PROVE  v \in SlotType /\ v.holder = s.holder /\ v.name = s.name /\ v.active = FALSE
<1>1. /\ v \in [holder : 0..KeepAlive, name : {"none", "ping", "recv", "resp", "response"},
                active : BOOLEAN, ms : {0}, suspended : {FALSE}]
      /\ v.holder = s.holder /\ v.name = s.name /\ v.active = FALSE
  BY DEF Stopped, SlotType
<1>2. s = FreeSlot => v = FreeSlot
  <2>1. s = FreeSlot => s.active = FALSE /\ s.ms = 0
    BY DEF FreeSlot
  <2>2. s.active = FALSE /\ s.ms = 0 => Stopped(s) = s
    BY DEF Stopped, SlotType
  <2> QED BY <2>1, <2>2
<1> QED BY <1>1, <1>2 DEF SlotType

\* The timers of the slots E are stopped.
LEMMA StopFacts ==
    ASSUME NEW ts, TimersOK(ts), NEW E, E \subseteq Used(ts),
           NEW u, u = [i \in 1..Len(ts) |-> IF i \in E THEN Stopped(ts[i]) ELSE ts[i]]
    PROVE  /\ TimersOK(u) /\ Keys(u) = Keys(ts)
           /\ Active(u) = Active(ts) \ {KeyOf(ts[i]) : i \in E}
<1>1. Len(ts) \in Nat /\ \A i \in 1..Len(ts) : ts[i] \in SlotType
  BY TimerBasics
<1>2. \A i \in 1..Len(ts) : /\ u[i] \in SlotType /\ u[i].holder = ts[i].holder /\ u[i].name = ts[i].name
                            /\ u[i].active <=> (ts[i].active /\ i \notin E)
  BY <1>1, StoppedFacts
<1>3. Same(u, ts)
  <2>1. u \in [1..Len(ts) -> SlotType]
    BY <1>1, <1>2
  <2> QED BY <1>1, <1>2, <2>1 DEF Same
<1>4. ASSUME NEW j \in Used(ts) PROVE KeyOf(ts[j]) \in {KeyOf(ts[i]) : i \in E} <=> j \in E
  <2>1. ASSUME NEW i \in E, KeyOf(ts[j]) = KeyOf(ts[i]) PROVE i = j
    <3>1. i \in 1..Len(ts) /\ j \in 1..Len(ts) /\ SameTimer(ts[j], ts[i])
      BY <2>1 DEF Used, SameTimer, KeyOf
    <3> QED BY <3>1 DEF TimersOK
  <2> QED BY <2>1
<1>5. \A j \in Used(ts) : KeyOf(ts[j]) \in Active(u) <=> (KeyOf(ts[j]) \in Active(ts) /\ j \notin E)
  <2>1. \A j \in Used(ts) : j \in 1..Len(ts)
    BY DEF Used
  <2> QED BY <1>2, <1>3, <2>1, SameKeys, ActiveFacts
<1>6. Active(u) \subseteq Keys(ts) /\ Active(ts) \subseteq Keys(ts)
  BY <1>3, SameKeys, ActiveFacts
<1>7. \A k \in Keys(ts) : k \in Active(u) <=> k \in Active(ts) /\ k \notin {KeyOf(ts[i]) : i \in E}
  BY <1>4, <1>5 DEF Keys
<1> QED BY <1>3, <1>6, <1>7, SameKeys

LEMMA CancelFacts ==
    ASSUME NEW ts, TimersOK(ts), NEW h, NEW n, <<h, n>> \in Keys(ts), NEW u, u = TimerCancel(ts, h, n)
    PROVE  TimersOK(u) /\ Keys(u) = Keys(ts) /\ Active(u) = Active(ts) \ {<<h, n>>}
<1>1. PICK i \in Used(ts) : ts[i].holder = h /\ ts[i].name = n /\ SlotOf(ts, h, n) = i
  BY SlotOfKey
<1>2. i \in 1..Len(ts) /\ KeyOf(ts[i]) = <<h, n>> /\ DOMAIN ts = 1..Len(ts)
  BY <1>1, TimerBasics DEF Used, KeyOf
<1>3. PICK E : E = {i}
  OBVIOUS
<1>4. u = [j \in 1..Len(ts) |-> IF j \in E THEN Stopped(ts[j]) ELSE ts[j]]
  BY <1>1, <1>2, <1>3 DEF TimerCancel
<1>5. {KeyOf(ts[j]) : j \in E} = {<<h, n>>} /\ E \subseteq Used(ts)
  BY <1>2, <1>3
<1>6. /\ TimersOK(u) /\ Keys(u) = Keys(ts)
      /\ Active(u) = Active(ts) \ {KeyOf(ts[j]) : j \in E}
  BY <1>4, <1>5, StopFacts
<1> QED BY <1>5, <1>6

\* The timers of an operation are given back.
LEMMA FreeFacts ==
    ASSUME NEW ts, TimersOK(ts), NEW h, NEW u, u = FreeTimers(ts, h)
    PROVE  /\ TimersOK(u)
           /\ Keys(u) = {k \in Keys(ts) : k[1] # h} /\ Active(u) = {k \in Active(ts) : k[1] # h}
<1>1. Len(ts) \in Nat /\ \A i \in 1..Len(ts) : ts[i] \in SlotType
  BY TimerBasics
<1>2. u = [i \in 1..Len(ts) |-> IF ts[i].holder = h THEN FreeSlot ELSE ts[i]]
  BY TimerBasics DEF FreeTimers
<1>3. u \in Seq(SlotType) /\ Len(u) = Len(ts)
  <2>1. u \in [1..Len(ts) -> SlotType]
    BY <1>1, <1>2, SlotFacts
  <2> QED BY <1>1, <2>1
<1>4. Used(u) = {i \in Used(ts) : ts[i].holder # h} /\ \A i \in Used(u) : u[i] = ts[i] /\ i \in 1..Len(ts)
  <2>1. \A i \in 1..Len(ts) : u[i].holder # NoHolder <=> (ts[i].holder # NoHolder /\ ts[i].holder # h)
    BY <1>2, SlotFacts
  <2> QED BY <1>2, <1>3, <2>1 DEF Used
<1>5. TimersOK(u)
  <2>1. ASSUME NEW i \in 1..Len(u), NEW j \in 1..Len(u), SameTimer(u[i], u[j]) PROVE i = j
    <3>1. i \in Used(u) /\ j \in Used(u)
      BY <2>1 DEF SameTimer, Used
    <3>2. SameTimer(ts[i], ts[j])
      BY <1>4, <2>1, <3>1
    <3> QED BY <1>3, <2>1, <3>2 DEF TimersOK
  <2> QED BY <1>3, <2>1 DEF TimersOK
<1>6. Keys(u) = {k \in Keys(ts) : k[1] # h}
  <2>1. \A i \in Used(ts) : KeyOf(ts[i])[1] = ts[i].holder
    BY DEF KeyOf
  <2> QED BY <1>4, <2>1 DEF Keys
<1>7. Active(u) = {k \in Active(ts) : k[1] # h}
  <2>1. \A i \in Used(ts) : KeyOf(ts[i])[1] = ts[i].holder
    BY DEF KeyOf
  <2> QED BY <1>4, <2>1 DEF Active
<1> QED BY <1>5, <1>6, <1>7

\* A timer is allocated; it does not run.
LEMMA AllocFacts ==
    ASSUME NEW ts, TimersOK(ts), NEW h, NEW n, <<h, n>> \notin Keys(ts),
           \/ h \in Handles /\ n = "response"
           \/ h = KeepAlive /\ n \in KeepAliveNames,
           NEW u, u = AllocTimer(ts, h, n)
    PROVE  TimersOK(u) /\ Keys(u) = Keys(ts) \cup {<<h, n>>} /\ Active(u) = Active(ts)
<1>1. Len(ts) \in Nat /\ DOMAIN ts = 1..Len(ts) /\ ts \in Seq(SlotType) /\ \A i \in 1..Len(ts) : ts[i] \in SlotType
  BY TimerBasics DEF TimersOK
<1>2. PICK v : v = [FreeSlot EXCEPT !.holder = h, !.name = n]
  OBVIOUS
<1>3. v.holder = h /\ v.name = n /\ v.active = FALSE
  BY <1>2 DEF FreeSlot
<1>4. h # NoHolder /\ h \in 0..KeepAlive /\ n \in {"none", "ping", "recv", "resp", "response"}
  BY Numbers DEF KeepAliveNames
<1>5. v \in SlotType
  <2>1. v \in [holder : 0..KeepAlive, name : {"none", "ping", "recv", "resp", "response"},
               active : BOOLEAN, ms : {0}, suspended : {FALSE}]
    BY <1>2, <1>4 DEF FreeSlot
  <2> QED BY <1>3, <2>1 DEF SlotType
<1>6. PICK free : free = {i \in Slots(ts) : ts[i].holder = NoHolder}
  OBVIOUS
<1>7. \E k \in Nat : /\ k \notin Used(ts) /\ u \in Seq(SlotType) /\ k \in 1..Len(u) /\ Len(ts) <= Len(u)
                     /\ \A i \in 1..Len(u) : i # k => i \in 1..Len(ts)
                     /\ \A i \in 1..Len(u) : u[i] = IF i = k THEN v ELSE ts[i]
  <2>1. CASE free = {}
    <3>1. u = Append(ts, v)
      BY <1>2, <1>6, <2>1 DEF AllocTimer
    <3>2. PICK k : k = Len(ts) + 1
      OBVIOUS
    <3>3. k \in Nat /\ k \notin Used(ts) /\ u \in Seq(SlotType) /\ Len(u) = k
      BY <1>1, <1>5, <3>1, <3>2 DEF Used
    <3>4. \A i \in 1..k : u[i] = IF i = k THEN v ELSE ts[i]
      BY <1>1, <1>5, <3>1, <3>2
    <3>5. k \in 1..k /\ Len(ts) <= k /\ \A i \in 1..k : i # k => i \in 1..Len(ts)
      BY <1>1, <3>2
    <3> QED BY <3>3, <3>4, <3>5
  <2>2. CASE free # {}
    <3>1. PICK k : k = Least(free)
      OBVIOUS
    <3>2. free \subseteq Nat
      BY <1>1, <1>6 DEF Slots
    <3>3. k \in free
      BY <2>2, <3>1, <3>2, LeastNumber
    <3>4. k \in 1..Len(ts) /\ k \in Nat /\ k \notin Used(ts)
      BY <1>1, <1>6, <3>2, <3>3 DEF Used, Slots
    <3>5. u = [ts EXCEPT ![k] = v]
      BY <1>2, <1>6, <2>2, <3>1 DEF AllocTimer
    <3>6. u \in Seq(SlotType) /\ Len(u) = Len(ts) /\ \A i \in 1..Len(u) : u[i] = IF i = k THEN v ELSE ts[i]
      BY <1>1, <1>5, <3>4, <3>5
    <3> QED BY <1>1, <3>4, <3>6
  <2> QED BY <2>1, <2>2
<1>8. PICK k \in Nat : /\ k \notin Used(ts) /\ u \in Seq(SlotType) /\ k \in 1..Len(u) /\ Len(ts) <= Len(u)
                       /\ \A i \in 1..Len(u) : i # k => i \in 1..Len(ts)
                       /\ \A i \in 1..Len(u) : u[i] = IF i = k THEN v ELSE ts[i]
  BY <1>7
<1>9. Used(u) = Used(ts) \cup {k} /\ \A i \in Used(ts) : u[i] = ts[i] /\ i # k
  <2>1. \A i \in Used(ts) : i \in 1..Len(u) /\ i # k
    <3>1. Len(u) \in Nat
      BY <1>8
    <3> QED BY <1>1, <1>8, <3>1 DEF Used
  <2>2. u[k].holder # NoHolder
    BY <1>3, <1>4, <1>8
  <2> QED BY <1>8, <2>1, <2>2 DEF Used
<1>10. KeyOf(u[k]) = <<h, n>> /\ u[k].active = FALSE
  BY <1>3, <1>8 DEF KeyOf
<1>11. TimersOK(u)
  <2>1. ASSUME NEW i \in 1..Len(u), NEW j \in 1..Len(u), SameTimer(u[i], u[j]) PROVE i = j
    <3>1. i \in Used(u) /\ j \in Used(u) /\ KeyOf(u[i]) = KeyOf(u[j])
      BY <2>1 DEF SameTimer, Used, KeyOf
    <3>2. \A m \in Used(ts) : KeyOf(u[m]) # <<h, n>>
      BY <1>9 DEF Keys
    <3>3. CASE i = k \/ j = k
      BY <1>9, <1>10, <3>1, <3>2, <3>3
    <3>4. CASE i # k /\ j # k
      <4>1. i \in 1..Len(ts) /\ j \in 1..Len(ts) /\ SameTimer(ts[i], ts[j])
        BY <1>8, <2>1, <3>4
      <4> QED BY <4>1 DEF TimersOK
    <3> QED BY <3>3, <3>4
  <2> QED BY <1>8, <2>1 DEF TimersOK
<1>12. Keys(u) = Keys(ts) \cup {<<h, n>>}
  BY <1>9, <1>10 DEF Keys
<1>13. Active(u) = Active(ts)
  BY <1>9, <1>10 DEF Active
<1> QED BY <1>11, <1>12, <1>13
-----------------------------------------------------------------------------
\* The table of operations.

TableType == Seq(Operations \cup {0})
LiveOf(q) == {q[i] : i \in DOMAIN q} \ {0}
Distinct(q) == \A i, j \in 1..Len(q) : q[i] # 0 /\ q[i] = q[j] => i = j
Nulled(q, s) == [i \in DOMAIN q |-> IF q[i] = s THEN 0 ELSE q[i]]

LEMMA TableBasics ==
    ASSUME NEW q \in TableType
    PROVE  /\ Len(q) \in Nat /\ DOMAIN q = 1..Len(q) /\ LiveOf(q) \subseteq Operations
           /\ \A i \in 1..Len(q) : q[i] \in Operations \cup {0} /\ (q[i] # 0 => q[i] \in LiveOf(q))
           /\ \A s \in LiveOf(q) : \E i \in 1..Len(q) : q[i] = s
<1>1. Len(q) \in Nat /\ DOMAIN q = 1..Len(q) /\ \A i \in 1..Len(q) : q[i] \in Operations \cup {0}
  BY DEF TableType
<1> QED BY <1>1 DEF LiveOf

LEMMA NulledFacts ==
    ASSUME NEW q \in TableType, NEW s \in Operations, NEW u, u = Nulled(q, s)
    PROVE  /\ u \in TableType /\ Len(u) = Len(q) /\ LiveOf(u) = LiveOf(q) \ {s}
           /\ \A i \in 1..Len(q) : u[i] = IF q[i] = s THEN 0 ELSE q[i]
           /\ Distinct(q) => Distinct(u)
<1>1. Len(q) \in Nat /\ DOMAIN q = 1..Len(q) /\ \A i \in 1..Len(q) : q[i] \in Operations \cup {0}
  BY TableBasics
<1>2. \A i \in 1..Len(q) : u[i] = IF q[i] = s THEN 0 ELSE q[i]
  BY <1>1 DEF Nulled
<1>3. u \in TableType /\ Len(u) = Len(q) /\ DOMAIN u = 1..Len(q)
  <2>1. u \in [1..Len(q) -> Operations \cup {0}]
    BY <1>1 DEF Nulled
  <2>2. u \in Seq(Operations \cup {0}) /\ Len(u) = Len(q)
    BY <1>1, <2>1, FunctionIsSeq
  <2> QED BY <2>1, <2>2 DEF TableType
<1>4. LiveOf(u) = LiveOf(q) \ {s}
  BY <1>1, <1>2, <1>3, Numbers DEF LiveOf
<1>5. Distinct(q) => Distinct(u)
  BY <1>2, <1>3, Numbers DEF Distinct
<1> QED BY <1>2, <1>3, <1>4, <1>5

Appended(u, q, s) == u = Append(q, s)

LEMMA AppendedFacts ==
    ASSUME NEW q \in TableType, NEW s \in Operations, NEW u, Appended(u, q, s)
    PROVE  /\ u \in TableType /\ Len(u) = Len(q) + 1 /\ LiveOf(u) = LiveOf(q) \cup {s}
           /\ \A i \in 1..Len(q) : u[i] = q[i]
           /\ u[Len(q) + 1] = s
           /\ Distinct(q) /\ s \notin LiveOf(q) => Distinct(u)
<1>1. Len(q) \in Nat /\ DOMAIN q = 1..Len(q) /\ q \in Seq(Operations \cup {0})
  BY TableBasics DEF TableType
<1>2. PICK k : k = Len(q) + 1
  OBVIOUS
<1>3. u \in Seq(Operations \cup {0}) /\ Len(u) = k /\ u[k] = s /\ \A i \in 1..Len(q) : u[i] = q[i]
  BY <1>1, <1>2, AppendProperties DEF Appended
<1>4. DOMAIN u = 1..k /\ k \in 1..k /\ \A i \in 1..k : i = k \/ i \in 1..Len(q)
  BY <1>1, <1>2, <1>3
<1>5. \A i \in 1..Len(q) : i \in 1..k /\ i # k
  BY <1>1, <1>2
<1>6. s # 0
  BY Numbers
<1>7. LiveOf(u) = LiveOf(q) \cup {s}
  BY <1>1, <1>3, <1>4, <1>5, <1>6 DEF LiveOf
<1>8. ASSUME Distinct(q), s \notin LiveOf(q) PROVE Distinct(u)
  <2>1. \A i \in 1..Len(q) : u[i] # s
    BY <1>1, <1>3, <1>6, <1>8 DEF LiveOf
  <2> QED BY <1>3, <1>4, <1>8, <2>1 DEF Distinct
<1> QED BY <1>2, <1>3, <1>7, <1>8 DEF TableType

LEMMA CleanedFacts ==
    ASSUME ops \in TableType, NEW u, u = CleanedOps
    PROVE  /\ u \in TableType /\ LiveOf(u) = LiveOf(ops)
           /\ \A i \in 1..Len(u) : u[i] # 0
           /\ Distinct(ops) => Distinct(u)
           /\ LiveOf(ops) = {} => u = <<>>
<1>1. Len(ops) \in Nat /\ DOMAIN ops = 1..Len(ops) /\ \A i \in 1..Len(ops) : ops[i] \in Operations \cup {0}
  BY TableBasics
<1>2. PICK kept : kept = {i \in DOMAIN ops : ops[i] # 0}
  OBVIOUS
<1>3. kept \subseteq Nat /\ IsFiniteSet(kept)
  <2>1. IsFiniteSet(1..Len(ops))
    BY <1>1, FS_Interval
  <2>2. kept \subseteq 1..Len(ops)
    BY <1>1, <1>2
  <2>3. IsFiniteSet(kept)
    BY <2>1, <2>2, FS_Subset
  <2> QED BY <1>1, <2>2, <2>3
<1>4. PICK order, m : order = InSlotOrder(kept) /\ m = Cardinality(kept)
  OBVIOUS
<1>5. /\ m \in Nat /\ order \in [1..m -> kept]
      /\ \A i \in kept : \E n \in 1..m : order[n] = i
      /\ \A n, k \in 1..m : n # k => order[n] # order[k]
  <2>1. m \in Nat /\ order \in [1..m -> kept]
    BY <1>3, <1>4, InSlotOrderFacts
  <2>2. \A i \in kept : \E n \in 1..m : order[n] = i
    BY <1>3, <1>4, InSlotOrderFacts
  <2>3. ASSUME NEW n \in 1..m, NEW k \in 1..m, n # k PROVE order[n] # order[k]
    BY <1>3, <1>4, <2>3, InSlotOrderFacts
  <2> QED BY <2>1, <2>2, <2>3
<1>6. u = [n \in 1..m |-> ops[order[n]]]
  BY <1>2, <1>4 DEF CleanedOps
<1>7. \A n \in 1..m : order[n] \in 1..Len(ops) /\ u[n] = ops[order[n]] /\ u[n] # 0 /\ u[n] \in Operations \cup {0}
  BY <1>1, <1>2, <1>5, <1>6
<1>8. u \in TableType /\ Len(u) = m /\ DOMAIN u = 1..m
  <2>1. u \in [1..m -> Operations \cup {0}]
    BY <1>5, <1>6, <1>7
  <2>2. u \in Seq(Operations \cup {0}) /\ Len(u) = m
    BY <1>5, <2>1, FunctionIsSeq
  <2> QED BY <2>1, <2>2 DEF TableType
<1>9. LiveOf(u) = LiveOf(ops)
  <2>1. LiveOf(u) \subseteq LiveOf(ops)
    BY <1>1, <1>7, <1>8 DEF LiveOf
  <2>2. ASSUME NEW i \in DOMAIN ops, ops[i] # 0 PROVE ops[i] \in LiveOf(u)
    <3>1. i \in kept
      BY <1>2, <2>2
    <3>2. PICK n \in 1..m : order[n] = i
      BY <1>5, <3>1
    <3>3. u[n] = ops[i]
      BY <1>7, <3>2
    <3> QED BY <1>8, <2>2, <3>3 DEF LiveOf
  <2> QED BY <2>1, <2>2 DEF LiveOf
<1>10. ASSUME Distinct(ops) PROVE Distinct(u)
  <2>1. ASSUME NEW i \in 1..m, NEW j \in 1..m, u[i] = u[j] PROVE i = j
    <3>1. order[i] = order[j]
      BY <1>7, <1>10, <2>1 DEF Distinct
    <3> QED BY <1>5, <3>1
  <2> QED BY <1>8, <2>1 DEF Distinct
<1>11. ASSUME LiveOf(ops) = {} PROVE u = <<>>
  <2>1. m = 0
    <3>1. ASSUME m # 0 PROVE FALSE
      <4>1. 1 \in 1..m
        BY <1>5, <3>1
      <4>2. u[1] \in LiveOf(u)
        BY <1>7, <1>8, <4>1 DEF LiveOf
      <4> QED BY <1>9, <1>11, <4>2
    <3> QED BY <3>1
  <2> QED BY <1>6, <2>1
<1> QED BY <1>7, <1>8, <1>9, <1>10, <1>11
-----------------------------------------------------------------------------
\* The operations, their entries in the table and their timers.

OpTypes == Requests \cup {"disconnect", "keepalive", "none"}
OpType == [type : OpTypes, stage : {"new", "prepared", "sent"}]

\* The timers of the operations L.
TimersFor(L, o) ==
    {k \in Handles \X {"response"} : k[1] \in L /\ o[k[1]].type \in Requests}
        \cup {k \in {KeepAlive} \X KeepAliveNames : KeepAlive \in L}

\* An operation that is not in use, or was prepared.
HandleOK(o, L, s) ==
    /\ o.type # "keepalive" /\ (o.type = "none" <=> o.stage = "new")
    /\ o.stage = "new" => s \notin L

TableOK ==
    /\ ops \in TableType /\ Distinct(ops)
    /\ op \in [Operations -> OpType]
    /\ op[KeepAlive].type = "keepalive" /\ op[KeepAlive].stage = "sent"
    /\ \A s \in Handles : HandleOK(op[s], LiveOf(ops), s)
    /\ TimersOK(timers) /\ Keys(timers) = TimersFor(LiveOf(ops), op)

LEMMA TableFacts ==
    ASSUME TableOK
    PROVE  /\ Live = LiveOf(ops) /\ Live \subseteq Operations /\ Prepared \subseteq Handles
           /\ \A s \in Operations : /\ op[s] \in OpType /\ (op[s] = NewOp <=> op[s].stage = "new")
                                    /\ op[s].type \in Requests => s \in Handles
           /\ \A s \in Live : op[s].type \in Requests => <<s, "response">> \in Keys(timers)
           /\ KeepAlive \in Live => \A n \in KeepAliveNames : <<KeepAlive, n>> \in Keys(timers)
           /\ \A k \in Keys(timers) : /\ k[1] \in Live /\ k = <<k[1], k[2]>>
                                      /\ k[1] = KeepAlive => k[2] \in KeepAliveNames
                                      /\ k[1] # KeepAlive => k[2] = "response" /\ op[k[1]].type \in Requests
<1>1. Live = LiveOf(ops)
  BY DEF Live, LiveOf
<1>2. Live \subseteq Operations
  BY <1>1, TableBasics DEF TableOK
<1>3. \A s \in Operations : op[s] \in OpType
  BY DEF TableOK
<1>4. ASSUME NEW s \in Operations PROVE op[s] = NewOp <=> op[s].stage = "new"
  <2>1. op[s] = NewOp => op[s].stage = "new"
    BY DEF NewOp
  <2>2. ASSUME op[s].stage = "new" PROVE op[s] = NewOp
    <3>1. s \in Handles
      BY <2>2, Numbers DEF TableOK
    <3>2. op[s].type = "none"
      BY <2>2, <3>1 DEF TableOK, HandleOK
    <3> QED BY <1>3, <2>2, <3>2 DEF NewOp, OpType
  <2> QED BY <2>1, <2>2
<1>5. \A s \in Operations : op[s].type \in Requests => s \in Handles
  BY Numbers DEF TableOK, Requests
<1>6. Prepared \subseteq Handles
  BY <1>2, Numbers DEF Prepared, TableOK
<1>7. \A s \in Live : op[s].type \in Requests => <<s, "response">> \in Keys(timers)
  <2>1. ASSUME NEW s \in Live, op[s].type \in Requests PROVE <<s, "response">> \in TimersFor(LiveOf(ops), op)
    <3>1. s \in Handles
      BY <1>2, <1>5, <2>1
    <3> QED BY <1>1, <2>1, <3>1 DEF TimersFor
  <2> QED BY <2>1 DEF TableOK
<1>8. KeepAlive \in Live => \A n \in KeepAliveNames : <<KeepAlive, n>> \in Keys(timers)
  BY <1>1 DEF TableOK, TimersFor
<1>9. ASSUME NEW k \in Keys(timers)
      PROVE  /\ k[1] \in Live /\ k = <<k[1], k[2]>>
             /\ k[1] = KeepAlive => k[2] \in KeepAliveNames
             /\ k[1] # KeepAlive => k[2] = "response" /\ op[k[1]].type \in Requests
  <2>1. k \in TimersFor(LiveOf(ops), op)
    BY DEF TableOK
  <2>2. CASE k \in Handles \X {"response"} /\ k[1] \in LiveOf(ops) /\ op[k[1]].type \in Requests
    BY <1>1, <2>2, Numbers
  <2>3. CASE k \in {KeepAlive} \X KeepAliveNames /\ KeepAlive \in LiveOf(ops)
    BY <1>1, <2>3
  <2> QED BY <2>1, <2>2, <2>3 DEF TimersFor
<1> QED BY <1>1, <1>2, <1>3, <1>4, <1>5, <1>6, <1>7, <1>8, <1>9

LEMMA LivePrimed == Live' = LiveOf(ops') /\ Live = LiveOf(ops)
  BY DEF Live, LiveOf

LEMMA DestroyTable ==
    ASSUME TableOK, NEW s \in Live, Destroy(s), op' = op
    PROVE  /\ TableOK' /\ Live' = Live \ {s} /\ s \in Operations /\ Len(ops') = Len(ops)
           /\ \A i \in 1..Len(ops) : ops'[i] = IF ops[i] = s THEN 0 ELSE ops[i]
           /\ Active(timers') = {k \in Active(timers) : k[1] # s}
<1>1. s \in Operations /\ Live = LiveOf(ops) /\ ops \in TableType /\ TimersOK(timers) /\ Distinct(ops)
  BY TableFacts DEF TableOK
<1>2. ops' = Nulled(ops, s) /\ timers' = FreeTimers(timers, s)
  BY DEF Destroy, Nulled
<1>3. /\ ops' \in TableType /\ Len(ops') = Len(ops) /\ LiveOf(ops') = LiveOf(ops) \ {s} /\ Distinct(ops')
      /\ \A i \in 1..Len(ops) : ops'[i] = IF ops[i] = s THEN 0 ELSE ops[i]
  BY <1>1, <1>2, NulledFacts
<1>4. /\ TimersOK(timers') /\ Keys(timers') = {k \in Keys(timers) : k[1] # s}
      /\ Active(timers') = {k \in Active(timers) : k[1] # s}
  BY <1>1, <1>2, FreeFacts
<1>5. Keys(timers') = TimersFor(LiveOf(ops'), op)
  <2>1. Keys(timers) = TimersFor(LiveOf(ops), op)
    BY DEF TableOK
  <2> QED BY <1>3, <1>4, <2>1 DEF TimersFor
<1>6. \A t \in Handles : HandleOK(op[t], LiveOf(ops'), t)
  BY <1>3 DEF TableOK, HandleOK
<1> QED BY <1>1, <1>3, <1>4, <1>5, <1>6, LivePrimed DEF TableOK

Prepares == Requests \cup {"disconnect"}

LEMMA CreateTable ==
    ASSUME TableOK, NEW type \in Prepares, Create(type)
    PROVE  \E s \in Handles :
              /\ s \notin Live /\ op[s].stage = "new"
              /\ op' = [op EXCEPT ![s] = [type |-> type, stage |-> "prepared"]]
              /\ ops' = Append(ops, s) /\ Live' = Live \cup {s} /\ Len(ops') = Len(ops) + 1
              /\ \A i \in 1..Len(ops) : ops'[i] = ops[i]
              /\ ops'[Len(ops) + 1] = s
              /\ client' = [client EXCEPT !.locked = TRUE]
              /\ TableOK' /\ Active(timers') = Active(timers)
<1>1. Live = LiveOf(ops) /\ ops \in TableType /\ TimersOK(timers) /\ Distinct(ops)
  BY TableFacts DEF TableOK
<1>2. PICK s : s = Least(Unused)
  OBVIOUS
<1>3. s \in Unused
  <2>1. Unused \subseteq Nat
    BY Numbers DEF Unused
  <2>2. Unused # {}
    BY DEF Create
  <2> QED BY <1>2, <2>1, <2>2, LeastNumber
<1>4. s \in Handles /\ s \in Operations /\ s # KeepAlive /\ op[s].stage = "new" /\ s \notin Live
  <2>1. s \in Handles /\ s \in Operations /\ s # KeepAlive /\ op[s] = NewOp
    BY <1>3, Numbers DEF Unused
  <2>2. op[s].stage = "new"
    BY <2>1 DEF NewOp
  <2> QED BY <1>1, <2>1, <2>2 DEF TableOK, HandleOK
<1>5. PICK v : v = [type |-> type, stage |-> "prepared"]
  OBVIOUS
<1>6. /\ op' = [op EXCEPT ![s] = v] /\ ops' = Append(ops, s)
      /\ timers' = IF type \in Requests THEN AllocTimer(timers, s, "response") ELSE timers
      /\ client' = [client EXCEPT !.locked = TRUE]
  BY <1>2, <1>5 DEF Create
<1>7. v \in OpType /\ v.type = type /\ v.stage = "prepared" /\ type # "keepalive" /\ type # "none"
  BY <1>5 DEF OpType, OpTypes, Prepares, Requests
<1>8. op' \in [Operations -> OpType] /\ \A t \in Operations : op'[t] = IF t = s THEN v ELSE op[t]
  BY <1>4, <1>6, <1>7 DEF TableOK
<1>9. /\ ops' \in TableType /\ Len(ops') = Len(ops) + 1 /\ LiveOf(ops') = LiveOf(ops) \cup {s} /\ Distinct(ops')
      /\ \A i \in 1..Len(ops) : ops'[i] = ops[i]
      /\ ops'[Len(ops) + 1] = s
  <2>1. PICK q, u : q = ops /\ u = ops'
    OBVIOUS
  <2>2. q \in TableType /\ Appended(u, q, s) /\ Distinct(q) /\ s \notin LiveOf(q)
    BY <1>1, <1>4, <1>6, <2>1 DEF Appended
  <2>3. /\ u \in TableType /\ Len(u) = Len(q) + 1 /\ LiveOf(u) = LiveOf(q) \cup {s} /\ Distinct(u)
        /\ \A i \in 1..Len(q) : u[i] = q[i]
        /\ u[Len(q) + 1] = s
    BY <1>4, <2>2, AppendedFacts
  <2> QED BY <2>1, <2>3
<1>10. Keys(timers) = TimersFor(LiveOf(ops), op)
  BY DEF TableOK
<1>11. \A n : <<s, n>> \notin Keys(timers)
  BY <1>4, TableFacts
<1>12. /\ TimersOK(timers') /\ Active(timers') = Active(timers)
       /\ Keys(timers') = IF type \in Requests THEN Keys(timers) \cup {<<s, "response">>} ELSE Keys(timers)
  <2>1. CASE type \in Requests
    <3>1. TimersOK(timers) /\ <<s, "response">> \notin Keys(timers) /\ s \in Handles
      BY <1>1, <1>4, <1>11
    <3>2. timers' = AllocTimer(timers, s, "response")
      BY <1>6, <2>1
    <3>3. /\ TimersOK(timers') /\ Keys(timers') = Keys(timers) \cup {<<s, "response">>}
          /\ Active(timers') = Active(timers)
      BY <3>1, <3>2, AllocFacts
    <3> QED BY <2>1, <3>3
  <2>2. CASE type \notin Requests
    BY <1>1, <1>6, <2>2
  <2> QED BY <2>1, <2>2
<1>13. Keys(timers') = TimersFor(LiveOf(ops'), op')
  <2>1. \A t \in Handles : t \in Operations /\ (t # s => op'[t] = op[t])
    BY <1>8, Numbers
  <2>2. op'[s].type = type
    BY <1>4, <1>7, <1>8
  <2>3. ASSUME NEW k \in Handles \X {"response"}
        PROVE  k \in Keys(timers') <=> k[1] \in LiveOf(ops') /\ op'[k[1]].type \in Requests
    <3>1. k[1] \in Handles /\ k = <<k[1], "response">> /\ k[1] # KeepAlive
      BY Numbers
    <3>2. k \in Keys(timers) <=> k[1] \in LiveOf(ops) /\ op[k[1]].type \in Requests
      BY <1>10, <3>1 DEF TimersFor
    <3>3. CASE k[1] = s
      BY <1>9, <1>11, <1>12, <2>2, <3>1, <3>3
    <3>4. CASE k[1] # s
      BY <1>9, <1>12, <2>1, <3>1, <3>2, <3>4
    <3> QED BY <3>3, <3>4
  <2>4. ASSUME NEW k \in {KeepAlive} \X KeepAliveNames PROVE k \in Keys(timers') <=> KeepAlive \in LiveOf(ops')
    <3>1. k[1] = KeepAlive /\ k[1] # s /\ k[1] \notin Handles
      BY <1>4, Numbers
    <3>2. k \in Keys(timers) <=> KeepAlive \in LiveOf(ops)
      BY <1>10, <3>1 DEF TimersFor
    <3> QED BY <1>9, <1>12, <3>1, <3>2
  <2>5. Keys(timers') \subseteq (Handles \X {"response"}) \cup ({KeepAlive} \X KeepAliveNames)
    BY <1>4, <1>10, <1>12 DEF TimersFor
  <2> QED BY <2>3, <2>4, <2>5 DEF TimersFor
<1>14. \A t \in Handles : HandleOK(op'[t], LiveOf(ops'), t)
  <2>1. ASSUME NEW t \in Handles PROVE HandleOK(op'[t], LiveOf(ops'), t)
    <3>1. CASE t = s
      BY <1>4, <1>7, <1>8, <3>1 DEF HandleOK
    <3>2. CASE t # s
      <4>1. op'[t] = op[t] /\ HandleOK(op[t], LiveOf(ops), t)
        BY <1>8, <3>2, Numbers DEF TableOK
      <4> QED BY <1>9, <3>2, <4>1 DEF HandleOK
    <3> QED BY <3>1, <3>2
  <2> QED BY <2>1
<1>15. op'[KeepAlive] = op[KeepAlive]
  BY <1>4, <1>8, Numbers
<1>16. TableOK'
  BY <1>8, <1>9, <1>12, <1>13, <1>14, <1>15 DEF TableOK
<1> QED BY <1>4, <1>5, <1>6, <1>9, <1>12, <1>16, LivePrimed

LEMMA SentTable ==
    ASSUME TableOK, NEW s \in Prepared, op' = [op EXCEPT ![s].stage = "sent"], ops' = ops, timers' = timers
    PROVE  /\ TableOK' /\ Live' = Live /\ s \in Handles /\ s \in Live
           /\ \A t \in Operations : /\ t # s => op'[t] = op[t]
                                    /\ op'[t].type = op[t].type
           /\ op'[s].stage = "sent" /\ Prepared' = Prepared \ {s}
<1>1. s \in Handles /\ s \in Operations /\ s # KeepAlive /\ s \in Live /\ op[s].stage = "prepared"
  BY TableFacts, Numbers DEF Prepared
<1>2. /\ op' \in [Operations -> OpType] /\ op'[s].stage = "sent"
      /\ \A t \in Operations : (t # s => op'[t] = op[t]) /\ op'[t].type = op[t].type
  BY <1>1 DEF TableOK, OpType
<1>3. op'[KeepAlive] = op[KeepAlive]
  BY <1>1, <1>2, Numbers
<1>4. \A t \in Handles : HandleOK(op'[t], LiveOf(ops'), t)
  <2>1. ASSUME NEW t \in Handles PROVE HandleOK(op'[t], LiveOf(ops'), t)
    <3>1. t \in Operations /\ HandleOK(op[t], LiveOf(ops), t)
      BY Numbers DEF TableOK
    <3> QED BY <1>1, <1>2, <3>1 DEF HandleOK
  <2> QED BY <2>1
<1>5. TimersFor(LiveOf(ops'), op') = TimersFor(LiveOf(ops), op)
  <2>1. \A t \in Handles : op'[t].type = op[t].type
    BY <1>2, Numbers
  <2> QED BY <2>1 DEF TimersFor
<1>6. TableOK'
  BY <1>2, <1>3, <1>4, <1>5 DEF TableOK
<1>7. Live' = Live
  BY LivePrimed
<1>8. Prepared' = Prepared \ {s}
  <2>1. Live \subseteq Operations
    BY TableFacts
  <2> QED BY <1>1, <1>2, <1>7, <2>1 DEF Prepared
<1> QED BY <1>1, <1>2, <1>6, <1>7, <1>8

LEMMA TimersTable ==
    ASSUME TableOK, op' = op, ops' = ops, TimersOK(timers'), Keys(timers') = Keys(timers)
    PROVE  TableOK' /\ Live' = Live
  BY LivePrimed DEF TableOK

LEMMA CleanTable ==
    ASSUME TableOK, op' = op, timers' = timers, ops' = CleanedOps
    PROVE  /\ TableOK' /\ Live' = Live /\ (Live = {} => ops' = <<>>)
           /\ \A i \in 1..Len(ops') : ops'[i] # 0
<1>1. /\ ops' \in TableType /\ LiveOf(ops') = LiveOf(ops) /\ Distinct(ops')
      /\ \A i \in 1..Len(ops') : ops'[i] # 0
      /\ LiveOf(ops) = {} => ops' = <<>>
  BY CleanedFacts DEF TableOK
<1> QED BY <1>1, LivePrimed DEF TableOK

LEMMA ConnectedTable ==
    ASSUME TableOK, op' = op, KeepAlive \notin Live, ops' = Append(ops, KeepAlive),
           timers' = TimerWait(AllocTimer(AllocTimer(AllocTimer(timers, KeepAlive, "ping"), KeepAlive, "recv"),
                                          KeepAlive, "resp"), KeepAlive, "ping", 0)
    PROVE  /\ TableOK' /\ Live' = Live \cup {KeepAlive} /\ Len(ops') = Len(ops) + 1
           /\ \A i \in 1..Len(ops) : ops'[i] = ops[i]
           /\ Active(timers') = Active(timers) \cup {<<KeepAlive, "ping">>}
<1>1. Live = LiveOf(ops) /\ ops \in TableType /\ TimersOK(timers) /\ Distinct(ops)
  BY TableFacts DEF TableOK
<1>2. PICK a : a = AllocTimer(timers, KeepAlive, "ping")
  OBVIOUS
<1>3. PICK b : b = AllocTimer(a, KeepAlive, "recv")
  OBVIOUS
<1>4. PICK c : c = AllocTimer(b, KeepAlive, "resp")
  OBVIOUS
<1>5. \A n : <<KeepAlive, n>> \notin Keys(timers)
  BY TableFacts
<1>6. TimersOK(a) /\ Keys(a) = Keys(timers) \cup {<<KeepAlive, "ping">>} /\ Active(a) = Active(timers)
  <2>1. "ping" \in KeepAliveNames /\ <<KeepAlive, "ping">> \notin Keys(timers)
    BY <1>5 DEF KeepAliveNames
  <2> QED BY <1>1, <1>2, <2>1, AllocFacts
<1>7. TimersOK(b) /\ Keys(b) = Keys(a) \cup {<<KeepAlive, "recv">>} /\ Active(b) = Active(timers)
  <2>1. "recv" \in KeepAliveNames /\ <<KeepAlive, "recv">> \notin Keys(a)
    BY <1>5, <1>6 DEF KeepAliveNames
  <2> QED BY <1>3, <1>6, <2>1, AllocFacts
<1>8. TimersOK(c) /\ Keys(c) = Keys(b) \cup {<<KeepAlive, "resp">>} /\ Active(c) = Active(timers)
  <2>1. "resp" \in KeepAliveNames /\ <<KeepAlive, "resp">> \notin Keys(b)
    BY <1>5, <1>6, <1>7 DEF KeepAliveNames
  <2> QED BY <1>4, <1>7, <2>1, AllocFacts
<1>9. <<KeepAlive, "ping">> \in Keys(c) /\ timers' = TimerWait(c, KeepAlive, "ping", 0)
  BY <1>2, <1>3, <1>4, <1>6, <1>7, <1>8
<1>10. /\ TimersOK(timers') /\ Keys(timers') = Keys(c)
       /\ Active(timers') = Active(timers) \cup {<<KeepAlive, "ping">>}
  BY <1>8, <1>9, WaitFacts
<1>11. /\ ops' \in TableType /\ Len(ops') = Len(ops) + 1 /\ LiveOf(ops') = LiveOf(ops) \cup {KeepAlive}
       /\ Distinct(ops') /\ \A i \in 1..Len(ops) : ops'[i] = ops[i]
  <2>1. PICK q, u, s : q = ops /\ u = ops' /\ s = KeepAlive
    OBVIOUS
  <2>2. q \in TableType /\ Appended(u, q, s) /\ Distinct(q) /\ s \notin LiveOf(q) /\ s \in Operations
    BY <1>1, <2>1, Numbers DEF Appended
  <2>3. /\ u \in TableType /\ Len(u) = Len(q) + 1 /\ LiveOf(u) = LiveOf(q) \cup {s} /\ Distinct(u)
        /\ \A i \in 1..Len(q) : u[i] = q[i]
    BY <2>2, AppendedFacts
  <2> QED BY <2>1, <2>3
<1>12. Keys(timers') = Keys(timers) \cup ({KeepAlive} \X KeepAliveNames)
  <2>1. {KeepAlive} \X KeepAliveNames = {<<KeepAlive, "ping">>, <<KeepAlive, "recv">>, <<KeepAlive, "resp">>}
    BY DEF KeepAliveNames
  <2> QED BY <1>6, <1>7, <1>8, <1>10, <2>1
<1>13. Keys(timers') = TimersFor(LiveOf(ops'), op)
  <2>1. Keys(timers) = TimersFor(LiveOf(ops), op) /\ KeepAlive \notin LiveOf(ops)
    BY <1>1 DEF TableOK
  <2>2. \A t \in Handles : t \in LiveOf(ops') <=> t \in LiveOf(ops)
    BY <1>11, Numbers
  <2>3. TimersFor(LiveOf(ops'), op) = TimersFor(LiveOf(ops), op) \cup ({KeepAlive} \X KeepAliveNames)
    BY <1>11, <2>1, <2>2 DEF TimersFor
  <2> QED BY <1>12, <2>1, <2>3
<1>14. \A t \in Handles : HandleOK(op[t], LiveOf(ops'), t)
  BY <1>11, Numbers DEF TableOK, HandleOK
<1> QED BY <1>10, <1>11, <1>13, <1>14, LivePrimed DEF TableOK
-----------------------------------------------------------------------------
\* The calls in progress.

\* What is executed as soon as it is called.
TopOnly == {"callback", "heard", "connected", "refused"}

FrameOK(f) ==
    /\ f = [do |-> f.do, op |-> f.op, arg |-> f.arg, idx |-> f.idx, end |-> f.end]
    /\ f.idx \in Nat /\ f.end \in Nat
    /\ f.do \in {"callback", "disconnect"} => f.op \in Handles
    /\ f.do = "wait" => (f.op = KeepAlive /\ f.arg = "resp") \/ (f.op \in Handles /\ f.arg = "response")
    /\ f.do = "expired" => (f.op = KeepAlive /\ f.arg \in KeepAliveNames) \/ (f.op \in Handles /\ f.arg = "response")
    /\ f.do = "heard" => f.op = KeepAlive
    /\ f.do = "output" => f.op \in Handles \cup {0}

GoodList(t) ==
    /\ IsStack(t)
    /\ \A f \in FramesOf(t) : FrameOK(f)
    /\ \A f \in Below(t) : f.do \notin TopOnly

Special == {"callback", "disconnect", "wait", "expired", "heard", "output"}

LEMMA FrameIs ==
    ASSUME NEW do, NEW s, NEW arg, NEW f, f = Frame(do, s, arg)
    PROVE  /\ f.do = do /\ f.op = s /\ f.arg = arg /\ f.idx = 0 /\ f.end = 0
           /\ f = [do |-> f.do, op |-> f.op, arg |-> f.arg, idx |-> f.idx, end |-> f.end]
           /\ do \notin Special => FrameOK(f)
<1>1. f.do = do /\ f.op = s /\ f.arg = arg /\ f.idx = 0 /\ f.end = 0
  BY DEF Frame
<1>2. f = [do |-> f.do, op |-> f.op, arg |-> f.arg, idx |-> f.idx, end |-> f.end]
  BY <1>1 DEF Frame
<1> QED BY <1>1, <1>2 DEF FrameOK, Special

LEMMA FrameFacts ==
    ASSUME NEW do, NEW s, NEW arg
    PROVE  /\ Frame(do, s, arg).do = do /\ Frame(do, s, arg).op = s /\ Frame(do, s, arg).arg = arg
           /\ do \notin Special => FrameOK(Frame(do, s, arg))
<1>1. PICK f : f = Frame(do, s, arg)
  OBVIOUS
<1>2. f.do = do /\ f.op = s /\ f.arg = arg /\ (do \notin Special => FrameOK(f))
  BY <1>1, FrameIs
<1> QED BY <1>1, <1>2

LEMMA LoopIs ==
    ASSUME NEW do, NEW s, NEW arg, NEW idx \in Nat, NEW end \in Nat, NEW f, f = Loop(do, s, arg, idx, end)
    PROVE  /\ f.do = do /\ f.op = s /\ f.arg = arg /\ f.idx = idx /\ f.end = end
           /\ do \notin Special => FrameOK(f)
<1>1. f.do = do /\ f.op = s /\ f.arg = arg /\ f.idx = idx /\ f.end = end
  BY DEF Loop
<1>2. f = [do |-> f.do, op |-> f.op, arg |-> f.arg, idx |-> f.idx, end |-> f.end]
  BY <1>1 DEF Loop
<1> QED BY <1>1, <1>2 DEF FrameOK, Special

LEMMA NextIndex ==
    ASSUME NEW f, FrameOK(f), f.do \notin Special, NEW g, g = [f EXCEPT !.idx = @ + 1]
    PROVE  /\ g.do = f.do /\ g.op = f.op /\ g.arg = f.arg /\ g.idx = f.idx + 1 /\ g.end = f.end
           /\ FrameOK(g)
<1>1. PICK v : v = [do |-> f.do, op |-> f.op, arg |-> f.arg, idx |-> f.idx, end |-> f.end]
  OBVIOUS
<1>2. v = f /\ f.idx \in Nat /\ f.end \in Nat
  BY <1>1 DEF FrameOK
<1>3. g = [v EXCEPT !.idx = v.idx + 1]
  BY <1>2
<1>4. g.do = f.do /\ g.op = f.op /\ g.arg = f.arg /\ g.idx = f.idx + 1 /\ g.end = f.end
  BY <1>1, <1>2, <1>3
<1>5. g = [do |-> g.do, op |-> g.op, arg |-> g.arg, idx |-> g.idx, end |-> g.end]
  BY <1>1, <1>3, <1>4
<1> QED BY <1>2, <1>4, <1>5 DEF FrameOK, Special

LEMMA ListOfNone == GoodList(<<>>) /\ FramesOf(<<>>) = {}
  BY NoFrame DEF GoodList

LEMMA ListOfOne ==
    ASSUME NEW a, FrameOK(a), NEW t, t = <<a>>
    PROVE  GoodList(t) /\ FramesOf(t) = {a} /\ t # <<>> /\ t[1] = a
  BY OneFrame DEF GoodList

LEMMA ListOfTwo ==
    ASSUME NEW a, FrameOK(a), NEW b, FrameOK(b), b.do \notin TopOnly, NEW t, t = <<a, b>>
    PROVE  GoodList(t) /\ FramesOf(t) = {a, b} /\ t # <<>> /\ t[1] = a
  BY TwoFrames DEF GoodList

LEMMA ListOfThree ==
    ASSUME NEW a, FrameOK(a), NEW b, FrameOK(b), b.do \notin TopOnly,
           NEW c, FrameOK(c), c.do \notin TopOnly, NEW t, t = <<a, b, c>>
    PROVE  GoodList(t) /\ FramesOf(t) = {a, b, c} /\ t # <<>> /\ t[1] = a
  BY ThreeFrames DEF GoodList

LEMMA ListOfFour ==
    ASSUME NEW a, FrameOK(a), NEW b, FrameOK(b), b.do \notin TopOnly, NEW c, FrameOK(c), c.do \notin TopOnly,
           NEW d, FrameOK(d), d.do \notin TopOnly, NEW t, t = <<a, b, c, d>>
    PROVE  GoodList(t) /\ FramesOf(t) = {a, b, c, d} /\ t # <<>> /\ t[1] = a
  BY FourFrames DEF GoodList

\* Two lists, and a list on what is left of the stack.
LEMMA ListOfLists ==
    ASSUME NEW x, GoodList(x), NEW y, GoodList(y), \A f \in FramesOf(y) : x # <<>> => f.do \notin TopOnly,
           NEW t, t = x \o y
    PROVE  /\ GoodList(t) /\ FramesOf(t) = FramesOf(x) \cup FramesOf(y)
           /\ x # <<>> => t # <<>> /\ t[1] = x[1]
           /\ x = <<>> => t = y
<1>1. /\ IsStack(t) /\ FramesOf(t) = FramesOf(x) \cup FramesOf(y)
      /\ x # <<>> => Head(t) = x[1] /\ t # <<>> /\ Below(t) = Below(x) \cup FramesOf(y)
      /\ x = <<>> => t = y
  <2>1. IsStack(x) /\ IsStack(y)
    BY DEF GoodList
  <2> QED BY <2>1, JoinStack
<1>2. t # <<>> => Head(t) = t[1]
  BY <1>1, StackBasics
<1>3. CASE x = <<>>
  BY <1>1, <1>3
<1>4. CASE x # <<>>
  BY <1>1, <1>2, <1>4 DEF GoodList
<1> QED BY <1>1, <1>3, <1>4

LEMMA PushedOnTail ==
    ASSUME NEW t, GoodList(t), t # <<>>, NEW x, GoodList(x), NEW u, u = x \o Tail(t)
    PROVE  /\ GoodList(u) /\ FramesOf(u) = FramesOf(x) \cup Below(t)
           /\ FramesOf(t) = {Head(t)} \cup Below(t)
           /\ x # <<>> => u # <<>> /\ Head(u) = x[1]
           /\ x = <<>> => u = Tail(t)
           /\ u # <<>> /\ Head(u).do \in TopOnly => x # <<>>
<1>1. PICK r : r = Tail(t)
  OBVIOUS
<1>2. IsStack(r) /\ FramesOf(r) = Below(t) /\ Below(r) \subseteq Below(t)
  BY <1>1, TailStack DEF GoodList
<1>3. FramesOf(t) = {Head(t)} \cup Below(t) /\ \A f \in Below(t) : f.do \notin TopOnly /\ FrameOK(f)
  BY StackBasics DEF GoodList
<1>4. GoodList(r)
  BY <1>2, <1>3 DEF GoodList
<1>5. /\ GoodList(u) /\ FramesOf(u) = FramesOf(x) \cup FramesOf(r)
      /\ x # <<>> => u # <<>> /\ u[1] = x[1]
      /\ x = <<>> => u = r
  <2>1. u = x \o r /\ \A f \in FramesOf(r) : x # <<>> => f.do \notin TopOnly
    BY <1>1, <1>2, <1>3
  <2> HIDE <1>1
  <2> QED BY <1>4, <2>1, ListOfLists
<1>6. u # <<>> => Head(u) = u[1] /\ u[1] \in FramesOf(u)
  BY <1>5, StackBasics DEF GoodList
<1>7. u # <<>> /\ Head(u).do \in TopOnly => x # <<>>
  BY <1>2, <1>3, <1>5, <1>6, ListOfNone
<1> QED BY <1>1, <1>2, <1>3, <1>5, <1>6, <1>7

LEMMA PushedOnAll ==
    ASSUME NEW t, GoodList(t), t # <<>> => Head(t).do \notin TopOnly, NEW x, GoodList(x), x # <<>>,
           NEW u, u = x \o t
    PROVE  /\ GoodList(u) /\ FramesOf(u) = FramesOf(x) \cup FramesOf(t)
           /\ u # <<>> /\ Head(u) = x[1]
<1>1. \A f \in FramesOf(t) : f.do \notin TopOnly
  BY StackBasics DEF GoodList
<1>2. GoodList(u) /\ FramesOf(u) = FramesOf(x) \cup FramesOf(t) /\ u # <<>> /\ u[1] = x[1]
  BY <1>1, ListOfLists
<1> QED BY <1>2, StackBasics DEF GoodList

-----------------------------------------------------------------------------
\* Types, for every application.

ClientType == [connected : BOOLEAN, disconnecting : BOOLEAN, initialized : BOOLEAN,
               networkDisconnected : BOOLEAN, opsDeleted : BOOLEAN, locked : BOOLEAN]
OutcomeType == [Handles -> [returned : {"none", "Success", "Error"}, calls : Nat, cancelled : BOOLEAN]]

ValuesOK ==
    /\ client \in ClientType /\ depth \in Int /\ outcome \in OutcomeType
    /\ wire \subseteq Handles /\ fate \in {"running", "freed", "undefined"}

Base == TableOK /\ GoodList(stack) /\ ValuesOK

LEMMA InitBase ==
    ASSUME Init PROVE Base
<1>1. ops \in TableType /\ Distinct(ops) /\ LiveOf(ops) = {}
  BY DEF Init, TableType, Distinct, LiveOf
<1>2. PICK k : k = [type |-> "keepalive", stage |-> "sent"]
  OBVIOUS
<1>3. k \in OpType /\ NewOp \in OpType /\ NewOp.type = "none" /\ NewOp.stage = "new"
      /\ k.type = "keepalive" /\ k.stage = "sent"
  BY <1>2 DEF OpType, OpTypes, NewOp
<1>4. op = [s \in Operations |-> IF s = KeepAlive THEN k ELSE NewOp]
  BY <1>2 DEF Init
<1>5. op \in [Operations -> OpType] /\ op[KeepAlive] = k /\ \A s \in Handles : op[s] = NewOp
  BY <1>3, <1>4, Numbers
<1>6. timers \in Seq(SlotType) /\ TimersOK(timers) /\ Keys(timers) = {}
  BY DEF Init, TimersOK, Keys, Used
<1>7. TimersFor(LiveOf(ops), op) = {}
  BY <1>1 DEF TimersFor
<1>8. TableOK
  BY <1>1, <1>3, <1>5, <1>6, <1>7 DEF TableOK, HandleOK
<1>9. GoodList(stack)
  BY ListOfNone DEF Init
<1>10. ValuesOK
  <2>1. client \in ClientType /\ depth \in Int /\ wire \subseteq Handles /\ fate \in {"running", "freed", "undefined"}
    BY DEF Init, ClientType
  <2>2. outcome \in OutcomeType
    BY DEF Init, OutcomeType, Untold
  <2> QED BY <2>1, <2>2 DEF ValuesOK
<1> QED BY <1>8, <1>9, <1>10 DEF Base

LEMMA ClientKept ==
    ASSUME NEW c \in ClientType, NEW b \in BOOLEAN, NEW d \in BOOLEAN
    PROVE  /\ [c EXCEPT !.networkDisconnected = b] \in ClientType
           /\ [c EXCEPT !.opsDeleted = b] \in ClientType
           /\ [c EXCEPT !.connected = b] \in ClientType
           /\ [c EXCEPT !.locked = b] \in ClientType
           /\ [c EXCEPT !.locked = b, !.opsDeleted = d] \in ClientType
           /\ [c EXCEPT !.connected = b, !.disconnecting = d] \in ClientType
           /\ [c EXCEPT !.initialized = FALSE, !.connected = FALSE, !.disconnecting = TRUE] \in ClientType
           /\ [c EXCEPT !.connected = FALSE, !.disconnecting = FALSE, !.initialized = TRUE] \in ClientType
  BY DEF ClientType

LEMMA StepValues ==
    ASSUME Base, Step PROVE ValuesOK'
<1>1. client \in ClientType /\ depth \in Int /\ outcome \in OutcomeType /\ wire \subseteq Handles
      /\ fate \in {"running", "freed", "undefined"}
  BY DEF Base, ValuesOK
<1>2. ASSUME stack # <<>> PROVE FrameOK(Head(stack))
  BY <1>2, StackBasics DEF Base, GoodList
<1>3. CASE Undefined
  BY <1>1, <1>3 DEF Undefined, ValuesOK
<1>4. CASE Enter
  BY <1>1, <1>4 DEF Enter, ValuesOK
<1>5. CASE Exit
  <2>1. client' = client \/ client' = [client EXCEPT !.opsDeleted = FALSE]
    BY <1>5 DEF Exit
  <2>2. client' \in ClientType
    BY <1>1, <2>1, ClientKept
  <2> QED BY <1>1, <1>5, <2>2 DEF Exit, ValuesOK
<1>6. CASE CompleteOpInternal /\ ~Undefined
  <2>1. client' = [client EXCEPT !.opsDeleted = TRUE]
    BY <1>6 DEF CompleteOpInternal
  <2>2. client' \in ClientType
    BY <1>1, <2>1, ClientKept
  <2> QED BY <1>1, <1>6, <2>2 DEF CompleteOpInternal, ValuesOK
<1>7. CASE Callback
  <2>1. Top.op \in Handles /\ outcome' = [outcome EXCEPT ![Top.op].calls = @ + 1]
    BY <1>2, <1>7 DEF Callback, At, Top, FrameOK
  <2>2. outcome' \in OutcomeType
    BY <1>1, <2>1 DEF OutcomeType
  <2> QED BY <1>1, <1>7, <2>2 DEF Callback, ValuesOK
<1>8. CASE Expired /\ ~Undefined
  BY <1>1, <1>8 DEF Expired, ValuesOK
<1>9. CASE Wait /\ ~Undefined
  <2>1. /\ Top.op = KeepAlive \/ Top.op \in Handles
        /\ outcome' = IF Top.op = KeepAlive THEN outcome ELSE [outcome EXCEPT ![Top.op].returned = "Success"]
    BY <1>2, <1>9 DEF Wait, At, Top, FrameOK
  <2>2. outcome' \in OutcomeType
    <3>1. CASE Top.op = KeepAlive
      BY <1>1, <2>1, <3>1
    <3>2. CASE Top.op # KeepAlive
      BY <1>1, <2>1, <3>2 DEF OutcomeType
    <3> QED BY <3>1, <3>2
  <2> QED BY <1>1, <1>9, <2>2 DEF Wait, ValuesOK
<1>10. CASE Lost
  BY <1>1, <1>10, ClientKept DEF Lost, ValuesOK
<1>11. CASE TerminateOps \/ ConnectivityChanged \/ Report \/ InitInternal \/ (Disconnect /\ ~Undefined) \/ Deliver
            \/ Dispatch \/ AppReturn
  BY <1>1, <1>11 DEF TerminateOps, ConnectivityChanged, Report, InitInternal, Disconnect, Deliver, Dispatch,
                     AppReturn, ValuesOK
<1>12. CASE MessageSent \/ (Heard /\ ~Undefined) \/ Freed
  BY <1>1, <1>12 DEF MessageSent, Heard, Freed, ValuesOK
<1>13. CASE NetworkDown
  BY <1>1, <1>13, ClientKept DEF NetworkDown, ValuesOK
<1>14. CASE Output
  <2>1. wire' \subseteq Handles
    BY <1>1, <1>14 DEF Output
  <2> QED BY <1>1, <1>14, <2>1 DEF Output, ValuesOK
<1>15. CASE Initialized
  BY <1>1, <1>15, ClientKept DEF Initialized, ValuesOK
<1>16. CASE CreateConnect
  <2>1. (client' = client \/ client' = [client EXCEPT !.locked = TRUE]) /\ (wire' = wire \/ wire' = {})
    BY <1>16 DEF CreateConnect, Create
  <2>2. client' \in ClientType
    BY <1>1, <2>1, ClientKept
  <2> QED BY <1>1, <1>16, <2>1, <2>2 DEF CreateConnect, ValuesOK
<1>17. CASE BrokerConnected
  BY <1>1, <1>17, ClientKept DEF BrokerConnected, ValuesOK
<1>18. CASE Refused
  BY <1>1, <1>18, ClientKept DEF Refused, ValuesOK
<1> QED BY <1>3, <1>4, <1>5, <1>6, <1>7, <1>8, <1>9, <1>10, <1>11, <1>12, <1>13, <1>14, <1>15, <1>16, <1>17, <1>18
        DEF Step

LEMMA CallValues ==
    ASSUME Base, Next, ~Step PROVE ValuesOK'
<1>1. client \in ClientType /\ depth \in Int /\ outcome \in OutcomeType /\ wire \subseteq Handles
      /\ fate \in {"running", "freed", "undefined"}
  BY DEF Base, ValuesOK
<1>2. CASE ConnectPrepare
  BY <1>1, <1>2, ClientKept DEF ConnectPrepare, ValuesOK
<1>3. CASE DisconnectPrepare \/ SubscribePrepare \/ UnsubscribePrepare
  <2>1. client' = [client EXCEPT !.locked = TRUE]
    BY <1>3 DEF DisconnectPrepare, SubscribePrepare, UnsubscribePrepare, Create
  <2>2. client' \in ClientType
    BY <1>1, <2>1, ClientKept
  <2>3. UNCHANGED <<depth, stack, wire, outcome, fate>>
    BY <1>3 DEF DisconnectPrepare, SubscribePrepare, UnsubscribePrepare
  <2> QED BY <1>1, <2>2, <2>3 DEF ValuesOK
<1>4. ASSUME NEW s \in Prepared, SendFails(s) PROVE ValuesOK'
  <2>1. s \in Handles
    BY TableFacts DEF Base
  <2>2. client' \in ClientType
    <3>1. client' = [client EXCEPT !.locked = FALSE, !.opsDeleted = TRUE]
      BY <1>4 DEF SendFails
    <3> QED BY <1>1, <3>1, ClientKept
  <2>3. outcome' \in OutcomeType
    <3>1. outcome' = [outcome EXCEPT ![s].returned = "Error"]
      BY <1>4 DEF SendFails
    <3> QED BY <1>1, <2>1, <3>1 DEF OutcomeType
  <2> QED BY <1>1, <1>4, <2>2, <2>3 DEF SendFails, ValuesOK
<1>5. ASSUME NEW s \in Prepared, SendSucceeds(s) PROVE ValuesOK'
  BY <1>1, <1>5, ClientKept DEF SendSucceeds, ValuesOK
<1>6. CASE ConnectSend \/ SubscribeSend \/ UnsubscribeSend
  BY <1>4, <1>5, <1>6 DEF ConnectSend, SubscribeSend, UnsubscribeSend
<1>7. CASE DisconnectSend
  BY <1>1, <1>7, ClientKept DEF DisconnectSend, ValuesOK
<1>8. CASE Cancel
  <2>1. PICK s \in Live \ {KeepAlive} :
           /\ client' = [client EXCEPT !.locked = IF Unlocks(s) THEN FALSE ELSE @, !.opsDeleted = TRUE]
           /\ outcome' = [outcome EXCEPT ![s].cancelled = TRUE]
    BY <1>8 DEF Cancel
  <2>2. s \in Handles
    BY TableFacts, Numbers DEF Base
  <2>3. client' \in ClientType
    BY <1>1, <2>1 DEF ClientType
  <2>4. outcome' \in OutcomeType
    BY <1>1, <2>1, <2>2 DEF OutcomeType
  <2> QED BY <1>1, <1>8, <2>3, <2>4 DEF Cancel, ValuesOK
<1>9. CASE NotifyNetworkDisconnected \/ FreeClient
  BY <1>1, <1>9 DEF NotifyNetworkDisconnected, FreeClient, ValuesOK
<1>10. CASE ProcessData
  <2>1. wire' \subseteq wire
    BY <1>10 DEF ProcessData
  <2> QED BY <1>1, <1>10, <2>1 DEF ProcessData, ValuesOK
<1>11. ASSUME NEW E, Tick(E) PROVE ValuesOK'
  <2>1. depth' = 1 /\ client' = client /\ wire' = wire /\ outcome' = outcome /\ fate' = fate
    BY <1>11 DEF Tick
  <2> QED BY <1>1, <2>1 DEF ValuesOK
<1> QED BY <1>2, <1>3, <1>6, <1>7, <1>8, <1>9, <1>10, <1>11 DEF Next

-----------------------------------------------------------------------------
\* The lists of frames that the actions put on the stack.

LEMMA SessionLostFacts ==
    ASSUME NEW reason, NEW status, NEW x, x = SessionLost(reason, status)
    PROVE  /\ GoodList(x) /\ Len(x) = 3 /\ x # <<>>
           /\ x[1] = Frame("lost", 0, status) /\ x[2] = Frame("connectivity", 0, NoArg) /\ x[3] = Frame("report", 0, reason)
           /\ FramesOf(x) = {x[1], x[2], x[3]}
           /\ x[1].do = "lost" /\ x[2].do = "connectivity" /\ x[3].do = "report" /\ x[3].arg = reason
<1>1. PICK a, b, c : a = Frame("lost", 0, status) /\ b = Frame("connectivity", 0, NoArg) /\ c = Frame("report", 0, reason)
  OBVIOUS
<1>2. FrameOK(a) /\ FrameOK(b) /\ FrameOK(c) /\ a.do = "lost" /\ b.do = "connectivity" /\ c.do = "report" /\ c.arg = reason
  <2>1. FrameOK(a) /\ a.do = "lost"
    BY <1>1, FrameFacts DEF Special
  <2>2. FrameOK(b) /\ b.do = "connectivity"
    BY <1>1, FrameFacts DEF Special
  <2>3. FrameOK(c) /\ c.do = "report" /\ c.arg = reason
    BY <1>1, FrameFacts DEF Special
  <2> QED BY <2>1, <2>2, <2>3
<1>3. x = <<a, b, c>>
  BY <1>1 DEF SessionLost
<1>4. GoodList(x) /\ FramesOf(x) = {a, b, c}
  BY <1>2, <1>3, ListOfThree DEF TopOnly
<1>5. Len(x) = 3 /\ x[1] = a /\ x[2] = b /\ x[3] = c /\ x # <<>>
  BY <1>3, ThreeFrames
<1> QED BY <1>1, <1>2, <1>4, <1>5

LEMMA NetworkLostFacts ==
    ASSUME NEW x, x = NetworkLost
    PROVE  /\ GoodList(x) /\ Len(x) = 3 /\ x # <<>>
           /\ x[1] = Frame("enter", 0, NoArg) /\ x[2] = Frame("netdown", 0, NoArg) /\ x[3] = Frame("exit", 0, NoArg)
           /\ FramesOf(x) = {x[1], x[2], x[3]}
           /\ x[1].do = "enter" /\ x[2].do = "netdown" /\ x[3].do = "exit"
<1>1. PICK a, b, c : a = Frame("enter", 0, NoArg) /\ b = Frame("netdown", 0, NoArg) /\ c = Frame("exit", 0, NoArg)
  OBVIOUS
<1>2. FrameOK(a) /\ FrameOK(b) /\ FrameOK(c) /\ a.do = "enter" /\ b.do = "netdown" /\ c.do = "exit"
  <2>1. FrameOK(a) /\ a.do = "enter"
    BY <1>1, FrameFacts DEF Special
  <2>2. FrameOK(b) /\ b.do = "netdown"
    BY <1>1, FrameFacts DEF Special
  <2>3. FrameOK(c) /\ c.do = "exit"
    BY <1>1, FrameFacts DEF Special
  <2> QED BY <2>1, <2>2, <2>3
<1>3. x = <<a, b, c>>
  BY <1>1 DEF NetworkLost
<1>4. GoodList(x) /\ FramesOf(x) = {a, b, c}
  BY <1>2, <1>3, ListOfThree DEF TopOnly
<1>5. Len(x) = 3 /\ x[1] = a /\ x[2] = b /\ x[3] = c /\ x # <<>>
  BY <1>3, ThreeFrames
<1> QED BY <1>1, <1>2, <1>4, <1>5

\* A tick collects one callback for every timer that expires.
LEMMA CollectedFacts ==
    ASSUME TableOK, NEW E \in SUBSET Running(timers), NEW x, x = Collected(E), NEW u, u = StopAll(E)
    PROVE  /\ GoodList(x) /\ (E = {} => x = <<>>)
           /\ \A f \in FramesOf(x) : f.do = "expired" /\ f.op \in Live
           /\ TimersOK(u) /\ Keys(u) = Keys(timers)
           /\ Active(u) \subseteq Active(timers)
           /\ \A k \in Active(timers) : k \in Active(u) \/ \E f \in FramesOf(x) : f.op = k[1]
           /\ E = {} => Active(u) = Active(timers)
<1>1. /\ TimersOK(timers) /\ Len(timers) \in Nat /\ DOMAIN timers = 1..Len(timers)
      /\ \A i \in 1..Len(timers) : timers[i] \in SlotType
  BY TimerBasics DEF TableOK
<1>2. \A i \in E : i \in 1..Len(timers) /\ i \in Used(timers) /\ timers[i].holder # NoHolder
  BY <1>1 DEF Running, Slots, Used
<1>3. IsFiniteSet(E) /\ E \subseteq Nat
  <2>1. IsFiniteSet(1..Len(timers)) /\ E \in SUBSET (1..Len(timers))
    BY <1>1, <1>2, FS_Interval
  <2>2. IsFiniteSet(E)
    BY <2>1, FS_Subset
  <2>3. E \subseteq Nat
    BY <1>1, <1>2
  <2> QED BY <2>2, <2>3
<1>4. PICK m, q : m = Cardinality(E) /\ q = InSlotOrder(E)
  OBVIOUS
<1>5. m \in Nat /\ q \in [1..m -> E] /\ \A s \in E : \E n \in 1..m : q[n] = s
  BY <1>3, <1>4, InSlotOrderFacts
<1>6. x = [n \in 1..m |-> Frame("expired", timers[q[n]].holder, timers[q[n]].name)]
  BY <1>4 DEF Collected
<1>7. ASSUME NEW n \in 1..m
      PROVE  /\ q[n] \in E /\ x[n].do = "expired" /\ x[n].op = timers[q[n]].holder /\ x[n].arg = timers[q[n]].name
             /\ FrameOK(x[n]) /\ x[n].op \in Live
  <2>1. q[n] \in E /\ x[n] = Frame("expired", timers[q[n]].holder, timers[q[n]].name)
    BY <1>5, <1>6
  <2>2. /\ x[n].do = "expired" /\ x[n].op = timers[q[n]].holder /\ x[n].arg = timers[q[n]].name
        /\ x[n].idx = 0 /\ x[n].end = 0
        /\ x[n] = [do |-> x[n].do, op |-> x[n].op, arg |-> x[n].arg, idx |-> x[n].idx, end |-> x[n].end]
    BY <2>1, FrameIs
  <2>3. PICK v : v = timers[q[n]]
    OBVIOUS
  <2>4. v \in SlotType /\ v.holder # NoHolder /\ v.holder \in Operations
    BY <1>1, <1>2, <2>1, <2>3, SlotFacts
  <2>5. (v.holder = KeepAlive /\ v.name \in KeepAliveNames) \/ (v.holder \in Handles /\ v.name = "response")
    <3>1. v.holder = KeepAlive \/ v.holder \in Handles
      BY <2>4, Numbers
    <3>2. v.holder = KeepAlive => v.name \in KeepAliveNames
      BY <2>4, SlotFacts, Zenon
    <3>3. v.holder \in Handles => v.name = "response"
      BY <2>4, SlotFacts, Zenon
    <3> QED BY <3>1, <3>2, <3>3, Zenon
  <2>6. v.holder \in Live
    <3>1. KeyOf(v) \in Keys(timers) /\ KeyOf(v)[1] = v.holder
      BY <1>2, <2>1, <2>3 DEF Keys, KeyOf
    <3> QED BY <3>1, TableFacts
  <2>7. FrameOK(x[n])
    BY <2>2, <2>3, <2>5 DEF FrameOK
  <2> QED BY <2>1, <2>2, <2>3, <2>6, <2>7
<1>8. DOMAIN x = 1..m
  BY <1>6
<1>9. IsStack(x)
  <2>1. x \in [1..m -> FramesOf(x)]
    BY <1>6, <1>8 DEF FramesOf
  <2> QED BY <1>5, <2>1, FunctionIsSeq DEF IsStack
<1>10. \A f \in FramesOf(x) : f.do = "expired" /\ f.op \in Live /\ FrameOK(f)
  BY <1>7, <1>8 DEF FramesOf
<1>11. GoodList(x)
  <2>1. Below(x) \subseteq FramesOf(x)
    BY DEF Below, FramesOf
  <2> QED BY <1>9, <1>10, <2>1 DEF GoodList, TopOnly
<1>12. E = {} => x = <<>>
  <2>1. ASSUME E = {} PROVE m = 0
    BY <1>4, <2>1, FS_EmptySet
  <2> QED BY <1>6, <2>1
<1>13. /\ TimersOK(u) /\ Keys(u) = Keys(timers)
       /\ Active(u) = Active(timers) \ {KeyOf(timers[i]) : i \in E}
  <2>1. u = [i \in 1..Len(timers) |-> IF i \in E THEN Stopped(timers[i]) ELSE timers[i]]
    BY <1>1 DEF StopAll, Slots
  <2>2. PICK ts : ts = timers
    OBVIOUS
  <2>3. TimersOK(ts) /\ E \subseteq Used(ts)
    BY <1>1, <1>2, <2>2
  <2>4. u = [i \in 1..Len(ts) |-> IF i \in E THEN Stopped(ts[i]) ELSE ts[i]]
    BY <2>1, <2>2
  <2>5. TimersOK(u) /\ Keys(u) = Keys(ts) /\ Active(u) = Active(ts) \ {KeyOf(ts[i]) : i \in E}
    BY <2>3, <2>4, StopFacts
  <2> QED BY <2>2, <2>5
<1>14. ASSUME NEW k \in Active(timers), k \notin Active(u) PROVE \E f \in FramesOf(x) : f.op = k[1]
  <2>1. PICK i \in E : k = KeyOf(timers[i])
    BY <1>13, <1>14
  <2>2. PICK n \in 1..m : q[n] = i
    BY <1>5
  <2>3. x[n].op = k[1] /\ x[n] \in FramesOf(x)
    BY <1>7, <1>8, <2>1, <2>2 DEF KeyOf, FramesOf
  <2> QED BY <2>3
<1> QED BY <1>10, <1>11, <1>12, <1>13, <1>14

\* What an operation makes of a message.
Handlings(x, s) ==
    \/ x = <<>>
    \/ s = KeepAlive /\ \E msg : x = <<Frame("heard", KeepAlive, msg)>>
    \/ /\ s # KeepAlive /\ op[s].type = "connect"
       /\ \E do \in {"connected", "refused"} : x = <<Frame(do, 0, NoArg), Frame("complete", s, "Complete")>>
    \/ s # KeepAlive /\ \E arg : x = <<Frame("complete", s, arg)>>
    \/ s # KeepAlive /\ x = <<Frame("complete", s, "ProtocolError")>> \o SessionLost("ProtocolError", "BrokerDisconnected")

LEMMA HandlingCases ==
    ASSUME NEW s, NEW about, NEW msg PROVE Handlings(Handling(s, about, msg), s)
<1>1. CASE s = KeepAlive
  <2>1. Handling(s, about, msg) = <<Frame("heard", KeepAlive, msg)>>
    BY <1>1 DEF Handling
  <2> QED BY <1>1, <2>1 DEF Handlings
<1>2. CASE s # KeepAlive /\ op[s].type = "connect" /\ msg \in {"CONNACK accepted", "CONNACK refused", "CONNACK invalid"}
  BY <1>2 DEF Handling, Handlings
<1>3. CASE s # KeepAlive /\ ~(op[s].type = "connect" /\ msg \in {"CONNACK accepted", "CONNACK refused", "CONNACK invalid"})
  <2>1. CASE s = about /\ msg \in {"SUBACK", "UNSUBACK"}
    <3>1. Handling(s, about, msg) = <<Frame("complete", s, "Complete")>>
      BY <1>3, <2>1 DEF Handling
    <3> QED BY <1>3, <3>1 DEF Handlings
  <2>2. CASE s = about /\ msg = "SUBACK invalid"
    <3>1. Handling(s, about, msg) = <<Frame("complete", s, "ProtocolError")>> \o SessionLost("ProtocolError", "BrokerDisconnected")
      BY <1>3, <2>2 DEF Handling
    <3> QED BY <1>3, <3>1 DEF Handlings
  <2>3. CASE ~(s = about /\ msg \in {"SUBACK", "UNSUBACK"}) /\ ~(s = about /\ msg = "SUBACK invalid")
    <3>1. Handling(s, about, msg) = <<>>
      BY <1>3, <2>3 DEF Handling
    <3> QED BY <3>1 DEF Handlings
  <2> QED BY <2>1, <2>2, <2>3
<1> QED BY <1>1, <1>2, <1>3

-----------------------------------------------------------------------------
\* What the application is told of an operation, for every application.

Calling(s) == \E f \in FramesOf(stack) : f.do = "callback" /\ f.op = s
Waiting(s) == \E f \in FramesOf(stack) : f.do = "wait" /\ f.op = s
IsRequest(s) == op[s].stage = "sent" /\ op[s].type \in Requests

ToldOf(s) ==
    /\ outcome[s].calls \in {0, 1}
    /\ outcome[s].calls = 1 =>
          s \notin Live /\ op[s].stage = "sent" /\ outcome[s].returned # "Error" /\ ~outcome[s].cancelled
    /\ Calling(s) =>
          s \notin Live /\ IsRequest(s) /\ outcome[s].calls = 0 /\ ~outcome[s].cancelled /\ outcome[s].returned # "Error"
    /\ s \in Live => outcome[s].calls = 0 /\ ~outcome[s].cancelled /\ outcome[s].returned # "Error"
    /\ op[s].stage = "new" => outcome[s] = Untold
    /\ op[s].stage = "prepared" => outcome[s].returned # "Success" /\ outcome[s].calls = 0
    /\ op[s].stage = "sent" => outcome[s].returned # "Error"
    /\ IsRequest(s) => outcome[s].returned = "Success" \/ Waiting(s)
    /\ IsRequest(s) /\ s \notin Live /\ ~outcome[s].cancelled => outcome[s].calls = 1 \/ Calling(s)
    /\ outcome[s].returned = "Success" => IsRequest(s)
    /\ Waiting(s) => IsRequest(s)

Told == \A s \in Handles : ToldOf(s)

LEMMA SameTold ==
    ASSUME NEW s, ToldOf(s), outcome'[s] = outcome[s], op'[s] = op[s], s \in Live' <=> s \in Live,
           Calling(s)' <=> Calling(s), Waiting(s)' <=> Waiting(s)
    PROVE  ToldOf(s)'
  BY DEF ToldOf, IsRequest

\* Lists without callbacks, that start the timer of no request.
Quiet(x) ==
    /\ GoodList(x)
    /\ \A f \in FramesOf(x) : f.do # "callback" /\ (f.do = "wait" => f.op = KeepAlive)

LEMMA QuietThen ==
    ASSUME Base, Told, stack # <<>>, NEW x, Quiet(x), stack' = x \o Tail(stack),
           Top.do # "callback", Top.do = "wait" => Top.op = KeepAlive,
           op' = op, outcome' = outcome, Live' = Live
    PROVE  GoodList(stack') /\ Told'
<1>1. PICK t, u : t = stack /\ u = stack'
  OBVIOUS
<1>2. GoodList(t) /\ t # <<>> /\ GoodList(x) /\ u = x \o Tail(t)
  BY <1>1 DEF Base, Quiet
<1>3. GoodList(u) /\ FramesOf(u) = FramesOf(x) \cup Below(t) /\ FramesOf(t) = {Head(t)} \cup Below(t)
  BY <1>2, PushedOnTail
<1>4. \A s \in Handles : s # KeepAlive
  BY Numbers
<1>5. ASSUME NEW s \in Handles PROVE ToldOf(s)'
  <2>1. Calling(s)' <=> Calling(s)
    BY <1>1, <1>3 DEF Calling, Quiet, Top
  <2>2. Waiting(s)' <=> Waiting(s)
    BY <1>1, <1>3, <1>4 DEF Waiting, Quiet, Top
  <2> QED BY <2>1, <2>2, SameTold DEF Told
<1> QED BY <1>1, <1>3, <1>5 DEF Told

LEMMA QuietCall ==
    ASSUME Base, Told, stack # <<>> => Top.do = "app", NEW x, x # <<>>, Quiet(x), stack' = x \o stack
    PROVE  /\ GoodList(stack') /\ FramesOf(stack') = FramesOf(x) \cup FramesOf(stack)
           /\ \A s \in Handles : (Calling(s)' <=> Calling(s)) /\ (Waiting(s)' <=> Waiting(s))
<1>1. PICK t, u : t = stack /\ u = stack'
  OBVIOUS
<1>2. GoodList(t) /\ GoodList(x) /\ u = x \o t /\ (t # <<>> => Head(t).do \notin TopOnly)
  BY <1>1 DEF Base, Quiet, Top, TopOnly
<1>3. GoodList(u) /\ FramesOf(u) = FramesOf(x) \cup FramesOf(t)
  BY <1>2, PushedOnAll
<1>4. \A s \in Handles : s # KeepAlive
  BY Numbers
<1> QED BY <1>1, <1>3, <1>4 DEF Calling, Waiting, Quiet

\* The lists of one action.
LEMMA QuietNone == Quiet(<<>>)
  BY ListOfNone DEF Quiet

LEMMA QuietOne ==
    ASSUME NEW f, FrameOK(f), f.do # "callback", f.do = "wait" => f.op = KeepAlive, NEW x, x = <<f>>
    PROVE  Quiet(x) /\ x # <<>>
  BY ListOfOne DEF Quiet

LEMMA QuietTwo ==
    ASSUME NEW f, FrameOK(f), f.do # "callback", f.do = "wait" => f.op = KeepAlive,
           NEW g, FrameOK(g), g.do \notin TopOnly, g.do = "wait" => g.op = KeepAlive, NEW x, x = <<f, g>>
    PROVE  Quiet(x) /\ x # <<>>
  BY ListOfTwo DEF Quiet, TopOnly

LEMMA QuietThree ==
    ASSUME NEW f, FrameOK(f), f.do # "callback", f.do = "wait" => f.op = KeepAlive,
           NEW g, FrameOK(g), g.do \notin TopOnly, g.do = "wait" => g.op = KeepAlive,
           NEW h, FrameOK(h), h.do \notin TopOnly, h.do = "wait" => h.op = KeepAlive, NEW x, x = <<f, g, h>>
    PROVE  Quiet(x) /\ x # <<>>
  BY ListOfThree DEF Quiet, TopOnly

LEMMA QuietLists ==
    ASSUME NEW x, Quiet(x), NEW y, Quiet(y), \A f \in FramesOf(y) : f.do \notin TopOnly, NEW u, u = x \o y
    PROVE  Quiet(u) /\ (y # <<>> => u # <<>>) /\ FramesOf(u) = FramesOf(x) \cup FramesOf(y)
<1>1. GoodList(u) /\ FramesOf(u) = FramesOf(x) \cup FramesOf(y) /\ (x # <<>> => u # <<>>) /\ (x = <<>> => u = y)
  BY ListOfLists DEF Quiet
<1> QED BY <1>1 DEF Quiet

LEMMA QuietSessionLost ==
    ASSUME NEW reason, NEW status, NEW x, x = SessionLost(reason, status)
    PROVE  Quiet(x) /\ x # <<>> /\ \A f \in FramesOf(x) : f.do \notin TopOnly
  BY SessionLostFacts DEF Quiet, TopOnly

LEMMA QuietNetworkLost ==
    ASSUME NEW x, x = NetworkLost
    PROVE  Quiet(x) /\ x # <<>> /\ \A f \in FramesOf(x) : f.do \notin TopOnly
  BY NetworkLostFacts DEF Quiet, TopOnly

LEMMA SpecialFrames ==
    ASSUME NEW s \in Handles, NEW arg
    PROVE  /\ FrameOK(Frame("callback", s, arg)) /\ FrameOK(Frame("disconnect", s, NoArg))
           /\ FrameOK(Frame("wait", s, "response")) /\ FrameOK(Frame("output", s, NoArg))
<1>1. ASSUME NEW do \in {"callback", "disconnect", "wait", "output"}, NEW a, NEW f,
             f = Frame(do, s, a), do = "wait" => a = "response"
      PROVE  FrameOK(f)
  <2>2. f.do = do /\ f.op = s /\ f.arg = a /\ f.idx = 0 /\ f.end = 0
        /\ f = [do |-> f.do, op |-> f.op, arg |-> f.arg, idx |-> f.idx, end |-> f.end]
    BY <1>1, FrameIs
  <2> QED BY <1>1, <2>2 DEF FrameOK
<1> QED BY <1>1

LEMMA KeepAliveFrames ==
    ASSUME NEW arg
    PROVE  /\ FrameOK(Frame("wait", KeepAlive, "resp")) /\ FrameOK(Frame("heard", KeepAlive, arg))
           /\ FrameOK(Frame("output", 0, NoArg))
<1>1. PICK f, g, h : f = Frame("wait", KeepAlive, "resp") /\ g = Frame("heard", KeepAlive, arg) /\ h = Frame("output", 0, NoArg)
  OBVIOUS
<1>2. f.do = "wait" /\ f.op = KeepAlive /\ f.arg = "resp" /\ f.idx = 0 /\ f.end = 0
      /\ f = [do |-> f.do, op |-> f.op, arg |-> f.arg, idx |-> f.idx, end |-> f.end]
  BY <1>1, FrameIs
<1>3. g.do = "heard" /\ g.op = KeepAlive /\ g.idx = 0 /\ g.end = 0
      /\ g = [do |-> g.do, op |-> g.op, arg |-> g.arg, idx |-> g.idx, end |-> g.end]
  BY <1>1, FrameIs
<1>4. h.do = "output" /\ h.op = 0 /\ h.idx = 0 /\ h.end = 0
      /\ h = [do |-> h.do, op |-> h.op, arg |-> h.arg, idx |-> h.idx, end |-> h.end]
  BY <1>1, FrameIs
<1>5. FrameOK(f) /\ FrameOK(g) /\ FrameOK(h)
  BY <1>2, <1>3, <1>4 DEF FrameOK
<1> QED BY <1>1, <1>5

LEMMA SameTable ==
    ASSUME TableOK, UNCHANGED <<ops, op, timers>> PROVE TableOK' /\ Live' = Live /\ Prepared' = Prepared
<1>1. TableOK' /\ Live' = Live
  BY TimersTable DEF TableOK
<1> QED BY <1>1 DEF Prepared

\* The frame that is executed.
LEMMA TopFacts ==
    ASSUME Base, NEW do, At(do)
    PROVE  stack # <<>> /\ Top.do = do /\ FrameOK(Top) /\ Top \in FramesOf(stack) /\ fate = "running"
<1>1. stack # <<>> /\ Top.do = do /\ fate = "running"
  BY DEF At, Top
<1> QED BY <1>1, StackBasics DEF Base, GoodList, Top

Kept == TableOK' /\ GoodList(stack') /\ Told'

\* Steps that only call functions.
LEMMA KeptThen ==
    ASSUME Base, Told, NEW do, At(do), do \notin {"callback", "wait"}, NEW x, Quiet(x), Then(x),
           UNCHANGED <<ops, op, timers, outcome>>
    PROVE  Kept
<1>1. stack # <<>> /\ Top.do = do
  BY TopFacts
<1>2. TableOK' /\ Live' = Live
  BY SameTable DEF Base
<1> QED BY <1>1, <1>2, QuietThen DEF Kept, Then

LEMMA KeptEnter == ASSUME Base, Told, Enter PROVE Kept
<1>1. PICK E \in SUBSET Running(timers) : timers' = StopAll(E) /\ Then(Collected(E))
  BY DEF Enter
<1>2. PICK x, u : x = Collected(E) /\ u = StopAll(E)
  OBVIOUS
<1>3. /\ GoodList(x) /\ \A f \in FramesOf(x) : f.do = "expired"
      /\ TimersOK(u) /\ Keys(u) = Keys(timers)
  BY <1>2, CollectedFacts DEF Base
<1>4. Quiet(x) /\ stack' = x \o Tail(stack) /\ timers' = u
  BY <1>1, <1>2, <1>3 DEF Quiet, Then
<1>5. op' = op /\ ops' = ops /\ outcome' = outcome
  BY DEF Enter
<1>6. TableOK' /\ Live' = Live
  BY <1>3, <1>4, <1>5, TimersTable DEF Base
<1>7. stack # <<>> /\ Top.do = "enter"
  BY TopFacts DEF Enter
<1> QED BY <1>4, <1>5, <1>6, <1>7, QuietThen DEF Kept

LEMMA KeptExit == ASSUME Base, Told, Exit PROVE Kept
<1>1. TableOK' /\ Live' = Live
  <2>1. CASE ops' = CleanedOps
    BY <2>1, CleanTable DEF Base, Exit
  <2>2. CASE ops' = ops
    BY <2>2, SameTable DEF Base, Exit
  <2> QED BY <2>1, <2>2 DEF Exit
<1>2. stack # <<>> /\ Top.do = "exit"
  BY TopFacts DEF Exit
<1>3. op' = op /\ outcome' = outcome /\ stack' = <<>> \o Tail(stack)
  BY DEF Exit, Then
<1> QED BY <1>1, <1>2, <1>3, QuietNone, QuietThen DEF Kept

LEMMA KeptComplete == ASSUME Base, Told, CompleteOpInternal, Top.op \in Live PROVE Kept
<1>1. PICK s : s = Top.op
  OBVIOUS
<1>2. /\ s \in Live /\ Destroy(s) /\ op' = op /\ outcome' = outcome
      /\ Then(IF op[s].stage = "sent" /\ op[s].type \in Requests THEN <<Frame("callback", s, Top.arg)>> ELSE <<>>)
  BY <1>1 DEF CompleteOpInternal
<1>3. TableOK' /\ Live' = Live \ {s} /\ s \in Operations
  BY <1>2, DestroyTable DEF Base
<1>4. stack # <<>> /\ Top.do = "complete"
  BY TopFacts DEF CompleteOpInternal
<1>5. IsRequest(s) => s \in Handles
  BY <1>3, TableFacts DEF Base, IsRequest
<1>6. PICK x : x = IF IsRequest(s) THEN <<Frame("callback", s, Top.arg)>> ELSE <<>>
  OBVIOUS
<1>7. stack' = x \o Tail(stack)
  BY <1>2, <1>6 DEF Then, IsRequest
<1>8. GoodList(x) /\ FramesOf(x) = IF IsRequest(s) THEN {Frame("callback", s, Top.arg)} ELSE {}
  <2>1. CASE IsRequest(s)
    <3>1. FrameOK(Frame("callback", s, Top.arg))
      BY <1>5, <2>1, SpecialFrames
    <3> QED BY <1>6, <2>1, <3>1, ListOfOne
  <2>2. CASE ~IsRequest(s)
    BY <1>6, <2>2, ListOfNone
  <2> QED BY <2>1, <2>2
<1>9. /\ GoodList(stack') /\ FramesOf(stack') = FramesOf(x) \cup Below(stack)
      /\ FramesOf(stack) = {Top} \cup Below(stack)
  <2>1. PICK t, u : t = stack /\ u = stack'
    OBVIOUS
  <2>2. GoodList(t) /\ t # <<>> /\ u = x \o Tail(t)
    BY <1>4, <1>7, <2>1 DEF Base
  <2> QED BY <1>8, <2>1, <2>2, PushedOnTail DEF Top
<1>10. \A t \in Handles : Waiting(t)' <=> Waiting(t)
  <2>1. Frame("callback", s, Top.arg).do = "callback"
    BY FrameFacts
  <2> QED BY <1>4, <1>8, <1>9, <2>1 DEF Waiting
<1>11. \A t \in Handles : t # s => (Calling(t)' <=> Calling(t))
  <2>1. Frame("callback", s, Top.arg).op = s
    BY FrameFacts
  <2> QED BY <1>4, <1>8, <1>9, <2>1 DEF Calling
<1>12. ASSUME NEW t \in Handles, t # s PROVE ToldOf(t)'
  BY <1>2, <1>3, <1>10, <1>11, <1>12, SameTold DEF Told
<1>13. ASSUME s \in Handles PROVE ToldOf(s)'
  <2>1. ToldOf(s) /\ s \in Live /\ s \notin Live' /\ (Waiting(s)' <=> Waiting(s))
    BY <1>2, <1>3, <1>10, <1>13 DEF Told
  <2>2. ~Calling(s)
    BY <2>1 DEF ToldOf
  <2>3. Calling(s)' <=> IsRequest(s)
    <3>1. Frame("callback", s, Top.arg).op = s /\ Frame("callback", s, Top.arg).do = "callback"
      BY FrameFacts
    <3> QED BY <1>8, <1>9, <2>2, <3>1 DEF Calling
  <2>4. op'[s] = op[s] /\ outcome'[s] = outcome[s]
    BY <1>2
  <2>5. IsRequest(s)' <=> IsRequest(s)
    BY <2>4 DEF IsRequest
  <2> QED BY <2>1, <2>2, <2>3, <2>4, <2>5 DEF ToldOf
<1>14. Told'
  BY <1>12, <1>13 DEF Told
<1> QED BY <1>3, <1>9, <1>14 DEF Kept

\* The outcome of one operation changes.
LEMMA OthersTold ==
    ASSUME Told, NEW s, op' = op, NEW t \in Handles, t # s, outcome'[t] = outcome[t], t \in Live' <=> t \in Live,
           Calling(t)' <=> Calling(t), Waiting(t)' <=> Waiting(t)
    PROVE  ToldOf(t)'
  BY SameTold DEF Told

LEMMA KeptCallback == ASSUME Base, Told, Callback PROVE Kept
<1>1. stack # <<>> /\ Top.do = "callback" /\ FrameOK(Top) /\ Top \in FramesOf(stack)
  BY TopFacts DEF Callback
<1>2. PICK s : s = Top.op
  OBVIOUS
<1>3. s \in Handles /\ Calling(s)
  BY <1>1, <1>2 DEF FrameOK, Calling
<1>4. /\ op' = op /\ ops' = ops /\ timers' = timers /\ outcome' = [outcome EXCEPT ![s].calls = @ + 1]
      /\ Then(<<Frame("app", 0, NoArg)>>)
  BY <1>2 DEF Callback
<1>5. TableOK' /\ Live' = Live
  BY <1>4, SameTable DEF Base
<1>6. PICK a, x : a = Frame("app", 0, NoArg) /\ x = <<a>>
  OBVIOUS
<1>7. FrameOK(a) /\ a.do = "app"
  BY <1>6, FrameFacts DEF Special
<1>8. GoodList(x) /\ FramesOf(x) = {a}
  BY <1>6, <1>7, ListOfOne
<1>9. /\ GoodList(stack') /\ FramesOf(stack') = {a} \cup Below(stack)
      /\ FramesOf(stack) = {Top} \cup Below(stack) /\ \A f \in Below(stack) : f.do # "callback"
  <2>1. PICK t, u : t = stack /\ u = stack'
    OBVIOUS
  <2>2. GoodList(t) /\ t # <<>> /\ u = x \o Tail(t)
    BY <1>1, <1>4, <1>6, <2>1 DEF Base, Then
  <2>3. \A f \in Below(t) : f.do # "callback"
    BY <2>2 DEF GoodList, TopOnly
  <2> QED BY <1>8, <2>1, <2>2, <2>3, PushedOnTail DEF Top
<1>10. \A t \in Handles : ~Calling(t)' /\ (Waiting(t)' <=> Waiting(t))
  BY <1>1, <1>7, <1>9 DEF Calling, Waiting
<1>11. \A t \in Handles : t # s => ~Calling(t)
  BY <1>1, <1>2, <1>9 DEF Calling
<1>12. \A t \in Handles : t # s => outcome'[t] = outcome[t]
  BY <1>3, <1>4 DEF Base, ValuesOK, OutcomeType
<1>13. ASSUME NEW t \in Handles, t # s PROVE ToldOf(t)'
  BY <1>4, <1>5, <1>10, <1>11, <1>12, <1>13, OthersTold
<1>14. ToldOf(s)'
  <2>1. ToldOf(s) /\ Calling(s) /\ ~Calling(s)' /\ (Waiting(s)' <=> Waiting(s)) /\ op'[s] = op[s] /\ (s \in Live' <=> s \in Live)
    BY <1>3, <1>4, <1>5, <1>10 DEF Told
  <2>2. /\ outcome'[s].calls = outcome[s].calls + 1 /\ outcome'[s].returned = outcome[s].returned
        /\ outcome'[s].cancelled = outcome[s].cancelled
    BY <1>3, <1>4 DEF Base, ValuesOK, OutcomeType
  <2>3. IsRequest(s)' <=> IsRequest(s)
    BY <2>1 DEF IsRequest
  <2>4. s \notin Live /\ IsRequest(s) /\ outcome[s].calls = 0 /\ ~outcome[s].cancelled /\ outcome[s].returned # "Error"
    BY <2>1 DEF ToldOf
  <2>5. outcome'[s].calls = 1 /\ ~outcome'[s].cancelled /\ op[s].stage = "sent"
    BY <2>2, <2>4 DEF IsRequest
  <2>6. outcome[s].returned = "Success" \/ Waiting(s)
    BY <2>1, <2>4 DEF ToldOf
  <2> QED BY <2>1, <2>2, <2>3, <2>4, <2>5, <2>6 DEF ToldOf
<1>15. Told'
  BY <1>13, <1>14 DEF Told
<1> QED BY <1>5, <1>9, <1>15 DEF Kept

LEMMA KeptExpired == ASSUME Base, Told, Expired, Top.op \in Live PROVE Kept
<1>1. UNCHANGED <<ops, op, timers, outcome>> /\ At("expired")
  BY DEF Expired
<1>2. \/ Then(<<Frame("complete", Top.op, "Timeout")>>)
      \/ Then(SessionLost("NoBrokerResponse", "BrokerDisconnected"))
      \/ Then(<<>>)
      \/ Then(<<Frame("output", 0, NoArg), Frame("wait", KeepAlive, "resp")>>)
  BY DEF Expired
<1>3. CASE Then(<<Frame("complete", Top.op, "Timeout")>>)
  <2>1. PICK a, x : a = Frame("complete", Top.op, "Timeout") /\ x = <<a>>
    OBVIOUS
  <2>2. FrameOK(a) /\ a.do = "complete"
    BY <2>1, FrameFacts DEF Special
  <2>3. Quiet(x) /\ Then(x)
    BY <1>3, <2>1, <2>2, QuietOne
  <2> QED BY <1>1, <2>3, KeptThen
<1>4. CASE Then(SessionLost("NoBrokerResponse", "BrokerDisconnected"))
  <2>1. Quiet(SessionLost("NoBrokerResponse", "BrokerDisconnected"))
    BY QuietSessionLost
  <2> QED BY <1>1, <1>4, <2>1, KeptThen
<1>5. CASE Then(<<>>)
  BY <1>1, <1>5, QuietNone, KeptThen
<1>6. CASE Then(<<Frame("output", 0, NoArg), Frame("wait", KeepAlive, "resp")>>)
  <2>1. PICK a, b, x : a = Frame("output", 0, NoArg) /\ b = Frame("wait", KeepAlive, "resp") /\ x = <<a, b>>
    OBVIOUS
  <2>2. FrameOK(a) /\ a.do = "output" /\ FrameOK(b) /\ b.do = "wait" /\ b.op = KeepAlive
    BY <2>1, FrameFacts, KeepAliveFrames
  <2>3. Quiet(x) /\ Then(x)
    BY <1>6, <2>1, <2>2, QuietTwo DEF TopOnly
  <2> QED BY <1>1, <2>3, KeptThen
<1> QED BY <1>2, <1>3, <1>4, <1>5, <1>6

LEMMA WaitTable ==
    ASSUME TableOK, NEW s \in Live, NEW n, <<s, n>> \in Keys(timers), timers' = TimerWait(timers, s, n, 0),
           op' = op, ops' = ops
    PROVE  TableOK' /\ Live' = Live /\ Active(timers') = Active(timers) \cup {<<s, n>>}
<1>1. TimersOK(timers') /\ Keys(timers') = Keys(timers) /\ Active(timers') = Active(timers) \cup {<<s, n>>}
  BY WaitFacts DEF TableOK
<1> QED BY <1>1, TimersTable

LEMMA KeptWait == ASSUME Base, Told, Wait, Top.op \in Live PROVE Kept
<1>1. stack # <<>> /\ Top.do = "wait" /\ FrameOK(Top) /\ Top \in FramesOf(stack)
  BY TopFacts DEF Wait
<1>2. PICK s, n : s = Top.op /\ n = Top.arg
  OBVIOUS
<1>3. /\ s \in Live /\ op' = op /\ ops' = ops /\ timers' = TimerWait(timers, s, n, 0)
      /\ outcome' = IF s = KeepAlive THEN outcome ELSE [outcome EXCEPT ![s].returned = "Success"]
      /\ Then(<<>>)
  BY <1>2 DEF Wait
<1>4. (s = KeepAlive /\ n = "resp") \/ (s \in Handles /\ n = "response")
  BY <1>1, <1>2 DEF FrameOK
<1>5. s \in Handles => IsRequest(s)
  BY <1>1, <1>2 DEF Told, ToldOf, Waiting
<1>6. <<s, n>> \in Keys(timers)
  BY <1>3, <1>4, <1>5, TableFacts DEF Base, IsRequest, KeepAliveNames
<1>7. TableOK' /\ Live' = Live
  BY <1>3, <1>6, WaitTable DEF Base
<1>8. CASE s = KeepAlive
  <2>1. stack' = <<>> \o Tail(stack) /\ outcome' = outcome
    BY <1>3, <1>8 DEF Then
  <2> QED BY <1>1, <1>2, <1>3, <1>7, <1>8, <2>1, QuietNone, QuietThen DEF Kept
<1>9. CASE s \in Handles
  <2>1. s # KeepAlive /\ outcome' = [outcome EXCEPT ![s].returned = "Success"]
    BY <1>3, <1>9, Numbers
  <2>2. /\ GoodList(stack') /\ FramesOf(stack') = Below(stack)
        /\ FramesOf(stack) = {Top} \cup Below(stack)
    <3>1. PICK t, u, x : t = stack /\ u = stack' /\ x = <<>>
      OBVIOUS
    <3>2. GoodList(t) /\ t # <<>> /\ u = x \o Tail(t) /\ GoodList(x) /\ FramesOf(x) = {}
      BY <1>1, <1>3, <3>1, ListOfNone DEF Base, Then
    <3>3. /\ GoodList(u) /\ FramesOf(u) = FramesOf(x) \cup Below(t)
          /\ FramesOf(t) = {Head(t)} \cup Below(t)
      BY <3>2, PushedOnTail
    <3> QED BY <3>1, <3>2, <3>3 DEF Top
  <2>3. \A t \in Handles : Calling(t)' <=> Calling(t)
    BY <1>1, <2>2 DEF Calling
  <2>4. \A t \in Handles : t # s => (Waiting(t)' <=> Waiting(t))
    BY <1>1, <1>2, <2>2 DEF Waiting
  <2>5. \A t \in Handles : t # s => outcome'[t] = outcome[t]
    BY <1>9, <2>1 DEF Base, ValuesOK, OutcomeType
  <2>6. ASSUME NEW t \in Handles, t # s PROVE ToldOf(t)'
    BY <1>3, <1>7, <2>3, <2>4, <2>5, <2>6, OthersTold
  <2>7. ToldOf(s)'
    <3>1. /\ outcome'[s].calls = outcome[s].calls /\ outcome'[s].returned = "Success"
          /\ outcome'[s].cancelled = outcome[s].cancelled
      BY <1>9, <2>1 DEF Base, ValuesOK, OutcomeType
    <3>2. /\ ToldOf(s) /\ (Calling(s)' <=> Calling(s)) /\ op'[s] = op[s] /\ s \in Live' /\ s \in Live
          /\ IsRequest(s)
      BY <1>3, <1>5, <1>7, <1>9, <2>3 DEF Told
    <3>3. IsRequest(s)' /\ op'[s].stage = "sent"
      BY <3>2 DEF IsRequest
    <3> QED BY <3>1, <3>2, <3>3 DEF ToldOf
  <2>8. Told'
    BY <2>6, <2>7 DEF Told
  <2> QED BY <1>7, <2>2, <2>8 DEF Kept
<1> QED BY <1>4, <1>8, <1>9

LEMMA KeptLost == ASSUME Base, Told, Lost PROVE Kept
<1>1. PICK n, a, x : n = Len(ops) /\ a = Loop("terminate", 0, Top.arg, 1, n) /\ x = <<a>>
  OBVIOUS
<1>2. n \in Nat
  BY <1>1, TableBasics DEF Base, TableOK
<1>3. FrameOK(a) /\ a.do = "terminate"
  BY <1>1, <1>2, LoopIs DEF Special
<1>4. Quiet(x)
  BY <1>1, <1>3, QuietOne
<1>5. Then(x) /\ At("lost") /\ UNCHANGED <<ops, op, timers, outcome>>
  BY <1>1 DEF Lost
<1> QED BY <1>4, <1>5, KeptThen

LEMMA KeptTerminate == ASSUME Base, Told, TerminateOps PROVE Kept
<1>1. stack # <<>> /\ Top.do = "terminate" /\ FrameOK(Top)
  BY TopFacts DEF TerminateOps
<1>2. At("terminate") /\ UNCHANGED <<ops, op, timers, outcome>>
  BY DEF TerminateOps
<1>3. PICK g : g = [Top EXCEPT !.idx = @ + 1]
  OBVIOUS
<1>4. FrameOK(g) /\ g.do = "terminate"
  BY <1>1, <1>3, NextIndex DEF Special
<1>5. CASE Top.idx > Top.end
  <2>1. Then(<<>>)
    BY <1>5 DEF TerminateOps
  <2> QED BY <1>2, <2>1, QuietNone, KeptThen
<1>6. CASE ~(Top.idx > Top.end)
  <2>1. PICK s, a, x, y : /\ s = ops[Top.idx] /\ a = Frame("complete", s, Top.arg)
                          /\ x = (IF s = 0 THEN <<>> ELSE <<a>>) /\ y = <<g>>
    OBVIOUS
  <2>2. Then(x \o y)
    BY <1>3, <1>6, <2>1 DEF TerminateOps
  <2>3. FrameOK(a) /\ a.do = "complete"
    BY <2>1, FrameFacts DEF Special
  <2>4. Quiet(x)
    BY <2>1, <2>3, QuietOne, QuietNone
  <2>5. Quiet(y) /\ \A f \in FramesOf(y) : f.do \notin TopOnly
    BY <1>4, <2>1, QuietOne, ListOfOne DEF TopOnly
  <2>6. Quiet(x \o y)
    BY <2>4, <2>5, QuietLists
  <2> QED BY <1>2, <2>2, <2>6, KeptThen
<1> QED BY <1>5, <1>6

LEMMA KeptConnectivity == ASSUME Base, Told, ConnectivityChanged PROVE Kept
<1>1. At("connectivity") /\ UNCHANGED <<ops, op, timers, outcome>>
  BY DEF ConnectivityChanged
<1>2. PICK s, a, x : s = (CHOOSE c \in OfType("connect") : TRUE) /\ a = Frame("complete", s, "BrokerDisconnected") /\ x = <<a>>
  OBVIOUS
<1>3. Then(<<>>) \/ Then(x)
  BY <1>2 DEF ConnectivityChanged
<1>4. FrameOK(a) /\ a.do = "complete"
  BY <1>2, FrameFacts DEF Special
<1>5. Quiet(x)
  BY <1>2, <1>4, QuietOne
<1> QED BY <1>1, <1>3, <1>5, QuietNone, KeptThen

LEMMA KeptReport == ASSUME Base, Told, Report PROVE Kept
<1>1. At("report") /\ UNCHANGED <<ops, op, timers, outcome>>
  BY DEF Report
<1>2. PICK a, x : a = Frame("app", 0, NoArg) /\ x = <<a>>
  OBVIOUS
<1>3. Then(<<>>) \/ Then(x)
  BY <1>2 DEF Report
<1>4. FrameOK(a) /\ a.do = "app"
  BY <1>2, FrameFacts DEF Special
<1>5. Quiet(x)
  BY <1>2, <1>4, QuietOne
<1> QED BY <1>1, <1>3, <1>5, QuietNone, KeptThen

LEMMA KeptNetworkDown == ASSUME Base, Told, NetworkDown PROVE Kept
<1>1. At("netdown") /\ UNCHANGED <<ops, op, timers, outcome>>
  BY DEF NetworkDown
<1>2. Then(<<>>) \/ Then(SessionLost(NoArg, "BrokerDisconnected"))
  BY DEF NetworkDown
<1>3. Quiet(SessionLost(NoArg, "BrokerDisconnected"))
  BY QuietSessionLost
<1> QED BY <1>1, <1>2, <1>3, QuietNone, KeptThen

LEMMA KeptOutput == ASSUME Base, Told, Output PROVE Kept
<1>1. At("output") /\ UNCHANGED <<ops, op, timers, outcome>>
  BY DEF Output
<1>2. PICK a, y : a = Frame("sent", 0, NoArg) /\ y = <<a>>
  OBVIOUS
<1>3. PICK x : (x = <<>> \/ x = NetworkLost) /\ Then(x \o y)
  BY <1>2 DEF Output
<1>4. FrameOK(a) /\ a.do = "sent"
  BY <1>2, FrameFacts DEF Special
<1>5. Quiet(y) /\ \A f \in FramesOf(y) : f.do \notin TopOnly
  BY <1>2, <1>4, QuietOne, ListOfOne DEF TopOnly
<1>6. Quiet(x)
  BY <1>3, QuietNone, QuietNetworkLost
<1>7. Quiet(x \o y)
  BY <1>5, <1>6, QuietLists
<1> QED BY <1>1, <1>3, <1>7, KeptThen

LEMMA KeptMessageSent == ASSUME Base, Told, MessageSent PROVE Kept
<1>1. stack # <<>> /\ Top.do = "sent"
  BY TopFacts DEF MessageSent
<1>2. op' = op /\ ops' = ops /\ outcome' = outcome /\ stack' = <<>> \o Tail(stack)
  BY DEF MessageSent, Then
<1>3. TableOK' /\ Live' = Live
  <2>1. CASE KeepAlive \in Live
    <3>1. timers' = TimerWait(timers, KeepAlive, "ping", 0)
      BY <2>1 DEF MessageSent
    <3>2. <<KeepAlive, "ping">> \in Keys(timers)
      BY <2>1, TableFacts DEF Base, KeepAliveNames
    <3> QED BY <1>2, <2>1, <3>1, <3>2, WaitTable DEF Base
  <2>2. CASE KeepAlive \notin Live
    BY <1>2, <2>2, SameTable DEF Base, MessageSent
  <2> QED BY <2>1, <2>2
<1> QED BY <1>1, <1>2, <1>3, QuietNone, QuietThen DEF Kept

LEMMA KeptInit == ASSUME Base, Told, InitInternal PROVE Kept
<1>1. PICK n, a, b, x : /\ n = Len(ops) /\ a = Loop("terminate", 0, "Aborted", 1, n)
                        /\ b = Frame("initialized", 0, NoArg) /\ x = <<a, b>>
  OBVIOUS
<1>2. n \in Nat
  BY <1>1, TableBasics DEF Base, TableOK
<1>3. FrameOK(a) /\ a.do = "terminate"
  BY <1>1, <1>2, LoopIs DEF Special
<1>4. FrameOK(b) /\ b.do = "initialized"
  BY <1>1, FrameFacts DEF Special
<1>5. Quiet(x)
  BY <1>1, <1>3, <1>4, QuietTwo DEF TopOnly
<1>6. Then(x) /\ At("init") /\ UNCHANGED <<ops, op, timers, outcome>>
  BY <1>1 DEF InitInternal
<1> QED BY <1>5, <1>6, KeptThen

LEMMA KeptPops == ASSUME Base, Told, Initialized \/ Freed \/ AppReturn \/ Refused PROVE Kept
<1>1. UNCHANGED <<ops, op, timers, outcome>> /\ Then(<<>>)
  BY DEF Initialized, Freed, AppReturn, Refused
<1>2. \E do \in {"initialized", "freed", "app", "refused"} : At(do)
  BY DEF Initialized, Freed, AppReturn, Refused
<1> QED BY <1>1, <1>2, QuietNone, KeptThen

LEMMA KeptDeliver == ASSUME Base, Told, Deliver PROVE Kept
<1>1. At("deliver") /\ UNCHANGED <<ops, op, timers, outcome>>
  BY DEF Deliver
<1>2. PICK n, a, x : n = Len(ops) /\ a = Loop("dispatch", Top.op, Top.arg, 1, n) /\ x = <<a>>
  OBVIOUS
<1>3. Then(<<>>) \/ Then(SessionLost("ProtocolError", "ProtocolError")) \/ Then(x)
  BY <1>2 DEF Deliver
<1>4. n \in Nat
  BY <1>2, TableBasics DEF Base, TableOK
<1>5. FrameOK(a) /\ a.do = "dispatch"
  BY <1>2, <1>4, LoopIs DEF Special
<1>6. Quiet(x) /\ Quiet(SessionLost("ProtocolError", "ProtocolError"))
  BY <1>2, <1>5, QuietOne, QuietSessionLost
<1> QED BY <1>1, <1>3, <1>6, QuietNone, KeptThen

LEMMA KeptDisconnect == ASSUME Base, Told, Disconnect, Top.op \in Live PROVE Kept
<1>1. At("disconnect") /\ UNCHANGED <<ops, op, timers, outcome>>
  BY DEF Disconnect
<1>2. PICK a, b, x, y : /\ a = Frame("output", 0, NoArg) /\ b = Frame("complete", Top.op, NoArg) /\ x = <<a, b>>
                        /\ y = SessionLost(NoArg, "BrokerDisconnected")
  OBVIOUS
<1>3. Then(x \o y)
  BY <1>2 DEF Disconnect
<1>4. FrameOK(a) /\ a.do = "output"
  BY <1>2, KeepAliveFrames, FrameFacts
<1>5. FrameOK(b) /\ b.do = "complete"
  BY <1>2, FrameFacts DEF Special
<1>6. Quiet(x)
  BY <1>2, <1>4, <1>5, QuietTwo DEF TopOnly
<1>7. Quiet(x \o y)
  BY <1>2, <1>6, QuietLists, QuietSessionLost
<1> QED BY <1>1, <1>3, <1>7, KeptThen

LEMMA QuietHandling ==
    ASSUME NEW s, NEW x, Handlings(x, s)
    PROVE  Quiet(x)
<1>1. CASE x = <<>>
  BY <1>1, QuietNone
<1>2. ASSUME NEW msg, x = <<Frame("heard", KeepAlive, msg)>> PROVE Quiet(x)
  <2>1. PICK a : a = Frame("heard", KeepAlive, msg)
    OBVIOUS
  <2>2. FrameOK(a) /\ a.do = "heard" /\ x = <<a>>
    BY <1>2, <2>1, KeepAliveFrames, FrameFacts
  <2> QED BY <2>2, QuietOne
<1>3. ASSUME NEW do \in {"connected", "refused"}, x = <<Frame(do, 0, NoArg), Frame("complete", s, "Complete")>> PROVE Quiet(x)
  <2>1. PICK a, b : a = Frame(do, 0, NoArg) /\ b = Frame("complete", s, "Complete")
    OBVIOUS
  <2>2. FrameOK(a) /\ a.do = do
    BY <2>1, FrameFacts DEF Special
  <2>3. FrameOK(b) /\ b.do = "complete"
    BY <2>1, FrameFacts DEF Special
  <2>4. x = <<a, b>> /\ a.do # "callback" /\ a.do # "wait" /\ b.do # "wait" /\ b.do \notin TopOnly
    BY <1>3, <2>1, <2>2, <2>3 DEF TopOnly
  <2> QED BY <2>2, <2>3, <2>4, QuietTwo
<1>4. ASSUME NEW arg, NEW y, y = <<Frame("complete", s, arg)>> PROVE Quiet(y)
  <2>1. PICK a : a = Frame("complete", s, arg)
    OBVIOUS
  <2>2. FrameOK(a) /\ a.do = "complete" /\ y = <<a>>
    BY <1>4, <2>1, FrameFacts DEF Special
  <2> QED BY <2>2, QuietOne
<1>5. CASE x = <<Frame("complete", s, "ProtocolError")>> \o SessionLost("ProtocolError", "BrokerDisconnected")
  <2>1. PICK y, z : y = <<Frame("complete", s, "ProtocolError")>> /\ z = SessionLost("ProtocolError", "BrokerDisconnected")
    OBVIOUS
  <2>2. Quiet(y) /\ Quiet(z) /\ \A f \in FramesOf(z) : f.do \notin TopOnly
    BY <1>4, <2>1, QuietSessionLost
  <2> QED BY <1>5, <2>1, <2>2, QuietLists
<1> QED BY <1>1, <1>2, <1>3, <1>4, <1>5 DEF Handlings

LEMMA KeptDispatch == ASSUME Base, Told, Dispatch PROVE Kept
<1>1. stack # <<>> /\ Top.do = "dispatch" /\ FrameOK(Top)
  BY TopFacts DEF Dispatch
<1>2. At("dispatch") /\ UNCHANGED <<ops, op, timers, outcome>>
  BY DEF Dispatch
<1>3. PICK g, y : g = [Top EXCEPT !.idx = @ + 1] /\ y = <<g>>
  OBVIOUS
<1>4. FrameOK(g) /\ g.do = "dispatch"
  BY <1>1, <1>3, NextIndex DEF Special
<1>5. CASE client.disconnecting \/ Top.idx > Top.end
  <2>1. Then(<<>>)
    BY <1>5 DEF Dispatch
  <2> QED BY <1>2, <2>1, QuietNone, KeptThen
<1>6. CASE ~(client.disconnecting \/ Top.idx > Top.end)
  <2>1. PICK s, x : s = ops[Top.idx] /\ x = (IF s = 0 THEN <<>> ELSE Handling(s, Top.op, Top.arg))
    OBVIOUS
  <2>2. Then(x \o y)
    BY <1>3, <1>6, <2>1 DEF Dispatch
  <2>3. Quiet(x)
    BY <2>1, HandlingCases, QuietHandling, QuietNone
  <2>4. Quiet(y) /\ \A f \in FramesOf(y) : f.do \notin TopOnly
    <3>1. Quiet(y)
      BY <1>3, <1>4, QuietOne
    <3>2. FramesOf(y) = {g}
      BY <1>3, <1>4, ListOfOne
    <3> QED BY <1>4, <3>1, <3>2 DEF TopOnly
  <2>5. Quiet(x \o y)
    BY <2>3, <2>4, QuietLists
  <2> QED BY <1>2, <2>2, <2>5, KeptThen
<1> QED BY <1>5, <1>6

LEMMA HeardTable ==
    ASSUME TableOK, KeepAlive \in Live, op' = op, ops' = ops, NEW msg,
           timers' = TimerWait(IF msg = "PINGRESP" THEN TimerCancel(timers, KeepAlive, "resp") ELSE timers,
                               KeepAlive, "recv", 0)
    PROVE  /\ TableOK' /\ Live' = Live /\ <<KeepAlive, "recv">> \in Active(timers')
           /\ \A k \in Active(timers) : k[1] # KeepAlive => k \in Active(timers')
<1>1. PICK ts : ts = IF msg = "PINGRESP" THEN TimerCancel(timers, KeepAlive, "resp") ELSE timers
  OBVIOUS
<1>2. <<KeepAlive, "resp">> \in Keys(timers) /\ <<KeepAlive, "recv">> \in Keys(timers) /\ TimersOK(timers)
  BY TableFacts DEF KeepAliveNames, TableOK
<1>3. /\ TimersOK(ts) /\ Keys(ts) = Keys(timers)
      /\ Active(ts) = Active(timers) \/ Active(ts) = Active(timers) \ {<<KeepAlive, "resp">>}
  <2>1. CASE msg = "PINGRESP"
    BY <1>1, <1>2, <2>1, CancelFacts
  <2>2. CASE msg # "PINGRESP"
    BY <1>1, <1>2, <2>2
  <2> QED BY <2>1, <2>2
<1>4. /\ TimersOK(timers') /\ Keys(timers') = Keys(timers)
      /\ Active(timers') = Active(ts) \cup {<<KeepAlive, "recv">>}
  <2>1. timers' = TimerWait(ts, KeepAlive, "recv", 0)
    BY <1>1
  <2> QED BY <1>2, <1>3, <2>1, WaitFacts
<1>5. <<KeepAlive, "resp">>[1] = KeepAlive
  OBVIOUS
<1> QED BY <1>3, <1>4, <1>5, TimersTable

LEMMA KeptHeard == ASSUME Base, Told, Heard, Top.op \in Live PROVE Kept
<1>1. stack # <<>> /\ Top.do = "heard" /\ FrameOK(Top)
  BY TopFacts DEF Heard
<1>2. Top.op = KeepAlive
  BY <1>1 DEF FrameOK
<1>3. op' = op /\ ops' = ops /\ outcome' = outcome /\ stack' = <<>> \o Tail(stack)
  BY DEF Heard, Then
<1>4. timers' = TimerWait(IF Top.arg = "PINGRESP" THEN TimerCancel(timers, KeepAlive, "resp") ELSE timers,
                          KeepAlive, "recv", 0)
  BY <1>2 DEF Heard
<1>5. TableOK' /\ Live' = Live
  BY <1>2, <1>3, <1>4, HeardTable DEF Base
<1> QED BY <1>1, <1>3, <1>5, QuietNone, QuietThen DEF Kept

\* A request that is not in the table before and after.
LEMMA GrownTold ==
    ASSUME Base, Told, stack # <<>>, stack' = <<>> \o Tail(stack), Top.do \notin {"callback", "wait"}, outcome' = outcome
    PROVE  /\ GoodList(stack')
           /\ \A t \in Handles : (Calling(t)' <=> Calling(t)) /\ (Waiting(t)' <=> Waiting(t))
<1>1. PICK t, u, x : t = stack /\ u = stack' /\ x = <<>>
  OBVIOUS
<1>2. GoodList(t) /\ t # <<>> /\ u = x \o Tail(t) /\ GoodList(x) /\ FramesOf(x) = {}
  BY <1>1, ListOfNone DEF Base
<1>3. GoodList(u) /\ FramesOf(u) = FramesOf(x) \cup Below(t) /\ FramesOf(t) = {Head(t)} \cup Below(t)
  BY <1>2, PushedOnTail
<1> QED BY <1>1, <1>2, <1>3 DEF Calling, Waiting, Top

LEMMA KeptConnected == ASSUME Base, Told, BrokerConnected PROVE Kept
<1>1. stack # <<>> /\ Top.do = "connected"
  BY TopFacts DEF BrokerConnected
<1>2. op' = op /\ outcome' = outcome /\ stack' = <<>> \o Tail(stack)
  BY DEF BrokerConnected, Then
<1>3. TableOK' /\ \A t \in Handles : t \in Live' <=> t \in Live
  <2>1. CASE KeepAlive \in Live
    BY <1>2, <2>1, SameTable DEF Base, BrokerConnected
  <2>2. CASE KeepAlive \notin Live
    <3>1. TableOK' /\ Live' = Live \cup {KeepAlive}
      BY <1>2, <2>2, ConnectedTable DEF Base, BrokerConnected
    <3> QED BY <3>1, Numbers
  <2> QED BY <2>1, <2>2
<1>4. GoodList(stack') /\ \A t \in Handles : (Calling(t)' <=> Calling(t)) /\ (Waiting(t)' <=> Waiting(t))
  BY <1>1, <1>2, GrownTold
<1>5. ASSUME NEW t \in Handles PROVE ToldOf(t)'
  BY <1>2, <1>3, <1>4, SameTold DEF Told
<1> QED BY <1>3, <1>4, <1>5 DEF Kept, Told

\* A new operation has nothing to tell.
LEMMA CreatedTold ==
    ASSUME Base, Told, NEW type \in Prepares, Create(type), outcome' = outcome,
           \A t \in Handles : (Calling(t)' <=> Calling(t)) /\ (Waiting(t)' <=> Waiting(t))
    PROVE  TableOK' /\ Told'
<1>1. PICK s \in Handles :
         /\ s \notin Live /\ op[s].stage = "new"
         /\ op' = [op EXCEPT ![s] = [type |-> type, stage |-> "prepared"]]
         /\ Live' = Live \cup {s} /\ TableOK'
  BY CreateTable DEF Base
<1>2. \A t \in Handles : t # s => op'[t] = op[t]
  BY <1>1, Numbers DEF Base, TableOK
<1>3. op'[s].stage = "prepared"
  BY <1>1, Numbers DEF Base, TableOK
<1>4. ASSUME NEW t \in Handles, t # s PROVE ToldOf(t)'
  BY <1>1, <1>2, <1>4, SameTold DEF Told
<1>5. ToldOf(s)'
  <2>1. ToldOf(s) /\ outcome[s] = Untold /\ ~IsRequest(s)
    BY <1>1 DEF Told, ToldOf, IsRequest
  <2>2. outcome'[s].returned = "none" /\ outcome'[s].calls = 0 /\ ~outcome'[s].cancelled
    BY <2>1 DEF Untold
  <2>3. ~Calling(s) /\ ~Waiting(s)
    BY <2>1 DEF ToldOf
  <2>4. ~IsRequest(s)'
    BY <1>3 DEF IsRequest
  <2> QED BY <1>3, <2>2, <2>3, <2>4 DEF ToldOf
<1> QED BY <1>1, <1>4, <1>5 DEF Told

LEMMA KeptCreate == ASSUME Base, Told, CreateConnect PROVE Kept
<1>1. stack # <<>> /\ Top.do = "create"
  BY TopFacts DEF CreateConnect
<1>2. outcome' = outcome /\ stack' = <<>> \o Tail(stack)
  BY DEF CreateConnect, Then
<1>3. CASE Create("connect")
  <2>1. GoodList(stack') /\ \A t \in Handles : (Calling(t)' <=> Calling(t)) /\ (Waiting(t)' <=> Waiting(t))
    BY <1>1, <1>2, GrownTold
  <2>2. "connect" \in Prepares
    BY DEF Prepares, Requests
  <2> QED BY <1>2, <1>3, <2>1, <2>2, CreatedTold DEF Kept
<1>4. CASE UNCHANGED <<ops, op, timers>>
  <2>1. At("create") /\ Then(<<>>)
    BY DEF CreateConnect
  <2> QED BY <1>2, <1>4, <2>1, QuietNone, KeptThen
<1> QED BY <1>3, <1>4 DEF CreateConnect

LEMMA KeptStep == ASSUME Base, Told, Step PROVE Kept
<1>1. CASE Undefined
  <2>1. UNCHANGED <<ops, op, timers, stack, outcome>>
    BY <1>1 DEF Undefined
  <2>2. TableOK' /\ Live' = Live
    BY <2>1, SameTable DEF Base
  <2>3. ASSUME NEW s \in Handles PROVE ToldOf(s)'
    <3>1. (Calling(s)' <=> Calling(s)) /\ (Waiting(s)' <=> Waiting(s))
      BY <2>1 DEF Calling, Waiting
    <3> QED BY <2>1, <2>2, <3>1, SameTold DEF Told
  <2> QED BY <2>1, <2>2, <2>3 DEF Kept, Told, Base
<1>2. CASE Enter \/ Exit \/ Callback \/ Lost \/ TerminateOps \/ ConnectivityChanged \/ Report \/ NetworkDown
  BY <1>2, KeptEnter, KeptExit, KeptCallback, KeptLost, KeptTerminate, KeptConnectivity, KeptReport, KeptNetworkDown
<1>3. CASE Output \/ MessageSent \/ InitInternal \/ Initialized \/ CreateConnect \/ Freed \/ Deliver \/ Dispatch
           \/ BrokerConnected \/ Refused \/ AppReturn
  BY <1>3, KeptOutput, KeptMessageSent, KeptInit, KeptPops, KeptCreate, KeptDeliver, KeptDispatch, KeptConnected
<1>4. CASE ~Undefined /\ (CompleteOpInternal \/ Expired \/ Wait \/ Disconnect \/ Heard)
  <2>1. Top.op \in Live
    BY <1>4 DEF CompleteOpInternal, Expired, Wait, Disconnect, Heard
  <2> QED BY <1>4, <2>1, KeptComplete, KeptExpired, KeptWait, KeptDisconnect, KeptHeard
<1> QED BY <1>1, <1>2, <1>3, <1>4 DEF Step

\* The calls of the application.
LEMMA CallFacts ==
    ASSUME CanCall
    PROVE  fate = "running" /\ (stack # <<>> => Top.do = "app")
  BY DEF CanCall, Idle, At, Top

LEMMA KeptCalls ==
    ASSUME Base, Told, CanCall, NEW x, x # <<>>, Quiet(x), Call(x),
           ops' = ops, op' = op, outcome' = outcome, TimersOK(timers'), Keys(timers') = Keys(timers)
    PROVE  Kept
<1>1. /\ GoodList(stack')
      /\ \A s \in Handles : (Calling(s)' <=> Calling(s)) /\ (Waiting(s)' <=> Waiting(s))
  BY CallFacts, QuietCall DEF Call
<1>2. TableOK' /\ Live' = Live
  BY TimersTable DEF Base
<1>3. ASSUME NEW s \in Handles PROVE ToldOf(s)'
  BY <1>1, <1>2, SameTold DEF Told
<1> QED BY <1>1, <1>2, <1>3 DEF Kept, Told

LEMMA TimersUnchanged ==
    ASSUME Base, timers' = timers PROVE TimersOK(timers') /\ Keys(timers') = Keys(timers)
  BY DEF Base, TableOK

\* Three frames within a guard.
LEMMA QuietGuarded ==
    ASSUME NEW f, FrameOK(f), f.do \notin TopOnly, f.do # "wait", NEW x,
           x = <<Frame("enter", 0, NoArg), f, Frame("exit", 0, NoArg)>>
    PROVE  Quiet(x) /\ x # <<>>
<1>1. PICK a, b : a = Frame("enter", 0, NoArg) /\ b = Frame("exit", 0, NoArg)
  OBVIOUS
<1>2. FrameOK(a) /\ a.do = "enter"
  BY <1>1, FrameFacts DEF Special
<1>3. FrameOK(b) /\ b.do = "exit"
  BY <1>1, FrameFacts DEF Special
<1>4. x = <<a, f, b>> /\ a.do # "callback" /\ a.do # "wait" /\ b.do \notin TopOnly /\ b.do # "wait"
  BY <1>1, <1>2, <1>3 DEF TopOnly
<1> QED BY <1>2, <1>3, <1>4, QuietThree

LEMMA KeptConnectPrepare == ASSUME Base, Told, ConnectPrepare PROVE Kept
<1>1. CanCall /\ UNCHANGED <<ops, op, timers, outcome>>
  BY DEF ConnectPrepare
<1>2. PICK a, b, c, d, x, y : /\ a = Frame("enter", 0, NoArg) /\ b = Frame("init", 0, NoArg)
                              /\ c = Frame("exit", 0, NoArg) /\ d = Frame("create", 0, NoArg)
                              /\ x = <<a, b, c, d>> /\ y = <<d>>
  OBVIOUS
<1>3. Call(y) \/ Call(x) \/ stack' = stack
  BY <1>2 DEF ConnectPrepare
<1>4. FrameOK(a) /\ FrameOK(b) /\ FrameOK(c) /\ FrameOK(d) /\ a.do = "enter" /\ b.do = "init" /\ c.do = "exit" /\ d.do = "create"
  <2>1. FrameOK(a) /\ a.do = "enter"
    BY <1>2, FrameFacts DEF Special
  <2>2. FrameOK(b) /\ b.do = "init"
    BY <1>2, FrameFacts DEF Special
  <2>3. FrameOK(c) /\ c.do = "exit"
    BY <1>2, FrameFacts DEF Special
  <2>4. FrameOK(d) /\ d.do = "create"
    BY <1>2, FrameFacts DEF Special
  <2> QED BY <2>1, <2>2, <2>3, <2>4
<1>5. Quiet(y) /\ y # <<>>
  BY <1>2, <1>4, QuietOne
<1>6. Quiet(x) /\ x # <<>>
  <2>1. GoodList(x) /\ FramesOf(x) = {a, b, c, d} /\ x # <<>>
    BY <1>2, <1>4, ListOfFour DEF TopOnly
  <2> QED BY <1>4, <2>1 DEF Quiet
<1>7. TimersOK(timers') /\ Keys(timers') = Keys(timers)
  BY <1>1, TimersUnchanged
<1>8. CASE stack' = stack
  <2>1. TableOK' /\ Live' = Live
    BY <1>1, SameTable DEF Base
  <2>2. ASSUME NEW s \in Handles PROVE ToldOf(s)'
    <3>1. (Calling(s)' <=> Calling(s)) /\ (Waiting(s)' <=> Waiting(s))
      BY <1>8 DEF Calling, Waiting
    <3> QED BY <1>1, <2>1, <3>1, SameTold DEF Told
  <2> QED BY <1>8, <2>1, <2>2 DEF Kept, Told, Base
<1> QED BY <1>1, <1>3, <1>5, <1>6, <1>7, <1>8, KeptCalls

LEMMA KeptPrepares == ASSUME Base, Told, DisconnectPrepare \/ SubscribePrepare \/ UnsubscribePrepare PROVE Kept
<1>1. PICK type \in Prepares : Create(type)
  <2>1. \E type \in {"disconnect", "subscribe", "unsubscribe"} : Create(type)
    BY DEF DisconnectPrepare, SubscribePrepare, UnsubscribePrepare
  <2> QED BY <2>1 DEF Prepares, Requests
<1>2. stack' = stack /\ outcome' = outcome
  BY DEF DisconnectPrepare, SubscribePrepare, UnsubscribePrepare
<1>3. \A t \in Handles : (Calling(t)' <=> Calling(t)) /\ (Waiting(t)' <=> Waiting(t))
  BY <1>2 DEF Calling, Waiting
<1> QED BY <1>1, <1>2, <1>3, CreatedTold DEF Kept, Base

LEMMA KeptSendFails == ASSUME Base, Told, NEW s \in Prepared, SendFails(s) PROVE Kept
<1>1. s \in Handles /\ s \in Live /\ op[s].stage = "prepared"
  BY TableFacts DEF Base, Prepared
<1>2. Destroy(s) /\ op' = op /\ stack' = stack /\ outcome' = [outcome EXCEPT ![s].returned = "Error"]
  BY DEF SendFails
<1>3. TableOK' /\ Live' = Live \ {s}
  BY <1>1, <1>2, DestroyTable DEF Base
<1>4. \A t \in Handles : (Calling(t)' <=> Calling(t)) /\ (Waiting(t)' <=> Waiting(t))
  BY <1>2 DEF Calling, Waiting
<1>5. \A t \in Handles : t # s => outcome'[t] = outcome[t]
  BY <1>1, <1>2 DEF Base, ValuesOK, OutcomeType
<1>6. ASSUME NEW t \in Handles, t # s PROVE ToldOf(t)'
  BY <1>2, <1>3, <1>4, <1>5, <1>6, OthersTold
<1>7. ToldOf(s)'
  <2>1. ToldOf(s) /\ ~IsRequest(s)
    BY <1>1 DEF Told, IsRequest
  <2>2. /\ outcome'[s].calls = outcome[s].calls /\ outcome'[s].returned = "Error"
        /\ outcome'[s].cancelled = outcome[s].cancelled
    BY <1>1, <1>2 DEF Base, ValuesOK, OutcomeType
  <2>3. outcome[s].calls = 0 /\ ~Calling(s)' /\ ~Waiting(s)'
    BY <1>1, <1>4, <2>1 DEF ToldOf
  <2>4. op'[s] = op[s] /\ ~IsRequest(s)'
    BY <1>2, <2>1 DEF IsRequest
  <2> QED BY <1>1, <1>3, <2>2, <2>3, <2>4 DEF ToldOf
<1>8. Told'
  BY <1>6, <1>7 DEF Told
<1> QED BY <1>2, <1>3, <1>8 DEF Kept, Base

\* What becomes of the operation that is sent, and of the others.
LEMMA SentTold ==
    ASSUME Base, Told, NEW s \in Prepared, op' = [op EXCEPT ![s].stage = "sent"], Live' = Live, outcome' = outcome,
           \A t \in Handles : Calling(t)' <=> Calling(t),
           \A t \in Handles : t # s => (Waiting(t)' <=> Waiting(t)),
           Waiting(s)' <=> op[s].type \in Requests
    PROVE  Told'
<1>1. s \in Handles /\ s \in Live /\ op[s].stage = "prepared" /\ s \in Operations
  BY TableFacts, Numbers DEF Base, Prepared
<1>2. \A t \in Handles : t # s => op'[t] = op[t]
  BY <1>1, Numbers DEF Base, TableOK
<1>3. op'[s].stage = "sent" /\ op'[s].type = op[s].type
  BY <1>1 DEF Base, TableOK, OpType
<1>4. ASSUME NEW t \in Handles, t # s PROVE ToldOf(t)'
  BY <1>2, <1>4, SameTold DEF Told
<1>5. ToldOf(s)'
  <2>1. ToldOf(s) /\ outcome'[s] = outcome[s]
    BY <1>1 DEF Told
  <2>2. ~Calling(s)' /\ outcome[s].calls = 0 /\ ~outcome[s].cancelled /\ outcome[s].returned # "Error" /\ outcome[s].returned # "Success"
    BY <1>1, <2>1 DEF ToldOf
  <2>3. IsRequest(s)' <=> Waiting(s)'
    BY <1>3 DEF IsRequest
  <2> QED BY <1>1, <1>3, <2>1, <2>2, <2>3 DEF ToldOf
<1> QED BY <1>4, <1>5 DEF Told

LEMMA KeptSendSucceeds ==
    ASSUME Base, Told, CanCall, NEW s \in Prepared, op[s].type \in Requests, SendSucceeds(s) PROVE Kept
<1>1. s \in Handles /\ s # KeepAlive
  BY TableFacts, Numbers DEF Base
<1>2. PICK a, b, c, d, x : /\ a = Frame("output", s, NoArg) /\ b = Frame("enter", 0, NoArg)
                           /\ c = Frame("wait", s, "response") /\ d = Frame("exit", 0, NoArg)
                           /\ x = <<a, b, c, d>>
  OBVIOUS
<1>3. FrameOK(a) /\ FrameOK(b) /\ FrameOK(c) /\ FrameOK(d) /\ a.do = "output" /\ b.do = "enter" /\ c.do = "wait" /\ c.op = s
      /\ d.do = "exit"
  <2>1. FrameOK(a) /\ a.do = "output"
    BY <1>1, <1>2, FrameFacts, SpecialFrames
  <2>2. FrameOK(b) /\ b.do = "enter"
    BY <1>2, FrameFacts DEF Special
  <2>3. FrameOK(c) /\ c.do = "wait" /\ c.op = s
    BY <1>1, <1>2, FrameFacts, SpecialFrames
  <2>4. FrameOK(d) /\ d.do = "exit"
    BY <1>2, FrameFacts DEF Special
  <2> QED BY <2>1, <2>2, <2>3, <2>4
<1>4. GoodList(x) /\ FramesOf(x) = {a, b, c, d} /\ x # <<>>
  BY <1>2, <1>3, ListOfFour DEF TopOnly
<1>5. GoodList(stack') /\ FramesOf(stack') = {a, b, c, d} \cup FramesOf(stack)
  <2>1. PICK t, u : t = stack /\ u = stack'
    OBVIOUS
  <2>2. GoodList(t) /\ u = x \o t /\ (t # <<>> => Head(t).do \notin TopOnly)
    BY <1>2, <2>1, CallFacts DEF Base, Top, TopOnly, SendSucceeds, Call
  <2> QED BY <1>4, <2>1, <2>2, PushedOnAll
<1>6. op' = [op EXCEPT ![s].stage = "sent"] /\ ops' = ops /\ timers' = timers /\ outcome' = outcome
  BY DEF SendSucceeds
<1>7. TableOK' /\ Live' = Live
  BY <1>6, SentTable DEF Base
<1>8. \A t \in Handles : Calling(t)' <=> Calling(t)
  BY <1>3, <1>5 DEF Calling
<1>9. \A t \in Handles : t # s => (Waiting(t)' <=> Waiting(t))
  BY <1>3, <1>5 DEF Waiting
<1>10. Waiting(s)'
  BY <1>3, <1>5 DEF Waiting
<1>11. Told'
  BY <1>6, <1>7, <1>8, <1>9, <1>10, SentTold
<1> QED BY <1>5, <1>7, <1>11 DEF Kept

LEMMA KeptDisconnectSend == ASSUME Base, Told, DisconnectSend PROVE Kept
<1>1. PICK s \in Prepared :
         /\ op[s].type = "disconnect" /\ op' = [op EXCEPT ![s].stage = "sent"]
         /\ Call(<<Frame("enter", 0, NoArg), Frame("disconnect", s, NoArg), Frame("exit", 0, NoArg)>>)
  BY DEF DisconnectSend
<1>2. CanCall /\ ops' = ops /\ timers' = timers /\ outcome' = outcome
  BY DEF DisconnectSend
<1>3. s \in Handles /\ s # KeepAlive /\ op[s].stage = "prepared"
  BY TableFacts, Numbers DEF Base, Prepared
<1>4. PICK f, x : f = Frame("disconnect", s, NoArg) /\ x = <<Frame("enter", 0, NoArg), f, Frame("exit", 0, NoArg)>>
  OBVIOUS
<1>5. FrameOK(f) /\ f.do = "disconnect"
  BY <1>3, <1>4, SpecialFrames, FrameFacts
<1>6. f.do \notin TopOnly /\ f.do # "wait"
  BY <1>5 DEF TopOnly
<1>7. Quiet(x) /\ x # <<>>
  BY <1>4, <1>5, <1>6, QuietGuarded
<1>8. /\ GoodList(stack')
      /\ \A t \in Handles : (Calling(t)' <=> Calling(t)) /\ (Waiting(t)' <=> Waiting(t))
  BY <1>1, <1>2, <1>4, <1>7, CallFacts, QuietCall DEF Call
<1>9. TableOK' /\ Live' = Live
  BY <1>1, <1>2, SentTable DEF Base
<1>10. op[s].type \notin Requests /\ ~Waiting(s)
  <2>1. op[s].type \notin Requests
    BY <1>1 DEF Requests
  <2> QED BY <1>3, <2>1 DEF Told, ToldOf, IsRequest
<1>11. Told'
  BY <1>1, <1>2, <1>3, <1>8, <1>9, <1>10, SentTold
<1> QED BY <1>8, <1>9, <1>11 DEF Kept

LEMMA KeptCancel == ASSUME Base, Told, Cancel PROVE Kept
<1>1. PICK s \in Live \ {KeepAlive} :
         /\ op[s].stage = "prepared" \/ outcome[s].returned = "Success"
         /\ Destroy(s) /\ outcome' = [outcome EXCEPT ![s].cancelled = TRUE]
  BY DEF Cancel
<1>2. op' = op /\ stack' = stack
  BY DEF Cancel
<1>3. s \in Handles
  BY TableFacts, Numbers DEF Base
<1>4. TableOK' /\ Live' = Live \ {s}
  BY <1>1, <1>2, DestroyTable DEF Base
<1>5. \A t \in Handles : (Calling(t)' <=> Calling(t)) /\ (Waiting(t)' <=> Waiting(t))
  BY <1>2 DEF Calling, Waiting
<1>6. \A t \in Handles : t # s => outcome'[t] = outcome[t]
  BY <1>1, <1>3 DEF Base, ValuesOK, OutcomeType
<1>7. ASSUME NEW t \in Handles, t # s PROVE ToldOf(t)'
  BY <1>2, <1>4, <1>5, <1>6, <1>7, OthersTold
<1>8. ToldOf(s)'
  <2>1. ToldOf(s) /\ op'[s] = op[s] /\ s \in Live /\ s \notin Live'
    BY <1>1, <1>2, <1>3, <1>4 DEF Told
  <2>2. /\ outcome'[s].calls = outcome[s].calls /\ outcome'[s].returned = outcome[s].returned
        /\ outcome'[s].cancelled = TRUE
    BY <1>1, <1>3 DEF Base, ValuesOK, OutcomeType
  <2>3. outcome[s].calls = 0 /\ ~Calling(s) /\ outcome[s].returned # "Error" /\ op[s].stage # "new"
    <3>1. op[s].stage # "new"
      BY <1>3, <2>1, LivePrimed DEF Base, TableOK, HandleOK
    <3> QED BY <2>1, <3>1 DEF ToldOf
  <2>4. IsRequest(s)' <=> IsRequest(s)
    BY <2>1 DEF IsRequest
  <2> QED BY <1>3, <1>5, <2>1, <2>2, <2>3, <2>4 DEF ToldOf
<1>9. Told'
  BY <1>7, <1>8 DEF Told
<1> QED BY <1>2, <1>4, <1>9 DEF Kept, Base

LEMMA KeptNotify == ASSUME Base, Told, NotifyNetworkDisconnected PROVE Kept
<1>1. CanCall /\ UNCHANGED <<ops, op, timers, outcome>> /\ Call(NetworkLost)
  BY DEF NotifyNetworkDisconnected
<1>2. Quiet(NetworkLost) /\ NetworkLost # <<>>
  BY QuietNetworkLost
<1> QED BY <1>1, <1>2, TimersUnchanged, KeptCalls

LEMMA KeptFree == ASSUME Base, Told, FreeClient PROVE Kept
<1>1. PICK n, a, b, x : /\ n = Len(ops) /\ a = Loop("terminate", 0, "Aborted", 1, n)
                        /\ b = Frame("freed", 0, NoArg) /\ x = <<a, b>>
  OBVIOUS
<1>2. n \in Nat
  BY <1>1, TableBasics DEF Base, TableOK
<1>3. FrameOK(a) /\ a.do = "terminate"
  BY <1>1, <1>2, LoopIs DEF Special
<1>4. FrameOK(b) /\ b.do = "freed"
  BY <1>1, FrameFacts DEF Special
<1>5. Quiet(x) /\ x # <<>>
  BY <1>1, <1>3, <1>4, QuietTwo DEF TopOnly
<1>6. Call(x) /\ CanCall /\ UNCHANGED <<ops, op, timers, outcome>>
  BY <1>1 DEF FreeClient
<1> QED BY <1>5, <1>6, TimersUnchanged, KeptCalls

LEMMA KeptTick == ASSUME Base, Told, NEW E \in SUBSET Running(timers), Tick(E) PROVE Kept
<1>1. CanCall /\ op' = op /\ ops' = ops /\ outcome' = outcome /\ timers' = StopAll(E)
      /\ Call(Collected(E) \o <<Frame("exit", 0, NoArg)>>)
  BY DEF Tick
<1>2. PICK x, b, y, u : x = Collected(E) /\ b = Frame("exit", 0, NoArg) /\ y = <<b>> /\ u = StopAll(E)
  OBVIOUS
<1>3. /\ GoodList(x) /\ \A f \in FramesOf(x) : f.do = "expired"
      /\ TimersOK(u) /\ Keys(u) = Keys(timers)
  BY <1>2, CollectedFacts DEF Base
<1>4. FrameOK(b) /\ b.do = "exit"
  BY <1>2, FrameFacts DEF Special
<1>5. Quiet(y) /\ y # <<>> /\ \A f \in FramesOf(y) : f.do \notin TopOnly
  <2>1. Quiet(y) /\ y # <<>>
    BY <1>2, <1>4, QuietOne
  <2>2. FramesOf(y) = {b}
    BY <1>2, <1>4, ListOfOne
  <2> QED BY <1>4, <2>1, <2>2 DEF TopOnly
<1>6. Quiet(x)
  BY <1>3 DEF Quiet
<1>7. PICK z : z = x \o y
  OBVIOUS
<1>8. Quiet(z) /\ z # <<>>
  BY <1>5, <1>6, <1>7, QuietLists
<1>9. Call(z) /\ TimersOK(timers') /\ Keys(timers') = Keys(timers)
  BY <1>1, <1>2, <1>3, <1>7
<1> QED BY <1>1, <1>8, <1>9, KeptCalls

LEMMA KeptProcessData == ASSUME Base, Told, ProcessData PROVE Kept
<1>1. CanCall /\ UNCHANGED <<ops, op, timers, outcome>>
  BY DEF ProcessData
<1>2. PICK s, msg : Call(<<Frame("enter", 0, NoArg), Frame("deliver", s, msg), Frame("exit", 0, NoArg)>>)
  BY DEF ProcessData
<1>3. PICK f, x : f = Frame("deliver", s, msg) /\ x = <<Frame("enter", 0, NoArg), f, Frame("exit", 0, NoArg)>>
  OBVIOUS
<1>4. FrameOK(f) /\ f.do = "deliver"
  BY <1>3, FrameFacts DEF Special
<1>5. Quiet(x) /\ x # <<>>
  BY <1>3, <1>4, QuietGuarded DEF TopOnly
<1>6. Call(x)
  BY <1>2, <1>3
<1> QED BY <1>1, <1>5, <1>6, TimersUnchanged, KeptCalls

LEMMA KeptCall == ASSUME Base, Told, Next, ~Step PROVE Kept
<1>1. ASSUME NEW s \in Prepared, CanCall, op[s].type \in Requests, SendFails(s) \/ SendSucceeds(s) PROVE Kept
  BY <1>1, KeptSendFails, KeptSendSucceeds
<1>2. CASE ConnectSend \/ SubscribeSend \/ UnsubscribeSend
  <2>1. PICK s \in Prepared : CanCall /\ op[s].type \in Requests /\ (SendFails(s) \/ SendSucceeds(s))
    BY <1>2 DEF ConnectSend, SubscribeSend, UnsubscribeSend, Requests
  <2> QED BY <1>1, <2>1
<1>3. CASE ConnectPrepare \/ DisconnectPrepare \/ SubscribePrepare \/ UnsubscribePrepare \/ DisconnectSend \/ Cancel
  BY <1>3, KeptConnectPrepare, KeptPrepares, KeptDisconnectSend, KeptCancel
<1>4. CASE NotifyNetworkDisconnected \/ FreeClient \/ ProcessData
  BY <1>4, KeptNotify, KeptFree, KeptProcessData
<1>5. CASE \E E \in SUBSET Running(timers) : Tick(E)
  BY <1>5, KeptTick
<1> QED BY <1>2, <1>3, <1>4, <1>5 DEF Next

LEMMA InitTold ==
    ASSUME Init PROVE Told
<1>1. ASSUME NEW s \in Handles PROVE ToldOf(s)
  <2>1. outcome[s] = Untold /\ op[s] = NewOp /\ Live = {} /\ stack = <<>>
    BY Numbers DEF Init, Live
  <2>2. outcome[s].calls = 0 /\ outcome[s].returned = "none" /\ ~outcome[s].cancelled /\ op[s].stage = "new"
    BY <2>1 DEF Untold, NewOp
  <2>3. ~Calling(s) /\ ~Waiting(s) /\ ~IsRequest(s)
    BY <2>1, <2>2, ListOfNone DEF Calling, Waiting, IsRequest
  <2> QED BY <2>1, <2>2, <2>3 DEF ToldOf
<1> QED BY <1>1 DEF Told

LEMMA BaseKept ==
    ASSUME Base, Told, [Next]_vars PROVE Base' /\ Told'
<1>1. CASE Next
  BY <1>1, KeptStep, KeptCall, StepValues, CallValues DEF Kept, Base
<1>2. CASE UNCHANGED vars
  <2>1. UNCHANGED <<ops, op, client, depth, timers, stack, wire, outcome, fate>>
    BY <1>2 DEF vars
  <2>2. TableOK' /\ Live' = Live
    BY <2>1, SameTable DEF Base
  <2>3. ASSUME NEW s \in Handles PROVE ToldOf(s)'
    <3>1. (Calling(s)' <=> Calling(s)) /\ (Waiting(s)' <=> Waiting(s))
      BY <2>1 DEF Calling, Waiting
    <3> QED BY <2>1, <2>2, <3>1, SameTold DEF Told
  <2> QED BY <2>1, <2>2, <2>3 DEF Base, Told, ValuesOK
<1> QED BY <1>1, <1>2

\* The inductive invariant of the table: operations, timers and frames belong
\* together, and every request is accounted for (opComplete, completeOpInternal).
THEOREM BaseInvariant == Spec => [](Base /\ Told)
<1>1. Init => Base /\ Told
  BY InitBase, InitTold
<1>2. (Base /\ Told) /\ [Next]_vars => (Base /\ Told)'
  BY BaseKept
<1> QED BY <1>1, <1>2, PTL DEF Spec

LEMMA ToldEnough == ASSUME Base, Told PROVE CallbackIffSent
<1>1. ASSUME NEW s \in Handles
      PROVE  /\ outcome[s].calls = 1 => outcome[s].returned # "Error" /\ ~outcome[s].cancelled
             /\ outcome[s].calls <= 1
             /\ Idle /\ op[s].type \in Requests =>
                   (outcome[s].calls = 1 <=>
                       outcome[s].returned = "Success" /\ ~outcome[s].cancelled /\ s \notin Live)
  <2>1. ToldOf(s)
    BY DEF Told
  <2>2. (outcome[s].calls = 1 => outcome[s].returned # "Error" /\ ~outcome[s].cancelled) /\ outcome[s].calls <= 1
    BY <2>1 DEF ToldOf
  <2>3. ASSUME Idle, op[s].type \in Requests
        PROVE  outcome[s].calls = 1 <=> outcome[s].returned = "Success" /\ ~outcome[s].cancelled /\ s \notin Live
    <3>1. ~Calling(s) /\ ~Waiting(s)
      BY <2>3, ListOfNone DEF Idle, Calling, Waiting
    <3>2. outcome[s].calls = 1 => s \notin Live /\ IsRequest(s) /\ ~outcome[s].cancelled
      BY <2>1, <2>3 DEF ToldOf, IsRequest
    <3>3. IsRequest(s) => outcome[s].returned = "Success"
      BY <2>1, <3>1 DEF ToldOf
    <3>4. outcome[s].returned = "Success" => IsRequest(s)
      BY <2>1 DEF ToldOf
    <3>5. IsRequest(s) /\ s \notin Live /\ ~outcome[s].cancelled => outcome[s].calls = 1
      BY <2>1, <3>1 DEF ToldOf
    <3> QED BY <3>2, <3>3, <3>4, <3>5
  <2> QED BY <2>2, <2>3
<1> QED BY <1>1 DEF CallbackIffSent

\* Whatever the application does in its callbacks and in whatever order, the
\* callback of a request is called if and only if the request was sent, once,
\* unless it is cancelled (completeOpInternal, cancel and the send functions).
THEOREM ToldOnce == Spec => []CallbackIffSent
<1>1. Base /\ Told => CallbackIffSent
  BY ToldEnough
<1> QED BY <1>1, BaseInvariant, PTL

-----------------------------------------------------------------------------
\* The preparation lock.

\* connectPrepare returns to the application.
CreateLast(t) == \A i \in 1..Len(t) : t[i].do = "create" => i = Len(t) \/ t[i + 1].do = "app"

\* An operation is prepared while the application is in control, which sends
\* or cancels it before it gives the control away.
LockHeld ==
    /\ \/ Prepared = {} /\ ~client.locked
       \/ \E s \in Handles : Prepared = {s} /\ client.locked /\ (stack # <<>> => Top.do = "app")
    /\ CreateLast(stack)

NoCreate(x) == IsStack(x) /\ \A f \in FramesOf(x) : f.do # "create"

LEMMA CreateTail ==
    ASSUME NEW t, IsStack(t), t # <<>>, CreateLast(t), NEW r, r = Tail(t)
    PROVE  CreateLast(r) /\ (Head(t).do = "create" => r = <<>> \/ (r # <<>> /\ Head(r).do = "app"))
<1>1. IsStack(r) /\ Len(r) = Len(t) - 1 /\ \A i \in 1..Len(r) : r[i] = t[i + 1]
  BY TailStack
<1>2. Len(t) \in Nat /\ Head(t) = t[1] /\ 1 \in 1..Len(t) /\ Len(r) \in Nat
  BY <1>1, StackBasics
<1>3. ASSUME NEW i \in 1..Len(r), r[i].do = "create" PROVE i = Len(r) \/ r[i + 1].do = "app"
  <2>1. i + 1 \in 1..Len(t) /\ t[i + 1].do = "create"
    BY <1>1, <1>2, <1>3
  <2>2. i + 1 = Len(t) \/ t[(i + 1) + 1].do = "app"
    BY <2>1 DEF CreateLast
  <2>3. CASE i = Len(r)
    BY <2>3
  <2>4. CASE i # Len(r)
    <3>0. PICK m, n : m = Len(r) /\ n = Len(t)
      OBVIOUS
    <3>1. i + 1 \in 1..Len(r) /\ i + 1 # Len(t)
      <4>1. m \in Nat /\ n \in Nat /\ m = n - 1 /\ i \in 1..m /\ i # m
        BY <1>1, <1>2, <2>4, <3>0
      <4>2. i + 1 \in 1..m /\ i + 1 # n
        BY <4>1
      <4> QED BY <3>0, <4>2
    <3>2. r[i + 1] = t[(i + 1) + 1]
      BY <1>1, <3>1
    <3> QED BY <2>2, <3>1, <3>2
  <2> QED BY <2>3, <2>4
<1>4. ASSUME Head(t).do = "create", r # <<>> PROVE Head(r).do = "app"
  <2>1. Head(r) = r[1] /\ 1 \in 1..Len(r)
    BY <1>1, <1>4, StackBasics
  <2>2. 1 # Len(t) /\ r[1] = t[1 + 1]
    BY <1>1, <1>2, <2>1
  <2> QED BY <1>2, <1>4, <2>1, <2>2 DEF CreateLast
<1> QED BY <1>3, <1>4 DEF CreateLast

LEMMA CreatePushed ==
    ASSUME NEW r, IsStack(r), CreateLast(r), NEW x, IsStack(x),
           \A i \in 1..Len(x) : x[i].do = "create" => i = Len(x) /\ (r # <<>> => Head(r).do = "app"),
           NEW u, u = x \o r
    PROVE  CreateLast(u)
<1>1. PICK m, n : m = Len(x) /\ n = Len(r)
  OBVIOUS
<1>2. m \in Nat /\ n \in Nat /\ Len(u) = m + n /\ (r # <<>> => Head(r) = r[1]) /\ (n > 0 => r # <<>>)
  <2>1. m \in Nat /\ n \in Nat /\ (r # <<>> => Head(r) = r[1])
    BY <1>1, StackBasics
  <2>2. Len(u) = m + n
    BY <1>1, JoinStack
  <2>3. n > 0 => r # <<>>
    BY <1>1, NoFrame
  <2> QED BY <2>1, <2>2, <2>3
<1>3. (\A i \in 1..m : u[i] = x[i]) /\ \A i \in 1..n : u[m + i] = r[i]
  BY <1>1, JoinStack
<1>4. ASSUME NEW k \in 1..(m + n), u[k].do = "create" PROVE k = m + n \/ u[k + 1].do = "app"
  <2>1. CASE k <= m
    <3>1. k \in 1..m
      BY <1>2, <2>1
    <3>2. k = m /\ (r # <<>> => Head(r).do = "app")
      BY <1>1, <1>3, <1>4, <3>1
    <3>3. CASE n = 0
      BY <1>2, <3>2, <3>3
    <3>4. CASE n # 0
      <4>1. n > 0 /\ 1 \in 1..n
        BY <1>2, <3>4
      <4>2. u[m + 1] = r[1] /\ r[1].do = "app"
        BY <1>2, <1>3, <3>2, <4>1
      <4> QED BY <3>2, <4>2
    <3> QED BY <3>3, <3>4
  <2>2. CASE ~(k <= m)
    <3>1. PICK i : i = k - m
      OBVIOUS
    <3>2. i \in 1..n /\ k = m + i
      BY <1>2, <2>2, <3>1
    <3>3. r[i].do = "create"
      BY <1>3, <1>4, <3>2
    <3>4. i = n \/ r[i + 1].do = "app"
      BY <1>1, <3>2, <3>3 DEF CreateLast
    <3>5. i # n => i + 1 \in 1..n /\ m + (i + 1) = k + 1
      BY <1>2, <3>2
    <3> QED BY <1>2, <1>3, <3>2, <3>4, <3>5
  <2> QED BY <2>1, <2>2
<1> QED BY <1>2, <1>4 DEF CreateLast

LEMMA CreateKept ==
    ASSUME NEW r, IsStack(r), CreateLast(r), NEW x, NoCreate(x), NEW u, u = x \o r
    PROVE  CreateLast(u)
<1>1. IsStack(x) /\ \A i \in 1..Len(x) : x[i].do # "create"
  BY StackBasics DEF NoCreate
<1> QED BY <1>1, CreatePushed
LEMMA NoCreateLists ==
    /\ NoCreate(<<>>)
    /\ \A a : a.do # "create" => NoCreate(<<a>>)
    /\ \A a, b : a.do # "create" /\ b.do # "create" => NoCreate(<<a, b>>)
    /\ \A x, y : NoCreate(x) /\ NoCreate(y) => NoCreate(x \o y)
<1>1. NoCreate(<<>>)
  BY NoFrame DEF NoCreate
<1>2. ASSUME NEW a, a.do # "create" PROVE NoCreate(<<a>>)
  BY <1>2, OneFrame DEF NoCreate
<1>3. ASSUME NEW a, NEW b, a.do # "create", b.do # "create" PROVE NoCreate(<<a, b>>)
  BY <1>3, TwoFrames DEF NoCreate
<1>4. ASSUME NEW x, NEW y, NoCreate(x), NoCreate(y) PROVE NoCreate(x \o y)
  <2>1. PICK u : u = x \o y
    OBVIOUS
  <2>2. IsStack(u) /\ FramesOf(u) = FramesOf(x) \cup FramesOf(y)
    <3>1. IsStack(x) /\ IsStack(y)
      BY <1>4 DEF NoCreate
    <3>2. IsStack(u)
      BY <2>1, <3>1, JoinStack, Zenon
    <3>3. FramesOf(u) = FramesOf(x) \cup FramesOf(y)
      BY <2>1, <3>1, JoinStack, Zenon
    <3> QED BY <3>2, <3>3
  <2>3. NoCreate(u)
    BY <1>4, <2>2 DEF NoCreate
  <2> QED BY <2>1, <2>3
<1> QED BY <1>1, <1>2, <1>3, <1>4

LEMMA NoCreateFrames ==
    /\ \A do, s, arg : do # "create" => Frame(do, s, arg).do # "create"
    /\ \A do, s, arg, i, e : do # "create" => Loop(do, s, arg, i, e).do # "create"
    /\ \A reason, status : NoCreate(SessionLost(reason, status))
    /\ NoCreate(NetworkLost)
<1>1. \A do, s, arg : do # "create" => Frame(do, s, arg).do # "create"
  BY DEF Frame
<1>2. \A do, s, arg, i, e : do # "create" => Loop(do, s, arg, i, e).do # "create"
  BY DEF Loop
<1>3. ASSUME NEW reason, NEW status PROVE NoCreate(SessionLost(reason, status))
  <2>1. PICK x : x = SessionLost(reason, status)
    OBVIOUS
  <2>2. GoodList(x) /\ \A f \in FramesOf(x) : f.do # "create"
    BY <2>1, SessionLostFacts
  <2> QED BY <2>1, <2>2 DEF NoCreate, GoodList
<1>4. NoCreate(NetworkLost)
  <2>1. PICK x : x = NetworkLost
    OBVIOUS
  <2>2. GoodList(x) /\ \A f \in FramesOf(x) : f.do # "create"
    BY <2>1, NetworkLostFacts
  <2> QED BY <2>1, <2>2 DEF NoCreate, GoodList
<1> QED BY <1>1, <1>2, <1>3, <1>4

\* A step executes the first frame, and may put others in its place.
Steps == stack # <<>> /\ \E x : NoCreate(x) /\ stack' = x \o Tail(stack)

LEMMA PopSteps ==
    ASSUME Step, Exit \/ Wait \/ MessageSent \/ Initialized \/ CreateConnect \/ Freed \/ Heard \/ BrokerConnected
                     \/ Refused \/ AppReturn, ~Undefined
    PROVE  Steps
<1>1. stack # <<>> /\ Then(<<>>)
  BY DEF At, Exit, Wait, MessageSent, Initialized, CreateConnect, Freed, Heard, BrokerConnected, Refused, AppReturn
<1> QED BY <1>1, NoCreateLists DEF Steps, Then

LEMMA OneSteps ==
    ASSUME CompleteOpInternal \/ Callback \/ ConnectivityChanged \/ Report \/ Lost, ~Undefined PROVE Steps
<1>1. /\ stack # <<>>
      /\ \/ Then(<<>>)
         \/ \E do, s, arg : do # "create" /\ Then(<<Frame(do, s, arg)>>)
         \/ \E arg, e : Then(<<Loop("terminate", 0, arg, 1, e)>>)
  <2>1. CASE CompleteOpInternal
    BY <2>1 DEF CompleteOpInternal, At
  <2>2. CASE Callback
    BY <2>2 DEF Callback, At
  <2>3. CASE ConnectivityChanged
    BY <2>3 DEF ConnectivityChanged, At
  <2>4. CASE Report
    BY <2>4 DEF Report, At
  <2>5. CASE Lost
    BY <2>5 DEF Lost, At
  <2> QED BY <2>1, <2>2, <2>3, <2>4, <2>5
<1>2. \A do, s, arg : do # "create" => NoCreate(<<Frame(do, s, arg)>>)
  BY NoCreateLists, NoCreateFrames
<1>3. \A arg, e : NoCreate(<<Loop("terminate", 0, arg, 1, e)>>)
  <2>1. \A arg, e : Loop("terminate", 0, arg, 1, e).do # "create"
    BY NoCreateFrames
  <2> QED BY <2>1, NoCreateLists
<1> QED BY <1>1, <1>2, <1>3, NoCreateLists DEF Steps, Then
LEMMA ListSteps ==
    ASSUME Base, Enter \/ Expired \/ NetworkDown \/ Output \/ InitInternal \/ Disconnect \/ Deliver, ~Undefined PROVE Steps
<1>1. CASE Enter
  <2>1. PICK E \in SUBSET Running(timers) : Then(Collected(E))
    BY <1>1 DEF Enter
  <2>2. PICK x : x = Collected(E)
    OBVIOUS
  <2>3. GoodList(x) /\ \A f \in FramesOf(x) : f.do = "expired"
    BY <2>2, CollectedFacts DEF Base
  <2>4. NoCreate(x)
    BY <2>3 DEF NoCreate, GoodList
  <2> QED BY <1>1, <2>1, <2>2, <2>4 DEF Steps, Then, Enter, At
<1>2. CASE Expired
  <2>1. stack # <<>> /\ \E x : Then(x) /\ (\/ x = <<>>
                                          \/ \E a : x = <<Frame("complete", a, "Timeout")>>
                                          \/ x = SessionLost("NoBrokerResponse", "BrokerDisconnected")
                                          \/ x = <<Frame("output", 0, NoArg), Frame("wait", KeepAlive, "resp")>>)
    <3>1. stack # <<>> /\ Top.op \in Live
      BY <1>2 DEF Expired, At
    <3>2. \/ Then(<<>>) \/ Then(<<Frame("complete", Top.op, "Timeout")>>)
          \/ Then(SessionLost("NoBrokerResponse", "BrokerDisconnected"))
          \/ Then(<<Frame("output", 0, NoArg), Frame("wait", KeepAlive, "resp")>>)
      BY <1>2, <3>1 DEF Expired
    <3> QED BY <3>1, <3>2
  <2>2. PICK x : /\ Then(x)
                 /\ \/ x = <<>> \/ \E a : x = <<Frame("complete", a, "Timeout")>>
                    \/ x = SessionLost("NoBrokerResponse", "BrokerDisconnected")
                    \/ x = <<Frame("output", 0, NoArg), Frame("wait", KeepAlive, "resp")>>
    BY <2>1
  <2>3. NoCreate(x)
    BY <2>2, NoCreateLists, NoCreateFrames
  <2> QED BY <2>1, <2>2, <2>3 DEF Steps, Then
<1>3. CASE NetworkDown
  <2>1. stack # <<>> /\ (Then(<<>>) \/ Then(SessionLost(NoArg, "BrokerDisconnected")))
    BY <1>3 DEF NetworkDown, At
  <2> QED BY <2>1, NoCreateLists, NoCreateFrames DEF Steps, Then
<1>4. CASE Output
  <2>1. stack # <<>> /\ (Then(<<>> \o <<Frame("sent", 0, NoArg)>>) \/ Then(NetworkLost \o <<Frame("sent", 0, NoArg)>>))
    BY <1>4 DEF Output, At
  <2>2. NoCreate(<<Frame("sent", 0, NoArg)>>)
    BY NoCreateLists, NoCreateFrames
  <2>3. NoCreate(<<>> \o <<Frame("sent", 0, NoArg)>>) /\ NoCreate(NetworkLost \o <<Frame("sent", 0, NoArg)>>)
    BY <2>2, NoCreateLists, NoCreateFrames
  <2> QED BY <2>1, <2>3 DEF Steps, Then
<1>5. CASE InitInternal
  <2>1. PICK a, b : a = Loop("terminate", 0, "Aborted", 1, Len(ops)) /\ b = Frame("initialized", 0, NoArg)
    OBVIOUS
  <2>2. stack # <<>> /\ Then(<<a, b>>)
    BY <1>5, <2>1 DEF InitInternal, At
  <2>3. NoCreate(<<a, b>>)
    BY <2>1, NoCreateLists, NoCreateFrames
  <2> QED BY <2>2, <2>3 DEF Steps, Then
<1>6. CASE Disconnect
  <2>1. PICK a, b, y : a = Frame("output", 0, NoArg) /\ b = Frame("complete", Top.op, NoArg) /\ y = SessionLost(NoArg, "BrokerDisconnected")
    OBVIOUS
  <2>2. stack # <<>> /\ Then(<<a, b>> \o y)
    BY <1>6, <2>1 DEF Disconnect, At
  <2>3. NoCreate(<<a, b>>) /\ NoCreate(y)
    BY <2>1, NoCreateLists, NoCreateFrames
  <2> QED BY <2>2, <2>3, NoCreateLists DEF Steps, Then
<1>7. CASE Deliver
  <2>1. PICK a : a = Loop("dispatch", Top.op, Top.arg, 1, Len(ops))
    OBVIOUS
  <2>2. stack # <<>> /\ (Then(<<>>) \/ Then(SessionLost("ProtocolError", "ProtocolError")) \/ Then(<<a>>))
    BY <1>7, <2>1 DEF Deliver, At
  <2>3. NoCreate(<<a>>)
    BY <2>1, NoCreateLists, NoCreateFrames
  <2> QED BY <2>2, <2>3, NoCreateLists, NoCreateFrames DEF Steps, Then
<1> QED BY <1>1, <1>2, <1>3, <1>4, <1>5, <1>6, <1>7

LEMMA LoopSteps ==
    ASSUME Base, TerminateOps \/ Dispatch PROVE Steps
<1>1. stack # <<>> /\ Top.do \in {"terminate", "dispatch"} /\ FrameOK(Top)
  BY TopFacts DEF TerminateOps, Dispatch
<1>2. PICK b : b = [Top EXCEPT !.idx = @ + 1]
  OBVIOUS
<1>3. b.do = Top.do
  BY <1>1, <1>2, NextIndex DEF Special
<1>4. NoCreate(<<b>>)
  BY <1>1, <1>3, NoCreateLists
<1>5. \E x : NoCreate(x) /\ (Then(<<>>) \/ Then(x \o <<b>>))
  <2>1. CASE TerminateOps
    <3>1. Then(<<>>) \/ Then(<<>> \o <<b>>) \/ Then(<<Frame("complete", ops[Top.idx], Top.arg)>> \o <<b>>)
      BY <1>2, <2>1 DEF TerminateOps
    <3>2. NoCreate(<<Frame("complete", ops[Top.idx], Top.arg)>>) /\ NoCreate(<<>>)
      BY NoCreateLists, NoCreateFrames
    <3> QED BY <3>1, <3>2
  <2>2. CASE Dispatch
    <3>1. PICK x : x = Handling(ops[Top.idx], Top.op, Top.arg)
      OBVIOUS
    <3>2. Then(<<>>) \/ Then(<<>> \o <<b>>) \/ Then(x \o <<b>>)
      BY <1>2, <2>2, <3>1 DEF Dispatch
    <3>3. Handlings(x, ops[Top.idx])
      BY <3>1, HandlingCases
    <3>4. NoCreate(x) /\ NoCreate(<<>>)
      <4>1. PICK s : s = ops[Top.idx]
        OBVIOUS
      <4>2. \A do, n, arg : do # "create" => NoCreate(<<Frame(do, n, arg)>>)
        BY NoCreateLists, NoCreateFrames
      <4>3. \A do \in {"connected", "refused"} : NoCreate(<<Frame(do, 0, NoArg), Frame("complete", s, "Complete")>>)
        BY NoCreateLists, NoCreateFrames
      <4>4. NoCreate(<<Frame("complete", s, "ProtocolError")>> \o SessionLost("ProtocolError", "BrokerDisconnected"))
        BY <4>2, NoCreateLists, NoCreateFrames
      <4> QED BY <3>3, <4>1, <4>2, <4>3, <4>4, NoCreateLists DEF Handlings
    <3> QED BY <3>2, <3>4
  <2> QED BY <2>1, <2>2
<1> QED BY <1>1, <1>4, <1>5, NoCreateLists DEF Steps, Then

LEMMA StepSteps == ASSUME Base, Step, ~Undefined PROVE Steps
BY PopSteps, OneSteps, ListSteps, LoopSteps DEF Step

\* The first frame goes, others may come.
LEMMA StepCreate ==
    ASSUME Base, CreateLast(stack), Steps
    PROVE  /\ CreateLast(stack')
           /\ Top.do = "create" /\ stack' = Tail(stack) /\ stack' # <<>> => Head(stack').do = "app"
<1>1. PICK t, r, x, u : t = stack /\ r = Tail(t) /\ NoCreate(x) /\ u = stack' /\ u = x \o r
  BY DEF Steps
<1>2. IsStack(t) /\ t # <<>>
  BY <1>1 DEF Steps, Base, GoodList
<1>3. CreateLast(r) /\ (Head(t).do = "create" => r = <<>> \/ (r # <<>> /\ Head(r).do = "app")) /\ IsStack(r)
  BY <1>1, <1>2, CreateTail, TailStack
<1>4. CreateLast(u)
  BY <1>1, <1>3, CreateKept
<1> QED BY <1>1, <1>3, <1>4 DEF Top
\* While the library is in control nothing is prepared.
LEMMA NotPrepared ==
    ASSUME LockHeld, stack # <<>>, Top.do # "app" PROVE Prepared = {} /\ ~client.locked
BY DEF LockHeld

LEMMA StillNotPrepared ==
    ASSUME Base, Prepared = {}, ~client.locked, op' = op, Live' \subseteq Live \cup {KeepAlive},
           client'.locked = client.locked
    PROVE  Prepared' = {} /\ ~client'.locked
<1>1. op[KeepAlive].stage = "sent"
  BY DEF Base, TableOK
<1> QED BY <1>1 DEF Prepared

LEMMA CreatedLock ==
    ASSUME Base, Prepared = {}, NEW type \in Prepares, Create(type)
    PROVE  \E s \in Handles : Prepared' = {s} /\ client'.locked
<1>1. PICK s \in Handles : /\ s \notin Live /\ op' = [op EXCEPT ![s] = [type |-> type, stage |-> "prepared"]]
                           /\ Live' = Live \cup {s}
  BY CreateTable DEF Base
<1>2. op'[s].stage = "prepared" /\ \A t \in Operations : t # s => op'[t] = op[t]
  BY <1>1, Numbers DEF Base, TableOK
<1>3. Live \subseteq Operations
  BY TableFacts DEF Base
<1>4. Prepared' = {s}
  BY <1>1, <1>2, <1>3 DEF Prepared
<1>5. client'.locked
  BY DEF Create, Base, ValuesOK, ClientType
<1> QED BY <1>4, <1>5

LEMMA LockStep == ASSUME Base, LockHeld, Prompt, Step PROVE LockHeld'
<1>1. CASE Undefined
  BY <1>1 DEF Undefined, LockHeld, Prepared, Live, Top
<1>2. CASE ~Undefined
  <2>1. Steps /\ CreateLast(stack') /\ stack # <<>>
    BY <1>2, StepSteps, StepCreate DEF LockHeld, Steps
  <2>2. CASE AppReturn
    <3>1. Prepared = {} /\ UNCHANGED <<ops, op, client, timers>>
      BY <2>2 DEF AppReturn, MayAct
    <3>2. ~client.locked
      BY <3>1 DEF LockHeld
    <3>3. Prepared' = {}
      BY <3>1 DEF Prepared, Live
    <3> QED BY <2>1, <3>1, <3>2, <3>3 DEF LockHeld
  <2>3. CASE CreateConnect
    <3>1. Top.do = "create" /\ stack' = Tail(stack)
      <4>1. stack' = <<>> \o Tail(stack) /\ Top.do = "create"
        BY <2>3 DEF CreateConnect, At, Top, Then
      <4>2. PICK t, r : t = stack /\ r = Tail(t)
        OBVIOUS
      <4>3. IsStack(r)
        BY <2>1, <4>2, TailStack DEF Base, GoodList
      <4>4. <<>> \o r = r
        BY <4>3, NoFrame, JoinStack
      <4> QED BY <4>1, <4>2, <4>4
    <3>2. Prepared = {} /\ ~client.locked
      BY <2>1, <3>1, NotPrepared
    <3>3. stack' # <<>> => Top'.do = "app"
      BY <2>1, <3>1, StepCreate DEF Top, LockHeld
    <3>4. CASE Create("connect")
      <4>1. "connect" \in Prepares
        BY DEF Prepares, Requests
      <4> QED BY <2>1, <3>2, <3>3, <3>4, <4>1, CreatedLock DEF LockHeld
    <3>5. CASE UNCHANGED <<ops, op, client, timers>>
      <4>1. Prepared' = Prepared
        BY <3>5 DEF Prepared, Live
      <4> QED BY <2>1, <3>2, <3>5, <4>1 DEF LockHeld
    <3> QED BY <2>3, <3>4, <3>5 DEF CreateConnect
  <2>4. CASE ~AppReturn /\ ~CreateConnect
    <3>1. Top.do # "app" /\ op' = op /\ client'.locked = client.locked
      <4>1. Top.do # "app" /\ op' = op
        BY <1>2, <2>4 DEF Step, At, Top, Enter, Exit, CompleteOpInternal, Callback, Expired, Wait, Lost, TerminateOps,
             ConnectivityChanged, Report, NetworkDown, Output, MessageSent, InitInternal, Initialized, Disconnect, Freed,
             Deliver, Dispatch, Heard, BrokerConnected, Refused
      <4>2. client'.locked = client.locked
        BY <1>2, <2>4 DEF Step, Base, ValuesOK, ClientType, Enter, Exit, CompleteOpInternal, Callback, Expired, Wait, Lost, TerminateOps,
             ConnectivityChanged, Report, NetworkDown, Output, MessageSent, InitInternal, Initialized, Disconnect, Freed,
             Deliver, Dispatch, Heard, BrokerConnected, Refused
      <4> QED BY <4>1, <4>2
    <3>2. Live' \subseteq Live \cup {KeepAlive}
      <4>1. CASE CompleteOpInternal
        <5>1. Top.op \in Live /\ Destroy(Top.op)
          BY <1>2, <4>1 DEF CompleteOpInternal
        <5> QED BY <3>1, <5>1, DestroyTable DEF Base
      <4>2. CASE Exit
        <5>1. timers' = timers /\ (ops' = ops \/ ops' = CleanedOps)
          BY <4>2 DEF Exit
        <5> QED BY <3>1, <5>1, CleanTable, LivePrimed DEF Base
      <4>3. CASE BrokerConnected
        <5>1. CASE KeepAlive \in Live
          BY <4>3, <5>1, LivePrimed DEF BrokerConnected
        <5>2. CASE KeepAlive \notin Live
          BY <3>1, <4>3, <5>2, ConnectedTable DEF BrokerConnected, Base
        <5> QED BY <5>1, <5>2
      <4>4. CASE ~CompleteOpInternal /\ ~Exit /\ ~BrokerConnected
        <5>1. ops' = ops
          BY <1>2, <2>4, <4>4 DEF Step, Enter, Callback, Expired, Wait, Lost, TerminateOps,
             ConnectivityChanged, Report, NetworkDown, Output, MessageSent, InitInternal, Initialized, Disconnect, Freed,
             Deliver, Dispatch, Heard, Refused
        <5> QED BY <5>1, LivePrimed
      <4> QED BY <4>1, <4>2, <4>3, <4>4
    <3>3. Prepared = {} /\ ~client.locked
      BY <2>1, <3>1, NotPrepared
    <3>4. Prepared' = {} /\ ~client'.locked
      BY <3>1, <3>2, <3>3, StillNotPrepared
    <3> QED BY <2>1, <3>4 DEF LockHeld
  <2> QED BY <2>2, <2>3, <2>4
<1> QED BY <1>1, <1>2
LEMMA CallCreate ==
    ASSUME Base, CreateLast(stack), NEW x, NoCreate(x), Call(x) PROVE CreateLast(stack')
<1>1. PICK t, u : t = stack /\ u = stack'
  OBVIOUS
<1>2. IsStack(t) /\ CreateLast(t) /\ u = x \o t
  BY <1>1 DEF Base, GoodList, Call
<1>3. CreateLast(u)
  BY <1>2, CreateKept
<1> QED BY <1>1, <1>3

\* Calls of an application that has prepared nothing.
LEMMA FreeCall ==
    ASSUME Base, LockHeld, Prompt, MayAct, op' = op, ops' = ops, client'.locked = client.locked, CreateLast(stack')
    PROVE  LockHeld'
<1>1. Prepared = {} /\ ~client.locked
  BY DEF LockHeld, MayAct
<1>2. Prepared' = {}
  BY <1>1 DEF Prepared, Live
<1> QED BY <1>1, <1>2 DEF LockHeld

LEMMA LockConnectPrepare == ASSUME Base, LockHeld, Prompt, ConnectPrepare PROVE LockHeld'
<1>1. CanCall /\ MayAct /\ op' = op /\ ops' = ops /\ client'.locked = client.locked
  BY DEF ConnectPrepare, Base, ValuesOK, ClientType
<1>2. PICK a, b, c, d, x, y : /\ a = Frame("enter", 0, NoArg) /\ b = Frame("init", 0, NoArg)
                              /\ c = Frame("exit", 0, NoArg) /\ d = Frame("create", 0, NoArg)
                              /\ x = <<a, b, c, d>> /\ y = <<d>>
  OBVIOUS
<1>3. Call(y) \/ Call(x) \/ stack' = stack
  BY <1>2 DEF ConnectPrepare
<1>4. a.do # "create" /\ b.do # "create" /\ c.do # "create"
  BY <1>2, NoCreateFrames
<1>5. IsStack(x) /\ \A i \in 1..Len(x) : x[i].do = "create" => i = Len(x)
  <2>1. IsStack(x) /\ Len(x) = 4 /\ x[1] = a /\ x[2] = b /\ x[3] = c
    BY <1>2, FourFrames
  <2>2. \A i \in 1..4 : i = 1 \/ i = 2 \/ i = 3 \/ i = 4
    OBVIOUS
  <2> QED BY <1>4, <2>1, <2>2
<1>6. IsStack(y) /\ \A i \in 1..Len(y) : i = Len(y)
  <2>1. IsStack(y) /\ Len(y) = 1
    BY <1>2, OneFrame
  <2> QED BY <2>1
<1>7. PICK t, u : t = stack /\ u = stack'
  OBVIOUS
<1>8. IsStack(t) /\ CreateLast(t) /\ (t # <<>> => Head(t).do = "app") /\ (u = x \o t \/ u = y \o t \/ u = t)
  BY <1>1, <1>3, <1>7, CallFacts DEF Base, GoodList, Call, LockHeld, Top
<1>9. CreateLast(u)
  <2>1. CASE u = x \o t
    <3>1. \A i \in 1..Len(x) : x[i].do = "create" => i = Len(x) /\ (t # <<>> => Head(t).do = "app")
      BY <1>5, <1>8
    <3> QED BY <1>5, <1>8, <2>1, <3>1, CreatePushed
  <2>2. CASE u = y \o t
    <3>1. \A i \in 1..Len(y) : y[i].do = "create" => i = Len(y) /\ (t # <<>> => Head(t).do = "app")
      BY <1>6, <1>8
    <3> QED BY <1>6, <1>8, <2>2, <3>1, CreatePushed
  <2> QED BY <1>8, <2>1, <2>2
<1>10. CreateLast(stack')
  BY <1>7, <1>9
<1> QED BY <1>1, <1>10, FreeCall

LEMMA LockPrepares == ASSUME Base, LockHeld, Prompt, DisconnectPrepare \/ SubscribePrepare \/ UnsubscribePrepare PROVE LockHeld'
<1>1. PICK type \in Prepares : Create(type)
  <2>1. \E type \in {"disconnect", "subscribe", "unsubscribe"} : Create(type)
    BY DEF DisconnectPrepare, SubscribePrepare, UnsubscribePrepare
  <2> QED BY <2>1 DEF Prepares, Requests
<1>2. CanCall /\ MayAct /\ stack' = stack
  BY DEF DisconnectPrepare, SubscribePrepare, UnsubscribePrepare
<1>3. \E s \in Handles : Prepared' = {s} /\ client'.locked
  BY <1>1, <1>2, CreatedLock DEF MayAct
<1> QED BY <1>2, <1>3, CallFacts DEF LockHeld, Top

LEMMA TheHolder ==
    ASSUME LockHeld, NEW s \in Prepared PROVE Prepared = {s} /\ s \in Live
BY DEF LockHeld, Prepared

LEMMA LockSendFails == ASSUME Base, LockHeld, NEW s \in Prepared, SendFails(s) PROVE LockHeld'
<1>1. Prepared = {s} /\ s \in Live
  BY TheHolder
<1>2. Destroy(s) /\ op' = op /\ stack' = stack /\ ~client'.locked
  BY DEF SendFails, Base, ValuesOK, ClientType
<1>3. Live' = Live \ {s}
  BY <1>1, <1>2, DestroyTable DEF Base
<1>4. Prepared' = {}
  BY <1>1, <1>2, <1>3 DEF Prepared
<1> QED BY <1>2, <1>4 DEF LockHeld

LEMMA SentLock ==
    ASSUME Base, LockHeld, NEW s \in Prepared, op' = [op EXCEPT ![s].stage = "sent"], ops' = ops, timers' = timers,
           client' = [client EXCEPT !.locked = FALSE], CreateLast(stack')
    PROVE  LockHeld'
<1>1. Prepared = {s}
  BY TheHolder
<1>2. Prepared' = Prepared \ {s}
  BY SentTable DEF Base
<1>3. ~client'.locked
  BY DEF Base, ValuesOK, ClientType
<1> QED BY <1>1, <1>2, <1>3 DEF LockHeld

LEMMA NoCreateMore ==
    /\ \A a, b, c : a.do # "create" /\ b.do # "create" /\ c.do # "create" => NoCreate(<<a, b, c>>)
    /\ \A a, b, c, d : a.do # "create" /\ b.do # "create" /\ c.do # "create" /\ d.do # "create" => NoCreate(<<a, b, c, d>>)
<1>1. ASSUME NEW a, NEW b, NEW c, a.do # "create", b.do # "create", c.do # "create" PROVE NoCreate(<<a, b, c>>)
  BY <1>1, ThreeFrames DEF NoCreate
<1>2. ASSUME NEW a, NEW b, NEW c, NEW d, a.do # "create", b.do # "create", c.do # "create", d.do # "create"
      PROVE  NoCreate(<<a, b, c, d>>)
  BY <1>2, FourFrames DEF NoCreate
<1> QED BY <1>1, <1>2

LEMMA LockSends ==
    ASSUME Base, LockHeld, ConnectSend \/ SubscribeSend \/ UnsubscribeSend \/ DisconnectSend PROVE LockHeld'
<1>1. CASE DisconnectSend
  <2>1. PICK s \in Prepared :
         /\ op' = [op EXCEPT ![s].stage = "sent"]
         /\ Call(<<Frame("enter", 0, NoArg), Frame("disconnect", s, NoArg), Frame("exit", 0, NoArg)>>)
    BY <1>1 DEF DisconnectSend
  <2>2. client' = [client EXCEPT !.locked = FALSE] /\ ops' = ops /\ timers' = timers
    BY <1>1 DEF DisconnectSend
  <2>3. CreateLast(stack')
    <3>1. NoCreate(<<Frame("enter", 0, NoArg), Frame("disconnect", s, NoArg), Frame("exit", 0, NoArg)>>)
      BY NoCreateMore, NoCreateFrames
    <3> QED BY <2>1, <3>1, CallCreate DEF LockHeld
  <2> QED BY <2>1, <2>2, <2>3, SentLock
<1>2. CASE ConnectSend \/ SubscribeSend \/ UnsubscribeSend
  <2>1. PICK s \in Prepared : SendFails(s) \/ SendSucceeds(s)
    BY <1>2 DEF ConnectSend, SubscribeSend, UnsubscribeSend
  <2>2. CASE SendSucceeds(s)
    <3>1. CreateLast(stack')
      <4>1. PICK x : x = <<Frame("output", s, NoArg), Frame("enter", 0, NoArg), Frame("wait", s, "response"), Frame("exit", 0, NoArg)>>
        OBVIOUS
      <4>2. NoCreate(x)
        BY <4>1, NoCreateMore, NoCreateFrames
      <4>3. Call(x)
        BY <2>2, <4>1 DEF SendSucceeds
      <4> QED BY <4>2, <4>3, CallCreate DEF LockHeld
    <3> QED BY <2>2, <3>1, SentLock DEF SendSucceeds
  <2> QED BY <2>1, <2>2, LockSendFails
<1> QED BY <1>1, <1>2

LEMMA LockCancel == ASSUME Base, LockHeld, Prompt, Cancel PROVE LockHeld'
<1>1. PICK s \in Live \ {KeepAlive} :
         /\ MayAct \/ s \in Prepared
         /\ Destroy(s)
         /\ client' = [client EXCEPT !.locked = IF Unlocks(s) THEN FALSE ELSE @, !.opsDeleted = TRUE]
  BY DEF Cancel
<1>2. op' = op /\ stack' = stack
  BY DEF Cancel
<1>3. Live' = Live \ {s}
  BY <1>1, <1>2, DestroyTable DEF Base
<1>4. client'.locked = IF Unlocks(s) THEN FALSE ELSE client.locked
  BY <1>1 DEF Base, ValuesOK, ClientType
<1>5. CASE s \in Prepared
  <2>1. Prepared = {s} /\ ~client'.locked
    BY <1>4, <1>5, TheHolder DEF Unlocks, Prepared
  <2>2. Prepared' = {}
    BY <1>2, <1>3, <2>1 DEF Prepared
  <2> QED BY <1>2, <2>1, <2>2 DEF LockHeld
<1>6. CASE s \notin Prepared
  <2>1. Prepared = {} /\ ~client.locked
    BY <1>1, <1>6 DEF LockHeld, MayAct
  <2>2. Prepared' = {} /\ ~client'.locked
    BY <1>2, <1>3, <1>4, <2>1 DEF Prepared
  <2> QED BY <1>2, <2>2 DEF LockHeld
<1> QED BY <1>5, <1>6

LEMMA LockOtherCalls ==
    ASSUME Base, LockHeld, Prompt,
           NotifyNetworkDisconnected \/ FreeClient \/ ProcessData \/ \E E \in SUBSET Running(timers) : Tick(E)
    PROVE  LockHeld'
<1>1. MayAct /\ op' = op /\ ops' = ops /\ client'.locked = client.locked
  BY DEF NotifyNetworkDisconnected, FreeClient, ProcessData, Tick
<1>2. CreateLast(stack')
  <2>1. CASE NotifyNetworkDisconnected
    BY <2>1, CallCreate, NoCreateFrames DEF NotifyNetworkDisconnected, LockHeld
  <2>2. CASE FreeClient
    <3>1. PICK a, b : a = Loop("terminate", 0, "Aborted", 1, Len(ops)) /\ b = Frame("freed", 0, NoArg)
      OBVIOUS
    <3>2. NoCreate(<<a, b>>)
      BY <3>1, NoCreateLists, NoCreateFrames
    <3> QED BY <2>2, <3>1, <3>2, CallCreate DEF FreeClient, LockHeld
  <2>3. CASE ProcessData
    <3>1. PICK s, msg : Call(<<Frame("enter", 0, NoArg), Frame("deliver", s, msg), Frame("exit", 0, NoArg)>>)
      BY <2>3 DEF ProcessData
    <3>2. NoCreate(<<Frame("enter", 0, NoArg), Frame("deliver", s, msg), Frame("exit", 0, NoArg)>>)
      BY NoCreateMore, NoCreateFrames
    <3> QED BY <3>1, <3>2, CallCreate DEF LockHeld
  <2>4. ASSUME NEW E \in SUBSET Running(timers), Tick(E) PROVE CreateLast(stack')
    <3>1. PICK x, y : x = Collected(E) /\ y = <<Frame("exit", 0, NoArg)>>
      OBVIOUS
    <3>2. GoodList(x) /\ \A f \in FramesOf(x) : f.do = "expired"
      BY <3>1, CollectedFacts DEF Base
    <3>3. NoCreate(x) /\ NoCreate(y)
      BY <3>1, <3>2, NoCreateLists, NoCreateFrames DEF NoCreate, GoodList
    <3>4. NoCreate(x \o y)
      BY <3>3, NoCreateLists
    <3> QED BY <2>4, <3>1, <3>4, CallCreate DEF Tick, LockHeld
  <2> QED BY <2>1, <2>2, <2>3, <2>4
<1> QED BY <1>1, <1>2, FreeCall

LEMMA InitLock == ASSUME Init PROVE LockHeld
<1>1. Prepared = {} /\ ~client.locked /\ stack = <<>>
  BY DEF Init, Prepared, Live
<1>2. CreateLast(stack)
  BY <1>1, NoFrame DEF CreateLast
<1> QED BY <1>1, <1>2 DEF LockHeld

LEMMA LockNext == ASSUME Base, LockHeld, Prompt, [Next]_vars PROVE LockHeld'
<1>1. CASE Next
  BY <1>1, LockStep, LockConnectPrepare, LockPrepares, LockSends, LockCancel, LockOtherCalls DEF Next
<1>2. CASE UNCHANGED vars
  BY <1>2 DEF vars, LockHeld, Prepared, Live, Top
<1> QED BY <1>1, <1>2

\* An application that sends or cancels what it prepares before it does anything
\* else finds the preparation lock taken exactly while it has to do so, whatever
\* ends the session in the meantime (allowNextPrepare, the error paths of the send
\* functions, cancel).
THEOREM LockAlwaysHasHolder == ASSUME Prompt PROVE Spec => []LockHasHolder
<1>1. Init => LockHeld
  BY InitLock
<1>2. (Base /\ Told) /\ LockHeld /\ [Next]_vars => LockHeld'
  BY LockNext
<1>3. LockHeld => LockHasHolder
  <2>1. ASSUME LockHeld PROVE LockHasHolder
    <3>1. CASE Prepared = {} /\ ~client.locked
      BY <3>1 DEF LockHasHolder
    <3>2. ASSUME NEW s \in Handles, Prepared = {s}, client.locked PROVE LockHasHolder
      <4>1. s \in Live
        BY <3>2 DEF Prepared
      <4> QED BY <3>2, <4>1 DEF LockHasHolder
    <3> QED BY <2>1, <3>1, <3>2 DEF LockHeld
  <2> QED BY <2>1
<1> QED BY <1>1, <1>2, <1>3, BaseInvariant, PTL DEF Spec

-----------------------------------------------------------------------------
\* The depth of guards at which the frames of a stack are executed.

Over(c) == ~c.initialized

\* A session that was given up, and not initialised again since.
Gone(c) == Over(c) /\ c.disconnecting
Delta(f) == IF f.do = "enter" THEN -1 ELSE IF f.do = "exit" THEN 1 ELSE 0

\* Frames that neither complete an operation nor call the application.
Steady == {"output", "sent", "enter", "wait", "exit", "netdown", "disconnect", "deliver"}
Deep == {"exit", "netdown", "lost", "terminate", "callback", "app", "complete", "connectivity", "report"}
Single == {"expired", "deliver", "dispatch", "heard", "connected", "refused"}

\* Below the first guard nothing calls the application; two or three deep
\* only the end of a session does, and then the application may still report
\* the loss of the network, which enters one guard more.
Kind(f, l, c, o) ==
    /\ l \in 0..4 /\ f.do \in Steady \cup Deep \cup Single
    /\ f.do = "enter" => l <= 3
    /\ f.do \in {"output", "sent"} => l <= 2
    /\ f.do \in {"wait", "disconnect"} => l \in 1..2
    /\ f.do \in Single => l = 1
    /\ f.do \in Deep => l >= 1
    /\ l = 4 => f.do = "exit" \/ (f.do = "netdown" /\ Gone(c))
    /\ f.do = "terminate" => Over(c) /\ (l >= 2 => Gone(c))
    /\ f.do \in {"callback", "app"} /\ l >= 2 => Gone(c)
    /\ f.do = "complete" =>
          /\ f.op \in Operations
          /\ l >= 2 => Gone(c) \/ o[f.op].type = "disconnect"
          /\ f.op = KeepAlive => Over(c)
    /\ f.do = "disconnect" => f.op \in Operations /\ o[f.op].type = "disconnect"
    /\ f.do = "report" /\ l >= 2 => f.arg = NoArg

\* The connectivity of operations is looked at when the session has ended.
Led(t, i, c) == t[i].do = "connectivity" => Gone(c) \/ (i > 1 /\ t[i - 1].do = "lost")

Levels(A, t) ==
    /\ A \in [1..(Len(t) + 1) -> Int] /\ A[Len(t) + 1] = 0
    /\ \A i \in 1..Len(t) : A[i] = A[i + 1] + Delta(t[i])

Placed(A, t, c, o) ==
    /\ Levels(A, t)
    /\ \A i \in 1..Len(t) : Kind(t[i], A[i], c, o) /\ Led(t, i, c)
    /\ \A i, k \in 1..Len(t) : i < k /\ A[i] = 0 => t[k].do \in Steady

AtLevel(t, l, c, o) == \E A : Placed(A, t, c, o) /\ A[1] = l

LEMMA NothingPlaced ==
    ASSUME NEW c, NEW o PROVE AtLevel(<<>>, 0, c, o)
<1>1. PICK A, t : A = [i \in 1..1 |-> 0] /\ t = <<>>
  OBVIOUS
<1>2. Len(t) = 0 /\ 1..0 = {} /\ A[1] = 0
  BY <1>1
<1>3. Placed(A, t, c, o)
  BY <1>1, <1>2 DEF Placed, Levels
<1> QED BY <1>1, <1>2, <1>3 DEF AtLevel

LEMMA EmptyLevel ==
    ASSUME NEW l, NEW c, NEW o, AtLevel(<<>>, l, c, o) PROVE l = 0
<1>1. PICK A : Placed(A, <<>>, c, o) /\ A[1] = l
  BY DEF AtLevel
<1>2. Len(<<>>) = 0 /\ 0 + 1 = 1
  OBVIOUS
<1> QED BY <1>1, <1>2 DEF Placed, Levels

\* The frames keep their places when a session ends.
LEMMA PlacesKept ==
    ASSUME NEW t, IsStack(t), NEW l, NEW c, NEW o, NEW d, NEW p, AtLevel(t, l, c, o), Over(c) => Over(d), Gone(c) => Gone(d),
           \A s \in Operations : o[s].type = "disconnect" => p[s].type = "disconnect"
    PROVE  AtLevel(t, l, d, p)
<1>1. PICK A : Placed(A, t, c, o) /\ A[1] = l
  BY DEF AtLevel
<1>2. ASSUME NEW i \in 1..Len(t) PROVE Kind(t[i], A[i], d, p) /\ Led(t, i, d)
  <2>1. Kind(t[i], A[i], c, o) /\ Led(t, i, c) /\ t[i] \in FramesOf(t)
    BY <1>1, StackBasics DEF Placed
  <2>2. Led(t, i, d)
    BY <2>1 DEF Led
  <2>3. PICK f, k : f = t[i] /\ k = A[i]
    OBVIOUS
  <2>4. Kind(f, k, c, o)
    BY <2>1, <2>3
  <2>5. Kind(f, k, d, p)
    BY <2>4 DEF Kind
  <2> QED BY <2>2, <2>3, <2>5
<1>3. Placed(A, t, d, p)
  BY <1>1, <1>2 DEF Placed
<1> QED BY <1>1, <1>3 DEF AtLevel

LEMMA TopPlaced ==
    ASSUME NEW t, IsStack(t), t # <<>>, NEW l, NEW c, NEW o, AtLevel(t, l, c, o)
    PROVE  /\ Kind(Head(t), l, c, o) /\ l \in 0..4 /\ (Head(t).do = "connectivity" => Gone(c))
           /\ l = 0 => \A f \in Below(t) : f.do \in Steady
<1>1. PICK A : Placed(A, t, c, o) /\ A[1] = l
  BY DEF AtLevel
<1>2. Head(t) = t[1] /\ 1 \in 1..Len(t) /\ Len(t) \in Nat /\ DOMAIN t = 1..Len(t)
  BY StackBasics
<1>3. Kind(t[1], l, c, o) /\ Led(t, 1, c)
  BY <1>1, <1>2 DEF Placed
<1>4. ASSUME l = 0, NEW f \in Below(t) PROVE f.do \in Steady
  <2>1. PICK k \in 1..Len(t) : k # 1 /\ f = t[k]
    BY <1>2, <1>4 DEF Below
  <2>2. 1 < k
    BY <2>1
  <2> QED BY <1>1, <1>2, <1>4, <2>1, <2>2 DEF Placed
<1> QED BY <1>2, <1>3, <1>4 DEF Kind, Led

LEMMA TailPlaced ==
    ASSUME NEW t, IsStack(t), t # <<>>, NEW l, NEW c, NEW o, AtLevel(t, l, c, o), Head(t).do = "lost" => Gone(c),
           NEW r, r = Tail(t)
    PROVE  AtLevel(r, l - Delta(Head(t)), c, o)
<1>1. PICK A : Placed(A, t, c, o) /\ A[1] = l
  BY DEF AtLevel
<1>2. Head(t) = t[1] /\ 1 \in 1..Len(t) /\ Len(t) \in Nat
  BY StackBasics
<1>3. PICK m : m = Len(r)
  OBVIOUS
<1>4. m = Len(t) - 1 /\ m \in Nat /\ \A i \in 1..m : r[i] = t[i + 1]
  BY <1>2, <1>3, TailStack
<1>5. PICK B : B = [i \in 1..(m + 1) |-> A[i + 1]]
  OBVIOUS
<1>6. A \in [1..(Len(t) + 1) -> Int] /\ A[Len(t) + 1] = 0 /\ \A i \in 1..Len(t) : A[i] = A[i + 1] + Delta(t[i])
  BY <1>1 DEF Placed, Levels
<1>7. \A i \in 1..(m + 1) : i + 1 \in 1..(Len(t) + 1) /\ B[i] = A[i + 1] /\ B[i] \in Int
  BY <1>4, <1>5, <1>6
<1>8. B \in [1..(m + 1) -> Int] /\ B[m + 1] = 0
  <2>1. (m + 1) + 1 = Len(t) + 1 /\ m + 1 \in 1..(m + 1)
    BY <1>2, <1>4
  <2> QED BY <1>5, <1>6, <1>7, <2>1
<1>9. ASSUME NEW i \in 1..m PROVE B[i] = B[i + 1] + Delta(r[i]) /\ Kind(r[i], B[i], c, o) /\ Led(r, i, c)
  <2>1. i + 1 \in 1..Len(t) /\ i \in 1..(m + 1) /\ i + 1 \in 1..(m + 1) /\ (i + 1) - 1 = i /\ i \in 1..Len(t)
    BY <1>2, <1>4
  <2>2. r[i] = t[i + 1] /\ B[i] = A[i + 1] /\ B[i + 1] = A[(i + 1) + 1]
    BY <1>4, <1>7, <2>1
  <2>3. A[i + 1] = A[(i + 1) + 1] + Delta(t[i + 1]) /\ Kind(t[i + 1], A[i + 1], c, o) /\ Led(t, i + 1, c)
    BY <1>1, <1>6, <2>1 DEF Placed
  <2>4. Led(r, i, c)
    <3>1. CASE i = 1
      <4>1. Gone(c) \/ r[i].do # "connectivity"
        BY <1>2, <2>1, <2>2, <2>3, <3>1 DEF Led
      <4> QED BY <4>1 DEF Led
    <3>2. CASE i # 1
      <4>1. i - 1 \in 1..m /\ (i - 1) + 1 = i /\ i > 1
        BY <1>4, <3>2
      <4>2. r[i - 1] = t[i]
        BY <1>4, <4>1
      <4> QED BY <2>1, <2>2, <2>3, <4>1, <4>2 DEF Led
    <3> QED BY <3>1, <3>2
  <2> QED BY <2>2, <2>3, <2>4
<1>10. ASSUME NEW i \in 1..m, NEW k \in 1..m, i < k, B[i] = 0 PROVE r[k].do \in Steady
  <2>1. i + 1 \in 1..Len(t) /\ k + 1 \in 1..Len(t) /\ i + 1 < k + 1 /\ i \in 1..(m + 1)
    BY <1>2, <1>4, <1>10
  <2>2. A[i + 1] = 0 /\ r[k] = t[k + 1]
    BY <1>4, <1>7, <1>10, <2>1
  <2> QED BY <1>1, <2>1, <2>2 DEF Placed
<1>11. Placed(B, r, c, o)
  BY <1>3, <1>8, <1>9, <1>10 DEF Placed, Levels
<1>12. B[1] = l - Delta(Head(t))
  <2>1. 1 \in 1..(m + 1) /\ 1 + 1 = 2 /\ 2 \in 1..(Len(t) + 1)
    BY <1>2, <1>4
  <2>2. A[1] = A[2] + Delta(t[1]) /\ B[1] = A[2] /\ A[2] \in Int
    BY <1>2, <1>6, <1>7, <2>1
  <2>3. Delta(t[1]) \in Int
    BY DEF Delta
  <2> QED BY <1>1, <1>2, <2>2, <2>3
<1> QED BY <1>11, <1>12 DEF AtLevel

\* A list of frames that leave the depth of guards alone.
FlatList(x, l, c, o) ==
    \A i \in 1..Len(x) : Delta(x[i]) = 0 /\ Kind(x[i], l, c, o) /\ Led(x, i, c)

\* A list x with its own levels C on top of the stack r.
Stacked(x, C, r, l, c, o) ==
    /\ C \in [1..(Len(x) + 1) -> Int] /\ C[Len(x) + 1] = l
    /\ \A i \in 1..Len(x) : C[i] = C[i + 1] + Delta(x[i]) /\ Kind(x[i], C[i], c, o) /\ Led(x, i, c)
    /\ \A i, k \in 1..Len(x) : i < k /\ C[i] = 0 => x[k].do \in Steady
    /\ \A i \in 1..Len(x), f \in FramesOf(r) : C[i] = 0 => f.do \in Steady

LEMMA PushPlaced ==
    ASSUME NEW r, IsStack(r), NEW x, IsStack(x), NEW l, NEW c, NEW o, AtLevel(r, l, c, o),
           NEW C, Stacked(x, C, r, l, c, o), NEW u, u = x \o r
    PROVE  AtLevel(u, C[1], c, o)
<1>1. PICK A : Placed(A, r, c, o) /\ A[1] = l
  BY DEF AtLevel
<1>2. PICK m, n : m = Len(x) /\ n = Len(r)
  OBVIOUS
<1>3. m \in Nat /\ n \in Nat
  BY <1>2, StackBasics
<1>4. /\ Len(u) = m + n /\ \A i \in 1..m : u[i] = x[i]
      /\ \A i \in 1..n : u[m + i] = r[i]
  BY <1>2, JoinStack
<1>5. A \in [1..(n + 1) -> Int] /\ A[n + 1] = 0 /\ \A i \in 1..n : A[i] = A[i + 1] + Delta(r[i])
  BY <1>1, <1>2 DEF Placed, Levels
<1>6. C \in [1..(m + 1) -> Int] /\ C[m + 1] = l
  BY <1>2 DEF Stacked
<1>7. PICK B : B = [i \in 1..((m + n) + 1) |-> IF i <= m THEN C[i] ELSE A[i - m]]
  OBVIOUS
<1>8. \A i \in 1..(m + 1) : B[i] = C[i]
  <2>1. ASSUME NEW i \in 1..(m + 1), i <= m PROVE B[i] = C[i]
    <3>1. i \in 1..((m + n) + 1)
      BY <1>3
    <3> QED BY <1>7, <2>1, <3>1
  <2>2. B[m + 1] = C[m + 1]
    <3>1. m + 1 \in 1..((m + n) + 1) /\ ~(m + 1 <= m) /\ (m + 1) - m = 1
      BY <1>3
    <3> QED BY <1>1, <1>6, <1>7, <3>1
  <2>3. \A i \in 1..(m + 1) : i <= m \/ i = m + 1
    BY <1>3
  <2> QED BY <2>1, <2>2, <2>3
<1>9. \A i \in 1..(n + 1) : B[m + i] = A[i]
  <2>1. \A i \in 1..(n + 1) : m + i \in 1..((m + n) + 1) /\ ~(m + i <= m) /\ (m + i) - m = i
    BY <1>3
  <2> QED BY <1>7, <2>1
<1>10. ASSUME NEW k \in 1..(m + n) PROVE k \in 1..m \/ \E i \in 1..n : k = m + i
  <2>1. CASE k <= m
    BY <1>3, <2>1
  <2>2. CASE ~(k <= m)
    <3>1. k - m \in 1..n /\ k = m + (k - m)
      BY <1>3, <2>2
    <3> QED BY <3>1
  <2> QED BY <2>1, <2>2
<1>11. B \in [1..((m + n) + 1) -> Int]
  <2>1. \A i \in 1..((m + n) + 1) : (IF i <= m THEN C[i] ELSE A[i - m]) \in Int
    <3>1. \A i \in 1..((m + n) + 1) : i <= m => i \in 1..(m + 1)
      BY <1>3
    <3>2. \A i \in 1..((m + n) + 1) : ~(i <= m) => i - m \in 1..(n + 1)
      BY <1>3
    <3> QED BY <1>5, <1>6, <3>1, <3>2
  <2> QED BY <1>7, <2>1
<1>12. B[(m + n) + 1] = 0
  <2>1. m + (n + 1) = (m + n) + 1 /\ n + 1 \in 1..(n + 1)
    BY <1>3
  <2> QED BY <1>5, <1>9, <2>1
<1>13. ASSUME NEW i \in 1..m PROVE B[i] = B[i + 1] + Delta(u[i]) /\ Kind(u[i], B[i], c, o) /\ Led(u, i, c)
  <2>1. i \in 1..(m + 1) /\ i + 1 \in 1..(m + 1)
    BY <1>3
  <2>2. B[i] = C[i] /\ B[i + 1] = C[i + 1] /\ u[i] = x[i]
    BY <1>4, <1>8, <2>1
  <2>3. C[i] = C[i + 1] + Delta(x[i]) /\ Kind(x[i], C[i], c, o) /\ Led(x, i, c)
    BY <1>2 DEF Stacked
  <2>4. i > 1 => i - 1 \in 1..m
    BY <1>3
  <2>5. Led(u, i, c)
    BY <1>4, <2>2, <2>3, <2>4 DEF Led
  <2> QED BY <2>2, <2>3, <2>5
<1>14. ASSUME NEW i \in 1..n
       PROVE  B[m + i] = B[(m + i) + 1] + Delta(u[m + i]) /\ Kind(u[m + i], B[m + i], c, o) /\ Led(u, m + i, c)
  <2>1. i \in 1..(n + 1) /\ i + 1 \in 1..(n + 1) /\ (m + i) + 1 = m + (i + 1)
    BY <1>3
  <2>2. B[m + i] = A[i] /\ B[(m + i) + 1] = A[i + 1] /\ u[m + i] = r[i]
    <3>1. B[m + i] = A[i] /\ B[m + (i + 1)] = A[i + 1]
      BY <1>9, <2>1
    <3> QED BY <1>4, <2>1, <3>1
  <2>3. A[i] = A[i + 1] + Delta(r[i]) /\ Kind(r[i], A[i], c, o) /\ Led(r, i, c)
    BY <1>1, <1>2, <1>5 DEF Placed
  <2>4. i > 1 => i - 1 \in 1..n /\ (m + i) - 1 = m + (i - 1) /\ m + i > 1
    BY <1>3
  <2>5. Led(u, m + i, c)
    BY <1>4, <2>2, <2>3, <2>4 DEF Led
  <2> QED BY <2>2, <2>3, <2>5
<1>15. ASSUME NEW k \in 1..(m + n)
       PROVE  B[k] = B[k + 1] + Delta(u[k]) /\ Kind(u[k], B[k], c, o) /\ Led(u, k, c)
  BY <1>10, <1>13, <1>14
<1>16. ASSUME NEW i \in 1..(m + n), NEW k \in 1..(m + n), i < k, B[i] = 0 PROVE u[k].do \in Steady
  <2>1. CASE i \in 1..m /\ k \in 1..m
    <3>1. C[i] = 0 /\ u[k] = x[k]
      <4>1. i \in 1..(m + 1)
        BY <1>3, <2>1
      <4> QED BY <1>4, <1>8, <1>16, <2>1, <4>1
    <3> QED BY <1>2, <1>16, <2>1, <3>1 DEF Stacked
  <2>2. ASSUME i \in 1..m, NEW j \in 1..n, k = m + j PROVE u[k].do \in Steady
    <3>1. C[i] = 0 /\ u[k] = r[j] /\ r[j] \in FramesOf(r)
      <4>1. i \in 1..(m + 1)
        BY <1>3, <2>2
      <4> QED BY <1>2, <1>4, <1>8, <1>16, <2>2, <4>1, StackBasics
    <3> QED BY <1>2, <2>2, <3>1 DEF Stacked
  <2>3. ASSUME NEW h \in 1..n, i = m + h PROVE u[k].do \in Steady
    <3>1. ~(k \in 1..m)
      BY <1>3, <1>16, <2>3
    <3>2. PICK j \in 1..n : k = m + j
      BY <1>10, <3>1
    <3>3. h < j /\ h \in 1..(n + 1)
      BY <1>3, <1>16, <2>3, <3>2
    <3>4. A[h] = 0 /\ u[k] = r[j]
      BY <1>4, <1>9, <1>16, <2>3, <3>2, <3>3
    <3> QED BY <1>1, <1>2, <3>3, <3>4 DEF Placed
  <2> QED BY <1>10, <2>1, <2>2, <2>3
<1>17. Placed(B, u, c, o)
  BY <1>4, <1>11, <1>12, <1>15, <1>16 DEF Placed, Levels
<1>18. B[1] = C[1]
  <2>1. 1 \in 1..(m + 1)
    BY <1>3
  <2> QED BY <1>8, <2>1
<1> QED BY <1>17, <1>18 DEF AtLevel

LEMMA PushFlat ==
    ASSUME NEW r, IsStack(r), NEW x, IsStack(x), NEW l \in 0..4, NEW c, NEW o, AtLevel(r, l, c, o),
           FlatList(x, l, c, o), l = 0 => \A f \in FramesOf(x) \cup FramesOf(r) : f.do \in Steady, NEW u, u = x \o r
    PROVE  AtLevel(u, l, c, o)
<1>1. Len(x) \in Nat /\ \A i \in 1..Len(x) : x[i] \in FramesOf(x)
  BY StackBasics
<1>2. PICK C : C = [i \in 1..(Len(x) + 1) |-> l]
  OBVIOUS
<1>3. \A i \in 1..(Len(x) + 1) : C[i] = l
  BY <1>2
<1>4. \A i \in 1..Len(x) : i \in 1..(Len(x) + 1) /\ i + 1 \in 1..(Len(x) + 1)
  BY <1>1
<1>5. 1 \in 1..(Len(x) + 1) /\ Len(x) + 1 \in 1..(Len(x) + 1) /\ l \in Int /\ l = l + 0
  BY <1>1
<1>6. Stacked(x, C, r, l, c, o)
  <2>1. C \in [1..(Len(x) + 1) -> Int] /\ C[Len(x) + 1] = l
    BY <1>2, <1>5
  <2>2. \A i \in 1..Len(x) : C[i] = C[i + 1] + Delta(x[i]) /\ Kind(x[i], C[i], c, o) /\ Led(x, i, c)
    BY <1>3, <1>4, <1>5 DEF FlatList
  <2>3. \A i, k \in 1..Len(x) : i < k /\ C[i] = 0 => x[k].do \in Steady
    BY <1>1, <1>3, <1>4
  <2>4. \A i \in 1..Len(x), f \in FramesOf(r) : C[i] = 0 => f.do \in Steady
    BY <1>3, <1>4
  <2> QED BY <2>1, <2>2, <2>3, <2>4 DEF Stacked
<1>7. AtLevel(u, C[1], c, o)
  BY <1>6, PushPlaced
<1> QED BY <1>3, <1>5, <1>7

LEMMA OnTop ==
    ASSUME NEW a, NEW r, IsStack(r), NEW u, u = <<a>> \o r
    PROVE  IsStack(u) /\ FramesOf(u) = {a} \cup FramesOf(r) /\ u # <<>> /\ Head(u) = a
<1>1. PICK x : x = <<a>>
  OBVIOUS
<1>2. IsStack(x) /\ x[1] = a /\ FramesOf(x) = {a} /\ x # <<>>
  BY <1>1, OneFrame
<1>3. u = x \o r
  BY <1>1
<1>4. IsStack(u) /\ FramesOf(u) = FramesOf(x) \cup FramesOf(r) /\ Head(u) = x[1] /\ u # <<>>
  <2>1. IsStack(x) /\ x # <<>>
    BY <1>2
  <2>2. IsStack(u) /\ FramesOf(u) = FramesOf(x) \cup FramesOf(r)
    BY <1>3, <2>1, JoinStack
  <2>3. Head(u) = x[1] /\ u # <<>>
    BY <1>2, <1>3, JoinStack
  <2> QED BY <2>2, <2>3
<1> QED BY <1>2, <1>4

LEMMA PushOne ==
    ASSUME NEW r, IsStack(r), NEW a, a.do # "connectivity", NEW l \in Int, NEW c, NEW o, AtLevel(r, l, c, o),
           NEW k \in Int, k = l + Delta(a), Kind(a, k, c, o), k = 0 => \A f \in FramesOf(r) : f.do \in Steady,
           NEW u, u = <<a>> \o r
    PROVE  AtLevel(u, k, c, o) /\ IsStack(u) /\ FramesOf(u) = {a} \cup FramesOf(r) /\ u # <<>> /\ Head(u) = a
<1>1. PICK x : x = <<a>>
  OBVIOUS
<1>2. IsStack(x) /\ Len(x) = 1 /\ x[1] = a /\ FramesOf(x) = {a} /\ x # <<>>
  BY <1>1, OneFrame
<1>3. PICK C : C = [i \in 1..2 |-> IF i = 1 THEN k ELSE l]
  OBVIOUS
<1>4. C \in [1..2 -> Int] /\ C[1] = k /\ C[2] = l
  BY <1>3
<1>5. \A i \in 1..1 : i = 1
  OBVIOUS
<1>6. Stacked(x, C, r, l, c, o)
  <2>1. \A i \in 1..Len(x) : C[i] = C[i + 1] + Delta(x[i]) /\ Kind(x[i], C[i], c, o) /\ Led(x, i, c)
    <3>1. C[1] = C[1 + 1] + Delta(x[1]) /\ Kind(x[1], C[1], c, o) /\ Led(x, 1, c)
      BY <1>2, <1>4 DEF Led
    <3> QED BY <1>2, <1>5, <3>1
  <2> QED BY <1>2, <1>4, <1>5, <2>1 DEF Stacked
<1>7. AtLevel(u, C[1], c, o)
  BY <1>1, <1>2, <1>6, PushPlaced
<1>8. IsStack(u) /\ FramesOf(u) = {a} \cup FramesOf(r) /\ Head(u) = a /\ u # <<>>
  BY OnTop
<1> QED BY <1>4, <1>7, <1>8

LEMMA Joined ==
    ASSUME NEW x, IsStack(x), NEW y, IsStack(y), NEW r, IsStack(r)
    PROVE  (x \o y) \o r = x \o (y \o r)
<1>1. PICK S : S = (FramesOf(x) \cup FramesOf(y)) \cup FramesOf(r)
  OBVIOUS
<1>2. x \in Seq(S) /\ y \in Seq(S) /\ r \in Seq(S)
  BY <1>1 DEF IsStack
<1> QED BY <1>2, ConcatAssociative

\* A frame within a guard.
LEMMA PushGuarded ==
    ASSUME NEW r, IsStack(r), NEW a, a.do = "enter", NEW f, f.do # "connectivity", Delta(f) = 0, NEW b, b.do = "exit",
           NEW l \in 0..3, NEW c, NEW o, AtLevel(r, l, c, o), Kind(f, l + 1, c, o),
           l = 0 => f.do \in Steady /\ \A g \in FramesOf(r) : g.do \in Steady, NEW x, x = <<a, f, b>>, NEW u, u = x \o r
    PROVE  AtLevel(u, l, c, o)
<1>1. IsStack(x) /\ Len(x) = 3 /\ x[1] = a /\ x[2] = f /\ x[3] = b
  BY ThreeFrames
<1>2. PICK C : C = [i \in 1..4 |-> IF i \in {2, 3} THEN l + 1 ELSE l]
  OBVIOUS
<1>3. C \in [1..4 -> Int] /\ C[1] = l /\ C[2] = l + 1 /\ C[3] = l + 1 /\ C[4] = l
  BY <1>2
<1>4. \A i \in 1..3 : i = 1 \/ i = 2 \/ i = 3
  OBVIOUS
<1>5. Delta(a) = -1 /\ Delta(b) = 1
  BY DEF Delta
<1>6. Kind(a, l, c, o) /\ Kind(b, l + 1, c, o)
  BY DEF Kind, Steady, Deep, Single
<1>7. \A i \in 1..3 : C[i] = C[i + 1] + Delta(x[i]) /\ Kind(x[i], C[i], c, o) /\ Led(x, i, c)
  <2>1. C[1] = C[1 + 1] + Delta(x[1]) /\ Kind(x[1], C[1], c, o) /\ Led(x, 1, c)
    BY <1>1, <1>3, <1>5, <1>6 DEF Led
  <2>2. C[2] = C[2 + 1] + Delta(x[2]) /\ Kind(x[2], C[2], c, o) /\ Led(x, 2, c)
    BY <1>1, <1>3, <1>5, <1>6 DEF Led
  <2>3. C[3] = C[3 + 1] + Delta(x[3]) /\ Kind(x[3], C[3], c, o) /\ Led(x, 3, c)
    BY <1>1, <1>3, <1>5, <1>6 DEF Led
  <2> QED BY <1>4, <2>1, <2>2, <2>3
<1>8. a.do \in Steady /\ b.do \in Steady
  BY DEF Steady
<1>9. \A i \in 1..3 : C[i] = 0 => l = 0 /\ i = 1
  BY <1>3, <1>4
<1>10. \A i, k \in 1..3 : i < k /\ C[i] = 0 => x[k].do \in Steady
  BY <1>1, <1>4, <1>8, <1>9
<1>11. \A i \in 1..3, g \in FramesOf(r) : C[i] = 0 => g.do \in Steady
  BY <1>9
<1>12. Stacked(x, C, r, l, c, o)
  BY <1>1, <1>3, <1>7, <1>10, <1>11 DEF Stacked
<1> QED BY <1>1, <1>3, <1>12, PushPlaced

\* Where no guard is entered, nothing but steady frames is left.
LEMMA LevelZero ==
    ASSUME NEW t, IsStack(t), NEW c, NEW o, AtLevel(t, 0, c, o)
    PROVE  \A f \in FramesOf(t) : f.do \in Steady
<1>1. CASE t = <<>>
  BY <1>1, StackBasics
<1>2. CASE t # <<>>
  <2>1. Kind(Head(t), 0, c, o) /\ \A f \in Below(t) : f.do \in Steady
    BY <1>2, TopPlaced
  <2>2. Head(t).do \in Steady
    BY <2>1 DEF Kind, Deep, Single
  <2> QED BY <1>2, <2>1, <2>2, StackBasics
<1> QED BY <1>1, <1>2


-----------------------------------------------------------------------------
\* The table, the timers and the state of the session.

\* A frame that will destroy the operation s.
Dooms(f, s) ==
    \/ f.do = "complete" /\ f.op = s
    \/ f.do = "terminate" /\ \E p \in 1..Len(ops) : f.idx <= p /\ p <= f.end /\ ops[p] = s
Doomed(s) == \E f \in FramesOf(stack) : Dooms(f, s)

\* The loops stay within the table.
LoopIn(f) == f.do \in {"terminate", "dispatch"} => f.end <= Len(ops) /\ f.idx >= 1
Loops == \A f \in FramesOf(stack) : LoopIn(f)

\* Null pointers are remembered until the end of the API call.
Marked == \A i \in 1..Len(ops) : ops[i] = 0 => client.opsDeleted

\* What is left of a session that has ended goes before the API call does.
Ended ==
    /\ Over(client) => ~client.connected /\ \A s \in Live : Doomed(s)
    /\ Over(client) /\ (~client.disconnecting \/ depth = 0) => ops = <<>>
    /\ ~Over(client) => ~client.disconnecting
    /\ Prepared # {} => ~Over(client)

Agrees ==
    ~Over(client) =>
        /\ KeepAlive \in Live <=> client.connected
        /\ \A s \in Live : op[s].type \notin {"connect", "keepalive"} => client.connected
        /\ \A s \in OfType("connect") : client.connected => stack # <<>> /\ Top.do = "complete" /\ Top.op = s
        /\ \A s, t \in OfType("connect") : s = t

\* The answer to a connect request is handled before the request completes.
Answer ==
    stack # <<>> /\ Top.do \in {"connected", "refused"} =>
        /\ ~Over(client) /\ ~client.connected
        /\ Len(stack) > 1 /\ stack[2].do = "complete" /\ stack[2].op \in OfType("connect")

Holds(f, s) == f.op = s /\ f.do \in {"wait", "expired", "complete"}
Held(s) == <<s, "response">> \in Active(timers) \/ \E f \in FramesOf(stack) : Holds(f, s)
Timed == \A s \in Live : IsRequest(s) => Held(s)

HoldsAlive(f) == (f.op = KeepAlive /\ f.do \in {"wait", "expired"}) \/ f.do = "lost"
HeldAlive == (\E n \in KeepAliveNames : <<KeepAlive, n>> \in Active(timers)) \/ \E f \in FramesOf(stack) : HoldsAlive(f)
Alive == client.connected => HeldAlive

Parts == Loops /\ Marked /\ Ended /\ Agrees /\ Answer /\ Timed /\ Alive

\* The frames that leave the stack.
Leaves(S) == \A f \in FramesOf(stack) : f \in FramesOf(stack') \/ f.do \in S

SameSession ==
    /\ client'.connected = client.connected /\ client'.disconnecting = client.disconnecting
    /\ client'.initialized = client.initialized

LEMMA DoomedKept ==
    ASSUME NEW S, Leaves(S), "complete" \notin S, "terminate" \notin S, NEW s, Doomed(s), Len(ops') = Len(ops),
           \A p \in 1..Len(ops) : ops[p] = s => ops'[p] = s
    PROVE  Doomed(s)'
<1>1. PICK f \in FramesOf(stack) : Dooms(f, s)
  BY DEF Doomed
<1>2. f \in FramesOf(stack')
  BY <1>1 DEF Leaves, Dooms
<1>3. Dooms(f, s)'
  BY <1>1 DEF Dooms
<1> QED BY <1>2, <1>3 DEF Doomed

LEMMA HeldKept ==
    ASSUME NEW S, Leaves(S), "wait" \notin S, "expired" \notin S, "complete" \notin S, NEW s, Held(s),
           <<s, "response">> \in Active(timers) => <<s, "response">> \in Active(timers')
    PROVE  Held(s)'
<1>1. CASE <<s, "response">> \in Active(timers)
  BY <1>1 DEF Held
<1>2. ASSUME NEW f \in FramesOf(stack), Holds(f, s) PROVE Held(s)'
  <2>1. f \in FramesOf(stack')
    BY <1>2 DEF Leaves, Holds
  <2> QED BY <1>2, <2>1 DEF Held, Holds
<1> QED BY <1>1, <1>2 DEF Held

LEMMA AliveKept ==
    ASSUME NEW S, Leaves(S), "wait" \notin S, "expired" \notin S, "lost" \notin S, HeldAlive,
           \A n \in KeepAliveNames : <<KeepAlive, n>> \in Active(timers) => HeldAlive'
    PROVE  HeldAlive'
<1>1. ASSUME NEW f \in FramesOf(stack), HoldsAlive(f) PROVE HeldAlive'
  <2>1. f \in FramesOf(stack')
    BY <1>1 DEF Leaves, HoldsAlive
  <2> QED BY <1>1, <2>1 DEF HeldAlive, HoldsAlive
<1> QED BY <1>1 DEF HeldAlive

LEMMA LoopsKept ==
    ASSUME Loops, Len(ops') = Len(ops), \A f \in FramesOf(stack') : f \in FramesOf(stack) \/ LoopIn(f)
    PROVE  Loops'
  BY DEF Loops, LoopIn

\* Steps that only change the stack.
LEMMA PartsKept ==
    ASSUME Base, Parts, UNCHANGED <<ops, op>>, depth' = 0 => depth = 0, SameSession, client'.opsDeleted = client.opsDeleted,
           \A f \in FramesOf(stack') : f \in FramesOf(stack) \/ LoopIn(f), Answer', stack # <<>> => Top.do # "complete",
           \A s \in Live : Doomed(s) => Doomed(s)', \A s \in Live : IsRequest(s) /\ Held(s) => Held(s)',
           client.connected /\ HeldAlive => HeldAlive'
    PROVE  Parts'
<1>1. Live' = Live /\ Prepared' = Prepared
  BY DEF Prepared, Live
<1>2. Over(client') <=> Over(client)
  BY DEF Over, SameSession
<1>3. Loops'
  BY LoopsKept DEF Parts
<1>4. Marked'
  BY DEF Parts, Marked
<1>5. Ended'
  BY <1>1, <1>2 DEF Parts, Ended, SameSession
<1>6. Agrees'
  <2>1. OfType("connect")' = OfType("connect")
    BY <1>1 DEF OfType
  <2>2. ~Over(client) => \A s \in OfType("connect") : ~client.connected
    BY DEF Parts, Agrees
  <2> QED BY <1>1, <1>2, <2>1, <2>2 DEF Parts, Agrees, SameSession
<1>7. Timed'
  BY <1>1 DEF Parts, Timed, IsRequest
<1>8. Alive'
  BY DEF Parts, Alive, SameSession
<1> QED BY <1>3, <1>4, <1>5, <1>6, <1>7, <1>8 DEF Parts

LEMMA NoAnswer ==
    ASSUME stack' # <<>> => Top'.do \notin {"connected", "refused"} PROVE Answer'
  BY DEF Answer

LEMMA ThenFrames ==
    ASSUME Base, NEW do, At(do), NEW x, GoodList(x), Then(x)
    PROVE  /\ FramesOf(stack') = FramesOf(x) \cup Below(stack) /\ FramesOf(stack) = {Top} \cup Below(stack)
           /\ Leaves({do})
           /\ x # <<>> => stack' # <<>> /\ Top' = x[1]
           /\ x = <<>> => stack' = Tail(stack)
           /\ stack' # <<>> /\ Top'.do \in TopOnly => x # <<>>
           /\ GoodList(stack')
<1>1. stack # <<>> /\ Top.do = do /\ GoodList(stack)
  BY TopFacts DEF Base
<1>2. PICK t, u : t = stack /\ u = stack'
  OBVIOUS
<1>3. GoodList(t) /\ t # <<>> /\ u = x \o Tail(t)
  BY <1>1, <1>2 DEF Then
<1>4. /\ GoodList(u) /\ FramesOf(u) = FramesOf(x) \cup Below(t)
      /\ FramesOf(t) = {Head(t)} \cup Below(t)
      /\ x # <<>> => u # <<>> /\ Head(u) = x[1]
      /\ x = <<>> => u = Tail(t)
      /\ u # <<>> /\ Head(u).do \in TopOnly => x # <<>>
  BY <1>3, PushedOnTail
<1>5. Leaves({do})
  BY <1>1, <1>2, <1>4 DEF Leaves, Top
<1> QED BY <1>2, <1>4, <1>5 DEF Top

LEMMA CallFrames ==
    ASSUME Base, CanCall, NEW x, GoodList(x), x # <<>>, Call(x)
    PROVE  /\ FramesOf(stack') = FramesOf(x) \cup FramesOf(stack) /\ Leaves({})
           /\ stack' # <<>> /\ Top' = x[1] /\ (stack # <<>> => Top.do = "app")
<1>1. stack # <<>> => Top.do = "app"
  BY CallFacts
<1>2. PICK t, u : t = stack /\ u = stack'
  OBVIOUS
<1>3. GoodList(t) /\ u = x \o t /\ (t # <<>> => Head(t).do \notin TopOnly)
  BY <1>1, <1>2 DEF Call, Base, Top, TopOnly
<1>4. GoodList(u) /\ FramesOf(u) = FramesOf(x) \cup FramesOf(t) /\ u # <<>> /\ Head(u) = x[1]
  BY <1>3, PushedOnAll
<1> QED BY <1>1, <1>2, <1>4 DEF Leaves, Top

\* The frames that end an operation, or the session, or hold a timer.
Weighty == {"complete", "terminate", "wait", "expired", "lost"}

LEMMA PlainKept ==
    ASSUME Base, Parts, NEW S, Leaves(S), \A do \in Weighty : do \notin S,
           UNCHANGED <<ops, op, timers, depth>>, SameSession, client'.opsDeleted = client.opsDeleted,
           \A f \in FramesOf(stack') : f \in FramesOf(stack) \/ LoopIn(f), Answer', stack # <<>> => Top.do # "complete"
    PROVE  Parts'
<1>1. "complete" \notin S /\ "terminate" \notin S /\ "wait" \notin S /\ "expired" \notin S /\ "lost" \notin S
  BY DEF Weighty
<1>2. \A s \in Live : Doomed(s) => Doomed(s)'
  BY <1>1, DoomedKept
<1>3. \A s \in Live : Held(s) => Held(s)'
  BY <1>1, HeldKept
<1>4. HeldAlive => HeldAlive'
  BY <1>1, AliveKept DEF HeldAlive
<1>5. UNCHANGED <<ops, op>> /\ (depth' = 0 => depth = 0)
  OBVIOUS
<1> QED BY <1>2, <1>3, <1>4, <1>5, PartsKept

LEMMA PlainThen ==
    ASSUME Base, Parts, NEW do, At(do), do \notin Weighty, NEW x, GoodList(x), Then(x),
           x # <<>> => x[1].do \notin {"connected", "refused"}, \A f \in FramesOf(x) : LoopIn(f),
           UNCHANGED <<ops, op, timers, depth>>, SameSession, client'.opsDeleted = client.opsDeleted
    PROVE  Parts'
<1>1. Leaves({do}) /\ \A f \in FramesOf(stack') : f \in FramesOf(stack) \/ LoopIn(f)
  BY ThenFrames
<1>2. Answer'
  <2>1. stack' # <<>> /\ Top'.do \in TopOnly => x # <<>> /\ Top' = x[1]
    BY ThenFrames
  <2> QED BY <2>1, NoAnswer DEF TopOnly
<1>3. \A d \in Weighty : d \notin {do}
  OBVIOUS
<1>4. stack # <<>> => Top.do # "complete"
  BY TopFacts DEF Weighty
<1> QED BY <1>1, <1>2, <1>3, <1>4, PlainKept

LEMMA PlainCall ==
    ASSUME Base, Parts, CanCall, NEW x, GoodList(x), x # <<>>, Call(x), x[1].do \notin {"connected", "refused"},
           \A f \in FramesOf(x) : LoopIn(f),
           UNCHANGED <<ops, op, timers, depth>>, SameSession, client'.opsDeleted = client.opsDeleted
    PROVE  Parts'
<1>1. Leaves({}) /\ \A f \in FramesOf(stack') : f \in FramesOf(stack) \/ LoopIn(f)
  BY CallFrames
<1>2. Answer'
  BY CallFrames, NoAnswer
<1>3. stack # <<>> => Top.do # "complete"
  BY CallFrames
<1> QED BY <1>1, <1>2, <1>3, PlainKept

\* The same for the depth of the frames.
AllPlaced == AtLevel(stack, depth, client, op)

\* A session does not come back, an operation keeps its type.
Onward ==
    /\ Over(client) => Over(client')
    /\ Gone(client) => Gone(client')
    /\ \A s \in Operations : op[s].type = "disconnect" => op'[s].type = "disconnect"

LEMMA StackPlaced ==
    ASSUME Base, AllPlaced, Onward
    PROVE  AtLevel(stack, depth, client', op')
  BY PlacesKept DEF Base, GoodList, AllPlaced, Onward

LEMMA RestPlaced ==
    ASSUME Base, AllPlaced, Onward, NEW do, At(do), do = "lost" => Gone(client')
    PROVE  /\ AtLevel(Tail(stack), depth - Delta(Top), client', op') /\ IsStack(Tail(stack))
           /\ Kind(Top, depth, client, op) /\ depth \in 0..4 /\ (do = "connectivity" => Gone(client))
           /\ depth = 0 => \A f \in FramesOf(Tail(stack)) : f.do \in Steady
<1>1. stack # <<>> /\ Top.do = do /\ IsStack(stack)
  BY TopFacts DEF Base, GoodList
<1>2. PICK t, r : t = stack /\ r = Tail(t)
  OBVIOUS
<1>3. AtLevel(t, depth, client', op') /\ AtLevel(t, depth, client, op) /\ IsStack(t) /\ t # <<>>
  BY <1>1, <1>2, StackPlaced DEF AllPlaced
<1>4. AtLevel(r, depth - Delta(Head(t)), client', op')
  BY <1>1, <1>2, <1>3, TailPlaced DEF Top
<1>5. /\ Kind(Head(t), depth, client, op) /\ depth \in 0..4 /\ (Head(t).do = "connectivity" => Gone(client))
      /\ depth = 0 => \A f \in Below(t) : f.do \in Steady
  BY <1>3, TopPlaced
<1>6. IsStack(r) /\ FramesOf(r) = Below(t)
  BY <1>2, <1>3, TailStack
<1> QED BY <1>1, <1>2, <1>4, <1>5, <1>6 DEF Top

LEMMA FlatThen ==
    ASSUME Base, AllPlaced, Onward, NEW do, At(do), do = "lost" => Gone(client'), do \notin {"enter", "exit"},
           NEW x, IsStack(x), Then(x), FlatList(x, depth, client', op'),
           depth = 0 => \A f \in FramesOf(x) : f.do \in Steady, depth' = depth
    PROVE  AllPlaced'
<1>1. PICK r, u : r = Tail(stack) /\ u = stack'
  OBVIOUS
<1>2. Top.do = do
  BY TopFacts
<1>3. Delta(Top) = 0
  BY <1>2 DEF Delta
<1>4. /\ AtLevel(r, depth - Delta(Top), client', op') /\ IsStack(r) /\ depth \in 0..4
      /\ depth = 0 => \A f \in FramesOf(r) : f.do \in Steady
  BY <1>1, RestPlaced
<1>5. depth - Delta(Top) = depth
  BY <1>3, <1>4
<1>6. u = x \o r
  BY <1>1 DEF Then
<1>7. AtLevel(u, depth, client', op')
  BY <1>4, <1>5, <1>6, PushFlat
<1> QED BY <1>1, <1>7 DEF AllPlaced

LEMMA FlatLists ==
    ASSUME NEW l, NEW c, NEW o
    PROVE  /\ FlatList(<<>>, l, c, o)
           /\ \A a : Delta(a) = 0 /\ Kind(a, l, c, o) /\ a.do # "connectivity" => FlatList(<<a>>, l, c, o)
<1>1. FlatList(<<>>, l, c, o)
  BY NoFrame DEF FlatList
<1>2. ASSUME NEW a, Delta(a) = 0, Kind(a, l, c, o), a.do # "connectivity" PROVE FlatList(<<a>>, l, c, o)
  <2>1. PICK x : x = <<a>>
    OBVIOUS
  <2>2. Len(x) = 1 /\ x[1] = a /\ \A i \in 1..1 : i = 1
    BY <2>1, OneFrame
  <2>3. FlatList(x, l, c, o)
    BY <1>2, <2>2 DEF FlatList, Led
  <2> QED BY <2>1, <2>3
<1> QED BY <1>1, <1>2

LEMMA FlatPop ==
    ASSUME Base, AllPlaced, Onward, NEW do, At(do), do \notin {"enter", "exit", "lost"}, Then(<<>>), depth' = depth
    PROVE  AllPlaced'
  BY FlatThen, FlatLists, NoFrame

LEMMA FlatOne ==
    ASSUME Base, AllPlaced, Onward, NEW do, At(do), do = "lost" => Gone(client'), do \notin {"enter", "exit"},
           NEW a, Then(<<a>>), Delta(a) = 0, a.do # "connectivity", Kind(a, depth, client', op'), depth' = depth
    PROVE  AllPlaced'
<1>1. PICK x : x = <<a>>
  OBVIOUS
<1>2. IsStack(x) /\ FramesOf(x) = {a} /\ FlatList(x, depth, client', op')
  BY <1>1, OneFrame, FlatLists
<1>3. depth = 0 => a.do \in Steady
  BY DEF Kind, Deep, Single
<1> QED BY <1>1, <1>2, <1>3, FlatThen


LEMMA FlatJoined ==
    ASSUME NEW l, NEW c, NEW o, NEW x, IsStack(x), FlatList(x, l, c, o), NEW y, IsStack(y), FlatList(y, l, c, o),
           NEW u, u = x \o y
    PROVE  FlatList(u, l, c, o)
<1>1. PICK m, n : m = Len(x) /\ n = Len(y)
  OBVIOUS
<1>2. m \in Nat /\ n \in Nat
  BY <1>1, StackBasics
<1>3. Len(u) = m + n /\ (\A i \in 1..m : u[i] = x[i]) /\ \A i \in 1..n : u[m + i] = y[i]
  BY <1>1, JoinStack
<1>4. ASSUME NEW k \in 1..(m + n) PROVE Delta(u[k]) = 0 /\ Kind(u[k], l, c, o) /\ Led(u, k, c)
  <2>1. CASE k <= m
    <3>1. k \in 1..m /\ (k > 1 => k - 1 \in 1..m)
      BY <1>2, <2>1
    <3>2. Delta(x[k]) = 0 /\ Kind(x[k], l, c, o) /\ Led(x, k, c)
      BY <1>1, <3>1 DEF FlatList
    <3> QED BY <1>3, <3>1, <3>2 DEF Led
  <2>2. CASE ~(k <= m)
    <3>1. PICK i : i = k - m
      OBVIOUS
    <3>2. i \in 1..n /\ k = m + i /\ (i > 1 => i - 1 \in 1..n /\ k - 1 = m + (i - 1) /\ k > 1)
      BY <1>2, <2>2, <3>1
    <3>3. Delta(y[i]) = 0 /\ Kind(y[i], l, c, o) /\ Led(y, i, c)
      BY <1>1, <3>2 DEF FlatList
    <3>4. u[k] = y[i] /\ (i > 1 => u[k - 1] = y[i - 1])
      BY <1>3, <3>2
    <3> QED BY <3>2, <3>3, <3>4 DEF Led
  <2> QED BY <2>1, <2>2
<1> QED BY <1>3, <1>4 DEF FlatList

LEMMA FlatSessionLost ==
    ASSUME NEW l \in 1..3, NEW c, NEW o, NEW reason, l >= 2 => reason = NoArg, NEW status,
           NEW x, x = SessionLost(reason, status)
    PROVE  FlatList(x, l, c, o)
<1>1. Len(x) = 3 /\ x[1].do = "lost" /\ x[2].do = "connectivity" /\ x[3].do = "report" /\ x[3].arg = reason
  BY SessionLostFacts
<1>2. \A i \in 1..3 : i = 1 \/ i = 2 \/ i = 3
  OBVIOUS
<1>3. Delta(x[1]) = 0 /\ Delta(x[2]) = 0 /\ Delta(x[3]) = 0
  BY <1>1 DEF Delta
<1>4. Kind(x[1], l, c, o) /\ Kind(x[2], l, c, o) /\ Kind(x[3], l, c, o)
  BY <1>1 DEF Kind, Steady, Deep, Single
<1>5. Led(x, 1, c) /\ Led(x, 2, c) /\ Led(x, 3, c)
  <2>1. Led(x, 1, c) /\ Led(x, 3, c)
    BY <1>1 DEF Led
  <2>2. x[2 - 1].do = "lost" /\ 2 > 1
    BY <1>1
  <2>3. Led(x, 2, c)
    BY <2>2 DEF Led
  <2> QED BY <2>1, <2>3
<1> QED BY <1>1, <1>2, <1>3, <1>4, <1>5 DEF FlatList

LEMMA LoopInLists ==
    /\ \A do, s, arg : do \notin {"terminate", "dispatch"} => LoopIn(Frame(do, s, arg))
    /\ \A reason, status : \A f \in FramesOf(SessionLost(reason, status)) : LoopIn(f)
    /\ \A f \in FramesOf(NetworkLost) : LoopIn(f)
<1>1. \A do, s, arg : do \notin {"terminate", "dispatch"} => LoopIn(Frame(do, s, arg))
  BY DEF LoopIn, Frame
<1>2. ASSUME NEW reason, NEW status, NEW f \in FramesOf(SessionLost(reason, status)) PROVE LoopIn(f)
  <2>1. f.do \in {"lost", "connectivity", "report"}
    <3>1. PICK x : x = SessionLost(reason, status)
      OBVIOUS
    <3>2. FramesOf(x) = {x[1], x[2], x[3]} /\ x[1].do = "lost" /\ x[2].do = "connectivity" /\ x[3].do = "report"
      BY <3>1, SessionLostFacts
    <3> QED BY <3>1, <3>2
  <2> QED BY <2>1 DEF LoopIn
<1>3. ASSUME NEW f \in FramesOf(NetworkLost) PROVE LoopIn(f)
  <2>1. f.do \in {"enter", "netdown", "exit"}
    <3>1. PICK x : x = NetworkLost
      OBVIOUS
    <3>2. FramesOf(x) = {x[1], x[2], x[3]} /\ x[1].do = "enter" /\ x[2].do = "netdown" /\ x[3].do = "exit"
      BY <3>1, NetworkLostFacts
    <3> QED BY <3>1, <3>2
  <2> QED BY <2>1 DEF LoopIn
<1> QED BY <1>1, <1>2, <1>3

Main == Parts /\ AllPlaced

\* The session and the operations are left alone.
Unmoved ==
    /\ UNCHANGED <<ops, op, timers, depth>>
    /\ client' = client \/ \E b \in BOOLEAN : client' = [client EXCEPT !.networkDisconnected = b]

LEMMA UnmovedFacts ==
    ASSUME Base, Unmoved
    PROVE  /\ Onward /\ SameSession /\ client'.opsDeleted = client.opsDeleted
           /\ (Over(client') <=> Over(client)) /\ (Gone(client') <=> Gone(client))
           /\ UNCHANGED <<ops, op, timers, depth>>
<1>1. SameSession /\ client'.opsDeleted = client.opsDeleted
  BY DEF Unmoved, SameSession, Base, ValuesOK, ClientType
<1>2. (Over(client') <=> Over(client)) /\ (Gone(client') <=> Gone(client))
  BY <1>1 DEF Over, Gone, SameSession
<1> QED BY <1>1, <1>2 DEF Onward, Unmoved

LEMMA MainList ==
    ASSUME Base, Main, NEW do, At(do), do \notin Weighty, do \notin {"enter", "exit"}, NEW x, GoodList(x), Then(x), Unmoved,
           x # <<>> => x[1].do \notin {"connected", "refused"}, \A f \in FramesOf(x) : LoopIn(f),
           FlatList(x, depth, client', op'), depth = 0 => \A f \in FramesOf(x) : f.do \in Steady
    PROVE  Main'
<1>1. /\ Onward /\ SameSession /\ client'.opsDeleted = client.opsDeleted
      /\ UNCHANGED <<ops, op, timers, depth>>
  BY UnmovedFacts
<1>2. Parts'
  BY <1>1, PlainThen DEF Main
<1>3. AllPlaced'
  <2>1. do # "lost" /\ IsStack(x)
    BY DEF Weighty, GoodList
  <2> QED BY <1>1, <2>1, FlatThen DEF Main
<1> QED BY <1>2, <1>3 DEF Main

LEMMA MainPop ==
    ASSUME Base, Main, NEW do, At(do), do \notin Weighty, do \notin {"enter", "exit"}, Then(<<>>), Unmoved
    PROVE  Main'
  BY MainList, ListOfNone, FlatLists

LEMMA MainOne ==
    ASSUME Base, Main, NEW do, At(do), do \notin Weighty, do \notin {"enter", "exit"}, NEW a, FrameOK(a), Then(<<a>>), Unmoved,
           a.do \notin {"connected", "refused", "connectivity", "enter", "exit"}, LoopIn(a), Kind(a, depth, client', op')
    PROVE  Main'
<1>1. PICK x : x = <<a>>
  OBVIOUS
<1>2. GoodList(x) /\ FramesOf(x) = {a} /\ x[1] = a
  BY <1>1, ListOfOne
<1>3. Delta(a) = 0
  BY DEF Delta
<1>4. FlatList(x, depth, client', op')
  BY <1>1, <1>3, FlatLists
<1>5. depth = 0 => a.do \in Steady
  BY DEF Kind, Deep, Single
<1> QED BY <1>1, <1>2, <1>4, <1>5, MainList

\* What is known of the frame that is executed.
LEMMA TopKind ==
    ASSUME Base, Main, NEW do, At(do)
    PROVE  Kind(Top, depth, client, op) /\ depth \in 0..4 /\ (do = "connectivity" => Gone(client)) /\ Top.do = do /\ FrameOK(Top)
<1>1. stack # <<>> /\ Top.do = do /\ IsStack(stack) /\ FrameOK(Top)
  BY TopFacts DEF Base, GoodList
<1>2. Kind(Top, depth, client, op) /\ depth \in 0..4 /\ (Top.do = "connectivity" => Gone(client))
  BY <1>1, TopPlaced DEF Main, AllPlaced, Top
<1> QED BY <1>1, <1>2

LEMMA MainCallback == ASSUME Base, Main, Callback PROVE Main'
<1>1. PICK a : a = Frame("app", 0, NoArg)
  OBVIOUS
<1>2. FrameOK(a) /\ a.do = "app" /\ LoopIn(a)
  BY <1>1, FrameFacts, LoopInLists DEF Special
<1>3. At("callback") /\ Then(<<a>>) /\ Unmoved
  BY <1>1 DEF Callback, Unmoved
<1>4. Kind(Top, depth, client, op) /\ Top.do = "callback" /\ Onward /\ (Gone(client') <=> Gone(client))
  BY <1>3, TopKind, UnmovedFacts
<1>5. Kind(a, depth, client', op')
  BY <1>2, <1>4 DEF Kind, Steady, Deep, Single
<1> QED BY <1>2, <1>3, <1>5, MainOne DEF Weighty

LEMMA MainReport == ASSUME Base, Main, Report PROVE Main'
<1>1. PICK a : a = Frame("app", 0, NoArg)
  OBVIOUS
<1>2. FrameOK(a) /\ a.do = "app" /\ LoopIn(a)
  BY <1>1, FrameFacts, LoopInLists DEF Special
<1>3. At("report") /\ Unmoved
  BY DEF Report, Unmoved
<1>4. Kind(Top, depth, client, op) /\ Top.do = "report" /\ (Gone(client') <=> Gone(client))
  BY <1>3, TopKind, UnmovedFacts
<1>5. CASE Top.arg = NoArg
  <2>1. Then(<<>>)
    BY <1>5 DEF Report
  <2> QED BY <1>3, <2>1, MainPop DEF Weighty
<1>6. CASE Top.arg # NoArg
  <2>1. Then(<<a>>)
    BY <1>1, <1>6 DEF Report
  <2>2. Kind(a, depth, client', op')
    BY <1>2, <1>4, <1>6 DEF Kind, Steady, Deep, Single
  <2> QED BY <1>2, <1>3, <2>1, <2>2, MainOne DEF Weighty
<1> QED BY <1>5, <1>6

LEMMA MainConnectivity == ASSUME Base, Main, ConnectivityChanged PROVE Main'
<1>1. At("connectivity") /\ Unmoved
  BY DEF ConnectivityChanged, Unmoved
<1>2. PICK s, a : s = (CHOOSE c \in OfType("connect") : TRUE) /\ a = Frame("complete", s, "BrokerDisconnected")
  OBVIOUS
<1>3. FrameOK(a) /\ a.do = "complete" /\ a.op = s /\ LoopIn(a)
  BY <1>2, FrameFacts, LoopInLists DEF Special
<1>4. /\ Kind(Top, depth, client, op) /\ Top.do = "connectivity" /\ Gone(client') /\ Over(client')
      /\ depth \in 0..4
  BY <1>1, TopKind, UnmovedFacts DEF Gone
<1>5. CASE client.networkDisconnected /\ OfType("connect") # {}
  <2>1. Then(<<a>>)
    BY <1>2, <1>5 DEF ConnectivityChanged
  <2>2. s \in Operations
    <3>1. s \in OfType("connect")
      BY <1>2, <1>5
    <3> QED BY <3>1, TableFacts DEF Base, OfType
  <2>3. depth >= 1
    BY <1>4 DEF Kind, Deep
  <2>4. Kind(a, depth, client', op')
    BY <1>3, <1>4, <2>2, <2>3 DEF Kind, Steady, Deep, Single
  <2> QED BY <1>1, <1>3, <2>1, <2>4, MainOne DEF Weighty
<1>6. CASE ~(client.networkDisconnected /\ OfType("connect") # {})
  <2>1. Then(<<>>)
    BY <1>6 DEF ConnectivityChanged
  <2> QED BY <1>1, <2>1, MainPop DEF Weighty
<1> QED BY <1>5, <1>6

LEMMA MainNetworkDown == ASSUME Base, Main, NetworkDown PROVE Main'
<1>1. At("netdown") /\ Unmoved
  BY DEF NetworkDown, Unmoved
<1>2. Kind(Top, depth, client, op) /\ Top.do = "netdown" /\ depth \in 0..4
  BY <1>1, TopKind
<1>3. depth \in 1..4 /\ (~client.disconnecting => depth \in 1..3)
  BY <1>2 DEF Kind, Deep, Gone
<1>4. CASE client.disconnecting
  <2>1. Then(<<>>)
    BY <1>4 DEF NetworkDown
  <2> QED BY <1>1, <2>1, MainPop DEF Weighty
<1>5. CASE ~client.disconnecting
  <2>1. PICK x : x = SessionLost(NoArg, "BrokerDisconnected")
    OBVIOUS
  <2>2. Then(x)
    BY <1>5, <2>1 DEF NetworkDown
  <2>3. GoodList(x) /\ x[1].do = "lost" /\ \A f \in FramesOf(x) : LoopIn(f)
    BY <2>1, SessionLostFacts, LoopInLists
  <2>4. FlatList(x, depth, client', op')
    BY <1>3, <1>5, <2>1, FlatSessionLost
  <2> QED BY <1>1, <1>3, <2>2, <2>3, <2>4, MainList DEF Weighty
<1> QED BY <1>4, <1>5

LEMMA MainAppReturn == ASSUME Base, Main, AppReturn PROVE Main'
<1>1. At("app") /\ Then(<<>>) /\ Unmoved
  BY DEF AppReturn, Unmoved
<1> QED BY <1>1, MainPop DEF Weighty


LEMMA MainOutput == ASSUME Base, Main, Output PROVE Main'
<1>1. At("output") /\ Unmoved /\ client' = client
  BY DEF Output, Unmoved
<1>2. PICK a, y : a = Frame("sent", 0, NoArg) /\ y = <<a>>
  OBVIOUS
<1>3. FrameOK(a) /\ a.do = "sent" /\ LoopIn(a)
  BY <1>2, FrameFacts, LoopInLists DEF Special
<1>4. /\ Kind(Top, depth, client, op) /\ Top.do = "output" /\ depth \in 0..4 /\ Onward
      /\ SameSession /\ client'.opsDeleted = client.opsDeleted /\ UNCHANGED <<ops, op, timers, depth>>
  BY <1>1, TopKind, UnmovedFacts
<1>5. depth \in 0..2
  BY <1>4 DEF Kind
<1>6. Kind(a, depth, client', op')
  BY <1>3, <1>5 DEF Kind, Steady, Deep, Single
<1>7. Then(y) \/ Then(NetworkLost \o y)
  <2>1. PICK z : (z = <<>> \/ z = NetworkLost) /\ Then(z \o y)
    BY <1>2 DEF Output
  <2>2. IsStack(y)
    BY <1>2, OneFrame
  <2>3. z = <<>> => z \o y = y
    BY <2>2, NoFrame, JoinStack
  <2> QED BY <2>1, <2>3
<1>8. CASE Then(y)
  BY <1>1, <1>2, <1>3, <1>6, <1>8, MainOne DEF Weighty
<1>9. CASE Then(NetworkLost \o y)
  <2>1. PICK x, z : x = NetworkLost /\ z = x \o y
    OBVIOUS
  <2>2. /\ GoodList(x) /\ x # <<>> /\ x[1].do = "enter" /\ x[2].do = "netdown" /\ x[3].do = "exit" /\ Len(x) = 3
        /\ \A f \in FramesOf(x) : LoopIn(f)
    BY <2>1, NetworkLostFacts, LoopInLists
  <2>3. GoodList(y) /\ FramesOf(y) = {a}
    BY <1>2, <1>3, ListOfOne
  <2>4. GoodList(z) /\ FramesOf(z) = FramesOf(x) \cup FramesOf(y) /\ z # <<>> /\ z[1] = x[1]
    <3>1. \A f \in FramesOf(y) : x # <<>> => f.do \notin TopOnly
      BY <1>3, <2>3 DEF TopOnly
    <3>2. GoodList(x) /\ GoodList(y) /\ z = x \o y /\ x # <<>>
      BY <2>1, <2>2, <2>3
    <3> QED BY <3>1, <3>2, ListOfLists
  <2>5. Parts'
    <3>1. Then(z) /\ z[1].do \notin {"connected", "refused"} /\ \A f \in FramesOf(z) : LoopIn(f)
      BY <1>3, <1>9, <2>1, <2>2, <2>3, <2>4
    <3> QED BY <1>1, <1>4, <2>4, <3>1, PlainThen DEF Main, Weighty
  <2>6. AllPlaced'
    <3>1. PICK r, v, u : r = Tail(stack) /\ v = y \o r /\ u = stack'
      OBVIOUS
    <3>2. /\ AtLevel(r, depth - Delta(Top), client', op') /\ IsStack(r)
          /\ depth = 0 => \A f \in FramesOf(r) : f.do \in Steady
      BY <1>1, <1>4, <3>1, RestPlaced DEF Main
    <3>3. Delta(Top) = 0 /\ Delta(a) = 0 /\ depth - 0 = depth /\ depth = depth + 0 /\ depth \in Int
      BY <1>3, <1>4 DEF Delta
    <3>4. AtLevel(r, depth, client', op')
      BY <3>2, <3>3
    <3>5. AtLevel(v, depth, client', op') /\ IsStack(v) /\ FramesOf(v) = {a} \cup FramesOf(r)
      <4>1. a.do # "connectivity" /\ depth = depth + Delta(a) /\ v = <<a>> \o r
        BY <1>2, <1>3, <3>1, <3>3
      <4> QED BY <1>6, <3>2, <3>3, <3>4, <4>1, PushOne
    <3>6. u = x \o v
      <4>1. u = (x \o y) \o r /\ IsStack(x) /\ IsStack(y)
        BY <1>9, <2>1, <2>2, <2>3, <3>1 DEF Then, GoodList
      <4>2. v = y \o r /\ IsStack(r)
        BY <3>1, <3>2
      <4>3. (x \o y) \o r = x \o (y \o r)
        BY <4>1, <4>2, Joined
      <4> QED BY <4>1, <4>2, <4>3
    <3>7. Kind(x[2], depth + 1, client', op') /\ Delta(x[2]) = 0 /\ x[2].do \in Steady /\ a.do \in Steady
      BY <1>3, <1>5, <2>2 DEF Kind, Steady, Deep, Single, Delta
    <3>8. AtLevel(u, depth, client', op')
      <4>1. PICK e, f, g : e = x[1] /\ f = x[2] /\ g = x[3]
        OBVIOUS
      <4>2. /\ e.do = "enter" /\ f.do # "connectivity" /\ Delta(f) = 0 /\ g.do = "exit" /\ Kind(f, depth + 1, client', op')
            /\ x = <<e, f, g>> /\ (depth = 0 => f.do \in Steady /\ \A h \in FramesOf(v) : h.do \in Steady)
        <5>1. x = <<e, f, g>>
          BY <2>1, <4>1, NetworkLostFacts DEF NetworkLost
        <5> QED BY <2>2, <3>2, <3>5, <3>7, <4>1, <5>1
      <4>3. depth \in 0..3
        BY <1>5
      <4> QED BY <3>5, <3>6, <4>2, <4>3, PushGuarded
    <3> QED BY <1>4, <3>1, <3>8 DEF AllPlaced
  <2> QED BY <2>5, <2>6 DEF Main
<1> QED BY <1>7, <1>8, <1>9

LEMMA MainDisconnect == ASSUME Base, Main, Disconnect, Top.op \in Live PROVE Main'
<1>1. At("disconnect") /\ Unmoved
  BY DEF Disconnect, Unmoved
<1>2. PICK a, b, x, y : /\ a = Frame("output", 0, NoArg) /\ b = Frame("complete", Top.op, NoArg) /\ x = <<a, b>>
                        /\ y = SessionLost(NoArg, "BrokerDisconnected")
  OBVIOUS
<1>3. Then(x \o y)
  BY <1>2 DEF Disconnect
<1>4. FrameOK(a) /\ a.do = "output" /\ LoopIn(a)
  BY <1>2, KeepAliveFrames, FrameFacts, LoopInLists
<1>5. FrameOK(b) /\ b.do = "complete" /\ b.op = Top.op /\ LoopIn(b)
  BY <1>2, FrameFacts, LoopInLists DEF Special
<1>6. Kind(Top, depth, client, op) /\ Top.do = "disconnect" /\ FrameOK(Top) /\ op' = op
  BY <1>1, TopKind, UnmovedFacts
<1>7. depth \in 1..2 /\ Top.op \in Handles /\ op'[Top.op].type = "disconnect" /\ Top.op # KeepAlive /\ Top.op \in Operations
  <2>1. Top.op \in Handles
    BY <1>6 DEF FrameOK
  <2> QED BY <1>6, <2>1, Numbers DEF Kind
<1>8. GoodList(x) /\ FramesOf(x) = {a, b} /\ x # <<>> /\ x[1] = a /\ x[2] = b /\ Len(x) = 2
  BY <1>2, <1>4, <1>5, ListOfTwo, TwoFrames DEF TopOnly
<1>9. GoodList(y) /\ (\A f \in FramesOf(y) : LoopIn(f) /\ f.do \notin TopOnly) /\ FlatList(y, depth, client', op')
  BY <1>2, <1>7, QuietSessionLost, LoopInLists, FlatSessionLost, SessionLostFacts
<1>10. PICK z : z = x \o y
  OBVIOUS
<1>11. GoodList(z) /\ FramesOf(z) = FramesOf(x) \cup FramesOf(y) /\ z # <<>> /\ z[1] = x[1]
  BY <1>8, <1>9, <1>10, ListOfLists
<1>12. FlatList(x, depth, client', op')
  <2>1. Kind(a, depth, client', op') /\ Kind(b, depth, client', op') /\ Delta(a) = 0 /\ Delta(b) = 0
    BY <1>4, <1>5, <1>7 DEF Kind, Steady, Deep, Single, Delta
  <2>2. Led(x, 1, client') /\ Led(x, 2, client')
    BY <1>4, <1>5, <1>8 DEF Led
  <2>3. \A i \in 1..2 : i = 1 \/ i = 2
    OBVIOUS
  <2> QED BY <1>8, <2>1, <2>2, <2>3 DEF FlatList
<1>13. FlatList(z, depth, client', op')
  BY <1>8, <1>9, <1>10, <1>12, FlatJoined DEF GoodList
<1>14. Then(z) /\ z[1].do = "output" /\ depth # 0 /\ \A f \in FramesOf(z) : LoopIn(f)
  BY <1>3, <1>4, <1>5, <1>7, <1>8, <1>9, <1>10, <1>11
<1> QED BY <1>1, <1>11, <1>13, <1>14, MainList DEF Weighty

LEMMA MainDeliver == ASSUME Base, Main, Deliver PROVE Main'
<1>1. At("deliver") /\ Unmoved
  BY DEF Deliver, Unmoved
<1>2. Kind(Top, depth, client, op) /\ Top.do = "deliver" /\ UNCHANGED <<ops, op, timers, depth>>
  BY <1>1, TopKind, UnmovedFacts
<1>3. depth = 1 /\ depth \in 1..3
  BY <1>2 DEF Kind, Single
<1>4. Len(ops) \in Nat
  BY TableBasics DEF Base, TableOK
<1>5. PICK n, a : n = Len(ops) /\ a = Loop("dispatch", Top.op, Top.arg, 1, n)
  OBVIOUS
<1>6. FrameOK(a) /\ a.do = "dispatch" /\ LoopIn(a)
  BY <1>4, <1>5, LoopIs DEF Special, LoopIn
<1>7. CASE client.networkDisconnected
  <2>1. Then(<<>>)
    BY <1>7 DEF Deliver
  <2> QED BY <1>1, <2>1, MainPop DEF Weighty
<1>8. CASE ~client.networkDisconnected /\ Top.arg = "garbage"
  <2>1. PICK x : x = SessionLost("ProtocolError", "ProtocolError")
    OBVIOUS
  <2>2. Then(x)
    BY <1>8, <2>1 DEF Deliver
  <2>3. GoodList(x) /\ x[1].do = "lost" /\ \A f \in FramesOf(x) : LoopIn(f)
    BY <2>1, SessionLostFacts, LoopInLists
  <2>4. FlatList(x, depth, client', op')
    BY <1>3, <2>1, FlatSessionLost
  <2> QED BY <1>1, <1>3, <2>2, <2>3, <2>4, MainList DEF Weighty
<1>9. CASE ~client.networkDisconnected /\ Top.arg # "garbage"
  <2>1. Then(<<a>>)
    BY <1>5, <1>9 DEF Deliver
  <2>2. Kind(a, depth, client', op')
    BY <1>3, <1>6 DEF Kind, Steady, Deep, Single
  <2> QED BY <1>1, <1>6, <2>1, <2>2, MainOne DEF Weighty
<1> QED BY <1>7, <1>8, <1>9


LEMMA HandlingFlat ==
    ASSUME NEW s \in Operations, NEW x, Handlings(x, s), NEW c, NEW o
    PROVE  FlatList(x, 1, c, o) /\ \A f \in FramesOf(x) : LoopIn(f)
<1>1. CASE x = <<>>
  BY <1>1, FlatLists, NoFrame
<1>2. ASSUME NEW a, x = <<a>>, a.do \in {"heard", "complete"}, a.do = "complete" => a.op = s /\ s # KeepAlive
      PROVE  FlatList(x, 1, c, o) /\ \A f \in FramesOf(x) : LoopIn(f)
  <2>1. Delta(a) = 0 /\ Kind(a, 1, c, o) /\ LoopIn(a)
    BY <1>2 DEF Delta, Kind, Steady, Deep, Single, LoopIn
  <2>2. a.do # "connectivity"
    BY <1>2
  <2>3. FlatList(x, 1, c, o)
    BY <1>2, <2>1, <2>2, FlatLists
  <2>4. FramesOf(x) = {a}
    BY <1>2, OneFrame
  <2> QED BY <2>1, <2>3, <2>4
<1>3. ASSUME NEW msg, x = <<Frame("heard", KeepAlive, msg)>>
      PROVE  FlatList(x, 1, c, o) /\ \A f \in FramesOf(x) : LoopIn(f)
  <2>1. PICK a : a = Frame("heard", KeepAlive, msg)
    OBVIOUS
  <2>2. a.do = "heard" /\ x = <<a>>
    BY <1>3, <2>1, FrameFacts
  <2> QED BY <1>2, <2>2
<1>4. ASSUME s # KeepAlive, NEW arg, NEW y, y = <<Frame("complete", s, arg)>>
      PROVE  FlatList(y, 1, c, o) /\ IsStack(y) /\ \A f \in FramesOf(y) : LoopIn(f)
  <2>1. PICK a : a = Frame("complete", s, arg)
    OBVIOUS
  <2>2. a.do = "complete" /\ a.op = s /\ y = <<a>>
    BY <1>4, <2>1, FrameFacts
  <2>3. Delta(a) = 0 /\ Kind(a, 1, c, o) /\ LoopIn(a)
    BY <1>4, <2>2 DEF Delta, Kind, Steady, Deep, Single, LoopIn
  <2>4. a.do # "connectivity"
    BY <2>2
  <2>5. FlatList(y, 1, c, o)
    BY <2>2, <2>3, <2>4, FlatLists
  <2>6. IsStack(y) /\ FramesOf(y) = {a}
    BY <2>2, OneFrame
  <2> QED BY <2>3, <2>5, <2>6
<1>5. ASSUME s # KeepAlive, NEW do \in {"connected", "refused"}, x = <<Frame(do, 0, NoArg), Frame("complete", s, "Complete")>>
      PROVE  FlatList(x, 1, c, o) /\ \A f \in FramesOf(x) : LoopIn(f)
  <2>1. PICK a, b : a = Frame(do, 0, NoArg) /\ b = Frame("complete", s, "Complete")
    OBVIOUS
  <2>2. a.do = do /\ b.do = "complete" /\ b.op = s /\ x = <<a, b>>
    BY <1>5, <2>1, FrameFacts
  <2>3. Delta(a) = 0 /\ Delta(b) = 0 /\ Kind(a, 1, c, o) /\ Kind(b, 1, c, o) /\ LoopIn(a) /\ LoopIn(b)
    BY <1>5, <2>2 DEF Delta, Kind, Steady, Deep, Single, LoopIn
  <2>4. Len(x) = 2 /\ x[1] = a /\ x[2] = b /\ FramesOf(x) = {a, b}
    BY <2>2, TwoFrames
  <2>5. Led(x, 1, c) /\ Led(x, 2, c) /\ \A i \in 1..2 : i = 1 \/ i = 2
    BY <2>2, <2>4 DEF Led
  <2> QED BY <2>3, <2>4, <2>5 DEF FlatList
<1>6. ASSUME s # KeepAlive, x = <<Frame("complete", s, "ProtocolError")>> \o SessionLost("ProtocolError", "BrokerDisconnected")
      PROVE  FlatList(x, 1, c, o) /\ \A f \in FramesOf(x) : LoopIn(f)
  <2>1. PICK y, z : y = <<Frame("complete", s, "ProtocolError")>> /\ z = SessionLost("ProtocolError", "BrokerDisconnected")
    OBVIOUS
  <2>2. FlatList(y, 1, c, o) /\ IsStack(y) /\ \A f \in FramesOf(y) : LoopIn(f)
    BY <1>4, <1>6, <2>1
  <2>3. FlatList(z, 1, c, o) /\ IsStack(z) /\ \A f \in FramesOf(z) : LoopIn(f)
    BY <2>1, FlatSessionLost, SessionLostFacts, LoopInLists DEF GoodList
  <2>4. x = y \o z
    BY <1>6, <2>1
  <2>5. FlatList(x, 1, c, o)
    BY <2>2, <2>3, <2>4, FlatJoined
  <2>6. FramesOf(x) = FramesOf(y) \cup FramesOf(z)
    BY <2>2, <2>3, <2>4, JoinStack
  <2> QED BY <2>2, <2>3, <2>5, <2>6
<1> QED BY <1>1, <1>3, <1>4, <1>5, <1>6 DEF Handlings

LEMMA MainDispatch == ASSUME Base, Main, Dispatch PROVE Main'
<1>1. At("dispatch") /\ Unmoved
  BY DEF Dispatch, Unmoved
<1>2. /\ Kind(Top, depth, client, op) /\ Top.do = "dispatch" /\ FrameOK(Top) /\ Top \in FramesOf(stack) /\ stack # <<>>
      /\ UNCHANGED <<ops, op, timers, depth>> /\ SameSession /\ client'.opsDeleted = client.opsDeleted /\ Onward
  BY <1>1, TopKind, TopFacts, UnmovedFacts
<1>3. depth = 1
  BY <1>2 DEF Kind, Single
<1>4. PICK g, y : g = [Top EXCEPT !.idx = @ + 1] /\ y = <<g>>
  OBVIOUS
<1>5. FrameOK(g) /\ g.do = "dispatch" /\ g.idx = Top.idx + 1 /\ g.end = Top.end
  BY <1>2, <1>4, NextIndex DEF Special
<1>6. Top.end <= Len(ops) /\ Top.idx >= 1 /\ Top.idx \in Nat /\ Top.end \in Nat /\ Len(ops) \in Nat
  BY <1>2, TableBasics DEF Main, Parts, Loops, LoopIn, FrameOK, Base, TableOK
<1>7. LoopIn(g)
  BY <1>5, <1>6 DEF LoopIn
<1>8. CASE client.disconnecting \/ Top.idx > Top.end
  <2>1. Then(<<>>)
    BY <1>8 DEF Dispatch
  <2> QED BY <1>1, <2>1, MainPop DEF Weighty
<1>9. CASE ~(client.disconnecting \/ Top.idx > Top.end)
  <2>1. PICK s, x : s = ops[Top.idx] /\ x = (IF s = 0 THEN <<>> ELSE Handling(s, Top.op, Top.arg))
    OBVIOUS
  <2>2. PICK z : z = x \o y
    OBVIOUS
  <2>3. Then(z)
    BY <1>4, <1>9, <2>1, <2>2 DEF Dispatch
  <2>4. Top.idx \in 1..Len(ops)
    BY <1>6, <1>9
  <2>5. s # 0 => s \in Live /\ s \in Operations /\ ~Over(client)
    <3>1. s # 0 => s \in Live /\ s \in Operations
      BY <2>1, <2>4, TableBasics, TableFacts DEF Base, TableOK
    <3>2. ops # <<>>
      BY <1>6, <2>4, NoFrame
    <3>3. ~Over(client)
      BY <1>9, <3>2 DEF Main, Parts, Ended
    <3> QED BY <3>1, <3>3
  <2>6. GoodList(x) /\ IsStack(x) /\ FlatList(x, 1, client', op') /\ (\A f \in FramesOf(x) : LoopIn(f)) /\ (s # 0 => Handlings(x, s))
    <3>1. CASE s = 0
      BY <2>1, <3>1, ListOfNone, FlatLists, NoFrame
    <3>2. CASE s # 0
      <4>1. Handlings(x, s)
        BY <2>1, <3>2, HandlingCases
      <4> QED BY <2>5, <3>2, <4>1, QuietHandling, HandlingFlat DEF Quiet, GoodList
    <3> QED BY <3>1, <3>2
  <2>7. GoodList(y) /\ IsStack(y) /\ FramesOf(y) = {g} /\ FlatList(y, 1, client', op') /\ y # <<>> /\ y[1] = g
    <3>1. Kind(g, 1, client', op') /\ Delta(g) = 0
      BY <1>5 DEF Kind, Steady, Deep, Single, Delta
    <3> QED BY <1>4, <1>5, <3>1, ListOfOne, FlatLists DEF GoodList
  <2>8. /\ GoodList(z) /\ IsStack(z) /\ FramesOf(z) = FramesOf(x) \cup {g}
        /\ x # <<>> => z # <<>> /\ z[1] = x[1]
        /\ x = <<>> => z = y
    <3>1. \A f \in FramesOf(y) : x # <<>> => f.do \notin TopOnly
      BY <1>5, <2>7 DEF TopOnly
    <3>2. GoodList(x) /\ GoodList(y) /\ z = x \o y
      BY <2>2, <2>6, <2>7
    <3>3. /\ GoodList(z) /\ FramesOf(z) = FramesOf(x) \cup FramesOf(y)
          /\ x # <<>> => z # <<>> /\ z[1] = x[1]
          /\ x = <<>> => z = y
      BY <3>1, <3>2, ListOfLists
    <3> QED BY <2>7, <3>3 DEF GoodList
  <2>9. FlatList(z, depth, client', op')
    BY <1>3, <2>2, <2>6, <2>7, FlatJoined
  <2>10. AllPlaced'
    BY <1>1, <1>2, <1>3, <2>3, <2>8, <2>9, FlatThen DEF Main
  <2>11. Answer'
    <3>1. CASE x = <<>>
      <4>1. stack' # <<>> => Top' = g
        BY <1>1, <2>3, <2>7, <2>8, <3>1, ThenFrames
      <4> QED BY <1>5, <4>1, NoAnswer
    <3>2. CASE x # <<>> /\ x[1].do \notin {"connected", "refused"}
      <4>1. Top' = x[1]
        BY <1>1, <2>3, <2>8, <3>2, ThenFrames
      <4> QED BY <3>2, <4>1, NoAnswer
    <3>3. CASE x # <<>> /\ x[1].do \in {"connected", "refused"}
      <4>1. s # 0
        BY <2>1, <3>3
      <4>2. /\ s # KeepAlive /\ op[s].type = "connect"
            /\ \E do \in {"connected", "refused"} : x = <<Frame(do, 0, NoArg), Frame("complete", s, "Complete")>>
        <5>1. ASSUME NEW do, NEW a, NEW arg, x = <<Frame(do, a, arg)>> PROVE x[1].do = do
          BY <5>1, FrameFacts
        <5>2. ASSUME x = <<Frame("complete", s, "ProtocolError")>> \o SessionLost("ProtocolError", "BrokerDisconnected")
              PROVE  x[1].do = "complete"
          <6>1. PICK v, w : v = <<Frame("complete", s, "ProtocolError")>> /\ w = SessionLost("ProtocolError", "BrokerDisconnected")
            OBVIOUS
          <6>2. IsStack(v) /\ IsStack(w) /\ v[1].do = "complete" /\ Len(v) = 1 /\ x = v \o w
            BY <5>2, <6>1, OneFrame, FrameFacts, SessionLostFacts DEF GoodList
          <6>3. \A i \in 1..Len(v) : x[i] = v[i]
            BY <6>2, JoinStack
          <6> QED BY <6>2, <6>3
        <5> QED BY <2>6, <3>3, <4>1, <5>1, <5>2 DEF Handlings
      <4>3. s \in OfType("connect") /\ ~client.connected /\ ~Over(client)
        <5>1. s \in OfType("connect")
          BY <2>5, <4>1, <4>2 DEF OfType
        <5> QED BY <1>2, <2>5, <4>1, <5>1 DEF Main, Parts, Agrees
      <4>4. Len(x) = 2 /\ x[2].do = "complete" /\ x[2].op = s
        <5>1. PICK a, b : x = <<a, b>> /\ b = Frame("complete", s, "Complete")
          BY <4>2
        <5> QED BY <5>1, TwoFrames, FrameFacts
      <4>5. Len(stack') > 1 /\ stack'[2] = x[2]
        <5>1. PICK r, u : r = Tail(stack) /\ u = stack'
          OBVIOUS
        <5>2. IsStack(r) /\ u = z \o r
          BY <1>2, <2>3, <5>1, TailStack DEF Then, Base, GoodList
        <5>3. Len(z) = Len(x) + Len(y) /\ \A i \in 1..Len(x) : z[i] = x[i]
          BY <2>2, <2>6, <2>7, JoinStack
        <5>4. Len(y) = 1 /\ Len(r) \in Nat
          BY <1>4, <5>2, OneFrame, StackBasics
        <5>5. Len(u) = Len(z) + Len(r) /\ \A i \in 1..Len(z) : u[i] = z[i]
          BY <2>8, <5>2, JoinStack
        <5>6. Len(z) = 3
          BY <4>4, <5>3, <5>4
        <5>7. Len(u) > 1 /\ u[2] = z[2] /\ z[2] = x[2]
          BY <4>4, <5>3, <5>4, <5>5, <5>6
        <5> QED BY <5>1, <5>7
      <4>6. OfType("connect")' = OfType("connect") /\ ~client'.connected /\ ~Over(client')
        BY <1>2, <4>3 DEF OfType, Live, Over, SameSession
      <4> QED BY <4>3, <4>4, <4>5, <4>6 DEF Answer
    <3> QED BY <3>1, <3>2, <3>3
  <2>12. Parts'
    <3>1. Leaves({"dispatch"}) /\ \A f \in FramesOf(stack') : f \in FramesOf(stack) \/ LoopIn(f)
      BY <1>1, <1>7, <2>3, <2>6, <2>8, ThenFrames
    <3>2. \A do \in Weighty : do \notin {"dispatch"}
      BY DEF Weighty
    <3> QED BY <1>2, <2>11, <3>1, <3>2, PlainKept DEF Main
  <2> QED BY <2>10, <2>12 DEF Main
<1> QED BY <1>8, <1>9


\* Steps that leave the table alone and wait for a timer, or handle one that has expired.
LEMMA MainTimers ==
    ASSUME Base, Main, NEW do, At(do), do \notin {"enter", "exit", "complete", "terminate", "lost"},
           NEW x, GoodList(x), Then(x), UNCHANGED <<ops, op, client, depth>>,
           x # <<>> => x[1].do \notin {"connected", "refused"}, \A f \in FramesOf(x) : LoopIn(f),
           FlatList(x, depth, client', op'), depth = 0 => \A f \in FramesOf(x) : f.do \in Steady,
           \A s \in Live : IsRequest(s) /\ (<<s, "response">> \in Active(timers) \/ Holds(Top, s)) => Held(s)',
           client.connected /\ ((\E n \in KeepAliveNames : <<KeepAlive, n>> \in Active(timers)) \/ HoldsAlive(Top)) => HeldAlive'
    PROVE  Main'
<1>1. FramesOf(stack') = FramesOf(x) \cup Below(stack) /\ FramesOf(stack) = {Top} \cup Below(stack)
  BY ThenFrames
<1>2. stack # <<>> /\ Top.do = do
  BY TopFacts
<1>3. Answer'
  <2>1. stack' # <<>> /\ Top'.do \in TopOnly => x # <<>> /\ Top' = x[1]
    BY ThenFrames
  <2> QED BY <2>1, NoAnswer DEF TopOnly
<1>4. \A f \in FramesOf(stack') : f \in FramesOf(stack) \/ LoopIn(f)
  BY <1>1
<1>5. \A s \in Live : Doomed(s) => Doomed(s)'
  <2>1. ASSUME NEW s \in Live, NEW f \in FramesOf(stack), Dooms(f, s) PROVE Doomed(s)'
    <3>1. f \in FramesOf(stack')
      BY <1>1, <1>2, <2>1 DEF Dooms
    <3>2. Dooms(f, s)'
      BY <2>1 DEF Dooms
    <3> QED BY <3>1, <3>2 DEF Doomed
  <2> QED BY <2>1 DEF Doomed
<1>6. ASSUME NEW s \in Live, IsRequest(s), Held(s) PROVE Held(s)'
  <2>1. ASSUME NEW f \in Below(stack), Holds(f, s) PROVE Held(s)'
    BY <1>1, <2>1 DEF Held, Holds
  <2> QED BY <1>1, <1>6, <2>1 DEF Held
<1>7. ASSUME client.connected, HeldAlive PROVE HeldAlive'
  <2>1. ASSUME NEW f \in Below(stack), HoldsAlive(f) PROVE HeldAlive'
    BY <1>1, <2>1 DEF HeldAlive, HoldsAlive
  <2> QED BY <1>1, <1>7, <2>1 DEF HeldAlive
<1>8. Parts'
  <2>1. SameSession /\ client'.opsDeleted = client.opsDeleted /\ (depth' = 0 => depth = 0) /\ UNCHANGED <<ops, op>>
    BY DEF SameSession
  <2> QED BY <1>2, <1>3, <1>4, <1>5, <1>6, <1>7, <2>1, PartsKept DEF Main
<1>9. AllPlaced'
  BY FlatThen DEF Main, GoodList, Onward
<1> QED BY <1>8, <1>9 DEF Main

LEMMA KeepAliveNoRequest == ASSUME Base PROVE ~IsRequest(KeepAlive)
  BY DEF Base, TableOK, IsRequest, Requests

LEMMA MainWait == ASSUME Base, Told, Main, Wait, Top.op \in Live PROVE Main'
<1>1. At("wait") /\ Then(<<>>) /\ UNCHANGED <<ops, op, client, depth>>
  BY DEF Wait
<1>2. stack # <<>> /\ Top.do = "wait" /\ FrameOK(Top) /\ Top \in FramesOf(stack)
  BY <1>1, TopFacts
<1>3. PICK s, n : s = Top.op /\ n = Top.arg
  OBVIOUS
<1>4. s \in Live /\ timers' = TimerWait(timers, s, n, 0)
  BY <1>3 DEF Wait
<1>5. (s = KeepAlive /\ n = "resp") \/ (s \in Handles /\ n = "response")
  BY <1>2, <1>3 DEF FrameOK
<1>6. s \in Handles => IsRequest(s)
  BY <1>2, <1>3 DEF Told, ToldOf, Waiting
<1>7. <<s, n>> \in Keys(timers)
  BY <1>4, <1>5, <1>6, TableFacts DEF Base, IsRequest, KeepAliveNames
<1>8. Active(timers') = Active(timers) \cup {<<s, n>>}
  BY <1>1, <1>4, <1>7, WaitTable DEF Base
<1>9. ASSUME NEW r \in Live, IsRequest(r), <<r, "response">> \in Active(timers) \/ Holds(Top, r) PROVE Held(r)'
  <2>1. Holds(Top, r) => r = s /\ n = "response"
    BY <1>3, <1>5, <1>9, KeepAliveNoRequest DEF Holds
  <2>2. <<r, "response">> \in Active(timers')
    BY <1>8, <1>9, <2>1
  <2> QED BY <2>2 DEF Held
<1>10. ASSUME (\E m \in KeepAliveNames : <<KeepAlive, m>> \in Active(timers)) \/ HoldsAlive(Top) PROVE HeldAlive'
  <2>1. HoldsAlive(Top) => s = KeepAlive /\ n = "resp"
    BY <1>2, <1>3, <1>5, Numbers DEF HoldsAlive
  <2>2. \E m \in KeepAliveNames : <<KeepAlive, m>> \in Active(timers')
    BY <1>8, <1>10, <2>1 DEF KeepAliveNames
  <2> QED BY <2>2 DEF HeldAlive
<1> QED BY <1>1, <1>9, <1>10, MainTimers, ListOfNone, FlatLists

LEMMA MainMessageSent == ASSUME Base, Main, MessageSent PROVE Main'
<1>1. At("sent") /\ Then(<<>>) /\ UNCHANGED <<ops, op, client, depth>>
  BY DEF MessageSent
<1>2. Top.do = "sent"
  BY <1>1, TopFacts
<1>3. Active(timers) \subseteq Active(timers')
  <2>1. CASE KeepAlive \in Live
    <3>1. timers' = TimerWait(timers, KeepAlive, "ping", 0)
      BY <2>1 DEF MessageSent
    <3>2. <<KeepAlive, "ping">> \in Keys(timers)
      BY <2>1, TableFacts DEF Base, KeepAliveNames
    <3> QED BY <1>1, <2>1, <3>1, <3>2, WaitTable DEF Base
  <2>2. CASE KeepAlive \notin Live
    BY <2>2 DEF MessageSent
  <2> QED BY <2>1, <2>2
<1>4. ~HoldsAlive(Top) /\ \A s : ~Holds(Top, s)
  BY <1>2 DEF HoldsAlive, Holds
<1>5. \A s : <<s, "response">> \in Active(timers) => Held(s)'
  BY <1>3 DEF Held
<1>6. (\E n \in KeepAliveNames : <<KeepAlive, n>> \in Active(timers)) => HeldAlive'
  BY <1>3 DEF HeldAlive
<1> QED BY <1>1, <1>4, <1>5, <1>6, MainTimers, ListOfNone, FlatLists

LEMMA MainHeard == ASSUME Base, Main, Heard, Top.op \in Live PROVE Main'
<1>1. At("heard") /\ Then(<<>>) /\ UNCHANGED <<ops, op, client, depth>>
  BY DEF Heard
<1>2. Top.do = "heard" /\ Top.op = KeepAlive
  BY <1>1, TopFacts DEF FrameOK
<1>3. /\ <<KeepAlive, "recv">> \in Active(timers')
      /\ \A k \in Active(timers) : k[1] # KeepAlive => k \in Active(timers')
  <2>1. timers' = TimerWait(IF Top.arg = "PINGRESP" THEN TimerCancel(timers, KeepAlive, "resp") ELSE timers,
                            KeepAlive, "recv", 0)
    BY <1>2 DEF Heard
  <2> QED BY <1>1, <1>2, <2>1, HeardTable DEF Base
<1>4. \A s : ~Holds(Top, s)
  BY <1>2 DEF Holds
<1>5. ASSUME NEW s \in Live, IsRequest(s), <<s, "response">> \in Active(timers) PROVE Held(s)'
  <2>1. s # KeepAlive
    BY <1>5, KeepAliveNoRequest
  <2>2. <<s, "response">>[1] = s
    OBVIOUS
  <2>3. <<s, "response">> \in Active(timers')
    BY <1>3, <1>5, <2>1, <2>2
  <2> QED BY <2>3 DEF Held
<1>6. HeldAlive'
  <2>1. \E n \in KeepAliveNames : <<KeepAlive, n>> \in Active(timers')
    BY <1>3 DEF KeepAliveNames
  <2> QED BY <2>1 DEF HeldAlive
<1> QED BY <1>1, <1>4, <1>5, <1>6, MainTimers, ListOfNone, FlatLists

LEMMA MainExpired == ASSUME Base, Main, Expired, Top.op \in Live PROVE Main'
<1>1. At("expired") /\ UNCHANGED <<ops, op, client, depth, timers>>
  BY DEF Expired
<1>2. Kind(Top, depth, client, op) /\ Top.do = "expired" /\ FrameOK(Top)
  BY <1>1, TopKind
<1>3. depth = 1 /\ depth \in 1..3
  BY <1>2 DEF Kind, Single
<1>4. (Top.op = KeepAlive /\ Top.arg \in KeepAliveNames) \/ (Top.op \in Handles /\ Top.arg = "response")
  BY <1>2 DEF FrameOK
<1>5. \A s : <<s, "response">> \in Active(timers) => Held(s)'
  BY <1>1 DEF Held
<1>6. (\E n \in KeepAliveNames : <<KeepAlive, n>> \in Active(timers)) => HeldAlive'
  BY <1>1 DEF HeldAlive
<1>7. CASE Top.arg = "response"
  <2>1. PICK a, x : a = Frame("complete", Top.op, "Timeout") /\ x = <<a>>
    OBVIOUS
  <2>2. FrameOK(a) /\ a.do = "complete" /\ a.op = Top.op /\ LoopIn(a)
    BY <2>1, FrameFacts, LoopInLists DEF Special
  <2>3. Then(x)
    BY <1>7, <2>1 DEF Expired
  <2>4. Top.op \in Handles /\ Top.op # KeepAlive /\ Top.op \in Operations
    BY <1>4, <1>7, Numbers DEF KeepAliveNames
  <2>5. GoodList(x) /\ FramesOf(x) = {a} /\ x # <<>> /\ x[1] = a
    BY <2>1, <2>2, ListOfOne
  <2>6. FlatList(x, depth, client', op')
    <3>1. Delta(a) = 0 /\ Kind(a, depth, client', op')
      BY <1>3, <2>2, <2>4 DEF Kind, Steady, Deep, Single, Delta
    <3>2. a.do # "connectivity"
      BY <2>2
    <3> QED BY <2>1, <3>1, <3>2, FlatLists
  <2>7. a \in FramesOf(stack')
    BY <1>1, <2>3, <2>5, ThenFrames
  <2>8. \A s : Holds(Top, s) => Held(s)'
    BY <2>2, <2>7 DEF Holds, Held
  <2>9. ~HoldsAlive(Top)
    BY <1>2, <2>4 DEF HoldsAlive
  <2>10. x[1].do \notin {"connected", "refused"} /\ (\A f \in FramesOf(x) : LoopIn(f)) /\ depth # 0
    BY <1>3, <2>2, <2>5
  <2> QED BY <1>1, <1>5, <1>6, <2>3, <2>5, <2>6, <2>8, <2>9, <2>10, MainTimers
<1>8. CASE Top.arg # "response"
  <2>1. Top.op = KeepAlive /\ Top.arg \in KeepAliveNames /\ KeepAlive \in Live
    BY <1>4, <1>8
  <2>2. \A s : IsRequest(s) => ~Holds(Top, s)
    BY <2>1, KeepAliveNoRequest DEF Holds
  <2>3. CASE Top.arg = "resp"
    <3>1. PICK x : x = SessionLost("NoBrokerResponse", "BrokerDisconnected")
      OBVIOUS
    <3>2. Then(x)
      BY <2>3, <3>1 DEF Expired
    <3>3. GoodList(x) /\ x[1].do = "lost" /\ x[1] \in FramesOf(x) /\ \A f \in FramesOf(x) : LoopIn(f)
      BY <3>1, SessionLostFacts, LoopInLists
    <3>4. FlatList(x, depth, client', op')
      BY <1>3, <3>1, FlatSessionLost
    <3>5. HeldAlive'
      <4>1. x[1] \in FramesOf(stack')
        BY <1>1, <3>2, <3>3, ThenFrames
      <4> QED BY <3>3, <4>1 DEF HeldAlive, HoldsAlive
    <3>6. x[1].do \notin {"connected", "refused"} /\ depth # 0
      BY <1>3, <3>3
    <3> QED BY <1>1, <1>5, <2>2, <3>2, <3>3, <3>4, <3>5, <3>6, MainTimers
  <2>4. CASE Top.arg # "resp" /\ TimerIsActive(timers, KeepAlive, "resp")
    <3>1. Then(<<>>)
      BY <1>8, <2>1, <2>4 DEF Expired, KeepAliveNames
    <3>2. <<KeepAlive, "resp">> \in Active(timers)
      <4>1. <<KeepAlive, "resp">> \in Keys(timers) /\ TimersOK(timers)
        BY <2>1, TableFacts DEF Base, TableOK, KeepAliveNames
      <4> QED BY <2>4, <4>1, ActiveFacts
    <3>3. HeldAlive'
      BY <1>6, <3>2 DEF KeepAliveNames
    <3> QED BY <1>1, <1>5, <2>2, <3>1, <3>3, MainTimers, ListOfNone, FlatLists
  <2>5. CASE Top.arg # "resp" /\ ~TimerIsActive(timers, KeepAlive, "resp")
    <3>1. PICK a, b, x : a = Frame("output", 0, NoArg) /\ b = Frame("wait", KeepAlive, "resp") /\ x = <<a, b>>
      OBVIOUS
    <3>2. Then(x)
      BY <1>8, <2>5, <3>1 DEF Expired
    <3>3. FrameOK(a) /\ a.do = "output" /\ FrameOK(b) /\ b.do = "wait" /\ b.op = KeepAlive /\ LoopIn(a) /\ LoopIn(b)
      BY <3>1, FrameFacts, KeepAliveFrames, LoopInLists
    <3>4. GoodList(x) /\ FramesOf(x) = {a, b} /\ x # <<>> /\ x[1] = a /\ x[2] = b /\ Len(x) = 2
      BY <3>1, <3>3, ListOfTwo, TwoFrames DEF TopOnly
    <3>5. FlatList(x, depth, client', op')
      <4>1. Kind(a, depth, client', op') /\ Kind(b, depth, client', op') /\ Delta(a) = 0 /\ Delta(b) = 0
        BY <1>3, <3>3 DEF Kind, Steady, Deep, Single, Delta
      <4>2. Led(x, 1, client') /\ Led(x, 2, client')
        BY <3>3, <3>4 DEF Led
      <4>3. \A i \in 1..2 : i = 1 \/ i = 2
        OBVIOUS
      <4> QED BY <3>4, <4>1, <4>2, <4>3 DEF FlatList
    <3>6. HeldAlive'
      <4>1. b \in FramesOf(stack')
        BY <1>1, <3>2, <3>4, ThenFrames
      <4> QED BY <3>3, <4>1 DEF HeldAlive, HoldsAlive
    <3>7. x[1].do \notin {"connected", "refused"} /\ (\A f \in FramesOf(x) : LoopIn(f)) /\ depth # 0
      BY <1>3, <3>3, <3>4
    <3> QED BY <1>1, <1>5, <2>2, <3>2, <3>4, <3>5, <3>6, <3>7, MainTimers
  <2> QED BY <2>3, <2>4, <2>5
<1> QED BY <1>7, <1>8


LEMMA MainTerminate == ASSUME Base, Main, TerminateOps PROVE Main'
<1>1. At("terminate") /\ Unmoved
  BY DEF TerminateOps, Unmoved
<1>2. /\ Kind(Top, depth, client, op) /\ Top.do = "terminate" /\ FrameOK(Top) /\ Top \in FramesOf(stack) /\ stack # <<>>
      /\ depth \in 0..4
  BY <1>1, TopKind, TopFacts
<1>3. /\ UNCHANGED <<ops, op, timers, depth>> /\ SameSession /\ client'.opsDeleted = client.opsDeleted /\ Onward
      /\ (Over(client') <=> Over(client)) /\ (Gone(client') <=> Gone(client))
  BY <1>1, UnmovedFacts
<1>4. Over(client) /\ depth \in 1..3 /\ ~client.connected /\ (depth >= 2 => Gone(client))
  BY <1>2 DEF Kind, Deep, Main, Parts, Ended
<1>5. Top.end <= Len(ops) /\ Top.idx >= 1 /\ Top.idx \in Nat /\ Top.end \in Nat /\ Len(ops) \in Nat
  BY <1>2, TableBasics DEF Main, Parts, Loops, LoopIn, FrameOK, Base, TableOK
<1>6. ASSUME NEW x, GoodList(x), Then(x), x # <<>> => x[1].do \notin {"connected", "refused"}, \A f \in FramesOf(x) : LoopIn(f),
             \A s \in Live : Dooms(Top, s) => \E f \in FramesOf(x) : Dooms(f, s)
      PROVE  Parts'
  <2>1. FramesOf(stack') = FramesOf(x) \cup Below(stack) /\ FramesOf(stack) = {Top} \cup Below(stack) /\ Leaves({"terminate"})
    BY <1>1, <1>6, ThenFrames
  <2>2. Answer'
    <3>1. stack' # <<>> /\ Top'.do \in TopOnly => x # <<>> /\ Top' = x[1]
      BY <1>1, <1>6, ThenFrames
    <3> QED BY <1>6, <3>1, NoAnswer DEF TopOnly
  <2>3. \A f, s : Dooms(f, s) => Dooms(f, s)'
    BY <1>3 DEF Dooms
  <2>4. \A s \in Live : Doomed(s) => Doomed(s)'
    BY <1>6, <2>1, <2>3 DEF Doomed
  <2>5. \A s \in Live : Held(s) => Held(s)'
    BY <1>3, <2>1, HeldKept
  <2>6. \A f \in FramesOf(stack') : f \in FramesOf(stack) \/ LoopIn(f)
    BY <1>6, <2>1
  <2>7. UNCHANGED <<ops, op>> /\ (depth' = 0 => depth = 0)
    BY <1>3
  <2> QED BY <1>2, <1>3, <1>4, <2>2, <2>4, <2>5, <2>6, <2>7, PartsKept DEF Main
<1>7. CASE Top.idx > Top.end
  <2>1. Then(<<>>)
    BY <1>7 DEF TerminateOps
  <2>2. \A s \in Live : ~Dooms(Top, s)
    BY <1>2, <1>5, <1>7 DEF Dooms
  <2>3. Parts'
    BY <1>6, <2>1, <2>2, ListOfNone
  <2>4. AllPlaced'
    BY <1>1, <1>3, <2>1, FlatPop DEF Main
  <2> QED BY <2>3, <2>4 DEF Main
<1>8. CASE ~(Top.idx > Top.end)
  <2>1. PICK g, s, a, x, y, z : /\ g = [Top EXCEPT !.idx = @ + 1] /\ s = ops[Top.idx] /\ a = Frame("complete", s, Top.arg)
                                /\ x = (IF s = 0 THEN <<>> ELSE <<a>>) /\ y = <<g>> /\ z = x \o y
    OBVIOUS
  <2>2. Then(z)
    BY <1>8, <2>1 DEF TerminateOps
  <2>3. FrameOK(g) /\ g.do = "terminate" /\ g.idx = Top.idx + 1 /\ g.end = Top.end
    BY <1>2, <2>1, NextIndex DEF Special
  <2>4. LoopIn(g)
    BY <1>5, <2>3 DEF LoopIn
  <2>5. FrameOK(a) /\ a.do = "complete" /\ a.op = s /\ LoopIn(a)
    BY <2>1, FrameFacts, LoopInLists DEF Special
  <2>6. Top.idx \in 1..Len(ops)
    BY <1>5, <1>8
  <2>7. s # 0 => s \in Operations
    BY <2>1, <2>6, TableBasics DEF Base, TableOK
  <2>8. GoodList(y) /\ IsStack(y) /\ FramesOf(y) = {g} /\ FlatList(y, depth, client', op') /\ y # <<>> /\ y[1] = g
    <3>1. Kind(g, depth, client', op') /\ Delta(g) = 0
      BY <1>2, <1>3, <1>4, <2>3 DEF Kind, Steady, Deep, Single, Delta
    <3>2. g.do # "connectivity"
      BY <2>3
    <3>3. FlatList(y, depth, client', op')
      BY <2>1, <3>1, <3>2, FlatLists
    <3> QED BY <2>1, <2>3, <3>3, ListOfOne DEF GoodList
  <2>9. /\ GoodList(x) /\ IsStack(x) /\ FlatList(x, depth, client', op') /\ (s = 0 => x = <<>>)
        /\ (s # 0 => FramesOf(x) = {a} /\ x # <<>> /\ x[1] = a) /\ \A f \in FramesOf(x) : f = a
    <3>1. CASE s = 0
      BY <2>1, <3>1, ListOfNone, FlatLists, NoFrame
    <3>2. CASE s # 0
      <4>1. Kind(a, depth, client', op') /\ Delta(a) = 0
        BY <1>2, <1>3, <1>4, <2>5, <2>7, <3>2 DEF Kind, Steady, Deep, Single, Delta
      <4>2. a.do # "connectivity" /\ x = <<a>>
        BY <2>1, <2>5, <3>2
      <4>3. FlatList(x, depth, client', op')
        BY <4>1, <4>2, FlatLists
      <4>4. GoodList(x) /\ FramesOf(x) = {a} /\ x # <<>> /\ x[1] = a
        BY <2>5, <4>2, ListOfOne
      <4> QED BY <3>2, <4>3, <4>4 DEF GoodList
    <3> QED BY <3>1, <3>2
  <2>10. /\ GoodList(z) /\ FramesOf(z) = FramesOf(x) \cup {g}
         /\ x # <<>> => z # <<>> /\ z[1] = x[1]
         /\ x = <<>> => z = y
    <3>1. \A f \in FramesOf(y) : x # <<>> => f.do \notin TopOnly
      BY <2>3, <2>8 DEF TopOnly
    <3>2. GoodList(x) /\ GoodList(y) /\ z = x \o y
      BY <2>1, <2>8, <2>9
    <3>3. /\ GoodList(z) /\ FramesOf(z) = FramesOf(x) \cup FramesOf(y)
          /\ x # <<>> => z # <<>> /\ z[1] = x[1]
          /\ x = <<>> => z = y
      BY <3>1, <3>2, ListOfLists
    <3> QED BY <2>8, <3>3
  <2>11. FlatList(z, depth, client', op')
    <3>1. z = x \o y
      BY <2>1
    <3> QED BY <2>8, <2>9, <3>1, FlatJoined
  <2>12. AllPlaced'
    BY <1>1, <1>3, <1>4, <2>2, <2>10, <2>11, FlatThen DEF Main, GoodList
  <2>13. ASSUME NEW r \in Live, Dooms(Top, r) PROVE \E f \in FramesOf(z) : Dooms(f, r)
    <3>1. PICK p \in 1..Len(ops) : Top.idx <= p /\ p <= Top.end /\ ops[p] = r
      BY <1>2, <2>13 DEF Dooms
    <3>2. r # 0
      BY DEF Live
    <3>3. CASE p = Top.idx
      <4>1. s = r /\ a \in FramesOf(z)
        BY <2>1, <2>9, <2>10, <3>1, <3>2, <3>3
      <4> QED BY <2>5, <4>1 DEF Dooms
    <3>4. CASE p # Top.idx
      <4>1. g.idx <= p /\ p <= g.end
        BY <1>5, <2>3, <3>1, <3>4
      <4>2. Dooms(g, r)
        BY <2>3, <3>1, <4>1 DEF Dooms
      <4> QED BY <2>10, <4>2
    <3> QED BY <3>3, <3>4
  <2>14. z # <<>> => z[1].do \notin {"connected", "refused"}
    BY <2>3, <2>5, <2>8, <2>9, <2>10
  <2>15. \A f \in FramesOf(z) : LoopIn(f)
    BY <2>4, <2>5, <2>9, <2>10
  <2>16. Parts'
    BY <1>6, <2>2, <2>10, <2>13, <2>14, <2>15
  <2> QED BY <2>12, <2>16 DEF Main
<1> QED BY <1>7, <1>8

\* The end of a session: everything that is left of it is in the loop that follows.
LEMMA MainLost == ASSUME Base, LockHeld, Main, Lost PROVE Main'
<1>1. At("lost") /\ UNCHANGED <<ops, op, depth, timers>>
  BY DEF Lost
<1>2. /\ Kind(Top, depth, client, op) /\ Top.do = "lost" /\ FrameOK(Top) /\ Top \in FramesOf(stack) /\ stack # <<>>
      /\ depth \in 0..4
  BY <1>1, TopKind, TopFacts
<1>3. depth >= 1
  BY <1>2 DEF Kind, Deep
<1>4. ~client'.initialized /\ ~client'.connected /\ client'.disconnecting /\ client'.opsDeleted = client.opsDeleted
  BY DEF Lost, Base, ValuesOK, ClientType
<1>5. Over(client') /\ Gone(client') /\ Onward
  BY <1>1, <1>4 DEF Over, Gone, Onward
<1>6. Prepared = {}
  BY <1>2, NotPrepared
<1>7. PICK n, a, x : n = Len(ops) /\ a = Loop("terminate", 0, Top.arg, 1, n) /\ x = <<a>>
  OBVIOUS
<1>8. n \in Nat
  BY <1>7, TableBasics DEF Base, TableOK
<1>9. FrameOK(a) /\ a.do = "terminate" /\ a.idx = 1 /\ a.end = n
  BY <1>7, <1>8, LoopIs DEF Special
<1>10. Then(x) /\ GoodList(x) /\ FramesOf(x) = {a} /\ x # <<>> /\ x[1] = a
  BY <1>7, <1>9, ListOfOne DEF Lost
<1>11. FramesOf(stack') = {a} \cup Below(stack) /\ FramesOf(stack) = {Top} \cup Below(stack) /\ Leaves({"lost"}) /\ Top' = a
  BY <1>1, <1>10, ThenFrames
<1>12. Loops'
  <2>1. LoopIn(a)
    BY <1>7, <1>9 DEF LoopIn
  <2>2. \A f \in FramesOf(stack') : f \in FramesOf(stack) \/ LoopIn(f)
    BY <1>11, <2>1
  <2> QED BY <1>1, <2>2, LoopsKept DEF Main, Parts
<1>13. Marked'
  BY <1>1, <1>4 DEF Main, Parts, Marked
<1>14. Live' = Live /\ Prepared' = {}
  BY <1>1, <1>6 DEF Live, Prepared
<1>15. ASSUME NEW s \in Live PROVE Doomed(s)'
  <2>1. PICK p \in 1..Len(ops) : ops[p] = s
    BY TableBasics, LivePrimed DEF Base, TableOK
  <2>2. a.idx <= p /\ p <= a.end
    BY <1>7, <1>8, <1>9, <2>1
  <2>3. Dooms(a, s)'
    BY <1>1, <1>9, <2>1, <2>2 DEF Dooms
  <2> QED BY <1>11, <2>3 DEF Doomed
<1>16. Ended'
  BY <1>1, <1>3, <1>4, <1>5, <1>14, <1>15 DEF Ended
<1>17. Agrees'
  BY <1>5 DEF Agrees
<1>18. Answer'
  BY <1>9, <1>11, NoAnswer
<1>19. Timed'
  <2>1. \A s \in Live : Held(s) => Held(s)'
    BY <1>1, <1>11, HeldKept
  <2> QED BY <1>1, <1>14, <2>1 DEF Main, Parts, Timed, IsRequest
<1>20. Alive'
  BY <1>4 DEF Alive
<1>21. AllPlaced'
  <2>1. Kind(a, depth, client', op') /\ Delta(a) = 0 /\ a.do # "connectivity"
    BY <1>2, <1>3, <1>5, <1>9 DEF Kind, Steady, Deep, Single, Delta
  <2> QED BY <1>1, <1>5, <1>7, <1>10, <2>1, FlatOne DEF Main
<1> QED BY <1>12, <1>13, <1>16, <1>17, <1>18, <1>19, <1>20, <1>21 DEF Main, Parts


\* An operation is destroyed, with the frame that was to complete it.
LEMMA DestroyParts ==
    ASSUME Base, Parts, NEW s \in Live, Destroy(s), op' = op, depth' = depth, SameSession, client'.opsDeleted,
           ~Over(client) => s # KeepAlive,
           \A f \in FramesOf(stack) : f \in FramesOf(stack') \/ (f.do = "complete" /\ f.op = s),
           \A f \in FramesOf(stack') : f \in FramesOf(stack) \/ LoopIn(f),
           Answer', stack # <<>> /\ Top.do = "complete" => Top.op = s
    PROVE  Parts'
<1>1. /\ Live' = Live \ {s} /\ s \in Operations /\ Len(ops') = Len(ops) /\ Len(ops) \in Nat
      /\ \A i \in 1..Len(ops) : ops'[i] = IF ops[i] = s THEN 0 ELSE ops[i]
      /\ Active(timers') = {k \in Active(timers) : k[1] # s}
  BY DestroyTable, TableBasics DEF Base, TableOK
<1>2. Over(client') <=> Over(client)
  BY DEF Over, SameSession
<1>3. Loops'
  BY <1>1, LoopsKept DEF Parts
<1>4. Marked'
  BY DEF Marked
<1>5. ASSUME NEW t \in Live', Doomed(t) PROVE Doomed(t)'
  <2>1. t # s /\ t \in Live
    BY <1>1
  <2>2. PICK f \in FramesOf(stack) : Dooms(f, t)
    BY <1>5 DEF Doomed
  <2>3. f \in FramesOf(stack')
    BY <2>1, <2>2 DEF Dooms
  <2>4. \A p \in 1..Len(ops) : ops[p] = t => ops'[p] = t
    BY <1>1, <2>1
  <2>5. Dooms(f, t)'
    BY <1>1, <2>2, <2>4 DEF Dooms
  <2> QED BY <2>3, <2>5 DEF Doomed
<1>6. Ended'
  <2>1. ops # <<>>
    BY DEF Live
  <2>2. Prepared' \subseteq Prepared
    BY <1>1 DEF Prepared
  <2>3. Over(client') => ~client'.connected /\ \A t \in Live' : Doomed(t)'
    BY <1>1, <1>2, <1>5 DEF Parts, Ended, SameSession
  <2>4. ~(Over(client') /\ (~client'.disconnecting \/ depth' = 0))
    BY <1>2, <2>1 DEF Parts, Ended, SameSession
  <2> QED BY <1>2, <2>2, <2>3, <2>4 DEF Parts, Ended, SameSession
<1>7. Agrees'
  <2>1. OfType("connect")' = OfType("connect") \ {s}
    BY <1>1 DEF OfType
  <2>2. ASSUME ~Over(client), NEW t \in OfType("connect")' PROVE ~client.connected
    BY <2>1, <2>2 DEF Parts, Agrees
  <2>3. ASSUME ~Over(client)
        PROVE  /\ KeepAlive \in Live' <=> client.connected
               /\ \A t \in Live' : op[t].type \notin {"connect", "keepalive"} => client.connected
               /\ \A r, t \in OfType("connect")' : r = t
    BY <1>1, <2>1, <2>3 DEF Parts, Agrees
  <2> QED BY <1>2, <2>2, <2>3 DEF Agrees, SameSession
<1>8. Timed'
  <2>1. ASSUME NEW t \in Live', IsRequest(t)' PROVE Held(t)'
    <3>1. t # s /\ t \in Live /\ IsRequest(t)
      BY <1>1, <2>1 DEF IsRequest
    <3>2. Held(t)
      BY <3>1 DEF Parts, Timed
    <3>3. CASE <<t, "response">> \in Active(timers)
      <4>1. <<t, "response">>[1] # s
        BY <3>1
      <4>2. <<t, "response">> \in Active(timers')
        BY <1>1, <3>3, <4>1
      <4> QED BY <4>2 DEF Held
    <3>4. ASSUME NEW f \in FramesOf(stack), Holds(f, t) PROVE Held(t)'
      <4>1. f \in FramesOf(stack')
        BY <3>1, <3>4 DEF Holds
      <4> QED BY <3>4, <4>1 DEF Held, Holds
    <3> QED BY <3>2, <3>3, <3>4 DEF Held
  <2> QED BY <2>1 DEF Timed
<1>9. Alive'
  <2>1. ASSUME client.connected PROVE HeldAlive'
    <3>1. HeldAlive /\ s # KeepAlive
      BY <2>1 DEF Parts, Alive, Ended
    <3>2. ASSUME NEW n \in KeepAliveNames, <<KeepAlive, n>> \in Active(timers) PROVE HeldAlive'
      <4>1. <<KeepAlive, n>>[1] # s
        BY <3>1
      <4>2. <<KeepAlive, n>> \in Active(timers')
        BY <1>1, <3>2, <4>1
      <4> QED BY <4>2 DEF HeldAlive
    <3>3. ASSUME NEW f \in FramesOf(stack), HoldsAlive(f) PROVE HeldAlive'
      <4>1. f \in FramesOf(stack')
        BY <3>3 DEF HoldsAlive
      <4> QED BY <3>3, <4>1 DEF HeldAlive, HoldsAlive
    <3> QED BY <3>1, <3>2, <3>3 DEF HeldAlive
  <2> QED BY <2>1 DEF Alive, SameSession
<1> QED BY <1>3, <1>4, <1>6, <1>7, <1>8, <1>9 DEF Parts

LEMMA MainComplete == ASSUME Base, Main, CompleteOpInternal, Top.op \in Live PROVE Main'
<1>1. At("complete") /\ op' = op /\ depth' = depth /\ Destroy(Top.op)
  BY DEF CompleteOpInternal
<1>2. Kind(Top, depth, client, op) /\ Top.do = "complete" /\ FrameOK(Top) /\ depth \in 0..4 /\ stack # <<>>
  BY <1>1, TopKind, TopFacts
<1>3. PICK s : s = Top.op
  OBVIOUS
<1>4. /\ depth \in 1..3 /\ s \in Operations /\ (depth >= 2 => Gone(client) \/ op[s].type = "disconnect")
      /\ (s = KeepAlive => Over(client))
  BY <1>2, <1>3 DEF Kind, Deep
<1>5. SameSession /\ client'.opsDeleted
  BY DEF CompleteOpInternal, SameSession, Base, ValuesOK, ClientType
<1>6. Onward /\ (Gone(client') <=> Gone(client))
  BY <1>1, <1>5 DEF Onward, Over, Gone, SameSession
<1>7. PICK a, x : a = Frame("callback", s, Top.arg) /\ x = IF IsRequest(s) THEN <<a>> ELSE <<>>
  OBVIOUS
<1>8. Then(x)
  BY <1>3, <1>7 DEF CompleteOpInternal, IsRequest
<1>9. IsRequest(s) => s \in Handles /\ FrameOK(a) /\ a.do = "callback" /\ LoopIn(a)
  <2>1. IsRequest(s) => s \in Handles
    BY <1>4, TableFacts DEF Base, IsRequest
  <2>2. a.do = "callback" /\ LoopIn(a)
    BY <1>7, FrameFacts, LoopInLists
  <2> QED BY <1>7, <2>1, <2>2, SpecialFrames
<1>10. /\ GoodList(x) /\ (IsRequest(s) => FramesOf(x) = {a} /\ x # <<>> /\ x[1] = a)
       /\ (~IsRequest(s) => FramesOf(x) = {} /\ x = <<>>)
  BY <1>7, <1>9, ListOfOne, ListOfNone
<1>11. /\ FramesOf(stack') = FramesOf(x) \cup Below(stack) /\ FramesOf(stack) = {Top} \cup Below(stack)
       /\ stack' # <<>> /\ Top'.do \in TopOnly => x # <<>> /\ Top' = x[1]
  BY <1>1, <1>8, <1>10, ThenFrames
<1>12. Parts'
  <2>1. Answer'
    BY <1>9, <1>10, <1>11, NoAnswer DEF TopOnly
  <2>2. \A f \in FramesOf(stack) : f \in FramesOf(stack') \/ (f.do = "complete" /\ f.op = s)
    BY <1>2, <1>3, <1>11
  <2>3. \A f \in FramesOf(stack') : f \in FramesOf(stack) \/ LoopIn(f)
    BY <1>9, <1>10, <1>11
  <2>4. s \in Live /\ Destroy(s) /\ (~Over(client) => s # KeepAlive)
    BY <1>1, <1>3, <1>4
  <2> QED BY <1>1, <1>3, <1>5, <2>1, <2>2, <2>3, <2>4, DestroyParts DEF Main
<1>13. AllPlaced'
  <2>1. CASE IsRequest(s)
    <3>1. Then(<<a>>)
      BY <1>7, <1>8, <2>1
    <3>2. depth >= 2 => Gone(client)
      BY <1>4, <2>1 DEF IsRequest, Requests
    <3>3. Kind(a, depth, client', op') /\ Delta(a) = 0 /\ a.do # "connectivity"
      BY <1>2, <1>4, <1>6, <1>9, <2>1, <3>2 DEF Kind, Steady, Deep, Single, Delta
    <3> QED BY <1>1, <1>6, <3>1, <3>3, FlatOne DEF Main
  <2>2. CASE ~IsRequest(s)
    <3>1. Then(<<>>)
      BY <1>7, <1>8, <2>2
    <3> QED BY <1>1, <1>6, <3>1, FlatPop DEF Main
  <2> QED BY <2>1, <2>2
<1> QED BY <1>12, <1>13 DEF Main

\* The frame below the one that is executed.
LEMMA NextTop ==
    ASSUME Base, stack # <<>>, Then(<<>>)
    PROVE  stack' = Tail(stack) /\ (Len(stack) > 1 => stack' # <<>> /\ Top' = stack[2])
<1>1. PICK t, u, x, r : t = stack /\ u = stack' /\ x = <<>> /\ r = Tail(t)
  OBVIOUS
<1>2. IsStack(t) /\ t # <<>> /\ u = x \o r
  BY <1>1 DEF Base, GoodList, Then
<1>3. IsStack(r) /\ Len(r) = Len(t) - 1 /\ (\A i \in 1..Len(r) : r[i] = t[i + 1]) /\ Len(t) \in Nat
  <2>1. Len(t) \in Nat
    BY <1>2, StackBasics
  <2>2. IsStack(r) /\ Len(r) = Len(t) - 1 /\ \A i \in 1..Len(r) : r[i] = t[i + 1]
    BY <1>1, <1>2, TailStack
  <2> QED BY <2>1, <2>2
<1>4. u = r
  BY <1>1, <1>2, <1>3, NoFrame, JoinStack
<1>5. ASSUME Len(t) > 1 PROVE r # <<>> /\ Head(r) = t[2]
  <2>1. Len(r) > 0 /\ 1 \in 1..Len(r) /\ r[1] = t[1 + 1] /\ 1 + 1 = 2
    BY <1>3, <1>5
  <2>2. r # <<>>
    BY <2>1, NoFrame
  <2> QED BY <1>3, <2>1, <2>2, StackBasics
<1> QED BY <1>1, <1>4, <1>5 DEF Top

LEMMA MainRefused == ASSUME Base, Main, Refused PROVE Main'
<1>1. At("refused") /\ Then(<<>>) /\ UNCHANGED <<ops, op, depth, timers>>
  BY DEF Refused
<1>2. stack # <<>> /\ Top.do = "refused"
  BY <1>1, TopFacts
<1>3. ~client.connected /\ ~client.disconnecting
  BY <1>2 DEF Main, Parts, Answer, Ended
<1>4. client' = client
  BY <1>3 DEF Refused, Base, ValuesOK, ClientType
<1>5. Unmoved
  BY <1>1, <1>4 DEF Unmoved
<1> QED BY <1>1, <1>5, MainPop DEF Weighty

LEMMA MainConnected == ASSUME Base, Main, BrokerConnected PROVE Main'
<1>1. At("connected") /\ Then(<<>>) /\ UNCHANGED <<op, depth>>
  BY DEF BrokerConnected
<1>2. stack # <<>> /\ Top.do = "connected"
  BY <1>1, TopFacts
<1>3. /\ ~Over(client) /\ ~client.connected /\ ~client.disconnecting
      /\ Len(stack) > 1 /\ stack[2].do = "complete" /\ stack[2].op \in OfType("connect")
  BY <1>2 DEF Main, Parts, Answer, Ended
<1>4. KeepAlive \notin Live
  BY <1>3 DEF Main, Parts, Agrees
<1>5. /\ client'.connected /\ client'.disconnecting = client.disconnecting /\ client'.initialized = client.initialized
      /\ client'.opsDeleted = client.opsDeleted
  BY DEF BrokerConnected, Base, ValuesOK, ClientType
<1>6. /\ Live' = Live \cup {KeepAlive} /\ Len(ops') = Len(ops) + 1 /\ Len(ops) \in Nat
      /\ \A i \in 1..Len(ops) : ops'[i] = ops[i]
      /\ Active(timers') = Active(timers) \cup {<<KeepAlive, "ping">>}
  BY <1>1, <1>4, ConnectedTable, TableBasics DEF BrokerConnected, Base, TableOK
<1>7. ops'[Len(ops) + 1] = KeepAlive
  <2>1. Appended(ops', ops, KeepAlive)
    BY <1>4 DEF BrokerConnected, Appended
  <2> QED BY <2>1, AppendedFacts, Numbers DEF Base, TableOK
<1>8. stack' # <<>> /\ Top' = stack[2]
  BY <1>1, <1>2, <1>3, NextTop
<1>9. FramesOf(stack') = Below(stack) /\ FramesOf(stack) = {Top} \cup Below(stack) /\ Leaves({"connected"})
  BY <1>1, ListOfNone, ThenFrames
<1>10. ~Over(client') /\ Onward
  BY <1>1, <1>3, <1>5 DEF Over, Gone, Onward
<1>11. Loops'
  <2>1. ASSUME NEW f \in FramesOf(stack') PROVE LoopIn(f)'
    <3>1. LoopIn(f) /\ FrameOK(f)
      BY <1>9 DEF Main, Parts, Loops, Base, GoodList
    <3> QED BY <1>6, <3>1 DEF LoopIn, FrameOK
  <2> QED BY <2>1 DEF Loops
<1>12. Marked'
  <2>1. ASSUME NEW i \in 1..Len(ops'), ops'[i] = 0 PROVE client'.opsDeleted
    <3>1. i # Len(ops) + 1
      BY <1>7, <2>1, Numbers
    <3>2. i \in 1..Len(ops) /\ ops[i] = 0
      BY <1>6, <2>1, <3>1
    <3> QED BY <1>5, <3>2 DEF Main, Parts, Marked
  <2> QED BY <2>1 DEF Marked
<1>13. Ended'
  BY <1>3, <1>5, <1>10 DEF Ended
<1>14. Agrees'
  <2>1. OfType("connect")' = OfType("connect")
    <3>1. op[KeepAlive].type = "keepalive"
      BY DEF Base, TableOK
    <3> QED BY <1>1, <1>6, <3>1 DEF OfType
  <2>2. \A s, t \in OfType("connect") : s = t
    BY <1>3 DEF Main, Parts, Agrees
  <2> QED BY <1>3, <1>5, <1>6, <1>8, <2>1, <2>2 DEF Agrees
<1>15. Answer'
  BY <1>3, <1>8, NoAnswer
<1>16. Timed'
  <2>1. ASSUME NEW s \in Live', IsRequest(s)' PROVE Held(s)'
    <3>1. IsRequest(s) /\ s \in Live
      BY <1>1, <1>6, <2>1, KeepAliveNoRequest DEF IsRequest
    <3>2. Held(s)
      BY <3>1 DEF Main, Parts, Timed
    <3> QED BY <1>6, <1>9, <3>2, HeldKept
  <2> QED BY <2>1 DEF Timed
<1>17. Alive'
  <2>1. \E n \in KeepAliveNames : <<KeepAlive, n>> \in Active(timers')
    BY <1>6 DEF KeepAliveNames
  <2> QED BY <2>1 DEF Alive, HeldAlive
<1>18. AllPlaced'
  BY <1>1, <1>10, FlatPop DEF Main
<1> QED BY <1>11, <1>12, <1>13, <1>14, <1>15, <1>16, <1>17, <1>18 DEF Main, Parts


LEMMA MainEnter == ASSUME Base, Main, Enter PROVE Main'
<1>1. At("enter") /\ UNCHANGED <<ops, op, client>> /\ depth' = depth + 1
  BY DEF Enter
<1>2. Kind(Top, depth, client, op) /\ Top.do = "enter" /\ depth \in 0..4 /\ stack # <<>>
  BY <1>1, TopKind, TopFacts
<1>3. depth \in 0..3
  BY <1>2 DEF Kind
<1>4. PICK E \in SUBSET Running(timers) : (depth > 0 => E = {}) /\ timers' = StopAll(E) /\ Then(Collected(E))
  BY DEF Enter
<1>5. PICK x, u : x = Collected(E) /\ u = StopAll(E)
  OBVIOUS
<1>6. /\ GoodList(x) /\ (E = {} => x = <<>>) /\ \A f \in FramesOf(x) : f.do = "expired"
      /\ \A k \in Active(timers) : k \in Active(u) \/ \E f \in FramesOf(x) : f.op = k[1]
  BY <1>5, CollectedFacts DEF Base
<1>7. timers' = u /\ Then(x)
  BY <1>4, <1>5
<1>8. FramesOf(stack') = FramesOf(x) \cup Below(stack) /\ Leaves({"enter"})
  BY <1>1, <1>6, <1>7, ThenFrames
<1>9. \A i \in 1..Len(x) : x[i].do = "expired"
  BY <1>6, StackBasics DEF GoodList
<1>10. \A f \in FramesOf(x) : LoopIn(f)
  BY <1>6 DEF LoopIn
<1>11. Answer'
  <2>1. stack' # <<>> /\ Top'.do \in TopOnly => x # <<>> /\ Top' = x[1]
    BY <1>1, <1>6, <1>7, ThenFrames
  <2>2. x # <<>> => x[1].do = "expired"
    BY <1>6, <1>9, StackBasics DEF GoodList
  <2> QED BY <2>1, <2>2, NoAnswer DEF TopOnly
<1>12. \A s \in Live : Doomed(s) => Doomed(s)'
  BY <1>1, <1>8, DoomedKept
<1>13. ASSUME NEW s, Held(s) PROVE Held(s)'
  <2>1. CASE <<s, "response">> \in Active(timers)
    <3>1. <<s, "response">>[1] = s
      OBVIOUS
    <3>2. <<s, "response">> \in Active(timers') \/ \E f \in FramesOf(x) : f.op = s
      BY <1>6, <1>7, <2>1, <3>1
    <3> QED BY <1>6, <1>8, <3>2 DEF Held, Holds
  <2>2. CASE <<s, "response">> \notin Active(timers)
    BY <1>8, <1>13, <2>2, HeldKept
  <2> QED BY <2>1, <2>2
<1>14. ASSUME HeldAlive PROVE HeldAlive'
  <2>1. ASSUME NEW n \in KeepAliveNames, <<KeepAlive, n>> \in Active(timers) PROVE HeldAlive'
    <3>1. <<KeepAlive, n>>[1] = KeepAlive
      OBVIOUS
    <3>2. <<KeepAlive, n>> \in Active(timers') \/ \E f \in FramesOf(x) : f.op = KeepAlive
      BY <1>6, <1>7, <2>1, <3>1
    <3> QED BY <1>6, <1>8, <3>2 DEF HeldAlive, HoldsAlive
  <2> QED BY <1>8, <1>14, <2>1, AliveKept
<1>15. Parts'
  <2>1. SameSession /\ client'.opsDeleted = client.opsDeleted /\ (depth' = 0 => depth = 0) /\ UNCHANGED <<ops, op>>
    BY <1>1, <1>3 DEF SameSession
  <2>2. \A f \in FramesOf(stack') : f \in FramesOf(stack) \/ LoopIn(f)
    BY <1>1, <1>6, <1>7, <1>8, <1>10, ThenFrames
  <2>3. Top.do # "complete"
    BY <1>2
  <2> QED BY <1>11, <1>12, <1>13, <1>14, <2>1, <2>2, <2>3, PartsKept DEF Main
<1>16. AllPlaced'
  <2>1. PICK r, v, l : r = Tail(stack) /\ v = stack' /\ l = depth + 1
    OBVIOUS
  <2>2. Onward
    BY <1>1 DEF Onward
  <2>3. AtLevel(r, depth - Delta(Top), client', op') /\ IsStack(r)
    BY <1>1, <2>1, <2>2, RestPlaced DEF Main
  <2>4. depth - Delta(Top) = l /\ l \in 1..4
    BY <1>2, <1>3, <2>1 DEF Delta
  <2>5. FlatList(x, l, client', op')
    <3>1. CASE E = {}
      BY <1>6, <3>1, FlatLists
    <3>2. CASE E # {}
      <4>1. l = 1
        BY <1>3, <1>4, <2>1, <3>2
      <4>2. \A f : f.do = "expired" => Delta(f) = 0 /\ Kind(f, 1, client', op')
        BY DEF Delta, Kind, Steady, Deep, Single
      <4> QED BY <1>9, <4>1, <4>2 DEF FlatList, Led
    <3> QED BY <3>1, <3>2
  <2>6. v = x \o r
    BY <1>7, <2>1 DEF Then
  <2>7. AtLevel(v, l, client', op')
    <3>1. l \in 0..4 /\ l # 0 /\ AtLevel(r, l, client', op') /\ IsStack(x)
      BY <1>6, <2>3, <2>4 DEF GoodList
    <3> QED BY <2>3, <2>5, <2>6, <3>1, PushFlat
  <2> QED BY <1>1, <2>1, <2>7 DEF AllPlaced
<1> QED BY <1>15, <1>16 DEF Main

LEMMA MainExit == ASSUME Base, Main, Exit PROVE Main'
<1>1. At("exit") /\ Then(<<>>) /\ UNCHANGED <<op, timers>> /\ depth' = depth - 1
  BY DEF Exit
<1>2. Kind(Top, depth, client, op) /\ Top.do = "exit" /\ depth \in 0..4 /\ stack # <<>>
  BY <1>1, TopKind, TopFacts
<1>3. depth \in 1..4
  BY <1>2 DEF Kind, Deep
<1>4. SameSession /\ Onward
  <2>1. SameSession
    BY DEF Exit, SameSession, Base, ValuesOK, ClientType
  <2> QED BY <1>1, <2>1 DEF Onward, Over, Gone, SameSession
<1>5. stack' = Tail(stack)
  BY <1>1, <1>2, NextTop
<1>6. AllPlaced'
  <2>1. AtLevel(Tail(stack), depth - Delta(Top), client', op')
    BY <1>1, <1>4, RestPlaced DEF Main
  <2>2. Delta(Top) = 1
    BY <1>2 DEF Delta
  <2> QED BY <1>1, <1>5, <2>1, <2>2 DEF AllPlaced
<1>7. FramesOf(stack') = Below(stack) /\ FramesOf(stack) = {Top} \cup Below(stack) /\ Leaves({"exit"}) /\ GoodList(stack')
  BY <1>1, ListOfNone, ThenFrames
<1>8. Answer'
  <2>1. stack' # <<>> => Top'.do \notin TopOnly
    BY <1>1, ListOfNone, ThenFrames
  <2> QED BY <2>1, NoAnswer DEF TopOnly
<1>9. \A s : Held(s) => Held(s)'
  BY <1>1, <1>7, HeldKept
<1>10. HeldAlive => HeldAlive'
  <2>1. \A n \in KeepAliveNames : <<KeepAlive, n>> \in Active(timers) => HeldAlive'
    BY <1>1 DEF HeldAlive
  <2> QED BY <1>7, <2>1, AliveKept
<1>11. CASE depth # 1
  <2>1. UNCHANGED <<ops, client>> /\ depth' # 0
    BY <1>1, <1>3, <1>11 DEF Exit
  <2>2. \A s \in Live : Doomed(s) => Doomed(s)'
    BY <1>7, <2>1, DoomedKept
  <2>3. Parts'
    BY <1>1, <1>2, <1>4, <1>7, <1>8, <1>9, <1>10, <2>1, <2>2, PartsKept DEF Main
  <2> QED BY <1>6, <2>3 DEF Main
<1>12. CASE depth = 1
  <2>1. \A f \in FramesOf(stack') : f.do \in Steady
    <3>1. AtLevel(stack', 0, client', op') /\ IsStack(stack')
      BY <1>1, <1>6, <1>7, <1>12 DEF AllPlaced, GoodList
    <3> QED BY <3>1, LevelZero
  <2>2. /\ Live' = Live
        /\ (client.opsDeleted => (\A i \in 1..Len(ops') : ops'[i] # 0) /\ (Live = {} => ops' = <<>>))
        /\ (~client.opsDeleted => ops' = ops /\ ~client'.opsDeleted)
    <3>1. CASE client.opsDeleted
      <4>1. ops' = CleanedOps
        BY <1>12, <3>1 DEF Exit
      <4> QED BY <1>1, <3>1, <4>1, CleanTable DEF Base
    <3>2. CASE ~client.opsDeleted
      <4>1. UNCHANGED <<ops, client>>
        BY <3>2 DEF Exit
      <4> QED BY <3>2, <4>1, LivePrimed
    <3> QED BY <3>1, <3>2
  <2>3. Over(client) => Live = {}
    <3>1. ASSUME NEW s \in Live, Doomed(s) PROVE FALSE
      <4>1. PICK f \in FramesOf(stack) : f.do \in {"complete", "terminate"}
        BY <3>1 DEF Doomed, Dooms
      <4>2. f \in FramesOf(stack')
        BY <1>2, <1>7, <4>1
      <4> QED BY <2>1, <4>1, <4>2 DEF Steady
    <3> QED BY <3>1 DEF Main, Parts, Ended
  <2>4. Over(client) => ops' = <<>>
    <3>1. ASSUME ~client.opsDeleted, Live = {} PROVE ops = <<>>
      <4>1. \A i \in 1..Len(ops) : ops[i] # 0
        BY <3>1 DEF Main, Parts, Marked
      <4>2. \A i \in 1..Len(ops) : FALSE
        BY <3>1, <4>1, TableBasics, LivePrimed DEF Base, TableOK
      <4>3. ops \in Seq(Operations \cup {0}) /\ Len(ops) = 0
        BY <4>2, TableBasics DEF Base, TableOK, TableType
      <4> QED BY <4>3
    <3> QED BY <2>2, <2>3, <3>1
  <2>5. Over(client') <=> Over(client)
    BY <1>4 DEF Over, SameSession
  <2>6. Loops'
    BY <2>1 DEF Loops, LoopIn, Steady
  <2>7. Marked'
    <3>1. client.opsDeleted => Marked'
      BY <2>2 DEF Marked
    <3>2. ~client.opsDeleted => Marked'
      BY <2>2 DEF Marked, Main, Parts
    <3> QED BY <3>1, <3>2
  <2>8. Ended'
    <3>1. Prepared' = Prepared
      BY <1>1, <2>2 DEF Prepared
    <3> QED BY <1>4, <2>2, <2>3, <2>4, <2>5, <3>1 DEF Main, Parts, Ended, SameSession
  <2>9. Agrees'
    <3>1. OfType("connect")' = OfType("connect")
      BY <1>1, <2>2 DEF OfType
    <3>2. ~Over(client) => \A s \in OfType("connect") : ~client.connected
      BY <1>2 DEF Main, Parts, Agrees
    <3> QED BY <1>1, <1>4, <2>2, <2>5, <3>1, <3>2 DEF Main, Parts, Agrees, SameSession
  <2>10. Timed'
    BY <1>1, <1>9, <2>2 DEF Main, Parts, Timed, IsRequest
  <2>11. Alive'
    BY <1>4, <1>10 DEF Main, Parts, Alive, SameSession
  <2> QED BY <1>6, <1>8, <2>6, <2>7, <2>8, <2>9, <2>10, <2>11 DEF Main, Parts
<1> QED BY <1>11, <1>12


-----------------------------------------------------------------------------
\* The calls of the application.

LEMMA CallLevel ==
    ASSUME Base, Main, CanCall
    PROVE  /\ stack = <<>> => depth = 0
           /\ stack # <<>> => Top.do = "app" /\ depth >= 1 /\ (depth >= 2 => Gone(client))
           /\ ~Over(client) => depth \in 0..1
           /\ depth \in 0..3
<1>1. CASE stack = <<>>
  <2>1. depth = 0
    BY <1>1, EmptyLevel DEF Main, AllPlaced
  <2> QED BY <1>1, <2>1
<1>2. CASE stack # <<>>
  <2>1. At("app")
    BY <1>2 DEF CanCall, Idle
  <2>2. Kind(Top, depth, client, op) /\ Top.do = "app" /\ depth \in 0..4
    BY <2>1, TopKind
  <2>3. depth \in 1..3 /\ (depth >= 2 => Gone(client))
    BY <2>2 DEF Kind, Deep
  <2>4. ~Over(client) => depth = 1
    BY <2>3 DEF Gone
  <2> QED BY <1>2, <2>2, <2>3, <2>4
<1> QED BY <1>1, <1>2

\* A new operation.
LEMMA CreateParts ==
    ASSUME Base, Parts, NEW type \in Prepares, Create(type), ~Over(client),
           type = "connect" => OfType("connect") = {} /\ ~client.connected, type # "connect" => client.connected,
           stack # <<>> => Top.do # "complete", Leaves({"create"}), FramesOf(stack') \subseteq FramesOf(stack),
           Answer', depth' = depth
    PROVE  Parts' /\ Onward /\ (Over(client') <=> Over(client))
<1>1. PICK s \in Handles :
         /\ s \notin Live /\ op[s].stage = "new"
         /\ op' = [op EXCEPT ![s] = [type |-> type, stage |-> "prepared"]]
         /\ Live' = Live \cup {s} /\ Len(ops') = Len(ops) + 1
         /\ \A i \in 1..Len(ops) : ops'[i] = ops[i]
         /\ ops'[Len(ops) + 1] = s
         /\ client' = [client EXCEPT !.locked = TRUE] /\ Active(timers') = Active(timers)
  BY CreateTable DEF Base
<1>2. s \in Operations /\ s # KeepAlive /\ s # 0 /\ Len(ops) \in Nat /\ Live \subseteq Operations
  BY <1>1, Numbers, TableBasics, TableFacts DEF Base, TableOK
<1>3. op'[s].type = type /\ op'[s].stage = "prepared" /\ \A t \in Operations : t # s => op'[t] = op[t]
  BY <1>1, <1>2 DEF Base, TableOK
<1>4. SameSession /\ client'.opsDeleted = client.opsDeleted
  BY <1>1 DEF SameSession, Base, ValuesOK, ClientType
<1>5. (Over(client') <=> Over(client)) /\ (Gone(client') <=> Gone(client))
  BY <1>4 DEF Over, Gone, SameSession
<1>6. Onward
  <2>1. op[s].type = "none"
    BY <1>1 DEF Base, TableOK, HandleOK
  <2>2. \A t \in Operations : op[t].type = "disconnect" => op'[t].type = "disconnect"
    BY <1>3, <2>1
  <2> QED BY <1>5, <2>2 DEF Onward
<1>7. Loops'
  <2>1. ASSUME NEW f \in FramesOf(stack') PROVE LoopIn(f)'
    <3>1. LoopIn(f) /\ FrameOK(f)
      BY DEF Parts, Loops, Base, GoodList
    <3> QED BY <1>1, <1>2, <3>1 DEF LoopIn, FrameOK
  <2> QED BY <2>1 DEF Loops
<1>8. Marked'
  <2>1. ASSUME NEW i \in 1..Len(ops'), ops'[i] = 0 PROVE client'.opsDeleted
    <3>1. i # Len(ops) + 1
      BY <1>1, <1>2, <2>1
    <3>2. i \in 1..Len(ops) /\ ops[i] = 0
      BY <1>1, <1>2, <2>1, <3>1
    <3> QED BY <1>4, <3>2 DEF Parts, Marked
  <2> QED BY <2>1 DEF Marked
<1>9. Ended'
  BY <1>4, <1>5 DEF Parts, Ended, SameSession
<1>10. Agrees'
  <2>1. OfType("connect")' = OfType("connect") \cup {t \in {s} : type = "connect"}
    BY <1>1, <1>2, <1>3 DEF OfType
  <2>2. \A t \in OfType("connect") : ~client.connected
    BY DEF Parts, Agrees
  <2>3. KeepAlive \in Live' <=> client.connected
    BY <1>1, <1>2 DEF Parts, Agrees
  <2>4. ASSUME NEW t \in Live', op'[t].type \notin {"connect", "keepalive"} PROVE client.connected
    <3>1. CASE t = s
      BY <1>3, <2>4, <3>1
    <3>2. CASE t # s
      <4>1. t \in Live /\ op'[t] = op[t]
        BY <1>1, <1>2, <1>3, <3>2
      <4> QED BY <2>4, <4>1 DEF Parts, Agrees
    <3> QED BY <3>1, <3>2
  <2>5. \A t \in OfType("connect")' : ~client.connected
    BY <2>1, <2>2
  <2>6. \A r, t \in OfType("connect")' : r = t
    <3>1. CASE type = "connect"
      BY <2>1, <3>1
    <3>2. CASE type # "connect"
      BY <2>1, <3>2 DEF Parts, Agrees
    <3> QED BY <3>1, <3>2
  <2> QED BY <1>4, <2>3, <2>4, <2>5, <2>6 DEF Agrees, SameSession
<1>11. Timed'
  <2>1. ASSUME NEW t \in Live', IsRequest(t)' PROVE Held(t)'
    <3>1. t # s
      BY <1>3, <2>1 DEF IsRequest
    <3>2. t \in Live /\ IsRequest(t)
      BY <1>1, <1>2, <1>3, <2>1, <3>1 DEF IsRequest
    <3>3. Held(t)
      BY <3>2 DEF Parts, Timed
    <3> QED BY <1>1, <3>3, HeldKept
  <2> QED BY <2>1 DEF Timed
<1>12. Alive'
  <2>1. \A n \in KeepAliveNames : <<KeepAlive, n>> \in Active(timers) => HeldAlive'
    BY <1>1 DEF HeldAlive
  <2>2. HeldAlive => HeldAlive'
    BY <2>1, AliveKept
  <2> QED BY <1>4, <2>2 DEF Parts, Alive, SameSession
<1> QED BY <1>5, <1>6, <1>7, <1>8, <1>9, <1>10, <1>11, <1>12 DEF Parts

LEMMA MainPrepares ==
    ASSUME Base, Main, DisconnectPrepare \/ SubscribePrepare \/ UnsubscribePrepare PROVE Main'
<1>1. PICK type \in Prepares : type # "connect" /\ Create(type)
  <2>1. \E type \in {"disconnect", "subscribe", "unsubscribe"} : Create(type)
    BY DEF DisconnectPrepare, SubscribePrepare, UnsubscribePrepare
  <2> QED BY <2>1 DEF Prepares, Requests
<1>2. CanCall /\ client.connected /\ stack' = stack /\ depth' = depth
  BY DEF DisconnectPrepare, SubscribePrepare, UnsubscribePrepare, Allowed
<1>3. ~Over(client)
  BY <1>2 DEF Main, Parts, Ended
<1>4. stack # <<>> => Top.do = "app"
  BY <1>2, CallFacts
<1>5. Leaves({"create"}) /\ FramesOf(stack') \subseteq FramesOf(stack) /\ Answer'
  <2>1. Answer'
    BY <1>2, <1>4, NoAnswer DEF Top
  <2> QED BY <1>2, <2>1 DEF Leaves
<1>6. Parts' /\ Onward
  BY <1>1, <1>2, <1>3, <1>4, <1>5, CreateParts DEF Main
<1>7. AllPlaced'
  BY <1>2, <1>6, StackPlaced DEF Main, AllPlaced
<1> QED BY <1>6, <1>7 DEF Main

\* An operation that the application drops.
LEMMA MainDrops ==
    ASSUME Base, Main, CanCall, NEW s \in Live, s # KeepAlive, Destroy(s), UNCHANGED <<op, depth, stack>>,
           SameSession, client'.opsDeleted
    PROVE  Main'
<1>1. stack # <<>> => Top.do = "app"
  BY CallFacts
<1>2. Answer'
  BY <1>1, NoAnswer DEF Top
<1>3. Onward
  BY DEF Onward, Over, Gone, SameSession
<1>4. Parts'
  BY <1>1, <1>2, DestroyParts DEF Main
<1>5. AllPlaced'
  BY <1>3, StackPlaced DEF Main, AllPlaced
<1> QED BY <1>4, <1>5 DEF Main

LEMMA MainSendFails == ASSUME Base, Main, CanCall, NEW s \in Prepared, SendFails(s) PROVE Main'
<1>1. s \in Live /\ s # KeepAlive
  BY TableFacts, Numbers DEF Base, Prepared
<1>2. Destroy(s) /\ UNCHANGED <<op, depth, stack>>
  BY DEF SendFails
<1>3. SameSession /\ client'.opsDeleted
  BY DEF SendFails, SameSession, Base, ValuesOK, ClientType
<1> QED BY <1>1, <1>2, <1>3, MainDrops

LEMMA MainCancel == ASSUME Base, Main, Cancel PROVE Main'
<1>1. PICK s \in Live \ {KeepAlive} :
         Destroy(s) /\ client' = [client EXCEPT !.locked = IF Unlocks(s) THEN FALSE ELSE @, !.opsDeleted = TRUE]
  BY DEF Cancel
<1>2. CanCall /\ UNCHANGED <<op, depth, stack>>
  BY DEF Cancel
<1>3. SameSession /\ client'.opsDeleted
  BY <1>1 DEF SameSession, Base, ValuesOK, ClientType
<1> QED BY <1>1, <1>2, <1>3, MainDrops

\* An operation that the application sends.
LEMMA SentParts ==
    ASSUME Base, Parts, CanCall, NEW s \in Prepared, op' = [op EXCEPT ![s].stage = "sent"], UNCHANGED <<ops, timers, depth>>,
           client' = [client EXCEPT !.locked = FALSE], NEW x, GoodList(x), x # <<>>, Call(x),
           x[1].do \notin {"connected", "refused"}, \A f \in FramesOf(x) : LoopIn(f),
           op[s].type \in Requests => \E f \in FramesOf(x) : Holds(f, s)
    PROVE  Parts' /\ Onward /\ SameSession
<1>1. /\ Live' = Live /\ s \in Operations /\ s \in Live /\ Live \subseteq Operations
      /\ \A t \in Operations : (t # s => op'[t] = op[t]) /\ op'[t].type = op[t].type
      /\ Prepared' = Prepared \ {s}
  BY SentTable, TableFacts, Numbers DEF Base
<1>2. SameSession /\ client'.opsDeleted = client.opsDeleted
  BY DEF SameSession, Base, ValuesOK, ClientType
<1>3. (Over(client') <=> Over(client)) /\ ~Over(client)
  BY <1>2 DEF Over, SameSession, Parts, Ended
<1>4. Onward
  BY <1>1, <1>3 DEF Onward, Gone
<1>5. FramesOf(stack') = FramesOf(x) \cup FramesOf(stack) /\ Leaves({}) /\ Top' = x[1] /\ (stack # <<>> => Top.do = "app")
  BY CallFrames
<1>6. Loops'
  BY <1>5, LoopsKept DEF Parts
<1>7. Marked'
  BY <1>2 DEF Parts, Marked
<1>8. Ended'
  BY <1>2, <1>3 DEF Parts, Ended, SameSession
<1>9. Agrees'
  <2>1. OfType("connect")' = OfType("connect")
    BY <1>1 DEF OfType
  <2>2. \A t \in OfType("connect") : ~client.connected
    BY <1>3, <1>5 DEF Parts, Agrees
  <2>3. /\ KeepAlive \in Live' <=> client.connected
        /\ \A t \in Live' : op'[t].type \notin {"connect", "keepalive"} => client.connected
        /\ \A r, t \in OfType("connect") : r = t
    BY <1>1, <1>3 DEF Parts, Agrees
  <2> QED BY <1>2, <2>1, <2>2, <2>3 DEF Agrees, SameSession
<1>10. Answer'
  BY <1>5, NoAnswer
<1>11. Timed'
  <2>1. ASSUME NEW t \in Live', IsRequest(t)' PROVE Held(t)'
    <3>1. CASE t = s
      <4>1. op[s].type \in Requests
        BY <1>1, <2>1, <3>1 DEF IsRequest
      <4>2. PICK f \in FramesOf(x) : Holds(f, s)
        BY <4>1
      <4> QED BY <1>5, <3>1, <4>2 DEF Held, Holds
    <3>2. CASE t # s
      <4>1. t \in Live /\ IsRequest(t)
        BY <1>1, <2>1, <3>2 DEF IsRequest
      <4>2. Held(t)
        BY <4>1 DEF Parts, Timed
      <4> QED BY <1>5, <4>2, HeldKept
    <3> QED BY <3>1, <3>2
  <2> QED BY <2>1 DEF Timed
<1>12. Alive'
  <2>1. \A n \in KeepAliveNames : <<KeepAlive, n>> \in Active(timers) => HeldAlive'
    BY DEF HeldAlive
  <2>2. HeldAlive => HeldAlive'
    BY <1>5, <2>1, AliveKept
  <2> QED BY <1>2, <2>2 DEF Parts, Alive, SameSession
<1> QED BY <1>2, <1>4, <1>6, <1>7, <1>8, <1>9, <1>10, <1>11, <1>12 DEF Parts


\* A call that does something within a guard.
LEMMA GuardPlaced ==
    ASSUME Base, Main, Onward, depth \in 0..3, NEW f, f.do \in Steady, f.do \notin {"enter", "exit"},
           Kind(f, depth + 1, client', op'), NEW x, x = <<Frame("enter", 0, NoArg), f, Frame("exit", 0, NoArg)>>,
           NEW u, u = x \o stack
    PROVE  AtLevel(u, depth, client', op')
<1>1. PICK a, b, r, l : a = Frame("enter", 0, NoArg) /\ b = Frame("exit", 0, NoArg) /\ r = stack /\ l = depth
  OBVIOUS
<1>2. a.do = "enter" /\ b.do = "exit"
  BY <1>1, FrameFacts
<1>3. AtLevel(r, l, client', op') /\ IsStack(r) /\ l \in 0..3 /\ Kind(f, l + 1, client', op')
  BY <1>1, StackPlaced DEF Main, Base, GoodList
<1>4. l = 0 => \A g \in FramesOf(r) : g.do \in Steady
  BY <1>3, LevelZero
<1>5. Delta(f) = 0 /\ f.do # "connectivity"
  BY DEF Delta, Steady
<1>6. x = <<a, f, b>> /\ u = x \o r
  BY <1>1
<1>7. AtLevel(u, l, client', op')
  BY <1>2, <1>3, <1>4, <1>5, <1>6, PushGuarded
<1> QED BY <1>1, <1>7

LEMMA GuardList ==
    ASSUME NEW f, FrameOK(f), f.do \notin TopOnly, LoopIn(f),
           NEW x, x = <<Frame("enter", 0, NoArg), f, Frame("exit", 0, NoArg)>>
    PROVE  GoodList(x) /\ x # <<>> /\ x[1].do \notin {"connected", "refused"} /\ \A g \in FramesOf(x) : LoopIn(g)
<1>1. PICK a, b : a = Frame("enter", 0, NoArg) /\ b = Frame("exit", 0, NoArg)
  OBVIOUS
<1>2. FrameOK(a) /\ a.do = "enter" /\ LoopIn(a)
  BY <1>1, FrameFacts, LoopInLists DEF Special
<1>3. FrameOK(b) /\ b.do = "exit" /\ LoopIn(b)
  BY <1>1, FrameFacts, LoopInLists DEF Special
<1>4. GoodList(x) /\ FramesOf(x) = {a, f, b} /\ x # <<>> /\ x[1] = a
  BY <1>1, <1>2, <1>3, ListOfThree DEF TopOnly
<1> QED BY <1>2, <1>3, <1>4

\* While an operation is prepared, at most one guard is entered.
LEMMA SendLevel == ASSUME Base, Main, CanCall, Prepared # {} PROVE depth \in 0..1
<1>1. ~Over(client)
  BY DEF Main, Parts, Ended
<1> QED BY <1>1, CallLevel

LEMMA MainDisconnectSend == ASSUME Base, Main, DisconnectSend PROVE Main'
<1>1. PICK s \in Prepared :
         /\ op[s].type = "disconnect" /\ op' = [op EXCEPT ![s].stage = "sent"]
         /\ Call(<<Frame("enter", 0, NoArg), Frame("disconnect", s, NoArg), Frame("exit", 0, NoArg)>>)
  BY DEF DisconnectSend
<1>2. CanCall /\ UNCHANGED <<ops, timers, depth>> /\ client' = [client EXCEPT !.locked = FALSE]
  BY DEF DisconnectSend
<1>3. s \in Handles /\ s \in Operations
  BY TableFacts, Numbers DEF Base
<1>4. PICK f, x : f = Frame("disconnect", s, NoArg) /\ x = <<Frame("enter", 0, NoArg), f, Frame("exit", 0, NoArg)>>
  OBVIOUS
<1>5. FrameOK(f) /\ f.do = "disconnect" /\ f.op = s /\ LoopIn(f)
  BY <1>3, <1>4, SpecialFrames, FrameFacts, LoopInLists
<1>6. GoodList(x) /\ x # <<>> /\ x[1].do \notin {"connected", "refused"} /\ (\A g \in FramesOf(x) : LoopIn(g)) /\ Call(x)
  BY <1>1, <1>4, <1>5, GuardList DEF TopOnly
<1>7. op[s].type \notin Requests
  BY <1>1 DEF Requests
<1>8. Parts' /\ Onward
  BY <1>1, <1>2, <1>6, <1>7, SentParts DEF Main
<1>9. depth \in 0..1
  BY <1>1, <1>2, SendLevel
<1>10. Kind(f, depth + 1, client', op')
  <2>1. op'[s].type = "disconnect"
    BY <1>1, <1>3, <1>8 DEF Onward
  <2>2. depth + 1 \in 1..2
    BY <1>9
  <2> QED BY <1>3, <1>5, <2>1, <2>2 DEF Kind, Steady, Deep, Single
<1>11. AllPlaced'
  <2>1. PICK u : u = stack'
    OBVIOUS
  <2>2. u = x \o stack /\ f.do \in Steady /\ f.do \notin {"enter", "exit"} /\ depth \in 0..3
    BY <1>5, <1>6, <1>9, <2>1 DEF Call, Steady
  <2>3. AtLevel(u, depth, client', op')
    BY <1>4, <1>8, <1>10, <2>2, GuardPlaced
  <2> QED BY <1>2, <2>1, <2>3 DEF AllPlaced
<1> QED BY <1>8, <1>11 DEF Main

LEMMA MainSendSucceeds ==
    ASSUME Base, Main, CanCall, NEW s \in Prepared, SendSucceeds(s) PROVE Main'
<1>1. s \in Handles /\ s \in Operations
  BY TableFacts, Numbers DEF Base
<1>2. PICK a, f, x, y, z : /\ a = Frame("output", s, NoArg) /\ f = Frame("wait", s, "response") /\ x = <<a>>
                           /\ y = <<Frame("enter", 0, NoArg), f, Frame("exit", 0, NoArg)>>
                           /\ z = x \o y
  OBVIOUS
<1>3. FrameOK(a) /\ a.do = "output" /\ LoopIn(a)
  BY <1>1, <1>2, FrameFacts, SpecialFrames, LoopInLists
<1>4. FrameOK(f) /\ f.do = "wait" /\ f.op = s /\ LoopIn(f)
  BY <1>1, <1>2, FrameFacts, SpecialFrames, LoopInLists
<1>5. GoodList(x) /\ FramesOf(x) = {a} /\ x # <<>> /\ x[1] = a
  BY <1>2, <1>3, ListOfOne
<1>6. GoodList(y) /\ (\A g \in FramesOf(y) : LoopIn(g)) /\ f \in FramesOf(y) /\ \A g \in FramesOf(y) : g.do \notin TopOnly
  <2>1. PICK b, d : b = Frame("enter", 0, NoArg) /\ d = Frame("exit", 0, NoArg) /\ y = <<b, f, d>>
    BY <1>2
  <2>2. FramesOf(y) = {b, f, d} /\ b.do = "enter" /\ d.do = "exit"
    BY <2>1, ThreeFrames, FrameFacts
  <2>3. GoodList(y) /\ \A g \in FramesOf(y) : LoopIn(g)
    BY <1>2, <1>4, GuardList DEF TopOnly
  <2> QED BY <1>4, <2>2, <2>3 DEF TopOnly
<1>7. GoodList(z) /\ FramesOf(z) = FramesOf(x) \cup FramesOf(y) /\ z # <<>> /\ z[1] = a
  <2>1. z = x \o y
    BY <1>2
  <2>2. GoodList(z) /\ FramesOf(z) = FramesOf(x) \cup FramesOf(y) /\ z # <<>> /\ z[1] = x[1]
    BY <1>5, <1>6, <2>1, ListOfLists
  <2> QED BY <1>5, <2>2
<1>8. Call(z)
  <2>1. z = <<a, Frame("enter", 0, NoArg), f, Frame("exit", 0, NoArg)>>
    <3>1. PICK b, d : b = Frame("enter", 0, NoArg) /\ d = Frame("exit", 0, NoArg)
      OBVIOUS
    <3>2. z = <<a>> \o <<b, f, d>>
      BY <1>2, <3>1
    <3>3. PICK w, v : w = <<a, b, f, d>> /\ v = <<b, f, d>>
      OBVIOUS
    <3>4. /\ IsStack(w) /\ Len(w) = 4 /\ w[1] = a /\ w[2] = b /\ w[3] = f /\ w[4] = d
          /\ IsStack(v) /\ Len(v) = 3 /\ v[1] = b /\ v[2] = f /\ v[3] = d
          /\ IsStack(x) /\ Len(x) = 1 /\ x[1] = a
      BY <1>2, <3>3, OneFrame, ThreeFrames, FourFrames
    <3>5. z = x \o v
      BY <1>2, <3>2, <3>3
    <3>6. IsStack(z) /\ Len(z) = 4 /\ z[1] = a /\ z[1 + 1] = b /\ z[1 + 2] = f /\ z[1 + 3] = d
      <4>1. /\ IsStack(z) /\ Len(z) = Len(x) + Len(v) /\ \A i \in 1..Len(x) : z[i] = x[i]
            /\ \A i \in 1..Len(v) : z[Len(x) + i] = v[i]
        <5>1. IsStack(x) /\ IsStack(v)
          BY <3>4
        <5>2. IsStack(z) /\ Len(z) = Len(x) + Len(v)
          BY <3>5, <5>1, JoinStack
        <5>3. \A i \in 1..Len(x) : z[i] = x[i]
          BY <3>5, <5>1, JoinStack
        <5>4. \A i \in 1..Len(v) : z[Len(x) + i] = v[i]
          BY <3>5, <5>1, JoinStack
        <5> QED BY <5>2, <5>3, <5>4
      <4>2. 1 \in 1..1 /\ 1 \in 1..3 /\ 2 \in 1..3 /\ 3 \in 1..3 /\ 1 + 3 = 4
        OBVIOUS
      <4> QED BY <3>4, <4>1, <4>2
    <3>7. \A i \in 1..4 : z[i] = w[i]
      <4>1. \A i \in 1..4 : i = 1 \/ i = 2 \/ i = 3 \/ i = 4
        OBVIOUS
      <4> QED BY <3>4, <3>6, <4>1
    <3>8. z = [i \in 1..4 |-> z[i]] /\ w = [i \in 1..4 |-> w[i]]
      BY <3>4, <3>6 DEF IsStack
    <3> QED BY <3>1, <3>3, <3>7, <3>8
  <2> QED BY <1>2, <2>1 DEF SendSucceeds
<1>9. /\ op' = [op EXCEPT ![s].stage = "sent"] /\ UNCHANGED <<ops, timers, depth>>
      /\ client' = [client EXCEPT !.locked = FALSE]
  BY DEF SendSucceeds
<1>10. Parts' /\ Onward
  <2>1. \A g \in FramesOf(z) : LoopIn(g)
    BY <1>3, <1>5, <1>6, <1>7
  <2>2. z[1].do \notin {"connected", "refused"}
    BY <1>3, <1>7
  <2>3. \E g \in FramesOf(z) : Holds(g, s)
    BY <1>4, <1>6, <1>7 DEF Holds
  <2> QED BY <1>7, <1>8, <1>9, <2>1, <2>2, <2>3, SentParts DEF Main
<1>11. depth \in 0..1
  BY SendLevel
<1>12. Kind(f, depth + 1, client', op') /\ Kind(a, depth, client', op')
  <2>1. depth + 1 \in 1..2
    BY <1>11
  <2> QED BY <1>3, <1>4, <1>11, <2>1 DEF Kind, Steady, Deep, Single
<1>13. PICK r : r = y \o stack
  OBVIOUS
<1>14. AtLevel(r, depth, client', op')
  <2>1. f.do \in Steady /\ f.do \notin {"enter", "exit"} /\ depth \in 0..3
    BY <1>4, <1>11 DEF Steady
  <2> QED BY <1>2, <1>10, <1>12, <1>13, <2>1, GuardPlaced
<1>15. PICK u, l : u = stack' /\ l = depth
  OBVIOUS
<1>16. IsStack(r) /\ IsStack(y) /\ IsStack(x) /\ IsStack(stack)
  <2>1. IsStack(y) /\ IsStack(x) /\ IsStack(stack)
    BY <1>5, <1>6 DEF GoodList, Base
  <2>2. IsStack(r)
    BY <1>13, <2>1, JoinStack
  <2> QED BY <2>1, <2>2
<1>17. u = <<a>> \o r
  BY <1>2, <1>8, <1>13, <1>15, <1>16, Joined DEF Call
<1>18. l \in Int /\ l = l + Delta(a) /\ (l = 0 => \A g \in FramesOf(r) : g.do \in Steady) /\ a.do # "connectivity"
  <2>1. Delta(a) = 0
    BY <1>3 DEF Delta
  <2>2. l = 0 => \A g \in FramesOf(r) : g.do \in Steady
    BY <1>14, <1>15, <1>16, LevelZero
  <2> QED BY <1>3, <1>11, <1>15, <2>1, <2>2
<1>19. AtLevel(u, l, client', op')
  BY <1>12, <1>14, <1>15, <1>16, <1>17, <1>18, PushOne
<1>20. AllPlaced'
  BY <1>9, <1>15, <1>19 DEF AllPlaced
<1> QED BY <1>10, <1>20 DEF Main


LEMMA IdleLevel == ASSUME Base, Main, Idle PROVE stack = <<>> /\ depth = 0
<1>1. stack = <<>>
  BY DEF Idle
<1>2. depth = 0
  BY <1>1, EmptyLevel DEF Main, AllPlaced
<1> QED BY <1>1, <1>2

\* A call that does something within a guard: one from outside, or the report
\* that the network is lost, also from within a callback.
LEMMA MainGuarded ==
    ASSUME Base, Main, CanCall, Unmoved, NEW f, FrameOK(f), f.do \in {"netdown", "deliver"}, f.do = "deliver" => Idle,
           Call(<<Frame("enter", 0, NoArg), f, Frame("exit", 0, NoArg)>>)
    PROVE  Main'
<1>1. depth \in 0..3 /\ (depth >= 2 => Gone(client)) /\ (f.do = "deliver" => depth = 0)
  <2>1. depth \in 0..3 /\ (depth >= 2 => Gone(client))
    BY CallLevel
  <2> QED BY <2>1, IdleLevel
<1>2. PICK x : x = <<Frame("enter", 0, NoArg), f, Frame("exit", 0, NoArg)>>
  OBVIOUS
<1>3. /\ Onward /\ SameSession /\ client'.opsDeleted = client.opsDeleted /\ (Gone(client') <=> Gone(client))
      /\ UNCHANGED <<ops, op, timers, depth>>
  BY UnmovedFacts
<1>4. GoodList(x) /\ x # <<>> /\ x[1].do \notin {"connected", "refused"} /\ (\A g \in FramesOf(x) : LoopIn(g)) /\ Call(x)
  <2>1. LoopIn(f) /\ f.do \notin TopOnly
    BY DEF LoopIn, TopOnly
  <2> QED BY <1>2, <2>1, GuardList
<1>5. Parts'
  BY <1>3, <1>4, PlainCall DEF Main
<1>6. Kind(f, depth + 1, client', op')
  <2>1. depth + 1 \in 1..4 /\ (depth + 1 = 4 => Gone(client')) /\ (f.do = "deliver" => depth + 1 = 1)
    BY <1>1, <1>3
  <2> QED BY <2>1 DEF Kind, Steady, Deep, Single
<1>7. AllPlaced'
  <2>1. PICK u : u = stack'
    OBVIOUS
  <2>2. u = x \o stack /\ f.do \in Steady /\ f.do \notin {"enter", "exit"} /\ depth \in 0..3
    BY <1>1, <1>4, <2>1 DEF Call, Steady
  <2>3. AtLevel(u, depth, client', op')
    BY <1>2, <1>3, <1>6, <2>2, GuardPlaced
  <2> QED BY <1>3, <2>1, <2>3 DEF AllPlaced
<1> QED BY <1>5, <1>7 DEF Main

LEMMA MainNotify == ASSUME Base, Main, NotifyNetworkDisconnected PROVE Main'
<1>1. CanCall /\ Unmoved /\ Call(NetworkLost)
  BY DEF NotifyNetworkDisconnected, Unmoved
<1>2. PICK f : f = Frame("netdown", 0, NoArg)
  OBVIOUS
<1>3. FrameOK(f) /\ f.do = "netdown"
  BY <1>2, FrameFacts DEF Special
<1>4. Call(<<Frame("enter", 0, NoArg), f, Frame("exit", 0, NoArg)>>)
  BY <1>1, <1>2 DEF NetworkLost
<1> QED BY <1>1, <1>3, <1>4, MainGuarded

LEMMA MainProcessData == ASSUME Base, Main, ProcessData PROVE Main'
<1>1. CanCall /\ Idle /\ Unmoved
  BY DEF ProcessData, Unmoved
<1>2. PICK s, msg : Call(<<Frame("enter", 0, NoArg), Frame("deliver", s, msg), Frame("exit", 0, NoArg)>>)
  BY DEF ProcessData
<1>3. PICK f : f = Frame("deliver", s, msg)
  OBVIOUS
<1>4. FrameOK(f) /\ f.do = "deliver"
  BY <1>3, FrameFacts DEF Special
<1> QED BY <1>1, <1>2, <1>3, <1>4, MainGuarded

LEMMA MainTick == ASSUME Base, Main, NEW E \in SUBSET Running(timers), Tick(E) PROVE Main'
<1>1. CanCall /\ Idle /\ UNCHANGED <<ops, op, client>> /\ timers' = StopAll(E) /\ depth' = 1
      /\ Call(Collected(E) \o <<Frame("exit", 0, NoArg)>>)
  BY DEF Tick
<1>2. stack = <<>> /\ depth = 0
  BY <1>1, IdleLevel
<1>3. PICK x, b, y, z, u : x = Collected(E) /\ b = Frame("exit", 0, NoArg) /\ y = <<b>> /\ z = x \o y /\ u = StopAll(E)
  OBVIOUS
<1>4. /\ GoodList(x) /\ \A f \in FramesOf(x) : f.do = "expired"
      /\ \A k \in Active(timers) : k \in Active(u) \/ \E f \in FramesOf(x) : f.op = k[1]
  BY <1>3, CollectedFacts DEF Base
<1>5. FrameOK(b) /\ b.do = "exit" /\ LoopIn(b)
  BY <1>3, FrameFacts, LoopInLists DEF Special
<1>6. GoodList(y) /\ FramesOf(y) = {b} /\ y # <<>>
  BY <1>3, <1>5, ListOfOne
<1>7. GoodList(z) /\ FramesOf(z) = FramesOf(x) \cup FramesOf(y) /\ z # <<>>
  <2>1. \A f \in FramesOf(y) : f.do \notin TopOnly
    BY <1>5, <1>6 DEF TopOnly
  <2>2. z = x \o y
    BY <1>3
  <2>3. /\ GoodList(z) /\ FramesOf(z) = FramesOf(x) \cup FramesOf(y)
        /\ (x # <<>> => z # <<>>) /\ (x = <<>> => z = y)
    BY <1>4, <1>6, <2>1, <2>2, ListOfLists
  <2> QED BY <1>6, <2>3
<1>8. \A i \in 1..Len(x) : x[i].do = "expired"
  BY <1>4, StackBasics DEF GoodList
<1>9. FramesOf(stack') = FramesOf(z) \cup FramesOf(stack) /\ Leaves({}) /\ Top' = z[1]
  BY <1>1, <1>3, <1>7, CallFrames
<1>10. z[1] \in FramesOf(z)
  BY <1>7, StackBasics DEF GoodList
<1>11. \A f \in FramesOf(z) : f.do \in {"expired", "exit"} /\ LoopIn(f)
  BY <1>4, <1>5, <1>6, <1>7 DEF LoopIn
<1>12. Answer'
  BY <1>9, <1>10, <1>11, NoAnswer
<1>13. \A s \in Live : Doomed(s) => Doomed(s)'
  BY <1>1, <1>9, DoomedKept
<1>14. ASSUME NEW s, Held(s) PROVE Held(s)'
  <2>1. CASE <<s, "response">> \in Active(timers)
    <3>1. <<s, "response">>[1] = s
      OBVIOUS
    <3>2. <<s, "response">> \in Active(timers') \/ \E f \in FramesOf(x) : f.op = s
      BY <1>1, <1>3, <1>4, <2>1, <3>1
    <3> QED BY <1>4, <1>7, <1>9, <3>2 DEF Held, Holds
  <2>2. CASE <<s, "response">> \notin Active(timers)
    BY <1>9, <1>14, <2>2, HeldKept
  <2> QED BY <2>1, <2>2
<1>15. ASSUME HeldAlive PROVE HeldAlive'
  <2>1. ASSUME NEW n \in KeepAliveNames, <<KeepAlive, n>> \in Active(timers) PROVE HeldAlive'
    <3>1. <<KeepAlive, n>>[1] = KeepAlive
      OBVIOUS
    <3>2. <<KeepAlive, n>> \in Active(timers') \/ \E f \in FramesOf(x) : f.op = KeepAlive
      BY <1>1, <1>3, <1>4, <2>1, <3>1
    <3> QED BY <1>4, <1>7, <1>9, <3>2 DEF HeldAlive, HoldsAlive
  <2> QED BY <1>9, <1>15, <2>1, AliveKept
<1>16. Parts'
  <2>1. SameSession /\ client'.opsDeleted = client.opsDeleted /\ (depth' = 0 => depth = 0) /\ UNCHANGED <<ops, op>>
    BY <1>1 DEF SameSession
  <2>2. \A f \in FramesOf(stack') : f \in FramesOf(stack) \/ LoopIn(f)
    BY <1>9, <1>11
  <2> QED BY <1>2, <1>12, <1>13, <1>14, <1>15, <2>1, <2>2, PartsKept DEF Main
<1>17. AllPlaced'
  <2>1. PICK v, o, c, r : v = stack' /\ o = op' /\ c = client' /\ r = <<>>
    OBVIOUS
  <2>2. AtLevel(r, 0, c, o) /\ IsStack(r) /\ FramesOf(r) = {}
    BY <2>1, NothingPlaced, NoFrame
  <2>3. Delta(b) = 1 /\ Kind(b, 1, c, o)
    BY <1>5 DEF Delta, Kind, Steady, Deep, Single
  <2>4. PICK w : w = <<b>> \o r
    OBVIOUS
  <2>5. AtLevel(w, 1, c, o)
    <3>1. 1 = 0 + Delta(b) /\ 1 \in Int /\ 0 \in Int /\ b.do # "connectivity"
      BY <1>5, <2>3
    <3> QED BY <2>2, <2>3, <2>4, <3>1, PushOne
  <2>6. w = y
    BY <1>3, <2>1, <2>4
  <2>7. FlatList(x, 1, c, o)
    <3>1. \A f : f.do = "expired" => Delta(f) = 0 /\ Kind(f, 1, c, o)
      BY DEF Delta, Kind, Steady, Deep, Single
    <3> QED BY <1>8, <3>1 DEF FlatList, Led
  <2>8. AtLevel(z, 1, c, o)
    <3>1. 1 \in 0..4 /\ 1 # 0 /\ IsStack(x) /\ IsStack(y)
      BY <1>4, <1>6 DEF GoodList
    <3> QED BY <1>3, <2>5, <2>6, <2>7, <3>1, PushFlat
  <2>9. v = z
    <3>1. v = z \o stack
      BY <1>1, <1>3, <2>1 DEF Call
    <3>2. z \in Seq(FramesOf(z))
      BY <1>7 DEF GoodList, IsStack
    <3> QED BY <1>2, <3>1, <3>2
  <2> QED BY <1>1, <2>1, <2>8, <2>9 DEF AllPlaced
<1> QED BY <1>16, <1>17 DEF Main


-----------------------------------------------------------------------------
\* connectPrepare.

\* A connect operation is about to be created.
Making ==
    /\ Parts /\ stack # <<>> /\ Top.do = "create" /\ ~Over(client)
    /\ AtLevel(Tail(stack), depth, client, op)

Row2(t, a, b) == Len(t) = 2 /\ t[1].do = a /\ t[2].do = b
Row3(t, a, b, c) == Len(t) = 3 /\ t[1].do = a /\ t[2].do = b /\ t[3].do = c
Row4(t, a, b, c, d) == Len(t) = 4 /\ t[1].do = a /\ t[2].do = b /\ t[3].do = c /\ t[4].do = d

\* A client without a session is initialised first.
Starting ==
    /\ ops = <<>> /\ ~client.connected
    /\ \/ Row4(stack, "enter", "init", "exit", "create") /\ depth = 0 /\ Over(client)
       \/ Row3(stack, "init", "exit", "create") /\ depth = 1 /\ Over(client)
       \/ Row4(stack, "terminate", "initialized", "exit", "create") /\ depth = 1 /\ Over(client) /\ stack[1].idx > stack[1].end
       \/ Row3(stack, "initialized", "exit", "create") /\ depth = 1 /\ Over(client)
       \/ Row2(stack, "exit", "create") /\ depth = 1 /\ ~Over(client) /\ ~client.disconnecting

LEMMA MakingCreate == ASSUME Base, Making, CreateConnect PROVE Main'
<1>1. At("create") /\ Then(<<>>) /\ depth' = depth
  BY DEF CreateConnect
<1>2. stack # <<>> /\ Top.do = "create"
  BY DEF Making
<1>3. stack' = Tail(stack)
  BY <1>1, <1>2, NextTop
<1>4. /\ FramesOf(stack') = Below(stack) /\ FramesOf(stack) = {Top} \cup Below(stack) /\ Leaves({"create"})
      /\ GoodList(stack')
  BY <1>1, ListOfNone, ThenFrames
<1>5. Answer'
  <2>1. stack' # <<>> => Top'.do \notin TopOnly
    BY <1>1, ListOfNone, ThenFrames
  <2> QED BY <2>1, NoAnswer DEF TopOnly
<1>6. CASE Create("connect") /\ OfType("connect") = {} /\ ~client.connected
  <2>1. Parts' /\ Onward
    <3>1. "connect" \in Prepares /\ FramesOf(stack') \subseteq FramesOf(stack)
      BY <1>4 DEF Prepares, Requests
    <3> QED BY <1>1, <1>2, <1>4, <1>5, <1>6, <3>1, CreateParts DEF Making
  <2>2. AllPlaced'
    <3>1. PICK r : r = Tail(stack)
      OBVIOUS
    <3>2. IsStack(r) /\ AtLevel(r, depth, client, op)
      BY <1>3, <1>4, <3>1 DEF GoodList, Making
    <3>3. AtLevel(r, depth, client', op')
      BY <2>1, <3>2, PlacesKept DEF Onward
    <3> QED BY <1>1, <1>3, <3>1, <3>3 DEF AllPlaced
  <2> QED BY <2>1, <2>2 DEF Main
<1>7. CASE UNCHANGED <<ops, op, client, timers>>
  <2>1. SameSession /\ client'.opsDeleted = client.opsDeleted /\ UNCHANGED <<ops, op, timers, depth>>
    BY <1>1, <1>7 DEF SameSession
  <2>2. Parts'
    <3>1. "create" \notin Weighty
      BY DEF Weighty
    <3> QED BY <1>1, <2>1, <3>1, ListOfNone, PlainThen DEF Making
  <2>3. AllPlaced'
    BY <1>1, <1>3, <1>7 DEF AllPlaced, Making
  <2> QED BY <2>2, <2>3 DEF Main
<1> QED BY <1>6, <1>7 DEF CreateConnect

LEMMA MainConnectPrepare == ASSUME Base, Main, ConnectPrepare PROVE Main' \/ Making' \/ Starting'
<1>1. CanCall /\ Unmoved
  BY DEF ConnectPrepare, Unmoved
<1>2. /\ Onward /\ SameSession /\ client'.opsDeleted = client.opsDeleted /\ (Over(client') <=> Over(client))
      /\ UNCHANGED <<ops, op, timers, depth>>
  BY <1>1, UnmovedFacts
<1>3. stack # <<>> => Top.do = "app"
  BY <1>1, CallFacts
<1>4. PICK a, b, c, d, x, y : /\ a = Frame("enter", 0, NoArg) /\ b = Frame("init", 0, NoArg)
                              /\ c = Frame("exit", 0, NoArg) /\ d = Frame("create", 0, NoArg)
                              /\ x = <<a, b, c, d>> /\ y = <<d>>
  OBVIOUS
<1>5. a.do = "enter" /\ b.do = "init" /\ c.do = "exit" /\ d.do = "create" /\ FrameOK(d) /\ LoopIn(d)
  <2>1. a.do = "enter" /\ b.do = "init" /\ c.do = "exit"
    BY <1>4, FrameFacts
  <2>2. d.do = "create" /\ FrameOK(d) /\ LoopIn(d)
    BY <1>4, FrameFacts, LoopInLists DEF Special
  <2> QED BY <2>1, <2>2
<1>6. \/ ~Over(client) /\ Call(y)
      \/ Over(client) /\ depth = 0 /\ Call(x)
      \/ stack' = stack
  BY <1>4 DEF ConnectPrepare, Over
<1>7. CASE ~Over(client) /\ Call(y)
  <2>1. GoodList(y) /\ FramesOf(y) = {d} /\ y # <<>> /\ y[1] = d
    BY <1>4, <1>5, ListOfOne
  <2>2. Parts'
    BY <1>1, <1>2, <1>5, <1>7, <2>1, PlainCall DEF Main
  <2>3. PICK u, t : u = stack' /\ t = stack
    OBVIOUS
  <2>4. IsStack(t) /\ u = y \o t
    BY <1>7, <2>3 DEF Base, GoodList, Call
  <2>5. IsStack(u) /\ u # <<>> /\ Head(u) = d
    BY <1>4, <2>4, OnTop
  <2>6. Tail(u) = t
    <3>1. PICK r : r = Tail(u)
      OBVIOUS
    <3>2. Len(y) = 1 /\ IsStack(y)
      BY <1>4, OneFrame
    <3>3. Len(u) = Len(y) + Len(t) /\ \A i \in 1..Len(t) : u[Len(y) + i] = t[i]
      <4>1. IsStack(y) /\ IsStack(t) /\ u = y \o t
        BY <2>4, <3>2
      <4>2. Len(u) = Len(y) + Len(t)
        BY <4>1, JoinStack
      <4>3. \A i \in 1..Len(t) : u[Len(y) + i] = t[i]
        BY <4>1, JoinStack
      <4> QED BY <4>2, <4>3
    <3>4. IsStack(r) /\ Len(r) = Len(u) - 1 /\ \A i \in 1..Len(r) : r[i] = u[i + 1]
      BY <2>5, <3>1, TailStack
    <3>5. Len(t) \in Nat
      BY <2>4, StackBasics
    <3>6. Len(r) = Len(t) /\ \A i \in 1..Len(t) : r[i] = t[i]
      <4>1. Len(r) = Len(t)
        BY <3>2, <3>3, <3>4, <3>5
      <4>2. ASSUME NEW i \in 1..Len(t) PROVE r[i] = t[i]
        <5>1. i + 1 = 1 + i
          BY <3>5
        <5> QED BY <3>2, <3>3, <3>4, <4>1, <5>1
      <4> QED BY <4>1, <4>2
    <3>7. r = [i \in 1..Len(t) |-> r[i]] /\ t = [i \in 1..Len(t) |-> t[i]]
      BY <2>4, <3>4, <3>6 DEF IsStack
    <3> QED BY <3>1, <3>6, <3>7
  <2>7. AtLevel(t, depth, client', op')
    BY <1>2, <2>3, StackPlaced DEF Main
  <2> QED BY <1>2, <1>5, <1>7, <2>2, <2>3, <2>5, <2>6, <2>7 DEF Making, Top
<1>8. CASE Over(client) /\ depth = 0 /\ Call(x)
  <2>1. stack = <<>>
    BY <1>1, <1>8, CallLevel
  <2>2. ops' = <<>> /\ ~client'.connected
    BY <1>2, <1>8 DEF Main, Parts, Ended, SameSession
  <2>3. Len(x) = 4 /\ x[1] = a /\ x[2] = b /\ x[3] = c /\ x[4] = d /\ x \in Seq(FramesOf(x))
    BY <1>4, FourFrames DEF IsStack
  <2>4. stack' = x
    BY <1>8, <2>1, <2>3 DEF Call
  <2> QED BY <1>2, <1>5, <1>8, <2>2, <2>3, <2>4 DEF Starting, Row4
<1>9. CASE stack' = stack
  <2>1. Answer'
    BY <1>3, <1>9, NoAnswer DEF Top
  <2>2. Leaves({}) /\ \A f \in FramesOf(stack') : f \in FramesOf(stack)
    BY <1>9 DEF Leaves
  <2>3. Parts'
    BY <1>2, <1>3, <2>1, <2>2, PlainKept DEF Main
  <2>4. AllPlaced'
    BY <1>2, <1>9, StackPlaced DEF Main, AllPlaced
  <2> QED BY <2>3, <2>4 DEF Main
<1> QED BY <1>6, <1>7, <1>8, <1>9


\* One frame less.
LEMMA PopRow ==
    ASSUME Base, stack # <<>>, Then(<<>>)
    PROVE  Len(stack') = Len(stack) - 1 /\ (\A i \in 1..(Len(stack) - 1) : stack'[i] = stack[i + 1]) /\ IsStack(stack')
<1>1. stack' = Tail(stack)
  BY NextTop
<1>2. PICK t, u : t = stack /\ u = Tail(t)
  OBVIOUS
<1>3. IsStack(t) /\ t # <<>>
  BY <1>2 DEF Base, GoodList
<1>4. IsStack(u) /\ Len(u) = Len(t) - 1 /\ \A i \in 1..Len(u) : u[i] = t[i + 1]
  BY <1>2, <1>3, TailStack
<1> QED BY <1>1, <1>2, <1>4

LEMMA PopRows ==
    ASSUME Base, stack # <<>>, Then(<<>>), NEW a, NEW b, NEW c, NEW d
    PROVE  /\ Row4(stack, a, b, c, d) => Row3(stack', b, c, d)
           /\ Row3(stack, a, b, c) => Row2(stack', b, c)
           /\ Row2(stack, a, b) => Len(stack') = 1 /\ stack'[1].do = b /\ IsStack(stack')
<1>1. Len(stack') = Len(stack) - 1 /\ (\A i \in 1..(Len(stack) - 1) : stack'[i] = stack[i + 1]) /\ IsStack(stack')
  BY PopRow
<1>2. PICK t, u : t = stack /\ u = stack'
  OBVIOUS
<1>3. Len(u) = Len(t) - 1 /\ \A i \in 1..(Len(t) - 1) : u[i] = t[i + 1]
  BY <1>1, <1>2
<1>4. ASSUME Len(t) = 4 PROVE Len(u) = 3 /\ u[1] = t[2] /\ u[2] = t[3] /\ u[3] = t[4]
  BY <1>3, <1>4
<1>5. ASSUME Len(t) = 3 PROVE Len(u) = 2 /\ u[1] = t[2] /\ u[2] = t[3]
  BY <1>3, <1>5
<1>6. ASSUME Len(t) = 2 PROVE Len(u) = 1 /\ u[1] = t[2]
  BY <1>3, <1>6
<1> QED BY <1>1, <1>2, <1>4, <1>5, <1>6 DEF Row4, Row3, Row2

LEMMA NoTimers == ASSUME Base, ops = <<>> PROVE Live = {} /\ Running(timers) = {}
<1>1. Live = {}
  BY NoFrame DEF Live
<1>2. Keys(timers) = {}
  BY <1>1, TableFacts DEF Base
<1>3. Active(timers) = {}
  BY <1>2, ActiveFacts DEF Base, TableOK
<1> QED BY <1>1, <1>3, ActiveFacts DEF Base, TableOK

LEMMA StartingTop ==
    ASSUME Base, Starting
    PROVE  stack # <<>> /\ Top = stack[1] /\ Top.do \in {"enter", "init", "terminate", "initialized", "exit"}
<1>1. Len(stack) > 0 /\ stack[1].do \in {"enter", "init", "terminate", "initialized", "exit"}
  BY DEF Starting, Row4, Row3, Row2
<1>2. stack # <<>>
  BY <1>1, NoFrame
<1> QED BY <1>1, <1>2, StackBasics DEF Base, GoodList, Top

LEMMA StartingEnter ==
    ASSUME Base, Starting, Top.do = "enter", Enter PROVE Starting'
<1>1. Row4(stack, "enter", "init", "exit", "create") /\ depth = 0 /\ Over(client) /\ ops = <<>> /\ ~client.connected
  BY StartingTop DEF Starting, Row4, Row3, Row2
<1>2. stack # <<>>
  BY StartingTop
<1>3. PICK E \in SUBSET Running(timers) : Then(Collected(E))
  BY DEF Enter
<1>4. E = {}
  BY <1>1, <1>3, NoTimers
<1>5. Collected(E) = <<>>
  BY <1>3, <1>4, CollectedFacts DEF Base
<1>6. Then(<<>>)
  BY <1>3, <1>5
<1>7. Row3(stack', "init", "exit", "create")
  BY <1>1, <1>2, <1>6, PopRows
<1>8. UNCHANGED <<ops, client>> /\ depth' = 1
  BY <1>1 DEF Enter
<1> QED BY <1>1, <1>7, <1>8 DEF Starting

LEMMA StartingInit ==
    ASSUME Base, Starting, Top.do = "init", InitInternal PROVE Starting'
<1>1. Row3(stack, "init", "exit", "create") /\ depth = 1 /\ Over(client) /\ ops = <<>> /\ ~client.connected
  BY StartingTop DEF Starting, Row4, Row3, Row2
<1>2. stack # <<>>
  BY StartingTop
<1>3. PICK a, b, x : /\ a = Loop("terminate", 0, "Aborted", 1, Len(ops)) /\ b = Frame("initialized", 0, NoArg)
                     /\ x = <<a, b>>
  OBVIOUS
<1>4. a.do = "terminate" /\ a.idx = 1 /\ a.end = 0
  <2>1. Len(ops) = 0
    BY <1>1, NoFrame
  <2> QED BY <1>3, <2>1 DEF Loop
<1>5. b.do = "initialized"
  BY <1>3, FrameFacts
<1>6. IsStack(x) /\ Len(x) = 2 /\ x[1] = a /\ x[2] = b
  BY <1>3, TwoFrames
<1>7. PICK t, r, u : t = stack /\ r = Tail(t) /\ u = stack'
  OBVIOUS
<1>8. IsStack(t) /\ t # <<>> /\ u = x \o r
  BY <1>2, <1>3, <1>7 DEF Base, GoodList, InitInternal, Then
<1>9. IsStack(r) /\ Len(r) = Len(t) - 1 /\ \A i \in 1..Len(r) : r[i] = t[i + 1]
  BY <1>7, <1>8, TailStack
<1>10. Len(r) = 2 /\ r[1] = t[2] /\ r[2] = t[3]
  <2>1. Len(t) = 3
    BY <1>1, <1>7 DEF Row3
  <2>2. Len(r) = 2 /\ 1 \in 1..2 /\ 2 \in 1..2 /\ 1 + 1 = 2 /\ 2 + 1 = 3
    BY <1>9, <2>1
  <2>3. r[1] = t[1 + 1] /\ r[2] = t[2 + 1]
    BY <1>9, <2>2
  <2> QED BY <2>2, <2>3
<1>11. Len(u) = Len(x) + Len(r)
  <2>1. IsStack(x) /\ IsStack(r) /\ u = x \o r
    BY <1>6, <1>8, <1>9
  <2> QED BY <2>1, JoinStack
<1>12. \A i \in 1..Len(x) : u[i] = x[i]
  <2>1. IsStack(x) /\ IsStack(r) /\ u = x \o r
    BY <1>6, <1>8, <1>9
  <2> QED BY <2>1, JoinStack
<1>13. \A i \in 1..Len(r) : u[Len(x) + i] = r[i]
  <2>1. IsStack(x) /\ IsStack(r) /\ u = x \o r
    BY <1>6, <1>8, <1>9
  <2> QED BY <2>1, JoinStack
<1>14. Len(u) = 4 /\ u[1] = a /\ u[2] = b /\ u[3] = t[2] /\ u[4] = t[3]
  <2>1. 1 \in 1..2 /\ 2 \in 1..2 /\ 2 + 1 = 3 /\ 2 + 2 = 4
    OBVIOUS
  <2>2. u[1] = a /\ u[2] = b
    BY <1>6, <1>12, <2>1
  <2>3. u[2 + 1] = r[1] /\ u[2 + 2] = r[2]
    BY <1>6, <1>10, <1>13, <2>1
  <2> QED BY <1>6, <1>10, <1>11, <2>1, <2>2, <2>3
<1>15. UNCHANGED <<ops, client, depth>>
  BY DEF InitInternal
<1> QED BY <1>1, <1>4, <1>5, <1>7, <1>14, <1>15 DEF Starting, Row3, Row4

LEMMA StartingPops ==
    ASSUME Base, Starting,
           (Top.do = "terminate" /\ TerminateOps) \/ (Top.do = "initialized" /\ Initialized)
    PROVE  Starting'
<1>1. CASE Top.do = "terminate" /\ TerminateOps
  <2>1. /\ Row4(stack, "terminate", "initialized", "exit", "create") /\ depth = 1 /\ Over(client)
        /\ stack[1].idx > stack[1].end /\ ops = <<>> /\ ~client.connected
    BY <1>1, StartingTop DEF Starting, Row4, Row3, Row2
  <2>2. stack # <<>> /\ Top = stack[1]
    BY StartingTop
  <2>3. Then(<<>>) /\ UNCHANGED <<ops, client, depth>>
    BY <1>1, <2>1, <2>2 DEF TerminateOps
  <2>4. Row3(stack', "initialized", "exit", "create")
    BY <2>1, <2>2, <2>3, PopRows
  <2> QED BY <2>1, <2>3, <2>4 DEF Starting
<1>2. CASE Top.do = "initialized" /\ Initialized
  <2>1. Row3(stack, "initialized", "exit", "create") /\ depth = 1 /\ ops = <<>>
    BY <1>2, StartingTop DEF Starting, Row4, Row3, Row2
  <2>2. stack # <<>>
    BY StartingTop
  <2>3. Then(<<>>) /\ UNCHANGED <<ops, depth>>
    BY <1>2 DEF Initialized
  <2>4. client'.initialized /\ ~client'.disconnecting /\ ~client'.connected
    BY <1>2 DEF Initialized, Base, ValuesOK, ClientType
  <2>5. Row2(stack', "exit", "create")
    BY <2>1, <2>2, <2>3, PopRows
  <2> QED BY <2>1, <2>3, <2>4, <2>5 DEF Starting, Over
<1> QED BY <1>1, <1>2

LEMMA StartingExit == ASSUME Base, Starting, Top.do = "exit", Exit PROVE Making'
<1>1. Row2(stack, "exit", "create") /\ depth = 1 /\ ~Over(client) /\ ~client.disconnecting /\ ops = <<>> /\ ~client.connected
  BY StartingTop DEF Starting, Row4, Row3, Row2
<1>2. stack # <<>>
  BY StartingTop
<1>3. Then(<<>>) /\ UNCHANGED <<op, timers>> /\ depth' = 0
  BY <1>1 DEF Exit
<1>4. Len(stack') = 1 /\ stack'[1].do = "create" /\ IsStack(stack')
  BY <1>1, <1>2, <1>3, PopRows
<1>5. SameSession
  BY DEF Exit, SameSession, Base, ValuesOK, ClientType
<1>6. ops' = <<>>
  <2>1. Live = {}
    BY <1>1, NoTimers
  <2> QED BY <1>1, <1>3, <2>1, CleanTable DEF Exit, Base
<1>7. ~Over(client') /\ ~client'.disconnecting /\ ~client'.connected
  BY <1>1, <1>5 DEF SameSession, Over
<1>8. PICK u, r : u = stack' /\ r = Tail(u)
  OBVIOUS
<1>9. u # <<>> /\ Head(u) = u[1] /\ FramesOf(u) = {Head(u)} \cup Below(u)
  <2>1. u # <<>>
    BY <1>4, <1>8, NoFrame
  <2> QED BY <1>4, <1>8, <2>1, StackBasics
<1>10. r = <<>>
  <2>1. IsStack(r) /\ Len(r) = 0
    <3>1. IsStack(u) /\ u # <<>>
      BY <1>4, <1>8, <1>9
    <3>2. IsStack(r) /\ Len(r) = Len(u) - 1
      BY <1>8, <3>1, TailStack
    <3> QED BY <1>4, <1>8, <3>2
  <2>2. r \in Seq(FramesOf(r))
    BY <2>1 DEF IsStack
  <2> QED BY <2>1, <2>2
<1>11. FramesOf(u) = {u[1]}
  <2>1. Below(u) = {}
    <3>1. IsStack(u) /\ u # <<>>
      BY <1>4, <1>8, <1>9
    <3>2. FramesOf(r) = Below(u)
      BY <1>8, <3>1, TailStack
    <3> QED BY <1>10, <3>2, NoFrame
  <2> QED BY <1>9, <2>1
<1>12. Live' = {}
  BY <1>6, NoFrame DEF Live
<1>13. Top'.do = "create" /\ stack' # <<>>
  BY <1>4, <1>8, <1>9 DEF Top
<1>14. Loops'
  BY <1>4, <1>8, <1>11 DEF Loops, LoopIn
<1>15. Marked'
  <2>1. Len(ops') = 0 /\ 1..0 = {}
    BY <1>6, NoFrame
  <2> QED BY <2>1 DEF Marked
<1>16. Ended'
  BY <1>7 DEF Ended
<1>17. Agrees'
  BY <1>7, <1>12 DEF Agrees, OfType
<1>18. Answer'
  BY <1>13, NoAnswer
<1>19. Timed' /\ Alive'
  BY <1>7, <1>12 DEF Timed, Alive
<1>20. AtLevel(Tail(stack'), depth', client', op')
  BY <1>3, <1>8, <1>10, NothingPlaced
<1> QED BY <1>7, <1>13, <1>14, <1>15, <1>16, <1>17, <1>18, <1>19, <1>20 DEF Making, Parts


-----------------------------------------------------------------------------
\* Every step of the specification.

\* The first frame tells which step is taken.
LEMMA StepTop ==
    /\ \A do : At(do) => fate = "running" /\ stack # <<>> /\ Top.do = do
    /\ (Enter => At("enter")) /\ (Exit => At("exit")) /\ (CompleteOpInternal => At("complete"))
    /\ (Callback => At("callback")) /\ (Expired => At("expired")) /\ (Wait => At("wait"))
    /\ (Lost => At("lost")) /\ (TerminateOps => At("terminate")) /\ (ConnectivityChanged => At("connectivity"))
    /\ (Report => At("report")) /\ (NetworkDown => At("netdown")) /\ (Output => At("output"))
    /\ (MessageSent => At("sent")) /\ (InitInternal => At("init")) /\ (Initialized => At("initialized"))
    /\ (CreateConnect => At("create")) /\ (Disconnect => At("disconnect")) /\ (Freed => At("freed"))
    /\ (Deliver => At("deliver")) /\ (Dispatch => At("dispatch")) /\ (Heard => At("heard"))
    /\ (BrokerConnected => At("connected")) /\ (Refused => At("refused")) /\ (AppReturn => At("app"))
<1>1. \A do : At(do) => fate = "running" /\ stack # <<>> /\ Top.do = do
  BY DEF At, Top
<1>2. (Enter => At("enter")) /\ (Exit => At("exit")) /\ (CompleteOpInternal => At("complete"))
  BY DEF Enter, Exit, CompleteOpInternal
<1>3. (Callback => At("callback")) /\ (Expired => At("expired")) /\ (Wait => At("wait"))
  BY DEF Callback, Expired, Wait
<1>4. (Lost => At("lost")) /\ (TerminateOps => At("terminate")) /\ (ConnectivityChanged => At("connectivity"))
  BY DEF Lost, TerminateOps, ConnectivityChanged
<1>5. (Report => At("report")) /\ (NetworkDown => At("netdown")) /\ (Output => At("output"))
  BY DEF Report, NetworkDown, Output
<1>6. (MessageSent => At("sent")) /\ (InitInternal => At("init")) /\ (Initialized => At("initialized"))
  BY DEF MessageSent, InitInternal, Initialized
<1>7. (CreateConnect => At("create")) /\ (Disconnect => At("disconnect")) /\ (Freed => At("freed"))
  BY DEF CreateConnect, Disconnect, Freed
<1>8. (Deliver => At("deliver")) /\ (Dispatch => At("dispatch")) /\ (Heard => At("heard"))
  BY DEF Deliver, Dispatch, Heard
<1>9. (BrokerConnected => At("connected")) /\ (Refused => At("refused")) /\ (AppReturn => At("app"))
  BY DEF BrokerConnected, Refused, AppReturn
<1> QED BY <1>1, <1>2, <1>3, <1>4, <1>5, <1>6, <1>7, <1>8, <1>9

LEMMA NoCall ==
    ASSUME Next, ~Step PROVE CanCall
  BY DEF Next, ConnectPrepare, DisconnectPrepare, SubscribePrepare, UnsubscribePrepare, ConnectSend, DisconnectSend,
         SubscribeSend, UnsubscribeSend, Cancel, NotifyNetworkDisconnected, FreeClient, ProcessData, Tick

\* The client is being freed, or is gone.
Freeing ==
    /\ depth = 0
    /\ fate = "running" => \E f \in FramesOf(stack) : f.do = "freed"
    /\ \A f \in FramesOf(stack) : f.do \in {"terminate", "complete", "callback", "app", "freed"}

SInv == Main \/ Making \/ Starting \/ Freeing

LEMMA FreeingFree == ASSUME Base, Main, FreeClient PROVE Freeing'
<1>1. CanCall /\ Idle /\ depth' = depth
  BY DEF FreeClient
<1>2. stack = <<>> /\ depth = 0
  BY <1>1, IdleLevel
<1>3. PICK a, b, x : /\ a = Loop("terminate", 0, "Aborted", 1, Len(ops)) /\ b = Frame("freed", 0, NoArg) /\ x = <<a, b>>
  OBVIOUS
<1>4. FrameOK(a) /\ a.do = "terminate"
  <2>1. Len(ops) \in Nat
    BY TableBasics DEF Base, TableOK
  <2> QED BY <1>3, <2>1, LoopIs DEF Special
<1>5. FrameOK(b) /\ b.do = "freed"
  BY <1>3, FrameFacts DEF Special
<1>6. GoodList(x) /\ FramesOf(x) = {a, b} /\ x # <<>>
  BY <1>3, <1>4, <1>5, ListOfTwo DEF TopOnly
<1>7. Call(x)
  BY <1>3 DEF FreeClient
<1>8. FramesOf(stack') = FramesOf(x) \cup FramesOf(stack)
  BY <1>1, <1>6, <1>7, CallFrames
<1>9. FramesOf(stack) = {}
  BY <1>2, NoFrame
<1> QED BY <1>1, <1>2, <1>4, <1>5, <1>6, <1>8, <1>9 DEF Freeing

LEMMA FreeingThen ==
    ASSUME Base, Freeing, NEW do, At(do), do # "freed" \/ fate' # "running", NEW x, GoodList(x), Then(x), depth' = depth,
           \A f \in FramesOf(x) : f.do \in {"terminate", "complete", "callback", "app"},
           fate' = "running" => fate = "running"
    PROVE  Freeing'
<1>1. FramesOf(stack') = FramesOf(x) \cup Below(stack) /\ FramesOf(stack) = {Top} \cup Below(stack)
  BY ThenFrames
<1>2. Top.do = do
  BY TopFacts
<1> QED BY <1>1, <1>2 DEF Freeing

LEMMA FreeingStep == ASSUME Base, Freeing, Step, ~Undefined PROVE Freeing'
<1>1. stack # <<>> /\ Top.do \in {"terminate", "complete", "callback", "app", "freed"} /\ FrameOK(Top)
  <2>1. stack # <<>>
    BY StepTop DEF Step
  <2>2. Top \in FramesOf(stack)
    BY <2>1, StackBasics DEF Base, GoodList, Top
  <2> QED BY <2>1, <2>2 DEF Freeing, Base, GoodList
<1>2. TerminateOps \/ CompleteOpInternal \/ Callback \/ AppReturn \/ Freed
  BY <1>1, StepTop DEF Step
<1>3. CASE TerminateOps
  <2>1. At("terminate") /\ depth' = depth /\ fate' = fate /\ Top.do = "terminate"
    BY <1>3, TopFacts DEF TerminateOps
  <2>2. PICK g : g = [Top EXCEPT !.idx = @ + 1]
    OBVIOUS
  <2>3. FrameOK(g) /\ g.do = "terminate"
    BY <1>1, <2>1, <2>2, NextIndex DEF Special
  <2>4. CASE Top.idx > Top.end
    <3>1. Then(<<>>)
      BY <1>3, <2>4 DEF TerminateOps
    <3> QED BY <2>1, <3>1, ListOfNone, FreeingThen
  <2>5. CASE ~(Top.idx > Top.end)
    <3>1. PICK s, a : s = ops[Top.idx] /\ a = Frame("complete", s, Top.arg)
      OBVIOUS
    <3>2. PICK x, y, z : x = (IF s = 0 THEN <<>> ELSE <<a>>) /\ y = <<g>> /\ z = x \o y
      OBVIOUS
    <3>3. Then(z)
      BY <1>3, <2>2, <2>5, <3>1, <3>2 DEF TerminateOps
    <3>4. FrameOK(a) /\ a.do = "complete"
      BY <3>1, FrameFacts DEF Special
    <3>5. GoodList(x) /\ \A f \in FramesOf(x) : f.do = "complete"
      BY <3>2, <3>4, ListOfOne, ListOfNone
    <3>6. GoodList(y) /\ FramesOf(y) = {g}
      BY <2>3, <3>2, ListOfOne
    <3>7. z = x \o y /\ \A f \in FramesOf(y) : f.do \notin TopOnly
      BY <2>3, <3>2, <3>6 DEF TopOnly
    <3>8. GoodList(z) /\ FramesOf(z) = FramesOf(x) \cup FramesOf(y)
      BY <3>5, <3>6, <3>7, ListOfLists
    <3>9. \A f \in FramesOf(z) : f.do \in {"terminate", "complete", "callback", "app"}
      BY <2>3, <3>5, <3>6, <3>8
    <3> QED BY <2>1, <3>3, <3>8, <3>9, FreeingThen
  <2> QED BY <2>4, <2>5
<1>4. CASE CompleteOpInternal
  <2>1. At("complete") /\ depth' = depth /\ fate' = fate /\ Top.op \in Live
    BY <1>4 DEF CompleteOpInternal
  <2>2. PICK s, a, x : s = Top.op /\ a = Frame("callback", s, Top.arg) /\ x = <<a>>
    OBVIOUS
  <2>3. (s \in Handles /\ Then(x)) \/ Then(<<>>)
    <3>1. op[s].type \in Requests => s \in Handles
      BY <2>1, <2>2, TableFacts DEF Base
    <3> QED BY <1>4, <2>1, <2>2, <3>1 DEF CompleteOpInternal
  <2>4. CASE s \in Handles /\ Then(x)
    <3>1. FrameOK(a) /\ a.do = "callback"
      BY <2>2, <2>4, SpecialFrames, FrameFacts
    <3>2. GoodList(x) /\ FramesOf(x) = {a}
      BY <2>2, <3>1, ListOfOne
    <3> QED BY <2>1, <2>4, <3>1, <3>2, FreeingThen
  <2>5. CASE Then(<<>>)
    BY <2>1, <2>5, ListOfNone, FreeingThen
  <2> QED BY <2>3, <2>4, <2>5
<1>5. CASE Callback
  <2>1. At("callback") /\ depth' = depth /\ fate' = fate
    BY <1>5 DEF Callback
  <2>2. PICK a, x : a = Frame("app", 0, NoArg) /\ x = <<a>>
    OBVIOUS
  <2>3. FrameOK(a) /\ a.do = "app"
    BY <2>2, FrameFacts DEF Special
  <2>4. GoodList(x) /\ FramesOf(x) = {a} /\ Then(x)
    BY <1>5, <2>2, <2>3, ListOfOne DEF Callback
  <2> QED BY <2>1, <2>3, <2>4, FreeingThen
<1>6. CASE AppReturn
  <2>1. At("app") /\ depth' = depth /\ fate' = fate /\ Then(<<>>)
    BY <1>6 DEF AppReturn
  <2> QED BY <2>1, ListOfNone, FreeingThen
<1>7. CASE Freed
  <2>1. At("freed") /\ depth' = depth /\ fate' = "freed" /\ Then(<<>>)
    BY <1>7 DEF Freed
  <2> QED BY <2>1, ListOfNone, FreeingThen
<1> QED BY <1>2, <1>3, <1>4, <1>5, <1>6, <1>7

LEMMA MainStep == ASSUME Base, Told, LockHeld, Main, Step, ~Undefined PROVE Main'
<1>1. \E do : At(do)
  BY StepTop DEF Step
<1>2. stack # <<>> /\ Top.do \in Steady \cup Deep \cup Single
  <2>1. PICK do : At(do)
    BY <1>1
  <2>2. Kind(Top, depth, client, op) /\ stack # <<>>
    BY <2>1, TopKind, TopFacts
  <2> QED BY <2>2 DEF Kind
<1>3. ~InitInternal /\ ~Initialized /\ ~CreateConnect /\ ~Freed
  <2>1. Top.do \notin {"init", "initialized", "create", "freed"}
    BY <1>2 DEF Steady, Deep, Single
  <2> QED BY <2>1, StepTop
<1>4. CASE CompleteOpInternal \/ Expired \/ Wait \/ Disconnect \/ Heard
  <2>1. Top.op \in Live
    BY <1>4 DEF CompleteOpInternal, Expired, Wait, Disconnect, Heard
  <2> QED BY <1>4, <2>1, MainComplete, MainExpired, MainWait, MainDisconnect, MainHeard
<1>5. CASE Enter \/ Exit \/ Callback \/ Lost \/ TerminateOps \/ ConnectivityChanged \/ Report \/ NetworkDown
  BY <1>5, MainEnter, MainExit, MainCallback, MainLost, MainTerminate, MainConnectivity, MainReport, MainNetworkDown
<1>6. CASE Output \/ MessageSent \/ Deliver \/ Dispatch \/ BrokerConnected \/ Refused \/ AppReturn
  BY <1>6, MainOutput, MainMessageSent, MainDeliver, MainDispatch, MainConnected, MainRefused, MainAppReturn
<1> QED BY <1>3, <1>4, <1>5, <1>6 DEF Step

LEMMA MainCall == ASSUME Base, Main, Next, ~Step PROVE SInv'
<1>1. CASE ConnectSend \/ SubscribeSend \/ UnsubscribeSend
  <2>1. PICK s \in Prepared : CanCall /\ (SendFails(s) \/ SendSucceeds(s))
    BY <1>1 DEF ConnectSend, SubscribeSend, UnsubscribeSend
  <2> QED BY <2>1, MainSendFails, MainSendSucceeds DEF SInv
<1>2. CASE DisconnectPrepare \/ SubscribePrepare \/ UnsubscribePrepare \/ DisconnectSend \/ Cancel
  BY <1>2, MainPrepares, MainDisconnectSend, MainCancel DEF SInv
<1>3. CASE NotifyNetworkDisconnected \/ ProcessData \/ FreeClient \/ ConnectPrepare
  BY <1>3, MainNotify, MainProcessData, FreeingFree, MainConnectPrepare DEF SInv
<1>4. CASE \E E \in SUBSET Running(timers) : Tick(E)
  BY <1>4, MainTick DEF SInv
<1> QED BY <1>1, <1>2, <1>3, <1>4 DEF Next

\* A step that changes nothing of the session.
LEMMA SInvSame == ASSUME SInv, UNCHANGED <<ops, op, client, depth, timers, stack>>, fate' = "running" => fate = "running" PROVE SInv'
<1>1. UNCHANGED <<Live, Top, Prepared, IsStack(stack)>>
  BY DEF Live, Top, Prepared
<1>2. Parts => Parts'
  <2>1. (Loops => Loops') /\ (Marked => Marked') /\ (Ended => Ended') /\ (Agrees => Agrees') /\ (Answer => Answer')
    <3>1. \A s : Doomed(s) => Doomed(s)'
      BY DEF Doomed, Dooms
    <3>2. \A type : OfType(type)' = OfType(type)
      BY <1>1 DEF OfType
    <3>3. Loops => Loops'
      BY DEF Loops, LoopIn
    <3>4. Marked => Marked'
      BY DEF Marked
    <3>5. Ended => Ended'
      BY <1>1, <3>1 DEF Ended
    <3>6. Agrees => Agrees'
      BY <1>1, <3>2 DEF Agrees
    <3>7. Answer => Answer'
      BY <1>1, <3>2 DEF Answer
    <3> QED BY <3>3, <3>4, <3>5, <3>6, <3>7
  <2>2. (Timed => Timed') /\ (Alive => Alive')
    BY <1>1 DEF Timed, Held, IsRequest, Alive, HeldAlive
  <2> QED BY <2>1, <2>2 DEF Parts
<1>3. Main => Main'
  BY <1>2 DEF Main, AllPlaced
<1>4. Making => Making'
  BY <1>1, <1>2 DEF Making
<1>5. Starting => Starting'
  BY DEF Starting
<1>6. Freeing => Freeing'
  BY DEF Freeing
<1> QED BY <1>3, <1>4, <1>5, <1>6 DEF SInv

LEMMA SInvNext == ASSUME Base, Told, LockHeld, SInv, Next PROVE SInv'
<1>1. CASE Undefined
  <2>1. UNCHANGED <<ops, op, client, depth, timers, stack>> /\ fate' # "running"
    BY <1>1 DEF Undefined
  <2> QED BY <2>1, SInvSame
<1>2. CASE Main /\ ~Undefined
  BY <1>2, MainStep, MainCall DEF SInv
<1>3. CASE Making /\ ~Undefined
  <2>1. Step
    <3>1. ~CanCall
      BY <1>3 DEF CanCall, Idle, At, Making, Top
    <3> QED BY <3>1, NoCall
  <2>2. CreateConnect
    BY <1>3, <2>1, StepTop DEF Step, Making
  <2> QED BY <1>3, <2>2, MakingCreate DEF SInv
<1>4. CASE Starting /\ ~Undefined
  <2>1. stack # <<>> /\ Top.do \in {"enter", "init", "terminate", "initialized", "exit"}
    BY <1>4, StartingTop
  <2>2. Step
    <3>1. ~CanCall
      BY <2>1 DEF CanCall, Idle, At, Top
    <3> QED BY <3>1, NoCall
  <2>3. \/ Top.do = "enter" /\ Enter
        \/ Top.do = "init" /\ InitInternal
        \/ (Top.do = "terminate" /\ TerminateOps) \/ (Top.do = "initialized" /\ Initialized)
        \/ Top.do = "exit" /\ Exit
    BY <2>1, <2>2, StepTop DEF Step
  <2> QED BY <1>4, <2>3, StartingEnter, StartingInit, StartingPops, StartingExit DEF SInv
<1>5. CASE Freeing /\ ~Undefined
  <2>1. Step
    <3>1. CanCall => fate = "running" /\ \A f \in FramesOf(stack) : f.do # "freed"
      BY DEF CanCall, FramesOf
    <3>2. ~CanCall
      BY <1>5, <3>1 DEF Freeing
    <3> QED BY <3>2, NoCall
  <2> QED BY <1>5, <2>1, FreeingStep DEF SInv
<1> QED BY <1>1, <1>2, <1>3, <1>4, <1>5 DEF SInv

LEMMA InitSInv == ASSUME Init PROVE SInv
<1>1. /\ ops = <<>> /\ stack = <<>> /\ depth = 0 /\ ~client.connected /\ ~client.disconnecting /\ Over(client)
      /\ FramesOf(stack) = {} /\ Len(ops) = 0
  BY NoFrame DEF Init, Over
<1>2. Live = {} /\ Prepared = {}
  BY <1>1, NoFrame DEF Live, Prepared
<1>3. Loops /\ Marked /\ Ended
  <2>1. 1..0 = {}
    OBVIOUS
  <2> QED BY <1>1, <1>2, <2>1 DEF Loops, Marked, Ended
<1>4. Agrees /\ Answer /\ Timed /\ Alive
  BY <1>1, <1>2 DEF Agrees, Answer, Timed, Alive
<1>5. AllPlaced
  BY <1>1, NothingPlaced DEF AllPlaced
<1> QED BY <1>3, <1>4, <1>5 DEF SInv, Main, Parts

\* The inductive invariant of the session: the frames at their depths, what is
\* doomed and what is held (doApiEnter, doApiExit, brokerDisconnected,
\* terminateOps, opComplete and the operations).
THEOREM SessionInvariant == ASSUME Prompt PROVE Spec => []((Base /\ Told) /\ LockHeld /\ SInv)
<1>1. Init => (Base /\ Told) /\ LockHeld /\ SInv
  BY InitBase, InitTold, InitLock, InitSInv
<1>2. ((Base /\ Told) /\ LockHeld /\ SInv) /\ [Next]_vars => ((Base /\ Told) /\ LockHeld /\ SInv)'
  <2>1. ASSUME Base, Told, LockHeld, SInv, [Next]_vars PROVE (Base' /\ Told') /\ LockHeld' /\ SInv'
    <3>1. Base' /\ Told' /\ LockHeld'
      BY <2>1, BaseKept, LockNext
    <3>2. CASE Next
      BY <2>1, <3>1, <3>2, SInvNext
    <3>3. CASE UNCHANGED vars
      <4>1. UNCHANGED <<ops, op, client, depth, timers, stack>> /\ (fate' = "running" => fate = "running")
        BY <3>3 DEF vars
      <4> QED BY <2>1, <3>1, <4>1, SInvSame
    <3> QED BY <2>1, <3>2, <3>3
  <2> QED BY <2>1
<1> QED BY <1>1, <1>2, PTL DEF Spec

LEMMA DepthBound == ASSUME Base, SInv PROVE depth \in 0..4
<1>1. ASSUME NEW t, IsStack(t), AtLevel(t, depth, client, op) PROVE depth \in 0..4
  <2>1. CASE t = <<>>
    <3>1. depth = 0
      BY <1>1, <2>1, EmptyLevel
    <3> QED BY <3>1
  <2>2. CASE t # <<>>
    BY <1>1, <2>2, TopPlaced
  <2> QED BY <2>1, <2>2
<1>2. CASE Main
  BY <1>1, <1>2 DEF Main, AllPlaced, Base, GoodList
<1>3. CASE Making
  <2>1. PICK t, r : t = stack /\ r = Tail(t)
    OBVIOUS
  <2>2. IsStack(t) /\ t # <<>> /\ AtLevel(r, depth, client, op)
    BY <1>3, <2>1 DEF Base, GoodList, Making
  <2>3. IsStack(r)
    BY <2>1, <2>2, TailStack
  <2> QED BY <1>1, <2>2, <2>3
<1>4. CASE Starting \/ Freeing
  BY <1>4 DEF Starting, Freeing
<1> QED BY <1>2, <1>3, <1>4 DEF SInv

\* The types, and the depth of guards: m_apiEnterCount never exceeds four and
\* is never taken back below zero.
THEOREM TypesKept == ASSUME Prompt PROVE Spec => []TypeOK
<1>1. (Base /\ Told) /\ LockHeld /\ SInv => TypeOK
  <2>1. ASSUME Base, Told, SInv PROVE TypeOK
    <3>1. depth \in 0..4
      BY <2>1, DepthBound
    <3>2. \A i \in DOMAIN ops : ops[i] \in Operations \cup {0}
      BY <2>1, TableBasics DEF Base, TableOK
    <3>3. op \in [Operations -> [type : Requests \cup {"disconnect", "keepalive", "none"}, stage : {"new", "prepared", "sent"}]]
      BY <2>1 DEF Base, TableOK, OpType, OpTypes
    <3>4. \A f \in DOMAIN client : client[f] \in BOOLEAN
      BY <2>1 DEF Base, ValuesOK, ClientType
    <3>5. \A i \in Slots(timers) : timers[i].holder \in Operations \cup {NoHolder}
      <4>1. ASSUME NEW i \in Slots(timers) PROVE timers[i] \in SlotType
        BY <2>1, TimerBasics DEF Base, TableOK
      <4> QED BY <4>1, SlotFacts
    <3>6. wire \subseteq Handles /\ fate \in {"running", "freed", "undefined"}
      BY <2>1 DEF Base, ValuesOK
    <3>7. ASSUME NEW s \in Handles PROVE outcome[s].calls \in 0..2
      <4>1. outcome[s].calls \in {0, 1}
        BY <2>1 DEF Told, ToldOf
      <4> QED BY <4>1
    <3> QED BY <3>1, <3>2, <3>3, <3>4, <3>5, <3>6, <3>7 DEF TypeOK
  <2> QED BY <2>1
<1> QED BY <1>1, SessionInvariant, PTL

\* Between the calls of the application nothing is in progress.
LEMMA IdleMain ==
    ASSUME Base, SInv, Idle, fate = "running" PROVE Parts /\ stack = <<>> /\ depth = 0 /\ FramesOf(stack) = {}
<1>1. stack = <<>> /\ FramesOf(stack) = {}
  BY NoFrame DEF Idle
<1>2. ~Making /\ ~Freeing
  BY <1>1 DEF Making, Freeing
<1>3. ~Starting
  BY <1>1, StartingTop
<1>4. Main
  BY <1>2, <1>3 DEF SInv
<1> QED BY <1>1, <1>4, IdleLevel DEF Main

\* Between calls the operations in the table agree with the state of the session,
\* and a session that ended leaves no operation and no timer behind (cleanOps,
\* brokerDisconnected, brokerConnected, initInternal).
THEOREM TableAlwaysMatches == ASSUME Prompt PROVE Spec => []TableMatchesSession
<1>1. (Base /\ Told) /\ LockHeld /\ SInv => TableMatchesSession
  <2>1. ASSUME Base, SInv, Idle, fate = "running"
        PROVE  /\ KeepAlive \in Live <=> client.connected
               /\ Live \ OfType("connect") # {} => client.connected /\ ~client.disconnecting /\ client.initialized
               /\ OfType("connect") # {} => ~client.connected /\ client.initialized
               /\ \A i, j \in DOMAIN ops : ops[i] # 0 /\ ops[i] = ops[j] => i = j
               /\ ~client.initialized => ops = <<>> /\ Running(timers) = {}
    <3>1. Parts /\ stack = <<>> /\ depth = 0
      BY <2>1, IdleMain
    <3>2. CASE Over(client)
      <4>1. ops = <<>> /\ ~client.connected
        BY <3>1, <3>2 DEF Parts, Ended
      <4>2. Live = {} /\ Running(timers) = {}
        BY <2>1, <4>1, NoTimers
      <4>3. OfType("connect") = {} /\ DOMAIN ops = {}
        BY <4>1, <4>2 DEF OfType
      <4> QED BY <4>1, <4>2, <4>3
    <3>3. CASE ~Over(client)
      <4>1. client.initialized /\ ~client.disconnecting
        BY <3>1, <3>3 DEF Parts, Ended, Over
      <4>2. /\ KeepAlive \in Live <=> client.connected
            /\ \A s \in Live : op[s].type \notin {"connect", "keepalive"} => client.connected
            /\ \A s \in OfType("connect") : ~client.connected
        BY <3>1, <3>3 DEF Parts, Agrees
      <4>3. \A s \in Live : op[s].type = "keepalive" => s = KeepAlive
        BY <2>1, TableFacts, Numbers DEF Base, TableOK, HandleOK
      <4>4. ASSUME NEW s \in Live \ OfType("connect") PROVE client.connected
        <5>1. op[s].type # "connect"
          BY <4>4 DEF OfType
        <5> QED BY <4>2, <4>3, <4>4, <5>1
      <4>5. \A i, j \in DOMAIN ops : ops[i] # 0 /\ ops[i] = ops[j] => i = j
        BY <2>1, TableBasics DEF Base, TableOK, Distinct
      <4> QED BY <4>1, <4>2, <4>4, <4>5
    <3> QED BY <3>2, <3>3
  <2> QED BY <2>1 DEF TableMatchesSession
<1> QED BY <1>1, SessionInvariant, PTL

\* Between calls every request that was sent has its response timer running, and
\* a connected client one of its keep-alive timers (the send functions, the timer
\* callbacks, KeepAliveOp).
THEOREM RequestsAlwaysTimed == ASSUME Prompt PROVE Spec => []RequestsTimed
<1>1. (Base /\ Told) /\ LockHeld /\ SInv => RequestsTimed
  <2>1. ASSUME Base, SInv, Idle, fate = "running"
        PROVE  /\ \A s \in Live : op[s].stage = "sent" /\ op[s].type \in Requests => TimerIsActive(timers, s, "response")
               /\ client.connected => \E name \in {"ping", "recv", "resp"} : TimerIsActive(timers, KeepAlive, name)
    <3>1. Parts /\ FramesOf(stack) = {}
      BY <2>1, IdleMain
    <3>2. ASSUME NEW s \in Live, op[s].stage = "sent", op[s].type \in Requests PROVE TimerIsActive(timers, s, "response")
      <4>1. Held(s)
        BY <3>1, <3>2 DEF Parts, Timed, IsRequest
      <4>2. <<s, "response">> \in Active(timers)
        BY <3>1, <4>1 DEF Held
      <4>3. <<s, "response">> \in Keys(timers)
        BY <2>1, <3>2, TableFacts DEF Base
      <4> QED BY <2>1, <4>2, <4>3, ActiveFacts DEF Base, TableOK
    <3>3. ASSUME client.connected PROVE \E name \in {"ping", "recv", "resp"} : TimerIsActive(timers, KeepAlive, name)
      <4>1. PICK n \in KeepAliveNames : <<KeepAlive, n>> \in Active(timers)
        BY <3>1, <3>3 DEF Parts, Alive, HeldAlive
      <4>2. <<KeepAlive, n>> \in Keys(timers)
        BY <2>1, <4>1, ActiveFacts DEF Base, TableOK
      <4>3. TimerIsActive(timers, KeepAlive, n)
        BY <2>1, <4>1, <4>2, ActiveFacts DEF Base, TableOK
      <4> QED BY <4>1, <4>3 DEF KeepAliveNames
    <3> QED BY <3>2, <3>3
  <2> QED BY <2>1 DEF RequestsTimed
<1> QED BY <1>1, SessionInvariant, PTL

=============================================================================
