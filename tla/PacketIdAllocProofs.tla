------------------------ MODULE PacketIdAllocProofs ------------------------
(***************************************************************************)
(* Lemmas about Op::allocPacketId, for every identifier width and every    *)
(* limit of the list.                                                      *)
(*                                                                         *)
(* The search of allocPacketId is a loop; the facts the properties rest on *)
(* are that it ends (SearchEnds: a list shorter than the number of         *)
(* identifiers leaves one out, and every identifier is a candidate of some *)
(* iteration) and what it returns (AllocFresh).                            *)
(***************************************************************************)
EXTENDS PacketIdAlloc, NaturalsInduction, WellFoundedInduction, FiniteSetTheorems, TLAPS

\* Every candidate of the search is a 16 bit value.
LEMMA CandidateType ==
    ASSUME NEW last \in PacketId, NEW k \in PacketId
    PROVE  /\ SearchStart(last) \in 1..MaxPacketId
           /\ Candidate(last, k) \in PacketId
           /\ Candidate(last, k) = IF SearchStart(last) + k <= MaxPacketId
                                   THEN SearchStart(last) + k
                                   ELSE SearchStart(last) + k - (MaxPacketId + 1)
<1>1. (last + 1) % (MaxPacketId + 1) = IF last = MaxPacketId THEN 0 ELSE last + 1
  BY PacketIdAssumption DEF PacketId
<1>2. SearchStart(last) \in 1..MaxPacketId
  BY <1>1, PacketIdAssumption DEF SearchStart, PacketId
<1>3. SearchStart(last) + k \in 0..(2 * MaxPacketId)
  BY <1>2, PacketIdAssumption DEF PacketId
<1>4. \A x \in 0..(2 * MaxPacketId) :
         x % (MaxPacketId + 1) = IF x <= MaxPacketId THEN x ELSE x - (MaxPacketId + 1)
  BY PacketIdAssumption
<1> QED BY <1>2, <1>3, <1>4, PacketIdAssumption DEF Candidate, PacketId

\* Every identifier is the candidate of one of the MaxPacketId + 1 first
\* iterations.
LEMMA EveryIdIsCandidate ==
    ASSUME NEW last \in PacketId, NEW id \in PacketId
    PROVE  \E k \in PacketId : Candidate(last, k) = id
<1> DEFINE k == IF SearchStart(last) <= id
                THEN id - SearchStart(last)
                ELSE id + (MaxPacketId + 1) - SearchStart(last)
<1>1. SearchStart(last) \in 1..MaxPacketId
  BY CandidateType, PacketIdAssumption DEF PacketId
<1>2. k \in PacketId
  BY <1>1, PacketIdAssumption DEF PacketId
<1>3. Candidate(last, k) = IF SearchStart(last) + k <= MaxPacketId
                           THEN SearchStart(last) + k
                           ELSE SearchStart(last) + k - (MaxPacketId + 1)
  <2> HIDE DEF k
  <2> QED BY <1>2, CandidateType
<1>4. Candidate(last, k) = id
  BY <1>1, <1>3, PacketIdAssumption DEF PacketId
<1> QED BY <1>2, <1>4

\* A list that is not exhausted leaves an identifier out.
LEMMA SomeIdFree ==
    ASSUME NEW allocated \in SUBSET PacketId, ~Exhausted(allocated)
    PROVE  \E id \in PacketId : id \notin allocated
<1>1. IsFiniteSet(PacketId) /\ Cardinality(PacketId) = MaxPacketId + 1
  BY FS_Interval, PacketIdAssumption DEF PacketId
<1>2. SUFFICES ASSUME allocated = PacketId PROVE FALSE
  OBVIOUS
<1> QED BY <1>1, <1>2, PacketIdAssumption DEF Exhausted

\* A set of naturals that is not empty has a least element.
LEMMA LeastNat ==
    ASSUME NEW S \in SUBSET Nat, S # {}
    PROVE  \E m \in S : \A n \in S : m <= n
<1>1. OpToRel(<, Nat) = {ss \in Nat \X Nat : ss[1] < ss[2]}
  BY DEF OpToRel
<1> DEFINE R == {ss \in Nat \X Nat : ss[1] < ss[2]}
<1>2. PICK m \in S : \A n \in S : ~(<<n, m>> \in R)
  <2>1. IsWellFoundedOn(R, Nat)
    BY <1>1, NatLessThanWellFounded
  <2> HIDE DEF R
  <2> QED BY <2>1, WFMin
<1>3. ASSUME NEW n \in S, n < m PROVE FALSE
  <2>1. <<n, m>> \in Nat \X Nat /\ <<n, m>>[1] = n /\ <<n, m>>[2] = m
    OBVIOUS
  <2>2. <<n, m>> \in R
    BY <1>3, <2>1
  <2> QED BY <1>2, <2>2
<1> QED BY <1>3, S \subseteq Nat

\* The search of allocPacketId ends: some candidate is not in use, and the
\* loop stops at the first such one.
LEMMA SearchEnds ==
    ASSUME NEW last \in PacketId, NEW allocated \in SUBSET PacketId, ~Exhausted(allocated)
    PROVE  /\ Rejected(last, allocated) \in PacketId
           /\ Candidate(last, Rejected(last, allocated)) \notin allocated
           /\ \A j \in PacketId :
                 j < Rejected(last, allocated) => Candidate(last, j) \in allocated
<1> DEFINE F == {k \in PacketId : Candidate(last, k) \notin allocated}
<1>1. F # {}
  BY SomeIdFree, EveryIdIsCandidate
<1>2. F \in SUBSET Nat
  BY PacketIdAssumption DEF PacketId
<1>3. PICK m \in F : \A n \in F : m <= n
  BY <1>1, <1>2, LeastNat
<1>4. \A j \in PacketId : j < m => Candidate(last, j) \in allocated
  BY <1>2, <1>3, PacketIdAssumption DEF PacketId
<1>5. \E k \in PacketId : /\ Candidate(last, k) \notin allocated
                          /\ \A j \in PacketId : j < k => Candidate(last, j) \in allocated
  BY <1>3, <1>4
<1> QED BY <1>5 DEF Rejected

\* What allocPacketId returns from a list that is not exhausted: a 16 bit
\* value that is not in use.
LEMMA AllocFresh ==
    ASSUME NEW last \in PacketId, NEW allocated \in SUBSET PacketId
    PROVE  /\ AllocPacketId(last, allocated) \in PacketId
           /\ ~Exhausted(allocated) => AllocPacketId(last, allocated) \notin allocated
           /\ AllocatedAfter(last, allocated) \subseteq PacketId
           /\ LastAfter(last, allocated) \in PacketId
<1>1. 0 \in PacketId
  BY PacketIdAssumption DEF PacketId
<1>2. CASE Exhausted(allocated)
  BY <1>1, <1>2 DEF AllocPacketId, AllocatedAfter, LastAfter
<1>3. CASE ~Exhausted(allocated)
  BY <1>3, SearchEnds, CandidateType DEF AllocPacketId, AllocatedAfter, LastAfter
<1> QED BY <1>2, <1>3
=============================================================================
