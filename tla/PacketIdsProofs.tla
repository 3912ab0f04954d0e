-------------------------- MODULE PacketIdsProofs --------------------------
(***************************************************************************)
(* Proofs about the packet identifier pool, for every identifier width,    *)
(* every limit of the list and every set of operations.                    *)
(***************************************************************************)
EXTENDS PacketIds, PacketIdAllocProofs

\* Type correctness of the pool and of the identifiers the operations store.
THEOREM PoolTypeOK == Spec => []TypeOK
<1>1. Init => TypeOK
  BY PacketIdAssumption DEF Init, TypeOK, PacketId
<1>2. TypeOK /\ [Next]_vars => TypeOK'
  <2> SUFFICES ASSUME TypeOK, [Next]_vars PROVE TypeOK'
    OBVIOUS
  <2> USE DEF TypeOK
  <2>1. ASSUME NEW o \in Ops, Send(o) PROVE TypeOK'
    BY <2>1, AllocFresh DEF Send
  <2>2. ASSUME NEW o \in Ops, Destroy(o) PROVE TypeOK'
    <3>1. 0 \in PacketId
      BY PacketIdAssumption DEF PacketId
    <3> QED BY <2>2, <3>1 DEF Destroy, ReleasePacketIds
  <2>3. CASE UNCHANGED vars
    BY <2>3 DEF vars
  <2> QED BY <2>1, <2>2, <2>3 DEF Next
<1> QED BY <1>1, <1>2, PTL DEF Spec

\* The inductive invariant of the pool: the list of identifiers in use and
\* the identifiers stored in the operations agree, and no identifier but zero
\* is stored twice. Operations that are not in progress store zero.
PoolInv ==
    /\ TypeOK
    /\ DistinctIds
    /\ NoIdLeak
    /\ \A o \in Ops \ holders : packetId[o] = 0

\* Sending and destroying operations keeps the invariant.
LEMMA PoolInvariant == Spec => []PoolInv
<1>1. Init => PoolInv
  BY PacketIdAssumption DEF Init, PoolInv, TypeOK, PacketId, DistinctIds, NoIdLeak
<1>2. PoolInv /\ [Next]_vars => PoolInv'
  <2> SUFFICES ASSUME PoolInv, [Next]_vars PROVE PoolInv'
    OBVIOUS
  <2>1. ASSUME NEW o \in Ops, Send(o) PROVE PoolInv'
    <3> DEFINE id == AllocPacketId(lastPacketId, allocatedPacketIds)
    <3>1. /\ id \in PacketId
          /\ ~Exhausted(allocatedPacketIds) => id \notin allocatedPacketIds
          /\ AllocatedAfter(lastPacketId, allocatedPacketIds) \subseteq PacketId
          /\ LastAfter(lastPacketId, allocatedPacketIds) \in PacketId
      BY AllocFresh DEF PoolInv, TypeOK
    <3>2. /\ AllocatedAfter(lastPacketId, allocatedPacketIds) \ {0}
                = (allocatedPacketIds \cup {id}) \ {0}
          /\ id # 0 => id \notin allocatedPacketIds
      BY <3>1 DEF AllocatedAfter, AllocPacketId
    <3> HIDE DEF id
    <3>3. /\ holders' = holders \cup {o} /\ o \notin holders
          /\ packetId' = [packetId EXCEPT ![o] = id]
          /\ allocatedPacketIds' \ {0} = (allocatedPacketIds \cup {id}) \ {0}
      BY <2>1, <3>2 DEF Send, id
    <3>4. TypeOK'
      BY <2>1, <3>1, <3>3 DEF PoolInv, TypeOK, Send
    <3>5. \A p \in holders : packetId'[p] = packetId[p] /\ packetId'[o] = id
      BY <3>3 DEF PoolInv, TypeOK
    <3>6. DistinctIds'
      <4>1. \A p \in holders : packetId[p] # 0 => packetId[p] \in allocatedPacketIds
        BY DEF PoolInv, NoIdLeak
      <4> QED BY <3>2, <3>3, <3>5, <4>1 DEF PoolInv, DistinctIds, TypeOK
    <3>7. NoIdLeak'
      <4>1. packetId'[o] = id
        BY <3>3 DEF PoolInv, TypeOK
      <4>2. {packetId'[p] : p \in holders'} = {packetId[p] : p \in holders} \cup {id}
        BY <3>3, <3>5, <4>1
      <4> QED BY <3>3, <4>2 DEF PoolInv, NoIdLeak
    <3>8. \A p \in Ops \ holders' : packetId'[p] = 0
      BY <3>3 DEF PoolInv, TypeOK
    <3> QED BY <3>4, <3>6, <3>7, <3>8 DEF PoolInv
  <2>2. ASSUME NEW o \in Ops, Destroy(o) PROVE PoolInv'
    <3>1. /\ holders' = holders \ {o} /\ o \in holders
          /\ packetId' = [packetId EXCEPT ![o] = 0]
          /\ allocatedPacketIds' = allocatedPacketIds \ ({packetId[o]} \ {0})
          /\ lastPacketId' = lastPacketId
      BY <2>2 DEF Destroy, ReleasePacketIds
    <3>2. TypeOK'
      <4>1. 0 \in PacketId
        BY PacketIdAssumption DEF PacketId
      <4> QED BY <3>1, <4>1 DEF PoolInv, TypeOK
    <3>3. \A p \in holders' : packetId'[p] = packetId[p]
      BY <3>1 DEF PoolInv, TypeOK
    <3>4. DistinctIds'
      BY <3>1, <3>3 DEF PoolInv, DistinctIds
    <3>5. NoIdLeak'
      <4>1. {packetId'[p] : p \in holders'} = {packetId[p] : p \in holders \ {o}}
        BY <3>1, <3>3
      <4>2. \A p \in holders \ {o} : packetId[o] # 0 => packetId[p] # packetId[o]
        BY <3>1 DEF PoolInv, DistinctIds, TypeOK
      <4> QED BY <3>1, <4>1, <4>2 DEF PoolInv, NoIdLeak
    <3>6. \A p \in Ops \ holders' : packetId'[p] = 0
      BY <3>1 DEF PoolInv, TypeOK
    <3> QED BY <3>2, <3>4, <3>5, <3>6 DEF PoolInv
  <2>3. CASE UNCHANGED vars
    BY <2>3 DEF vars, PoolInv, TypeOK, DistinctIds, NoIdLeak
  <2> QED BY <2>1, <2>2, <2>3 DEF Next
<1> QED BY <1>1, <1>2, PTL DEF Spec

\* However often the 16 bit counter wraps around, and whatever the order in
\* which operations are sent and destroyed, no two operations in progress share
\* a packet identifier: an acknowledgement names at most one of them.
THEOREM PoolDistinctIds == Spec => []DistinctIds
<1>1. PoolInv => DistinctIds
  BY DEF PoolInv
<1> QED BY <1>1, PoolInvariant, PTL

\* No order of destructors leaks an identifier or frees one that is in use: the
\* list of identifiers in use holds those of the operations in progress.
THEOREM PoolNoIdLeak == Spec => []NoIdLeak
<1>1. PoolInv => NoIdLeak
  BY DEF PoolInv
<1> QED BY <1>1, PoolInvariant, PTL

\* The search goes once around the identifiers before it comes back to the
\* last one: an identifier is used twice in a row only when it is the only
\* legal one left, for every width of the identifier.
THEOREM PoolNoImmediateReuse == Spec => NoImmediateReuse
<1> DEFINE A == \A o \in holders' \ holders :
                   /\ packetId'[o] # 0
                   /\ packetId'[o] = lastPacketId
                   => (1..MaxPacketId) \ {lastPacketId} \subseteq allocatedPacketIds
<1>1. TypeOK /\ [Next]_vars => [A]_vars
  <2> SUFFICES ASSUME TypeOK, NEW p \in Ops, Send(p) \/ Destroy(p),
                      NEW o \in holders' \ holders,
                      packetId'[o] # 0, packetId'[o] = lastPacketId,
                      NEW x \in 1..MaxPacketId, x # lastPacketId
               PROVE  x \in allocatedPacketIds
    BY DEF Next
  <2> DEFINE k == Rejected(lastPacketId, allocatedPacketIds)
  <2>1. Send(p) /\ o = p
    BY DEF Send, Destroy
  <2>2. /\ ~Exhausted(allocatedPacketIds)
        /\ Candidate(lastPacketId, k) = lastPacketId
    BY <2>1 DEF Send, AllocPacketId, TypeOK
  <2>3. /\ k \in PacketId
        /\ \A j \in PacketId : j < k => Candidate(lastPacketId, j) \in allocatedPacketIds
    BY <2>2, SearchEnds DEF TypeOK
  <2>4. lastPacketId \in 1..MaxPacketId
    BY PacketIdAssumption DEF TypeOK, PacketId
  <2>5. (lastPacketId + 1) % (MaxPacketId + 1)
           = IF lastPacketId = MaxPacketId THEN 0 ELSE lastPacketId + 1
    BY <2>4, PacketIdAssumption
  <2>6. SearchStart(lastPacketId) = IF lastPacketId = MaxPacketId THEN 1 ELSE lastPacketId + 1
    BY <2>4, <2>5, PacketIdAssumption DEF SearchStart
  <2> HIDE DEF k
  <2>7. k = IF lastPacketId = MaxPacketId THEN MaxPacketId - 1 ELSE MaxPacketId
    <3>1. Candidate(lastPacketId, k) = IF SearchStart(lastPacketId) + k <= MaxPacketId
                                       THEN SearchStart(lastPacketId) + k
                                       ELSE SearchStart(lastPacketId) + k - (MaxPacketId + 1)
      BY <2>3, CandidateType DEF TypeOK
    <3> QED BY <2>2, <2>3, <2>4, <2>6, <3>1, PacketIdAssumption DEF PacketId
  <2>8. PICK j \in PacketId : Candidate(lastPacketId, j) = x
    BY EveryIdIsCandidate, PacketIdAssumption DEF TypeOK, PacketId
  <2>9. j < k
    <3>1. Candidate(lastPacketId, j) = IF SearchStart(lastPacketId) + j <= MaxPacketId
                                       THEN SearchStart(lastPacketId) + j
                                       ELSE SearchStart(lastPacketId) + j - (MaxPacketId + 1)
      BY CandidateType DEF TypeOK
    <3> QED BY <2>4, <2>6, <2>7, <2>8, <3>1, PacketIdAssumption DEF PacketId
  <2> QED BY <2>3, <2>8, <2>9
<1> QED BY <1>1, PoolTypeOK, PTL DEF Spec, NoImmediateReuse
=============================================================================
