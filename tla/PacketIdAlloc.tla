--------------------------- MODULE PacketIdAlloc ---------------------------
(***************************************************************************)
(* Op::allocPacketId and Op::releasePacketId as functions of the two       *)
(* fields of ClientState they read: the sorted list of packet identifiers  *)
(* in use (m_allocatedPacketIds, here a set: the list holds no identifier  *)
(* twice and only its contents matter) and the last identifier handed out  *)
(* (m_lastPacketId).                                                       *)
(***************************************************************************)
EXTENDS Naturals, FiniteSets

CONSTANTS MaxPacketId,      \* numeric_limits<uint16_t>::max(), 65535 in the code
          PacketIdsLimit    \* max_size() of the list (ExtConfig::PacketIdsLimit)

ASSUME PacketIdAssumption ==
    /\ MaxPacketId \in Nat \ {0}
    /\ PacketIdsLimit \in Nat \ {0}

\* The values of a 16 bit packet identifier. Zero is not a legal MQTT
\* identifier; the code also uses it for "none".
PacketId == 0..MaxPacketId

\* The early return: the list is full, or every identifier is in use.
Exhausted(allocated) ==
    \/ PacketIdsLimit <= Cardinality(allocated)
    \/ MaxPacketId <= Cardinality(allocated)

\* Mutant of SearchStart: the search starts at the last identifier itself.
SearchFromLast(last) == IF last = 0 THEN 1 ELSE last

\* Where the search starts: the 16 bit increment of the last identifier,
\* with zero replaced by one.
SearchStart(last) ==
    IF (last + 1) % (MaxPacketId + 1) = 0 THEN 1 ELSE (last + 1) % (MaxPacketId + 1)

\* Mutant of Candidate: the increments are not truncated to 16 bits.
CandidateNoWrap(last, k) == last + 1 + k

\* The candidate of the k-th iteration of the search loop. Only the start of
\* the search skips zero: the ++nextPacketId of the loop wraps around to it.
Candidate(last, k) == (SearchStart(last) + k) % (MaxPacketId + 1)

\* Mutant of Rejected: the first candidate is taken without a look at the list.
NoneRejected(last, allocated) == 0

\* The number of candidates the loop rejects because they are in use.
Rejected(last, allocated) ==
    CHOOSE k \in PacketId :
        /\ Candidate(last, k) \notin allocated
        /\ \A j \in PacketId : j < k => Candidate(last, j) \in allocated

\* The identifier Op::allocPacketId returns.
AllocPacketId(last, allocated) ==
    IF Exhausted(allocated) THEN 0 ELSE Candidate(last, Rejected(last, allocated))

\* The identifiers in use, and the last one, after Op::allocPacketId.
AllocatedAfter(last, allocated) ==
    IF Exhausted(allocated)
    THEN allocated
    ELSE allocated \cup {AllocPacketId(last, allocated)}

LastAfter(last, allocated) ==
    IF Exhausted(allocated) THEN last ELSE AllocPacketId(last, allocated)

\* The identifiers in use after Op::releasePacketId of every one of ids:
\* releasing zero is a no-operation.
ReleasePacketIds(allocated, ids) == allocated \ (ids \ {0})
=============================================================================
