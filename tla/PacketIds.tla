----------------------------- MODULE PacketIds -----------------------------
(***************************************************************************)
(* The packet identifier pool of a client (ClientState) and the operations *)
(* that take identifiers from it. A publish, subscribe or unsubscribe      *)
(* operation takes one identifier when it is sent and gives it back in its *)
(* destructor; operations are independent of each other, so they may do so *)
(* in any order.                                                           *)
(***************************************************************************)
EXTENDS PacketIdAlloc

CONSTANT Ops                \* operation objects that use an identifier

VARIABLES allocatedPacketIds,   \* ClientState::m_allocatedPacketIds
          lastPacketId,         \* ClientState::m_lastPacketId
          holders,              \* the operations that were sent and still exist
          packetId              \* the identifier in the message of each operation

vars == <<allocatedPacketIds, lastPacketId, holders, packetId>>

Init ==
    /\ allocatedPacketIds = {}
    /\ lastPacketId = 0
    /\ holders = {}
    /\ packetId = [o \in Ops |-> 0]

\* SendOp::send, SubscribeOp::send, UnsubscribeOp::send: the identifier that
\* allocPacketId returned is stored in the message, even when it is zero.
Send(o) ==
    /\ o \notin holders
    /\ holders' = holders \cup {o}
    /\ packetId' = [packetId EXCEPT ![o] = AllocPacketId(lastPacketId, allocatedPacketIds)]
    /\ allocatedPacketIds' = AllocatedAfter(lastPacketId, allocatedPacketIds)
    /\ lastPacketId' = LastAfter(lastPacketId, allocatedPacketIds)

\* Mutant of Destroy: a destructor that forgets to give the identifier back.
DestroyNoRelease(o) ==
    /\ o \in holders
    /\ holders' = holders \ {o}
    /\ packetId' = [packetId EXCEPT ![o] = 0]
    /\ UNCHANGED <<allocatedPacketIds, lastPacketId>>

\* The destructor of the operation, whatever completed it.
Destroy(o) ==
    /\ o \in holders
    /\ holders' = holders \ {o}
    /\ packetId' = [packetId EXCEPT ![o] = 0]
    /\ allocatedPacketIds' = ReleasePacketIds(allocatedPacketIds, {packetId[o]})
    /\ UNCHANGED lastPacketId

Next == \E o \in Ops : Send(o) \/ Destroy(o)

Spec == Init /\ [][Next]_vars

-----------------------------------------------------------------------------

TypeOK ==
    /\ allocatedPacketIds \subseteq PacketId
    /\ lastPacketId \in PacketId
    /\ holders \subseteq Ops
    /\ packetId \in [Ops -> PacketId]

\* Two operations in progress never share a packet identifier: an
\* acknowledgement names at most one of them (allocPacketId skips the
\* identifiers in use, also after the 16 bit counter wrapped around).
DistinctIds ==
    \A o, p \in holders : o # p /\ packetId[o] # 0 => packetId[o] # packetId[p]

\* The identifiers marked as in use are exactly those of the operations in
\* progress: the search of allocPacketId never returns one that is held, and
\* no order of destructors leaks one. (Zero is the exception: releasePacketId
\* ignores it.)
NoIdLeak == allocatedPacketIds \ {0} = {packetId[o] : o \in holders} \ {0}

\* An identifier is not handed out twice in a row while another legal one is
\* free, so that a late acknowledgement of the previous message with that
\* identifier cannot be taken for one of the next message.
NoImmediateReuse ==
    [][\A o \in holders' \ holders :
          /\ packetId'[o] # 0
          /\ packetId'[o] = lastPacketId
          => (1..MaxPacketId) \ {lastPacketId} \subseteq allocatedPacketIds]_vars
=============================================================================
