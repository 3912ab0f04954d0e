---------------------------- MODULE MCPacketIds ----------------------------
(***************************************************************************)
(* A small identifier pool: an identifier of two or three values wraps     *)
(* around as the 16 bit one does, with fewer operations than values, as    *)
(* many, and more.                                                         *)
(***************************************************************************)
EXTENDS PacketIds, TLC

Symmetry == Permutations(Ops)
=============================================================================
