---------------------------- MODULE MCAppProgram ----------------------------
(***************************************************************************)
(* AppProgram for TLC: every stream of up to three frames.                 *)
(***************************************************************************)
EXTENDS AppProgram

MCSize == [CONNACK |-> 4, REFUSED |-> 4, PUBACK |-> 3, SUBACK |-> 2, PUBLISH |-> 3, BAD |-> 2]
MCStreams == UNION {[1..n -> DOMAIN MCSize] : n \in 0..3}
=============================================================================
