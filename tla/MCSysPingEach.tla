---------------------------- MODULE MCSysPingEach ----------------------------
(***************************************************************************)
(* Pages of one and of two elements cut from a list of up to three that    *)
(* changes twice, a walk in up to three calls of two ticks, and two servers*)
(* that answer the ping.                                                   *)
(***************************************************************************)
EXTENDS SysPingEach

CONSTANTS a, b, c
MCItems == {a, b, c}
=============================================================================
