---------------------------- MODULE MCBatchFetch ----------------------------
(***************************************************************************)
(* Options with each stop condition on and off, a stall time shorter than, *)
(* equal to and longer than what is left of the deadline, and a timeout    *)
(* that is the default, given, or capped.                                  *)
(***************************************************************************)
EXTENDS BatchFetch

MCOpts == [stall : {0, 2}, count : {0, 2}, sentinel : BOOLEAN,
           timeout : {0, 2, 9}]
=============================================================================
