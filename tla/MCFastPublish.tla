---------------------------- MODULE MCFastPublish ----------------------------
(***************************************************************************)
(* Small instances of FastPublishSystem.  The client starts with a flow of *)
(* one message.  In the lossy run the server raises it to two, so that the *)
(* third message fills the window; in the fair run it may change it with   *)
(* every flow ack.                                                         *)
(***************************************************************************)
EXTENDS FastPublishSystem

MCFlows        == {1}
RaisedFlow     == {2}
ChangingFlows  == {1, 2}
=============================================================================
