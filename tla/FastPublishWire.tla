--------------------------- MODULE FastPublishWire ---------------------------
(***************************************************************************)
(* What a fast publish context and the server say to each other: the       *)
(* operation and batch sequence number the client encodes in the reply     *)
(* subject of a message it publishes, and the control messages that come   *)
(* back on the ack inbox, as far as _onAck tells them apart.               *)
(***************************************************************************)
EXTENDS Integers, Sequences

Ops == {"START", "ADD", "COMMIT", "COMMIT_EOB", "PING"}
PubMsg == [op : Ops, seq : Nat]

\* A no-responders status or a body that is not JSON; the "type" tags gap,
\* ack and err; an "error" object; a commit ack with and without "stream".
AckTypes == {"unusable", "gap", "ack", "err", "error", "commit", "nostream"}

\* msgs is the new flow of a flow ack, 0 when the field is missing.
AckMsg == [type : AckTypes, seq : Nat, msgs : Nat]

Plain(t)      == [type |-> t, seq |-> 0, msgs |-> 0]
FlowAck(s, m) == [type |-> "ack", seq |-> s, msgs |-> m]
=============================================================================
