---------------------------- MODULE BatchMessages ----------------------------
(***************************************************************************)
(* The replies to a batch DIRECT.GET and what batch_fetch.c makes of them. *)
(* A reply is described by what _classify looks at: whether it has a body, *)
(* its Status header ("EOB" stands for 204 with the description EOB), and  *)
(* which of the three JetStream headers it carries.                        *)
(***************************************************************************)
EXTENDS Integers, SequencesExt

ErrorStatuses == {"404", "408", "413", "503"}
Headers == {"Nats-Sequence", "Nats-Num-Pending", "Nats-UpTo-Sequence"}

Reply == [body   : BOOLEAN,
          status : {"none", "204", "EOB"} \cup ErrorStatuses,
          hdrs   : SUBSET Headers]

\* Fault: an empty message of the stream is taken for the end of the batch.
ClassifyByBody(m, first) ==
  IF ~m.body
    THEN IF m.status \in ErrorStatuses THEN m.status ELSE "EOB"
    ELSE IF first /\ "Nats-Num-Pending" \notin m.hdrs THEN "unsupported"
    ELSE "data"

\* Fault: the server's support is checked on every message or on none.
ClassifyUnchecked(m, first) ==
  IF ~m.body /\ m.status \in ErrorStatuses \cup {"EOB"} THEN m.status
  ELSE IF ~m.body /\ m.status = "none" /\ m.hdrs = {} THEN "EOB"
  ELSE "data"

\* _classify: the kind of a reply, and if it is the first one inspected the
\* check that the server knows batches.
Classify(m, first) ==
  IF ~m.body /\ m.status \in ErrorStatuses \cup {"EOB"} THEN m.status
  ELSE IF ~m.body /\ m.status = "none" /\ m.hdrs = {} THEN "EOB"
  ELSE IF first /\ "Nats-Num-Pending" \notin m.hdrs THEN "unsupported"
  ELSE "data"

\* _kindToStatus
KindToStatus(kind) ==
  CASE kind \in {"EOB", "data"} -> "OK"
    [] kind = "404" -> "NOT_FOUND"
    [] kind = "503" -> "NO_RESPONDERS"
    [] kind = "unsupported" -> "NO_SERVER_SUPPORT"
    [] kind \in {"408", "413"} -> "ERR"

-----------------------------------------------------------------------------
(* What a server sends: the messages of the batch, with their body or      *)
(* without, then the end of the batch, which an older one marks with an    *)
(* empty message; an error, at once or in the batch's place; or, from a    *)
(* server that does not know batches, one message without the count of     *)
(* those pending.                                                          *)

Stored == [body : BOOLEAN, status : {"none"},
           hdrs : {{"Nats-Sequence", "Nats-Num-Pending"}}]
Bare(status, hdrs) == [body |-> FALSE, status |-> status, hdrs |-> hdrs]
BatchEnds == {Bare("none", {}),
              Bare("EOB", {"Nats-Num-Pending", "Nats-UpTo-Sequence"})}
Errors == {Bare(s, {}) : s \in ErrorStatuses}
Legacy == [body : BOOLEAN, status : {"none"}, hdrs : {{"Nats-Sequence"}}]

Scripts(n) ==
  {Append(batch, end) : batch \in BoundedSeq(Stored, n),
                        end \in BatchEnds \cup Errors}
    \cup {<<m>> : m \in Legacy}

\* What a complete answer is, told by the server's script alone.
Complete(script)   == Last(script) \in BatchEnds
Supported(script)  == script[1] \notin Legacy
Batch(script)      == Front(script)
=============================================================================
