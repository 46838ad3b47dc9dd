----------------------------- MODULE BatchServer -----------------------------
(***************************************************************************)
(* The server's side of one fast publish batch, external to the library:   *)
(* what src/ says it does with the operations the client encodes, and what *)
(* it answers.  It confirms every srvFlow messages with a flow ack, sends  *)
(* its latest ack again when pinged, reports a gap in the sequence numbers *)
(* (and drops the batch unless the client tolerates gaps), may refuse the  *)
(* batch, one message or the commit, and may not be there at all, which    *)
(* the client sees as "no responders".                                     *)
(***************************************************************************)
EXTENDS FastPublishWire

CONSTANT ServerFlows   \* flows the server may set

VARIABLES
  gapOk,               \* the client's ContinueOnGap, from the reply subject
  wire, acks,          \* the two directions of the connection
  phase,               \* "none", "open", "done" (committed), "dropped"
  last,                \* the highest sequence number seen
  stored, refused,     \* sequence numbers persisted, and answered with "err"
  confirmed,           \* the highest sequence number of a flow ack sent
  srvFlow,
  gapSeen,             \* history: a gap was reported
  unheard              \* history: a message found no responders

histVars == <<gapSeen, unheard>>
srvVars  == <<phase, last, stored, refused, confirmed, srvFlow, histVars>>

TypeOK ==
  /\ phase \in {"none", "open", "done", "dropped"}
  /\ last \in Nat /\ confirmed \in Nat /\ srvFlow \in Nat
  /\ stored \subseteq Nat /\ refused \subseteq Nat
  /\ gapSeen \in BOOLEAN /\ unheard \in BOOLEAN

Init ==
  /\ phase = "none" /\ last = 0 /\ stored = {} /\ refused = {}
  /\ confirmed = 0 /\ srvFlow = 0
  /\ gapSeen = FALSE /\ unheard = FALSE

Reply(replies) == acks' = acks \o replies

Take(op) ==
  /\ wire # <<>> /\ Head(wire).op = op
  /\ wire' = Tail(wire)
  /\ UNCHANGED gapOk

\* The flow ack for everything up to s, if one is due; it may set the flow.
Confirm(s, before, due) ==
  IF due
    THEN \E f \in ServerFlows :
           /\ srvFlow' = f /\ confirmed' = s
           /\ Reply(Append(before, FlowAck(s, f)))
    ELSE Reply(before) /\ UNCHANGED <<srvFlow, confirmed>>

Start ==
  /\ phase = "none" /\ Take("START")
  /\ phase' = "open" /\ last' = 1 /\ stored' = {1}
  /\ Confirm(1, <<>>, TRUE)
  /\ UNCHANGED <<refused, histVars>>

\* A batch that is refused, or one the server does not know.
Reject ==
  /\ \/ phase = "none" /\ (\E op \in Ops : Take(op))
     \/ phase = "open" /\ (\E op \in Ops \ {"PING"} : Take(op))
  /\ phase' = IF phase = "open" THEN "dropped" ELSE phase
  /\ Reply(<<Plain("error")>>)
  /\ UNCHANGED <<last, stored, refused, confirmed, srvFlow, histVars>>

\* Nobody listens: the client gets a no-responders status.
NoResponders ==
  /\ phase # "done" /\ (\E op \in Ops : Take(op))
  /\ Reply(<<Plain("unusable")>>)
  /\ unheard' = TRUE
  /\ UNCHANGED <<phase, last, stored, refused, confirmed, srvFlow, gapSeen>>

Gap == Head(wire).seq > last + 1
GapPart == IF Gap THEN <<Plain("gap")>> ELSE <<>>

\* The next message of the batch is stored, or refused for itself.
Message ==
  /\ phase = "open" /\ Take("ADD")
  /\ Gap => gapOk
  /\ LET s == Head(wire).seq
         due == s - confirmed >= srvFlow
     IN /\ last' = s
        /\ \/ /\ stored' = stored \cup {s}
              /\ Confirm(s, GapPart, due)
              /\ UNCHANGED refused
           \/ /\ refused' = refused \cup {s}
              /\ Confirm(s, Append(GapPart, Plain("err")), due)
              /\ UNCHANGED stored
  /\ gapSeen' = (gapSeen \/ Gap)
  /\ UNCHANGED <<phase, unheard>>

Seal ==
  /\ phase = "open"
  /\ \/ Take("COMMIT") /\ stored' = stored \cup {Head(wire).seq}
     \/ Take("COMMIT_EOB") /\ UNCHANGED stored
  /\ Gap => gapOk
  /\ last' = Head(wire).seq
  /\ phase' = "done"
  /\ \E t \in {"commit", "nostream"} : Reply(Append(GapPart, Plain(t)))
  /\ gapSeen' = (gapSeen \/ Gap)
  /\ UNCHANGED <<refused, confirmed, srvFlow, unheard>>

\* A ping carries the highest sequence number sent.
Missed == Head(wire).seq > last

Ping ==
  /\ Take("PING")
  /\ \/ /\ phase = "open" /\ (Missed => gapOk)
        /\ last' = Head(wire).seq
        /\ Confirm(last', IF Missed THEN <<Plain("gap")>> ELSE <<>>, TRUE)
        /\ gapSeen' = (gapSeen \/ Missed)
     \/ /\ phase = "done"
        /\ Reply(<<Plain("commit")>>)
        /\ UNCHANGED <<last, confirmed, srvFlow, gapSeen>>
  /\ UNCHANGED <<phase, stored, refused, unheard>>

\* A gap the client does not tolerate ends the batch.
Drop ==
  /\ phase = "open" /\ ~gapOk
  /\ \/ (\E op \in {"ADD", "COMMIT", "COMMIT_EOB"} : Take(op)) /\ Gap
     \/ Take("PING") /\ Missed
  /\ phase' = "dropped" /\ gapSeen' = TRUE
  /\ Reply(<<Plain("gap")>>)
  /\ UNCHANGED <<last, stored, refused, confirmed, srvFlow, unheard>>

\* What a batch that has ended ignores.
Ignore ==
  /\ \/ phase = "dropped" /\ (\E op \in Ops : Take(op))
     \/ phase = "done" /\ (\E op \in Ops \ {"PING"} : Take(op))
  /\ UNCHANGED <<acks, srvVars>>

Next == Start \/ Reject \/ NoResponders \/ Message \/ Seal \/ Ping \/ Drop
          \/ Ignore
=============================================================================
