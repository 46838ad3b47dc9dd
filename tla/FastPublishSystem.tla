-------------------------- MODULE FastPublishSystem --------------------------
(***************************************************************************)
(* A fast publish context, the server and the connection between them.     *)
(* The connection keeps the order of what it carries and may lose at most  *)
(* MaxLoss messages, in either direction; pings make the server repeat     *)
(* itself, so the client also sees duplicates.                             *)
(***************************************************************************)
EXTENDS FastPublish

CONSTANTS
  ServerFlows,   \* flows the server may set
  MaxLoss        \* bound: messages the connection loses

ASSUME SystemAssumption ==
  /\ ServerFlows \subseteq 1..(U16 - 1) /\ ServerFlows # {}
  /\ MaxLoss \in Nat

VARIABLES
  phase, last, stored, refused, confirmed, srvFlow, gapSeen, unheard,
  lostPubs, lostAcks   \* history: messages lost in each direction

Server == INSTANCE BatchServer WITH gapOk <- continueOnGap

srvVars  == <<phase, last, stored, refused, confirmed, srvFlow,
              gapSeen, unheard>>
lossVars == <<lostPubs, lostAcks>>
sysVars  == <<vars, srvVars, lossVars>>

\* What of the client a step of the server or the connection leaves alone.
clientOwn == <<ctxVars, appVars, dispVars, histVars>>

SysInit ==
  /\ Init /\ Server!Init
  /\ lostPubs = 0 /\ lostAcks = 0

ClientStep == (Application \/ Dispatcher) /\ UNCHANGED <<srvVars, lossVars>>

\* A behaviour ends when the context is freed: nobody hears the server then.
ServerStep == inbox /\ Server!Next /\ UNCHANGED <<clientOwn, lossVars>>

LosePub ==
  /\ inbox /\ wire # <<>> /\ lostPubs + lostAcks < MaxLoss
  /\ wire' = Tail(wire) /\ lostPubs' = lostPubs + 1
  /\ UNCHANGED <<clientOwn, acks, srvVars, lostAcks>>

LoseAck ==
  /\ inbox /\ acks # <<>> /\ lostPubs + lostAcks < MaxLoss
  /\ acks' = Tail(acks) /\ lostAcks' = lostAcks + 1
  /\ UNCHANGED <<clientOwn, wire, srvVars, lostPubs>>

SysFreed == pc = "freed" /\ UNCHANGED sysVars

SysNext == ClientStep \/ ServerStep \/ LosePub \/ LoseAck \/ SysFreed

SysSpec == SysInit /\ [][SysNext]_sysVars

SysFairSpec ==
  /\ SysSpec
  /\ WF_sysVars(ClientStep /\ Tick)
  /\ WF_sysVars(ClientStep /\ (Resume \/ (pc = "closing" /\ Commit)))
  /\ WF_sysVars(ClientStep /\ (OnAck \/ Report))

-----------------------------------------------------------------------------
(* Properties of the whole.                                                *)

\* The server's batch is only ever short of a message of 1..n when it said so
\* itself, with an "err" or, if the client tolerates gaps, with a gap.
Persisted(n) == continueOnGap \/ 1..n \subseteq stored \cup refused

\* A commit that returns NATS_OK is a commit of the server, and the batch it
\* sealed holds every message the application added.
CommitSound ==
  sealed # "no" =>
    /\ phase = "done"
    /\ Persisted(IF sealed = "commit" THEN sequence ELSE sequence - 1)

\* The AckSequence an Add reports never leads BatchSequence, and is "known to
\* be persisted".
AckReportSound ==
  ret.call = "add" /\ ret.status = "OK" =>
    ret.ackSeq <= ret.seq /\ Persisted(ret.ackSeq)

\* The client leaves no hole in the sequence numbers: the server sees a gap
\* only after the connection lost a message or nobody was there to take one.
NoClientGap == gapSeen => lostPubs > 0 \/ unheard

\* Flow control alone never has both sides waiting for each other: if nothing
\* was lost and everything sent has been handled, an Add is not stalled.
NoMutualWait ==
  ~ /\ lostPubs + lostAcks = 0 /\ ~unheard /\ phase = "open"
    /\ wire = <<>> /\ acks = <<>> /\ disp = "idle"
    /\ pc = "window" /\ KeepWaiting

\* The messages not confirmed by the server never exceed Flow times
\* MaxOutstandingAcks, for the largest flow that was ever in force.
MaxFlow == CHOOSE f \in Flows \cup ServerFlows :
             \A g \in Flows \cup ServerFlows : g <= f
Window  == MaxFlow * MaxOutstandingAcks

WindowBound == sequence <= confirmed + Window

\* With the server at the other end the context still is the FastPublish of
\* an arbitrary environment ...
ClientSpec == Spec

\* ... and the whole does what BatchSession promises.
Session == INSTANCE BatchSession WITH
  sent    <- sequence,
  state   <- IF pc \in Committing THEN "sealing"
             ELSE IF closed THEN "over" ELSE "open",
  success <- sealed # "no"

SessionSpec == Session!Spec

\* The comment in _commit: "Nothing has been added: nothing to commit".
CommitOfAdded ==
  \A i \in DOMAIN wire : wire[i].op = "COMMIT" => wire[i].seq > 1
=============================================================================
