-------------------------- MODULE FastPublishProofs --------------------------
(***************************************************************************)
(* Proofs about the context alone, in the open environment of FastPublish: *)
(* they hold whatever the server sends and the connection does.            *)
(***************************************************************************)
EXTENDS FastPublish, TLAPS

-----------------------------------------------------------------------------
(* The inductive invariant.                                                *)

\* A commit ack is held only between the _onAck that stored it and the call
\* that takes it, and whatever ended the commit also closed the batch.
AckInv ==
  /\ live = IF commitAck THEN 1 ELSE 0
  /\ pc = "freed" => ~commitAck
  /\ commitAck => commitArrived
  /\ commitArrived => closed

\* A waiting commit and a pending or past report exclude each other.
ReportInv ==
  /\ pc \in Committing => commitPending
  /\ commitPending => PendingReports = 0
  /\ ~closed => surfaced = 0 /\ PendingReports = 0
  /\ surfaced + PendingReports + (IF pc \in Committing THEN 1 ELSE 0) <= 1

ClientInv == TypeOK /\ AckInv /\ ReportInv /\ NoMissedWakeup

-----------------------------------------------------------------------------
(* Type correctness of the steps.                                          *)

\* A message added to the wire keeps it a sequence of messages.
LEMMA AppendType ==
  ASSUME NEW S, NEW q \in Seq(S), NEW e \in S
  PROVE  Append(q, e) \in Seq(S)
OBVIOUS

\* So does natsConnection_PublishMsg, whether it succeeds or not.
LEMMA PublishType ==
  ASSUME NEW op \in Ops, NEW s \in Nat, wire \in Seq(PubMsg),
         Publish(op, s) \/ UNCHANGED wire
  PROVE  wire' \in Seq(PubMsg)
<1> DEFINE m == [op |-> op, seq |-> s]
<1>1. m \in PubMsg
  BY DEF PubMsg
<1>2. CASE UNCHANGED wire
  BY <1>2
<1>3. CASE Publish(op, s)
  <2>1. wire' = Append(wire, m)
    BY <1>3 DEF Publish
  <2> HIDE DEF m
  <2> QED
    BY <1>1, <2>1, AppendType
<1> QED
  BY <1>2, <1>3

\* The first message taken, the rest is still a sequence of messages.
LEMMA TailType ==
  ASSUME NEW S, NEW q \in Seq(S), q # <<>>
  PROVE  Tail(q) \in Seq(S) /\ Head(q) \in S
OBVIOUS

\* The ping interval of any timeout is a number of ticks.
LEMMA PingIntervalType ==
  ASSUME NEW t \in Nat
  PROVE  PingInterval(t) \in Nat
BY DEF PingInterval

-----------------------------------------------------------------------------
(* Helpers of the steps: what a call that returns, sleeps or publishes     *)
(* leaves.                                                                 *)

Returned ==
  /\ pc' = "idle" /\ now' = 0 /\ nextPing' = 0 /\ signalled' = FALSE
  /\ ret' \in RetType

\* A call that returns leaves its thread idle and out of its wait loop.
LEMMA ReturnType ==
  ASSUME NEW call \in Calls, NEW st \in Statuses, NEW s \in Nat, NEW a \in
  Nat,
         Return(call, st, s, a)
  PROVE  Returned
BY DEF Return, Returned, RetType

\* So does one that returns an error.
LEMMA FailType ==
  ASSUME NEW call \in Calls, NEW st \in Statuses, Fail(call, st)
  PROVE  Returned
BY ReturnType DEF Fail

\* A call that goes to sleep starts its wait loop anew.
LEMMA SleepType ==
  ASSUME TypeOK, NEW where \in Blocked, NEW t \in Nat, Sleep(where, t)
  PROVE  /\ pc' = where /\ now' = 0 /\ nextPing' \in Nat /\ signalled' = FALSE
         /\ ret' = ret
BY PingIntervalType DEF Sleep

\* The names of the call under way and of the operations it sends.
LEMMA CallTypes ==
  /\ CallOf \in Calls /\ BlockedCall \in Calls
  /\ AddOp(sequence') \in Ops /\ CommitOp \in Ops
BY DEF CallOf, BlockedCall, Calls, AddOp, CommitOp, Ops

\* A call that returns and leaves the context as it was.
LEMMA QuietReturn ==
  ASSUME ClientInv, Returned,
         UNCHANGED <<ctxVars, dispVars, wire, acks, histVars>>,
         pc # "freed"
  PROVE  ClientInv'
<1> USE DEF ClientInv, ctxVars, dispVars, histVars, Returned
<1>1. TypeOK'
  BY DEF TypeOK, CtxTypeOK, RunTypeOK
<1>2. AckInv' /\ NoMissedWakeup'
  BY DEF AckInv, NoMissedWakeup, Blocked
<1>3. ReportInv'
  <2>1. PendingReports' = PendingReports
    BY DEF PendingReports
  <2>2. pc' \notin Committing /\ PendingReports \in 0..1 /\ surfaced \in Nat
    BY DEF PendingReports, Committing, TypeOK, CtxTypeOK, RunTypeOK
  <2> QED
    BY <2>1, <2>2 DEF ReportInv
<1> QED
  BY <1>1, <1>2, <1>3

\* A call that returns with the context closed, and nothing else that the
\* invariant reads changed.
LEMMA ClosingReturn ==
  ASSUME ClientInv, Returned, closed' = TRUE, pc # "freed",
         sequence' \in Nat, subject' \in BOOLEAN, inbox' \in BOOLEAN,
         wire' \in Seq(PubMsg),
         UNCHANGED <<continueOnGap, flow, ackSequence, firstAckArrived,
                     commitPending, commitArrived, commitAck, commitErr,
                     dispVars, acks, histVars>>
  PROVE  ClientInv'
<1> USE DEF ClientInv, dispVars, histVars, Returned
<1>1. TypeOK'
  BY DEF TypeOK, CtxTypeOK, RunTypeOK
<1>2. AckInv' /\ NoMissedWakeup'
  BY DEF AckInv, NoMissedWakeup, Blocked
<1>3. ReportInv'
  <2>1. PendingReports' = PendingReports
    BY DEF PendingReports
  <2>2. pc' \notin Committing /\ PendingReports \in 0..1 /\ surfaced \in Nat
    BY DEF PendingReports, Committing, TypeOK, CtxTypeOK, RunTypeOK
  <2> QED
    BY <2>1, <2>2 DEF ReportInv
<1> QED
  BY <1>1, <1>2, <1>3

-----------------------------------------------------------------------------
(* The Add family.                                                         *)

\* Every outcome of an Add up to its return or its wait keeps the invariant.
LEMMA AddStep ==
  ASSUME ClientInv, Add
  PROVE  ClientInv'
<1> USE ParamAssumption
<1>t. TypeOK
  BY DEF ClientInv
<1>1. CASE AddRefused
  BY <1>1, FailType, QuietReturn DEF AddRefused, Calls, Statuses
<1>2. CASE AddNoInbox
  BY <1>2, FailType, QuietReturn DEF AddNoInbox, Calls, Statuses
<1>3. CASE AddNotSent
  <2>1. Returned
    BY <1>3, FailType DEF AddNotSent, Calls, Statuses
  <2>2. TypeOK'
    BY <1>3, <1>t, <2>1
       DEF AddNotSent, Returned, TypeOK, CtxTypeOK, RunTypeOK, dispVars,
           histVars
  <2>3. AckInv' /\ ReportInv' /\ NoMissedWakeup'
    BY <1>3, <2>1 DEF AddNotSent, Returned, ClientInv, AckInv, ReportInv,
       NoMissedWakeup, PendingReports, Committing, Blocked, dispVars, histVars
  <2> QED
    BY <2>2, <2>3 DEF ClientInv
<1>4. CASE AddPublishFails
  <2>1. Returned
    BY <1>4, FailType DEF AddPublishFails, Calls, Statuses
  <2>2. sequence' \in Nat /\ subject' = TRUE /\ inbox' = TRUE
    BY <1>4, <1>t
       DEF AddPublishFails, AddSequenced, TypeOK, CtxTypeOK, RunTypeOK
  <2>3. wire' \in Seq(PubMsg)
    BY <1>4, <1>t, <2>2, PublishType, CallTypes
       DEF AddPublishFails, PublishFails, TypeOK, CtxTypeOK, RunTypeOK
  <2> QED
    BY <1>4, <2>1, <2>2, <2>3, ClosingReturn DEF AddPublishFails, AddSequenced
<1>5. CASE AddWaits
  <2>1. sequence' \in Nat /\ subject' = TRUE /\ inbox' = TRUE
    BY <1>5, <1>t DEF AddWaits, AddSequenced, TypeOK, CtxTypeOK, RunTypeOK
  <2>2. wire' \in Seq(PubMsg)
    BY <1>5, <1>t, <2>1, PublishType, CallTypes
       DEF AddWaits, TypeOK, CtxTypeOK, RunTypeOK
  <2>3. PICK where \in {"first", "window"} :
          /\ Sleep(where, AckTimeout)
          /\ where = "first" => ~firstAckArrived
          /\ where = "window" => WindowFull(sequence')
    BY <1>5 DEF AddWaits
  <2>4. /\ pc' = where /\ now' = 0 /\ nextPing' \in Nat /\ signalled' = FALSE
        /\ ret' = ret
    BY <1>t, <2>3, SleepType DEF Blocked
  <2>5. TypeOK'
    BY <1>5, <1>t, <2>1, <2>2, <2>4
       DEF AddWaits, AddSequenced, TypeOK, CtxTypeOK, RunTypeOK, Blocked,
           dispVars, histVars
  <2>6. AckInv' /\ ReportInv'
    BY <1>5, <2>4 DEF AddWaits, AddSequenced, ClientInv, AckInv, ReportInv,
       PendingReports, Committing, dispVars, histVars
  <2>7. KeepWaiting'
    <3>1. ~closed' /\ firstAckArrived' = firstAckArrived
      BY <1>5 DEF AddWaits, AddSequenced
    <3>2. WindowFull(sequence') => WindowFull(sequence)'
      BY <1>5 DEF AddWaits, AddSequenced, WindowFull
    <3> QED
      BY <2>3, <2>4, <3>1, <3>2 DEF KeepWaiting
  <2> QED
    BY <2>5, <2>6, <2>7 DEF ClientInv, NoMissedWakeup
<1>6. CASE AddReturns
  <2>1. sequence' \in Nat /\ subject' = TRUE /\ inbox' = TRUE
    BY <1>6, <1>t DEF AddReturns, AddSequenced, TypeOK, CtxTypeOK, RunTypeOK
  <2>2. wire' \in Seq(PubMsg)
    BY <1>6, <1>t, <2>1, PublishType, CallTypes
       DEF AddReturns, TypeOK, CtxTypeOK, RunTypeOK
  <2>3. Returned
    BY <1>6, <1>t, <2>1, ReturnType
       DEF AddReturns, Calls, Statuses, TypeOK, CtxTypeOK, RunTypeOK
  <2>4. TypeOK'
    BY <1>6, <1>t, <2>1, <2>2, <2>3 DEF AddReturns, AddSequenced, Returned,
       TypeOK, CtxTypeOK, RunTypeOK, dispVars, histVars
  <2>5. AckInv' /\ ReportInv' /\ NoMissedWakeup'
    BY <1>6, <2>3 DEF AddReturns, AddSequenced, Returned, ClientInv, AckInv,
       ReportInv, NoMissedWakeup, PendingReports, Committing, Blocked,
       dispVars, histVars
  <2> QED
    BY <2>4, <2>5 DEF ClientInv
<1> QED
  BY <1>1, <1>2, <1>3, <1>4, <1>5, <1>6 DEF Add

-----------------------------------------------------------------------------
(* Commit and Close.                                                       *)

\* So does every outcome of Commit and Close.
LEMMA CommitStep ==
  ASSUME ClientInv, Commit
  PROVE  ClientInv'
<1> USE ParamAssumption
<1>t. TypeOK
  BY DEF ClientInv
<1>1. CASE CloseRefused
  BY <1>1, FailType, QuietReturn DEF CloseRefused, Calls, Statuses
<1>2. CASE CloseChecked
  <2>1. TypeOK'
    BY <1>2, <1>t
       DEF CloseChecked, TypeOK, CtxTypeOK, RunTypeOK, ctxVars, waitVars,
           dispVars, histVars
  <2>2. AckInv' /\ ReportInv' /\ NoMissedWakeup'
    BY <1>2 DEF CloseChecked, ClientInv, AckInv, ReportInv, NoMissedWakeup,
       PendingReports, Committing, Blocked, ctxVars, waitVars, dispVars,
       histVars
  <2> QED
    BY <2>1, <2>2 DEF ClientInv
<1>3. CASE CommitInvalid
  BY <1>3, CallTypes, FailType, QuietReturn
     DEF CommitInvalid, Entered, Statuses
<1>4. CASE CommitRefused
  BY <1>4, CallTypes, FailType, QuietReturn
     DEF CommitRefused, Entered, Statuses
<1>5. ASSUME CommitSequenced
      PROVE  /\ sequence' \in Nat /\ subject' = subject /\ inbox' = inbox
             /\ subject \in BOOLEAN /\ inbox \in BOOLEAN /\ pc # "freed"
  BY <1>5, <1>t DEF CommitSequenced, Entered, TypeOK, CtxTypeOK, RunTypeOK
<1>6. CASE CommitNotSent
  <2>1. CommitSequenced
    BY <1>6 DEF CommitNotSent
  <2>2. Returned
    BY <1>6, CallTypes, FailType DEF CommitNotSent, Statuses
  <2>3. wire' \in Seq(PubMsg)
    BY <1>6, <1>t DEF CommitNotSent, TypeOK, CtxTypeOK, RunTypeOK
  <2> QED
    BY <1>5, <1>6, <2>1, <2>2, <2>3, ClosingReturn
       DEF CommitNotSent, CommitSequenced
<1>7. CASE CommitPublishFails
  <2>1. CommitSequenced
    BY <1>7 DEF CommitPublishFails
  <2>2. Returned
    BY <1>7, CallTypes, FailType DEF CommitPublishFails, Statuses
  <2>3. wire' \in Seq(PubMsg)
    BY <1>5, <1>7, <1>t, <2>1, PublishType, CallTypes
       DEF CommitPublishFails, PublishFails, TypeOK, CtxTypeOK, RunTypeOK
  <2> QED
    BY <1>5, <1>7, <2>1, <2>2, <2>3, ClosingReturn
       DEF CommitPublishFails, CommitSequenced
<1>8. CASE CommitWaits
  <2>1. CommitSequenced
    BY <1>8 DEF CommitWaits
  <2>2. wire' \in Seq(PubMsg)
    BY <1>5, <1>8, <1>t, <2>1, PublishType, CallTypes
       DEF CommitWaits, TypeOK, CtxTypeOK, RunTypeOK
  <2>3. PICK where \in Committing : Sleep(where, CommitTimeout)
    BY <1>8 DEF CommitWaits, Committing
  <2>4. /\ pc' = where /\ now' = 0 /\ nextPing' \in Nat /\ signalled' = FALSE
        /\ ret' = ret
    BY <1>t, <2>3, SleepType DEF Blocked, Committing
  <2>5. TypeOK'
    BY <1>5, <1>8, <1>t, <2>1, <2>2, <2>4
       DEF CommitWaits, CommitSequenced, TypeOK, CtxTypeOK, RunTypeOK,
           Blocked, Committing,
           dispVars, histVars
  <2>6. AckInv' /\ ReportInv' /\ NoMissedWakeup'
    BY <1>8, <2>1, <2>4 DEF CommitWaits, CommitSequenced, Entered, ClientInv,
       AckInv, ReportInv, NoMissedWakeup, KeepWaiting, PendingReports,
       Committing, Blocked, dispVars, histVars
  <2> QED
    BY <2>5, <2>6 DEF ClientInv
<1> QED
  BY <1>1, <1>2, <1>3, <1>4, <1>6, <1>7, <1>8 DEF Commit

-----------------------------------------------------------------------------
(* The wait loops.                                                         *)

\* So do the clock and every way a wait loop goes on or ends.
LEMMA ResumeStep ==
  ASSUME ClientInv, Tick \/ Resume
  PROVE  ClientInv'
<1> USE ParamAssumption
<1>t. TypeOK
  BY DEF ClientInv
<1>s. ASSUME StillWaiting
      PROVE  pc # "freed" /\ pc \in Blocked /\ ~closed
  BY <1>s DEF StillWaiting, Awake, KeepWaiting, Blocked
<1>u. ASSUME StillWaiting
      PROVE  UNCHANGED <<continueOnGap, flow, sequence, ackSequence, subject,
                         inbox, firstAckArrived, commitPending, commitArrived,
                         commitAck, commitErr, disp, inHand, acks, live,
                         surfaced, sealed>>
  BY <1>u DEF StillWaiting, dispVars, histVars
<1>1. CASE Tick
  <2>1. TypeOK'
    BY <1>1, <1>t
       DEF Tick, TypeOK, CtxTypeOK, RunTypeOK, ctxVars, dispVars, histVars
  <2>2. AckInv' /\ ReportInv'
    BY <1>1
       DEF Tick, ClientInv, AckInv, ReportInv, PendingReports, Committing,
       ctxVars, dispVars, histVars
  <2>3. NoMissedWakeup'
    BY <1>1 DEF Tick, ClientInv, NoMissedWakeup, KeepWaiting, WindowFull,
       ctxVars
  <2> QED
    BY <2>1, <2>2, <2>3 DEF ClientInv
<1>2. CASE WaitTimesOut
  <2>1. Returned
    BY <1>2, CallTypes, FailType DEF WaitTimesOut, Statuses
  <2> QED
    BY <1>2, <1>s, <1>t, <2>1, ClosingReturn
       DEF WaitTimesOut, StillWaiting, TypeOK, CtxTypeOK, RunTypeOK
<1>3. CASE WaitPings
  <2>1. wire' \in Seq(PubMsg)
    BY <1>3, <1>t, PublishType
       DEF WaitPings, TypeOK, CtxTypeOK, RunTypeOK, Ops
  <2>2. nextPing' \in Nat
    <3>1. Deadline \in Nat
      BY DEF Deadline
    <3>2. PingInterval(Deadline) \in Nat
      BY <3>1, PingIntervalType
    <3> QED
      BY <1>3, <1>t, <3>2 DEF WaitPings, TypeOK, CtxTypeOK, RunTypeOK
  <2>3. TypeOK'
    <3>1. CtxTypeOK'
      BY <1>3, <1>t, <1>u DEF WaitPings, TypeOK, CtxTypeOK
    <3>2. RunTypeOK'
      BY <1>3, <1>t, <1>u, <2>1, <2>2 DEF WaitPings, TypeOK, RunTypeOK
    <3> QED
      BY <3>1, <3>2 DEF TypeOK
  <2>4. AckInv' /\ ReportInv'
    BY <1>3 DEF WaitPings, StillWaiting, ClientInv, AckInv, ReportInv,
       PendingReports, Committing, dispVars, histVars
  <2>5. KeepWaiting'
    BY <1>3 DEF WaitPings, StillWaiting, KeepWaiting, WindowFull
  <2> QED
    BY <2>3, <2>4, <2>5 DEF ClientInv, NoMissedWakeup
<1>4. CASE WaitPingFails
  <2>1. Returned
    BY <1>4, CallTypes, FailType DEF WaitPingFails, Statuses
  <2>2. wire' \in Seq(PubMsg)
    BY <1>4, <1>t, PublishType
       DEF WaitPingFails, PublishFails, TypeOK, CtxTypeOK, RunTypeOK, Ops
  <2> QED
    BY <1>4, <1>s, <1>t, <2>1, <2>2, ClosingReturn
       DEF WaitPingFails, StillWaiting, TypeOK, CtxTypeOK, RunTypeOK
<1>5. CASE WaitAgain
  <2>1. TypeOK'
    <3>1. CtxTypeOK'
      BY <1>5, <1>t, <1>u DEF WaitAgain, TypeOK, CtxTypeOK
    <3>2. RunTypeOK'
      BY <1>5, <1>t, <1>u DEF WaitAgain, TypeOK, RunTypeOK
    <3> QED
      BY <3>1, <3>2 DEF TypeOK
  <2>2. AckInv' /\ ReportInv'
    BY <1>5 DEF WaitAgain, StillWaiting, ClientInv, AckInv, ReportInv,
       PendingReports, Committing, dispVars, histVars
  <2>3. KeepWaiting'
    BY <1>5 DEF WaitAgain, StillWaiting, KeepWaiting, WindowFull
  <2> QED
    BY <2>1, <2>2, <2>3 DEF ClientInv, NoMissedWakeup
<1>6. CASE AddUnblocked
  <2>1. Returned
    BY <1>6, <1>t, ReturnType, FailType
       DEF AddUnblocked, Calls, Statuses, TypeOK, CtxTypeOK, RunTypeOK
  <2> QED
    BY <1>6, <2>1, QuietReturn DEF AddUnblocked
<1>7. CASE CommitAnswered
  <2>1. Returned
    BY <1>7, <1>t, CallTypes, ReturnType, FailType
       DEF CommitAnswered, Statuses, TypeOK, CtxTypeOK, RunTypeOK
  <2>2. live' \in Nat /\ live' = 0 /\ commitAck' = FALSE
    BY <1>7, <1>t
       DEF CommitAnswered, ClientInv, AckInv, TypeOK, CtxTypeOK, RunTypeOK
  <2>3. surfaced' \in Nat /\ sealed' \in {"no", "commit", "close"}
    BY <1>7, <1>t DEF CommitAnswered, CallOf, TypeOK, CtxTypeOK, RunTypeOK
  <2>4. TypeOK'
    BY <1>7, <1>t, <2>1, <2>2, <2>3
       DEF CommitAnswered, Returned, TypeOK, CtxTypeOK, RunTypeOK, dispVars
  <2>5. AckInv' /\ NoMissedWakeup'
    BY <1>7, <2>1, <2>2 DEF CommitAnswered, Returned, ClientInv, AckInv,
       NoMissedWakeup, Blocked
  <2>6. ReportInv'
    <3>1. PendingReports' = PendingReports /\ PendingReports = 0
      BY <1>7
         DEF CommitAnswered, ClientInv, ReportInv, PendingReports, dispVars
    <3>2. surfaced = 0
      BY <1>7, <1>t, <3>1
         DEF CommitAnswered, ClientInv, ReportInv, TypeOK, CtxTypeOK,
             RunTypeOK
    <3>3. surfaced' \in 0..1 /\ closed' = TRUE /\ pc' = "idle"
      BY <1>7, <2>1, <3>2 DEF CommitAnswered, Returned
    <3>4. surfaced' + PendingReports' + (IF pc' \in Committing THEN 1 ELSE 0)
            <= 1
      <4>1. pc' \notin Committing
        BY <3>3 DEF Committing
      <4>2. PendingReports' = 0
        BY <3>1
      <4>3. surfaced' = 0 \/ surfaced' = 1
        BY <3>3
      <4> QED
        BY <4>1, <4>2, <4>3
    <3>5. /\ pc' \in Committing => commitPending'
          /\ commitPending' => PendingReports' = 0
          /\ ~closed' => surfaced' = 0 /\ PendingReports' = 0
      BY <3>1, <3>3 DEF Committing
    <3> QED
      BY <3>4, <3>5 DEF ReportInv
  <2> QED
    BY <2>4, <2>5, <2>6 DEF ClientInv
<1>8. CASE CommitAbandoned
  <2>1. Returned
    BY <1>8, CallTypes, FailType DEF CommitAbandoned, Statuses
  <2> QED
    BY <1>8, <2>1, QuietReturn DEF CommitAbandoned, Committing
<1> QED
  BY <1>1, <1>2, <1>3, <1>4, <1>5, <1>6, <1>7, <1>8 DEF Resume

\* So does Destroy: it frees a commit ack nobody took.
LEMMA DestroyStep ==
  ASSUME ClientInv, Destroy
  PROVE  ClientInv'
<1>t. TypeOK
  BY DEF ClientInv
<1>1. live' = 0 /\ commitAck' = FALSE /\ pc' = "freed"
  BY <1>t DEF Destroy, ClientInv, AckInv, TypeOK, CtxTypeOK, RunTypeOK
<1>2. TypeOK'
  <2>1. CtxTypeOK'
    BY <1>t DEF Destroy, TypeOK, CtxTypeOK
  <2>2. acks' \in Seq(AckMsg)
    BY DEF Destroy
  <2>3. RunTypeOK'
    BY <1>1, <1>t, <2>2 DEF Destroy, TypeOK, RunTypeOK, waitVars, dispVars
  <2> QED
    BY <2>1, <2>3 DEF TypeOK
<1>3. AckInv' /\ NoMissedWakeup'
  BY <1>1 DEF Destroy, ClientInv, AckInv, NoMissedWakeup, Blocked
<1>4. ReportInv'
  <2>1. PendingReports' = PendingReports
    BY DEF Destroy, PendingReports, dispVars
  <2>2. pc \notin Committing /\ pc' \notin Committing
    BY <1>1 DEF Destroy, Committing
  <2> QED
    BY <2>1, <2>2 DEF Destroy, ClientInv, ReportInv
<1> QED
  BY <1>2, <1>3, <1>4 DEF ClientInv

-----------------------------------------------------------------------------
(* The dispatcher.                                                         *)

\* The assignment to ctx->flow truncates to 16 bits.
LEMMA TruncationType ==
  ASSUME NEW n \in Nat
  PROVE  n % U16 \in 0..(U16 - 1)
BY DEF U16

\* Where a step of _onAck leaves the dispatcher and the message it holds.
LEMMA ReportType ==
  ASSUME NEW report \in BOOLEAN, TypeOK, ThenReport(report)
  PROVE  /\ disp' = IF report THEN "report" ELSE "idle"
         /\ inHand' \in AckMsg
         /\ report => inHand' = inHand
BY
   DEF ThenReport, NoMsg, Plain, AckMsg, AckTypes, TypeOK, CtxTypeOK,
       RunTypeOK

\* Every branch of _onAck keeps the invariant.
LEMMA OnAckStep ==
  ASSUME ClientInv, OnAck
  PROVE  ClientInv'
<1> USE ParamAssumption
<1>t. TypeOK
  BY DEF ClientInv
<1>r. ASSUME NEW report \in BOOLEAN, ThenReport(report), InOnAck
      PROVE  /\ disp' \in {"report", "idle"} /\ inHand' \in AckMsg
             /\ ~report => PendingReports' = 0
             /\ report => PendingReports'
                  = IF inHand.type \in TerminalErrs THEN 1 ELSE 0
             /\ PendingReports = 0
  BY <1>r, <1>t, ReportType DEF PendingReports, InOnAck
\* A step that broadcasts leaves no sleeper that has not been told.
<1>b. ASSUME Broadcast, pc' = pc
      PROVE  signalled' \in BOOLEAN /\ NoMissedWakeup'
  <2>1. CASE pc \in Blocked
    <3>1. signalled' = TRUE
      BY <1>b, <2>1 DEF Broadcast
    <3> QED
      BY <3>1 DEF NoMissedWakeup
  <2>2. CASE pc \notin Blocked
    <3>1. signalled' = FALSE
      <4>1. signalled' = (pc \in Blocked)
        BY <1>b DEF Broadcast
      <4>2. (pc \in Blocked) = FALSE
        BY <2>2
      <4> QED
        BY <4>1, <4>2
    <3>2. pc' \notin Blocked
      BY <1>b, <2>2 DEF Blocked
    <3> QED
      BY <3>1, <3>2 DEF NoMissedWakeup
  <2> QED
    BY <2>1, <2>2
<1>i. ASSUME InOnAck
      PROVE  disp = "entered" /\ pc # "freed"
  BY <1>i DEF InOnAck
<1>1. CASE OnAckIgnored
  <2>1. disp' \in {"report", "idle"} /\ inHand' \in AckMsg
        /\ PendingReports' = 0 /\ PendingReports = 0
    BY <1>1, <1>r DEF OnAckIgnored
  <2>2. TypeOK'
    BY <1>1, <1>t, <2>1
       DEF OnAckIgnored, InOnAck, TypeOK, CtxTypeOK, RunTypeOK
  <2>3. AckInv' /\ NoMissedWakeup'
    BY <1>1 DEF OnAckIgnored, InOnAck, ClientInv, AckInv, NoMissedWakeup,
       KeepWaiting, WindowFull
  <2>4. ReportInv'
    BY <1>1, <2>1 DEF OnAckIgnored, InOnAck, ClientInv, ReportInv, Committing
  <2> QED
    BY <2>2, <2>3, <2>4 DEF ClientInv
<1>2. CASE OnTerminalError
  <2>1. disp' \in {"report", "idle"} /\ inHand' \in AckMsg
        /\ PendingReports' = (IF commitPending THEN 0 ELSE 1)
        /\ PendingReports = 0
    BY <1>2, <1>t, <1>r DEF OnTerminalError, TypeOK, CtxTypeOK, RunTypeOK
  <2>2. signalled' \in BOOLEAN /\ NoMissedWakeup'
    BY <1>2, <1>b DEF OnTerminalError, InOnAck
  <2>3. TypeOK'
    BY <1>2, <1>t, <2>1, <2>2
       DEF OnTerminalError, InOnAck, TypeOK, CtxTypeOK, RunTypeOK, CommitErrs
  <2>4. AckInv'
    BY <1>2 DEF OnTerminalError, InOnAck, ClientInv, AckInv
  <2>5. ReportInv'
    <3>1. surfaced = 0 /\ surfaced' = 0 /\ closed' = TRUE
      BY <1>2 DEF OnTerminalError, InOnAck, ClientInv, ReportInv
    <3>2. pc' = pc /\ commitPending' = commitPending
      BY <1>2 DEF OnTerminalError, InOnAck
    <3>3. pc \in Committing => commitPending
      BY DEF ClientInv, ReportInv
    <3> QED
      BY <2>1, <3>1, <3>2, <3>3 DEF ReportInv, Committing
  <2> QED
    BY <2>2, <2>3, <2>4, <2>5 DEF ClientInv
<1>3. CASE OnGap
  <2>1. disp' \in {"report", "idle"} /\ inHand' \in AckMsg
        /\ PendingReports' = 0 /\ PendingReports = 0
    BY <1>3, <1>r DEF OnGap, TerminalErrs
  <2>2. signalled' \in BOOLEAN /\ closed' \in BOOLEAN /\ NoMissedWakeup'
    <3>1. CASE continueOnGap
      BY <1>3, <1>t, <3>1 DEF OnGap, InOnAck, ClientInv, NoMissedWakeup,
         KeepWaiting, WindowFull, TypeOK, CtxTypeOK, RunTypeOK
    <3>2. CASE ~continueOnGap
      BY <1>3, <1>b, <3>2 DEF OnGap, InOnAck
    <3> QED
      BY <3>1, <3>2
  <2>3. TypeOK'
    BY <1>3, <1>t, <2>1, <2>2 DEF OnGap, InOnAck, TypeOK, CtxTypeOK, RunTypeOK
  <2>4. AckInv'
    BY <1>3 DEF OnGap, InOnAck, ClientInv, AckInv
  <2>5. ReportInv'
    BY <1>3, <2>1 DEF OnGap, InOnAck, ClientInv, ReportInv, Committing
  <2> QED
    BY <2>2, <2>3, <2>4, <2>5 DEF ClientInv
<1>4. CASE OnFlowAck
  <2>1. disp' \in {"report", "idle"} /\ inHand' \in AckMsg
        /\ PendingReports' = 0 /\ PendingReports = 0
    BY <1>4, <1>r DEF OnFlowAck
  <2>2. signalled' \in BOOLEAN /\ NoMissedWakeup'
    BY <1>4, <1>b DEF OnFlowAck, InOnAck
  <2>3. flow' \in 0..(U16 - 1) /\ ackSequence' \in Nat
    <3>1. inHand.msgs \in Nat /\ inHand.seq \in Nat
      BY <1>t DEF TypeOK, CtxTypeOK, RunTypeOK, AckMsg
    <3>2. inHand.msgs % U16 \in 0..(U16 - 1)
      BY <3>1, TruncationType
    <3> QED
      BY <1>4, <1>t, <3>1, <3>2 DEF OnFlowAck, TypeOK, CtxTypeOK, RunTypeOK
  <2>4. TypeOK'
    BY <1>4, <1>t, <2>1, <2>2, <2>3
       DEF OnFlowAck, InOnAck, TypeOK, CtxTypeOK, RunTypeOK
  <2>5. AckInv'
    BY <1>4 DEF OnFlowAck, InOnAck, ClientInv, AckInv
  <2>6. ReportInv'
    BY <1>4, <2>1 DEF OnFlowAck, InOnAck, ClientInv, ReportInv, Committing
  <2> QED
    BY <2>2, <2>4, <2>5, <2>6 DEF ClientInv
<1>5. CASE OnErr
  <2>1. disp' \in {"report", "idle"} /\ inHand' \in AckMsg
        /\ PendingReports' = 0 /\ PendingReports = 0
    BY <1>5, <1>r DEF OnErr, TerminalErrs
  <2>2. TypeOK'
    BY <1>5, <1>t, <2>1 DEF OnErr, InOnAck, TypeOK, CtxTypeOK, RunTypeOK
  <2>3. AckInv' /\ NoMissedWakeup'
    BY <1>5 DEF OnErr, InOnAck, ClientInv, AckInv, NoMissedWakeup,
       KeepWaiting, WindowFull
  <2>4. ReportInv'
    BY <1>5, <2>1 DEF OnErr, InOnAck, ClientInv, ReportInv, Committing
  <2> QED
    BY <2>2, <2>3, <2>4 DEF ClientInv
<1>6. CASE OnCommitAck
  <2>1. disp' \in {"report", "idle"} /\ inHand' \in AckMsg
        /\ PendingReports' = 0 /\ PendingReports = 0
    BY <1>6, <1>r DEF OnCommitAck
  <2>2. signalled' \in BOOLEAN /\ NoMissedWakeup'
    BY <1>6, <1>b DEF OnCommitAck, InOnAck
  <2>3. commitAck = FALSE /\ live = 0
    BY <1>6, <1>t
       DEF OnCommitAck, ClientInv, AckInv, TypeOK, CtxTypeOK, RunTypeOK
  <2>4. /\ commitErr' \in CommitErrs
        /\ commitAck' \in BOOLEAN /\ live' = (IF commitAck' THEN 1 ELSE 0)
    <3>1. CASE commitErr' = "NO_MEMORY" /\ UNCHANGED <<commitAck, live>>
      BY <2>3, <3>1 DEF CommitErrs
    <3>2. CASE /\ commitErr' \in {"OK", "nostream"}
               /\ commitAck' = TRUE /\ live' = live + 1
      BY <2>3, <3>2 DEF CommitErrs
    <3> QED
      BY <1>6, <3>1, <3>2 DEF OnCommitAck
  <2>5. TypeOK'
    BY <1>6, <1>t, <2>1, <2>2, <2>4
       DEF OnCommitAck, InOnAck, TypeOK, CtxTypeOK, RunTypeOK
  <2>6. AckInv'
    BY <1>6, <1>i, <2>4 DEF OnCommitAck, InOnAck, AckInv
  <2>7. ReportInv'
    BY <1>6, <2>1 DEF OnCommitAck, InOnAck, ClientInv, ReportInv, Committing
  <2> QED
    BY <2>2, <2>5, <2>6, <2>7 DEF ClientInv
<1> QED
  BY <1>1, <1>2, <1>3, <1>4, <1>5, <1>6 DEF OnAck

\* So does the delivery of the next control message.
LEMMA DispatchStep ==
  ASSUME ClientInv, Dispatch
  PROVE  ClientInv'
<1>t. TypeOK
  BY DEF ClientInv
<1>1. inHand' \in AckMsg /\ acks' \in Seq(AckMsg)
  BY <1>t, TailType DEF Dispatch, TypeOK, RunTypeOK
<1>2. CtxTypeOK'
  BY <1>t DEF Dispatch, TypeOK, CtxTypeOK, ctxVars
<1>3. RunTypeOK'
  BY <1>1, <1>t DEF Dispatch, TypeOK, RunTypeOK, appVars, histVars
<1>4. AckInv' /\ NoMissedWakeup'
  BY DEF Dispatch, ClientInv, AckInv, NoMissedWakeup, KeepWaiting, WindowFull,
     ctxVars, appVars, histVars
<1>5. ReportInv'
  <2>1. PendingReports' = 0 /\ PendingReports = 0
    BY DEF Dispatch, PendingReports
  <2> QED
    BY <2>1 DEF Dispatch, ClientInv, ReportInv, Committing, ctxVars, appVars,
       histVars
<1> QED
  BY <1>2, <1>3, <1>4, <1>5 DEF ClientInv, TypeOK

\* The report of a terminal error is the one that was pending.
LEMMA ReportStep ==
  ASSUME ClientInv, Report
  PROVE  ClientInv'
<1>t. TypeOK
  BY DEF ClientInv
<1>1. inHand' \in AckMsg
  BY DEF Report, NoMsg, Plain, AckMsg, AckTypes
<1>2. PendingReports' = 0 /\ PendingReports \in 0..1
      /\ surfaced' = surfaced + PendingReports
  BY DEF Report, PendingReports
<1>3. CtxTypeOK'
  BY <1>t DEF Report, TypeOK, CtxTypeOK, ctxVars
<1>4. surfaced' \in Nat
  BY <1>2, <1>t DEF TypeOK, RunTypeOK
<1>5. RunTypeOK'
  BY <1>1, <1>4, <1>t DEF Report, TypeOK, RunTypeOK, appVars
<1>6. AckInv' /\ NoMissedWakeup'
  BY DEF Report, ClientInv, AckInv, NoMissedWakeup, KeepWaiting, WindowFull,
     ctxVars, appVars
<1>7. ReportInv'
  <2>1. pc' = pc /\ closed' = closed /\ commitPending' = commitPending
    BY DEF Report, ctxVars, appVars
  <2>2. ReportInv /\ surfaced \in Nat
    BY <1>t DEF ClientInv, TypeOK, RunTypeOK
  <2>3. surfaced' + PendingReports' = surfaced + PendingReports
    BY <1>2, <2>2
  <2>4. ~closed' => surfaced' = 0
    BY <1>2, <2>1, <2>2 DEF ReportInv
  <2> QED
    BY <1>2, <2>1, <2>2, <2>3, <2>4 DEF ReportInv, Committing
<1> QED
  BY <1>3, <1>5, <1>6, <1>7 DEF ClientInv, TypeOK

-----------------------------------------------------------------------------
(* The environment, and the whole step.                                    *)

\* The server and the connection cannot break the invariant.
LEMMA EnvStep ==
  ASSUME ClientInv, Env
  PROVE  ClientInv'
<1>t. TypeOK
  BY DEF ClientInv
<1>1. wire' \in Seq(PubMsg)
  BY <1>t, TailType DEF Env, TypeOK, RunTypeOK
<1>2. CtxTypeOK'
  BY <1>t DEF Env, TypeOK, CtxTypeOK, ctxVars
<1>3. RunTypeOK'
  BY <1>1, <1>t DEF Env, TypeOK, RunTypeOK, appVars, dispVars, histVars
<1>4. AckInv' /\ NoMissedWakeup' /\ ReportInv'
  BY DEF Env, ClientInv, AckInv, NoMissedWakeup, KeepWaiting, WindowFull,
     ReportInv, PendingReports, Committing, ctxVars, appVars, dispVars,
     histVars
<1> QED
  BY <1>2, <1>3, <1>4 DEF ClientInv, TypeOK

\* Nor can a step that changes nothing.
LEMMA StutterStep ==
  ASSUME ClientInv, UNCHANGED vars
  PROVE  ClientInv'
<1>1. /\ UNCHANGED <<ctxVars, appVars>>
      /\ UNCHANGED <<dispVars, wire, acks, histVars>>
  BY DEF vars
<1>2. TypeOK
  BY DEF ClientInv
<1>3. CtxTypeOK'
  BY <1>1, <1>2 DEF TypeOK, CtxTypeOK, ctxVars
<1>4. RunTypeOK'
  BY <1>1, <1>2 DEF TypeOK, RunTypeOK, appVars, dispVars, histVars
<1>5. AckInv' /\ NoMissedWakeup' /\ ReportInv'
  BY <1>1 DEF ClientInv, AckInv, NoMissedWakeup, KeepWaiting, WindowFull,
     ReportInv, PendingReports, Committing, ctxVars, appVars, dispVars,
     histVars
<1> QED
  BY <1>3, <1>4, <1>5 DEF ClientInv, TypeOK

\* A flow of the options is a uint16_t.
LEMMA FlowType ==
  ASSUME NEW f \in 1..(U16 - 1)
  PROVE  f \in 0..(U16 - 1)
BY DEF U16

\* jsFastPublishCtx_Create establishes the invariant.
LEMMA ClientInvInit == Init => ClientInv
<1> SUFFICES ASSUME Init PROVE ClientInv
  OBVIOUS
<1> USE ParamAssumption
<1>1. flow \in 0..(U16 - 1)
  <2>1. flow \in 1..(U16 - 1)
    BY DEF Init
  <2> QED
    BY <2>1, FlowType
<1>2. CtxTypeOK
  BY <1>1 DEF Init, CtxTypeOK, CommitErrs
<1>3. inHand \in AckMsg
  BY DEF Init, NoMsg, Plain, AckMsg, AckTypes
<1>4. ret \in RetType
  BY DEF Init, NoRet, RetType, Calls, Statuses
<1>5. wire \in Seq(PubMsg) /\ acks \in Seq(AckMsg)
  BY DEF Init
<1>6. RunTypeOK
  BY <1>3, <1>4, <1>5 DEF Init, RunTypeOK
<1>7. AckInv /\ NoMissedWakeup
  BY DEF Init, AckInv, NoMissedWakeup, Blocked
<1>8. ReportInv
  BY DEF Init, ReportInv, PendingReports, Committing
<1> QED
  BY <1>2, <1>6, <1>7, <1>8 DEF ClientInv, TypeOK

\* Every step keeps it.
LEMMA ClientInvNext == ClientInv /\ [Next]_vars => ClientInv'
<1> SUFFICES ASSUME ClientInv, [Next]_vars PROVE ClientInv'
  OBVIOUS
<1>1. CASE Application
  BY <1>1, AddStep, CommitStep, ResumeStep, DestroyStep DEF Application
<1>2. CASE Dispatcher
  BY <1>2, DispatchStep, OnAckStep, ReportStep DEF Dispatcher
<1>3. CASE Env
  BY <1>3, EnvStep
<1>4. CASE Freed \/ UNCHANGED vars
  BY <1>4, StutterStep DEF Freed
<1> QED
  BY <1>1, <1>2, <1>3, <1>4 DEF Next

\* The inductive invariant holds throughout, whatever control messages come.
THEOREM ClientInvariant == Spec => []ClientInv
<1>1. Init => ClientInv
  BY ClientInvInit
<1>2. ClientInv /\ [Next]_vars => ClientInv'
  BY ClientInvNext
<1> QED
  BY <1>1, <1>2, PTL DEF Spec

-----------------------------------------------------------------------------
(* What follows, for every value of the constants.                         *)

\* The context, its two threads and the connection keep the types of their
\* fields, whatever control messages arrive.
THEOREM TypeCorrect == Spec => []TypeOK
<1>1. ClientInv => TypeOK
  BY DEF ClientInv
<1> QED
  BY <1>1, ClientInvariant, PTL

\* No change _onAck makes to what a wait loop reads is left without a
\* broadcast: a call sleeps only while its condition is false.
THEOREM NoWakeupMissed == Spec => []NoMissedWakeup
<1>1. ClientInv => NoMissedWakeup
  BY DEF ClientInv
<1> QED
  BY <1>1, ClientInvariant, PTL

\* A commit ack has one owner: none leaks, none is freed twice.
THEOREM CommitAckHasOneOwner == Spec => []CommitAckOwned
<1>1. ClientInv => CommitAckOwned
  BY DEF ClientInv, AckInv, CommitAckOwned
<1> QED
  BY <1>1, ClientInvariant, PTL

\* A terminal error reaches the application at most once, through the waiting
\* commit or through the error handler.
THEOREM TerminalErrorReportedOnce == Spec => []ReportedAtMostOnce
<1>1. ClientInv => ReportedAtMostOnce
  <2> SUFFICES ASSUME ClientInv PROVE surfaced + PendingReports <= 1
    BY DEF ReportedAtMostOnce
  <2>1. surfaced \in Nat /\ PendingReports \in Nat
    BY DEF ClientInv, TypeOK, RunTypeOK, PendingReports
  <2> QED
    BY <2>1 DEF ClientInv, ReportInv
<1> QED
  BY <1>1, ClientInvariant, PTL

\* A closed context stays closed and publishes nothing: no Add, Commit, ping,
\* nor a Close that was checked before _onAck closed the batch.
THEOREM ClosedIsSilent == Spec => SilentOnceClosed
<1> DEFINE Silent == closed => closed' /\ (wire' = wire \/ Taken)
<1>1. [Next]_vars => [Silent]_vars
  <2> SUFFICES ASSUME Next, closed PROVE Silent
    BY DEF Silent
  <2>1. CASE Add
    BY <2>1 DEF Add, AddRefused, AddNoInbox, AddNotSent, AddPublishFails,
       AddWaits, AddReturns, AddSequenced, ctxVars
  <2>2. CASE Commit
    BY <2>2 DEF Commit, CloseRefused, CloseChecked, CommitInvalid,
       CommitRefused, CommitNotSent, CommitPublishFails, CommitWaits,
       CommitSequenced, ctxVars
  <2>3. CASE Tick \/ Resume
    BY <2>3 DEF Tick, Resume, WaitTimesOut, WaitPings, WaitPingFails,
       WaitAgain, StillWaiting, KeepWaiting, AddUnblocked, CommitAnswered,
       CommitAbandoned, ctxVars
  <2>4. CASE Destroy
    BY <2>4 DEF Destroy
  <2>5. CASE Dispatch \/ Report
    BY <2>5 DEF Dispatch, Report, ctxVars
  <2>6. CASE OnAck
    BY <2>6 DEF OnAck, OnAckIgnored, OnTerminalError, OnGap, OnFlowAck, OnErr,
       OnCommitAck, InOnAck
  <2>7. CASE Env
    BY <2>7 DEF Env, Taken, ctxVars
  <2>8. CASE Freed
    BY <2>8 DEF Freed, vars, ctxVars
  <2> QED
    BY <2>1, <2>2, <2>3, <2>4, <2>5, <2>6, <2>7, <2>8
       DEF Next, Application, Dispatcher
<1> QED
  BY <1>1, PTL DEF Spec, SilentOnceClosed
=============================================================================
