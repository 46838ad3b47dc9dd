----------------------------- MODULE FastPublish -----------------------------
(***************************************************************************)
(* The fast publish context of jetstream-extra/src/fast_publish.c: one     *)
(* batch, the application thread that adds to it and commits it, and the   *)
(* ack dispatcher, the thread on which the NATS library runs _onAck.       *)
(*                                                                         *)
(* ctx->mu is held by the application from the entry of a call to its      *)
(* return, except while it sleeps in orbitCondition_TimedWait and between  *)
(* jsFastPublish_Close's check and _commit; _onAck holds it for its whole  *)
(* body.  So a stretch of a call between two of those points is one        *)
(* action, and the dispatcher's step is one action.                        *)
(*                                                                         *)
(* The other end is left open: Env may take what was published and replace *)
(* what waits on the ack subscription by any control messages at all.      *)
(* FastPublishSystem closes it with the server and a lossy connection.     *)
(***************************************************************************)
EXTENDS FastPublishWire

CONSTANTS
  Flows,               \* values opts->Flow can have (Flow >= 1)
  MaxOutstandingAcks,  \* ctx->maxOutstandingAcks
  AckTimeout,          \* ctx->ackTimeoutMs, in clock ticks
  CommitTimeout,       \* the commit timeout argument, in clock ticks
  MaxSequence          \* bound: messages added to a batch

U16 == 65536           \* 2^16: ctx->flow is a uint16_t

ASSUME ParamAssumption ==
  /\ Flows \subseteq 1..(U16 - 1) /\ Flows # {}
  /\ MaxOutstandingAcks \in 1..(U16 - 1)
  /\ AckTimeout \in Nat \ {0}
  /\ CommitTimeout \in Nat \ {0}
  /\ MaxSequence \in Nat

VARIABLES
  \* jsFastPublishCtx
  continueOnGap, flow, sequence, ackSequence,
  subject,             \* ctx->batchSubject != NULL
  inbox,               \* ctx->ackSub != NULL
  closed, firstAckArrived,
  commitPending, commitArrived,
  commitAck,           \* ctx->commitAck != NULL
  commitErr,
  \* the application thread
  pc,                  \* what it is doing; "freed" after Destroy
  now, nextPing,       \* clock since its wait loop began, and the next ping
  signalled,           \* it sleeps, and the condition was broadcast
  ret,                 \* what its last call returned
  \* the dispatcher thread
  disp,                \* "idle", "entered" (in _onAck, unlocked), "report"
  inHand,              \* the message _onAck was called with
  \* the connection
  wire,                \* published, not yet taken by the server
  acks,                \* sent to the ack inbox, not yet dispatched
  \* history, read by properties only
  live,                \* jsPubAck objects allocated, not handed over or freed
  surfaced,            \* times a terminal error reached the application
  sealed               \* "commit" or "close" once that call returned NATS_OK

ctxVars  == <<continueOnGap, flow, sequence, ackSequence, subject, inbox,
              closed, firstAckArrived, commitPending, commitArrived,
              commitAck, commitErr>>
waitVars == <<now, nextPing, signalled>>
appVars  == <<pc, now, nextPing, signalled, ret>>
dispVars == <<disp, inHand>>
histVars == <<live, surfaced, sealed>>
vars     == <<ctxVars, appVars, dispVars, wire, acks, histVars>>

-----------------------------------------------------------------------------
(* Messages and statuses.                                                  *)

NoMsg == Plain("unusable")

\* NATS_ERR has three origins in commitErr; they are kept apart here.
TerminalErrs == {"unusable", "error"}
CommitErrs   == {"OK", "NO_MEMORY", "nostream"} \cup TerminalErrs
Statuses     == {"OK", "ERR", "TIMEOUT", "INVALID_ARG", "NOT_SENT", "IO"}
                  \cup CommitErrs

Blocked    == {"first", "window", "commit", "eob"}
Committing == {"commit", "eob"}
Calls      == {"none", "add", "commit", "close"}
RetType    == [call : Calls, status : Statuses, seq : Nat, ackSeq : Nat]
NoRet      == [call |-> "none", status |-> "OK", seq |-> 0, ackSeq |-> 0]

CtxTypeOK ==
  /\ continueOnGap \in BOOLEAN
  /\ flow \in 0..(U16 - 1)
  /\ sequence \in Nat /\ ackSequence \in Nat
  /\ subject \in BOOLEAN /\ inbox \in BOOLEAN
  /\ closed \in BOOLEAN /\ firstAckArrived \in BOOLEAN
  /\ commitPending \in BOOLEAN /\ commitArrived \in BOOLEAN
  /\ commitAck \in BOOLEAN /\ commitErr \in CommitErrs

RunTypeOK ==
  /\ pc \in {"idle", "closing", "freed"} \cup Blocked
  /\ now \in Nat /\ nextPing \in Nat /\ signalled \in BOOLEAN
  /\ ret \in RetType
  /\ disp \in {"idle", "entered", "report"} /\ inHand \in AckMsg
  /\ wire \in Seq(PubMsg) /\ acks \in Seq(AckMsg)
  /\ live \in Nat /\ surfaced \in Nat
  /\ sealed \in {"no", "commit", "close"}

\* Every variable of the context, its two threads and the connection holds a
\* value of its C type.
TypeOK == CtxTypeOK /\ RunTypeOK

-----------------------------------------------------------------------------
(* The state jsFastPublishCtx_Create leaves.                               *)

Init ==
  /\ continueOnGap \in BOOLEAN
  /\ flow \in Flows
  /\ sequence = 0 /\ ackSequence = 0
  /\ subject = FALSE /\ inbox = FALSE
  /\ closed = FALSE /\ firstAckArrived = FALSE
  /\ commitPending = FALSE /\ commitArrived = FALSE
  /\ commitAck = FALSE /\ commitErr = "OK"
  /\ pc = "idle" /\ now = 0 /\ nextPing = 0 /\ signalled = FALSE
  /\ ret = NoRet
  /\ disp = "idle" /\ inHand = NoMsg
  /\ wire = <<>> /\ acks = <<>>
  /\ live = 0 /\ surfaced = 0 /\ sealed = "no"

-----------------------------------------------------------------------------
(* Helpers.                                                                *)

\* timeout / 3, or the whole timeout when that is 0.
PingInterval(timeout) == IF timeout < 3 THEN timeout ELSE timeout \div 3

\* Fault: the window forgets the flow.
WindowOfAcksOnly(s) == ackSequence + MaxOutstandingAcks <= s

\* Fault: the window is one message too wide.
WindowOffByOne(s) == ackSequence + flow * MaxOutstandingAcks < s

\* The stall condition of _addPublish after message s.
WindowFull(s) == ackSequence + flow * MaxOutstandingAcks <= s

\* A call returns to the application; the locals of its wait loop die.
Return(call, status, seq, ackSeq) ==
  /\ ret' = [call |-> call, status |-> status, seq |-> seq, ackSeq |-> ackSeq]
  /\ pc' = "idle" /\ now' = 0 /\ nextPing' = 0 /\ signalled' = FALSE

Fail(call, status) == Return(call, status, 0, 0)

\* The wait loop is entered with its condition true: the call goes to sleep.
Sleep(where, timeout) ==
  /\ pc' = where /\ now' = 0 /\ nextPing' = PingInterval(timeout)
  /\ signalled' = FALSE
  /\ UNCHANGED ret

Publish(op, seq) == wire' = Append(wire, [op |-> op, seq |-> seq])

\* A failed publish may have put the message on the wire or not.
PublishFails(op, seq) == Publish(op, seq) \/ UNCHANGED wire

\* orbitCondition_Broadcast: only a sleeping call notices.
Broadcast == signalled' = (pc \in Blocked)

-----------------------------------------------------------------------------
(* jsFastPublish_Add and jsFastPublish_AddMsg: _addPublish.                *)

AddRefused ==
  /\ pc = "idle" /\ closed
  /\ Fail("add", "ERR")
  /\ UNCHANGED <<ctxVars, dispVars, wire, acks, histVars>>

\* _ensureInbox fails: nothing of ctx has changed.
AddNoInbox ==
  /\ pc = "idle" /\ ~closed /\ ~inbox
  /\ Fail("add", "NOT_SENT")
  /\ UNCHANGED <<ctxVars, dispVars, wire, acks, histVars>>

\* Fault: the sequence number is not given back.
AddNotSentKeepsSequence ==
  /\ pc = "idle" /\ ~closed /\ sequence < MaxSequence
  /\ inbox' = TRUE /\ sequence' = sequence + 1
  /\ Fail("add", "NOT_SENT")
  /\ UNCHANGED <<continueOnGap, flow, ackSequence, subject, closed,
                 firstAckArrived, commitPending, commitArrived, commitAck,
                 commitErr, dispVars, wire, acks, histVars>>

\* _prepareMsg, _applyMsgOpts or the copy of the subject fails: the sequence
\* number is given back, the ack subscription stays.
AddNotSent ==
  /\ pc = "idle" /\ ~closed
  /\ inbox' = TRUE
  /\ Fail("add", "NOT_SENT")
  /\ UNCHANGED <<continueOnGap, flow, sequence, ackSequence, subject, closed,
                 firstAckArrived, commitPending, commitArrived, commitAck,
                 commitErr, dispVars, wire, acks, histVars>>

\* What every Add that reaches the publish does.
AddSequenced ==
  /\ pc = "idle" /\ ~closed /\ sequence < MaxSequence
  /\ inbox' = TRUE /\ subject' = TRUE
  /\ sequence' = sequence + 1
  /\ UNCHANGED <<continueOnGap, flow, ackSequence, firstAckArrived,
                 commitPending, commitArrived, commitAck, commitErr,
                 dispVars, acks, histVars>>

AddOp(seq) == IF seq = 1 THEN "START" ELSE "ADD"

AddPublishFails ==
  /\ AddSequenced
  /\ PublishFails(AddOp(sequence'), sequence')
  /\ closed' = TRUE
  /\ Fail("add", "IO")

\* The first message waits for the first flow ack, a later one only while
\* the window is full.
AddWaits ==
  /\ AddSequenced
  /\ Publish(AddOp(sequence'), sequence')
  /\ UNCHANGED closed
  /\ \/ /\ sequence' = 1 /\ ~firstAckArrived
        /\ Sleep("first", AckTimeout)
     \/ /\ sequence' > 1 /\ WindowFull(sequence')
        /\ Sleep("window", AckTimeout)

\* Fault: Add reports its own message as confirmed.
AddReturnsOwnSequence ==
  /\ AddSequenced
  /\ Publish(AddOp(sequence'), sequence')
  /\ UNCHANGED closed
  /\ IF sequence' = 1 THEN firstAckArrived ELSE ~WindowFull(sequence')
  /\ Return("add", "OK", sequence', sequence')

AddReturns ==
  /\ AddSequenced
  /\ Publish(AddOp(sequence'), sequence')
  /\ UNCHANGED closed
  /\ IF sequence' = 1 THEN firstAckArrived ELSE ~WindowFull(sequence')
  /\ Return("add", "OK", sequence', ackSequence)

Add == AddRefused \/ AddNoInbox \/ AddNotSent \/ AddPublishFails
         \/ AddWaits \/ AddReturns

-----------------------------------------------------------------------------
(* jsFastPublish_Commit, CommitMsg and Close: _commit.  "closing" is Close *)
(* between its own check and its call of _commit, with the mutex free.     *)

CloseRefused ==
  /\ pc = "idle"
  /\ closed \/ sequence = 0 \/ ~subject
  /\ Fail("close", "ERR")
  /\ UNCHANGED <<ctxVars, dispVars, wire, acks, histVars>>

CloseChecked ==
  /\ pc = "idle"
  /\ ~closed /\ sequence # 0 /\ subject
  /\ pc' = "closing"
  /\ UNCHANGED <<ctxVars, waitVars, ret, dispVars, wire, acks, histVars>>

Entered == pc \in {"idle", "closing"}
CallOf  == IF pc \in {"closing", "eob"} THEN "close" ELSE "commit"

\* timeout <= 0.
CommitInvalid ==
  /\ Entered
  /\ Fail(CallOf, "INVALID_ARG")
  /\ UNCHANGED <<ctxVars, dispVars, wire, acks, histVars>>

CommitRefused ==
  /\ Entered
  /\ closed \/ ~inbox
  /\ Fail(CallOf, "ERR")
  /\ UNCHANGED <<ctxVars, dispVars, wire, acks, histVars>>

\* Fault: _commit relies on the check Close made before it unlocked.
CommitSequencedUnchecked ==
  /\ Entered /\ (pc = "idle" => ~closed) /\ inbox
  /\ sequence' = sequence + 1
  /\ UNCHANGED <<continueOnGap, flow, ackSequence, subject, inbox,
                 firstAckArrived, commitArrived, commitAck, commitErr,
                 dispVars, acks, histVars>>

CommitSequenced ==
  /\ Entered /\ ~closed /\ inbox
  /\ sequence' = sequence + 1
  /\ UNCHANGED <<continueOnGap, flow, ackSequence, subject, inbox,
                 firstAckArrived, commitArrived, commitAck, commitErr,
                 dispVars, acks, histVars>>

CommitOp == IF pc = "closing" THEN "COMMIT_EOB" ELSE "COMMIT"

CommitNotSent ==
  /\ CommitSequenced
  /\ closed' = TRUE
  /\ Fail(CallOf, "NOT_SENT")
  /\ UNCHANGED <<commitPending, wire>>

CommitPublishFails ==
  /\ CommitSequenced
  /\ PublishFails(CommitOp, sequence')
  /\ closed' = TRUE
  /\ Fail(CallOf, "IO")
  /\ UNCHANGED commitPending

CommitWaits ==
  /\ CommitSequenced
  /\ Publish(CommitOp, sequence')
  /\ commitPending' = TRUE
  /\ UNCHANGED closed
  /\ Sleep(IF pc = "closing" THEN "eob" ELSE "commit", CommitTimeout)

Commit == CloseRefused \/ CloseChecked \/ CommitInvalid \/ CommitRefused
            \/ CommitNotSent \/ CommitPublishFails \/ CommitWaits

-----------------------------------------------------------------------------
(* The three wait loops.  The sleeper holds the mutex again from the       *)
(* moment it wakes until it returns or sleeps once more.                   *)

Deadline == IF pc \in Committing THEN CommitTimeout ELSE AckTimeout
WakeAt   == IF pc = "first" \/ Deadline < nextPing THEN Deadline ELSE nextPing
\* Fault: orbitCondition_Wait in place of orbitCondition_TimedWait.
WokenOnlyBySignal == pc \in Blocked /\ signalled
Awake    == pc \in Blocked /\ (signalled \/ now >= WakeAt)

KeepWaiting ==
  /\ ~closed
  /\ \/ pc = "first" /\ ~firstAckArrived
     \/ pc = "window" /\ WindowFull(sequence)
     \/ pc \in Committing /\ ~commitArrived

BlockedCall == IF pc \in Committing THEN CallOf ELSE "add"

Tick ==
  /\ pc \in Blocked /\ now < Deadline
  /\ now' = now + 1
  /\ UNCHANGED <<ctxVars, pc, nextPing, signalled, ret, dispVars, wire, acks,
                 histVars>>

\* What ends or continues a wait whose condition still holds changes at most
\* the closed flag of ctx.
StillWaiting ==
  /\ Awake /\ KeepWaiting
  /\ UNCHANGED <<continueOnGap, flow, sequence, ackSequence, subject, inbox,
                 firstAckArrived, commitPending, commitArrived, commitAck,
                 commitErr, dispVars, acks, histVars>>

WaitTimesOut ==
  /\ StillWaiting /\ now >= Deadline
  /\ closed' = TRUE
  /\ Fail(BlockedCall, "TIMEOUT")
  /\ UNCHANGED wire

PingDue == pc # "first" /\ now < Deadline /\ now >= nextPing

\* _publishPing does nothing before a first message set batchSubject.
WaitPings ==
  /\ StillWaiting /\ PingDue
  /\ IF subject THEN Publish("PING", sequence) ELSE UNCHANGED wire
  /\ nextPing' = now + PingInterval(Deadline)
  /\ signalled' = FALSE
  /\ UNCHANGED <<closed, pc, now, ret>>

WaitPingFails ==
  /\ StillWaiting /\ PingDue /\ subject
  /\ PublishFails("PING", sequence)
  /\ closed' = TRUE
  /\ Fail(BlockedCall, "IO")

WaitAgain ==
  /\ StillWaiting /\ now < Deadline /\ ~PingDue
  /\ signalled' = FALSE
  /\ UNCHANGED <<closed, pc, now, nextPing, ret, wire>>

AddUnblocked ==
  /\ Awake /\ ~KeepWaiting /\ pc \in {"first", "window"}
  /\ IF IF pc = "first" THEN firstAckArrived ELSE ~closed
       THEN Return("add", "OK", sequence, ackSequence)
       ELSE Fail("add", "ERR")
  /\ UNCHANGED <<ctxVars, dispVars, wire, acks, histVars>>

\* Fault: a failed commit destroys a commit ack that never came.
CommitAnsweredDestroys ==
  /\ Awake /\ pc \in Committing /\ commitArrived
  /\ commitAck' = FALSE /\ closed' = TRUE
  /\ live' = live - 1
  /\ surfaced' = surfaced + (IF commitErr \in TerminalErrs THEN 1 ELSE 0)
  /\ IF commitErr = "OK"
       THEN sealed' = CallOf /\ Return(CallOf, "OK", sequence, ackSequence)
       ELSE UNCHANGED sealed /\ Fail(CallOf, commitErr)
  /\ UNCHANGED <<continueOnGap, flow, sequence, ackSequence, subject, inbox,
                 firstAckArrived, commitPending, commitArrived, commitErr,
                 dispVars, wire, acks>>

\* The commit ack is taken out of ctx: the caller gets it or it is destroyed.
CommitAnswered ==
  /\ Awake /\ pc \in Committing /\ commitArrived
  /\ commitAck' = FALSE /\ closed' = TRUE
  /\ live' = live - (IF commitAck THEN 1 ELSE 0)
  /\ surfaced' = surfaced + (IF commitErr \in TerminalErrs THEN 1 ELSE 0)
  /\ IF commitErr = "OK"
       THEN sealed' = CallOf /\ Return(CallOf, "OK", sequence, ackSequence)
       ELSE UNCHANGED sealed /\ Fail(CallOf, commitErr)
  /\ UNCHANGED <<continueOnGap, flow, sequence, ackSequence, subject, inbox,
                 firstAckArrived, commitPending, commitArrived, commitErr,
                 dispVars, wire, acks>>

\* The batch was closed under the commit without a commit ack.
CommitAbandoned ==
  /\ Awake /\ pc \in Committing /\ closed /\ ~commitArrived
  /\ Fail(CallOf, "ERR")
  /\ UNCHANGED <<ctxVars, dispVars, wire, acks, histVars>>

Resume == WaitTimesOut \/ WaitPings \/ WaitPingFails \/ WaitAgain
            \/ AddUnblocked \/ CommitAnswered \/ CommitAbandoned

\* jsFastPublish_Destroy does not wait for a running _onAck.
Destroy ==
  /\ pc = "idle"
  /\ pc' = "freed" /\ inbox' = FALSE /\ acks' = <<>>
  /\ commitAck' = FALSE
  /\ live' = live - (IF commitAck THEN 1 ELSE 0)
  /\ UNCHANGED <<continueOnGap, flow, sequence, ackSequence, subject, closed,
                 firstAckArrived, commitPending, commitArrived, commitErr,
                 waitVars, ret, dispVars, wire, surfaced, sealed>>

-----------------------------------------------------------------------------
(* The dispatcher: _onAck.                                                 *)

Dispatch ==
  /\ disp = "idle" /\ inbox /\ acks # <<>>
  /\ disp' = "entered" /\ inHand' = Head(acks) /\ acks' = Tail(acks)
  /\ UNCHANGED <<ctxVars, appVars, wire, histVars>>

\* _onAck with the mutex held; after Destroy there is no mutex to take.
InOnAck ==
  /\ disp = "entered" /\ pc # "freed"
  /\ UNCHANGED <<continueOnGap, sequence, subject, inbox, commitPending,
                 pc, now, nextPing, ret, wire, acks, surfaced, sealed>>

\* The message outlives the unlock only when there is something to report.
ThenReport(report) ==
  IF report THEN disp' = "report" /\ UNCHANGED inHand
            ELSE disp' = "idle" /\ inHand' = NoMsg

OnAckIgnored ==
  /\ InOnAck /\ closed
  /\ ThenReport(FALSE)
  /\ UNCHANGED <<flow, ackSequence, closed, firstAckArrived, commitArrived,
                 commitAck, commitErr, signalled, live>>

\* Fault: the error is reported even if a commit will return it.
TerminalErrorAlwaysReported ==
  /\ InOnAck /\ ~closed /\ inHand.type \in TerminalErrs
  /\ commitErr' = inHand.type
  /\ commitArrived' = TRUE /\ closed' = TRUE
  /\ Broadcast
  /\ ThenReport(TRUE)
  /\ UNCHANGED <<flow, ackSequence, firstAckArrived, commitAck, live>>

\* Fault: the error is left to a commit that may never be called.
TerminalErrorNeverReported ==
  /\ InOnAck /\ ~closed /\ inHand.type \in TerminalErrs
  /\ commitErr' = inHand.type
  /\ commitArrived' = TRUE /\ closed' = TRUE
  /\ Broadcast
  /\ ThenReport(FALSE)
  /\ UNCHANGED <<flow, ackSequence, firstAckArrived, commitAck, live>>

\* Fault: the status of the commit is not recorded.
TerminalErrorWithoutStatus ==
  /\ InOnAck /\ ~closed /\ inHand.type \in TerminalErrs
  /\ commitArrived' = TRUE /\ closed' = TRUE
  /\ Broadcast
  /\ ThenReport(~commitPending)
  /\ UNCHANGED <<flow, ackSequence, firstAckArrived, commitAck, commitErr,
                 live>>

\* No responders or an unreadable body, and an "error" object.  A waiting
\* commit returns the error; otherwise it goes to the error handler.
OnTerminalError ==
  /\ InOnAck /\ ~closed /\ inHand.type \in TerminalErrs
  /\ commitErr' = inHand.type
  /\ commitArrived' = TRUE /\ closed' = TRUE
  /\ Broadcast
  /\ ThenReport(~commitPending)
  /\ UNCHANGED <<flow, ackSequence, firstAckArrived, commitAck, live>>

\* Fault: a fatal gap wakes nobody.
GapWithoutBroadcast ==
  /\ InOnAck /\ ~closed /\ inHand.type = "gap"
  /\ closed' = ~continueOnGap
  /\ ThenReport(TRUE)
  /\ UNCHANGED <<flow, ackSequence, firstAckArrived, commitArrived, commitAck,
                 commitErr, signalled, live>>

OnGap ==
  /\ InOnAck /\ ~closed /\ inHand.type = "gap"
  /\ IF continueOnGap THEN UNCHANGED <<closed, signalled>>
                      ELSE closed' = TRUE /\ Broadcast
  /\ ThenReport(TRUE)
  /\ UNCHANGED <<flow, ackSequence, firstAckArrived, commitArrived, commitAck,
                 commitErr, live>>

OnFlowAck ==
  /\ InOnAck /\ ~closed /\ inHand.type = "ack"
  /\ flow' = IF inHand.msgs > 0 THEN inHand.msgs % U16 ELSE flow
  /\ ackSequence' = inHand.seq
  /\ firstAckArrived' = TRUE
  /\ Broadcast
  /\ ThenReport(FALSE)
  /\ UNCHANGED <<closed, commitArrived, commitAck, commitErr, live>>

OnErr ==
  /\ InOnAck /\ ~closed /\ inHand.type = "err"
  /\ ThenReport(TRUE)
  /\ UNCHANGED <<flow, ackSequence, closed, firstAckArrived, commitArrived,
                 commitAck, commitErr, signalled, live>>

\* Fault: a commit ack that comes after the batch is closed is taken.
CommitAckAlwaysTaken ==
  /\ InOnAck /\ inHand.type \in {"commit", "nostream"}
  /\ commitErr' = IF inHand.type = "commit" THEN "OK" ELSE "nostream"
  /\ commitAck' = TRUE /\ live' = live + 1
  /\ commitArrived' = TRUE /\ closed' = TRUE
  /\ Broadcast
  /\ ThenReport(FALSE)
  /\ UNCHANGED <<flow, ackSequence, firstAckArrived>>

\* _parseCommitAck: the jsPubAck cannot be allocated, or is allocated with
\* or without a stream name.
OnCommitAck ==
  /\ InOnAck /\ ~closed /\ inHand.type \in {"commit", "nostream"}
  /\ \/ /\ commitErr' = "NO_MEMORY"
        /\ UNCHANGED <<commitAck, live>>
     \/ /\ commitErr' = IF inHand.type = "commit" THEN "OK" ELSE "nostream"
        /\ commitAck' = TRUE /\ live' = live + 1
  /\ commitArrived' = TRUE /\ closed' = TRUE
  /\ Broadcast
  /\ ThenReport(FALSE)
  /\ UNCHANGED <<flow, ackSequence, firstAckArrived>>

OnAck == OnAckIgnored \/ OnTerminalError \/ OnGap \/ OnFlowAck \/ OnErr
           \/ OnCommitAck

\* _reportErr reads ctx->errHandler after the unlock.
Report ==
  /\ disp = "report" /\ pc # "freed"
  /\ disp' = "idle" /\ inHand' = NoMsg
  /\ surfaced' = surfaced + (IF inHand.type \in TerminalErrs THEN 1 ELSE 0)
  /\ UNCHANGED <<ctxVars, appVars, wire, acks, live, sealed>>

Dispatcher == Dispatch \/ OnAck \/ Report

Application == Add \/ Commit \/ Tick \/ Resume \/ Destroy

\* The end of a behaviour: the context is gone.
Freed == pc = "freed" /\ UNCHANGED vars

-----------------------------------------------------------------------------
(* The open environment.                                                   *)

Env ==
  /\ wire' = wire \/ (wire # <<>> /\ wire' = Tail(wire))
  /\ acks' \in Seq(AckMsg)
  /\ UNCHANGED <<ctxVars, appVars, dispVars, histVars>>

Next == Application \/ Dispatcher \/ Env \/ Freed

Spec == Init /\ [][Next]_vars

\* Time passes, a runnable thread runs, and Close goes on to _commit.
Fairness ==
  /\ WF_vars(Tick) /\ WF_vars(Resume) /\ WF_vars(pc = "closing" /\ Commit)
  /\ WF_vars(OnAck) /\ WF_vars(Report)

FairSpec == Spec /\ Fairness

-----------------------------------------------------------------------------
(* Properties of the context alone, whatever the server sends.             *)

\* A thread sleeps in orbitCondition_TimedWait only while the condition it
\* waits for is still false: every change _onAck makes to what a wait loop
\* reads is followed by a broadcast.
NoMissedWakeup == pc \in Blocked /\ ~signalled => KeepWaiting

\* Exactly one owner for a commit ack: what _onAck allocated and no call has
\* handed to the application or destroyed is the one object in ctx->commitAck
\* (late and duplicate commit acks must not overwrite it), and none is left
\* once the context is destroyed.
CommitAckOwned ==
  /\ live = IF commitAck THEN 1 ELSE 0
  /\ pc = "freed" => live = 0

\* A terminal error is reported "exactly once": by the commit that waits, or
\* by the error handler, never by both and never twice.
PendingReports ==
  IF disp = "report" /\ inHand.type \in TerminalErrs THEN 1 ELSE 0

ReportedAtMostOnce == surfaced + PendingReports <= 1

\* The server took the oldest message on the wire.
Taken == wire # <<>> /\ wire' = Tail(wire)

\* Once closed, always closed; and then nothing of the batch is published any
\* more, by no call, not even a ping, nor by a Close that found the batch open
\* and lost the race with _onAck before it got to _commit.
SilentOnceClosed ==
  [][closed => closed' /\ (wire' = wire \/ Taken)]_vars

\* Every call that blocks or is on its way to _commit returns: its deadline is
\* one for the whole stall, whatever pings and acks happen meanwhile.
CallsReturn == pc \notin {"idle", "freed"} ~> pc = "idle"

\* A terminal error the context took note of reaches the application, unless
\* it destroys the context first.
TerminalErrorSurfaces ==
  commitErr \in TerminalErrs ~> (surfaced = 1 \/ pc = "freed")

-----------------------------------------------------------------------------
(* What the documentation says and the code does not do.                   *)

\* fast_publish.h of jsFastPublish_Commit: "On any return the context is
\* closed".
CommitCloses == ret.call = "commit" => closed

\* fast_publish.h of jsFastPublish_Destroy: "Safe to call on a context that has
\* already been committed or closed".  So no _onAck that uses the context may
\* be running when it is gone.
DestroySafeOnceClosed == pc = "freed" /\ closed => disp = "idle"

=============================================================================
