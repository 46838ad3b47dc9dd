------------------------ MODULE BatchFetchAsyncProofs ------------------------
(***************************************************************************)
(* Proofs about the asynchronous fetch: what the application hears of it,  *)
(* for batches of any length, any number of stray replies and a connection *)
(* that closes at any time.                                                *)
(***************************************************************************)
EXTENDS BatchFetchAsync, TLAPS

-----------------------------------------------------------------------------
(* The inductive invariant of the setup.                                   *)

\* doneCB is called when the dispatcher is through.
ReportsAtEnd == disp = "run" => reports = <<>>

\* How far the caller is tells what was done: the context is marked before the
\* subscription is closed, and only a sent request is answered.
CallerInv ==
  /\ ret # "none" => pc = "returned"
  /\ requested => ret = "OK"
  /\ pc = "marked" => setupFailed
  /\ onComplete => pc \notin {"start", "subscribed"}
  /\ pc \in {"ready", "publishFailed", "marked"} => onComplete
  /\ queue # <<>> \/ done => requested

\* Why a subscription is closed whose connection is open.
ClosedFor == ~connClosed /\ subClosed =>
  done \/ setupFailed \/ (~onComplete /\ pc = "returned")

\* A report means an end of the batch, or a closed connection.
ReportedFor == reports # <<>> => done \/ connClosed

SetupInv == ReportsAtEnd /\ CallerInv /\ ClosedFor /\ ReportedFor

\* Nothing is done yet.
LEMMA SetupInit == AsyncInit => SetupInv
BY DEF AsyncInit, SetupInv, ReportsAtEnd, CallerInv, ClosedFor, ReportedFor

\* Every step of the caller, the dispatcher, the server and the connection keeps it.
LEMMA SetupNext == SetupInv /\ [AsyncNext]_asyncVars => SetupInv'
<1> SUFFICES ASSUME SetupInv, [AsyncNext]_asyncVars
             PROVE  SetupInv'
  OBVIOUS
<1> USE DEF SetupInv, ReportsAtEnd, CallerInv, ClosedFor, ReportedFor
<1>1. CASE SetupFails
  BY <1>1 DEF SetupFails, Return, context, server, app
<1>2. CASE Subscribe
  BY <1>2 DEF Subscribe, Goto, context, server, app
<1>3. CASE SetOnComplete
  BY <1>3 DEF SetOnComplete, Goto, context, server, app
<1>4. CASE SetOnCompleteFails
  BY <1>4 DEF SetOnCompleteFails, Return, context, server, app
<1>5. CASE PublishRequest
  BY <1>5 DEF PublishRequest, Return, context, app
<1>6. CASE PublishRequestFails
  BY <1>6 DEF PublishRequestFails, Goto, context, server, app
<1>7. CASE MarkFailed
  BY <1>7 DEF MarkFailed, Goto, context, server, app
<1>8. CASE UnsubscribeFailed
  BY <1>8 DEF UnsubscribeFailed, Return, context, server, app
<1>9. CASE Deliver
  <2>1. requested /\ UNCHANGED <<pc, ret, setupFailed, onComplete, connClosed, disp, requested, reports>>
    BY <1>9 DEF Deliver, OnMsg, Terminate, caller, context, server, app
  <2>2. (done' /\ UNCHANGED connClosed) \/ UNCHANGED <<done, subClosed>>
    BY <1>9 DEF Deliver, OnMsg, Terminate, context, app
  <2> QED
    BY <2>1, <2>2, <1>9 DEF Deliver, OnMsg, Terminate
<1>10. CASE OnCompletion
  <2>1. UNCHANGED <<pc, ret, done, setupFailed, subClosed, onComplete, connClosed, requested>>
    BY <1>10 DEF OnCompletion, caller, server
  <2>2. queue' = <<>> /\ disp' # "run"
    BY <1>10 DEF OnCompletion
  <2>3. reports' # <<>> => done \/ connClosed
    BY <1>10 DEF OnCompletion
  <2> QED
    BY <2>1, <2>2, <2>3
<1>11. CASE Release
  BY <1>11 DEF Release, caller, context, server, app
<1>12. CASE Answer \/ Stray
  <2>1. requested /\ UNCHANGED <<pc, ret, done, setupFailed, subClosed, onComplete, connClosed, disp,
                                 requested, reports>>
    BY <1>12 DEF Answer, Stray, Send, caller, context, app
  <2> QED
    BY <2>1
<1>13. CASE CloseConnection
  BY <1>13 DEF CloseConnection, caller, context, server, app
<1>14. CASE UNCHANGED asyncVars
  BY <1>14 DEF asyncVars, caller, context, server, app
<1> QED
  BY <1>1, <1>2, <1>3, <1>4, <1>5, <1>6, <1>7, <1>8, <1>9, <1>10, <1>11, <1>12, <1>13, <1>14
  DEF AsyncNext, AsyncFetch, Dispatch, AsyncDone

\* The setup part of the invariant holds throughout.
LEMMA SetupInvariant == AsyncSpec => []SetupInv
BY SetupInit, SetupNext, PTL DEF AsyncSpec

\* A call that failed while the connection stayed open never calls doneCB:
\* UnsubscribeFailed comes after MarkFailed, and nothing else closes the
\* subscription of a request that was not sent.
THEOREM FailedIsSilentWhileOpen == AsyncSpec => []FailedSilentWhileOpen
<1>1. SetupInv => FailedSilentWhileOpen
  BY DEF SetupInv, CallerInv, ReportedFor, FailedSilentWhileOpen
<1> QED
  BY <1>1, SetupInvariant, PTL

\* doneCB is the last the application hears of a fetch: the dispatcher calls
\* _asyncOnComplete once, and _asyncOnMsg never after it.
THEOREM DoneIsLast == AsyncSpec => SilentAfterDone
<1>1. SetupInv /\ [AsyncNext]_asyncVars => [reports # <<>> => UNCHANGED app]_asyncVars
  <2> SUFFICES ASSUME SetupInv, AsyncNext, reports # <<>>
               PROVE  UNCHANGED app
    OBVIOUS
  <2>1. disp # "run"
    BY DEF SetupInv, ReportsAtEnd
  <2>2. CASE AsyncFetch
    BY <2>2 DEF AsyncFetch, SetupFails, Subscribe, SetOnComplete, SetOnCompleteFails,
       PublishRequest, PublishRequestFails, MarkFailed, UnsubscribeFailed
  <2>3. CASE Dispatch
    BY <2>1, <2>3 DEF Dispatch, Deliver, OnCompletion, Release
  <2>4. CASE Answer \/ Stray \/ CloseConnection \/ AsyncDone
    BY <2>4 DEF Answer, Stray, Send, CloseConnection, AsyncDone, asyncVars
  <2> QED
    BY <2>2, <2>3, <2>4 DEF AsyncNext
<1> QED
  BY <1>1, SetupInvariant, PTL DEF AsyncSpec, SilentAfterDone

-----------------------------------------------------------------------------
(* What a server sends.                                                    *)

\* What a server sends are replies.
LEMMA SentReplies == Stored \cup BatchEnds \cup Errors \cup Legacy \subseteq Reply
<1>1. Stored \subseteq Reply /\ Legacy \subseteq Reply
  BY DEF Stored, Legacy, Reply, Headers
<1>2. ASSUME NEW st \in {"none", "EOB"} \cup ErrorStatuses, NEW h \in SUBSET Headers
      PROVE  Bare(st, h) \in Reply
  BY DEF Bare, Reply
<1>3. {} \in SUBSET Headers /\ {"Nats-Num-Pending", "Nats-UpTo-Sequence"} \in SUBSET Headers
  BY DEF Headers
<1> QED
  BY <1>1, <1>2, <1>3 DEF Errors, BatchEnds

\* A script is the messages of a batch and one reply that ends it.
LEMMA ScriptShape ==
  ASSUME NEW s \in Scripts(MaxBatch)
  PROVE  /\ s \in Seq(Reply) /\ Len(s) \in Nat /\ Len(s) >= 1
         /\ \A i \in 1..(Len(s) - 1) : s[i] \in Stored
         /\ \/ s[Len(s)] \in BatchEnds \cup Errors
            \/ Len(s) = 1 /\ s[1] \in Legacy
<1>1. ASSUME NEW m \in Legacy, s = <<m>>
      PROVE  s \in Seq(Reply) /\ Len(s) = 1 /\ s[1] \in Legacy
  BY SentReplies, <1>1
<1>2. ASSUME NEW b \in BoundedSeq(Stored, MaxBatch),
             NEW e \in BatchEnds \cup Errors, s = Append(b, e)
      PROVE  /\ s \in Seq(Reply) /\ Len(s) \in Nat /\ Len(s) >= 1 /\ s[Len(s)] = e
             /\ \A i \in 1..(Len(s) - 1) : s[i] \in Stored
  <2>1. b \in Seq(Stored)
    BY <1>2, AsyncAssumption DEF BoundedSeq, SeqOf
  <2>2. b \in Seq(Reply) /\ e \in Reply
    BY SentReplies, <2>1
  <2> QED
    BY <1>2, <2>1, <2>2
<1>3. CASE \E m \in Legacy : s = <<m>>
  BY <1>1, <1>3
<1>4. CASE \E b \in BoundedSeq(Stored, MaxBatch), e \in BatchEnds \cup Errors : s = Append(b, e)
  BY <1>2, <1>4
<1> QED
  BY <1>3, <1>4 DEF Scripts

\* What _classify makes of it.
LEMMA Kinds ==
  /\ \A m \in Stored, f \in BOOLEAN : Classify(m, f) = "data"
  /\ \A m \in BatchEnds, f \in BOOLEAN : Classify(m, f) = "EOB"
  /\ \A m \in Errors, f \in BOOLEAN :
       Classify(m, f) \in ErrorStatuses /\ m \notin BatchEnds
  /\ \A m \in Legacy : Classify(m, TRUE) = "unsupported" /\ m \notin BatchEnds
<1>1. \A m \in Stored, f \in BOOLEAN : Classify(m, f) = "data"
  BY DEF Stored, Classify, ErrorStatuses
<1>2. \A m \in BatchEnds, f \in BOOLEAN : Classify(m, f) = "EOB"
  BY DEF BatchEnds, Bare, Classify, ErrorStatuses
<1>3. \A m \in Errors, f \in BOOLEAN : Classify(m, f) \in ErrorStatuses /\ m \notin BatchEnds
  BY DEF Errors, Bare, BatchEnds, Classify, ErrorStatuses
<1>4. \A m \in Legacy : Classify(m, TRUE) = "unsupported" /\ m \notin BatchEnds
  BY DEF Legacy, Bare, BatchEnds, Classify, ErrorStatuses
<1> QED
  BY <1>1, <1>2, <1>3, <1>4

-----------------------------------------------------------------------------
(* The inductive invariant of the delivery.                                *)

DeliveryTypes ==
  /\ script \in Scripts(MaxBatch) /\ sent \in Nat
  /\ queue \in Seq(Reply) /\ delivered \in Seq(Reply)
  /\ done \in BOOLEAN /\ firstChecked \in BOOLEAN

\* While the batch has not ended, what was sent is delivered or in the queue, and
\* as far as the script goes it is in the script's order.
Streamed == ~done /\ disp = "run" =>
  /\ Len(delivered) + Len(queue) = sent
  /\ \A i \in 1..Len(queue) :
       Len(delivered) + i <= Len(script) => queue[i] = script[Len(delivered) + i]
  /\ firstChecked <=> delivered # <<>>

\* What ends the batch is not delivered.
FirstPart ==
  /\ Len(delivered) < Len(script)
  /\ \A i \in 1..Len(delivered) : delivered[i] = script[i]

\* The status is that of the reply that ended the batch.
EndSound == done =>
  \/ finalStatus = "OK" /\ Complete(script) /\ Len(delivered) = Len(script) - 1
  \/ /\ finalStatus \notin {"OK", "CONNECTION_CLOSED"}
     /\ ~Complete(script) \/ ~Supported(script)

ReportSound == reports # <<>> =>
  \/ done /\ reports[1] = finalStatus
  \/ connClosed /\ reports[1] = "CONNECTION_CLOSED"

DeliveryInv == DeliveryTypes /\ Streamed /\ FirstPart /\ EndSound /\ ReportSound

LEMMA DeliveryInit == AsyncInit => DeliveryInv
<1> SUFFICES ASSUME AsyncInit PROVE DeliveryInv
  OBVIOUS
<1>1. script \in Scripts(MaxBatch) /\ Len(script) \in Nat /\ Len(script) >= 1
  BY ScriptShape DEF AsyncInit
<1>2. /\ delivered = <<>> /\ queue = <<>> /\ sent = 0 /\ reports = <<>>
      /\ done = FALSE /\ firstChecked = FALSE
  BY DEF AsyncInit
<1>3. <<>> \in Seq(Reply) /\ Len(<<>>) = 0
  OBVIOUS
<1>4. DeliveryTypes
  BY <1>1, <1>2, <1>3 DEF DeliveryTypes
<1>5. Streamed
  BY <1>2 DEF Streamed
<1>6. FirstPart
  BY <1>1, <1>2 DEF FirstPart
<1> QED
  BY <1>2, <1>4, <1>5, <1>6 DEF DeliveryInv, EndSound, ReportSound

\* A step that leaves the delivery alone.
LEMMA DeliveryKept ==
  ASSUME DeliveryInv, connClosed => connClosed',
         UNCHANGED <<finalStatus, done, firstChecked, queue, disp, script, sent, delivered, reports>>
  PROVE  DeliveryInv'
BY DEF DeliveryInv, DeliveryTypes, Streamed, FirstPart, EndSound, ReportSound, Complete, Supported

\* _asyncOnMsg: the next reply of the script.
LEMMA DeliveryDeliver == DeliveryInv /\ SetupInv /\ Deliver => DeliveryInv'
<1> SUFFICES ASSUME DeliveryInv, SetupInv, Deliver PROVE DeliveryInv'
  OBVIOUS
<1> DEFINE m == Head(queue)
           p == Len(delivered) + 1
<1>1. /\ disp = "run" /\ queue # <<>> /\ queue' = Tail(queue) /\ OnMsg(m)
      /\ UNCHANGED <<disp, script, sent, connClosed>> /\ reports = <<>>
  BY DEF Deliver, server, SetupInv, ReportsAtEnd
<1>2. DeliveryTypes /\ Streamed /\ FirstPart /\ EndSound
  BY DEF DeliveryInv
<1>3. queue' \in Seq(Reply) /\ m = queue[1] /\ Len(queue) >= 1 /\ Len(queue') = Len(queue) - 1
      /\ \A i \in 1..Len(queue') : queue'[i] = queue[i + 1]
  BY <1>1, <1>2 DEF DeliveryTypes
<1>4. CASE done
  <2>1. UNCHANGED <<finalStatus, done, firstChecked, delivered, reports>>
    BY <1>1, <1>4 DEF OnMsg, context, app
  <2> QED
    BY <2>1, <1>1, <1>2, <1>3, <1>4
    DEF DeliveryInv, DeliveryTypes, Streamed, FirstPart, EndSound, ReportSound, Complete, Supported
<1>5. CASE ~done
  <2> DEFINE kind == Classify(m, ~firstChecked)
  <2>1. p \in 1..Len(script) /\ m = script[p] /\ (firstChecked <=> delivered # <<>>)
    BY <1>1, <1>2, <1>3, <1>5, ScriptShape DEF DeliveryTypes, Streamed, FirstPart
  <2>2. firstChecked' = TRUE /\ UNCHANGED reports
    BY <1>1, <1>5 DEF OnMsg
  <2>3. CASE p < Len(script)
    <3>1. kind = "data"
      <4>1. script[p] \in Stored
        BY <2>1, <2>3, <1>2, ScriptShape DEF DeliveryTypes
      <4>2. (~firstChecked) \in BOOLEAN
        OBVIOUS
      <4> QED
        BY <4>1, <4>2, <2>1, Kinds
    <3>2. delivered' = Append(delivered, m) /\ UNCHANGED <<finalStatus, done>>
      BY <1>1, <1>5, <3>1 DEF OnMsg
    <3>3. m \in Reply
      BY <1>3, <1>2 DEF DeliveryTypes
    <3>4. /\ delivered' \in Seq(Reply) /\ Len(delivered') = p /\ delivered' # <<>>
          /\ \A i \in 1..p : delivered'[i] = IF i = p THEN m ELSE delivered[i]
      BY <3>2, <3>3, <1>2 DEF DeliveryTypes
    <3>5. FirstPart'
      BY <3>4, <2>1, <2>3, <1>1, <1>2 DEF FirstPart, DeliveryTypes
    <3>6. Streamed'
      <4>1. Len(delivered) + Len(queue) = sent
            /\ \A i \in 1..Len(queue) :
                 Len(delivered) + i <= Len(script) => queue[i] = script[Len(delivered) + i]
        BY <1>1, <1>2, <1>5 DEF Streamed
      <4>2. Len(queue) \in Nat /\ Len(delivered) \in Nat /\ Len(script) \in Nat
        BY <1>2, ScriptShape DEF DeliveryTypes
      <4>3. Len(delivered') + Len(queue') = sent'
        BY <4>1, <4>2, <3>4, <1>1, <1>3
      <4>4. ASSUME NEW i \in 1..Len(queue'), Len(delivered') + i <= Len(script')
            PROVE  queue'[i] = script'[Len(delivered') + i]
        <5>1. i + 1 \in 1..Len(queue) /\ Len(delivered) + (i + 1) = Len(delivered') + i
          BY <4>2, <4>4, <3>4, <1>3
        <5> QED
          BY <5>1, <4>1, <4>4, <1>1, <1>3
      <4> QED
        BY <4>3, <4>4, <3>4, <2>2 DEF Streamed
    <3> QED
      BY <3>2, <3>4, <3>5, <3>6, <2>2, <1>1, <1>2, <1>3, <1>5
      DEF DeliveryInv, DeliveryTypes, EndSound, ReportSound
  <2>4. CASE p = Len(script)
    <3>1. kind # "data" /\
          \/ kind = "EOB" /\ m \in BatchEnds
          \/ kind \in ErrorStatuses /\ m \notin BatchEnds
          \/ kind = "unsupported" /\ script[1] \in Legacy
      <4>1. CASE m \in BatchEnds \cup Errors
        BY <4>1, <1>2, Kinds DEF DeliveryTypes, ErrorStatuses
      <4>2. CASE Len(script) = 1 /\ script[1] \in Legacy
        <5>1. delivered = <<>>
          BY <4>2, <2>4, <1>2 DEF DeliveryTypes
        <5> QED
          BY <5>1, <4>2, <2>1, <2>4, Kinds
      <4> QED
        BY <4>1, <4>2, <2>1, <2>4, <1>2, ScriptShape DEF DeliveryTypes
    <3>2. done' = TRUE /\ finalStatus' = KindToStatus(kind) /\ UNCHANGED delivered
      BY <1>1, <1>5, <3>1 DEF OnMsg, Terminate
    <3>3. \/ finalStatus' = "OK" /\ m \in BatchEnds
          \/ /\ finalStatus' \notin {"OK", "CONNECTION_CLOSED"}
             /\ m \notin BatchEnds \/ script[1] \in Legacy
      BY <3>1, <3>2 DEF KindToStatus, ErrorStatuses
    <3>4. EndSound'
      BY <3>2, <3>3, <2>1, <2>4, <1>1, <1>2, ScriptShape
      DEF EndSound, Complete, Supported, Last, DeliveryTypes
    <3> QED
      BY <3>2, <3>4, <2>2, <1>1, <1>2, <1>3
      DEF DeliveryInv, DeliveryTypes, Streamed, FirstPart, ReportSound
  <2> QED
    BY <2>1, <2>3, <2>4
<1> QED
  BY <1>2, <1>4, <1>5 DEF DeliveryTypes

\* _asyncOnComplete: a subscription that is closed before the batch ended, and
\* not by the caller, was closed by the connection.
LEMMA DeliveryCompletion == DeliveryInv /\ SetupInv /\ OnCompletion => DeliveryInv'
<1> SUFFICES ASSUME DeliveryInv, SetupInv, OnCompletion PROVE DeliveryInv'
  OBVIOUS
<1>1. /\ disp = "run" /\ reports = <<>> /\ subClosed /\ disp' # "run" /\ queue' = <<>>
      /\ UNCHANGED <<done, firstChecked, connClosed, script, sent, delivered>>
  BY DEF OnCompletion, server, SetupInv, ReportsAtEnd
<1>2. DeliveryTypes /\ FirstPart /\ EndSound
  BY DEF DeliveryInv
<1>3. DeliveryTypes' /\ Streamed' /\ FirstPart'
  <2>1. <<>> \in Seq(Reply)
    OBVIOUS
  <2> QED
    BY <1>1, <1>2, <2>1 DEF DeliveryTypes, Streamed, FirstPart
<1>4. CASE ~onComplete \/ setupFailed
  <2>1. UNCHANGED <<finalStatus, reports>>
    BY <1>4 DEF OnCompletion
  <2> QED
    BY <1>1, <1>2, <1>3, <2>1
    DEF DeliveryInv, DeliveryTypes, EndSound, ReportSound, Complete, Supported
<1>5. CASE onComplete /\ ~setupFailed
  <2>1. finalStatus' = StatusAtEnd /\ reports' = Append(reports, StatusAtEnd)
    BY <1>5 DEF OnCompletion
  <2>2. reports' = <<StatusAtEnd>> /\ reports'[1] = StatusAtEnd
    BY <1>1, <2>1
  <2>3. CASE done
    BY <1>1, <1>2, <1>3, <2>1, <2>2, <2>3
    DEF DeliveryInv, DeliveryTypes, StatusAtEnd, EndSound, ReportSound, Complete, Supported
  <2>4. CASE ~done
    <3>1. connClosed
      BY <1>1, <1>5, <2>4 DEF SetupInv, ClosedFor
    <3>2. StatusAtEnd = "CONNECTION_CLOSED"
      BY <2>4 DEF StatusAtEnd
    <3>3. EndSound' /\ ReportSound'
      BY <1>1, <2>2, <2>4, <3>1, <3>2 DEF EndSound, ReportSound
    <3> QED
      BY <1>3, <3>3 DEF DeliveryInv
  <2> QED
    BY <2>3, <2>4
<1> QED
  BY <1>4, <1>5

\* The server sends the next reply of its script, or one more after the last.
LEMMA DeliverySend ==
  ASSUME DeliveryInv, NEW m \in Reply, Send(m),
         sent < Len(script) => m = script[sent + 1]
  PROVE  DeliveryInv'
<1>1. /\ queue' = Append(queue, m) /\ sent' = sent + 1
      /\ UNCHANGED <<finalStatus, done, firstChecked, connClosed, disp, script, delivered, reports>>
  BY DEF Send, context, app
<1>2. DeliveryTypes /\ Streamed /\ FirstPart /\ EndSound /\ ReportSound
  BY DEF DeliveryInv
<1>3. /\ queue' \in Seq(Reply) /\ Len(queue') = Len(queue) + 1 /\ Len(queue) \in Nat
      /\ \A i \in 1..Len(queue') : queue'[i] = IF i = Len(queue') THEN m ELSE queue[i]
  BY <1>1, <1>2 DEF DeliveryTypes
<1>4. Streamed'
  <2>1. CASE done \/ disp # "run"
    BY <1>1, <2>1 DEF Streamed
  <2>2. CASE ~done /\ disp = "run"
    <3>1. Len(delivered) + Len(queue) = sent
          /\ \A i \in 1..Len(queue) :
               Len(delivered) + i <= Len(script) => queue[i] = script[Len(delivered) + i]
      BY <1>2, <2>2 DEF Streamed
    <3>2. Len(delivered) \in Nat /\ Len(script) \in Nat
      BY <1>2, ScriptShape DEF DeliveryTypes
    <3>3. ASSUME NEW i \in 1..Len(queue'), Len(delivered) + i <= Len(script)
          PROVE  queue'[i] = script[Len(delivered) + i]
      <4>1. CASE i = Len(queue')
        <5>1. Len(delivered) + i = sent + 1 /\ sent < Len(script)
          BY <1>3, <3>1, <3>2, <3>3, <4>1
        <5> QED
          BY <5>1, <4>1, <1>3
      <4>2. CASE i # Len(queue')
        <5>1. i \in 1..Len(queue)
          BY <1>3, <4>2
        <5> QED
          BY <5>1, <4>2, <1>3, <3>1, <3>3
      <4> QED
        BY <4>1, <4>2
    <3> QED
      BY <3>1, <3>2, <3>3, <1>1, <1>2, <1>3, <2>2 DEF Streamed
  <2> QED
    BY <2>1, <2>2
<1> QED
  BY <1>1, <1>2, <1>3, <1>4
  DEF DeliveryInv, DeliveryTypes, FirstPart, EndSound, ReportSound, Complete, Supported

LEMMA DeliveryNext ==
  DeliveryInv /\ SetupInv /\ [AsyncNext]_asyncVars => DeliveryInv'
<1> SUFFICES ASSUME DeliveryInv, SetupInv, [AsyncNext]_asyncVars PROVE DeliveryInv'
  OBVIOUS
<1>1. CASE AsyncFetch
  <2>1. UNCHANGED <<finalStatus, done, firstChecked, queue, connClosed, disp, script, sent,
                    delivered, reports>>
    BY <1>1 DEF AsyncFetch, SetupFails, Subscribe, SetOnComplete, SetOnCompleteFails,
       PublishRequest, PublishRequestFails, MarkFailed, UnsubscribeFailed, context, server, app
  <2> QED
    BY <2>1, DeliveryKept
<1>2. CASE Deliver
  BY <1>2, DeliveryDeliver
<1>3. CASE OnCompletion
  BY <1>3, DeliveryCompletion
<1>4. CASE Answer
  <2>1. script \in Scripts(MaxBatch) /\ sent \in Nat
    BY DEF DeliveryInv, DeliveryTypes
  <2>2. sent + 1 \in 1..Len(script) /\ script \in Seq(Reply)
    BY <1>4, <2>1, ScriptShape DEF Answer
  <2>3. script[sent + 1] \in Reply
    BY <2>2
  <2> QED
    BY <1>4, <2>3, DeliverySend DEF Answer
<1>5. CASE Stray
  <2>1. script \in Scripts(MaxBatch) /\ sent \in Nat
    BY DEF DeliveryInv, DeliveryTypes
  <2>2. ~(sent < Len(script))
    BY <1>5, <2>1, ScriptShape DEF Stray
  <2>3. PICK m \in Stored \cup Errors : Send(m)
    BY <1>5 DEF Stray
  <2>4. m \in Reply
    BY SentReplies
  <2> QED
    BY <2>2, <2>3, <2>4, DeliverySend
<1>6. CASE Release \/ CloseConnection \/ UNCHANGED asyncVars
  <2>1. /\ connClosed => connClosed'
        /\ UNCHANGED <<finalStatus, done, firstChecked, queue, script, sent, delivered, reports>>
    BY <1>6 DEF Release, CloseConnection, asyncVars, context, server, app
  <2>2. CASE UNCHANGED disp
    BY <2>1, <2>2, DeliveryKept
  <2>3. CASE disp' = "exited"
    BY <2>1, <2>3
    DEF DeliveryInv, DeliveryTypes, Streamed, FirstPart, EndSound, ReportSound, Complete, Supported
  <2> QED
    BY <2>2, <2>3, <1>6 DEF Release, CloseConnection, asyncVars
<1> QED
  BY <1>1, <1>2, <1>3, <1>4, <1>5, <1>6 DEF AsyncNext, Dispatch, AsyncDone

\* What doneCB says is so, for a batch of any length: the status is that of the
\* reply that ended the batch, or of a closed connection, and NATS_OK comes with
\* every message of the batch (_asyncOnMsg, _asyncOnComplete).
THEOREM DoneIsSound == AsyncSpec => []DoneSound
<1>1. DeliveryInv => DoneSound
  <2> SUFFICES ASSUME DeliveryInv PROVE DoneSound
    OBVIOUS
  <2>1. DeliveryTypes /\ FirstPart /\ EndSound /\ ReportSound
    BY DEF DeliveryInv
  <2>2. /\ script \in Seq(Reply) /\ delivered \in Seq(Reply) /\ Len(script) \in Nat
        /\ Len(script) >= 1 /\ Len(delivered) \in Nat
    BY <2>1, ScriptShape DEF DeliveryTypes
  <2>3. /\ Batch(script) \in Seq(Reply) /\ Len(Batch(script)) = Len(script) - 1
        /\ \A i \in 1..(Len(script) - 1) : Batch(script)[i] = script[i]
    <3>1. SubSeq(script, 1, Len(script) - 1) \in Seq(Reply)
      BY <2>2
    <3>2. Len(SubSeq(script, 1, Len(script) - 1)) = Len(script) - 1
      <4> DEFINE n == Len(script) - 1
      <4>1. n \in Nat /\ n <= Len(script)
        BY <2>2
      <4> HIDE DEF n
      <4>2. Len(SubSeq(script, 1, n)) = n
        BY <2>2, <4>1
      <4> QED
        BY <4>2 DEF n
    <3>3. \A i \in 1..(Len(script) - 1) : SubSeq(script, 1, Len(script) - 1)[i] = script[i]
      BY <2>2
    <3> QED
      BY <3>1, <3>2, <3>3 DEF Batch, Front
  <2>4. Len(delivered) <= Len(Batch(script))
        /\ \A i \in 1..Len(delivered) : delivered[i] = Batch(script)[i]
    BY <2>1, <2>2, <2>3 DEF FirstPart
  <2>5. IsPrefix(delivered, Batch(script))
    BY <2>2, <2>3, <2>4 DEF IsPrefix
  <2>6. Len(delivered) = Len(script) - 1 => delivered = Batch(script)
    BY <2>2, <2>3, <2>4
  <2> QED
    BY <2>1, <2>5, <2>6 DEF DoneSound, EndSound, ReportSound
<1> QED
  BY <1>1, DeliveryInit, DeliveryNext, SetupInvariant, PTL DEF AsyncSpec
=============================================================================
