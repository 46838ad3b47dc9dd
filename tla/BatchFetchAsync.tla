--------------------------- MODULE BatchFetchAsync ---------------------------
(***************************************************************************)
(* jsBatchFetch_AsyncFetch: the calling thread sets a subscription up and  *)
(* sends the request; the subscription's dispatcher runs _asyncOnMsg for   *)
(* each reply and, once the subscription is closed, _asyncOnComplete.  The *)
(* connection may close between any two steps of either.  The fields of    *)
(* _asyncCtx have no mutex: the dispatcher reads what the caller writes.   *)
(***************************************************************************)
EXTENDS BatchMessages

CONSTANTS
  MaxBatch,      \* bound: messages in a server's batch
  MaxStray       \* bound: replies after the one that ends the batch

ASSUME AsyncAssumption == MaxBatch \in Nat /\ MaxStray \in Nat

VARIABLES
  \* the caller
  pc,            \* "start", "subscribed", "ready", "publishFailed",
                 \* "marked", "returned"
  ret,           \* what the call returned, or "none"
  \* _asyncCtx
  finalStatus, done, firstChecked, setupFailed,
  freed,         \* the context and its subscription are gone
  \* the subscription and the connection
  queue,         \* replies not dispatched yet
  subClosed, onComplete, connClosed,
  disp,          \* the dispatcher: "run", "release", "exited"
  \* the server
  script,        \* the replies it will send
  sent,          \* how many it did send
  requested,     \* it has the request
  \* the application
  delivered,     \* what msgCB was called with
  reports        \* the statuses doneCB was called with

caller  == <<pc, ret>>
context == <<finalStatus, done, firstChecked>>
server  == <<script, sent, requested>>
app     == <<delivered, reports>>

asyncVars == <<caller, context, setupFailed, freed, queue, subClosed,
               onComplete, connClosed, disp, server, app>>

AsyncInit ==
  /\ pc = "start" /\ ret = "none"
  /\ finalStatus = "OK" /\ done = FALSE /\ firstChecked = FALSE
  /\ setupFailed = FALSE /\ freed = FALSE
  /\ queue = <<>> /\ subClosed = FALSE /\ onComplete = FALSE
  /\ connClosed = FALSE /\ disp = "run"
  /\ script \in Scripts(MaxBatch) /\ sent = 0 /\ requested = FALSE
  /\ delivered = <<>> /\ reports = <<>>

Return(r) == pc' = "returned" /\ ret' = r
Goto(l)   == pc' = l /\ UNCHANGED ret

\* A bad argument, or no memory for the request, the inbox or the context, or
\* no subscription.
SetupFails ==
  /\ pc = "start" /\ Return("FAILED")
  /\ UNCHANGED <<context, setupFailed, freed, queue, subClosed, onComplete,
                 connClosed, disp, server, app>>

Subscribe ==
  /\ pc = "start" /\ ~connClosed /\ Goto("subscribed")
  /\ UNCHANGED <<context, setupFailed, freed, queue, subClosed, onComplete,
                 connClosed, disp, server, app>>

SetOnComplete ==
  /\ pc = "subscribed" /\ Goto("ready") /\ onComplete' = TRUE
  /\ UNCHANGED <<context, setupFailed, freed, queue, subClosed, connClosed,
                 disp, server, app>>

\* The caller still owns the context, and takes the subscription down.
SetOnCompleteFails ==
  /\ pc = "subscribed" /\ Return("FAILED")
  /\ subClosed' = TRUE /\ freed' = TRUE
  /\ UNCHANGED <<context, setupFailed, queue, onComplete, connClosed, disp,
                 server, app>>

PublishRequest ==
  /\ pc = "ready" /\ ~connClosed /\ Return("OK")
  /\ requested' = TRUE
  /\ UNCHANGED <<context, setupFailed, freed, queue, subClosed, onComplete,
                 connClosed, disp, script, sent, app>>

\* A closed connection is only one of the reasons.
PublishRequestFails ==
  /\ pc = "ready" /\ Goto("publishFailed")
  /\ UNCHANGED <<context, setupFailed, freed, queue, subClosed, onComplete,
                 connClosed, disp, server, app>>

\* Fault: the subscription is closed before the context is marked.
UnsubscribesFirst ==
  /\ pc = "publishFailed" /\ Goto("marked") /\ subClosed' = TRUE
  /\ UNCHANGED <<context, setupFailed, freed, queue, onComplete, connClosed,
                 disp, server, app>>

\* Also when the dispatcher has freed the context: the write is lost.
MarkFailed ==
  /\ pc = "publishFailed" /\ Goto("marked") /\ setupFailed' = TRUE
  /\ UNCHANGED <<context, freed, queue, subClosed, onComplete, connClosed,
                 disp, server, app>>

UnsubscribeFailed ==
  /\ pc = "marked" /\ Return("FAILED") /\ subClosed' = TRUE
  /\ UNCHANGED <<context, setupFailed, freed, queue, onComplete, connClosed,
                 disp, server, app>>

AsyncFetch == SetupFails \/ Subscribe \/ SetOnComplete \/ SetOnCompleteFails
                \/ PublishRequest \/ PublishRequestFails \/ MarkFailed
                \/ UnsubscribeFailed

-----------------------------------------------------------------------------
(* The dispatcher.                                                         *)

\* Fault: the last reply leaves the subscription open.
TerminateStaysOpen(kind) ==
  finalStatus' = KindToStatus(kind) /\ done' = TRUE /\ UNCHANGED subClosed

\* natsSubscription_Unsubscribe from the dispatcher itself.
Terminate(kind) ==
  /\ finalStatus' = KindToStatus(kind) /\ done' = TRUE /\ subClosed' = TRUE

\* Fault: the application is told at once, and again on completion.
OnMsgReports(m) ==
  IF done THEN UNCHANGED <<context, subClosed, app>>
  ELSE LET kind == Classify(m, ~firstChecked)
       IN /\ firstChecked' = TRUE
          /\ IF kind = "data"
               THEN delivered' = Append(delivered, m)
                      /\ UNCHANGED <<finalStatus, done, subClosed, reports>>
               ELSE /\ Terminate(kind) /\ UNCHANGED delivered
                    /\ reports' = Append(reports, KindToStatus(kind))

\* _asyncOnMsg
OnMsg(m) ==
  IF done THEN UNCHANGED <<context, subClosed, app>>
  ELSE LET kind == Classify(m, ~firstChecked)
       IN /\ firstChecked' = TRUE
          /\ IF kind = "data"
               THEN delivered' = Append(delivered, m)
                      /\ UNCHANGED <<finalStatus, done, subClosed>>
               ELSE Terminate(kind) /\ UNCHANGED delivered
          /\ UNCHANGED reports

\* A reply may still be dispatched after the subscription was closed.
Deliver ==
  /\ disp = "run" /\ queue # <<>>
  /\ queue' = Tail(queue)
  /\ OnMsg(Head(queue))
  /\ UNCHANGED <<caller, setupFailed, freed, onComplete, connClosed, disp,
                 server>>

\* Fault: a fetch that a closed connection ended has its initial status.
StatusAtEndUnset == finalStatus

\* What _asyncOnComplete reports.
StatusAtEnd == IF done THEN finalStatus ELSE "CONNECTION_CLOSED"

\* The dispatcher is through with the subscription: _asyncOnComplete up to the
\* end of doneCB, if it was set in time.
OnCompletion ==
  /\ disp = "run" /\ subClosed
  /\ queue' = <<>>
  /\ IF onComplete
       THEN /\ disp' = "release"
            /\ IF setupFailed
                 THEN UNCHANGED <<finalStatus, reports>>
                 ELSE /\ finalStatus' = StatusAtEnd
                      /\ reports' = Append(reports, StatusAtEnd)
       ELSE disp' = "exited" /\ UNCHANGED <<finalStatus, reports>>
  /\ UNCHANGED <<caller, done, firstChecked, setupFailed, freed, subClosed,
                 onComplete, connClosed, server, delivered>>

\* _asyncOnComplete destroys the subscription and frees the context.
Release ==
  /\ disp = "release" /\ disp' = "exited" /\ freed' = TRUE
  /\ UNCHANGED <<caller, context, setupFailed, queue, subClosed, onComplete,
                 connClosed, server, app>>

Dispatch == Deliver \/ OnCompletion \/ Release

-----------------------------------------------------------------------------
(* The server and the connection.                                          *)

Send(m) ==
  /\ requested /\ ~subClosed
  /\ queue' = Append(queue, m) /\ sent' = sent + 1
  /\ UNCHANGED <<caller, context, setupFailed, freed, subClosed, onComplete,
                 connClosed, disp, script, requested, app>>

Answer == sent < Len(script) /\ Send(script[sent + 1])

\* One more reply after the last, as another responder would send.
Stray ==
  /\ Len(script) <= sent /\ sent < Len(script) + MaxStray
  /\ \E m \in Stored \cup Errors : Send(m)

\* A closed connection closes its subscriptions.
CloseConnection ==
  /\ ~connClosed /\ connClosed' = TRUE
  /\ subClosed' = (subClosed \/ pc # "start")
  /\ UNCHANGED <<caller, context, setupFailed, freed, queue, onComplete, disp,
                 server, app>>

AsyncDone ==
  /\ pc = "returned"
  /\ disp = "exited" \/ ~requested
  /\ UNCHANGED asyncVars

AsyncNext == AsyncFetch \/ Dispatch \/ Answer \/ Stray \/ CloseConnection
               \/ AsyncDone

AsyncSpec ==
  /\ AsyncInit /\ [][AsyncNext]_asyncVars
  /\ WF_asyncVars(AsyncFetch) /\ WF_asyncVars(Dispatch)
  /\ WF_asyncVars(Answer)

-----------------------------------------------------------------------------
(* Properties.                                                             *)

\* doneCB is the last the application hears of a fetch: no second doneCB, and
\* no msgCB after it, although replies may still be in the queue.
SilentAfterDone == [][reports # <<>> => UNCHANGED app]_asyncVars

\* What doneCB says is so: NATS_OK is the whole batch, delivered in order and
\* without the replies that are not part of it; NATS_CONNECTION_CLOSED is a
\* closed connection; and in any case what was delivered is a first part.
DoneSound ==
  /\ IsPrefix(delivered, Batch(script))
  /\ reports # <<>> =>
       CASE reports[1] = "OK" -> /\ Complete(script)
                                 /\ delivered = Batch(script)
         [] reports[1] = "CONNECTION_CLOSED" -> connClosed
         [] OTHER -> ~Complete(script) \/ ~Supported(script)

\* A fetch whose request was sent ends: the server ends its batch, or the
\* connection closes, and either way doneCB is called.
FetchEnds == ret = "OK" ~> reports # <<>>

\* A call that failed while the connection stayed open never calls doneCB: the
\* context is marked before the subscription that completes it is closed.
FailedSilentWhileOpen == ret = "FAILED" /\ ~connClosed => reports = <<>>

\* batch_fetch.c, at the failed PublishRequest: "OnComplete owns ctx now; it
\* must not call doneCB for a failed setup."
FailedSetupSilent == ret = "FAILED" => reports = <<>>
=============================================================================
