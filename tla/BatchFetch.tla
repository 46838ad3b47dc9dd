------------------------------ MODULE BatchFetch ------------------------------
(***************************************************************************)
(* jsBatchFetch_Fetch: the gathering loop of RequestMany with a sentinel   *)
(* that ends it at the first reply that is not a message of the batch.     *)
(* The same spec also gathers a server's replies under any other options.  *)
(***************************************************************************)
EXTENDS RequestMany, BatchMessages

CONSTANT MaxBatch     \* bound: messages in a server's batch

VARIABLES
  script,             \* the replies the server will send
  kind                \* _syncCtx.kind

fetchVars == <<gatherVars, script, kind>>

\* _syncSentinel; firstChecked is set once it has seen a reply.
SyncSentinel(m, seen) == Classify(m, seen = 0) # "data"

ASSUME FetchAssumption ==
  /\ Msgs = Reply /\ MaxBatch \in Nat
  /\ \A m \in Reply, n \in 0..MaxReplies : Stops(m, n) <=> SyncSentinel(m, n)

Fetch(o) == o.sentinel /\ o.stall = 0 /\ o.count = 0

FetchInit ==
  /\ GatherInit
  /\ script \in Scripts(MaxBatch)
  /\ kind = "data"

\* The sentinel leaves the kind of the reply it saw last.
Inspects ==
  kind' = IF opts.sentinel /\ TakeOne
            THEN Classify(Next1, list = <<>>) ELSE kind

FetchStep ==
  /\ Caller /\ Inspects
  /\ UNCHANGED script

Arrives ==
  /\ Len(arrived) < Len(script) /\ Arrive(script[Len(arrived) + 1])
  /\ UNCHANGED <<script, kind>>

FetchTick == Tick /\ UNCHANGED <<script, kind>>

FetchDone == pc = "done" /\ UNCHANGED fetchVars

FetchNext == FetchStep \/ Arrives \/ FetchTick \/ FetchDone

FetchSpec == FetchInit /\ [][FetchNext]_fetchVars

\* What jsBatchFetch_Fetch returns.
FetchStatus == IF status = "OK" THEN KindToStatus(kind) ELSE status

-----------------------------------------------------------------------------
(* Properties.                                                             *)

\* NATS_OK is the whole batch and nothing else: every message of it, those
\* without a body too, and never the message that ends it.
FetchComplete ==
  Fetch(opts) /\ pc = "done" /\ FetchStatus = "OK" =>
    Complete(script) /\ list = Batch(script)

\* Whatever the call returns, its list is a first part of the batch; a server
\* without support for batches is recognised at its first reply, so that its
\* message is not taken for one.
FetchPartial ==
  Fetch(opts) =>
    /\ IsPrefix(list, Batch(script))
    /\ pc = "done" /\ FetchStatus = "NO_SERVER_SUPPORT" <=>
         pc = "done" /\ status = "OK" /\ ~Supported(script)
=============================================================================
