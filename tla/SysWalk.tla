------------------------------- MODULE SysWalk -------------------------------
(***************************************************************************)
(* A walk over the pages of one server, nats-sysclient/src/sysclient.c: in *)
(* one call (sysclient_walkEach), or from the page a ping fetched and in as*)
(* many calls as it takes (sysclient_walkRun).  Pages are cut by offset    *)
(* from a list that changes on the server while it is walked.              *)
(***************************************************************************)
EXTENDS Integers, SequencesExt

CONSTANTS
  Items,         \* what a server can list
  MaxLimit,      \* bound: elements in a page
  MaxSkip,       \* bound: the offset the options start at
  Timeout,       \* of each call, in ticks
  MaxChanges,    \* bound: changes of the list on the server
  MaxRuns        \* bound: calls of sysclient_walkRun

ASSUME WalkAssumption ==
  /\ MaxLimit \in Nat \ {0} /\ Timeout \in Nat \ {0}
  /\ MaxSkip \in Nat /\ MaxChanges \in Nat /\ MaxRuns \in Nat

VARIABLES
  \* the server
  items,         \* its list
  changes,       \* how often it changed
  unstable,      \* history: an element left the list, or moved in it
  \* the walk
  mode,          \* "each" or "run"
  opts,          \* the walk's copy of the options
  first,         \* walk->first: the ping's page, or NoPage
  offset, total, done,
  firstFreed,    \* history: how often the ping's page was destroyed by a run
  \* the call
  pc,            \* "idle", "first", "loop", "asked" (in the request)
  left,          \* ticks to the deadline
  runs,          \* calls so far
  ret,           \* what the last call returned, or "none"
  \* the application
  delivered,     \* the elements its handler was given
  content,       \* history: the handler has not asked to stop
  listed         \* history: length of the list when the total was read

serverVars == <<items, changes, unstable>>
walkVars   == <<mode, opts, first, offset, total, done, firstFreed>>
callVars   == <<pc, left, runs, ret>>
appVars    == <<delivered, content, listed>>
sysVars    == <<serverVars, walkVars, callVars, appVars>>

NoPage == [els |-> <<>>, total |-> -1]
Page   == [els : Seq(Items), total : Nat]

\* Offset is where the options start; paged is ops->Paged of the options.
WalkOpts == [limit : 1..MaxLimit, skip : 0..MaxSkip, paged : BOOLEAN]

Smaller(a, b) == IF a < b THEN a ELSE b

-----------------------------------------------------------------------------
(* The server (external).                                                  *)

\* What it answers at an offset.  Without paging it is asked for one element
\* by name, and gives that one at every offset.
PageAt(off) ==
  LET from == IF opts.paged THEN off ELSE 0
      to   == Smaller(Len(items), from + (IF opts.paged THEN opts.limit ELSE 1))
  IN [els |-> SubSeq(items, from + 1, to), total |-> Len(items)]

Grow ==
  /\ \E e \in Items : ~Contains(items, e) /\ items' = Append(items, e)
  /\ UNCHANGED unstable

Shrink ==
  /\ \E i \in DOMAIN items : items' = RemoveAt(items, i)
  /\ unstable' = TRUE

ServerChanges ==
  /\ changes < MaxChanges /\ changes' = changes + 1
  /\ Grow \/ Shrink
  /\ UNCHANGED <<walkVars, callVars, appVars>>

-----------------------------------------------------------------------------

WalkInit ==
  /\ items \in {s \in BoundedSeq(Items, MaxLimit + 1) : IsInjective(s)}
  /\ changes = 0 /\ unstable = FALSE
  /\ mode \in {"each", "run"} /\ opts \in WalkOpts
  /\ first = NoPage /\ offset = opts.skip /\ total = 0 /\ done = FALSE
  /\ firstFreed = 0
  /\ pc = "idle" /\ left = 0 /\ runs = 0 /\ ret = "none"
  /\ delivered = <<>> /\ content = TRUE /\ listed = 0

\* Fault: the total is left for the next page to tell.
NewWalkWithoutTotal ==
  /\ first' = PageAt(offset) /\ UNCHANGED total
  /\ listed' = Len(items)
  /\ UNCHANGED <<serverVars, mode, opts, offset, done, firstFreed, callVars,
                 delivered, content>>

\* _newWalk, on the page the server answered the ping with.
NewWalk ==
  /\ first' = PageAt(offset) /\ total' = first'.total
  /\ listed' = Len(items)
  /\ UNCHANGED <<serverVars, mode, opts, offset, done, firstFreed, callVars,
                 delivered, content>>

Return(r) == pc' = "idle" /\ ret' = r /\ UNCHANGED <<left, runs>>

\* A call gets its deadline; a finished walk returns at once.
StartCall ==
  /\ pc = "idle" /\ runs < MaxRuns /\ runs' = runs + 1
  /\ mode = "each" => runs = 0
  /\ IF done
       THEN ret' = "OK" /\ UNCHANGED <<pc, left>>
       ELSE /\ pc' = IF first # NoPage THEN "first" ELSE "loop"
            /\ left' = Timeout /\ ret' = "none"
  /\ UNCHANGED <<serverVars, walkVars, appVars>>

\* Fault: an empty page does not end the walk.
StopsAtTotal(page, more, total1, off1) ==
  ~more \/ ~opts.paged \/ off1 >= total1

\* Whether a page is the last the walk delivers.
Stops(page, more, total1, off1) ==
  ~more \/ ~opts.paged \/ page.els = <<>> \/ off1 >= total1

\* Fault: a walk that ended is not marked as done.
EndUnmarked(stop) ==
  IF stop THEN Return("OK") /\ UNCHANGED done
  ELSE pc' = "loop" /\ UNCHANGED <<left, runs, ret, done>>

\* The loop ends when a page says so; only a walk that may be run again needs
\* to remember.
End(stop) ==
  IF stop THEN Return("OK") /\ done' = (mode = "run")
  ELSE pc' = "loop" /\ UNCHANGED <<left, runs, ret, done>>

\* _deliverPage: the handler has the page for the time of its call.
DeliverPage(page, refresh) ==
  \E more \in BOOLEAN :
    /\ total' = IF refresh THEN page.total ELSE total
    /\ listed' = IF refresh THEN Len(items) ELSE listed
    /\ delivered' = delivered \o page.els
    /\ content' = (content /\ more)
    /\ offset' = offset + Len(page.els)
    /\ End(Stops(page, more, total', offset'))

\* Fault: walk->first is still set when the page is gone.
DeliverFirstKeeps ==
  /\ pc = "first"
  /\ DeliverPage(first, FALSE)
  /\ firstFreed' = firstFreed + 1
  /\ UNCHANGED <<serverVars, mode, opts, first>>

DeliverFirst ==
  /\ pc = "first"
  /\ first' = NoPage
  /\ DeliverPage(first, FALSE)
  /\ firstFreed' = firstFreed + 1
  /\ UNCHANGED <<serverVars, mode, opts>>

LoopTimesOut ==
  /\ pc = "loop" /\ left = 0
  /\ Return("TIMEOUT")
  /\ UNCHANGED <<serverVars, walkVars, appVars>>

\* sysclient_request with what is left of the time.
Ask ==
  /\ pc = "loop" /\ left > 0 /\ pc' = "asked"
  /\ UNCHANGED <<serverVars, walkVars, left, runs, ret, appVars>>

Answered ==
  /\ pc = "asked"
  /\ DeliverPage(PageAt(offset), mode = "each")
  /\ UNCHANGED <<serverVars, mode, opts, first, firstFreed>>

RequestTimesOut ==
  /\ pc = "asked" /\ left = 0
  /\ Return("TIMEOUT")
  /\ UNCHANGED <<serverVars, walkVars, appVars>>

\* No such server any more, no memory, or an answer that cannot be decoded.
RequestFails ==
  /\ pc = "asked"
  /\ Return("FAILED")
  /\ UNCHANGED <<serverVars, walkVars, appVars>>

Tick ==
  /\ pc # "idle" /\ left > 0 /\ left' = left - 1
  /\ UNCHANGED <<serverVars, walkVars, pc, runs, ret, appVars>>

\* The steps a running call takes without a clock and with answers.
CallStep == DeliverFirst \/ LoopTimesOut \/ Ask \/ Answered

WalkStep == StartCall \/ CallStep \/ RequestTimesOut \/ RequestFails

-----------------------------------------------------------------------------
(* Properties.                                                             *)

\* As long as no element left the server's list, the application has its
\* elements from the offset the walk started at, in order, none missing and
\* none twice, also across calls that timed out.
DeliveredOnce ==
  opts.paged /\ ~unstable =>
    delivered = SubSeq(items, opts.skip + 1, opts.skip + Len(delivered))

\* A walk that ends with NATS_OK because its pages say so has not left out any
\* element that was listed when its total was read.
NoneLeftOut ==
  /\ pc = "idle" /\ ret = "OK" /\ opts.paged /\ content /\ ~unstable
  => opts.skip + Len(delivered) >= listed

\* "A finished walk delivers nothing on a second run": once a call has returned
\* NATS_OK, every later one does too and leaves the application alone.
FinishedIsSilent ==
  [][ret = "OK" => UNCHANGED <<delivered, ret>>]_sysVars

\* A call whose requests are answered returns, however the list shrinks under
\* it, and without the help of its deadline.
WalkReturns == pc # "idle" ~> pc = "idle"
=============================================================================
