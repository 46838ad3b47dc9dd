----------------------------- MODULE RequestMany -----------------------------
(***************************************************************************)
(* The gathering loop of nats-extra/src/requestmany.c: one request, many   *)
(* replies, and the first of four reasons to stop: a number of replies, a  *)
(* reply the sentinel recognises, a time without replies, the deadline.    *)
(*                                                                         *)
(* Replies arrive in the subscription's queue at any time; the clock may   *)
(* move between any two steps of the caller, so its waits are late as often*)
(* as not.  Time is counted in ticks from the start of the call.           *)
(***************************************************************************)
EXTENDS Integers, Sequences

CONSTANTS
  Msgs,            \* the replies that can arrive
  Stops(_, _),     \* the sentinel: the reply, and how many it saw before
  OptSet,          \* values of natsRequestManyOpts
  DefaultTimeout, MaxTimeout,
  MaxReplies,      \* bound: replies that arrive
  MaxLate          \* bound: how far the clock runs beyond the deadline

\* A timeout of 0 is the default, a stall or count of 0 disables it.
Opts == [stall : Nat, count : Nat, sentinel : BOOLEAN, timeout : Nat]

ASSUME GatherAssumption ==
  /\ OptSet \subseteq Opts
  /\ DefaultTimeout \in Nat \ {0} /\ MaxTimeout \in Nat \ {0}
  /\ MaxReplies \in Nat /\ MaxLate \in Nat

VARIABLES
  opts,
  pc,            \* "start", "loop", "wait" (in NextMsg), "done"
  now, deadline,
  wakeAt,        \* when NextMsg times out
  stallBound,
  list,          \* list->Msgs
  count,         \* replies to go, if opts->Count > 0
  inbox,         \* replies in the subscription's queue
  status,        \* what the call returned
  arrived,       \* history: replies that came, each with its time
  destroyed      \* history: replies destroyed by the loop

gatherVars == <<opts, pc, now, deadline, wakeAt, stallBound, list, count,
                inbox, status, arrived, destroyed>>

Arrival == [msg : Msgs, at : Nat]

Statuses == {"OK", "TIMEOUT", "NO_MEMORY", "SETUP", "CLOSED"}

\* Every variable of the call holds a value of its C type.
GatherTypeOK ==
  /\ opts \in OptSet
  /\ pc \in {"start", "loop", "wait", "done"}
  /\ now \in Nat /\ deadline \in Nat /\ wakeAt \in Nat
  /\ stallBound \in BOOLEAN
  /\ list \in Seq(Msgs) /\ count \in Nat
  /\ inbox \in Seq(Arrival) /\ status \in Statuses
  /\ arrived \in Seq(Arrival) /\ destroyed \in Nat

GatherInit ==
  /\ opts \in OptSet
  /\ pc = "start" /\ now = 0 /\ deadline = 0 /\ wakeAt = 0
  /\ stallBound = FALSE
  /\ list = <<>> /\ count = opts.count
  /\ inbox = <<>> /\ status = "OK"
  /\ arrived = <<>> /\ destroyed = 0

\* The deadline's distance: now + timeout must not overflow.
TimeoutOf(o) ==
  LET t == IF o.timeout = 0 THEN DefaultTimeout ELSE o.timeout
  IN IF t > MaxTimeout THEN MaxTimeout ELSE t

Finish(s) ==
  /\ pc' = "done" /\ status' = s
  /\ UNCHANGED <<opts, now, deadline, wakeAt, stallBound>>

\* The inbox, the subscription, the message or its publish fails.
SetupFails ==
  /\ pc = "start"
  /\ Finish("SETUP")
  /\ UNCHANGED <<list, count, inbox, arrived, destroyed>>

Publish ==
  /\ pc = "start"
  /\ pc' = "loop" /\ deadline' = now + TimeoutOf(opts)
  /\ UNCHANGED <<opts, now, wakeAt, stallBound, list, count, inbox, status,
                 arrived, destroyed>>

LoopTimesOut ==
  /\ pc = "loop" /\ deadline - now <= 0
  /\ Finish("TIMEOUT")
  /\ UNCHANGED <<list, count, inbox, arrived, destroyed>>

\* Fault: the stall timer also runs before the first reply.
StallsFromTheStart(left) == opts.stall > 0 /\ opts.stall < left

\* Fault: the stall timer is used although the deadline comes first.
StallsBeyondDeadline(left) == opts.stall > 0 /\ list # <<>>

\* The stall timer runs from the last reply, and only if it ends first.
Stalls(left) == opts.stall > 0 /\ list # <<>> /\ opts.stall < left

Wait ==
  /\ pc = "loop" /\ deadline - now > 0
  /\ stallBound' = Stalls(deadline - now)
  /\ wakeAt' = IF stallBound' THEN now + opts.stall ELSE deadline
  /\ pc' = "wait"
  /\ UNCHANGED <<opts, now, deadline, list, count, inbox, status, arrived,
                 destroyed>>

\* NextMsg times out, with no reply but perhaps one that came too late: the
\* stall timer is a normal end, the deadline is not.
WaitExpires ==
  /\ pc = "wait" /\ now >= wakeAt
  /\ \A i \in 1..Len(inbox) : inbox[i].at >= wakeAt
  /\ Finish(IF stallBound THEN "OK" ELSE "TIMEOUT")
  /\ UNCHANGED <<list, count, inbox, arrived, destroyed>>

\* NextMsg fails otherwise: the connection or the subscription is closed.
WaitFails ==
  /\ pc = "wait"
  /\ Finish("CLOSED")
  /\ UNCHANGED <<list, count, inbox, arrived, destroyed>>

\* What NextMsg returns when a reply is there.
Next1 == Head(inbox).msg
TakeOne == pc = "wait" /\ inbox # <<>> /\ inbox' = Tail(inbox)

Recognised == opts.sentinel /\ Stops(Next1, Len(list))

SentinelStops ==
  /\ TakeOne /\ Recognised
  /\ destroyed' = destroyed + 1
  /\ Finish("OK")
  /\ UNCHANGED <<list, count, arrived>>

\* Fault: the loop goes on without the reply it could not keep.
AppendFailsAndGoesOn ==
  /\ TakeOne /\ ~Recognised
  /\ destroyed' = destroyed + 1
  /\ pc' = "loop"
  /\ UNCHANGED <<opts, now, deadline, wakeAt, stallBound, list, count, status,
                 arrived>>

AppendFails ==
  /\ TakeOne /\ ~Recognised
  /\ destroyed' = destroyed + 1
  /\ Finish("NO_MEMORY")
  /\ UNCHANGED <<list, count, arrived>>

\* Fault: the count is compared before it is decremented.
KeepOneMore ==
  /\ TakeOne /\ ~Recognised
  /\ list' = Append(list, Next1)
  /\ count' = IF count > 0 THEN count - 1 ELSE 0
  /\ IF opts.count > 0 /\ count = 0
       THEN Finish("OK")
       ELSE /\ pc' = "loop"
            /\ UNCHANGED <<opts, now, deadline, wakeAt, stallBound, status>>
  /\ UNCHANGED <<arrived, destroyed>>

\* Fault: the count is decremented when it is not in use.
KeepCountsAlways ==
  /\ TakeOne /\ ~Recognised
  /\ list' = Append(list, Next1)
  /\ count' = count - 1
  /\ IF count = 1
       THEN Finish("OK")
       ELSE /\ pc' = "loop"
            /\ UNCHANGED <<opts, now, deadline, wakeAt, stallBound, status>>
  /\ UNCHANGED <<arrived, destroyed>>

Keep ==
  /\ TakeOne /\ ~Recognised
  /\ list' = Append(list, Next1)
  /\ count' = IF count > 0 THEN count - 1 ELSE 0
  /\ IF count = 1
       THEN Finish("OK")
       ELSE /\ pc' = "loop"
            /\ UNCHANGED <<opts, now, deadline, wakeAt, stallBound, status>>
  /\ UNCHANGED <<arrived, destroyed>>

Caller == SetupFails \/ Publish \/ LoopTimesOut \/ Wait \/ WaitExpires
            \/ WaitFails \/ SentinelStops \/ AppendFails \/ Keep

Tick ==
  /\ pc \in {"loop", "wait"} /\ now < deadline + MaxLate
  /\ now' = now + 1
  /\ UNCHANGED <<opts, pc, deadline, wakeAt, stallBound, list, count, inbox,
                 status, arrived, destroyed>>

Arrive(m) ==
  /\ pc \in {"loop", "wait"} /\ Len(arrived) < MaxReplies
  /\ LET a == [msg |-> m, at |-> now]
     IN inbox' = Append(inbox, a) /\ arrived' = Append(arrived, a)
  /\ UNCHANGED <<opts, pc, now, deadline, wakeAt, stallBound, list, count,
                 status, destroyed>>

\* The call has returned.
Returned == pc = "done" /\ UNCHANGED gatherVars

GatherNext == Caller \/ Tick \/ (\E m \in Msgs : Arrive(m)) \/ Returned

GatherSpec == GatherInit /\ [][GatherNext]_gatherVars

-----------------------------------------------------------------------------
(* Properties.                                                             *)

\* The list is the replies in the order they came, none left out, none twice;
\* a reply that is neither in it nor waiting was destroyed, and it is the one
\* the call ended with.
ListInOrder ==
  /\ Len(list) + destroyed + Len(inbox) = Len(arrived)
  /\ \A i \in 1..Len(list) : list[i] = arrived[i].msg
  /\ \A i \in 1..Len(inbox) : inbox[i] = arrived[Len(list) + destroyed + i]
  /\ destroyed = 0 \/ (destroyed = 1 /\ pc = "done")

\* The call never waits past the deadline, even when the stall time is longer
\* than what is left of it.
WaitsWithinDeadline == pc = "wait" => wakeAt <= deadline

\* The three reasons to stop.  A stall is one only after a first reply.
CountReached    == opts.count > 0 /\ Len(list) = opts.count
SentinelReached == /\ opts.sentinel /\ destroyed = 1
                   /\ Stops(arrived[Len(list) + 1].msg, Len(list))
Quiet == /\ opts.stall > 0 /\ list # <<>> /\ now >= wakeAt
         /\ wakeAt - opts.stall >= arrived[Len(list)].at
         /\ \A i \in 1..Len(inbox) : inbox[i].at >= wakeAt

\* NATS_OK is "natural completion": exactly as many replies as asked for, the
\* sentinel recognised the reply after the list, or no reply came before a
\* stall time had passed since the last one was taken.
OkMeansStopped ==
  pc = "done" /\ status = "OK" => CountReached \/ SentinelReached \/ Quiet

\* NATS_TIMEOUT is "no stop condition was reached": the deadline has passed,
\* and the partial list holds neither too many replies nor a recognised one.
TimeoutMeansDeadline ==
  pc = "done" /\ status = "TIMEOUT" =>
    /\ now >= deadline /\ destroyed = 0
    /\ opts.count > 0 => Len(list) < opts.count
    /\ opts.sentinel => \A i \in 1..Len(list) : ~Stops(list[i], i - 1)
=============================================================================
