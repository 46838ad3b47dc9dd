-------------------------- MODULE RequestManyProofs --------------------------
(***************************************************************************)
(* Proofs about the gathering loop, for any options, any sentinel and any  *)
(* replies at any time.                                                    *)
(***************************************************************************)
EXTENDS RequestMany, TLAPS

-----------------------------------------------------------------------------
(* The inductive invariant.                                                *)

Running == pc # "done"

\* What is left to count, while the call runs.
CountInv ==
  Running => /\ opts.count = 0 => count = 0
             /\ opts.count > 0 => count = opts.count - Len(list) /\ count > 0

\* No recognised reply is in the list.
SentinelInv ==
  opts.sentinel => \A i \in 1..Len(list) : ~Stops(list[i], i - 1)

\* A wait that the stall time bounds is at least that long, and began after
\* the last reply in the list came; any other wait lasts until the deadline.
StallInv ==
  pc = "wait" =>
    IF stallBound
      THEN /\ opts.stall > 0 /\ list # <<>>
           /\ wakeAt - opts.stall >= arrived[Len(list)].at
      ELSE wakeAt = deadline

\* No reply came later than now.
TimeInv == \A i \in 1..Len(arrived) : arrived[i].at <= now

GatherInv ==
  /\ GatherTypeOK /\ ListInOrder /\ WaitsWithinDeadline
  /\ CountInv /\ SentinelInv /\ StallInv /\ TimeInv
  /\ OkMeansStopped /\ TimeoutMeansDeadline

-----------------------------------------------------------------------------
(* Type correctness.                                                       *)

\* A reply appended to a sequence of replies, or one taken off its head.
LEMMA SeqSteps ==
  ASSUME NEW S, NEW q \in Seq(S)
  PROVE  /\ \A e \in S : Append(q, e) \in Seq(S)
         /\ q # <<>> => Tail(q) \in Seq(S) /\ Head(q) \in S
OBVIOUS

\* The deadline is a time.
LEMMA TimeoutOfType ==
  ASSUME NEW o \in Opts
  PROVE  TimeoutOf(o) \in Nat
BY GatherAssumption DEF TimeoutOf, Opts

\* What NextMsg returns is a reply, and the others stay replies.
LEMMA TakeOneType ==
  ASSUME GatherTypeOK, TakeOne
  PROVE  Next1 \in Msgs /\ inbox' \in Seq(Arrival)
<1>1. Head(inbox) \in Arrival /\ Tail(inbox) \in Seq(Arrival)
  BY SeqSteps DEF GatherTypeOK, TakeOne
<1> QED
  BY <1>1 DEF TakeOne, Next1, Arrival

\* A call that returns keeps its types.
LEMMA FinishType ==
  ASSUME GatherTypeOK, NEW s \in Statuses, Finish(s),
         list' \in Seq(Msgs), count' \in Nat, inbox' \in Seq(Arrival),
         UNCHANGED arrived, destroyed' \in Nat
  PROVE  GatherTypeOK'
BY DEF GatherTypeOK, Finish

\* The call starts with values of their types.
LEMMA TypeInit ==
  ASSUME GatherInit
  PROVE  GatherTypeOK
<1>1. opts \in Opts
  BY GatherAssumption DEF GatherInit
<1>2. opts.count \in Nat
  BY <1>1 DEF Opts
<1>3. <<>> \in Seq(Msgs) /\ <<>> \in Seq(Arrival)
  OBVIOUS
<1> QED
  BY <1>2, <1>3 DEF GatherInit, GatherTypeOK, Statuses

\* Every step keeps the types.
LEMMA TypeNext ==
  ASSUME GatherTypeOK, [GatherNext]_gatherVars
  PROVE  GatherTypeOK'
<1>0. opts \in Opts
  BY GatherAssumption DEF GatherTypeOK
<1>1. CASE SetupFails
  BY <1>1, FinishType DEF SetupFails, Statuses, GatherTypeOK
<1>2. CASE Publish
  <2>1. deadline' \in Nat
    BY <1>0, <1>2, TimeoutOfType DEF Publish, GatherTypeOK
  <2> QED
    BY <1>2, <2>1 DEF Publish, GatherTypeOK
<1>3. CASE LoopTimesOut
  BY <1>3, FinishType DEF LoopTimesOut, Statuses, GatherTypeOK
<1>4. CASE Wait
  <2>1. wakeAt' \in Nat
    BY <1>0, <1>4 DEF Wait, GatherTypeOK, Opts
  <2>2. stallBound' \in BOOLEAN
    BY <1>4 DEF Wait, Stalls
  <2> QED
    BY <1>4, <2>1, <2>2 DEF Wait, GatherTypeOK
<1>5. CASE WaitExpires
  BY <1>5, FinishType DEF WaitExpires, Statuses, GatherTypeOK
<1>6. CASE WaitFails
  BY <1>6, FinishType DEF WaitFails, Statuses, GatherTypeOK
<1>7. CASE SentinelStops
  BY <1>7, FinishType, TakeOneType DEF SentinelStops, Statuses, GatherTypeOK
<1>8. CASE AppendFails
  BY <1>8, FinishType, TakeOneType DEF AppendFails, Statuses, GatherTypeOK
<1>9. CASE Keep
  <2>1. list' \in Seq(Msgs)
    BY <1>9, TakeOneType, SeqSteps DEF Keep, GatherTypeOK
  <2>2. count' \in Nat
    BY <1>9 DEF Keep, GatherTypeOK
  <2>3. CASE count = 1
    BY <1>9, <2>1, <2>2, <2>3, FinishType, TakeOneType
       DEF Keep, Statuses, GatherTypeOK
  <2>4. CASE count # 1
    BY <1>9, <2>1, <2>2, <2>4, TakeOneType DEF Keep, GatherTypeOK
  <2> QED
    BY <2>3, <2>4
<1>10. CASE Tick
  BY <1>10 DEF Tick, GatherTypeOK
<1>11. CASE \E m \in Msgs : Arrive(m)
  <2>1. PICK m \in Msgs : Arrive(m)
    BY <1>11
  <2>2. [msg |-> m, at |-> now] \in Arrival
    BY DEF Arrival, GatherTypeOK
  <2>3. inbox' \in Seq(Arrival) /\ arrived' \in Seq(Arrival)
    BY <2>1, <2>2, SeqSteps DEF Arrive, GatherTypeOK
  <2> QED
    BY <2>1, <2>3 DEF Arrive, GatherTypeOK
<1>12. CASE UNCHANGED gatherVars
  BY <1>12 DEF gatherVars, GatherTypeOK
<1> QED
  BY <1>1, <1>2, <1>3, <1>4, <1>5, <1>6, <1>7, <1>8, <1>9, <1>10, <1>11,
     <1>12 DEF GatherNext, Caller, Returned

-----------------------------------------------------------------------------
(* Order of the list.                                                      *)

\* One more reply in all and one more in the queue.
LEMMA OneMore ==
  ASSUME NEW l \in Nat, NEW d \in Nat, NEW q \in Nat, l + d + q \in Nat
  PROVE  l + d + (q + 1) = (l + d + q) + 1
OBVIOUS

\* A step that leaves the queues alone, and only may end the call.
LEMMA OrderKept ==
  ASSUME ListInOrder, UNCHANGED <<list, destroyed, inbox, arrived>>,
         pc' = pc \/ pc' = "done" \/ pc # "done"
  PROVE  ListInOrder'
BY DEF ListInOrder

\* Every step keeps the list in the order of arrival, and loses no reply.
LEMMA OrderNext ==
  ASSUME GatherTypeOK, ListInOrder, [GatherNext]_gatherVars
  PROVE  ListInOrder'
<1> USE DEF GatherTypeOK
<1>1. CASE UNCHANGED <<list, destroyed, inbox, arrived>>
  <2>1. pc' = pc \/ pc' = "done" \/ pc # "done"
    BY <1>1 DEF GatherNext, Caller, SetupFails, Publish, LoopTimesOut, Wait,
         WaitExpires, WaitFails, SentinelStops, AppendFails, Keep, Tick,
         Arrive, Returned, gatherVars, TakeOne
  <2> QED
    BY <1>1, <2>1, OrderKept
<1>2. CASE TakeOne
  <2>1. /\ Len(inbox') = Len(inbox) - 1
        /\ \A i \in 1..Len(inbox') : inbox'[i] = inbox[i + 1]
        /\ Next1 = arrived[Len(list) + destroyed + 1].msg
        /\ destroyed = 0
    BY <1>2 DEF TakeOne, ListInOrder, Next1
  <2>2. CASE SentinelStops \/ AppendFails
    <3>1. /\ destroyed' = 1 /\ pc' = "done" /\ UNCHANGED <<list, arrived>>
      BY <2>1, <2>2 DEF SentinelStops, AppendFails, Finish
    <3> QED
      BY <2>1, <3>1 DEF ListInOrder
  <2>3. CASE Keep
    <3>1. /\ list' = Append(list, Next1) /\ UNCHANGED <<arrived, destroyed>>
      BY <2>3 DEF Keep
    <3>2. Next1 \in Msgs
      BY <1>2, TakeOneType
    <3>3. /\ Len(list') = Len(list) + 1 /\ list'[Len(list) + 1] = Next1
          /\ \A i \in 1..Len(list) : list'[i] = list[i]
      BY <3>1, <3>2
    <3>4. \A i \in 1..Len(list') : list'[i] = arrived'[i].msg
      BY <2>1, <3>1, <3>3 DEF ListInOrder
    <3>5. Len(list') + destroyed' + Len(inbox') = Len(arrived')
      BY <2>1, <3>1, <3>3 DEF ListInOrder
    <3>6. \A i \in 1..Len(inbox') :
             inbox'[i] = arrived'[Len(list') + destroyed' + i]
      BY <2>1, <3>1, <3>3 DEF ListInOrder
    <3> QED
      BY <2>1, <3>1, <3>4, <3>5, <3>6 DEF ListInOrder
  <2>4. inbox' # inbox
    BY <2>1
  <2>5. ASSUME NEW m \in Msgs, Arrive(m) PROVE FALSE
    BY <1>2, <2>1, <2>5 DEF Arrive
  <2> QED
    BY <2>2, <2>3, <2>4, <2>5 DEF GatherNext, Caller, SetupFails, Publish,
       LoopTimesOut, Wait, WaitExpires, WaitFails, Tick, Returned, gatherVars
<1>3. CASE \E m \in Msgs : Arrive(m)
  <2>1. PICK m \in Msgs : Arrive(m)
    BY <1>3
  <2> DEFINE a == [msg |-> m, at |-> now]
  <2>2. a \in Arrival
    BY DEF Arrival
  <2>3. /\ inbox' = Append(inbox, a) /\ arrived' = Append(arrived, a)
        /\ UNCHANGED <<pc, list, destroyed>> /\ pc # "done"
    BY <2>1 DEF Arrive
  <2> HIDE DEF a
  <2>4. /\ Len(arrived') = Len(arrived) + 1 /\ arrived'[Len(arrived) + 1] = a
        /\ \A i \in 1..Len(arrived) : arrived'[i] = arrived[i]
        /\ Len(inbox') = Len(inbox) + 1 /\ inbox'[Len(inbox) + 1] = a
        /\ \A i \in 1..Len(inbox) : inbox'[i] = inbox[i]
    BY <2>2, <2>3
  <2>5. /\ Len(list) + destroyed + Len(inbox) = Len(arrived)
        /\ Len(list) \in Nat /\ destroyed \in Nat
        /\ Len(inbox) \in Nat /\ Len(arrived) \in Nat
    BY DEF ListInOrder
  <2>6. \A i \in 1..Len(list') : list'[i] = arrived'[i].msg
    BY <2>3, <2>4 DEF ListInOrder
  <2>7. ASSUME NEW i \in 1..Len(inbox')
        PROVE  inbox'[i] = arrived'[Len(list) + destroyed + i]
    <3>1. CASE i <= Len(inbox)
      <4>1. /\ i \in 1..Len(inbox)
            /\ Len(list) + destroyed + i \in 1..Len(arrived)
        BY <3>1 DEF ListInOrder
      <4> QED
        BY <2>4, <4>1 DEF ListInOrder
    <3>2. CASE i = Len(inbox) + 1
      <4>1. Len(list) + destroyed + i = Len(arrived) + 1
        BY <2>5, <3>2
      <4> QED
        BY <2>4, <3>2, <4>1
    <3> QED
      BY <2>4, <3>1, <3>2
  <2>8. Len(list) + destroyed + Len(inbox') = Len(arrived')
    <3>1. /\ Len(inbox') = Len(inbox) + 1
          /\ Len(arrived') = Len(arrived) + 1
      BY <2>4
    <3>2. Len(list) + destroyed + Len(inbox')
            = Len(list) + destroyed + (Len(inbox) + 1)
      BY <3>1
    <3>3. Len(list) + destroyed + (Len(inbox) + 1) = Len(arrived) + 1
      BY <2>5, OneMore
    <3> QED
      BY <3>1, <3>2, <3>3
  <2>9. list' = list /\ destroyed' = destroyed /\ pc' = pc
    BY <2>3
  <2> QED
    BY <2>6, <2>7, <2>8, <2>9 DEF ListInOrder
<1> QED
  BY <1>1, <1>2, <1>3 DEF GatherNext, Caller, SetupFails, Publish,
     LoopTimesOut, Wait, WaitExpires, WaitFails, SentinelStops, AppendFails,
     Keep, Tick, Returned, gatherVars

-----------------------------------------------------------------------------
(* The other parts of the invariant.                                       *)

\* What Keep does to the list.
LEMMA KeepList ==
  ASSUME GatherTypeOK, Keep
  PROVE  /\ Len(list') = Len(list) + 1 /\ list'[Len(list) + 1] = Next1
         /\ \A i \in 1..Len(list) : list'[i] = list[i]
<1>1. list' = Append(list, Next1) /\ TakeOne
  BY DEF Keep
<1>2. Next1 \in Msgs /\ list \in Seq(Msgs)
  BY <1>1, TakeOneType DEF GatherTypeOK
<1> QED
  BY <1>1, <1>2

\* The reply taken is the one that came after those in the list.
LEMMA NextInOrder ==
  ASSUME GatherTypeOK, ListInOrder, TakeOne
  PROVE  Next1 = arrived[Len(list) + 1].msg /\ destroyed = 0
BY DEF GatherTypeOK, ListInOrder, TakeOne, Next1

\* Replies come no later than now.
LEMMA TimeNext ==
  ASSUME GatherTypeOK, TimeInv, [GatherNext]_gatherVars
  PROVE  TimeInv'
<1>1. CASE UNCHANGED <<now, arrived>>
  BY <1>1 DEF TimeInv
<1>2. CASE Tick
  <2>1. ASSUME NEW i \in 1..Len(arrived) PROVE arrived[i].at <= now + 1
    <3>1. arrived[i] \in Arrival
      BY DEF GatherTypeOK
    <3>2. arrived[i].at \in Nat
      BY <3>1 DEF Arrival
    <3>3. arrived[i].at <= now
      BY DEF TimeInv
    <3> QED
      BY <3>2, <3>3 DEF GatherTypeOK
  <2> QED
    BY <1>2, <2>1 DEF Tick, TimeInv
<1>3. CASE \E m \in Msgs : Arrive(m)
  <2>1. PICK m \in Msgs : Arrive(m)
    BY <1>3
  <2> DEFINE a == [msg |-> m, at |-> now]
  <2>2. a \in Arrival /\ a.at = now
    BY DEF Arrival, GatherTypeOK
  <2>3. arrived' = Append(arrived, a) /\ now' = now
    BY <2>1 DEF Arrive
  <2> HIDE DEF a
  <2>4. /\ Len(arrived') = Len(arrived) + 1 /\ arrived'[Len(arrived) + 1] = a
        /\ \A i \in 1..Len(arrived) : arrived'[i] = arrived[i]
    BY <2>2, <2>3 DEF GatherTypeOK
  <2>5. ASSUME NEW i \in 1..Len(arrived') PROVE arrived'[i].at <= now
    <3>1. CASE i \in 1..Len(arrived)
      BY <2>4, <3>1 DEF TimeInv
    <3>2. CASE i = Len(arrived) + 1
      BY <2>2, <2>4, <3>2 DEF GatherTypeOK
    <3> QED
      BY <2>4, <3>1, <3>2
  <2> QED
    BY <2>3, <2>5 DEF TimeInv
<1> QED
  BY <1>1, <1>2, <1>3 DEF GatherNext, Caller, SetupFails, Publish,
     LoopTimesOut, Wait, WaitExpires, WaitFails, SentinelStops, AppendFails,
     Keep, Finish, Returned, gatherVars

\* The count is what is left of opts->Count.
LEMMA CountNext ==
  ASSUME GatherTypeOK, CountInv, [GatherNext]_gatherVars
  PROVE  CountInv'
<1> USE DEF CountInv, Running
<1>0. opts.count \in Nat
  BY GatherAssumption DEF GatherTypeOK, Opts
<1>1. CASE pc' = "done"
  BY <1>1
<1>2. CASE UNCHANGED <<opts, list, count>> /\ (pc' # "done" => pc # "done")
  BY <1>2
<1>3. CASE Keep /\ pc' # "done"
  <2>1. count # 1 /\ UNCHANGED opts /\ pc # "done"
    BY <1>3 DEF Keep, Finish, TakeOne
  <2>2. count' = IF count > 0 THEN count - 1 ELSE 0
    BY <1>3 DEF Keep
  <2>3. Len(list') = Len(list) + 1 /\ Len(list) \in Nat /\ count \in Nat
    BY <1>3, KeepList DEF GatherTypeOK
  <2> QED
    BY <1>0, <2>1, <2>2, <2>3
<1> QED
  BY <1>1, <1>2, <1>3 DEF GatherNext, Caller, SetupFails, Publish,
     LoopTimesOut, Wait, WaitExpires, WaitFails, SentinelStops, AppendFails,
     TakeOne, Finish, Tick, Arrive, Returned, gatherVars

\* The sentinel sees a reply before the list does.
LEMMA SentinelNext ==
  ASSUME GatherTypeOK, SentinelInv, [GatherNext]_gatherVars
  PROVE  SentinelInv'
<1>1. CASE UNCHANGED <<opts, list>>
  BY <1>1 DEF SentinelInv
<1>2. CASE Keep
  <2>1. ASSUME NEW i \in 1..Len(list'), opts.sentinel
        PROVE  ~Stops(list'[i], i - 1)
    <3>1. CASE i \in 1..Len(list)
      BY <1>2, <2>1, <3>1, KeepList DEF SentinelInv
    <3>2. CASE i = Len(list) + 1
      <4>1. ~Stops(Next1, Len(list))
        BY <1>2, <2>1 DEF Keep, Recognised
      <4>2. i - 1 = Len(list) /\ list'[i] = Next1
        BY <1>2, <3>2, KeepList DEF GatherTypeOK
      <4> QED
        BY <4>1, <4>2
    <3> QED
      BY <1>2, <3>1, <3>2, KeepList DEF GatherTypeOK
  <2>2. opts' = opts
    BY <1>2 DEF Keep, Finish
  <2> QED
    BY <2>1, <2>2 DEF SentinelInv
<1> QED
  BY <1>1, <1>2 DEF GatherNext, Caller, SetupFails, Publish, LoopTimesOut,
     Wait, WaitExpires, WaitFails, SentinelStops, AppendFails, Finish, Tick,
     Arrive, Returned, gatherVars

\* A wait ends by the deadline; one that the stall time bounds began after the
\* last reply in the list came.
LEMMA WaitNext ==
  ASSUME GatherTypeOK, ListInOrder, TimeInv, WaitsWithinDeadline, StallInv,
         [GatherNext]_gatherVars
  PROVE  WaitsWithinDeadline' /\ StallInv'
<1> USE DEF WaitsWithinDeadline, StallInv
<1>1. CASE pc' # "wait"
  BY <1>1
<1>2. CASE Wait
  <2>1. opts.stall \in Nat /\ now \in Nat /\ deadline \in Nat
    BY GatherAssumption DEF GatherTypeOK, Opts
  <2>2. UNCHANGED <<opts, deadline, list, arrived>>
    BY <1>2 DEF Wait
  <2>3. CASE stallBound'
    <3>1. /\ opts.stall > 0 /\ list # <<>> /\ opts.stall < deadline - now
          /\ wakeAt' = now + opts.stall
      BY <1>2, <2>3 DEF Wait, Stalls
    <3>2. wakeAt' <= deadline /\ wakeAt' - opts.stall = now
      BY <2>1, <3>1
    <3>3. Len(list) \in 1..Len(arrived)
      BY <3>1 DEF ListInOrder, GatherTypeOK
    <3>4. arrived[Len(list)].at <= now
      BY <3>3 DEF TimeInv
    <3>5. arrived[Len(list)].at \in Nat
      <4>1. arrived[Len(list)] \in Arrival
        BY <3>3 DEF GatherTypeOK
      <4> QED
        BY <4>1 DEF Arrival
    <3>6. wakeAt' - opts.stall >= arrived[Len(list)].at
      BY <2>1, <3>2, <3>4, <3>5
    <3> QED
      BY <2>2, <2>3, <3>1, <3>2, <3>6
  <2>4. CASE ~stallBound'
    <3>1. wakeAt' = deadline
      BY <1>2, <2>4 DEF Wait
    <3> QED
      BY <2>1, <2>2, <2>4, <3>1
  <2> QED
    BY <2>3, <2>4
<1>3. CASE /\ UNCHANGED <<opts, pc, deadline, wakeAt, stallBound, list>>
           /\ UNCHANGED arrived
  BY <1>3
<1>4. CASE pc = "wait" /\ \E m \in Msgs : Arrive(m)
  <2>1. PICK m \in Msgs : Arrive(m)
    BY <1>4
  <2>2. UNCHANGED <<opts, pc, deadline, wakeAt, stallBound, list>>
    BY <2>1 DEF Arrive
  <2>3. CASE stallBound
    <3>1. Len(list) \in 1..Len(arrived)
      BY <1>4, <2>3 DEF ListInOrder, GatherTypeOK
    <3>2. arrived' = Append(arrived, [msg |-> m, at |-> now])
      BY <2>1 DEF Arrive
    <3>3. arrived'[Len(list)] = arrived[Len(list)]
      BY <3>1, <3>2 DEF GatherTypeOK
    <3> QED
      BY <1>4, <2>2, <3>3
  <2>4. CASE ~stallBound
    BY <1>4, <2>2, <2>4
  <2> QED
    BY <2>3, <2>4 DEF GatherTypeOK
<1> QED
  BY <1>1, <1>2, <1>3, <1>4 DEF GatherNext, Caller, SetupFails, Publish,
     LoopTimesOut, WaitExpires, WaitFails, SentinelStops, AppendFails, Keep,
     Finish, Tick, Arrive, Returned, gatherVars

\* A call that returns NATS_OK has met a stop condition.
LEMMA OkNext ==
  ASSUME GatherTypeOK, ListInOrder, CountInv, StallInv, OkMeansStopped,
         [GatherNext]_gatherVars
  PROVE  OkMeansStopped'
<1> USE DEF OkMeansStopped
<1>1. CASE pc' # "done" \/ status' # "OK"
  BY <1>1
<1>2. CASE UNCHANGED gatherVars
  BY <1>2 DEF gatherVars, CountReached, SentinelReached, Quiet
<1>3. CASE WaitExpires /\ stallBound
  <2>1. Quiet
    BY <1>3 DEF WaitExpires, StallInv, Quiet
  <2>2. UNCHANGED <<opts, now, wakeAt, list, arrived, inbox>>
    BY <1>3 DEF WaitExpires, Finish
  <2> QED
    BY <2>1, <2>2 DEF Quiet
<1>4. CASE SentinelStops
  <2>1. Next1 = arrived[Len(list) + 1].msg /\ destroyed = 0
    BY <1>4, NextInOrder DEF SentinelStops
  <2>2. UNCHANGED <<opts, list, arrived>> /\ destroyed' = 1
    BY <1>4, <2>1 DEF SentinelStops, Finish
  <2>3. opts.sentinel /\ Stops(arrived[Len(list) + 1].msg, Len(list))
    BY <1>4, <2>1 DEF SentinelStops, Recognised
  <2> QED
    BY <2>2, <2>3 DEF SentinelReached
<1>5. CASE Keep /\ count = 1
  <2>1. opts.count \in Nat /\ pc # "done" /\ opts' = opts
    BY <1>5, GatherAssumption DEF GatherTypeOK, Opts, Keep, TakeOne, Finish
  <2>2. opts.count > 0 /\ opts.count = Len(list) + 1
    BY <1>5, <2>1 DEF CountInv, Running, GatherTypeOK
  <2> QED
    BY <1>5, <2>1, <2>2, KeepList DEF CountReached
<1> QED
  BY <1>1, <1>2, <1>3, <1>4, <1>5 DEF GatherNext, Caller, SetupFails,
     Publish, LoopTimesOut, Wait, WaitExpires, WaitFails, AppendFails, Keep,
     TakeOne, Finish, Tick, Arrive, Returned

\* A call that returns NATS_TIMEOUT has met none, and its deadline is over.
LEMMA TimeoutNext ==
  ASSUME GatherTypeOK, ListInOrder, CountInv, StallInv, SentinelInv,
         TimeoutMeansDeadline, [GatherNext]_gatherVars
  PROVE  TimeoutMeansDeadline'
<1> USE DEF TimeoutMeansDeadline
<1>1. CASE pc' # "done" \/ status' # "TIMEOUT"
  BY <1>1
<1>2. CASE UNCHANGED gatherVars
  BY <1>2 DEF gatherVars
<1>3. CASE LoopTimesOut \/ (WaitExpires /\ ~stallBound)
  <2>1. pc # "done" /\ UNCHANGED <<opts, now, deadline, list, destroyed>>
    BY <1>3 DEF LoopTimesOut, WaitExpires, Finish
  <2>2. now >= deadline
    BY <1>3 DEF LoopTimesOut, WaitExpires, StallInv, GatherTypeOK
  <2>3. destroyed = 0
    BY <2>1 DEF ListInOrder
  <2>4. opts.count > 0 => Len(list) < opts.count
    <3>1. opts.count \in Nat
      BY GatherAssumption DEF GatherTypeOK, Opts
    <3> QED
      BY <2>1, <3>1 DEF CountInv, Running, GatherTypeOK
  <2> QED
    BY <2>1, <2>2, <2>3, <2>4 DEF SentinelInv
<1> QED
  BY <1>1, <1>2, <1>3 DEF GatherNext, Caller, SetupFails, Publish, Wait,
     WaitExpires, WaitFails, SentinelStops, AppendFails, Keep, TakeOne,
     Finish, Tick, Arrive, Returned

-----------------------------------------------------------------------------
(* The theorems.                                                           *)

\* The loop keeps its invariant.
THEOREM GatherInvariant == GatherSpec => []GatherInv
<1>1. GatherInit => GatherInv
  <2> SUFFICES ASSUME GatherInit PROVE GatherInv
    OBVIOUS
  <2>1. opts \in Opts
    BY GatherAssumption DEF GatherInit
  <2>2. opts.count \in Nat
    BY <2>1 DEF Opts
  <2>3. GatherTypeOK
    BY TypeInit
  <2>4. ListInOrder
    BY DEF GatherInit, ListInOrder
  <2>5. CountInv
    BY <2>2 DEF GatherInit, CountInv, Running
  <2> QED
    BY <2>3, <2>4, <2>5 DEF GatherInit, GatherInv, WaitsWithinDeadline,
       SentinelInv, StallInv, TimeInv, OkMeansStopped, TimeoutMeansDeadline
<1>2. GatherInv /\ [GatherNext]_gatherVars => GatherInv'
  BY TypeNext, OrderNext, TimeNext, CountNext, SentinelNext, WaitNext, OkNext,
     TimeoutNext DEF GatherInv
<1> QED
  BY <1>1, <1>2, PTL DEF GatherSpec

\* The variables of the call hold values of their C types.
THEOREM GatherTypes == GatherSpec => []GatherTypeOK
BY GatherInvariant, PTL DEF GatherInv

\* The list is the replies in the order they came, and none is lost.
THEOREM GatherKeepsOrder == GatherSpec => []ListInOrder
BY GatherInvariant, PTL DEF GatherInv

\* No wait of the loop goes beyond the deadline.
THEOREM GatherKeepsDeadline == GatherSpec => []WaitsWithinDeadline
BY GatherInvariant, PTL DEF GatherInv

\* NATS_OK means a stop condition was met.
THEOREM GatherOkIsCompletion == GatherSpec => []OkMeansStopped
BY GatherInvariant, PTL DEF GatherInv

\* NATS_TIMEOUT means that none was, and that the deadline is over.
THEOREM GatherTimeoutIsDeadline == GatherSpec => []TimeoutMeansDeadline
BY GatherInvariant, PTL DEF GatherInv
=============================================================================
