-------------------------- MODULE SysPingEachProofs --------------------------
(***************************************************************************)
(* Proofs about the ping that makes walks and about the run of one of them,*)
(* for any number of servers, any list and any number of calls.            *)
(***************************************************************************)
EXTENDS SysPingEach, SysWalkProofs, FiniteSetTheorems

-----------------------------------------------------------------------------
(* The walk is not run before the ping has made it.                        *)

BeforeRun == phase \in {"decode", "adopt"} =>
  /\ mode = "run" /\ pc = "idle" /\ ret = "none" /\ delivered = <<>>
  /\ (phase = "adopt" /\ at > 1) \/ first = NoPage

PingTypes == at \in Nat /\ at >= 1

RunInv == WalkInv /\ BeforeRun /\ PingTypes

LEMMA RunInvInit == PingInit => RunInv
<1> SUFFICES ASSUME PingInit PROVE RunInv
  OBVIOUS
<1>1. WalkInv
  BY WalkInvInit DEF PingInit
<1> QED
  BY <1>1 DEF PingInit, WalkInit, RunInv, BeforeRun, PingTypes

LEMMA RunInvNext == RunInv /\ [PingNext]_allVars => RunInv'
<1> SUFFICES ASSUME RunInv, [PingNext]_allVars PROVE RunInv'
  OBVIOUS
<1>1. WalkInv /\ BeforeRun /\ PingTypes
  BY DEF RunInv
<1>2. ASSUME UNCHANGED sysVars PROVE WalkInv'
  BY <1>1, <1>2
  DEF sysVars, serverVars, walkVars, callVars, appVars, WalkInv, WalkTypes, CallInv, PartInv,
      Listed, NoneLeftOut
<1>3. CASE Decode \/ Decoded \/ DecodeFails \/ AdoptFails \/ Adopted \/ Destroy \/ UNCHANGED allVars
  <2>1. UNCHANGED sysVars
    BY <1>3 DEF Decode, Decoded, DecodeFails, AdoptFails, Adopted, Destroy, allVars
  <2>2. UNCHANGED <<mode, pc, ret, delivered, first>>
    BY <2>1 DEF sysVars, walkVars, callVars, appVars
  <2>3. BeforeRun' /\ PingTypes'
    BY <1>1, <1>3, <2>2
    DEF BeforeRun, PingTypes, Decode, Decoded, DecodeFails, AdoptFails, Adopted, Destroy, allVars, pingVars
  <2> QED
    BY <1>2, <2>1, <2>3 DEF RunInv
<1>4. CASE Adopt
  <2>1. phase = "adopt" /\ UNCHANGED phase /\ at' = at + 1
    BY <1>4 DEF Adopt
  <2>2. mode = "run" /\ pc = "idle" /\ ret = "none" /\ delivered = <<>>
    BY <1>1, <2>1 DEF BeforeRun
  <2>3. WalkInv' /\ UNCHANGED <<mode, pc, ret, delivered>>
    <3>1. CASE at = 1
      BY <1>1, <1>4, <2>2, <3>1, WalkInvNew DEF Adopt, NewWalk, callVars
    <3>2. CASE at # 1
      BY <1>2, <1>4, <3>2 DEF Adopt, sysVars, walkVars, callVars, appVars
    <3> QED
      BY <3>1, <3>2
  <2> QED
    BY <1>1, <2>1, <2>2, <2>3 DEF RunInv, BeforeRun, PingTypes
<1>5. CASE Run
  BY <1>1, <1>5, WalkInvStep DEF Run, pingVars, RunInv, BeforeRun, PingTypes
<1>6. CASE Others
  <2>1. WalkInv' /\ UNCHANGED <<phase, at>>
    BY <1>1, <1>6, WalkInvStep, WalkInvServer DEF Others, pingVars
  <2>2. CASE Tick
    BY <1>1, <2>1, <2>2 DEF Tick, RunInv, BeforeRun, PingTypes
  <2>3. CASE ServerChanges
    BY <1>1, <2>1, <2>3
    DEF ServerChanges, walkVars, callVars, appVars, RunInv, BeforeRun, PingTypes
  <2> QED
    BY <1>6, <2>2, <2>3 DEF Others
<1> QED
  BY <1>3, <1>4, <1>5, <1>6 DEF PingNext, Stopped

LEMMA RunInvariant == PingSpec => []RunInv
BY RunInvInit, RunInvNext, PTL DEF PingSpec

\* As long as the server's list only grows, the application has its elements in
\* order, none missing and none twice, across pages and calls that time out
\* (_deliverPage, sysclient_walkRun).
THEOREM WalkDeliversOnce == PingSpec => []DeliveredOnce
<1>1. WalkInv => DeliveredOnce
  <2> SUFFICES ASSUME WalkInv, opts.paged, ~unstable
               PROVE  delivered = SubSeq(items, opts.skip + 1, opts.skip + Len(delivered))
    BY DEF DeliveredOnce
  <2> DEFINE last == opts.skip + Len(delivered)
             part == SubSeq(items, opts.skip + 1, last)
  <2>1. /\ items \in Seq(Items) /\ delivered \in Seq(Items) /\ opts.skip \in Nat
        /\ Listed(delivered, opts.skip) /\ Len(delivered) \in Nat
    BY WalkAssumption DEF WalkInv, WalkTypes, WalkOpts, PartInv
  <2>2. CASE Len(delivered) = 0
    <3>1. delivered = <<>>
      BY <2>1, <2>2
    <3>2. part = <<>>
      BY <2>1, <2>2, SubSeqEmpty
    <3> QED
      BY <3>1, <3>2
  <2>3. CASE Len(delivered) > 0
    <3>1. last \in Nat /\ last <= Len(items)
      BY <2>1, <2>3 DEF Listed
    <3>2. /\ part \in Seq(Items) /\ Len(part) = Len(delivered)
          /\ \A i \in 1..Len(delivered) : part[i] = items[opts.skip + i]
      <4>1. /\ SubSeq(items, opts.skip + 1, last) \in Seq(Items)
            /\ Len(SubSeq(items, opts.skip + 1, last)) = IF opts.skip < last THEN last - opts.skip ELSE 0
            /\ \A i \in 1..(last - opts.skip) :
                 SubSeq(items, opts.skip + 1, last)[i] = items[opts.skip + i]
        <5> DEFINE from == opts.skip
        <5>1. items \in Seq(Items) /\ from \in Nat /\ last \in Nat /\ last <= Len(items)
          BY <2>1, <3>1
        <5> HIDE DEF last, from
        <5>2. /\ SubSeq(items, from + 1, last) \in Seq(Items)
              /\ Len(SubSeq(items, from + 1, last)) = IF from < last THEN last - from ELSE 0
              /\ \A i \in 1..(last - from) : SubSeq(items, from + 1, last)[i] = items[from + i]
          BY <5>1, PartShape
        <5> QED
          BY <5>2 DEF from
      <4> HIDE DEF last
      <4>2. opts.skip < last /\ last - opts.skip = Len(delivered)
        BY <2>1, <2>3 DEF last
      <4> QED
        BY <4>1, <4>2
    <3> HIDE DEF part
    <3>3. \A i \in 1..Len(delivered) : delivered[i] = part[i]
      BY <2>1, <3>2 DEF Listed
    <3>4. delivered = part
      BY <2>1, <3>2, <3>3
    <3> QED
      BY <3>4 DEF part
  <2> QED
    BY <2>1, <2>2, <2>3
<1> QED
  BY <1>1, RunInvariant, PTL DEF RunInv

\* A walk that ends because its pages say so has left out nothing that was listed
\* when its total was read (_deliverPage).
THEOREM WalkLeavesNoneOut == PingSpec => []NoneLeftOut
<1>1. RunInv => NoneLeftOut
  BY DEF RunInv, WalkInv
<1> QED
  BY <1>1, RunInvariant, PTL

\* Once a call has returned NATS_OK every later one does too, and the handler is
\* not called again (sysclient_walkRun).
THEOREM FinishedStaysSilent == PingSpec => FinishedIsSilent
<1>1. RunInv /\ [PingNext]_allVars => [ret = "OK" => UNCHANGED <<delivered, ret>>]_sysVars
  <2> SUFFICES ASSUME RunInv, PingNext, ret = "OK"
               PROVE  UNCHANGED <<delivered, ret>>
    BY DEF allVars
  <2>1. pc = "idle" /\ ((mode = "run" /\ done) \/ (mode = "each" /\ runs >= 1)) /\ runs \in Nat
    BY DEF RunInv, WalkInv, WalkTypes, CallInv
  <2>2. CASE Decode \/ Decoded \/ DecodeFails \/ AdoptFails \/ Adopted \/ Destroy \/ Stopped
    BY <2>2 DEF Decode, Decoded, DecodeFails, AdoptFails, Adopted, Destroy, Stopped, allVars,
       sysVars, callVars, appVars
  <2>3. CASE Adopt
    BY <2>3 DEF Adopt, RunInv, BeforeRun
  <2>4. CASE Run
    <3>1. StartCall
      BY <2>1, <2>4 DEF Run, WalkStep, CallStep, DeliverFirst, LoopTimesOut, Ask, Answered,
         RequestTimesOut, RequestFails
    <3> QED
      BY <2>1, <3>1 DEF StartCall, appVars
  <2>5. CASE Others
    BY <2>1, <2>5 DEF Others, Tick, ServerChanges, callVars, appVars
  <2> QED
    BY <2>2, <2>3, <2>4, <2>5 DEF PingNext
<1> QED
  BY <1>1, RunInvariant, PTL DEF PingSpec, FinishedIsSilent

-----------------------------------------------------------------------------
(* The inductive invariant of the pages.                                   *)

OwnerTypes ==
  /\ pages \subseteq 1..Replies /\ walks \subseteq 1..Replies
  /\ at \in 1..(Replies + 1) /\ frees \in [1..Replies -> Nat] /\ firstFreed \in Nat
  /\ phase \in {"decode", "adopt", "ready", "failed", "destroyed"}

\* Which slots hold a page and which a walk, and what was destroyed, while the
\* ping decodes and adopts, and while the application has its walks.
SlotsInv ==
  /\ phase = "decode" => pages = 1..(at - 1) /\ walks = {}
  /\ phase = "adopt" => pages = at..Replies /\ walks = 1..(at - 1)
  /\ phase \in {"ready", "failed", "destroyed"} => pages = {}
  /\ phase \in {"failed", "destroyed"} => walks = {}
  /\ phase = "ready" => walks = IF mode = "run" THEN 1..Replies ELSE {}
  /\ phase \in {"decode", "adopt", "ready"} => \A k \in 1..Replies : frees[k] = 0
  /\ phase \in {"decode", "adopt", "failed"} => firstFreed = 0
  /\ phase = "failed" => \A k \in 1..Replies : frees[k] \in {0, 1}
  /\ phase = "destroyed" =>
       \A k \in 1..Replies : frees[k] + (IF k = 1 THEN firstFreed ELSE 0) = 1

\* The page of the walk that is run: in it, or destroyed by it.
FirstInv ==
  /\ 1 \in walks => \/ first # NoPage /\ firstFreed = 0
                    \/ first = NoPage /\ firstFreed = 1
  /\ phase = "ready" /\ mode = "each" => firstFreed = 0
  /\ phase # "ready" => pc = "idle"

OwnerInv == OwnerTypes /\ SlotsInv /\ FirstInv

LEMMA OwnerInvInit == PingInit => OwnerInv
<1> SUFFICES ASSUME PingInit PROVE OwnerInv
  OBVIOUS
<1>1. OwnerTypes
  BY PingAssumption DEF PingInit, WalkInit, OwnerTypes
<1>2. SlotsInv
  BY PingAssumption DEF PingInit, WalkInit, SlotsInv
<1>3. FirstInv
  BY DEF PingInit, WalkInit, FirstInv
<1> QED
  BY <1>1, <1>2, <1>3 DEF OwnerInv

\* What sysclient_freeList does to the counts.
LEMMA FreedInShape ==
  ASSUME OwnerTypes, NEW set, NEW k \in 1..Replies
  PROVE  /\ FreedIn(set) \in [1..Replies -> Nat]
         /\ FreedIn(set)[k] = frees[k] + (IF k \in set THEN 1 ELSE 0)
BY DEF FreedIn, OwnerTypes

\* The ping: decoding and adopting, and the failure of either.
LEMMA OwnerInvPing ==
  ASSUME OwnerInv, RunInv,
         Decode \/ Decoded \/ DecodeFails \/ Adopt \/ AdoptFails \/ Adopted
  PROVE  OwnerInv'
<1>1. OwnerTypes /\ SlotsInv /\ FirstInv /\ Replies \in Nat /\ Replies >= 1
  BY PingAssumption DEF OwnerInv
<1>2. CASE Decode
  <2>1. UNCHANGED <<mode, first, firstFreed, pc>>
    BY <1>2 DEF Decode, sysVars, walkVars, callVars
  <2> QED
    BY <1>1, <1>2, <2>1 DEF Decode, OwnerInv, OwnerTypes, SlotsInv, FirstInv
<1>3. CASE Decoded
  <2>1. UNCHANGED <<mode, first, firstFreed, pc>>
    BY <1>3 DEF Decoded, sysVars, walkVars, callVars
  <2> QED
    BY <1>1, <1>3, <2>1 DEF Decoded, OwnerInv, OwnerTypes, SlotsInv, FirstInv
<1>4. CASE DecodeFails
  <2>1. UNCHANGED <<mode, first, firstFreed, pc>>
    BY <1>4 DEF DecodeFails, sysVars, walkVars, callVars
  <2>2. frees' \in [1..Replies -> Nat] /\ \A k \in 1..Replies : frees'[k] \in {0, 1}
    BY <1>1, <1>4, FreedInShape DEF DecodeFails, SlotsInv
  <2> QED
    BY <1>1, <1>4, <2>1, <2>2 DEF DecodeFails, OwnerInv, OwnerTypes, SlotsInv, FirstInv
<1>5. CASE Adopt
  <2>1. phase = "adopt" /\ firstFreed' = 0 /\ UNCHANGED <<mode, pc>>
    BY <1>1, <1>5 DEF Adopt, NewWalk, sysVars, walkVars, callVars, SlotsInv
  <2>2. 1 \in walks' => first' # NoPage
    <3>1. CASE at = 1
      <4>1. first' = PageAt(offset) /\ offset \in Nat
        BY <1>5, <3>1 DEF Adopt, NewWalk, RunInv, WalkInv, WalkTypes
      <4> QED
        BY <4>1, PageShape DEF RunInv, WalkInv
    <3>2. CASE at # 1
      <4>1. 1 \in walks /\ first' = first
        BY <1>1, <1>5, <2>1, <3>2 DEF Adopt, OwnerTypes, SlotsInv, sysVars, walkVars
      <4> QED
        BY <1>1, <2>1, <4>1 DEF FirstInv, SlotsInv
    <3> QED
      BY <3>1, <3>2
  <2>3. at' \in 1..(Replies + 1) /\ walks' = 1..(at' - 1) /\ pages' = at'..Replies
    BY <1>1, <1>5, <2>1 DEF Adopt, OwnerTypes, SlotsInv
  <2> QED
    BY <1>1, <1>5, <2>1, <2>2, <2>3 DEF Adopt, OwnerInv, OwnerTypes, SlotsInv, FirstInv
<1>6. CASE AdoptFails
  <2>1. UNCHANGED <<mode, first, firstFreed, pc>>
    BY <1>6 DEF AdoptFails, sysVars, walkVars, callVars
  <2>2. frees' \in [1..Replies -> Nat] /\ \A k \in 1..Replies : frees'[k] \in {0, 1}
    BY <1>1, <1>6, FreedInShape DEF AdoptFails, SlotsInv
  <2> QED
    BY <1>1, <1>6, <2>1, <2>2 DEF AdoptFails, OwnerInv, OwnerTypes, SlotsInv, FirstInv
<1>7. CASE Adopted
  <2>1. UNCHANGED <<mode, first, firstFreed, pc>> /\ mode = "run"
    BY <1>7 DEF Adopted, sysVars, walkVars, callVars, RunInv, BeforeRun
  <2>2. pages = {} /\ walks = 1..Replies
    BY <1>1, <1>7 DEF Adopted, SlotsInv
  <2>3. frees' \in [1..Replies -> Nat] /\ \A k \in 1..Replies : frees'[k] = 0
    BY <1>1, <1>7, <2>2, FreedInShape DEF Adopted, SlotsInv
  <2> QED
    BY <1>1, <1>7, <2>1, <2>2, <2>3 DEF Adopted, OwnerInv, OwnerTypes, SlotsInv, FirstInv
<1> QED
  BY <1>2, <1>3, <1>4, <1>5, <1>6, <1>7

\* A run destroys the page it delivers, and nothing else touches it.
LEMMA OwnerInvRun == OwnerInv /\ RunInv /\ (Run \/ Others) => OwnerInv'
<1> SUFFICES ASSUME OwnerInv, RunInv, Run \/ Others PROVE OwnerInv'
  OBVIOUS
<1>1. OwnerTypes /\ SlotsInv /\ FirstInv /\ CallInv /\ Replies \in Nat /\ Replies >= 1
      /\ mode \in {"each", "run"}
  BY PingAssumption DEF OwnerInv, RunInv, WalkInv, WalkTypes
<1>2. UNCHANGED <<phase, at, pages, walks, frees>> /\ UNCHANGED mode
  BY DEF Run, Others, pingVars, WalkStep, CallStep, StartCall, DeliverFirst, LoopTimesOut, Ask,
     Answered, RequestTimesOut, RequestFails, Tick, ServerChanges, walkVars
<1>3. CASE Run /\ DeliverFirst
  <2>1. first' = NoPage /\ firstFreed' = firstFreed + 1 /\ first # NoPage /\ phase = "ready"
    BY <1>1, <1>3 DEF Run, DeliverFirst, CallInv
  <2>2. mode = "run" /\ 1 \in walks /\ firstFreed = 0
    BY <1>1, <2>1 DEF CallInv, SlotsInv, FirstInv
  <2> QED
    BY <1>1, <1>2, <2>1, <2>2 DEF OwnerInv, OwnerTypes, SlotsInv, FirstInv
<1>4. CASE Others \/ (Run /\ ~DeliverFirst)
  <2>1. UNCHANGED <<first, firstFreed>> /\ (phase # "ready" => UNCHANGED pc)
    BY <1>1, <1>4
    DEF Run, Others, WalkStep, CallStep, StartCall, LoopTimesOut, Ask, Answered,
        RequestTimesOut, RequestFails, Tick, ServerChanges, walkVars, callVars, FirstInv
  <2> QED
    BY <1>1, <1>2, <2>1 DEF OwnerInv, OwnerTypes, SlotsInv, FirstInv
<1> QED
  BY <1>3, <1>4

LEMMA OwnerInvDestroy == OwnerInv /\ Destroy => OwnerInv'
<1> SUFFICES ASSUME OwnerInv, Destroy PROVE OwnerInv'
  OBVIOUS
<1>1. OwnerTypes /\ SlotsInv /\ FirstInv /\ Replies \in Nat /\ Replies >= 1
  BY PingAssumption DEF OwnerInv
<1>2. /\ walks = 1..Replies /\ pages = {} /\ UNCHANGED <<mode, first, firstFreed, pc, at, pages>>
      /\ phase' = "destroyed" /\ walks' = {} /\ pc = "idle"
      /\ frees' = FreedIn({k \in walks : HasPage(k)})
  BY <1>1 DEF Destroy, SlotsInv, sysVars, walkVars, callVars
<1>3. frees' \in [1..Replies -> Nat]
  BY <1>1, <1>2, FreedInShape
<1>4. ASSUME NEW k \in 1..Replies
      PROVE  frees'[k] + (IF k = 1 THEN firstFreed ELSE 0) = 1
  <2>1. frees[k] = 0
    BY <1>1 DEF Destroy, SlotsInv
  <2>2. frees'[k] = IF HasPage(k) THEN 1 ELSE 0
    BY <1>1, <1>2, <2>1, FreedInShape
  <2>3. CASE k = 1
    BY <1>1, <1>2, <2>2, <2>3 DEF HasPage, FirstInv
  <2>4. CASE k # 1
    BY <1>2, <2>2, <2>4 DEF HasPage
  <2> QED
    BY <2>3, <2>4
<1> QED
  BY <1>1, <1>2, <1>3, <1>4 DEF OwnerInv, OwnerTypes, SlotsInv, FirstInv

LEMMA OwnerInvNext == OwnerInv /\ RunInv /\ [PingNext]_allVars => OwnerInv'
<1>1. OwnerInv /\ UNCHANGED allVars => OwnerInv'
  BY DEF allVars, sysVars, walkVars, callVars, pingVars, OwnerInv, OwnerTypes, SlotsInv, FirstInv
<1> QED
  BY <1>1, OwnerInvPing, OwnerInvRun, OwnerInvDestroy DEF PingNext, Stopped

\* How many of two hold.
LEMMA Two ==
  ASSUME NEW P \in BOOLEAN, NEW Q \in BOOLEAN
  PROVE  Cardinality({x \in {"list", "walk"} : IF x = "list" THEN P ELSE Q})
           = (IF P THEN 1 ELSE 0) + (IF Q THEN 1 ELSE 0)
<1> DEFINE O == {x \in {"list", "walk"} : IF x = "list" THEN P ELSE Q}
<1>1. /\ Cardinality({}) = 0
      /\ IsFiniteSet({"list"}) /\ Cardinality({"list"}) = 1 /\ Cardinality({"walk"}) = 1
  BY FS_EmptySet, FS_Singleton
<1>2. CASE P /\ Q
  <2>1. O = {"list"} \cup {"walk"}
    BY <1>2
  <2> DEFINE S == {"list"}
  <2>2. IsFiniteSet(S) /\ "walk" \notin S
    BY <1>1
  <2> HIDE DEF S
  <2>3. Cardinality(S \cup {"walk"}) = Cardinality(S) + 1
    BY <2>2, FS_AddElement
  <2>4. Cardinality(O) = 1 + 1
    BY <2>1, <2>3, <1>1 DEF S
  <2> HIDE DEF O
  <2>5. Cardinality(O) = (IF P THEN 1 ELSE 0) + (IF Q THEN 1 ELSE 0)
    BY <2>4, <1>2
  <2> QED
    BY <2>5 DEF O
<1>3. CASE (P /\ ~Q) \/ (~P /\ Q)
  <2>1. O = {"list"} \/ O = {"walk"}
    BY <1>3
  <2> HIDE DEF O
  <2>2. Cardinality(O) = 1
    BY <2>1, <1>1
  <2>3. Cardinality(O) = (IF P THEN 1 ELSE 0) + (IF Q THEN 1 ELSE 0)
    BY <2>2, <1>3
  <2> QED
    BY <2>3 DEF O
<1>4. CASE ~P /\ ~Q
  <2>1. O = {}
    BY <1>4
  <2> HIDE DEF O
  <2>2. Cardinality(O) = (IF P THEN 1 ELSE 0) + (IF Q THEN 1 ELSE 0)
    BY <2>1, <1>1, <1>4
  <2> QED
    BY <2>2 DEF O
<1> QED
  BY <1>2, <1>3, <1>4

\* A page of the ping has one owner, the page list or a walk, or was destroyed
\* once, on every path out of sysclient_pingEach and of the walk.
THEOREM PageHasOneOwner == PingSpec => []OneOwner
<1>1. OwnerInv /\ RunInv => OneOwner
  <2> SUFFICES ASSUME OwnerInv, RunInv, NEW k \in 1..Replies,
                      k \in pages \cup walks \/ frees[k] + (IF k = 1 THEN firstFreed ELSE 0) > 0
               PROVE  Cardinality({x \in {"list", "walk"} :
                                     IF x = "list" THEN k \in pages ELSE HasPage(k)})
                        + (frees[k] + (IF k = 1 THEN firstFreed ELSE 0)) = 1
    BY DEF OneOwner
  <2> DEFINE gone == frees[k] + (IF k = 1 THEN firstFreed ELSE 0)
  <2>1. OwnerTypes /\ SlotsInv /\ FirstInv /\ Replies \in Nat /\ mode \in {"each", "run"}
    BY PingAssumption DEF OwnerInv, RunInv, WalkInv, WalkTypes
  <2>2. Cardinality({x \in {"list", "walk"} : IF x = "list" THEN k \in pages ELSE HasPage(k)})
          = (IF k \in pages THEN 1 ELSE 0) + (IF HasPage(k) THEN 1 ELSE 0)
    BY Two DEF HasPage
  <2>3. (IF k \in pages THEN 1 ELSE 0) + (IF HasPage(k) THEN 1 ELSE 0) + gone = 1
    <3>1. CASE k \in pages
      BY <2>1, <3>1 DEF HasPage, OwnerTypes, SlotsInv, FirstInv
    <3>2. CASE k \notin pages /\ k \in walks
      BY <2>1, <3>2 DEF HasPage, OwnerTypes, SlotsInv, FirstInv
    <3>3. CASE k \notin pages /\ k \notin walks
      <4>1. ~HasPage(k) /\ gone > 0
        BY <3>3 DEF HasPage
      <4>2. frees[k] \in Nat /\ firstFreed \in Nat
        BY <2>1 DEF OwnerTypes
      <4>3. phase \notin {"decode", "adopt"}
        BY <2>1, <4>1, <4>2 DEF SlotsInv
      <4>4. phase # "ready"
        BY <2>1, <3>3, <4>1, <4>2 DEF SlotsInv, FirstInv
      <4>5. CASE phase = "failed"
        BY <2>1, <3>3, <4>1, <4>2, <4>5 DEF SlotsInv
      <4>6. CASE phase = "destroyed"
        BY <2>1, <3>3, <4>1, <4>6 DEF SlotsInv
      <4> QED
        BY <2>1, <4>3, <4>4, <4>5, <4>6 DEF OwnerTypes
    <3> QED
      BY <3>1, <3>2, <3>3
  <2> QED
    BY <2>2, <2>3
<1> QED
  BY <1>1, OwnerInvInit, OwnerInvNext, RunInvariant, PTL DEF PingSpec
=============================================================================
