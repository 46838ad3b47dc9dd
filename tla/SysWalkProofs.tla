---------------------------- MODULE SysWalkProofs ----------------------------
(***************************************************************************)
(* The inductive invariant of a walk and the proof that its steps, those of*)
(* the clock and those of the server keep it, for any list of any length   *)
(* and any number of calls.  SysPingEachProofs puts them together.         *)
(***************************************************************************)
EXTENDS SysWalk, SequenceTheorems, TLAPS

WalkTypes ==
  /\ items \in Seq(Items) /\ unstable \in BOOLEAN
  /\ opts \in WalkOpts /\ mode \in {"each", "run"}
  /\ first = NoPage \/ first \in Page
  /\ offset \in Nat /\ total \in Nat /\ done \in BOOLEAN /\ runs \in Nat
  /\ delivered \in Seq(Items) /\ content \in BOOLEAN /\ listed \in Nat

\* A call that is over, and the page of the ping.
CallInv ==
  /\ ret = "OK" => pc = "idle"
  /\ ret = "OK" => (mode = "run" /\ done) \/ (mode = "each" /\ runs >= 1)
  /\ done => ret = "OK"
  /\ pc # "idle" => runs >= 1
  /\ pc = "first" => first # NoPage
  /\ pc \in {"loop", "asked"} => first = NoPage
  /\ mode = "each" => first = NoPage

\* The elements are those of the list from an offset on.
Listed(els, off) ==
  \A i \in 1..Len(els) : off + i <= Len(items) /\ els[i] = items[off + i]

\* As long as the list only grows, what was delivered is its part from where the
\* walk started, and the page of the ping is the part after that.
PartInv == opts.paged /\ ~unstable =>
  /\ Listed(delivered, opts.skip)
  /\ first # NoPage => Listed(first.els, offset)
  /\ first # NoPage /\ first.els = <<>> => offset >= listed
  /\ listed <= Len(items)

WalkInv ==
  /\ WalkTypes /\ CallInv /\ PartInv /\ NoneLeftOut
  /\ offset = opts.skip + Len(delivered) /\ total = listed

-----------------------------------------------------------------------------
(* Sequences.                                                              *)

\* A part of a sequence.
LEMMA PartShape ==
  ASSUME NEW S, NEW s \in Seq(S), NEW a \in Nat, NEW b \in Nat, b <= Len(s)
  PROVE  /\ SubSeq(s, a + 1, b) \in Seq(S)
         /\ Len(SubSeq(s, a + 1, b)) = IF a < b THEN b - a ELSE 0
         /\ \A i \in 1..(b - a) : SubSeq(s, a + 1, b)[i] = s[a + i]
BY SubSeqProperties

\* A page holds the elements at its offset, and is empty at the end of the list only.
LEMMA PageShape ==
  ASSUME WalkTypes, NEW off \in Nat
  PROVE  /\ PageAt(off) \in Page /\ PageAt(off) # NoPage /\ PageAt(off).total = Len(items)
         /\ opts.paged => Listed(PageAt(off).els, off)
         /\ opts.paged /\ PageAt(off).els = <<>> => off >= Len(items)
<1> DEFINE from == IF opts.paged THEN off ELSE 0
           to   == Smaller(Len(items), from + (IF opts.paged THEN opts.limit ELSE 1))
<1>1. items \in Seq(Items) /\ Len(items) \in Nat /\ opts.limit \in Nat /\ opts.limit >= 1
  BY WalkAssumption DEF WalkTypes, WalkOpts
<1>2. from \in Nat /\ to \in Nat /\ to <= Len(items)
  BY <1>1 DEF Smaller
<1>3. opts.paged => from = off /\ (to = Len(items) \/ (to = off + opts.limit /\ to <= Len(items)))
  BY <1>1 DEF Smaller
<1>4. PageAt(off) = [els |-> SubSeq(items, from + 1, to), total |-> Len(items)]
  BY DEF PageAt
<1> HIDE DEF from, to
<1>5. /\ SubSeq(items, from + 1, to) \in Seq(Items)
      /\ Len(SubSeq(items, from + 1, to)) = IF from < to THEN to - from ELSE 0
      /\ \A i \in 1..(to - from) : SubSeq(items, from + 1, to)[i] = items[from + i]
  BY <1>1, <1>2, PartShape
<1>6. PageAt(off) \in Page /\ PageAt(off) # NoPage /\ PageAt(off).total = Len(items)
  BY <1>1, <1>4, <1>5 DEF Page, NoPage
<1>7. opts.paged => Listed(PageAt(off).els, off)
  BY <1>1, <1>2, <1>3, <1>4, <1>5 DEF Listed
<1>8. ASSUME opts.paged, off < Len(items)
      PROVE  PageAt(off).els # <<>>
  <2>1. from < to /\ to - from > 0
    BY <1>1, <1>3, <1>8
  <2>2. Len(SubSeq(items, from + 1, to)) > 0
    BY <1>2, <1>5, <2>1
  <2> DEFINE els == SubSeq(items, from + 1, to)
  <2>3. els \in Seq(Items) /\ Len(els) > 0
    BY <1>5, <2>2
  <2> HIDE DEF els
  <2>4. els # <<>>
    BY <2>3
  <2> QED
    BY <1>4, <2>4 DEF els
<1> QED
  BY <1>1, <1>6, <1>7, <1>8

\* A list without one of its elements.
LEMMA RemoveType ==
  ASSUME NEW S, NEW s \in Seq(S), NEW i \in 1..Len(s)
  PROVE  RemoveAt(s, i) \in Seq(S)
<1>1. SubSeq(s, 1, i - 1) \in Seq(S)
  BY PartShape
<1>2. SubSeq(s, i + 1, Len(s)) \in Seq(S)
  BY PartShape
<1> QED
  BY <1>1, <1>2 DEF RemoveAt

-----------------------------------------------------------------------------
LEMMA WalkInvInit == WalkInit => WalkInv
<1> SUFFICES ASSUME WalkInit PROVE WalkInv
  OBVIOUS
<1>1. items \in Seq(Items)
  BY WalkAssumption DEF WalkInit, BoundedSeq, SeqOf
<1>2. opts \in WalkOpts /\ opts.skip \in Nat
  BY WalkAssumption DEF WalkInit, WalkOpts
<1>3. delivered = <<>> /\ Len(delivered) = 0 /\ delivered \in Seq(Items)
  BY DEF WalkInit
<1>4. WalkTypes
  BY <1>1, <1>2, <1>3 DEF WalkInit, WalkTypes
<1>5. CallInv /\ NoneLeftOut /\ offset = opts.skip + Len(delivered) /\ total = listed
  BY <1>2, <1>3 DEF WalkInit, CallInv, NoneLeftOut
<1>6. PartInv
  BY <1>1, <1>3 DEF WalkInit, PartInv, Listed
<1> QED
  BY <1>4, <1>5, <1>6 DEF WalkInv

\* The server's list grows at its end, or is no longer stable.
LEMMA WalkInvServer == WalkInv /\ ServerChanges => WalkInv'
<1> SUFFICES ASSUME WalkInv, ServerChanges PROVE WalkInv'
  OBVIOUS
<1>1. UNCHANGED <<mode, opts, first, offset, total, done, pc, runs, ret, delivered, content, listed>>
  BY DEF ServerChanges, walkVars, callVars, appVars
<1>2. WalkTypes /\ CallInv /\ PartInv /\ NoneLeftOut /\ offset = opts.skip + Len(delivered)
      /\ total = listed
  BY DEF WalkInv
<1>3. CASE Grow
  <2>1. PICK e \in Items : items' = Append(items, e)
    BY <1>3 DEF Grow
  <2>2. unstable' = unstable
    BY <1>3 DEF Grow
  <2>3. /\ items' \in Seq(Items) /\ Len(items') = Len(items) + 1 /\ Len(items) \in Nat
        /\ \A j \in 1..Len(items) : items'[j] = items[j]
    BY <1>2, <2>1 DEF WalkTypes
  <2>4. PartInv'
    <3>1. opts.skip \in Nat /\ offset \in Nat /\ delivered \in Seq(Items)
          /\ (first # NoPage => first.els \in Seq(Items))
      BY <1>2, WalkAssumption DEF WalkTypes, WalkOpts, Page
    <3>2. SUFFICES ASSUME opts.paged, ~unstable
                   PROVE  PartInv'
      BY <1>1, <2>2 DEF PartInv
    <3>3. Listed(delivered, opts.skip)'
      BY <1>1, <1>2, <2>3, <3>1, <3>2 DEF PartInv, Listed
    <3>4. first # NoPage => Listed(first.els, offset)'
      <4>1. SUFFICES ASSUME first # NoPage PROVE Listed(first.els, offset)'
        BY <1>1
      <4>2. Listed(first.els, offset) /\ first.els \in Seq(Items)
        BY <1>2, <3>1, <3>2, <4>1 DEF PartInv
      <4>3. first'.els = first.els /\ offset' = offset
        BY <1>1
      <4>4. \A i \in 1..Len(first.els) :
              offset + i <= Len(items') /\ first.els[i] = items'[offset + i]
        BY <2>3, <3>1, <4>2 DEF Listed
      <4> QED
        BY <4>3, <4>4 DEF Listed
    <3>5. listed <= Len(items')
      BY <1>2, <2>3, <3>2 DEF PartInv, WalkTypes
    <3> QED
      BY <1>1, <1>2, <3>2, <3>3, <3>4, <3>5 DEF PartInv
  <2> QED
    BY <1>1, <1>2, <2>2, <2>3, <2>4 DEF WalkInv, WalkTypes, CallInv, NoneLeftOut
<1>4. CASE Shrink
  <2>1. unstable' = TRUE /\ items' \in Seq(Items)
    BY <1>2, <1>4, RemoveType DEF Shrink, WalkTypes
  <2> QED
    BY <1>1, <1>2, <2>1 DEF WalkInv, WalkTypes, CallInv, PartInv, NoneLeftOut
<1> QED
  BY <1>3, <1>4 DEF ServerChanges

-----------------------------------------------------------------------------
(* A page is delivered.                                                    *)

\* The page holds what comes next, and is empty only if nothing listed does.
Follows(page, refresh) ==
  /\ page \in Page /\ (refresh => page.total = Len(items))
  /\ opts.paged /\ ~unstable =>
       /\ Listed(page.els, offset)
       /\ page.els = <<>> => offset >= (IF refresh THEN Len(items) ELSE listed)

LEMMA WalkInvDeliver ==
  ASSUME WalkInv, pc \in {"first", "asked"}, NEW page, NEW refresh \in BOOLEAN,
         Follows(page, refresh), DeliverPage(page, refresh),
         UNCHANGED <<serverVars, mode, opts>>, first' = NoPage
  PROVE  WalkInv'
<1>1. WalkTypes /\ CallInv /\ PartInv /\ offset = opts.skip + Len(delivered) /\ total = listed
  BY DEF WalkInv
<1>2. UNCHANGED <<items, unstable, mode, opts>>
  BY DEF serverVars
<1>3. PICK more \in BOOLEAN :
        /\ total' = IF refresh THEN page.total ELSE total
        /\ listed' = IF refresh THEN Len(items) ELSE listed
        /\ delivered' = delivered \o page.els
        /\ content' = (content /\ more)
        /\ offset' = offset + Len(page.els)
        /\ End(Stops(page, more, total', offset'))
  BY DEF DeliverPage
<1>4. /\ page.els \in Seq(Items) /\ page.total \in Nat /\ Len(page.els) \in Nat
      /\ Len(items) \in Nat /\ Len(delivered) \in Nat /\ opts.skip \in Nat
      /\ delivered \in Seq(Items)
  BY <1>1, WalkAssumption DEF Follows, Page, WalkTypes, WalkOpts
<1>5. /\ delivered' \in Seq(Items) /\ Len(delivered') = Len(delivered) + Len(page.els)
      /\ \A i \in 1..Len(delivered') :
           delivered'[i] = IF i <= Len(delivered) THEN delivered[i] ELSE page.els[i - Len(delivered)]
  BY <1>3, <1>4
<1>6. ret # "OK" /\ done = FALSE
  BY <1>1 DEF CallInv, WalkTypes
<1>7. offset' = opts'.skip + Len(delivered') /\ total' = listed'
  BY <1>1, <1>2, <1>3, <1>4, <1>5 DEF Follows
<1>8. runs' = runs /\ pc' \in {"idle", "loop"} /\ done' \in BOOLEAN
  BY <1>3, <1>6 DEF End, Return
<1>9. WalkTypes'
  <2>1. content' \in BOOLEAN
    BY <1>3
  <2>2. listed' \in Nat /\ total' \in Nat /\ offset' \in Nat
    BY <1>1, <1>3, <1>4 DEF WalkTypes
  <2> QED
    BY <1>1, <1>2, <1>5, <1>8, <2>1, <2>2 DEF WalkTypes
<1>10. CallInv'
  <2>1. CASE Stops(page, more, total', offset')
    <3>1. ret' = "OK" /\ pc' = "idle" /\ done' = (mode = "run")
      BY <1>3, <2>1 DEF End, Return
    <3>2. mode = "each" => pc = "asked"
      BY <1>1 DEF CallInv
    <3> QED
      BY <1>1, <1>2, <1>8, <3>1, <3>2 DEF CallInv, WalkTypes
  <2>2. CASE ~Stops(page, more, total', offset')
    <3>1. UNCHANGED <<ret, done>> /\ pc' = "loop"
      BY <1>3, <2>2 DEF End
    <3> QED
      BY <1>1, <1>2, <1>6, <1>8, <3>1 DEF CallInv
  <2> QED
    BY <2>1, <2>2
<1>11. PartInv'
  <2>1. SUFFICES ASSUME opts.paged, ~unstable
                 PROVE  Listed(delivered, opts.skip)' /\ listed' <= Len(items')
    BY <1>2 DEF PartInv
  <2>2. Listed(delivered, opts.skip) /\ Listed(page.els, offset) /\ listed <= Len(items)
    BY <1>1, <2>1 DEF PartInv, Follows
  <2>3. ASSUME NEW i \in 1..Len(delivered')
        PROVE  opts.skip + i <= Len(items) /\ delivered'[i] = items[opts.skip + i]
    <3>1. CASE i <= Len(delivered)
      <4>1. i \in 1..Len(delivered)
        BY <1>4, <1>5, <3>1
      <4> QED
        BY <1>5, <2>2, <3>1, <4>1 DEF Listed
    <3>2. CASE ~(i <= Len(delivered))
      <4>1. /\ i - Len(delivered) \in 1..Len(page.els)
            /\ offset + (i - Len(delivered)) = opts.skip + i
        BY <1>1, <1>4, <1>5, <3>2
      <4> QED
        BY <1>5, <2>2, <3>2, <4>1 DEF Listed
    <3> QED
      BY <3>1, <3>2
  <2> QED
    BY <1>2, <1>3, <1>4, <2>2, <2>3 DEF Listed
<1>12. NoneLeftOut'
  <2>1. SUFFICES ASSUME ret' = "OK", opts.paged, content', ~unstable
                 PROVE  opts.skip + Len(delivered') >= listed'
    BY <1>2 DEF NoneLeftOut
  <2>2. more
    BY <1>3, <2>1
  <2>3. Stops(page, more, total', offset')
    BY <1>3, <1>6, <2>1 DEF End
  <2>4. page.els = <<>> \/ offset' >= total'
    BY <2>1, <2>2, <2>3 DEF Stops
  <2>5. CASE page.els = <<>>
    <3>1. offset >= listed' /\ Len(page.els) = 0
      BY <1>3, <2>1, <2>5 DEF Follows
    <3> QED
      BY <1>1, <1>4, <1>5, <3>1
  <2> QED
    BY <1>2, <1>7, <2>4, <2>5
<1> QED
  BY <1>7, <1>9, <1>10, <1>11, <1>12 DEF WalkInv

\* Every other step of a call, and a tick.
LEMMA WalkInvStep == WalkInv /\ (WalkStep \/ Tick) => WalkInv'
<1> SUFFICES ASSUME WalkInv, WalkStep \/ Tick PROVE WalkInv'
  OBVIOUS
<1>1. WalkTypes /\ CallInv /\ PartInv /\ NoneLeftOut /\ offset = opts.skip + Len(delivered)
      /\ total = listed
  BY DEF WalkInv
<1>2. CASE StartCall
  <2>1. /\ UNCHANGED <<items, unstable, mode, opts, first, offset, total, done, delivered, content, listed>>
        /\ runs' = runs + 1 /\ pc = "idle" /\ (mode = "each" => runs = 0)
    BY <1>2 DEF StartCall, serverVars, walkVars, appVars
  <2>2. CASE done
    BY <1>1, <1>2, <2>1, <2>2
    DEF StartCall, WalkInv, WalkTypes, CallInv, PartInv, Listed, NoneLeftOut
  <2>3. CASE ~done
    BY <1>1, <1>2, <2>1, <2>3
    DEF StartCall, WalkInv, WalkTypes, CallInv, PartInv, Listed, NoneLeftOut
  <2> QED
    BY <2>2, <2>3
<1>3. CASE DeliverFirst
  <2>1. first \in Page /\ first # NoPage /\ Follows(first, FALSE)
    BY <1>1, <1>3 DEF DeliverFirst, CallInv, WalkTypes, PartInv, Follows
  <2> QED
    BY <1>3, <2>1, WalkInvDeliver DEF DeliverFirst
<1>4. CASE Answered
  <2>1. offset \in Nat /\ first = NoPage
    BY <1>1, <1>4 DEF Answered, CallInv, WalkTypes
  <2>2. Follows(PageAt(offset), mode = "each")
    <3>1. opts.paged /\ ~unstable => listed <= Len(items)
      BY <1>1 DEF PartInv
    <3>2. listed \in Nat /\ Len(items) \in Nat
      BY <1>1 DEF WalkTypes
    <3> QED
      BY <1>1, <2>1, <3>1, <3>2, PageShape DEF Follows
  <2>3. (mode = "each") \in BOOLEAN
    OBVIOUS
  <2> QED
    BY <1>4, <2>1, <2>2, <2>3, WalkInvDeliver DEF Answered
<1>5. CASE LoopTimesOut \/ Ask \/ RequestTimesOut \/ RequestFails \/ Tick
  <2>1. /\ UNCHANGED <<items, unstable, mode, opts, first, offset, total, done, delivered, content, listed>>
        /\ UNCHANGED runs /\ pc # "idle"
    BY <1>5 DEF LoopTimesOut, Ask, RequestTimesOut, RequestFails, Tick, Return, serverVars, walkVars, appVars
  <2>2. \/ pc' = "idle" /\ ret' \in {"TIMEOUT", "FAILED"}
        \/ pc = "loop" /\ pc' = "asked" /\ ret' = ret
        \/ UNCHANGED <<pc, ret>>
    BY <1>5 DEF LoopTimesOut, Ask, RequestTimesOut, RequestFails, Tick, Return
  <2> QED
    BY <1>1, <2>1, <2>2 DEF WalkInv, WalkTypes, CallInv, PartInv, Listed, NoneLeftOut
<1> QED
  BY <1>2, <1>3, <1>4, <1>5 DEF WalkStep, CallStep

\* A walk that has not begun adopts the page the ping was answered with.
LEMMA WalkInvNew ==
  ASSUME WalkInv, NewWalk, mode = "run", pc = "idle", ret = "none", delivered = <<>>
  PROVE  WalkInv'
<1>1. WalkTypes /\ CallInv /\ PartInv /\ offset = opts.skip + Len(delivered)
  BY DEF WalkInv
<1>2. /\ UNCHANGED <<items, unstable, mode, opts, offset, done, pc, runs, ret, delivered, content>>
      /\ first' = PageAt(offset) /\ total' = first'.total /\ listed' = Len(items)
  BY DEF NewWalk, serverVars, callVars
<1>3. offset \in Nat /\ Len(items) \in Nat
  BY <1>1 DEF WalkTypes
<1>4. /\ first' \in Page /\ first' # NoPage /\ total' = Len(items)
      /\ opts.paged => Listed(first'.els, offset)
      /\ opts.paged /\ first'.els = <<>> => offset >= Len(items)
  BY <1>1, <1>2, <1>3, PageShape
<1>5. WalkTypes' /\ CallInv' /\ NoneLeftOut'
  BY <1>1, <1>2, <1>3, <1>4 DEF WalkTypes, CallInv, NoneLeftOut
<1>6. PartInv'
  BY <1>1, <1>2, <1>3, <1>4 DEF PartInv, Listed
<1> QED
  BY <1>1, <1>2, <1>4, <1>5, <1>6 DEF WalkInv

=============================================================================
