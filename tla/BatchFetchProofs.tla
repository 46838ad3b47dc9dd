--------------------------- MODULE BatchFetchProofs ---------------------------
(***************************************************************************)
(* The synchronous fetch is the gathering loop: what is proved of the loop *)
(* for any sentinel holds of the fetch with its own.                       *)
(***************************************************************************)
EXTENDS BatchFetch, RequestManyProofs

\* What a server sends are replies.
LEMMA ScriptReplies ==
  ASSUME NEW s \in Scripts(MaxBatch), NEW i \in 1..Len(s)
  PROVE  s[i] \in Msgs
<1>1. Stored \cup BatchEnds \cup Errors \cup Legacy \subseteq Reply
  <2>1. Stored \subseteq Reply /\ Legacy \subseteq Reply
    BY DEF Stored, Legacy, Reply, Headers
  <2>2. ASSUME NEW st \in {"none", "EOB"} \cup ErrorStatuses,
               NEW h \in SUBSET Headers
        PROVE  Bare(st, h) \in Reply
    BY DEF Bare, Reply
  <2>3. Errors \subseteq Reply
    BY <2>2 DEF Errors
  <2>4. BatchEnds \subseteq Reply
    <3>1. {} \in SUBSET Headers
      OBVIOUS
    <3>2. {"Nats-Num-Pending", "Nats-UpTo-Sequence"} \in SUBSET Headers
      BY DEF Headers
    <3> QED
      BY <2>2, <3>1, <3>2 DEF BatchEnds
  <2> QED
    BY <2>1, <2>3, <2>4
<1>2. CASE s \in {<<m>> : m \in Legacy}
  BY <1>1, <1>2, FetchAssumption
<1>3. ASSUME NEW b \in BoundedSeq(Stored, MaxBatch),
             NEW e \in BatchEnds \cup Errors, s = Append(b, e)
      PROVE  s[i] \in Msgs
  <2>1. b \in Seq(Stored)
    BY <1>3, FetchAssumption DEF BoundedSeq, SeqOf
  <2>2. b \in Seq(Reply) /\ e \in Reply
    BY <1>1, <2>1
  <2>3. s \in Seq(Reply)
    BY <1>3, <2>2
  <2> QED
    BY <2>3, FetchAssumption
<1> QED
  BY <1>2, <1>3 DEF Scripts

\* Every behaviour of a fetch is one of the loop.
THEOREM FetchGathers == FetchSpec => GatherSpec
<1> DEFINE Inv == script \in Scripts(MaxBatch) /\ GatherTypeOK
<1>1. FetchInit => GatherInit /\ Inv
  BY TypeInit DEF FetchInit
<1>2. Inv /\ [FetchNext]_fetchVars => [GatherNext]_gatherVars /\ Inv'
  <2> SUFFICES ASSUME Inv, [FetchNext]_fetchVars
               PROVE  [GatherNext]_gatherVars /\ Inv'
    OBVIOUS
  <2>1. CASE Arrives
    <3>1. Len(arrived) + 1 \in 1..Len(script)
      BY <2>1 DEF Arrives, GatherTypeOK
    <3>2. script[Len(arrived) + 1] \in Msgs
      BY <3>1, ScriptReplies
    <3>3. GatherNext /\ UNCHANGED script
      BY <2>1, <3>2 DEF Arrives, GatherNext
    <3> QED
      BY <3>3, TypeNext
  <2>2. CASE ~Arrives
    <3>1. [GatherNext]_gatherVars /\ UNCHANGED script
      BY <2>2 DEF FetchNext, FetchStep, FetchTick, FetchDone, GatherNext,
         fetchVars
    <3> QED
      BY <3>1, TypeNext
  <2> QED
    BY <2>1, <2>2
<1> QED
  BY <1>1, <1>2, PTL DEF FetchSpec, GatherSpec
=============================================================================
