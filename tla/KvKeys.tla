------------------------------- MODULE KvKeys -------------------------------
(***************************************************************************)
(* The keys of an application, as sequences of bytes, and the tokens that  *)
(* they stand for (kv-codec/src/kvcodec.h).                                *)
(***************************************************************************)
EXTENDS Integers, SequencesExt, FiniteSetsExt

Slash == 47
Dot   == 46
Star  == 42
Gt    == 62
Root  == <<95, 114, 111, 111, 116, 95>>          \* ROOT_PREFIX, "_root_"

\* The tokens of a text, between its separators, and the text they are joined to.
Split(k, seps) ==
  LET isCut(i) == k[i] \in seps
      cuts == <<0>> \o SelectSeq([i \in 1..Len(k) |-> i], isCut) \o <<Len(k) + 1>>
  IN [j \in 1..(Len(cuts) - 1) |-> SubSeq(k, cuts[j] + 1, cuts[j + 1] - 1)]
Join(tokens, sep) ==
  IF tokens = <<>> THEN <<>> ELSE Tail(FlattenSeq([j \in 1..Len(tokens) |-> <<sep>> \o tokens[j]]))

-----------------------------------------------------------------------------
(* A path may separate its tokens with '/' or '.', and end with '/'; a     *)
(* leading '/' is the token Root.  Any other key has dots.                 *)

Untrailed(k) == IF k # <<>> /\ Last(k) = Slash THEN Front(k) ELSE k
Tokens(path, k) ==
  IF ~path THEN Split(k, {Dot})
  ELSE IF k = <<Slash>> THEN <<Root>>
  ELSE IF k # <<>> /\ Head(k) = Slash THEN <<Root>> \o Split(Untrailed(Tail(k)), {Slash, Dot})
  ELSE Split(Untrailed(k), {Slash, Dot})

\* The key of these tokens as the store reports it.
Spelled(path, ts) ==
  IF ~path THEN Join(ts, Dot)
  ELSE IF Head(ts) = Root THEN <<Slash>> \o Join(Tail(ts), Slash)
  ELSE Join(ts, Slash)
=============================================================================
