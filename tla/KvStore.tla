------------------------------- MODULE KvStore -------------------------------
(***************************************************************************)
(* What a bucket of the NATS key-value store does, as kv-codec uses it: its*)
(* entries are the sequence of [key, op, value, rev] that are kept, oldest *)
(* first; op is "put", or a marker, "delete" or "purge".                   *)
(***************************************************************************)
EXTENDS Integers, SequencesExt, FiniteSetsExt

\* What a watcher gets after the entries there were when it began.
End == [key |-> <<>>, op |-> "end", value |-> <<>>, rev |-> 0]

LastOf(es, k) == SelectSeq(es, LAMBDA e : e.key = k)
Exists(es, k) == LastOf(es, k) # <<>> /\ Last(LastOf(es, k)).op = "put"
LatestRev(es, k) == IF LastOf(es, k) = <<>> THEN 0 ELSE Last(LastOf(es, k)).rev

\* Create wants no entry or a marker, Update the latest revision it is told.
Accepts(es, op, k, rev) ==
  /\ op = "create" => ~Exists(es, k)
  /\ op = "update" => LatestRev(es, k) = rev

Marker(op) == IF op \in {"delete", "purge"} THEN op ELSE "put"

\* A purge drops what its key had.
Written(es, e) ==
  Append(IF e.op = "purge" THEN SelectSeq(es, LAMBDA x : x.key # e.key) ELSE es, e)

\* PurgeDeletes drops the keys that end with a marker.
WithoutDeleted(es) == SelectSeq(es, LAMBDA e : Exists(es, e.key))

\* The latest entry of each key of a set, oldest first.
Latest(es, keys) ==
  SelectSeq(es, LAMBDA e : e.key \in keys /\ e.rev = LatestRev(es, e.key))
KeysIn(es) == {es[i].key : i \in 1..Len(es)}

\* A pattern and a key, by their tokens.
Matches(f, k, star, gt) ==
  LET n == Len(f)
      same(m) == \A i \in 1..m : f[i] \in {star, k[i]}
  IN IF Last(f) = gt THEN Len(k) >= n /\ same(n - 1) ELSE Len(k) = n /\ same(n)
=============================================================================
