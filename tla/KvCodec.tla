------------------------------ MODULE KvCodec ------------------------------
(***************************************************************************)
(* A key-value store whose keys and values are encoded, kv-codec/src/kv.c. *)
(* One thread of the application calls it; other applications write into   *)
(* the same bucket.  A call that gets entries or keys decodes its own copy *)
(* of them, so what others write meanwhile does not change it: they write  *)
(* before and after.                                                       *)
(***************************************************************************)
EXTENDS KvKeyCodec, KvStore

CONSTANT
  Scenarios      \* [keys, vals]: the codecs; and bounds: the keys (used), patterns and
                 \* values of the application, what others write (foreign), revisions (revs)

VARIABLES
  codec,         \* the scenario
  entries, rev,  \* the bucket, as it is stored, and its last revision
  watcher,       \* [made, on, asked, filters, queue]
  asked, reply,  \* the call and its answer
  strange,       \* others have written what cannot be decoded
  pc,            \* "free", "asked", "fetched", "decoding" or "answered"
  raw, dec,      \* what was fetched and the part of it that is decoded
  moved,         \* the slots of raw that are NULL
  live, twice    \* the blocks that exist, and those freed when they did not

kvVars == <<codec, entries, rev, watcher, asked, reply, strange, pc, raw, dec, moved, live, twice>>

NoCall == [op |-> "none", keys |-> <<>>, value |-> <<>>, rev |-> 0]
Unanswered == [st |-> "none", got |-> <<>>]
NoWatcher == [made |-> FALSE, on |-> FALSE, asked |-> <<>>, filters |-> <<>>, queue |-> <<>>]

KvInit ==
  /\ codec \in Scenarios /\ entries = <<>> /\ rev = 0 /\ watcher = NoWatcher
  /\ asked = NoCall /\ reply = Unanswered /\ strange = FALSE /\ pc = "free"
  /\ raw = <<>> /\ dec = <<>> /\ moved = {} /\ live = {} /\ twice = {}

Decoding == <<raw, dec, moved>>
Memory == <<live, twice>>
Bucket == <<entries, rev>>
Same == codec' = codec /\ strange' = strange

\* The blocks: of what was fetched and of what is decoded; 0 is the array.
RawBlocks(is) == {<<"raw", i>> : i \in is}
DecBlocks(is) == {<<"dec", i>> : i \in is}

\* The blocks of two calls are freed, one call after the other.
Frees(first, then) ==
  /\ twice' = twice \cup (first \cap then) \cup ((first \cup then) \ live)
  /\ live' = live \ (first \cup then)

WriteOps == {"put", "create", "update", "delete", "purge"}
EntryOps == {"get", "getRevision", "history"}
ListOps  == {"history", "keys", "allKeys"}
KeyLists == {"keys", "allKeys"}

-----------------------------------------------------------------------------
(* The application makes a call, and destroys what it got.                 *)

Ask(call) ==
  /\ pc = "free" /\ pc' = "asked" /\ asked' = call /\ reply' = Unanswered
  /\ UNCHANGED <<Bucket, watcher, Decoding, Memory>> /\ Same

Calls ==
  [op : WriteOps \cup EntryOps, keys : {<<k>> : k \in codec.used}, value : codec.values, rev : 0..codec.revs]

\* The arguments an operation has; a write needs a revision that is left.
Sensible(call) ==
  /\ call.op \in {"update", "getRevision"} \/ call.rev = 0
  /\ call.op \in {"put", "create", "update"} \/ call.value = <<>>
  /\ call.op \in WriteOps => rev < codec.revs
  /\ call.op = "history" => Range(call.keys[1]) \cap {Star, Gt} = {}
AskAboutKey == \E call \in Calls : Sensible(call) /\ Ask(call)
AskAboutKeys ==
  \E op \in {"keys", "allKeys", "watch", "watchAll"}, ps \in codec.patterns :
    /\ op \in {"allKeys", "watchAll"} => ps = <<<<Gt>>>>
    /\ op \in {"watch", "watchAll"} => ~watcher.made
    /\ Ask([NoCall EXCEPT !.op = op, !.keys = ps])
AskOther ==
  \E op \in {"purgeDeletes", "next", "stop", "unwatch"} :
    /\ op = "purgeDeletes" \/ watcher.made
    /\ op = "stop" => watcher.on
    /\ Ask([NoCall EXCEPT !.op = op])

\* kvCodecEntry_Destroy, kvCodecEntryList_Destroy and kvCodecKeysList_Destroy.
DestroyedResult ==
  LET all == 1..Len(dec)
  IN DecBlocks(all \cup (IF asked.op \in ListOps /\ dec # <<>> THEN {0} ELSE {}))
     \cup (IF asked.op \in KeyLists THEN {} ELSE RawBlocks(all))
Destroy ==
  /\ pc = "answered" /\ pc' = "free" /\ asked' = NoCall /\ reply' = Unanswered
  /\ Frees(DestroyedResult, {}) /\ raw' = <<>> /\ dec' = <<>> /\ moved' = {}
  /\ UNCHANGED <<Bucket, watcher>> /\ Same

Answers(r) == pc' = "answered" /\ reply' = r /\ asked' = asked /\ Same
Refuses(st) ==
  /\ Answers([st |-> st, got |-> <<>>]) /\ UNCHANGED <<Bucket, watcher, Decoding, Memory>>

-----------------------------------------------------------------------------
(* The bucket's view of a key and of a pattern.                            *)

Separated(k) == \A j \in 1..Len(Split(k, {Dot})) : Split(k, {Dot})[j] # <<>>
ValidKey(k) == Separated(k) /\ Range(k) \cap {Star, Gt} = {}
Selects(fs, k) ==
  \E i \in 1..Len(fs) : Matches(Split(fs[i], {Dot}), Split(k, {Dot}), <<Star>>, <<Gt>>)

\* What an entry decodes to, found once, when it is written.
Readable(v) == v = <<>> \/ DecodeValue(codec.vals, v).st = "OK"
Unreadable == <<-1>>
IsPath == codec.keys # <<>> /\ Head(codec.keys) = "path"
Shown(e) ==
  LET k == DecodeKey(codec.keys, e.key)
  IN [has |-> k.st = "OK", key |-> Tokens(IsPath, k.text),
      value |-> IF e.value = <<>> THEN e.value ELSE IF Readable(e.value)
                THEN DecodeValue(codec.vals, e.value).text ELSE Unreadable]

\* The bucket keeps an entry and delivers it to the watcher.
Stores(e) ==
  LET x == e @@ [rev |-> rev + 1, shown |-> Shown(e)]
  IN /\ rev' = rev + 1 /\ entries' = Written(entries, x)
     /\ watcher' = IF watcher.on /\ Selects(watcher.filters, e.key)
                   THEN [watcher EXCEPT !.queue = Append(@, x)] ELSE watcher

EncKey == EncodeKey(codec.keys, asked.keys[1])

\* Any allocation of a call fails before it has changed anything.
OutOfMemory ==
  /\ pc = "asked" /\ asked.op \notin {"purgeDeletes", "next", "stop", "unwatch"}
  /\ Refuses("NO_MEMORY")

-----------------------------------------------------------------------------
(* _write, kvCodec_Delete, kvCodec_Purge, kvCodec_PurgeDeletes.            *)

\* Without a value codec the caller's buffer goes to the bucket as it is.
EncodedValue ==
  IF codec.vals = <<>> \/ asked.op \in {"delete", "purge"} THEN Ok(asked.value)
  ELSE EncodeValue(codec.vals, asked.value)

WriteRefused ==
  /\ pc = "asked" /\ asked.op \in WriteOps
  /\ \/ EncodedValue.st # "OK" /\ Refuses(EncodedValue.st)
     \/ EncodedValue.st = "OK" /\ ~ValidKey(EncKey) /\ Refuses("INVALID_ARG")
     \/ /\ EncodedValue.st = "OK" /\ ValidKey(EncKey)
        /\ ~Accepts(entries, asked.op, EncKey, asked.rev) /\ Refuses("CONFLICT")

Write ==
  /\ pc = "asked" /\ asked.op \in WriteOps /\ EncodedValue.st = "OK" /\ ValidKey(EncKey)
  /\ Accepts(entries, asked.op, EncKey, asked.rev)
  /\ Stores([key |-> EncKey, op |-> Marker(asked.op), value |-> EncodedValue.text])
  /\ Answers([st |-> "OK", got |-> <<>>]) /\ UNCHANGED <<Decoding, Memory>>

PurgeDeletes ==
  /\ pc = "asked" /\ asked.op = "purgeDeletes" /\ entries' = WithoutDeleted(entries)
  /\ Answers([st |-> "OK", got |-> <<>>]) /\ UNCHANGED <<rev, watcher, Decoding, Memory>>

-----------------------------------------------------------------------------
(* _get, kvCodec_History, kvCodec_Keys, kvCodec_KeysWithFilters: the first *)
(* part, up to the answer of the bucket.                                   *)

\* _encodeFilters; kvCodec_Keys and kvCodec_WatchAll have none to encode.
Filters ==
  IF asked.op \in {"allKeys", "watchAll"} THEN [i \in {1} |-> Ok(asked.keys[1])]
  ELSE [i \in 1..Len(asked.keys) |-> EncodeFilter(codec.keys, asked.keys[i])]
FilterTexts == [i \in 1..Len(asked.keys) |-> Filters[i].text]
FiltersStatus ==
  LET bad == SelectSeq(Filters, LAMBDA f : f.st # "OK")
  IN IF bad # <<>> THEN Head(bad).st
     ELSE IF \E i \in 1..Len(asked.keys) : ~Separated(Filters[i].text) THEN "INVALID_ARG"
     ELSE "OK"

Found ==
  LET own == LastOf(entries, EncKey)
  IN CASE asked.op = "get" -> IF Exists(entries, EncKey) THEN <<Last(own)>> ELSE <<>>
       [] asked.op = "getRevision" -> SelectSeq(own, LAMBDA e : e.rev = asked.rev /\ e.op = "put")
       [] asked.op = "history" -> own
       [] OTHER -> Latest(entries, {k \in KeysIn(entries) : Exists(entries, k) /\ Selects(FilterTexts, k)})

FetchStatus ==
  IF asked.op \in KeyLists THEN FiltersStatus
  ELSE IF ~ValidKey(EncKey) THEN "INVALID_ARG"
  ELSE IF Found = <<>> /\ asked.op # "history" THEN "NOT_FOUND" ELSE "OK"

FetchRefused ==
  /\ pc = "asked" /\ asked.op \in EntryOps \cup KeyLists /\ FetchStatus # "OK"
  /\ Refuses(FetchStatus)

\* What was fetched is the call's; a list is an array and its elements.
Fetches(es) ==
  /\ raw' = es /\ dec' = <<>> /\ moved' = {} /\ pc' = "fetched"
  /\ live' = live \cup RawBlocks(1..Len(es) \cup (IF asked.op \in ListOps THEN {0} ELSE {}))
  /\ UNCHANGED <<asked, reply, twice, Bucket>> /\ Same

Fetch ==
  /\ pc = "asked" /\ asked.op \in EntryOps \cup KeyLists /\ FetchStatus = "OK"
  /\ Fetches(Found) /\ watcher' = watcher

-----------------------------------------------------------------------------
(* The second part: kvcodec_wrapEntry, _decodeKeysList, kvCodec_History.   *)

\* Fault: they are not set to NULL.
SlotKept(slots, i) == slots

\* The slots of raw whose entry belongs to a decoded one.
SlotMoved(slots, i) == slots \cup {i}

\* kvEntryList_Destroy and kvKeysList_Destroy.
RawList == IF asked.op \in ListOps THEN RawBlocks((0..Len(raw)) \ moved) ELSE {}

\* The array of the decoded ones.
MakeRoom ==
  /\ pc = "fetched" /\ pc' = "decoding"
  /\ live' = live \cup (IF asked.op \in ListOps /\ raw # <<>> THEN DecBlocks({0}) ELSE {})
  /\ UNCHANGED <<Bucket, watcher, asked, reply, Decoding, twice>> /\ Same

\* The failure of slot i: a list frees its decoded part, then what was fetched.
DecodedPart ==
  IF asked.op = "history" THEN DecBlocks(1..Len(dec)) \cup RawBlocks(1..Len(dec)) ELSE DecBlocks(1..Len(dec))
Abandons(st) ==
  /\ Answers([st |-> st, got |-> <<>>]) /\ UNCHANGED <<Bucket, watcher>>
  /\ Frees(DecodedPart \cup (DecBlocks({0}) \cap live),
           IF asked.op \in ListOps THEN RawList ELSE RawBlocks({1}))
  /\ raw' = <<>> /\ dec' = <<>> /\ moved' = {}
NoRoom == pc = "fetched" /\ asked.op \in ListOps /\ raw # <<>> /\ Abandons("NO_MEMORY")

Slot == Len(dec) + 1
Undecoded == pc = "decoding" /\ Slot <= Len(raw)

\* An entry that was asked for by its key keeps that key; a marker has no value,
\* and an empty value is not decoded.
DecodedKey == IF asked.op \in EntryOps THEN Ok(asked.keys[1]) ELSE DecodeKey(codec.keys, raw[Slot].key)
DecodedValue ==
  IF asked.op \in KeyLists \/ raw[Slot].op # "put" \/ raw[Slot].value = <<>> \/ codec.vals = <<>>
  THEN Ok(raw[Slot].value) ELSE DecodeValue(codec.vals, raw[Slot].value)

Decode ==
  /\ Undecoded /\ DecodedKey.st = "OK" /\ DecodedValue.st = "OK"
  /\ dec' = Append(dec, [key |-> DecodedKey.text, op |-> raw[Slot].op, value |-> DecodedValue.text, rev |-> raw[Slot].rev])
  /\ moved' = IF asked.op = "history" THEN SlotMoved(moved, Slot) ELSE moved
  /\ live' = live \cup DecBlocks({Slot})
  /\ UNCHANGED <<Bucket, watcher, asked, reply, pc, raw, twice>> /\ Same

Undecodable ==
  /\ Undecoded
  /\ \/ DecodedKey.st # "OK" /\ Abandons(DecodedKey.st)
     \/ DecodedKey.st = "OK" /\ DecodedValue.st # "OK" /\ Abandons(DecodedValue.st)
     \/ Abandons("NO_MEMORY")

Decoded ==
  /\ pc = "decoding" /\ Len(dec) = Len(raw)
  /\ Answers([st |-> "OK",
              got |-> IF asked.op \in KeyLists THEN [i \in 1..Len(dec) |-> dec[i].key] ELSE dec])
  /\ Frees(RawList, {}) /\ UNCHANGED <<Bucket, watcher, Decoding>>

-----------------------------------------------------------------------------
(* The watcher: kvCodec_WatchMulti, kvCodec_WatchAll, kvCodecWatcher_Next, *)
(* kvCodecWatcher_Stop, kvCodecWatcher_Destroy.                            *)

Watch ==
  /\ pc = "asked" /\ asked.op \in {"watch", "watchAll"} /\ FiltersStatus = "OK"
  /\ watcher' = [made |-> TRUE, on |-> TRUE, asked |-> asked.keys, filters |-> FilterTexts,
                 queue |-> Append(Latest(entries, {k \in KeysIn(entries) : Selects(FilterTexts, k)}), End)]
  /\ Answers([st |-> "OK", got |-> <<>>]) /\ UNCHANGED <<Bucket, Decoding, Memory>>
WatchRefused ==
  /\ pc = "asked" /\ asked.op \in {"watch", "watchAll"} /\ FiltersStatus # "OK"
  /\ Refuses(FiltersStatus)

NextRefused ==
  /\ pc = "asked" /\ asked.op = "next"
  /\ \/ ~watcher.on /\ Refuses("ILLEGAL_STATE")
     \/ watcher.on /\ watcher.queue = <<>> /\ Refuses("TIMEOUT")

\* The NULL entry after the first ones is passed on; any other is decoded.
Dequeued == watcher' = [watcher EXCEPT !.queue = Tail(@)]
NextEntry ==
  /\ pc = "asked" /\ asked.op = "next" /\ watcher.on /\ watcher.queue # <<>> /\ Dequeued
  /\ IF Head(watcher.queue) = End
     THEN Answers([st |-> "OK", got |-> <<End>>]) /\ UNCHANGED <<Bucket, Decoding, Memory>>
     ELSE Fetches(<<Head(watcher.queue)>>)

Stop ==
  /\ pc = "asked" /\ asked.op = "stop" /\ watcher' = [watcher EXCEPT !.on = FALSE, !.queue = <<>>]
  /\ Answers([st |-> "OK", got |-> <<>>]) /\ UNCHANGED <<Bucket, Decoding, Memory>>
DestroyWatcher ==
  /\ pc = "asked" /\ asked.op = "unwatch" /\ watcher' = NoWatcher
  /\ Answers([st |-> "OK", got |-> <<>>]) /\ UNCHANGED <<Bucket, Decoding, Memory>>

-----------------------------------------------------------------------------
\* Another application writes into the bucket, with its own codecs or none.
ForeignWrite ==
  /\ pc = "free" /\ rev < codec.revs
  /\ \E f \in codec.foreign :
       /\ Stores([key |-> f.key, op |-> "put", value |-> f.value])
       /\ strange' = (strange \/ DecodeKey(codec.keys, f.key).st # "OK" \/ ~Readable(f.value))
  /\ UNCHANGED <<codec, asked, reply, pc, Decoding, Memory>>

KvNext ==
  \/ AskAboutKey \/ AskAboutKeys \/ AskOther \/ Destroy \/ OutOfMemory
  \/ WriteRefused \/ Write \/ PurgeDeletes \/ FetchRefused \/ Fetch \/ MakeRoom \/ NoRoom
  \/ Decode \/ Undecodable \/ Decoded
  \/ Watch \/ WatchRefused \/ NextRefused \/ NextEntry \/ Stop \/ DestroyWatcher
  \/ ForeignWrite

KvSpec == KvInit /\ [][KvNext]_kvVars

-----------------------------------------------------------------------------
(* What the application sees of the bucket: the entries whose key can be   *)
(* decoded, under the tokens of their keys.                                *)

Plain(es) ==
  LET own == SelectSeq(es, LAMBDA e : e = End \/ e.shown.has)
  IN [i \in 1..Len(own) |->
        IF own[i] = End THEN End
        ELSE [key |-> own[i].shown.key, op |-> own[i].op, value |-> own[i].shown.value, rev |-> own[i].rev]]

\* An entry taken off the watcher's queue is there until it is delivered.
Pending == IF asked.op = "next" /\ pc \in {"fetched", "decoding"} THEN raw ELSE <<>>

\* The longest value that the codecs take.
Longest ==
  LET taken(n) == EncodeValue(codec.vals, [i \in 1..n |-> 0]).st = "OK"
  IN Max({n \in 0..IntMax : taken(n)})

Promise == INSTANCE PlainKv WITH
  style   <- [path |-> IsPath, free |-> "base64" \in Range(codec.keys),
              wild |-> \A i \in 1..Len(codec.keys) : Filterable(codec.keys[i]), limit |-> Longest],
  entries <- Plain(entries),
  watch   <- [on |-> watcher.on, keys |-> watcher.asked, queue |-> Plain(Pending \o watcher.queue)]

\* The application sees a store of its own keys and values: what it writes it
\* gets back under the key it used, its patterns choose the keys that it would
\* say they match, its watcher delivers the writes to them in order, and an
\* error has a reason and has changed nothing (kv.c and every codec).
KeepsPromise == Promise!PlainSpec

\* Every block is freed once: entries move into the list that is returned, and
\* a failure at any slot frees both the decoded part and the rest of what was
\* fetched (kv.c 397-424, 495-561, 236-238, 611-613).
FreedOnce == twice = {} /\ (pc \in {"free", "asked"} => live = {})

\* What a codec writes fits the buffer it has allocated, and lengths stay
\* within an int (path_codec.c, base64_codec.c).
Between(n) == EncodeKey(SubSeq(codec.keys, 1, n - 1), asked.keys[1])
Coders(cs) == {n \in 1..Len(cs) : cs[n] \in {"path", "base64"}}
WithinBuffers ==
  /\ asked.keys # <<>> => \A n \in Coders(codec.keys) :
       LET k == Between(n) IN /\ Len(EncodeWith(codec.keys[n], k)) + 1 <= EncodeRoom(codec.keys[n], k)
                             /\ Len(FilterWith(codec.keys[n], k)) + 1 <= EncodeRoom(codec.keys[n], k)
  /\ \A i \in 1..Len(entries) : codec.keys # <<>> /\ Len(codec.keys) \in Coders(codec.keys) =>
       LET c == Last(codec.keys)
           k == entries[i].key
       IN DecodeWith(c, k).st = "OK" => Len(DecodeWith(c, k).text) + 1 <= DecodeRoom(c, k)
  /\ \A i \in 1..Len(entries) :
       LET v == entries[i].value
           c == Last(codec.vals)
       IN /\ Len(v) <= IntMax
          /\ v # <<>> /\ codec.vals # <<>> /\ c = "base64" /\ DecodeValueWith(c, v).st = "OK"
               => Len(DecodeValueWith(c, v).text) + 1 <= ValueRoom(v)
=============================================================================
