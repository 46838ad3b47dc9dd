------------------------------- MODULE PlainKv -------------------------------
(***************************************************************************)
(* What the application is promised: a key-value store of its own keys and *)
(* values, as if nothing was encoded (kv-codec/src/kvcodec.h).  An answer  *)
(* is that of such a store, or an error that has changed nothing and has a *)
(* reason.                                                                 *)
(***************************************************************************)
EXTENDS KvStore, KvKeys

VARIABLES
  style,         \* how keys are read, [path, wild, free, limit]
  entries,       \* the entries, under the tokens of their keys
  watch,         \* the watcher, [on, keys, queue]; End follows the first entries
  asked,         \* the call, [op, keys, value, rev]
  reply,         \* its answer, [st, got]
  strange        \* others have written what the codecs cannot decode

plainVars == <<style, entries, watch, asked, reply, strange>>

NoReply == [st |-> "none", got |-> <<>>]
Answer(got) == [st |-> "OK", got |-> got]

TokensOf(k) == Tokens(style.path, k)

\* The keys that the patterns fs match.
MatchedBy(fs, ts) == \E i \in 1..Len(fs) : Matches(TokensOf(fs[i]), ts, <<Star>>, <<Gt>>)
Chosen(fs) == {ts \in KeysIn(entries) : MatchedBy(fs, ts)}

NoWatch == [on |-> FALSE, keys |-> <<>>, queue |-> <<>>]

PlainInit == entries = <<>> /\ watch = NoWatch /\ reply = NoReply /\ ~strange

\* A call is made.
Ask == reply' = NoReply /\ UNCHANGED <<style, entries, watch, strange>>

Key == TokensOf(asked.keys[1])
Delivered(e) == IF watch.on /\ MatchedBy(watch.keys, e.key) THEN [watch EXCEPT !.queue = Append(@, e)] ELSE watch
Silent == asked' = asked /\ style' = style
Answers(r) == reply' = r /\ Silent /\ strange' = strange

\* An entry is written, by the call or by another application.
Write(byCall) ==
  \E e \in ToSet(entries') \ ToSet(entries) :
    /\ \A i \in 1..Len(entries) : entries[i].rev < e.rev
    /\ entries' = Written(entries, e) /\ watch' = Delivered(e)
    /\ IF byCall
       THEN /\ asked.op \in {"put", "create", "update", "delete", "purge"}
            /\ Accepts(entries, asked.op, Key, asked.rev)
            /\ e.key = Key /\ e.op = Marker(asked.op)
            /\ e.value = (IF e.op = "put" THEN asked.value ELSE <<>>)
            /\ Answers(Answer(<<>>))
       ELSE Silent /\ reply' = reply /\ (strange => strange')

PurgeDeletes ==
  asked.op = "purgeDeletes" /\ entries' = WithoutDeleted(entries) /\ watch' = watch
  /\ Answers(Answer(<<>>))

Reads(got) == Answers(Answer(got)) /\ UNCHANGED <<entries, watch>>
Named(es) == [i \in 1..Len(es) |-> [es[i] EXCEPT !.key = asked.keys[1]]]

\* The key is the one that was asked for, as it was written.
Get == /\ asked.op = "get" /\ Exists(entries, Key)
       /\ Reads(Named(<<Last(LastOf(entries, Key))>>))
GetRevision ==
  /\ asked.op = "getRevision"
  /\ LET found == SelectSeq(LastOf(entries, Key), LAMBDA e : e.rev = asked.rev /\ e.op = "put")
     IN found # <<>> /\ Reads(Named(found))
History == asked.op = "history" /\ Reads(Named(LastOf(entries, Key)))
Keys ==
  /\ asked.op \in {"keys", "allKeys"}
  /\ LET there == Latest(entries, {k \in Chosen(asked.keys) : Exists(entries, k)})
     IN Reads([i \in 1..Len(there) |-> Spelled(style.path, there[i].key)])

Watch ==
  /\ asked.op \in {"watch", "watchAll"} /\ Answers(Answer(<<>>)) /\ entries' = entries
  /\ watch' = [on |-> TRUE, keys |-> asked.keys,
               queue |-> Append(Latest(entries, Chosen(asked.keys)), End)]
Told(x) == IF x = End THEN x ELSE [x EXCEPT !.key = Spelled(style.path, x.key)]
Next1 ==
  /\ asked.op = "next" /\ watch.on /\ watch.queue # <<>>
  /\ watch' = [watch EXCEPT !.queue = Tail(@)] /\ entries' = entries
  /\ Answers(Answer(<<Told(Head(watch.queue))>>))
Unwatch == /\ asked.op \in {"stop", "unwatch"} /\ Answers(Answer(<<>>)) /\ entries' = entries
           /\ watch' = IF asked.op = "stop" THEN [watch EXCEPT !.on = FALSE, !.queue = <<>>] ELSE NoWatch

\* The reasons of an error.
WellFormed(k) ==
  \A i \in 1..Len(TokensOf(k)) :
    TokensOf(k)[i] # <<>> /\ (style.free \/ Range(TokensOf(k)[i]) \cap {Star, Gt} = {})
Wild(f) == Range(f) \cap {Star, Gt} # {}
Reason(s) ==
  CASE s = "NO_MEMORY" -> TRUE
    [] s = "ERR" -> strange
    [] s = "NOT_FOUND" -> \/ asked.op = "get" /\ ~Exists(entries, Key)
                          \/ asked.op = "getRevision"
                             /\ ~\E i \in 1..Len(entries) : /\ entries[i].key = Key /\ entries[i].op = "put"
                                                            /\ entries[i].rev = asked.rev
    [] s = "TIMEOUT" -> asked.op = "next" /\ watch.on /\ watch.queue = <<>>
    [] s = "ILLEGAL_STATE" -> asked.op = "next" /\ ~watch.on
    [] s = "CONFLICT" -> ~Accepts(entries, asked.op, Key, asked.rev)
    [] s = "INVALID_ARG" -> \/ \E i \in 1..Len(asked.keys) : ~WellFormed(asked.keys[i])
                            \/ Len(asked.value) > style.limit
    [] s = "INVALID_SUBJECT" -> ~style.wild /\ \E i \in 1..Len(asked.keys) : Wild(asked.keys[i])
    [] OTHER -> FALSE

\* An entry that cannot be delivered is dropped from the watcher.
Fails ==
  /\ reply'.st # "OK" /\ reply'.got = <<>> /\ Reason(reply'.st)
  /\ Silent /\ strange' = strange /\ entries' = entries
  /\ watch' \in {watch} \cup (IF asked.op = "next" /\ watch.queue # <<>>
                              THEN {[watch EXCEPT !.queue = Tail(@)]} ELSE {})

\* Another application writes what is strange here.
Disturbed == strange' = TRUE /\ Silent /\ UNCHANGED <<entries, watch, reply>>

PlainNext ==
  \/ Ask \/ PurgeDeletes \/ Get \/ GetRevision \/ History \/ Keys \/ Watch \/ Next1 \/ Unwatch
  \/ Fails \/ Disturbed \/ \E byCall \in BOOLEAN : Write(byCall)

PlainSpec == PlainInit /\ [][PlainNext]_plainVars
=============================================================================
