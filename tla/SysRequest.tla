----------------------------- MODULE SysRequest -----------------------------
(***************************************************************************)
(* The options of the requests of nats-sysclient: how each endpoint writes *)
(* them as the request's body, and how a walk keeps a copy of them.        *)
(***************************************************************************)
EXTENDS JsonWriter, FiniteSets

\* The calls that write the members: "add" always, "opt" only what is set.
Calls(how, kind, keys) == [i \in 1..Len(keys) |-> [how |-> how, kind |-> kind, key |-> keys[i]]]
Add(kind, keys) == Calls("add", kind, keys)
Opt(kind, keys) == Calls("opt", kind, keys)

\* sysclient_writeEventFilter.
EventFilter == Opt("str", <<"server_name", "cluster", "host">>) \o Opt("strs", <<"tags">>)
               \o Opt("str", <<"domain">>)

MarshalConnz ==
  Add("str", <<"sort">>) \o Add("bool", <<"auth", "subscriptions", "subscriptions_detail">>)
  \o Add("num", <<"offset", "limit", "cid">>) \o Add("str", <<"mqtt_client">>)
  \o Add("num", <<"state">>) \o Add("str", <<"user", "acc", "filter_subject">>) \o EventFilter

MarshalHealthz ==
  Opt("bool", <<"js-enabled-only", "js-server-only">>)
  \o Opt("str", <<"account", "stream", "consumer">>) \o Opt("bool", <<"details">>)

MarshalJsz ==
  Opt("str", <<"account">>)
  \o Opt("bool", <<"accounts", "streams", "consumer", "config", "leader_only">>)
  \o Opt("num", <<"offset", "limit">>) \o Opt("bool", <<"raft", "stream_leader_only">>)
  \o EventFilter

MarshalSubsz ==
  Add("num", <<"offset", "limit">>) \o Add("bool", <<"subscriptions">>)
  \o Opt("str", <<"account", "test">>)

\* Varz and Statsz have sysclient_marshalFilterOnly.
Marshalled(endpoint) ==
  CASE endpoint = "Connz" -> MarshalConnz [] endpoint = "Healthz" -> MarshalHealthz
    [] endpoint = "Jsz" -> MarshalJsz     [] endpoint = "Subsz" -> MarshalSubsz
    [] OTHER -> EventFilter

-----------------------------------------------------------------------------
(* The options: the keys that are set, one text for every string, and      *)
(* whether the tags have a NULL entry.  No options are options with nothing*)
(* set.                                                                    *)

Set(o, c) == c.key \in o.keys /\ (c.kind = "str" => o.text # <<>>)

\* What natsJSONWriter_AddStr, AddBool, AddInt, AddUInt and AddStrArray are given.
PlainText(o, c) ==
  IF c.kind = "bool" THEN <<IF c.key \in o.keys THEN "true" ELSE "false">>
  ELSE <<IF c.key \in o.keys THEN "d" ELSE "0">>

AddMember(w, o, c) ==
  CASE c.kind = "str"  -> AddStr(w, c.key, IF c.key \in o.keys THEN o.text ELSE <<>>)
    [] c.kind = "strs" -> AddStrArray(w, c.key, <<o.text, o.text>>)
    [] OTHER           -> AddPlain(w, c.key, PlainText(o, c))

\* sysclient_optStr, optBool, optInt and optStrArray.
OptMember(w, o, c) ==
  IF ~Set(o, c) THEN w
  ELSE IF c.kind = "strs" /\ o.null THEN WriterFail(w, "INVALID_ARG")
  ELSE AddMember(w, o, c)

Member(w, o, c) == IF c.how = "add" THEN AddMember(w, o, c) ELSE OptMember(w, o, c)

-----------------------------------------------------------------------------
(* The copy a walk keeps: its allocations in their order.                  *)

\* Duplicated by _copyOptions, before the filter.
CopiedConnz == <<"sort", "mqtt_client", "user", "acc", "filter_subject">>
CopiedJsz   == <<"account">>
CopiedSubsz == <<"account", "test">>

\* _freeOptionsCopy, without the filter.
FreedConnz == {"sort", "mqtt_client", "user", "acc", "filter_subject"}
FreedJsz   == {"account"}
FreedSubsz == {"account", "test"}

\* sysclient_copyEventFilter and sysclient_freeEventFilter.
CopiedFilter == <<"server_name", "cluster", "host", "domain", "tags">>
FreedFilter  == {"server_name", "cluster", "host", "domain", "tags"}

Copied(endpoint) == CASE endpoint = "Connz" -> CopiedConnz \o CopiedFilter
                      [] endpoint = "Jsz"   -> CopiedJsz \o CopiedFilter
                      [] endpoint = "Subsz" -> CopiedSubsz
FreedOptions(endpoint) == CASE endpoint = "Connz" -> FreedConnz \cup FreedFilter
                            [] endpoint = "Jsz"   -> FreedJsz \cup FreedFilter
                            [] endpoint = "Subsz" -> FreedSubsz

\* _dupOptStrArray: the array, then its entries.
CopyOf(key) == IF key = "tags" THEN <<<<"tags">>, <<"tags", 1>>, <<"tags", 2>>>> ELSE <<<<key>>>>

\* _newWalk: the walk, the server's ID, the options, and what they point to.
WalkAllocations(endpoint, o) ==
  <<<<"walk">>, <<"serverID">>, <<"opts">>>>
  \o FlattenSeq([i \in 1..Len(Copied(endpoint)) |->
       IF Copied(endpoint)[i] \in o.keys THEN CopyOf(Copied(endpoint)[i]) ELSE <<>>])

\* What is held when the allocation after the first n fails: an array that is
\* not complete is freed by _dupOptStrArray, and the filter by the function that copies it.
HeldAfter(endpoint, o, n) ==
  LET all  == WalkAllocations(endpoint, o)
      held == {all[i] : i \in 1..n}
      inFilter == n < Len(all) /\ all[n + 1][1] \in FreedFilter
  IN {b \in held : ~(inFilter /\ b[1] \in FreedFilter)}

\* sysclient_walkDestroy.
WalkFreed(endpoint, held) ==
  {b \in held : b[1] \in {"walk", "serverID", "opts"} \cup FreedOptions(endpoint)}
=============================================================================
