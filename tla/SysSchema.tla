------------------------------ MODULE SysSchema ------------------------------
(***************************************************************************)
(* What the replies of nats-sysclient are made of: for every type the      *)
(* table of its fields, the calls its parse function makes on a node of the*)
(* tree, and those its free function makes.                                *)
(***************************************************************************)
EXTENDS Naturals, Sequences

\* The rows of a table; its numbers and booleans are one row, what happens to
\* one of them happens to any.
Rows(kind, keys) == [i \in 1..Len(keys) |-> [kind |-> kind, key |-> keys[i]]]
Str(keys)     == Rows("str", keys)
StrArray(key) == Rows("strs", <<key>>)
Raw(keys)     == Rows("raw", keys)
Scalars       == Rows("num", <<"numbers">>)

\* The calls; t is the type of what they parse, and free that of the free
\* function they are given.
Call(kind, key, t, free, rows) ==
  [kind |-> kind, key |-> key, t |-> t, free |-> free, rows |-> rows]
Fields(rows)   == Call("fields", "", "", "", rows)      \* sysclient_scanFields, freeFields
Inline(key, t) == Call("inline", key, t, t, <<>>)       \* sysclient_objectInline
Flat(t)        == Call("flat", "", t, t, <<>>)          \* the same node again
Ptr(key, t)    == Call("ptr", key, t, t, <<>>)          \* sysclient_objectPtr
PtrPlain(key, t) == Call("ptr", key, t, "NULL", <<>>)   \* with a NULL free function
Box(key, t)    == Call("box", key, t, "NULL", <<>>)     \* in a new struct, the same node again
Vals(key, t)   == Call("vals", key, t, t, <<>>)         \* sysclient_valueArray
Ptrs(key, t)   == Call("ptrs", key, t, t, <<>>)         \* sysclient_ptrArray
Raws(key)      == Call("raws", key, "", "", <<>>)       \* sysclient_rawJSONArray

\* A type whose free function releases what these calls make, each by the free
\* function of its type, if that has one.
Type(calls) == [parse |-> calls, free |-> calls]
\* A type without a free function.
Unfreed(calls) == [parse |-> calls, free |-> <<>>]

-----------------------------------------------------------------------------
(* sysclient.c                                                             *)

ServerInfoFields == Str(<<"name", "host", "id", "cluster", "domain", "ver">>)
                    \o StrArray("tags") \o Scalars \o Str(<<"time">>)
APIErrorFields   == Scalars \o Str(<<"description">>)
SlowConsumersStatsFields == Scalars
SubDetailFields  == Str(<<"account", "subject", "qgroup", "sid">>) \o Scalars
JetStreamAPIStatsFields == Scalars
JetStreamStatsFields    == Scalars
JetStreamConfigFields   == Str(<<"store_dir", "domain", "unique_tag">>) \o Scalars
PeerInfoFields          == Str(<<"name", "peer">>) \o Scalars
MetaClusterInfoFields   == Str(<<"name", "leader", "peer">>) \o Scalars

ServerInfo == Type(<<Fields(ServerInfoFields)>>)
APIError   == Type(<<Fields(APIErrorFields)>>)
SlowConsumersStats == Unfreed(<<Fields(SlowConsumersStatsFields)>>)
SubDetail  == Type(<<Fields(SubDetailFields)>>)
JetStreamAPIStats == Unfreed(<<Fields(JetStreamAPIStatsFields)>>)
JetStreamStats    == Unfreed(<<Fields(JetStreamStatsFields), Inline("api", "JetStreamAPIStats")>>)
JetStreamConfig   == Type(<<Fields(JetStreamConfigFields)>>)
PeerInfo          == Type(<<Fields(PeerInfoFields)>>)
MetaClusterInfo   == Type(<<Fields(MetaClusterInfoFields), Ptrs("replicas", "PeerInfo")>>)
JetStreamVarz     == Type(<<Ptr("config", "JetStreamConfig"), PtrPlain("stats", "JetStreamStats"),
                            Ptr("meta", "MetaClusterInfo")>>)

-----------------------------------------------------------------------------
(* varz.c                                                                  *)

ClusterOptsFields   == Str(<<"name", "addr">>) \o StrArray("urls") \o Scalars
RemoteGatewayFields == Str(<<"name">>) \o Scalars \o StrArray("urls")
GatewayOptsFields   == Str(<<"name", "host", "advertise">>) \o Scalars
DenyRulesFields     == StrArray("exports") \o StrArray("imports")
RemoteLeafFields    == Str(<<"local_account">>) \o StrArray("urls") \o Scalars
LeafNodeOptsFields  == Str(<<"host">>) \o Scalars
MQTTOptsFields      == Str(<<"host", "no_auth_user">>) \o StrArray("tls_pinned_certs")
                       \o Str(<<"js_domain">>) \o Scalars
WebsocketOptsFields == Str(<<"host", "advertise", "no_auth_user", "jwt_cookie">>)
                       \o StrArray("tls_pinned_certs") \o StrArray("allowed_origins") \o Scalars
OCSPCacheFields     == Str(<<"cache_type">>) \o Scalars
VarzFields ==
  Str(<<"server_id", "server_name", "version", "git_commit", "go", "host", "ip">>)
  \o StrArray("connect_urls") \o StrArray("ws_connect_urls")
  \o Str(<<"http_host", "http_base_path", "start", "now", "uptime", "config_load_time">>)
  \o StrArray("tags") \o StrArray("trusted_operators_jwt") \o Str(<<"system_account">>) \o Scalars

ClusterOpts   == Type(<<Fields(ClusterOptsFields)>>)
RemoteGateway == Type(<<Fields(RemoteGatewayFields)>>)
GatewayOpts   == Type(<<Fields(GatewayOptsFields), Vals("gateways", "RemoteGateway")>>)
DenyRules     == Type(<<Fields(DenyRulesFields)>>)
RemoteLeaf    == Type(<<Fields(RemoteLeafFields), Ptr("deny", "DenyRules")>>)
LeafNodeOpts  == Type(<<Fields(LeafNodeOptsFields), Vals("remotes", "RemoteLeaf")>>)
MQTTOpts      == Type(<<Fields(MQTTOptsFields)>>)
WebsocketOpts == Type(<<Fields(WebsocketOptsFields)>>)
OCSPCache     == Type(<<Fields(OCSPCacheFields)>>)

\* An object whose keys are copied into an array, with a number each.
HTTPReqStats == Call("map", "http_req_stats", "", "", <<>>)

Varz ==
  Type(<<Fields(VarzFields), Inline("cluster", "ClusterOpts"), Inline("gateway", "GatewayOpts"),
         Inline("leaf", "LeafNodeOpts"), Inline("mqtt", "MQTTOpts"),
         Inline("websocket", "WebsocketOpts"), Inline("jetstream", "JetStreamVarz"),
         Ptr("ocsp_peer_cache", "OCSPCache"), PtrPlain("slow_consumer_stats", "SlowConsumersStats"),
         HTTPReqStats, Raws("trusted_operators_claim")>>)

-----------------------------------------------------------------------------
(* connz.c                                                                 *)

TLSPeerCertFields == Str(<<"subject", "spki_sha256", "cert_sha256">>)
ConnInfoFields ==
  Str(<<"kind", "type", "ip", "start", "last_activity", "stop", "reason", "rtt", "uptime",
        "idle", "name", "lang", "version", "tls_version", "tls_cipher_suite",
        "authorized_user", "account">>) \o StrArray("subscriptions_list")
  \o Str(<<"jwt", "issuer_key", "name_tag">>) \o StrArray("tags") \o Str(<<"mqtt_client">>)
  \o Scalars
ConnzFields == Str(<<"server_id", "now">>) \o Scalars

TLSPeerCert == Type(<<Fields(TLSPeerCertFields)>>)
ConnInfo == Type(<<Fields(ConnInfoFields), Ptrs("tls_peer_certs", "TLSPeerCert"),
                   Vals("subscriptions_list_detail", "SubDetail")>>)
Connz    == Type(<<Fields(ConnzFields), Ptrs("connections", "ConnInfo")>>)

-----------------------------------------------------------------------------
(* subsz.c                                                                 *)

SublistStatsFields == Scalars
SubszFields        == Str(<<"server_id", "now">>) \o Scalars

\* The stats are flattened into the reply, and made only if one of their keys
\* is there.
SublistStats == Unfreed(<<Fields(SublistStatsFields)>>)
Subsz == Type(<<Fields(SubszFields), Vals("subscriptions_list", "SubDetail"),
                Box("SublistStats", "SublistStats")>>)

-----------------------------------------------------------------------------
(* healthz.c                                                               *)

HealthzErrorFields == Str(<<"account", "stream", "consumer", "error">>)
HealthzFields      == Str(<<"status", "error">>) \o Scalars

\* The type of an error is read by name, which allocates nothing.
HealthzError == Type(<<Fields(HealthzErrorFields), Fields(Scalars)>>)
Healthz      == Type(<<Fields(HealthzFields), Vals("errors", "HealthzError")>>)

-----------------------------------------------------------------------------
(* statsz.c                                                                *)

DataStatsFields   == Scalars
RouteStatFields   == Str(<<"name">>) \o Scalars
GatewayStatFields == Str(<<"name">>) \o Scalars
ServerStatsFields == Str(<<"start">>) \o Scalars

DataStats   == Unfreed(<<Fields(DataStatsFields)>>)
RouteStat   == Type(<<Fields(RouteStatFields), Inline("sent", "DataStats"),
                      Inline("received", "DataStats")>>)
GatewayStat == Type(<<Fields(GatewayStatFields), Inline("sent", "DataStats"),
                      Inline("received", "DataStats")>>)
ServerStats == Type(<<Fields(ServerStatsFields), Inline("sent", "DataStats"),
                      Inline("received", "DataStats"), Ptrs("routes", "RouteStat"),
                      Ptrs("gateways", "GatewayStat"), Ptr("jetstream", "JetStreamVarz")>>)

-----------------------------------------------------------------------------
(* jsz.c                                                                   *)

RaftGroupDetailFields == Str(<<"name", "raft_group">>)
StreamDetailFields    == Str(<<"name", "created", "stream_raft_group">>)
                         \o Raw(<<"cluster", "config", "state", "mirror">>)
AccountDetailFields   == Str(<<"name", "id">>)
JSInfoFields          == Str(<<"server_id", "now">>) \o Scalars

RaftGroupDetail == Type(<<Fields(RaftGroupDetailFields)>>)
StreamDetail  == Type(<<Fields(StreamDetailFields), Raws("consumer_detail"), Raws("sources"),
                        Ptrs("consumer_raft_groups", "RaftGroupDetail")>>)
AccountDetail == Type(<<Fields(AccountDetailFields), Flat("JetStreamStats"),
                        Vals("stream_detail", "StreamDetail")>>)
JSInfo == Type(<<Fields(JSInfoFields), Inline("config", "JetStreamConfig"),
                 Flat("JetStreamStats"), Ptr("meta_cluster", "MetaClusterInfo"),
                 Ptrs("account_details", "AccountDetail")>>)

-----------------------------------------------------------------------------
Schema ==
  [ServerInfo |-> ServerInfo, APIError |-> APIError, SubDetail |-> SubDetail,
   SlowConsumersStats |-> SlowConsumersStats, JetStreamAPIStats |-> JetStreamAPIStats,
   JetStreamStats |-> JetStreamStats, JetStreamConfig |-> JetStreamConfig,
   PeerInfo |-> PeerInfo, MetaClusterInfo |-> MetaClusterInfo, JetStreamVarz |-> JetStreamVarz,
   ClusterOpts |-> ClusterOpts, RemoteGateway |-> RemoteGateway, GatewayOpts |-> GatewayOpts,
   DenyRules |-> DenyRules, RemoteLeaf |-> RemoteLeaf, LeafNodeOpts |-> LeafNodeOpts,
   MQTTOpts |-> MQTTOpts, WebsocketOpts |-> WebsocketOpts, OCSPCache |-> OCSPCache,
   Varz |-> Varz,
   TLSPeerCert |-> TLSPeerCert, ConnInfo |-> ConnInfo, Connz |-> Connz,
   SublistStats |-> SublistStats, Subsz |-> Subsz,
   HealthzError |-> HealthzError, Healthz |-> Healthz,
   DataStats |-> DataStats, RouteStat |-> RouteStat, GatewayStat |-> GatewayStat,
   Statsz |-> ServerStats,
   RaftGroupDetail |-> RaftGroupDetail, StreamDetail |-> StreamDetail,
   AccountDetail |-> AccountDetail, Jsz |-> JSInfo]

\* The response of an endpoint: _parseEnvelope and sysclient_destroyResp.
Resp(payload) ==
  Type(<<Inline("server", "ServerInfo"), Inline("error", "APIError"),
         Inline(payload.key, payload.t)>>)
=============================================================================
