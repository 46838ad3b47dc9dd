---------------------------- MODULE NatsContext ----------------------------
(***************************************************************************)
(* natsContext_Connect, nats-context/src/context.c: finds a context, reads *)
(* it, looks its credentials up, puts its settings on the options of a     *)
(* connection and connects, through a proxy if the context names one.      *)
(* Afterwards the connection may dial again, with the settings destroyed.  *)
(***************************************************************************)
EXTENDS SocksHandshake, CommandRunner, TLC

CONSTANT
  Calls          \* [nc, want, own, retry, again, name, ctx, meant, env, home, target]; and a
                 \* bound: the times that the connection dials again (redials)

VARIABLES
  call,          \* the scenario: the call, the file it finds and what that was meant to say
  pc, st,        \* where the call is, and its status
  settings,      \* natsContextSettings: the fields that are not NULL
  opts,          \* the options that are set
  name,          \* "good" or "bad": the name of the context
  kept, local,   \* the blocks that ctx, and the function that runs, have pointers to
  live, misused, \* the blocks that exist, and those used or freed when they did not
  has,           \* what the application holds
  redials

callVars == <<call, pc, st, settings, opts, name, kept, local, live, misused, has, redials>>
contextVars == <<callVars, socksVars, runVars>>

\* The members of a context file, in the order they are taken.
Fields == <<"Name", "Description", "URL", "SocksProxy", "Token", "User", "Password", "Creds", "Cert",
  "Key", "CA", "NSCLookup", "JSDomain", "JSAPIPrefix", "JSEventPrefix", "InboxPrefix", "UserJwt",
  "ColorScheme", "TLSFirst", "WinCertStoreType", "WinCertStoreMatchBy", "WinCertStoreMatch", "WinCertStoreCaMatch">>
Taken(n) == {f \in DOMAIN call.ctx : \E i \in 1..n : Fields[i] = f}

\* The options of a caller who gives some, and no others.
GivenOpts == IF call.own THEN <<>> ELSE "servers" :> <<<<At>>>>

ContextInit ==
  /\ call \in Calls /\ pc = "start" /\ st = "OK" /\ settings = <<>> /\ opts = GivenOpts
  /\ name = (IF call.name = "bad" THEN "bad" ELSE "good")
  /\ kept = {} /\ local = {} /\ live = (IF call.again THEN {"proxy"} ELSE {}) /\ misused = {}
  /\ has = {} /\ redials = 0
  /\ SocksInit /\ RunInit

Others == UNCHANGED <<call, has, redials, socksVars, runVars>>
Memory == <<kept, local, live, misused>>
Known == <<settings, opts, name>>
Goto(next) == pc' = next /\ st' = st
Fail(s) == pc' = "cleanup" /\ st' = s
Alloc(bs) == live' = live \cup bs /\ misused' = misused
Free(bs) == live' = live \ bs /\ misused' = misused \cup (bs \ live)
Has(f) == f \in DOMAIN settings /\ settings[f] # <<>>

\* A step that only fails, with one of some statuses.
FailsAt(at, statuses) ==
  pc = at /\ (\E s \in statuses : Fail(s)) /\ UNCHANGED <<Memory, Known>> /\ Others

-----------------------------------------------------------------------------
(* natsContext_Connect, to the settings.                                   *)

NoConnection ==
  /\ pc = "start" /\ ~call.nc /\ pc' = "returned" /\ st' = "INVALID_ARG"
  /\ UNCHANGED <<Memory, Known>> /\ Others
CopyName ==
  LET block == {IF call.name = "path" THEN "path" ELSE "name"}
  IN /\ pc = "start" /\ call.nc /\ Goto("create settings") /\ Alloc(block) /\ kept' = block
     /\ UNCHANGED <<local, Known>> /\ Others
CopyNameFails == call.nc /\ FailsAt("start", {"NO_MEMORY"})

CreateSettings ==
  /\ pc = "create settings" /\ Alloc({"settings"})
  /\ Goto(CASE call.name = "path" -> "read" [] call.name = "" -> "select" [] OTHER -> "locate")
  /\ UNCHANGED <<kept, local, Known>> /\ Others
CreateSettingsFails == FailsAt("create settings", {"NO_MEMORY"})

-----------------------------------------------------------------------------
(* _context_loadActiveContext.                                             *)

\* The selected context: none, which is no error, or one with a good or a bad name.
Select ==
  /\ pc = "select" /\ UNCHANGED <<local, settings, opts>> /\ Others
  /\ \/ Goto("create opts") /\ Free({"name"}) /\ kept' = kept \ {"name"} /\ name' = name
     \/ Goto("create opts") /\ Alloc({}) /\ kept' = kept /\ name' = name           \* an empty one
     \/ Goto("locate") /\ Alloc({}) /\ kept' = kept /\ name' \in {"good", "bad"}
SelectFails ==
  /\ pc = "select" /\ Fail("NO_MEMORY") /\ Free({"name"}) /\ kept' = kept \ {"name"}
  /\ UNCHANGED <<local, Known>> /\ Others

Locate ==
  /\ pc = "locate" /\ name = "good" /\ Alloc({"path"}) /\ kept' = kept \cup {"path"}
  /\ Goto("read") \/ Fail("NOT_FOUND")
  /\ UNCHANGED <<local, Known>> /\ Others
LocateFails == FailsAt("locate", IF name = "bad" THEN {"INVALID_ARG"} ELSE {"ERR", "NO_MEMORY"})

ReadFile ==
  /\ pc = "read" /\ Goto("parse") /\ Alloc({"content"}) /\ local' = {"content"}
  /\ UNCHANGED <<kept, Known>> /\ Others
ReadFileFails == FailsAt("read", {"ERR", "NO_MEMORY"})

\* The text is freed whether it can be parsed or not (or is too large).
Parse ==
  /\ pc = "parse" /\ UNCHANGED <<kept, Known>> /\ Others
  /\ misused' = misused \cup (local \ live)
  /\ \/ Goto("unmarshal") /\ live' = (live \ local) \cup {"json"} /\ local' = {"json"}
     \/ (\E s \in {"ERR", "NO_MEMORY"} : Fail(s)) /\ live' = live \ local /\ local' = {}

FieldBlocks(fs) == (fs \ {"TLSFirst"}) \cup (IF "WinCertStoreCaMatch" \in fs THEN {"its elements"} ELSE {})
\* _unmarshalContextSettings: the members up to the one that cannot be taken.
Unmarshal ==
  /\ pc = "unmarshal" /\ UNCHANGED <<kept, opts, name>> /\ Others
  /\ local' = {} /\ misused' = misused \cup (local \ live)
  /\ \E n \in 0..Len(Fields) :
       /\ settings' = [f \in Taken(n) |-> call.ctx[f]]
       /\ live' = (live \ local) \cup FieldBlocks(Taken(n))
       /\ IF n = Len(Fields) THEN Goto("expand") ELSE \E s \in {"ERR", "NO_MEMORY"} : Fail(s)

ExpandCreds ==
  /\ pc = "expand" /\ Goto("look up") /\ UNCHANGED <<Memory, opts, name>> /\ Others
  /\ settings' = IF Has("Creds") THEN [settings EXCEPT !["Creds"] = ExpandEnv(@, call.env)] ELSE settings
ExpandFails == Has("Creds") /\ FailsAt("expand", {"NO_MEMORY"})

-----------------------------------------------------------------------------
(* _context_resolveNscLookup.                                              *)

Context == UNCHANGED <<call, has, redials, socksVars>>
NoLookUp ==
  /\ pc = "look up" /\ ~Has("NSCLookup") /\ Goto("create opts") /\ UNCHANGED <<Memory, Known>> /\ Others
LookUp ==
  /\ pc = "look up" /\ Has("NSCLookup") /\ Goto("running") /\ Start
  /\ UNCHANGED <<Memory, Known>> /\ Context
Running == pc = "running" /\ RunStep /\ UNCHANGED <<callVars, socksVars>>
RunFailed ==
  /\ run.at = "done" /\ run.st # "OK" /\ FailsAt("running", {run.st})
\* The output: of a command that failed, not a profile, or one.
ReadProfile ==
  /\ pc = "running" /\ run.at = "done" /\ run.st = "OK" /\ UNCHANGED <<kept, Known, misused>> /\ Others
  /\ \/ child.code = 0 /\ Goto("profile") /\ live' = live \cup {"json"} /\ local' = {"json"}
     \/ \E s \in (IF child.code # 0 THEN {"ERR"} ELSE {"ERR", "NO_MEMORY"}) :
          Fail(s) /\ UNCHANGED <<live, local>>

Services == {"services", "its services"}
\* user_creds (absent, or a string) and operator.service (absent or empty, or strings).
ProfileCreds ==
  /\ pc = "profile" /\ UNCHANGED <<kept, Known, misused>> /\ Others
  /\ Goto("services") /\ (\E bs \in {{}, {"creds"}} : live' = live \cup bs /\ local' = local \cup bs)
ProfileServices ==
  /\ pc = "services" /\ UNCHANGED <<kept, Known, misused>> /\ Others
  /\ Goto("keep") /\ (\E bs \in {{}, Services} : live' = live \cup bs /\ local' = local \cup bs)
\* What was got before is freed, like the tree.
ProfileFails ==
  /\ pc \in {"profile", "services"} /\ (\E s \in {"ERR", "NO_MEMORY"} : Fail(s))
  /\ Free(local) /\ local' = {} /\ UNCHANGED <<kept, Known>> /\ Others

\* Fault: creds is not set to NULL.
CredsNotForgotten(held) == held

\* Credentials that are not empty move into ctx: the local pointer forgets them.
CredsMoved(held) == held \ {"creds"}
KeepProfile ==
  /\ pc = "keep" /\ UNCHANGED Known /\ Others /\ local' = {}
  /\ \E moves \in {{}, local \cap {"creds"}}, joined \in BOOLEAN :
       LET rest == IF moves = {} THEN local ELSE CredsMoved(local)
           url == IF joined /\ Services \subseteq local THEN {"url"} ELSE {}
       IN /\ kept' = kept \cup moves \cup url
          /\ live' = (live \ rest) \cup url /\ misused' = misused \cup (rest \ live)
          /\ IF joined \/ ~(Services \subseteq local) THEN Goto("create opts") ELSE Fail("NO_MEMORY")

-----------------------------------------------------------------------------
(* _context_setOptions, one setting after the other.                       *)

CreateOpts ==
  /\ pc = "create opts" /\ Goto("servers") /\ Alloc(IF call.own THEN {"opts"} ELSE {})
  /\ UNCHANGED <<kept, local, Known>> /\ Others
CreateOptsFails == call.own /\ FailsAt("create opts", {"NO_MEMORY"})

Setters == <<"servers", "auth", "token", "cert", "ca", "proxy", "inbox", "first", "store", "connect">>
Following(at) == Setters[CHOOSE i \in 2..Len(Setters) : Setters[i - 1] = at]

Homed(f) == ExpandHomedir(settings[f], call.home)
Servers == IF Has("URL") THEN SplitServers(settings["URL"]) ELSE <<>>
Secure == "secure" :> TRUE

\* What a setting puts on the options; nothing, if the context has none.
Setting(at) ==
  CASE at = "servers" /\ Servers # <<>> -> "servers" :> Servers
    [] at = "auth" /\ Has("User") ->
         "user" :> <<settings["User"], IF Has("Password") THEN settings["Password"] ELSE <<>>>>
    [] at = "auth" /\ ~Has("User") /\ Has("Creds") -> "creds" :> Homed("Creds")
    [] at = "token" /\ Has("Token") -> "token" :> Homed("Token")
    [] at = "cert" /\ Has("Cert") /\ Has("Key") -> "cert" :> <<Homed("Cert"), Homed("Key")>> @@ Secure
    [] at = "ca" /\ Has("CA") -> "ca" :> Homed("CA") @@ Secure
    [] at = "inbox" /\ Has("InboxPrefix") -> "inbox" :> settings["InboxPrefix"]
    [] at = "first" /\ "TLSFirst" \in DOMAIN settings -> "first" :> TRUE
    [] OTHER -> <<>>

Set ==
  /\ pc \in Range(Setters) \ {"proxy", "store", "connect"} /\ Goto(Following(pc))
  /\ opts' = Setting(pc) @@ opts /\ UNCHANGED <<Memory, settings, name>> /\ Others
\* A copy cannot be made, or the options do not take the value.
SetFails ==
  /\ pc \in Range(Setters) \ {"proxy", "store", "connect"} /\ Setting(pc) # <<>>
  /\ (\E s \in {"ERR", "NO_MEMORY"} : Fail(s)) /\ UNCHANGED <<Memory, Known>> /\ Others

\* _createProxy: what each URL that occurs is parsed to (a constant, found once).
With(f) == {c \in Calls : f \in DOMAIN c.ctx}
Proxies == [url \in {c.ctx["SocksProxy"] : c \in With("SocksProxy")} |-> ParseURL(url)]

\* natsSocks_ProxyHandler: one proxy for each URL, for as long as the process lives.
Proxy == Proxies[settings["SocksProxy"]]
NoProxy == pc = "proxy" /\ ~Has("SocksProxy") /\ Goto("inbox") /\ UNCHANGED <<Memory, Known>> /\ Others
SetProxy ==
  /\ pc = "proxy" /\ Has("SocksProxy") /\ Proxy.ok
  /\ Goto("inbox") /\ Alloc({"proxy"}) /\ opts' = ("proxy" :> Proxy) @@ opts
  /\ UNCHANGED <<kept, local, settings, name>> /\ Others
ProxyFails ==
  Has("SocksProxy") /\ FailsAt("proxy", IF Proxy.ok THEN {"NO_MEMORY"} ELSE {"ERR", "NO_MEMORY"})

NoStore ==
  /\ pc = "store" /\ ~Has("WinCertStoreType") /\ Goto("connect") /\ UNCHANGED <<Memory, Known>> /\ Others
StoreRefused == Has("WinCertStoreType") /\ FailsAt("store", {"ILLEGAL_STATE"})

-----------------------------------------------------------------------------
(* natsConnection_Connect: the library dials, or the handler does for it.  *)

Connected(s) == pc' = "cleanup" /\ st' = s /\ Alloc({"conn"})
\* Without a connection the call fails, unless the caller wants it to be retried.
Unconnected ==
  IF call.retry THEN Connected("NOT_YET_CONNECTED")
  ELSE Fail("NO_SERVER") /\ UNCHANGED <<live, misused>>
ConnectFailsEarly == FailsAt("connect", {"ERR", "NO_MEMORY"})
ConnectDirectly ==
  /\ pc = "connect" /\ "proxy" \notin DOMAIN opts /\ UNCHANGED <<kept, local, Known>> /\ Others
  /\ Connected("OK") \/ Unconnected

UsesProxy == misused' = misused \cup ({"proxy"} \ live)
ConnectByProxy ==
  /\ pc = "connect" /\ "proxy" \in DOMAIN opts /\ Goto("dialling") /\ Dial(opts["proxy"], call.target)
  /\ UsesProxy /\ UNCHANGED <<kept, local, live, Known, call, has, redials, runVars>>
Dialling == HandlerStep /\ UNCHANGED <<callVars, runVars>>
\* The handshake with the server itself may still fail.
Dialled ==
  /\ pc = "dialling" /\ dial.st \in {"handed", "failed"}
  /\ Unconnected \/ (dial.st = "handed" /\ Connected("OK"))
  /\ dial' = NoDial /\ net' = Quiet /\ pxy' = NewProxy
  /\ UNCHANGED <<kept, local, Known, call, has, redials, fds, io, late, runVars>>

-----------------------------------------------------------------------------
(* The end of natsContext_Connect, and afterwards.                         *)

SettingsBlocks == {"settings"} \cup FieldBlocks(DOMAIN settings)
Good == st \in {"OK", "NOT_YET_CONNECTED"}
Result ==
  IF ~Good THEN {} ELSE {"conn"} \cup (IF call.want THEN {"settings"} ELSE {})
Cleanup ==
  LET ours == (IF call.own /\ "opts" \in live THEN {"opts"} ELSE {}) \cup kept
      theirs == IF (Good /\ call.want) \/ "settings" \notin live THEN {} ELSE SettingsBlocks
  IN /\ pc = "cleanup" /\ Goto("returned") /\ Free(ours \cup theirs) /\ kept' = {} /\ has' = Result
     /\ UNCHANGED <<local, Known, call, redials, socksVars, runVars>>

DestroySettings ==
  /\ "settings" \in has /\ has' = has \ {"settings"} /\ Free(SettingsBlocks)
  /\ UNCHANGED <<call, pc, st, Known, kept, local, redials, socksVars, runVars>>
DestroyConnection ==
  /\ "conn" \in has /\ dial.st = "idle" /\ has' = has \ {"conn"} /\ Free({"conn"})
  /\ UNCHANGED <<call, pc, st, Known, kept, local, redials, socksVars, runVars>>

\* The connection is lost, or was not made yet: it dials again.
Redial ==
  /\ "conn" \in has /\ "proxy" \in DOMAIN opts /\ redials < call.redials /\ redials' = redials + 1
  /\ Dial(opts["proxy"], call.target) /\ UsesProxy
  /\ UNCHANGED <<call, pc, st, Known, kept, local, live, has, runVars>>
Redialled ==
  /\ pc = "returned" /\ dial.st \in {"handed", "failed"}
  /\ dial' = NoDial /\ net' = Quiet /\ pxy' = NewProxy /\ UNCHANGED <<callVars, fds, io, late, runVars>>

-----------------------------------------------------------------------------
LoadStep ==
  \/ NoConnection \/ CopyName \/ CopyNameFails \/ CreateSettings \/ CreateSettingsFails
  \/ Select \/ SelectFails \/ Locate \/ LocateFails \/ ReadFile \/ ReadFileFails \/ Parse \/ Unmarshal
  \/ ExpandCreds \/ ExpandFails
LookUpStep ==
  \/ NoLookUp \/ LookUp \/ Running \/ RunFailed \/ ReadProfile
  \/ ProfileCreds \/ ProfileServices \/ ProfileFails \/ KeepProfile
OptionsStep ==
  \/ CreateOpts \/ CreateOptsFails \/ Set \/ SetFails \/ NoProxy \/ SetProxy \/ ProxyFails
  \/ NoStore \/ StoreRefused
ConnectStep ==
  ConnectFailsEarly \/ ConnectDirectly \/ ConnectByProxy \/ Dialling \/ Dialled \/ Redialled \/ Cleanup
Step == LoadStep \/ LookUpStep \/ OptionsStep \/ ConnectStep

Application == DestroySettings \/ DestroyConnection \/ Redial
Surprise ==
  \/ IoSurprise /\ UNCHANGED <<pxy, dial, callVars, runVars>>
  \/ (ReadFails \/ Killed) /\ UNCHANGED <<callVars, socksVars>>
Child == ChildWorks /\ UNCHANGED <<callVars, socksVars>>
Peer ==
  \/ ProxyStep /\ UNCHANGED <<dial, callVars, runVars>>
  \/ Arrive /\ UNCHANGED <<pxy, dial, callVars, runVars>>
Time == Tick /\ UNCHANGED <<pxy, dial, callVars, runVars>>

ContextNext == Step \/ Application \/ Surprise \/ Child \/ Peer \/ Time
\* The threads of the caller and of the connection run, time passes, and a child that can go on does.
ContextSpec ==
  ContextInit /\ [][ContextNext]_contextVars
  /\ WF_contextVars(Step) /\ WF_contextVars(Time) /\ WF_contextVars(Child)

-----------------------------------------------------------------------------
\* A socket that the handler hands over (socks.c _socksConnect) is where the server's first byte
\* is next: the proxy has accepted this target and nothing of the handshake is left on either
\* side, however its messages were cut.  It saw the credentials of its URL or none, and those
\* only if they were offered.
Wanted(t) ==
  [kind |-> IF t.ip = <<>> THEN 3 ELSE IF Len(t.ip) = 4 THEN 1 ELSE 4,
   address |-> IF t.ip = <<>> THEN t.host ELSE t.ip, port |-> t.port]
HandshakeExact ==
  /\ dial.st = "handed" =>
       /\ pxy.st = "relay" /\ pxy.target = Wanted(dial.target)
       /\ net.here \o net.coming = Info /\ net.sent = <<>>
  /\ pxy.user # <<>> =>
       2 \in pxy.offered /\ <<pxy.user, pxy.pass>> = <<dial.proxy.user, dial.proxy.pass>>

\* Nothing is freed twice or used after it was freed (socks.c: the proxy of a connection that
\* dials again), and what exists after natsContext_Connect is what its caller holds: on a
\* failure nothing, and no socket or pipe of a handler or a command that has ended.
Held == (IF "settings" \in has THEN SettingsBlocks ELSE {}) \cup (has \cap {"conn"})
EverythingOwned ==
  /\ misused = {}
  /\ pc = "returned" => live \ {"proxy"} = Held /\ ends = {} /\ (~Good => has = {})
  /\ dial.st = "idle" => fds = 0

\* When it connects, the options are what the context was meant to say (README.md of
\* nats-context): its servers, one way to authenticate, TLS if there is material for it, its
\* proxy, on top of what the caller gave.  A profile that it names was looked up to the end.
Expected == IF settings = <<>> THEN GivenOpts ELSE call.meant @@ GivenOpts
ConnectsAsMeant ==
  pc \in {"connect", "dialling"} =>
    /\ opts = Expected
    /\ Has("NSCLookup") =>
         run.st = "OK" /\ run.kept = child.total /\ child.how = "exit" /\ child.code = 0

\* natsContext_Connect returns and a dial comes to an end, whatever the proxy does: there is
\* one deadline.  The exception is a child that has more to say than the pipe holds and whose
\* output could not be kept: it and the caller wait for each other (sys.c:144).
Undrained == run.at = "wait" /\ run.st # "OK" /\ child.left > 0
ConnectReturns ==
  /\ pc # "returned" ~> (pc = "returned" \/ Undrained)
  /\ dial.st # "idle" ~> dial.st = "idle"
=============================================================================
