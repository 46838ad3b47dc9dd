--------------------------- MODULE SocksHandshake ---------------------------
(***************************************************************************)
(* The handler that reaches a server through a SOCKS5 proxy,               *)
(* nats-context/src/socks.c (_socksConnect): all of it under one deadline. *)
(***************************************************************************)
EXTENDS SocksProxy, ContextText

VARIABLE dial    \* [st, proxy, target, result]: where the handler is and what it is for

socksVars == <<ioVars, pxy, dial>>

\* A target: host is the text, ip what natsSys_SockParseIP makes of it (4 or 16 bytes, or none).
NoTarget == [host |-> <<>>, ip |-> <<>>, port |-> 0]
NoDial == [st |-> "idle", proxy |-> Refused, target |-> NoTarget, result |-> "none"]
SocksInit == IoInit /\ pxy = NewProxy /\ dial = NoDial

\* _socksConnect is called; the deadline is set.
Dial(proxy, target) ==
  /\ dial.st = "idle" /\ io' = Begin("resolve", <<>>, 0) /\ net' = Quiet /\ late' = FALSE
  /\ dial' = [NoDial EXCEPT !.st = "connect", !.proxy = proxy, !.target = target]
  /\ pxy' = NewProxy /\ fds' = fds

\* A step of the handler: after the operation it waited for, it begins the next one.
Done(st) == dial.st = st /\ io.st = "OK"
Goes(st) == dial' = [dial EXCEPT !.st = st]
Writes(st, bytes) == Goes(st) /\ io' = Begin("write", bytes, 0) /\ UNCHANGED <<fds, net, late, pxy>>
Reads(st, n) == Goes(st) /\ io' = Begin("read", <<>>, n) /\ UNCHANGED <<fds, net, late, pxy>>

\* The handler fails: it closes the socket, if it got one.
Fails(st) ==
  /\ dial' = [dial EXCEPT !.st = "failed", !.result = st]
  /\ fds' = (IF dial.st = "connect" THEN fds ELSE fds - 1)
  /\ io' = NoIo /\ UNCHANGED <<net, late, pxy>>
IoFailed == dial.st # "idle" /\ io.st \notin {"OK", "pending"} /\ Fails(io.st)

-----------------------------------------------------------------------------
(* _negotiate and _authenticate.                                           *)

HasUser == dial.proxy.user # <<>>
Greeting == IF HasUser THEN <<5, 2, 0, 2>> ELSE <<5, 1, 0>>
Credentials ==
  <<1, Len(dial.proxy.user)>> \o dial.proxy.user \o <<Len(dial.proxy.pass)>> \o dial.proxy.pass

Greet == Done("connect") /\ Writes("greet", Greeting)
ReadMethod == Done("greet") /\ Reads("method", 2)

MethodStatus(b) ==
  IF b[1] # 5 THEN "PROTOCOL_ERROR"
  ELSE IF b[2] = 0 \/ (b[2] = 2 /\ HasUser) THEN "OK"
  ELSE IF b[2] = 255 THEN "NOT_PERMITTED" ELSE "PROTOCOL_ERROR"
MethodRefused ==
  /\ Done("method") /\ MethodStatus(io.got) # "OK" /\ Fails(MethodStatus(io.got))
Authenticate ==
  /\ Done("method") /\ MethodStatus(io.got) = "OK" /\ io.got[2] = 2
  /\ Writes("auth", Credentials)
ReadAuth == Done("auth") /\ Reads("authReply", 2)
AuthRefused == Done("authReply") /\ io.got[2] # 0 /\ Fails("NOT_PERMITTED")

Negotiate == Greet \/ ReadMethod \/ MethodRefused \/ Authenticate \/ ReadAuth \/ AuthRefused

-----------------------------------------------------------------------------
(* _requestConnect.                                                        *)

Negotiated ==
  \/ Done("method") /\ MethodStatus(io.got) = "OK" /\ io.got[2] = 0
  \/ Done("authReply") /\ io.got[2] = 0

Address(t) ==
  IF t.ip # <<>> THEN <<IF Len(t.ip) = 4 THEN 1 ELSE 4>> \o t.ip
  ELSE <<3, Len(t.host)>> \o t.host
Request(t) == <<5, 1, 0>> \o Address(t) \o <<t.port \div 256, t.port % 256>>
TooLong(t) == t.ip = <<>> /\ Len(t.host) > MaxStr
AskConnect == Negotiated /\ ~TooLong(dial.target) /\ Writes("request", Request(dial.target))
AskNothing == Negotiated /\ TooLong(dial.target) /\ Fails("INVALID_ARG")
ReadReply == Done("request") /\ Reads("reply", 4)

\* _replyStatus
ReplyStatus(code) ==
  CASE code = 2 -> "NOT_PERMITTED" [] code \in 3..5 -> "NO_SERVER" [] code = 6 -> "TIMEOUT" [] OTHER -> "ERR"
ReplyError(b) ==
  IF b[1] # 5 THEN "PROTOCOL_ERROR" ELSE IF b[2] # 0 THEN ReplyStatus(b[2])
  ELSE IF b[4] \notin {1, 3, 4} THEN "PROTOCOL_ERROR" ELSE "OK"
ReplyRefused == Done("reply") /\ ReplyError(io.got) # "OK" /\ Fails(ReplyError(io.got))

\* Fault: the port of the reply is left on the socket.
WithoutPort(bound) == bound

\* What is left of the reply: the address it is bound to, and the port.
Rest(bound) == bound + 2
ReadRest ==
  /\ Done("reply") /\ ReplyError(io.got) = "OK" /\ io.got[4] # 3
  /\ Reads("rest", Rest(IF io.got[4] = 1 THEN 4 ELSE 16))
ReadDomainLen ==
  /\ Done("reply") /\ ReplyError(io.got) = "OK" /\ io.got[4] = 3 /\ Reads("domain", 1)
ReadDomain == Done("domain") /\ Reads("rest", Rest(io.got[1]))

\* The socket goes to the library that asked for it.
HandOver ==
  /\ Done("rest") /\ dial' = [dial EXCEPT !.st = "handed", !.result = "OK"]
  /\ io' = NoIo /\ fds' = fds - 1 /\ UNCHANGED <<net, late, pxy>>

RequestConnect ==
  AskConnect \/ AskNothing \/ ReadReply \/ ReplyRefused \/ ReadRest \/ ReadDomainLen \/ ReadDomain \/ HandOver

HandlerStep ==
  \/ IoStep /\ UNCHANGED <<pxy, dial>>
  \/ IoFailed \/ Negotiate \/ RequestConnect
=============================================================================
