----------------------------- MODULE SocksProxy -----------------------------
(***************************************************************************)
(* A SOCKS5 proxy as the library meets it (RFC 1928, RFC 1929; the one of  *)
(* nats-context/test/test.c): it reads each message when it has all of it  *)
(* and answers what it likes.  Once it has accepted a target, the bytes of *)
(* the server behind it follow its reply without a gap.                    *)
(***************************************************************************)
EXTENDS SockIo

VARIABLE pxy                     \* [st, offered (methods), user, pass, target]

NewProxy == [st |-> "greeting", offered |-> {}, user |-> <<>>, pass |-> <<>>,
             target |-> [kind |-> 0, address |-> <<>>, port |-> 0]]
Info == <<73>>                   \* the beginning of the server's INFO

\* The bytes that a message has, as far as those that are here tell.
GreetingLen(b) == IF Len(b) < 2 THEN 2 ELSE 2 + b[2]
AuthLen(b) ==
  IF Len(b) < 2 THEN 2 ELSE IF Len(b) < 3 + b[2] THEN 3 + b[2] ELSE 3 + b[2] + b[3 + b[2]]
AddressLen(b) == IF b[4] = 1 THEN 4 ELSE IF b[4] = 4 THEN 16 ELSE 1 + b[5]
RequestLen(b) == IF Len(b) < 5 THEN 5 ELSE 6 + AddressLen(b)

\* The proxy is in state st and has a whole message; it answers.
Answers(st, length, answer, next) ==
  /\ pxy.st = st /\ Len(net.sent) >= length
  /\ net' = [net EXCEPT !.sent = SubSeq(@, length + 1, Len(@)), !.coming = @ \o answer]
  /\ pxy' = next /\ UNCHANGED <<fds, io, late>>

Methods == {<<5, 0>>, <<5, 1>>, <<5, 2>>, <<5, 255>>, <<4, 0>>}
AnswerGreeting ==
  LET n == GreetingLen(net.sent)
      next(c) == IF c = <<5, 0>> THEN "request" ELSE IF c = <<5, 2>> THEN "auth" ELSE "over"
  IN \E c \in Methods :
       Answers("greeting", n, c, [pxy EXCEPT !.st = next(c), !.offered = Range(SubSeq(net.sent, 3, n))])

AnswerAuth ==
  LET b == net.sent
      n == AuthLen(b)
  IN \E status \in {0, 1} :
       Answers("auth", n, <<1, status>>,
               [pxy EXCEPT !.st = IF status = 0 THEN "request" ELSE "over",
                           !.user = SubSeq(b, 3, 2 + b[2]), !.pass = SubSeq(b, 4 + b[2], n)])

\* Addresses of every kind, which also look like replies; an accepted and a refused request.
Bound == {<<1, 5, 0, 0, 1>>, <<3, 0>>, <<3, 2, 5, 0>>, <<4>> \o [i \in 1..16 |-> i % 5]}
Accepted == {<<5, 0, 0>> \o a \o <<0, 9>> : a \in Bound}
Rejected == {<<5, r, 0, 1, 0, 0, 0, 0, 0, 0>> : r \in {1, 2, 3, 6}} \cup {<<5, 0, 0, 9>>, <<4, 0, 0, 1>>}
AnswerRequest ==
  LET b == net.sent
      n == RequestLen(b)
      target == [kind |-> b[4], address |-> SubSeq(b, IF b[4] = 3 THEN 6 ELSE 5, n - 2),
                 port |-> 256 * b[n - 1] + b[n]]
      next(st) == [pxy EXCEPT !.st = st, !.target = target]
  IN \/ \E r \in Accepted : Answers("request", n, r \o Info, next("relay"))
     \/ \E r \in Rejected : Answers("request", n, r, next("over"))

HangUp ==
  /\ io.op \in {"write", "read"} /\ ~net.ended
  /\ net' = [net EXCEPT !.ended = TRUE]
  /\ pxy' = [pxy EXCEPT !.st = IF @ = "relay" THEN @ ELSE "over"]
  /\ UNCHANGED <<fds, io, late>>

ProxyStep == AnswerGreeting \/ AnswerAuth \/ AnswerRequest \/ HangUp
=============================================================================
