---------------------------- MODULE MCNatsContext ----------------------------
(* Contexts for TLC, each with the options that it was meant to set.       *)
EXTENDS NatsContext

\* Bytes: a b h p t u x, and X and Y, of which only X is in the environment.
a == 97  b == 98  h == 104  p == 112  t == 116  u == 117  x == 120  X == 88  Y == 89
Home == <<Slash, h>>
Env == <<X>> :> <<x>>

\* How a call is made, and what it finds.
Plain == [nc |-> TRUE, want |-> TRUE, own |-> TRUE, retry |-> FALSE, again |-> FALSE, name |-> "path",
          env |-> Env, home |-> Home, target |-> NoTarget, redials |-> 0]
Finds(ctx, meant) == [ctx |-> ctx, meant |-> meant]

-----------------------------------------------------------------------------
(* The members of a file, and every way to ask for it.                     *)
Ways ==
  {[Plain EXCEPT !.want = w, !.own = o, !.retry = r, !.name = n] :
     w \in BOOLEAN, o \in BOOLEAN, r \in BOOLEAN, n \in {"path", "named", "bad", ""}}

Everything ==
  [f \in Range(Fields) \ {"SocksProxy", "NSCLookup", "WinCertStoreType"} |->
     CASE f = "URL" -> <<32, a, 32, Comma, Comma, b>> [] f = "Token" -> <<Tilde, t>>
       [] f = "Description" -> <<>> [] OTHER -> <<x>>]
EverythingMeant ==
  "servers" :> <<<<a>>, <<b>>>> @@ "user" :> <<<<x>>, <<x>>>> @@ "token" :> (Home \o <<t>>)
    @@ "cert" :> <<<<x>>, <<x>>>> @@ "ca" :> <<x>> @@ "secure" :> TRUE @@ "inbox" :> <<x>> @@ "first" :> TRUE
Parts ==
  {Finds(Everything, EverythingMeant),
   Finds("CA" :> <<a>> @@ "Cert" :> <<b>> @@ "URL" :> <<Comma, 32>>, "ca" :> <<a>> @@ "secure" :> TRUE),
   Finds("Cert" :> <<a>> @@ "Key" :> <<Tilde>> @@ "Password" :> <<p>>,
         "cert" :> <<<<a>>, Home>> @@ "secure" :> TRUE),
   Finds("User" :> <<u>> @@ "WinCertStoreType" :> <<a>>, "user" :> <<<<u>>, <<>>>>)}

-----------------------------------------------------------------------------
(* Paths of credentials, piece by piece, and what the pieces stand for.    *)
Piece(text, value) == [text |-> text, value |-> value]
BareX == Piece(<<Dollar, X>>, <<x>>)
Open == Piece(<<Dollar, LBrace>>, <<>>)
Pieces ==
  {Piece(<<a>>, <<a>>), Piece(<<Tilde>>, <<Tilde>>), BareX, Open,
   Piece(<<Dollar, LBrace, X, RBrace>>, <<x>>), Piece(<<Dollar, LBrace, Y, RBrace>>, <<>>),
   Piece(<<Dollar, Star>>, <<>>), Piece(<<Dollar, LBrace, Star, RBrace>>, <<>>),
   Piece(<<Dollar, LBrace, RBrace>>, <<>>), Piece(<<Dollar, Slash>>, <<Dollar, Slash>>)}
\* A name ends where the next piece begins, and a brace stays open only at the end.
Separate(q, r) == (q = BareX => Head(r.text) # a) /\ q # Open
Meaning(q, r) ==
  LET value == q.value \o r.value
  IN IF value = <<>> THEN <<>> ELSE IF Head(value) = Tilde THEN Home \o Tail(value) ELSE value
Paths ==
  {Finds("Creds" :> (q.text \o r.text), IF Meaning(q, r) = <<>> THEN <<>> ELSE "creds" :> Meaning(q, r)) :
     <<q, r>> \in {qr \in Pieces \X Pieces : Separate(qr[1], qr[2])}}

-----------------------------------------------------------------------------
(* Addresses of proxies, and the servers that are reached through them.    *)
Via(host, port, user, pass) == [ok |-> TRUE, host |-> host, port |-> port, user |-> user, pass |-> pass]
Socks == <<115, 111, 99, 107, 115, 53, Colon, Slash, Slash>>
SocksH == <<83, 79, 99, 107, 115, 53, 104, Colon, Slash, Slash>>
Loopback == <<Colon, Colon, 49>>
GoodProxies ==
  {<<<<h>>, Via(<<h>>, 1080, <<>>, <<>>)>>,
   <<Socks \o <<u, Colon, p, At, h, Colon, 57>>, Via(<<h>>, 9, <<u>>, <<p>>)>>,
   <<SocksH \o <<u, Percent, 52, 48, Colon, Percent, 51, a, At, p, At, LBracket>> \o Loopback \o
       <<RBracket, Colon, 55, 48, Slash, At>>, Via(Loopback, 70, <<u, At>>, <<Colon, At, p>>)>>,
   <<<<u, At, LBracket>> \o Loopback \o <<RBracket>>, Via(Loopback, 1080, <<u>>, <<>>)>>}
BadProxies ==
  {<<116>> \o Tail(Socks) \o <<h>>, <<h, Colon, 48>>, <<h, Colon>>, <<h, Colon, 55, 48, 48, 48, 48>>,
   <<Colon, p, At, h>>, <<u, Percent, 52, At, h>>, <<u, u, u, u, At, h>>, <<u, Colon, p, p, p, p, At, h>>,
   <<LBracket>> \o Loopback, <<LBracket, RBracket>>, <<LBracket, a, RBracket, 57>>, Socks, <<u, At>>}
Malformed == {Finds("SocksProxy" :> url, <<>>) : url \in BadProxies}

Target(host, ip) == [host |-> host, ip |-> ip, port |-> 4222]
Targets ==
  {Target(<<a>>, <<>>), Target(<<a, a, a, a>>, <<>>), Target(<<49>>, <<5, 0, 0, 1>>),
   Target(Loopback, [i \in 1..16 |-> i % 4])}
Finding(way, found) == way @@ found
ByProxy ==
  {Finding([Plain EXCEPT !.target = to], Finds("SocksProxy" :> q[1], "proxy" :> q[2])) :
     <<q, to>> \in {qt \in GoodProxies \X Targets : Len(qt[1][1]) = 1 \/ qt[2].host = <<a>>}}
    \cup {Finding([Plain EXCEPT !.target = Target(<<a>>, <<>>), !.own = FALSE, !.retry = TRUE, !.again = TRUE, !.redials = 1],
                  Finds("SocksProxy" :> <<h>>, "proxy" :> Via(<<h>>, 1080, <<>>, <<>>)))}

Nsc == Finds("NSCLookup" :> <<x>> @@ "URL" :> <<a>>, "servers" :> <<<<a>>>>)

MCCalls ==
  {Finding([Plain EXCEPT !.nc = FALSE], Nsc)}
    \cup {Finding(way, part) : way \in {w \in Ways : ~(w.own /\ w.retry)}, part \in Parts}
    \cup {Finding(Plain, found) : found \in Paths \cup Malformed \cup {Nsc}}
    \cup ByProxy
=============================================================================
