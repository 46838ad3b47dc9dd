----------------------------- MODULE ContextText -----------------------------
(***************************************************************************)
(* The texts of a context file that mean more than what they say: lists of *)
(* servers, references to the environment, a home directory, the address   *)
(* of a proxy (nats-context/src/context.c, socks.c).  Sequences of bytes.  *)
(***************************************************************************)
EXTENDS KvKeys

CONSTANT MaxStr                                   \* SOCKS_MAX_STR

Spaces   == {9, 10, 11, 12, 13, 32}
Digits   == 48..57
AlphaNum == {95} \cup Digits \cup (97..122) \cup (65..90)
Special  == Digits \cup {42, 35, 36, 64, 33, 63, 45}          \* * # $ @ ! ? -
Comma == 44      Colon == 58      At == 64      Percent == 37
Dollar == 36     Tilde == 126     LBrace == 123 RBrace == 125
LBracket == 91   RBracket == 93

\* The first and the last place of a byte, 0 if there is none.
Places(t, c) == {i \in 1..Len(t) : t[i] = c}
IndexOf(t, c) == IF Places(t, c) = {} THEN 0 ELSE Min(Places(t, c))
LastIndexOf(t, c) == Max({0} \cup Places(t, c))
Before(t, i) == SubSeq(t, 1, i - 1)
After(t, i) == SubSeq(t, i + 1, Len(t))
CString(t) == IF IndexOf(t, 0) = 0 THEN t ELSE Before(t, IndexOf(t, 0))

-----------------------------------------------------------------------------
\* Fault: blanks around a server belong to it.
NotTrimmed(t) == t

\* _splitServers trims a server on both sides.
Trim(t) ==
  LET black == {i \in 1..Len(t) : t[i] \notin Spaces}
  IN IF black = {} THEN <<>> ELSE SubSeq(t, Min(black), Max(black))
SplitServers(url) ==
  LET parts == Split(url, {Comma})
  IN SelectSeq([j \in 1..Len(parts) |-> Trim(parts[j])], LAMBDA s : s # <<>>)
JoinServers(servers) == Join(servers, Comma)

\* What follows a '$': the name that is referred to and the bytes it takes.
\* Without a name, the bytes are dropped; without bytes, the '$' is kept.
ShellName(s) ==
  LET close == IndexOf(s, RBrace)
      run == {n \in 0..Len(s) : \A i \in 1..n : s[i] \in AlphaNum}
  IN IF s[1] = LBrace
     THEN IF Len(s) > 2 /\ s[2] \in Special /\ s[3] = RBrace THEN [name |-> <<s[2]>>, taken |-> 3]
          ELSE IF close = 0 THEN [name |-> <<>>, taken |-> 1]
          ELSE [name |-> SubSeq(s, 2, close - 1), taken |-> close]
     ELSE IF s[1] \in Special THEN [name |-> <<s[1]>>, taken |-> 1]
     ELSE [name |-> SubSeq(s, 1, Max(run)), taken |-> Max(run)]

\* env: the variables that are set, by their names.
ExpandEnv(src, env) ==
  LET from[i \in 1..(Len(src) + 1)] ==
        IF i > Len(src) THEN <<>>
        ELSE IF src[i] # Dollar \/ i = Len(src) THEN <<src[i]>> \o from[i + 1]
        ELSE LET ref == ShellName(After(src, i))
                 shown == IF ref.taken = 0 THEN <<Dollar>>
                          ELSE IF ref.name \in DOMAIN env THEN env[ref.name] ELSE <<>>
             IN shown \o from[i + ref.taken + 1]
  IN from[1]

\* home: empty if it cannot be found.
ExpandHomedir(path, home) ==
  IF path # <<>> /\ Head(path) = Tilde /\ home # <<>> THEN home \o Tail(path) ELSE path

-----------------------------------------------------------------------------
(* [socks5://][user[:password]@]host[:port].  An empty user is no user.    *)

Refused == [ok |-> FALSE, user |-> <<>>, pass |-> <<>>, host |-> <<>>, port |-> 0]

HexVal(c) ==
  IF c \in Digits THEN c - 48 ELSE IF c \in 97..102 THEN c - 87 ELSE IF c \in 65..70 THEN c - 55 ELSE -1
PctValid(t) ==
  \A i \in 1..Len(t) :
    t[i] = Percent => i + 2 <= Len(t) /\ HexVal(t[i + 1]) >= 0 /\ HexVal(t[i + 2]) >= 0
PctDecode(t) ==
  LET escaped(i) == \E j \in {i - 1, i - 2} \cap (1..Len(t)) : t[j] = Percent
      starts == SelectSeq([i \in 1..Len(t) |-> i], LAMBDA i : ~escaped(i))
      byte(i) == IF t[i] = Percent THEN 16 * HexVal(t[i + 1]) + HexVal(t[i + 2]) ELSE t[i]
  IN CString([n \in 1..Len(starts) |-> byte(starts[n])])

\* 0: not a port.
ParsePort(t) ==
  LET value == FoldLeft(LAMBDA n, c : IF n > 65535 THEN n ELSE 10 * n + (c - 48), 0, t)
  IN IF t # <<>> /\ Range(t) \subseteq Digits /\ value <= 65535 THEN value ELSE 0

UserInfo(t) ==
  LET colon == IndexOf(t, Colon)
      user == IF colon = 0 THEN t ELSE Before(t, colon)
      pass == IF colon = 0 THEN <<>> ELSE After(t, colon)
      valid == user # <<>> /\ PctValid(user) /\ PctValid(pass)
  IN IF valid /\ Len(PctDecode(user)) <= MaxStr /\ Len(PctDecode(pass)) <= MaxStr
     THEN [Refused EXCEPT !.ok = TRUE, !.user = PctDecode(user), !.pass = PctDecode(pass)]
     ELSE Refused

DefaultPort == 1080                               \* SOCKS_DEFAULT_PORT
WithHost(proxy, host, port) ==
  IF proxy.ok /\ host # <<>> /\ port # 0 THEN [proxy EXCEPT !.host = host, !.port = port] ELSE Refused
HostPort(proxy, t) ==
  LET close == IndexOf(t, RBracket)
      colon == LastIndexOf(t, Colon)
      rest == After(t, close)
  IN IF t # <<>> /\ Head(t) = LBracket
     THEN IF close = 0 \/ (rest # <<>> /\ Head(rest) # Colon) THEN Refused
          ELSE WithHost(proxy, SubSeq(t, 2, close - 1), IF rest = <<>> THEN DefaultPort ELSE ParsePort(Tail(rest)))
     ELSE IF colon = 0 THEN WithHost(proxy, t, DefaultPort)
     ELSE WithHost(proxy, Before(t, colon), ParsePort(After(t, colon)))

Lower(c) == IF c \in 65..90 THEN c + 32 ELSE c
Schemes == {<<115, 111, 99, 107, 115, 53>>, <<115, 111, 99, 107, 115, 53, 104>>}    \* socks5, socks5h
ParseURL(url) ==
  LET seps == {i \in 1..(Len(url) - 2) : SubSeq(url, i, i + 2) = <<Colon, Slash, Slash>>}
      scheme == Before(url, Min(seps))
      rest == IF seps = {} THEN url ELSE After(url, Min(seps) + 2)
      authority == Split(rest, {Slash, 63, 35})[1]            \* up to / ? or #
      at == LastIndexOf(authority, At)
  IN IF seps # {} /\ [i \in 1..Len(scheme) |-> Lower(scheme[i])] \notin Schemes THEN Refused
     ELSE IF at = 0 THEN HostPort([Refused EXCEPT !.ok = TRUE], authority)
     ELSE HostPort(UserInfo(Before(authority, at)), After(authority, at))
=============================================================================
