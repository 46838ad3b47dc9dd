----------------------------- MODULE MCKvCodec -----------------------------
(* Scenarios for TLC: an application with few keys, and others with one    *)
(* key each that is made of up to two pieces, or of three.                 *)
EXTENDS KvCodec

A == 97
B == 98

Codecs ==
  {[keys |-> <<>>, vals |-> <<"noop">>], [keys |-> <<"path">>, vals |-> <<>>],
   [keys |-> <<"base64">>, vals |-> <<"null">>],
   [keys |-> <<"path", "base64">>, vals |-> <<"base64">>],
   [keys |-> <<"tag", "noop">>, vals |-> <<"base64", "base64">>],
   [keys |-> <<"noop", "base64">>, vals |-> <<"null", "base64">>]}

Pieces == {<<A>>, <<Slash>>, <<Dot>>, <<Star>>, Root}
OddKeys ==
  {FlattenSeq(ps) : ps \in UNION {[1..n -> Pieces] : n \in 0..2}}
    \cup {<<Slash, A, Slash>>, <<Slash, Slash, A>>, <<A, Slash, Slash>>, <<Slash, A, Dot, B>>,
          [i \in 1..23 |-> IF i % 2 = 1 THEN A ELSE Dot]}

Dotted == <<A, Dot, B>>
Few ==
  {[keys |-> <<"path">>, vals |-> <<>>, used |-> {<<Slash, A>>, Root \o <<Dot, A>>}, values |-> {<<A>>}, revs |-> 2],
   [keys |-> <<"base64">>, vals |-> <<"null">>, used |-> {Dotted}, values |-> {<<>>}, revs |-> 2],
   [keys |-> <<"path", "base64">>, vals |-> <<"base64">>, used |-> {Dotted}, values |-> {<<>>, <<A>>}, revs |-> 2],
   [keys |-> <<"tag", "noop">>, vals |-> <<"base64", "base64">>, used |-> {Dotted}, values |-> {<<A>>}, revs |-> 1]}

\* "YQ" and "YQ.Yg" are what base64 makes of "a" and "a.b".
Others(c) ==
  IF "base64" \in Range(c.keys)
  THEN {[key |-> <<A>>, value |-> <<>>], [key |-> <<89, 81>>, value |-> <<33>>]}
  ELSE {[key |-> <<A>>, value |-> <<B>>]}

MCScenarios ==
  {c @@ [foreign |-> Others(c), patterns |-> {<<<<Gt>>>>, <<<<Slash, Star>>, Dotted>>}] : c \in Few}
    \cup {c @@ [used |-> {k}, values |-> IF k = <<A>> THEN {<<A, 0, 255, A>>} ELSE {<<0, 255, A>>}, foreign |-> {}, revs |-> 1,
                patterns |-> {<<<<Gt>>>>, <<<<Star>>>>, <<k>>}] : c \in Codecs, k \in OddKeys}
=============================================================================
