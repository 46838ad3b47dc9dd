----------------------------- MODULE KvKeyCodec -----------------------------
(***************************************************************************)
(* The transformations of keys and values, kv-codec/src: path_codec.c,     *)
(* base64_codec.c, chain_codec.c and their dispatch in codec.c.  A key is  *)
(* the sequence of its bytes, without the NUL; a codec is the sequence of  *)
(* its members' names, empty for no codec, and a transformation gives a    *)
(* status and the text.                                                    *)
(***************************************************************************)
EXTENDS KvKeys

CONSTANT IntMax      \* INT_MAX

ASSUME IntMaxAssumption == IntMax \in Nat /\ IntMax >= 3

Ok(text) == [st |-> "OK", text |-> text]
Failed(s) == [st |-> s, text |-> <<>>]

-----------------------------------------------------------------------------
(* path_codec.c: '/' becomes '.', but for a leading and a trailing one.    *)

Replaced(k, old, new) == [i \in 1..Len(k) |-> IF k[i] = old THEN new ELSE k[i]]
Trimmed(k) == IF k # <<>> /\ Last(k) = Slash THEN Front(k) ELSE k

PathEncode(k) ==
  IF k = <<Slash>> THEN Root
  ELSE IF k # <<>> /\ Head(k) = Slash THEN Root \o <<Dot>> \o Replaced(Trimmed(Tail(k)), Slash, Dot)
  ELSE Replaced(Trimmed(k), Slash, Dot)

PathDecode(k) ==
  IF k = Root THEN <<Slash>>
  ELSE IF IsPrefix(Root \o <<Dot>>, k)
       THEN <<Slash>> \o Replaced(SubSeq(k, Len(Root) + 2, Len(k)), Dot, Slash)
  ELSE Replaced(k, Dot, Slash)

-----------------------------------------------------------------------------
(* base64_codec.c: the URL-safe alphabet without padding.                  *)

\* _b64Chars and _b64Value.
B64Char(v) == CASE v < 26 -> 65 + v [] v \in 26..51 -> 71 + v [] v \in 52..61 -> v - 4
                [] v = 62 -> 45     [] v = 63 -> 95
B64Value(c) == CASE c \in 65..90 -> c - 65 [] c \in 97..122 -> c - 71 [] c \in 48..57 -> c + 4
                 [] c = 45 -> 62 [] c = 95 -> 63 [] OTHER -> -1

B64EncodedLen(n) == (n \div 3) * 4 + (CASE n % 3 = 0 -> 0 [] n % 3 = 1 -> 2 [] n % 3 = 2 -> 3)

\* Character i takes six bits of the three bytes of its group.
B64Encode(bytes) ==
  LET byte(j) == IF j <= Len(bytes) THEN bytes[j] ELSE 0
      sextet(g, pos) ==
        CASE pos = 0 -> byte(g + 1) \div 4
          [] pos = 1 -> (byte(g + 1) % 4) * 16 + byte(g + 2) \div 16
          [] pos = 2 -> (byte(g + 2) % 16) * 4 + byte(g + 3) \div 64
          [] pos = 3 -> byte(g + 3) % 64
  IN [i \in 1..B64EncodedLen(Len(bytes)) |-> B64Char(sextet(((i - 1) \div 4) * 3, (i - 1) % 4))]

\* The bits a last group does not need are not looked at.
B64Decode(cs) ==
  LET v(j) == B64Value(cs[j])
      n == (Len(cs) \div 4) * 3 + (IF Len(cs) % 4 = 0 THEN 0 ELSE (Len(cs) % 4) - 1)
      byte(g, pos) ==
        CASE pos = 0 -> v(g + 1) * 4 + v(g + 2) \div 16
          [] pos = 1 -> (v(g + 2) % 16) * 16 + v(g + 3) \div 4
          [] pos = 2 -> (v(g + 3) % 4) * 64 + v(g + 4)
  IN IF Len(cs) % 4 = 1 \/ \E j \in 1..Len(cs) : v(j) = -1 THEN Failed("ERR")
     ELSE Ok([i \in 1..n |-> byte(((i - 1) \div 3) * 4, (i - 1) % 3)])

\* Fault: a wildcard is encoded like any other token.
B64TransformAll(k, isFilter) ==
  LET ts == Split(k, {Dot}) IN Join([j \in 1..Len(ts) |-> B64Encode(ts[j])], Dot)

\* _b64TransformKey.
B64TransformKey(k, isFilter) ==
  LET ts == Split(k, {Dot})
  IN Join([j \in 1..Len(ts) |-> IF isFilter /\ ts[j] \in {<<Star>>, <<Gt>>} THEN ts[j]
                                ELSE B64Encode(ts[j])], Dot)

B64DecodeKey(k) ==
  LET ts == [j \in 1..Len(Split(k, {Dot})) |-> B64Decode(Split(k, {Dot})[j])]
  IN IF \E j \in 1..Len(ts) : ts[j].st # "OK" THEN Failed("ERR")
     ELSE Ok(Join([j \in 1..Len(ts) |-> ts[j].text], Dot))

-----------------------------------------------------------------------------
(* The members.  "tag" stands for a codec of the application that is not   *)
(* filterable: it puts a character before the key, and fails without it.   *)

Tag == 84
Filterable(c) == c # "tag"

EncodeWith(c, k) ==
  CASE c = "noop" -> k [] c = "path" -> PathEncode(k) [] c = "base64" -> B64TransformKey(k, FALSE)
    [] c = "tag" -> <<Tag>> \o k
DecodeWith(c, k) ==
  CASE c = "noop" -> Ok(k) [] c = "path" -> Ok(PathDecode(k)) [] c = "base64" -> B64DecodeKey(k)
    [] c = "tag" -> IF k # <<>> /\ Head(k) = Tag THEN Ok(Tail(k)) ELSE Failed("ERR")
FilterWith(c, f) ==
  CASE c = "noop" -> f [] c = "path" -> PathEncode(f) [] c = "base64" -> B64TransformKey(f, TRUE)

\* _keyChainTransform, and kvcodec_encodeKey, decodeKey and encodeFilter.
EncodeKey(codec, k) == FoldLeft(LAMBDA cur, c : EncodeWith(c, cur), k, codec)

DecodeKey(codec, k) ==
  FoldLeft(LAMBDA cur, c : IF cur.st = "OK" THEN DecodeWith(c, cur.text) ELSE cur,
           Ok(k), Reverse(codec))

EncodeFilter(codec, f) ==
  IF \A i \in 1..Len(codec) : Filterable(codec[i])
    THEN Ok(FoldLeft(LAMBDA cur, c : FilterWith(c, cur), f, codec))
  ELSE IF Range(f) \cap {Star, Gt} # {} THEN Failed("INVALID_SUBJECT")
  ELSE Ok(EncodeKey(codec, f))

-----------------------------------------------------------------------------
(* Values: "base64", "noop", and the application's "null", which makes     *)
(* nothing of an empty value and tags every other.                         *)

\* kvcodec_base64RawURLEncode.
B64EncodeValue(v) ==
  IF Len(v) > ((IntMax - 3) \div 4) * 3 THEN Failed("INVALID_ARG") ELSE Ok(B64Encode(v))

EncodeValueWith(c, v) ==
  CASE c = "noop" -> Ok(v) [] c = "base64" -> B64EncodeValue(v)
    [] c = "null" -> Ok(IF v = <<>> THEN v ELSE <<Tag>> \o v)
DecodeValueWith(c, v) ==
  CASE c = "noop" -> Ok(v) [] c = "base64" -> B64Decode(v)
    [] c = "null" -> IF v = <<>> THEN Ok(v) ELSE IF Head(v) = Tag THEN Ok(Tail(v)) ELSE Failed("ERR")

\* _valueChainTransform, which decodes last to first.
EncodeValue(codec, v) ==
  FoldLeft(LAMBDA cur, c : IF cur.st = "OK" THEN EncodeValueWith(c, cur.text) ELSE cur, Ok(v), codec)
DecodeValue(codec, v) ==
  FoldLeft(LAMBDA cur, c : IF cur.st = "OK" THEN DecodeValueWith(c, cur.text) ELSE cur,
           Ok(v), Reverse(codec))

-----------------------------------------------------------------------------
(* The buffers, in bytes, and what is written into them.                   *)

\* Fault: no room for the group that every token fills up.
RoomWithoutTokens(c, k) ==
  CASE c = "path" -> Len(k) + 8 [] c = "base64" -> (Len(k) \div 3 + 1) * 4 + 2

EncodeRoom(c, k) ==
  CASE c = "path" -> Len(k) + 8 [] c = "base64" -> (Len(k) \div 3 + 1) * 4 + Len(k) + 2

DecodeRoom(c, k) == CASE c = "path" -> Len(k) + 2 [] c = "base64" -> Len(k) + 1

ValueRoom(cs) == (Len(cs) \div 4) * 3 + 3
=============================================================================
