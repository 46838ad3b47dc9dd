----------------------------- MODULE JsonLiteral -----------------------------
(***************************************************************************)
(* The literals of a JSON text, utils/src/json.c: where a string ends and  *)
(* what it decodes to (_parseString), and how much of the text a number    *)
(* takes (_parseNumber).  A text is a sequence of characters, one of each  *)
(* kind the code tells apart.                                              *)
(***************************************************************************)
EXTENDS Integers, SequencesExt

\* "c" stands for any other character and "n" for any of the selectors that
\* decode to one byte; a hex digit is known by what it makes of the four it
\* begins: a surrogate, zero, or a code point by the bytes UTF-8 gives it.
HexChars == {"high", "low", "zero", "ascii", "latin", "bmp"}
StringChars == HexChars \cup {"c", "ctl", "backslash", "quote", "n", "u"}

BAD == [st |-> "ERR", at |-> 0, bytes |-> 0, room |-> 0]

\* The index of the closing quote, or 0: the first loop over the text, which
\* steps over what follows a backslash.
ClosingQuote(cs) ==
  LET scan[q \in 1..(Len(cs) + 2)] ==
        IF q > Len(cs) THEN 0
        ELSE CASE cs[q] = "backslash" -> scan[q + 2]
               [] cs[q] = "quote"     -> q
               [] cs[q] = "ctl"       -> 0
               [] OTHER               -> scan[q + 1]
  IN scan[1]

\* Four hex digits from p on, which the caller has made sure are there.
Hex4(cs, p) == IF \A i \in p..(p + 3) : cs[i] \in HexChars THEN cs[p] ELSE "none"

Utf8Bytes(cp) == CASE cp = "ascii" -> 1 [] cp = "latin" -> 2 [] cp = "bmp" -> 3 [] cp = "pair" -> 4

\* The second loop, from the opening quote to the closing one at q: bytes is
\* the index o, and room the size of the buffer without its final NUL.
Decode(cs, q) ==
  LET step[p \in 1..q, o \in 0..q] ==
        LET left == q - (p + 2)                \* q - p in the code, past \u
            cp   == IF left < 4 THEN "none" ELSE Hex4(cs, p + 2)
        IN IF p = q THEN [st |-> "OK", at |-> q + 1, bytes |-> o, room |-> q - 1]
           ELSE IF cs[p] # "backslash" THEN step[p + 1, o + 1]
           ELSE IF cs[p + 1] \in {"quote", "backslash", "n"} THEN step[p + 2, o + 1]
           ELSE IF cs[p + 1] # "u" \/ cp \in {"none", "low", "zero"} THEN BAD
           ELSE IF cp # "high" THEN step[p + 6, o + Utf8Bytes(cp)]
           ELSE IF /\ left - 4 >= 6
                   /\ cs[p + 6] = "backslash" /\ cs[p + 7] = "u"
                   /\ Hex4(cs, p + 8) = "low"
                THEN step[p + 12, o + Utf8Bytes("pair")]
           ELSE BAD
  IN step[1, 0]

\* _parseString past the opening quote.
ReadString(cs) == IF ClosingQuote(cs) = 0 THEN BAD ELSE Decode(cs, ClosingQuote(cs))

-----------------------------------------------------------------------------
NumberChars == {"-", "0", "d", ".", "e", "+", "c"}

\* The length of the run of digits at p.
Digits(cs, p) ==
  LET run[i \in 1..(Len(cs) + 1)] ==
        IF i <= Len(cs) /\ cs[i] \in {"0", "d"} THEN 1 + run[i + 1] ELSE 0
  IN IF p > Len(cs) THEN 0 ELSE run[p]

Has(cs, p, chars) == p <= Len(cs) /\ cs[p] \in chars

\* _parseNumber: the index after the number, or 0.
ReadNumber(cs) ==
  LET int  == IF Has(cs, 1, {"-"}) THEN 2 ELSE 1
      ints == IF Has(cs, int, {"0"}) THEN 1 ELSE Digits(cs, int)
      dot  == int + ints
      frac == IF Has(cs, dot, {"."}) THEN Digits(cs, dot + 1) ELSE -1
      exp  == IF frac = -1 THEN dot ELSE dot + 1 + frac
      sign == IF Has(cs, exp + 1, {"+", "-"}) THEN 1 ELSE 0
      exps == IF Has(cs, exp, {"e"}) THEN Digits(cs, exp + 1 + sign) ELSE -1
  IN IF ints = 0 \/ frac = 0 \/ exps = 0 THEN 0
     ELSE IF exps = -1 THEN exp ELSE exp + 1 + sign + exps

-----------------------------------------------------------------------------
(* What JSON says of the two, to compare the readings with.                *)

\* What a string is made of, and the bytes each piece decodes to.
Hex(d) == <<"backslash", "u", d, "bmp", "bmp", "bmp">>
Pieces ==
  {[cs |-> <<c>>, bytes |-> 1] : c \in StringChars \ {"ctl", "quote", "backslash"}}
  \cup {[cs |-> <<"backslash", e>>, bytes |-> 1] : e \in {"quote", "backslash", "n"}}
  \cup {[cs |-> Hex("ascii"), bytes |-> 1], [cs |-> Hex("latin"), bytes |-> 2],
        [cs |-> Hex("bmp"), bytes |-> 3], [cs |-> Hex("high") \o Hex("low"), bytes |-> 4]}

\* Every way to read a string: its pieces up to a closing quote.
Readings(cs) ==
  LET from[p \in 1..(Len(cs) + 1)] ==
        IF p > Len(cs) THEN {}
        ELSE IF cs[p] = "quote" THEN {[at |-> p + 1, bytes |-> 0]}
        ELSE UNION {{[r EXCEPT !.bytes = @ + x.bytes] : r \in from[p + Len(x.cs)]} :
                     x \in {y \in Pieces : IsPrefix(y.cs, SubSeq(cs, p, Len(cs)))}}
  IN from[1]

StringExact(cs) ==
  LET r == ReadString(cs)
  IN IF r.st = "OK" THEN Readings(cs) = {[at |-> r.at, bytes |-> r.bytes]} /\ r.bytes <= r.room
                    ELSE Readings(cs) = {}

AllDigits(s) == s # <<>> /\ Range(s) \subseteq {"0", "d"}
IsFraction(s) == s = <<>> \/ (s[1] = "." /\ AllDigits(Tail(s)))
IsExponent(s) ==
  \/ s = <<>>
  \/ s[1] = "e" /\ (AllDigits(Tail(s)) \/ (Has(s, 2, {"+", "-"}) /\ AllDigits(SubSeq(s, 3, Len(s)))))
IsNumber(s) ==
  LET digits == IF Has(s, 1, {"-"}) THEN Tail(s) ELSE s
  IN \E i \in 1..Len(digits) : \E j \in i..Len(digits) :
       /\ AllDigits(SubSeq(digits, 1, i)) /\ (digits[1] = "0" => i = 1)
       /\ IsFraction(SubSeq(digits, i + 1, j))
       /\ IsExponent(SubSeq(digits, j + 1, Len(digits)))

\* The longest number a text begins with is taken, and none when what follows
\* it begins a fraction or an exponent that is never finished.
NumberExact(cs) ==
  LET ends == {n \in 1..Len(cs) : IsNumber(SubSeq(cs, 1, n))}
      last == CHOOSE n \in ends : \A m \in ends : m <= n
      unused == {".", "e"} \ (IF \E i \in 1..last : cs[i] = "e" THEN {".", "e"}
                              ELSE {cs[i] : i \in 1..last})
      unfinished == ends # {} /\ Has(cs, last + 1, unused)
  IN IF ends = {} \/ unfinished THEN ReadNumber(cs) = 0 ELSE ReadNumber(cs) = last + 1
=============================================================================
