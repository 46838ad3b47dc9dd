----------------------------- MODULE JsonWriter -----------------------------
(***************************************************************************)
(* natsJSONWriter, utils/src/json.c: writes one object, member by member,  *)
(* into a buffer.  The writer is its buffer with open and comma, and its   *)
(* status is the buffer's: the first failure makes every later call a      *)
(* no-op.  A key, a number or a literal is one character of the text.      *)
(***************************************************************************)
EXTENDS NatsBuf, JsonLiteral

WriterInit(b) == b @@ [open |-> FALSE, comma |-> FALSE]

\* natsJSONWriter_Fail.
WriterFail(w, s) == IF w.st = "OK" THEN BufFail(w, s) ELSE w

StartObject(w) ==
  LET opened == AppendByte(w, "{")
  IN IF w.st # "OK" THEN w
     ELSE IF w.open \/ w.comma THEN BufFail(w, "ERR")
     ELSE IF opened.st = "OK" THEN [opened EXCEPT !.open = TRUE, !.comma = FALSE] ELSE opened

EndObject(w) ==
  LET closed == AppendByte(w, "}")
  IN IF w.st # "OK" THEN w
     ELSE IF ~w.open THEN BufFail(w, "ERR")
     ELSE IF closed.st = "OK" THEN [closed EXCEPT !.open = FALSE, !.comma = TRUE] ELSE closed

\* How a character is written inside quotes; a control character has a short
\* escape ("n") or the long one ("ctl").
Escape(c) == CASE c \in {"quote", "backslash", "n"} -> <<"backslash", c>>
               [] c = "ctl" -> Hex("ascii")
               [] OTHER -> <<>>

\* Fault: the run after an escape starts with the character that was escaped.
WriteQuotedTwice(b, s) ==
  LET span(acc, p) ==
        IF Escape(s[p]) = <<>> THEN acc
        ELSE [b |-> BufAppend(BufAppend(acc.b, SubSeq(s, acc.run, p - 1)), Escape(s[p])),
              run |-> p]
      all == FoldLeft(span, [b |-> AppendByte(b, "quote"), run |-> 1], [p \in 1..Len(s) |-> p])
  IN AppendByte(BufAppend(all.b, SubSeq(s, all.run, Len(s))), "quote")

\* _writeQuoted: runs of characters that need no escape are appended whole.
WriteQuoted(b, s) ==
  LET span(acc, p) ==
        IF Escape(s[p]) = <<>> THEN acc
        ELSE [b |-> BufAppend(BufAppend(acc.b, SubSeq(s, acc.run, p - 1)), Escape(s[p])),
              run |-> p + 1]
      all == FoldLeft(span, [b |-> AppendByte(b, "quote"), run |-> 1], [p \in 1..Len(s) |-> p])
  IN AppendByte(BufAppend(all.b, SubSeq(s, all.run, Len(s))), "quote")

WriteKey(w, key) ==
  LET sep == IF w.comma THEN AppendByte(w, ",") ELSE w
  IN AppendByte(WriteQuoted(sep, <<key>>), ":")

\* After the value of a member.
Written(w) == IF w.st = "OK" THEN [w EXCEPT !.comma = TRUE] ELSE w

AddStr(w, key, val) == Written(WriteQuoted(WriteKey(w, key), val))

\* natsJSONWriter_AddBool, AddInt and AddUInt.
AddPlain(w, key, text) == Written(BufAppend(WriteKey(w, key), text))

AddStrArray(w, key, vals) ==
  LET item(b, i) == WriteQuoted(IF i > 1 THEN AppendByte(b, ",") ELSE b, vals[i])
      items == FoldLeft(item, AppendByte(WriteKey(w, key), "["), [i \in 1..Len(vals) |-> i])
  IN Written(AppendByte(items, "]"))

-----------------------------------------------------------------------------
(* The text an object has: its members' texts, separated by commas.        *)

Quoted(s) ==
  <<"quote">> \o FlattenSeq([i \in 1..Len(s) |-> IF Escape(s[i]) = <<>> THEN <<s[i]>>
                                                 ELSE Escape(s[i])]) \o <<"quote">>

Commas(texts) == FlattenSeq([i \in 1..Len(texts) |-> IF i = 1 THEN texts[i] ELSE <<",">> \o texts[i]])

ObjectText(members) ==
  <<"{">> \o Commas([i \in 1..Len(members) |-> Quoted(<<members[i].key>>) \o <<":">>
                                               \o members[i].text]) \o <<"}">>

\* What the parser makes of a written string: as many bytes as were written.
ReadsBack(s) ==
  LET r == ReadString(Tail(Quoted(s)))
  IN r.st = "OK" /\ r.bytes = Len(s) /\ r.at = Len(Quoted(s))
=============================================================================
