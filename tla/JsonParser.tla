----------------------------- MODULE JsonParser -----------------------------
(***************************************************************************)
(* natsJSON_Parse, utils/src/json.c: a recursive descent over a text whose *)
(* tokens it meets one by one, building a tree of allocated nodes.  The    *)
(* stack holds the calls of _parseArray and _parseObject under way, and any*)
(* allocation may fail.                                                    *)
(***************************************************************************)
EXTENDS JsonLiteral, FiniteSets

CONSTANTS
  MaxDepth,      \* JSON_MAX_DEPTH
  FirstCap,      \* the capacity of the first array of a container
  MaxText,       \* bound: tokens in a text
  Literals,      \* bound: a literal is spelled out only among this many tokens
  StringTexts,   \* bound: what can follow an opening quote
  NumberTexts    \* bound: what a number is read from

ASSUME ParserAssumption ==
  MaxDepth \in Nat /\ FirstCap \in Nat \ {0} /\ MaxText \in Nat \ {0} /\ Literals \in Nat

VARIABLES
  text,          \* the tokens met so far, the last one "end" at the end of the data
  stack,         \* the calls under way, [id, closer, pc, key]
  kids,          \* container -> the values appended to it, in order
  names,         \* object -> the names appended to it
  blocks,        \* what is allocated
  root,          \* the tree, or 0
  spelled,       \* history: the literal just met, [kind, cs]
  pst            \* "parse", then the status of the parse

parserVars == <<text, stack, kids, names, blocks, root, spelled, pst>>

NotSpelled == [kind |-> "none", cs |-> <<>>]

ParserInit ==
  /\ text = <<>> /\ stack = <<>> /\ blocks = {} /\ root = 0
  /\ kids = [i \in 1..MaxText |-> <<>>] /\ names = [i \in 1..MaxText |-> <<>>]
  /\ spelled = NotSpelled /\ pst = "parse"

Leaves == {"str", "num", "lit"}
Tokens == Leaves \cup {"{", "}", "[", "]", ",", ":", "bad", "end"}

\* natsJSON_Destroy: a node, its text, its arrays and what they hold.
Destroyed(i) ==
  LET tree[j \in 1..MaxText] ==
        {<<b, j>> : b \in {"node", "text", "items", "names"}}
        \cup {<<"text", k>> : k \in Range(names[j])}
        \cup UNION {tree[k] : k \in Range(kids[j])}
  IN tree[i]

-----------------------------------------------------------------------------
Here == Len(text) + 1
Top == stack[Len(stack)]
Goto(pc) == [stack EXCEPT ![Len(stack)].pc = pc]

\* The next token is t; _skipWS has stepped over the white space before it.
Meet(t) == /\ pst = "parse" /\ text' = Append(text, t)
           /\ t = "end" \/ Len(text) < MaxText

\* A literal is one of those that read well, or one of those that do not.
Spell(t, well) ==
  IF Len(text) >= Literals \/ t \notin {"str", "num"} THEN spelled' = NotSpelled
  ELSE \E cs \in IF t = "str" THEN StringTexts ELSE NumberTexts :
         /\ well = IF t = "str" THEN ReadString(cs).st = "OK" ELSE ReadNumber(cs) > 0
         /\ spelled' = [kind |-> t, cs |-> cs]

\* At the start of a value, in natsJSON_Parse, _parseArray or _parseObject.
ValueNext ==
  IF stack = <<>> THEN root = 0
  ELSE Top.pc = "value" \/ (Top.pc = "first" /\ Top.closer = "]")
NameNext == stack # <<>> /\ (Top.pc = "key" \/ (Top.pc = "first" /\ Top.closer = "}"))

Stop(s) == pst' = s /\ UNCHANGED <<stack, kids, names, root>>

\* _arrayAppend and _objectAppend: the arrays double when they are full, first
\* the names of an object, then its values; each growth may fail.
Full(c) == Len(kids[c]) \in {0} \cup {FirstCap * 2^k : k \in 0..MaxText}

AppendTo(up, item, held) ==
  LET c == up[Len(up)].id
      isObject == up[Len(up)].closer = "}"
      grown == (IF isObject THEN {<<"names", c>>} ELSE {}) \cup {<<"items", c>>}
  IN \/ /\ kids' = [kids EXCEPT ![c] = Append(@, item)]
        /\ names' = IF isObject THEN [names EXCEPT ![c] = Append(@, up[Len(up)].key)] ELSE names
        /\ blocks' = held \cup grown
        /\ stack' = [up EXCEPT ![Len(up)].pc = "after"]
        /\ UNCHANGED <<root, pst>>
     \/ /\ Full(c)
        /\ \E part \in {{}} \cup (IF isObject THEN {{<<"names", c>>}} ELSE {}) :
             blocks' = (held \cup part) \ Destroyed(item)
        /\ stack' = up /\ pst' = "NO_MEMORY"
        /\ UNCHANGED <<kids, names, root>>

\* A value is complete: it is the root, or goes to the container above it.
Deliver(up, item, held) ==
  IF up # <<>> THEN AppendTo(up, item, held)
  ELSE root' = item /\ blocks' = held /\ stack' = up /\ UNCHANGED <<kids, names, pst>>

-----------------------------------------------------------------------------
\* _parseStringNode, _parseNumber, _parseLiteral: the text, if there is one to
\* keep, then the node.
Leaf(t) ==
  /\ t \in Leaves /\ ValueNext /\ Meet(t) /\ Spell(t, TRUE)
  /\ \/ Deliver(stack, Here, blocks \cup {<<"node", Here>>}
                             \cup (IF t = "lit" THEN {} ELSE {<<"text", Here>>}))
     \/ Stop("NO_MEMORY") /\ UNCHANGED blocks

\* The entry of _parseArray and _parseObject.
Open(t) ==
  /\ t \in {"[", "{"} /\ ValueNext /\ Meet(t) /\ spelled' = NotSpelled
  /\ \/ Len(stack) >= MaxDepth /\ Stop("ERR") /\ UNCHANGED blocks
     \/ Len(stack) < MaxDepth /\ Stop("NO_MEMORY") /\ UNCHANGED blocks
     \/ /\ Len(stack) < MaxDepth
        /\ stack' = Append(stack, [id |-> Here, closer |-> IF t = "[" THEN "]" ELSE "}",
                                   pc |-> "first", key |-> 0])
        /\ blocks' = blocks \cup {<<"node", Here>>}
        /\ UNCHANGED <<kids, names, root, pst>>

\* _parseString for a name, and the colon after it.
Name ==
  /\ NameNext /\ Meet("str") /\ Spell("str", TRUE)
  /\ \/ /\ stack' = [stack EXCEPT ![Len(stack)].pc = "colon", ![Len(stack)].key = Here]
        /\ blocks' = blocks \cup {<<"text", Here>>} /\ UNCHANGED <<kids, names, root, pst>>
     \/ Stop("NO_MEMORY") /\ UNCHANGED blocks

Colon ==
  /\ stack # <<>> /\ Top.pc = "colon" /\ Meet(":") /\ spelled' = NotSpelled
  /\ stack' = Goto("value") /\ UNCHANGED <<kids, names, blocks, root, pst>>

\* Fault: after a comma the container may close.
CommaThenClose ==
  /\ stack # <<>> /\ Top.pc = "after" /\ Meet(",") /\ spelled' = NotSpelled
  /\ stack' = Goto("first") /\ UNCHANGED <<kids, names, blocks, root, pst>>

Comma ==
  /\ stack # <<>> /\ Top.pc = "after" /\ Meet(",") /\ spelled' = NotSpelled
  /\ stack' = Goto(IF Top.closer = "]" THEN "value" ELSE "key")
  /\ UNCHANGED <<kids, names, blocks, root, pst>>

Close(t) ==
  /\ stack # <<>> /\ Top.pc \in {"first", "after"} /\ t = Top.closer /\ Meet(t)
  /\ spelled' = NotSpelled
  /\ Deliver(Front(stack), Top.id, blocks)

\* The data ends after the tree.
End ==
  /\ stack = <<>> /\ root # 0 /\ Meet("end") /\ pst' = "OK" /\ spelled' = NotSpelled
  /\ UNCHANGED <<stack, kids, names, blocks, root>>

\* Any other token where one of these was due; after the tree it is destroyed.
Expected(t) ==
  IF ValueNext THEN t \in Leaves \cup {"[", "{"} \/ (stack # <<>> /\ Top.pc = "first" /\ t = "]")
  ELSE IF NameNext THEN t = "str" \/ (Top.pc = "first" /\ t = "}")
  ELSE IF stack = <<>> THEN t = "end"
  ELSE IF Top.pc = "colon" THEN t = ":" ELSE t \in {",", Top.closer}

Unexpected(t) ==
  /\ ~Expected(t) /\ Meet(t)
  /\ IF t = "bad" /\ (ValueNext \/ NameNext)
     THEN \E k \in {"str", "num"} : Spell(k, FALSE) ELSE spelled' = NotSpelled
  /\ pst' = "ERR" /\ root' = 0
  /\ blocks' = IF root = 0 THEN blocks ELSE blocks \ Destroyed(root)
  /\ UNCHANGED <<stack, kids, names>>

\* A call returns an error: the name that waits for its value is freed, and the
\* container with what was appended to it.
Unwind ==
  /\ pst \in {"ERR", "NO_MEMORY"} /\ stack # <<>>
  /\ blocks' = (blocks \ Destroyed(Top.id))
               \ (IF Top.closer = "}" /\ Top.pc \in {"colon", "value"} THEN {<<"text", Top.key>>}
                  ELSE {})
  /\ stack' = Front(stack) /\ spelled' = NotSpelled
  /\ UNCHANGED <<text, kids, names, root, pst>>

ParserNext ==
  \/ \E t \in Leaves : Leaf(t)
  \/ \E t \in {"[", "{"} : Open(t)
  \/ Name \/ Colon \/ Comma \/ End \/ Unwind
  \/ \E t \in {"]", "}"} : Close(t)
  \/ \E t \in Tokens : Unexpected(t)

ParserDone == stack = <<>> /\ pst # "parse"

-----------------------------------------------------------------------------
(* The texts JSON allows, nested MaxDepth deep at most, as words: a number *)
(* or a literal is a "val".                                                *)

RefLength == MaxText + MaxDepth + 2

Words[k \in {"value", "list", "members"}, n \in 0..RefLength, d \in 0..MaxDepth] ==
  CASE k = "value" ->
         (IF n = 1 THEN {<<"val">>, <<"str">>} ELSE {})
         \cup (IF d = 0 \/ n < 2 THEN {}
               ELSE IF n = 2 THEN {<<"[", "]">>, <<"{", "}">>}
               ELSE {<<"[">> \o w \o <<"]">> : w \in Words["list", n - 2, d - 1]}
                    \cup {<<"{">> \o w \o <<"}">> : w \in Words["members", n - 2, d - 1]})
    [] k = "list" ->
         Words["value", n, d]
         \cup UNION {{v \o <<",">> \o w : v \in Words["value", j, d],
                                          w \in Words["list", n - 1 - j, d]} : j \in 1..(n - 2)}
    [] k = "members" ->
         IF n < 3 THEN {} ELSE
         {<<"str", ":">> \o v : v \in Words["value", n - 2, d]}
         \cup UNION {{<<"str", ":">> \o v \o <<",">> \o w :
                        v \in Words["value", j, d], w \in Words["members", n - 3 - j, d]} :
                      j \in 1..(n - 6)}

Documents == UNION {Words["value", n, MaxDepth] : n \in 1..RefLength}
Beginnings == {SubSeq(w, 1, IF n < Len(w) THEN n ELSE Len(w)) : w \in Documents, n \in 0..MaxText}

Word(t) == [i \in 1..Len(t) |-> IF t[i] \in {"num", "lit"} THEN "val" ELSE t[i]]
WordRead == Word(SelectSeq(text, LAMBDA t : t # "end"))

\* A text is accepted when JSON allows it, and refused at the token after which
\* nothing JSON allows can begin with it: a truncated, misnested or too deep text is
\* neither taken nor, short of memory, is a good one refused.  A string ends at the
\* quote that closes it and fills no more than its buffer, and a number ends where
\* the longest one does (natsJSON_Parse).
ParserExact ==
  /\ pst = "OK" => WordRead \in Documents
  /\ pst = "ERR" => IF Contains(text, "end") THEN WordRead \notin Documents
                                             ELSE WordRead \notin Beginnings
  /\ spelled.kind = "str" => StringExact(spelled.cs)
  /\ spelled.kind = "num" => NumberExact(spelled.cs)
=============================================================================
