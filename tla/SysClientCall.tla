---------------------------- MODULE SysClientCall ----------------------------
(***************************************************************************)
(* A call of nats-sysclient from its options to its response,              *)
(* nats-sysclient/src/sysclient.c: sysclient_request asks one server,      *)
(* sysclient_ping all of them, and _newWalk keeps the options for later    *)
(* pages (what is done with those is in SysWalk and SysPingEach).          *)
(***************************************************************************)
EXTENDS SysRequest, JsonParser, SysDecode

CONSTANTS
  Options,       \* bound: the options of a call, [keys, text, null]
  Allocations,   \* bound: how many allocations for the request may succeed
  ReplyCounts    \* bound: how many replies a ping has

ASSUME CallAssumption ==
  /\ \A o \in Options : o.null \in BOOLEAN /\ o.text \in Seq(StringChars)
  /\ Allocations \subseteq Nat /\ ReplyCounts \subseteq Nat

VARIABLES
  endpoint, how, \* the function called
  o,             \* its options
  w,             \* the writer of the request and its buffer
  left,          \* the members still to write
  n, r,          \* replies to decode, and the one that is being decoded
  phase          \* "options", "writing", "written", "replied", "parse", "decode", "returned",
                 \* "destroyed"

callVars == <<endpoint, how, o, w, left, n, r, phase>>
vars == <<callVars, parserVars, decodeVars>>

\* The endpoints: the key of the payload, and the calls there are of each.
VarzEndpoint    == [key |-> "data", calls |-> {"request", "ping"}]
ConnzEndpoint   == [key |-> "data", calls |-> {"request", "ping", "walk"}]
SubszEndpoint   == [key |-> "data", calls |-> {"request", "ping", "walk"}]
HealthzEndpoint == [key |-> "data", calls |-> {"request", "ping"}]
StatszEndpoint  == [key |-> "statsz", calls |-> {"request", "ping"}]
JszEndpoint     == [key |-> "data", calls |-> {"request", "ping", "walk"}]

Endpoints ==
  [Varz |-> VarzEndpoint, Connz |-> ConnzEndpoint, Subsz |-> SubszEndpoint,
   Healthz |-> HealthzEndpoint, Statsz |-> StatszEndpoint, Jsz |-> JszEndpoint]

KeysOf(e) == {c.key : c \in Range(Marshalled(e))}
NoOptions == [keys |-> {}, text |-> <<>>, null |-> FALSE]
NoWriter == WriterInit(BufInit(0))

CallInit ==
  /\ endpoint \in DOMAIN Endpoints /\ how \in Endpoints[endpoint].calls
  /\ o \in {x \in Options : x.keys \subseteq KeysOf(endpoint)}
  /\ w = NoWriter /\ left = <<>> /\ n = 0 /\ r = 0 /\ phase = "options"
  /\ ParserInit
  /\ payload = [key |-> Endpoints[endpoint].key, t |-> endpoint]
  /\ frames = <<>> /\ heap = {} /\ emptied = {} /\ lost = {} /\ missing = 0 /\ dst = "OK"

Goes(p) == phase' = p /\ UNCHANGED <<endpoint, how>>
ParserIdle == UNCHANGED parserVars
DecoderIdle == UNCHANGED <<payload, frames, emptied, lost, missing, dst>>

-----------------------------------------------------------------------------
\* ep->Marshal: the body is written member by member.
StartBody ==
  /\ phase = "options" /\ how \in {"request", "ping"} /\ Goes("writing")
  /\ \E m \in Allocations : w' = StartObject(WriterInit(BufInit(m)))
  /\ left' = Marshalled(endpoint)
  /\ UNCHANGED <<o, n, r, heap>> /\ ParserIdle /\ DecoderIdle

WriteMember ==
  /\ phase = "writing" /\ left # <<>>
  /\ w' = Member(w, o, Head(left)) /\ left' = Tail(left)
  /\ UNCHANGED <<endpoint, how, o, n, r, phase, heap>> /\ ParserIdle /\ DecoderIdle

EndBody ==
  /\ phase = "writing" /\ left = <<>> /\ Goes("written")
  /\ w' = EndObject(w)
  /\ UNCHANGED <<o, left, n, r, heap>> /\ ParserIdle /\ DecoderIdle

\* The call ends and has its result in heap.
Returns(s) ==
  /\ dst' = s /\ phase' = "returned"
  /\ o' = NoOptions /\ w' = NoWriter /\ UNCHANGED <<endpoint, how>>

\* It is not sent, or fails: no memory for the subject, no server ID, no
\* responders, no answer.  A ping that times out has its replies.
RequestFails ==
  /\ phase = "written"
  /\ IF w.st # "OK" THEN Returns(w.st)
     ELSE \E s \in {"NO_MEMORY", "INVALID_ARG", "NOT_FOUND", "TIMEOUT"} :
            /\ how = "ping" => s # "TIMEOUT"
            /\ Returns(s)
  /\ UNCHANGED <<left, n, r, heap, payload, frames, emptied, lost, missing>> /\ ParserIdle

\* natsConnection_Request or natsRequestMany_Request; the array for the
\* responses of a ping is the block <<>>.
Replies ==
  /\ phase = "written" /\ w.st = "OK"
  /\ n' \in IF how = "request" THEN {1} ELSE ReplyCounts
  /\ r' = 1 /\ o' = NoOptions /\ w' = NoWriter
  /\ \/ Goes("replied") /\ UNCHANGED dst
        /\ heap' = IF how = "ping" /\ n' > 0 THEN {Malloc(<<>>)} ELSE {}
     \/ how = "ping" /\ n' > 0 /\ Returns("NO_MEMORY") /\ UNCHANGED heap
  /\ UNCHANGED <<left, payload, frames, emptied, lost, missing>> /\ ParserIdle

\* The responses before r, of a ping that fails or whose list is destroyed.
List(upto) == UNION {DestroyResp(<<q>>) : q \in 1..upto} \cup {Malloc(<<>>)}

MoreReplies == r <= n

\* _respFromMsg: a new response.  The text of a reply to one server is spelled
\* out; that of another to a ping is parsed, or is not.
BeginReply ==
  /\ phase = "replied" /\ MoreReplies
  /\ \/ Returns("NO_MEMORY") /\ heap' = heap \ List(r - 1) /\ UNCHANGED frames
     \/ /\ heap' = heap \cup {Malloc(<<r>>)}
        /\ frames' = <<[t |-> "Resp", at |-> <<r>>, i |-> 0, pc |-> 1]>>
        /\ IF how = "request" THEN Goes("parse") /\ UNCHANGED dst
           ELSE Goes("decode") /\ dst' \in {"OK", "INVALID_ARG", "NO_MEMORY"}
        /\ UNCHANGED <<o, w>>
  /\ UNCHANGED <<left, n, r, payload, emptied, lost, missing>> /\ ParserIdle

ParseReply ==
  /\ phase = "parse" /\ ParserNext
  /\ UNCHANGED <<callVars, decodeVars>>

\* A tree that is not an object is no envelope.
EndParse ==
  /\ phase = "parse" /\ ParserDone /\ Goes("decode")
  /\ dst' = IF pst = "OK" /\ text[1] # "{" THEN "INVALID_ARG" ELSE pst
  /\ text' = <<>> /\ stack' = <<>> /\ blocks' = {} /\ root' = 0
  /\ kids' = [i \in 1..MaxText |-> <<>>] /\ names' = [i \in 1..MaxText |-> <<>>]
  /\ spelled' = NotSpelled /\ pst' = "parse"
  /\ UNCHANGED <<o, w, left, n, r, heap, payload, frames, emptied, lost, missing>>

DecodeReply ==
  /\ phase = "decode" /\ DecodeStep
  /\ UNCHANGED <<callVars, parserVars>>

\* The tree is destroyed; what was moved out of it is the response's.
ReplyDecoded ==
  /\ phase = "decode" /\ frames = <<>> /\ dst = "OK"
  /\ heap' = {Malloc(b.at) : b \in heap} /\ emptied' = {}
  /\ r' = r + 1 /\ Goes("replied")
  /\ UNCHANGED <<o, w, left, n, payload, frames, lost, missing, dst>> /\ ParserIdle

\* _responseStatus, and the response and those before it destroyed.
ReplyFails ==
  /\ phase = "decode" /\ Len(frames) = 1 /\ dst # "OK"
  /\ Returns(IF dst = "NO_MEMORY" THEN "NO_MEMORY" ELSE "ERR")
  /\ heap' = heap \ (DestroyResp(<<r>>) \cup List(r - 1))
  /\ frames' = <<>> /\ emptied' = {}
  /\ UNCHANGED <<left, n, r, payload, lost, missing>> /\ ParserIdle

AllDecoded ==
  /\ phase = "replied" /\ ~MoreReplies /\ Returns("OK")
  /\ UNCHANGED <<left, n, r, heap, payload, frames, emptied, lost, missing>> /\ ParserIdle

-----------------------------------------------------------------------------
\* _newWalk, which gives up at any of its allocations, or for want of an ID.
NewWalk ==
  /\ phase = "options" /\ how = "walk"
  /\ LET all == WalkAllocations(endpoint, o) IN
     \/ /\ heap' = {Malloc(a) : a \in Range(all)} /\ Returns("OK") /\ UNCHANGED lost
     \/ \E k \in 0..(Len(all) - 1), s \in {"NO_MEMORY", "ERR"} :
          LET held == HeldAfter(endpoint, o, k) IN
          /\ s = "ERR" => k = 1
          /\ lost' = {Malloc(b) : b \in held \ WalkFreed(endpoint, held)}
          /\ Returns(s) /\ UNCHANGED heap
  /\ UNCHANGED <<left, n, r, payload, frames, emptied, missing>> /\ ParserIdle

\* The application destroys what it got: natsSys..Resp_Destroy, RespList_Destroy,
\* WalkList_Destroy.
Destroy ==
  /\ phase = "returned" /\ Goes("destroyed")
  /\ heap' = heap \ (IF how = "walk" THEN {Malloc(b) : b \in WalkFreed(endpoint, {x.at : x \in heap})}
                     ELSE List(n))
  /\ UNCHANGED <<o, w, left, n, r>> /\ ParserIdle /\ DecoderIdle

CallNext ==
  \/ StartBody \/ WriteMember \/ EndBody \/ RequestFails \/ Replies \/ BeginReply \/ ParseReply \/ EndParse \/ DecodeReply
  \/ ReplyDecoded \/ ReplyFails \/ AllDecoded \/ NewWalk \/ Destroy

CallSpec == CallInit /\ [][CallNext]_vars

-----------------------------------------------------------------------------
(* Properties.                                                             *)

\* The body of a request that is sent is one object, with the keys the endpoint
\* always has and those that are set, each once and in their order, and every
\* string in it is read back as what was written; a body that does not fit an
\* int or the memory is not sent, and no byte is written past the buffer
\* (natsJSONWriter, natsBuf_Append, natsBuf_AppendByte).
RequestExact ==
  phase = "written" =>
    LET due == SelectSeq(Marshalled(endpoint), LAMBDA c : c.how = "add" \/ Set(o, c))
        textOf(c) ==
          CASE c.kind = "str"  -> Quoted(IF c.key \in o.keys THEN o.text ELSE <<>>)
            [] c.kind = "strs" -> <<"[">> \o Quoted(o.text) \o <<",">> \o Quoted(o.text) \o <<"]">>
            [] OTHER           -> PlainText(o, c)
    IN /\ w.cap <= IntMax /\ Len(w.cs) <= w.cap
       /\ w.st = "OK" => w.cs = ObjectText([i \in 1..Len(due) |->
                                              [key |-> due[i].key, text |-> textOf(due[i])]])
       /\ w.st = "OK" => ReadsBack(o.text)
       /\ w.st = "OK" => ~(o.null /\ "tags" \in o.keys)

\* Nothing is leaked: a call that fails leaves no block allocated, and after one
\* that does not, destroying its result leaves none; nothing loses its last
\* pointer on the way, whichever reply, member or allocation fails.
NothingLeaked ==
  /\ lost = {}
  /\ phase = "returned" /\ dst # "OK" => heap = {}
  /\ phase = "destroyed" => heap = {}
  /\ ParserDone => blocks = IF pst = "OK" THEN Destroyed(root) \cap blocks ELSE {}
=============================================================================
