# Verification of orbit.c

TLA+ specifications of the orbit.c client libraries, the TLC configurations
that check them on small instances, and proofs checked by TLAPS. Every
definition is translated from the C source; `PROJECT.json` maps each one to
the lines it stands for.

## The system

orbit.c is a set of C libraries above the NATS client library. They share the
small `utils` library and nothing else at run time. "External" below is the
NATS client library and the server: they are modelled only as the source uses
them.

| part | state it keeps | operations | who calls whom |
|---|---|---|---|
| fast publish context (`jetstream-extra/src/fast_publish.c`) | `jsFastPublishCtx`: sequence numbers, window, closed / commit flags, commit ack, under one mutex and condition variable | Create, Add, AddMsg, Commit, CommitMsg, Close, IsClosed, Destroy; `_onAck` | the application thread publishes and sleeps; the NATS library runs `_onAck` for each control message on another thread |
| batch fetch (`batch_fetch.c`) | none between calls; for an asynchronous fetch a context shared by two callbacks | Fetch, AsyncFetch; `_asyncOnMsg`, `_asyncOnComplete` | Fetch drives request-many with a sentinel; AsyncFetch is driven by the subscription |
| request many (`nats-extra/src/requestmany.c`) | none between calls | `nats_RequestMany` and variants | one subscription, a loop of `NextMsg` |
| system client (`nats-sysclient/src`) | options; a walk keeps a copy of them and its page | request, ping, walks over the pages of all servers, for six endpoints | request-many underneath, a handler of the application above |
| unmarshalling (`unmarshal.c`, field tables) | none | JSON to structs by field tables, moving strings out of the tree | JSON library |
| counters (`nats-counters/src`) | stream handle | Add, Get, Load, GetEntry, GetMultiple | JetStream publish, batch fetch |
| kv codecs (`kv-codec/src`) | a KV handle and two codecs | encode/decode of keys and values; the KV operations and the watcher through them | the NATS KV API |
| connection context (`nats-context/src/context.c`) | none between calls; the settings it hands out | `natsContext_Connect`, `natsContextSettings_Destroy` | reads files, runs `nsc`, sets options, then the NATS library dials, through the SOCKS5 handler if a proxy is set |
| SOCKS5 (`socks.c`) | a registry of proxies that lives as long as the process | `natsSocks_ProxyHandler`; dial, greeting, authentication, connect | the NATS library calls the handler on the caller's thread or its own; it uses sockets with one deadline |
| utils (`utils/src`) | JSON trees, growing buffers, shims of mutex, condition, socket, child process | | used by all of the above |

### What is hard in them

* fast publish: two threads share the context; `Close` drops the mutex between
  its check and the commit; control messages may be lost, late or repeated;
  every wait has a deadline and pings; a failed step before the publish rolls
  the sequence number back, one after it ends the batch; `Destroy` may meet a
  running callback.
* batch fetch: the completion callback may run before the setup has failed.
* request many: four ways to stop, two of them timeouts of different meaning.
* system client: pages of one server shift while they are walked; one bad
  reply among many; ownership of a delivered reply moves to the handler.
  One reply is a tree of nested objects and arrays, any of which may be missing
  or of the wrong type, or may not fit the memory, after part of it was made.
* counters: an increment whose answer is lost may be counted twice.
* codecs: which keys come back as they went in, through chains of codecs; a list
  that fails at one slot is half the fetched one's, half the decoded one's.
* connection context: many ways to fail with different things allocated; settings
  that only mean something together; a handler that outlives the settings.
* SOCKS5: partial reads and writes, one deadline over many steps, a reply of
  three lengths after which the server's first bytes follow.
* utils: two pipes drained while a child runs; limits of depth and size.

What makes them correct, in brief: a context never leaks or frees twice what
it owns, never sleeps through what it waits for, publishes nothing after it is
closed, keeps its window, tells the application each terminal error once, and
reports as persisted or committed only what the server holds; a fetch ends
with exactly one call of its completion handler; a walk delivers each server's
items once; a request's body reads back as its options, a reply's blocks are
each owned once; a store behind codecs is a store of the application's own keys
and values; a connection is made with the options its context was meant to set,
and over a socket whose next byte is the server's.

## Modules

| module | what it models |
|---|---|
| `FastPublishWire` | the operations and control messages both sides exchange |
| `FastPublish` | the context, its application thread and its ack dispatcher, in an environment that may take what is published and send any control message |
| `BatchServer` | external: the server's side of one batch, as the client's code and comments describe it |
| `FastPublishSystem` | context, server and a connection that keeps order and may lose messages |
| `BatchSession` | the abstract promise of a batch: a window, one commit, success at most once |
| `FastPublishProofs` | the inductive invariant of the context and its theorems |
| `MCFastPublish` | the instances TLC checks |
| `RequestMany` | the gathering loop: one request, many replies, a clock, and the stop conditions |
| `BatchMessages` | the replies to a batch `DIRECT.GET`, their classification, and (external) what servers send |
| `BatchFetch` | the synchronous fetch: `RequestMany` with the fetch's sentinel, against a server's script |
| `BatchFetchAsync` | the asynchronous fetch: caller, dispatcher, connection and server |
| `RequestManyProofs`, `BatchFetchProofs` | the loop's inductive invariant and theorems; that the fetch is the loop |
| `BatchFetchAsyncProofs` | the inductive invariants of the asynchronous fetch and its theorems |
| `MCBatchFetch` | the options TLC gathers with |
| `SysWalk` | a walk over the pages of one server whose list changes, in one call or several |
| `SysPingEach` | the ping that makes walks: decoding, the pages' owners, failure halfway, and the run of one walk |
| `SysWalkProofs`, `SysPingEachProofs` | the inductive invariant of a walk; the theorems about a ping's walks and the owners of its pages |
| `MCSysPingEach` | the lists TLC walks |
| `NatsBuf`, `JsonWriter`, `SysRequest` | the growing buffer; the writer of one JSON object in it; what each endpoint writes of its options, and what a walk copies of them |
| `JsonLiteral`, `JsonParser` | string and number literals; the recursive descent with its stack, its tree and its allocations |
| `SysSchema`, `SysDecode` | the field tables and parse and free functions of every reply type, as data; the unmarshalling that runs over them |
| `SysClientCall`, `MCSysClientCall` | a request, a ping or a new walk from options to response, composed of the six modules above |
| `KvKeys`, `KvKeyCodec` | keys, and the path, base64 and chain codecs byte for byte |
| `KvStore` | external: what a bucket of the NATS key-value store does |
| `KvCodec` | every call of the store with codecs and of its watcher |
| `PlainKv` | the abstract store that `kvcodec.h` promises, which `KvCodec` refines |
| `MCKvCodec` | scenarios of codecs, keys, values and foreign writes |
| `ContextText` | the texts of a context file: server lists, `$NAME` and `~`, the URL of a proxy |
| `SockIo` | the sockets of `utils/src/unix/sock.c` under a deadline, over a connection whose bytes come one by one |
| `SocksProxy` | external: a SOCKS5 proxy that answers what it likes |
| `SocksHandshake` | the handler of `socks.c` |
| `CommandRunner` | `natsSys_RunCommand` and its child process |
| `NatsContext`, `MCNatsContext` | `natsContext_Connect`, composed of the five modules above, and the connection that dials again |

### Fast publish: the code and the model

The mutex `ctx->mu` is held from the entry of a call to its return, except in
`orbitCondition_TimedWait` and between the check in `jsFastPublish_Close` and
its call of `_commit`. `_onAck` holds it for its whole body and reports after
the unlock. So a stretch of a call between two of these points is one action,
and `pc` says where the application is: `idle` between calls, `closing` between
Close's check and `_commit`, `first`, `window`, `commit`, `eob` asleep in one of
the wait loops, `freed` after Destroy. The dispatcher is `idle`, has `entered`
`_onAck` but not its mutex, or is about to `report`.

Each way out of a call is an action of its own: `AddRefused` (closed),
`AddNoInbox` (`_ensureInbox` fails), `AddNotSent` (a failure before the
publish), `AddPublishFails`, `AddReturns`, `AddWaits`; for a commit
`CommitInvalid`, `CommitRefused`, `CommitNotSent`, `CommitPublishFails`,
`CommitWaits`. A sleeper continues with exactly one of `WaitTimesOut`,
`WaitPings`, `WaitPingFails`, `WaitAgain`, `AddUnblocked`, `CommitAnswered`,
`CommitAbandoned`. `_onAck` has one action for each branch of its if-chain.
A publish that fails leaves the message on the wire or not. The deadline is a
clock (`now`) that starts with each wait loop; `nextPing` is the loop's local.
A spurious wakeup is not modelled: the loop would find its condition as it was
and sleep again.

History variables are read by properties only: `live` counts commit acks
allocated and not handed over or freed, `surfaced` terminal errors that reached
the application, `sealed` the commit that returned `NATS_OK`.

### Request many and batch fetch: the code and the model

`RequestMany` is `_requestManyInternal`. `pc` is `start` before the publish,
`loop` at the head of the loop, `wait` inside `natsSubscription_NextMsg`, `done`
after the return. The clock (`now`) moves between any two steps, so a wait may
end late and the remaining time may have shrunk since it was read. `Wait` is
the choice of the timeout (`Stalls` is the code's `stallBound`); `WaitExpires`,
`WaitFails`, `SentinelStops`, `AppendFails` and `Keep` are the ways a wait ends.
`NextMsg` returns a reply that came before its timeout, and may return one that
came later. The sentinel is an operator constant of the module, so that the
loop is proved for every sentinel. `arrived` and `destroyed` are history
variables.

`BatchMessages` reduces a reply to what `_classify` looks at: whether it has a
body, its status, which of three headers it has. `BatchFetch` gives the loop
the classification as its sentinel. `kind` is `_syncCtx.kind`; `firstChecked`
is set exactly when the list is no longer empty or the call has ended, so it
needs no variable. The server's script is a batch with an end, of the old form
or the new, a batch cut off by an error, an error alone, or one message of a
server that does not know batches. `jsBatchFetch_Fetch` itself is the run's
behaviours with `Fetch(opts)`: a sentinel, no count, no stall time.

In `BatchFetchAsync` each call the caller makes into the library is an action,
because the connection may close, and the dispatcher run, between any two:
`Subscribe`, `SetOnComplete`, `PublishRequest` or `PublishRequestFails`, then
`MarkFailed` and `UnsubscribeFailed`, which have the context and the dispatcher
to race with. `Deliver` is one run of `_asyncOnMsg`, `OnCompletion` and
`Release` are `_asyncOnComplete` before and after `doneCB` returned. A reply in
the queue of a closed subscription may be dispatched or dropped. When the
dispatcher has freed the context, `MarkFailed` writes to it all the same: the
model keeps only that nobody reads the value again.

### System client: the code and the model

`SysWalk` has both loops of `sysclient.c`: `mode` is `each` for
`sysclient_walkEach`, whose total is read again from every page, and `run` for
`sysclient_walkRun`, whose total is the ping's. `pc` is `first` before the
ping's page is delivered, `loop` before the next request, `asked` inside it.
`DeliverPage` is `_deliverPage` with the handler's answer chosen freely. `left`
counts down to the deadline of the call. The server's list grows or loses
elements between any two steps; `unstable` records that it lost one, after
which the header promises nothing about completeness. `SysPingEach` puts
`sysclient_ping` and `sysclient_pingEach` before it: `Decode` and `Adopt` move
one page, `DecodeFails` and `AdoptFails` are the error paths with the release of
both lists. Walks share nothing, so one is run and the others keep their page.

### Calls of the system client: the code and the model

`SysClientCall` follows one call: `StartBody`, `WriteMember`, `EndBody` are
`ep->Marshal` with the writer of `JsonWriter` in the buffer of `NatsBuf`;
`RequestFails` and `Replies` are request-many; then for each reply `BeginReply`,
the steps of `JsonParser`, those of `SysDecode`, and `ReplyDecoded` or
`ReplyFails`. The text of a reply to one server is spelled out; one to a
ping is parsed or is not. The parser's stack stands for the C calls of `_parseArray`
and `_parseObject`; `blocks` are its allocations. The text is made while it is
read: a token is chosen when the parser looks at it, so all texts up to
`MaxText` tokens are covered without a list of them. In `SysDecode` a frame is
a call of a parse function; a block is known by the path of the member that
points to it, `moved` tells a string taken from the tree from one that was
copied, and `emptied` are the tree's nodes that gave theirs away. `SysSchema` is
the field tables and the calls each parse and free function makes, in their
order, as data; the free functions are applied as they are written, so that one
that forgets a member would leave it in `heap`. Numbers and booleans of one
table are one row: what happens to one of them happens to any.

### KV codecs: the code and the model

In `KvCodec` a call is `Ask`, then the part up to the bucket's answer (`Write`,
`Fetch`, `Watch`, or a refusal), then, for what was fetched, one step per slot
(`Decode`, `Undecodable`) and the end of the call. `raw` and `dec` are the list
that was fetched and the part of it that is decoded, `moved` the slots set to
`NULL`, `live` the blocks. Keys and values are bytes and the codecs compute on
them what the C code computes. `PlainKv` has no codec: a write puts the
application's value under the tokens of its key, a read returns them, a watcher
delivers the writes that its patterns match, in order, and an error changes
nothing and has a reason. The refinement mapping shows the entries whose keys
decode, under those tokens; what other applications write in between appears in
`PlainKv` as a write, or as `Disturbed` when it cannot be decoded.

### Connection context, SOCKS5, command: the code and the model

In `NatsContext` `pc` names the part of `natsContext_Connect` that is next;
every allocation, file or library call of it either does its work or has an
action of its own with the statuses it can fail with. `kept` are the blocks
`ctx` points to, `local` those of the function that runs, `live` those that
exist; a block freed or used without existing goes to `misused`. `settings` are
the fields that are not `NULL`, in the order `_unmarshalContextSettings` takes
them; `opts` what has been set on the connection's options. The setters of
`_context_setOptions` are taken in the code's order from `Setters`. The local
copies that a setter or a helper makes and frees itself (expanded paths, the list
of servers) are one step with it, that succeeds or fails.

`SockIo` is the operation in progress (`io`) of the one socket, `Send` and `Recv`
one system call with any number of bytes, `WouldBlock` the way into
`_waitReady`, `Ready` and `TimesOut` the ways out. `ConnectEnds` and `TimesOut`
go on to the next address, or do not, as `natsSys_SockConnect` says. The
handshake (`SocksHandshake`) is a chain of such operations; `dial.st` names the
one under way. The proxy (`SocksProxy`) reads whole messages, and answers with
any method, any status, a reply of any of the three kinds or none, or hangs up
at any time; the addresses in its replies look like replies themselves, so that
a byte left over or taken too many would be misread.

`CommandRunner` counts the output of the child in reads (`PipeRoom`,
`MaxOutput`). The pipe over which the child reports its errno is what
`ReadErrno` waits for: it ends when the child has become another program or has
exited. `NatsContext` runs it for `nsc`.

## Runs

| run | instance | what it shows |
|---|---|---|
| `FastPublishLossy` | up to 3 messages, initial flow 1 raised to 2, one outstanding ack, timeouts of 3 ticks with a ping every tick, one message lost in either direction | types; no missed wakeup; one owner of a commit ack; a terminal error at most once; a commit that succeeds is the server's and holds every message; a reported ack is persisted; the client makes no gap; the window; silence once closed; refinement of `BatchSession` |
| `FastPublishFlow` | 2 messages, server changes the flow between 1 and 2 with every ack, no loss, fairness | flow control alone never stalls both sides; every call returns; a terminal error surfaces |
| `FastPublishCommitCloses` | as Lossy, smaller | finding: Commit may return with the context open |
| `FastPublishEmptyCommit` | | finding: a commit of nothing is published |
| `FastPublishDestroy` | | finding: Destroy does not wait for a running `_onAck` |
| `BatchFetch` | stall 0 or 2, count 0 or 2, sentinel or none, timeout 0 (default 3), 2 or 9 (capped at 4); up to 3 replies of a script with a batch of up to 2 messages; the clock up to one tick beyond the deadline | types; order and completeness of the list; no wait beyond the deadline; what OK and TIMEOUT mean; a fetch that is OK has exactly the batch; a list is always a first part of it |
| `BatchFetchAsync` | batches of up to 2 messages and one stray reply, a connection that may close at any time | `doneCB` is the last call and says what is so; a failed setup is silent while the connection is open; every fetch sent ends |
| `BatchFetchFailedSetup` | as above | finding: `doneCB` is called for a failed setup when the connection closes first |
| `SysPingEach` | two servers answer; lists of up to 3 elements that change twice; pages of 1 or 2 elements, from offset 0 or 1; three calls of two ticks | while the list only grows, elements are delivered in order, once, none left out, across calls that time out; a finished walk stays silent; every walk whose requests are answered ends; each page has one owner and is destroyed once |
| `sys_client_call` | six endpoints; no option, each alone with one of two awkward texts, or all; 0, 1, 3 or enough allocations for the request; an int limit of 100; texts of 5 tokens and a depth of 2; one reply, or none or two to a ping, with one member missing and arrays of 2 | `RequestExact`: a body that is sent reads back as the options, and fits; `ParserExact`: exactly the JSON texts are accepted, and a refusal comes at the first impossible token; `NothingLeaked`; `StringHasOneOwner` |
| `kv_codec` | six combinations of codecs; keys of up to two pieces out of a letter, `/`, `.`, `*`, `_root_`, some of three, and one of 12 one-letter tokens; values of 0, 1, 3 or 4 bytes; up to 2 revisions; another application that writes what can and what cannot be decoded; an int limit of 10 | `KeepsPromise`: `KvCodec` refines `PlainKv`; `FreedOnce`; `WithinBuffers` |
| `nats_context` | every way to ask for a context, four files, every credentials path of two pieces out of ten, 4 good and 13 bad proxy URLs, names and addresses of both families, two addresses per name, a string limit of 3, a pipe of one read and output of two, one further dial | `HandshakeExact`: the socket handed over is at the server's first byte, whatever came before; `EverythingOwned`; `ConnectsAsMeant`: the options are what the file was meant to say, stated independently in `MCNatsContext`; `ConnectReturns` |

Bounds. `MaxSequence` is large enough for the first message (its own wait), a
message inside the window, one that fills it and the commit; `Flow *
MaxOutstandingAcks` of 1 and 2 makes the window fill and reopen. One lost
message is enough for a missing first ack, flow ack, commit ack, ADD, COMMIT
or ping; repetition comes from the server's answers to pings. Timeouts of three
ticks let a wait ping twice before its deadline.

Fairness. Time passes while a call sleeps (`Tick`); a thread that can run does
(`Resume`, `OnAck`, `Report`); an application in Close goes on to `_commit`.
Nothing is assumed of the application between calls, the server or the
connection. `BatchFetchAsync` assumes that the calling thread and the dispatcher
go on, and that a server whose request arrived sends its script as long as the
subscription is open: the header says that the fetch has no deadline of its own
and that termination is the server's. Nothing is assumed of the connection. `SysPingEach`
assumes that requests are answered, and does not assume that time passes: the
walk has to end by what its pages say, not by its deadline.

More bounds. In `BatchFetch` a stall time of 2 is shorter than, equal to and
longer than what is left of deadlines of 2, 3 and 4 at one time or another;
a count of 2 of 3 replies is reached before, at and after the end of a batch;
a batch of 2 has a first, a last and an inner reply to be cut at. In
`BatchFetchAsync` one stray reply is enough to wait in the queue behind the one
that ended the batch.
In `SysPingEach` two changes can shorten the list of servers and lengthen it
again between two pages, and three calls are one that times out, one that
resumes and one after the end.
In `sys_client_call` 5 tokens hold two levels of containers and one too many of
the depth of 2; two fragments of a string hold a surrogate pair, one half of it,
or an escape cut off; an int limit of 100 is crossed in the middle of a body,
first by the doubling and then by the sum. Arrays of two have an element before
and one at a failure; one missing member per reply meets every member, as the
choice is free. A second reply is enough for a list that fails after a first
response was decoded; a list of one is like the reply to one server.
In `kv_codec` a key of two pieces has a leading, trailing, doubled or lone
separator, the root prefix, or a wildcard beside a letter; the key of 12 tokens
is the worst case of base64's rounding; values of 0, 1, 3 and 4 bytes, encoded
once or twice, have all three remainders. The int limit of 10 refuses values
longer than 3 bytes. Two revisions are a
value and its successor or marker, and a history of two to fail in between.
In `nats_context` the output of 2 reads meets a pipe of 1, so that the child can
be blocked; the deadline can pass between any two steps; a further dial after
the settings are destroyed is enough to use the proxy too late. The string limit
of 3 (for 255) keeps one-byte lengths and is crossed by names of 4.

More fairness. `nats_context` assumes that the threads of the caller and of the
connection go on (`Step`, which has no spontaneous failure in it: an I/O error
nobody can count on is in `Surprise`), that time passes during an operation, and
that a child that can write, exit or become another program does. Nothing is
assumed of the proxy or of the network. `ConnectReturns` has one exception, which
the code has too: when the output of the child cannot be kept (`natsBuf_Append`
fails, sys.c:144, or `read` does), the loop ends with the pipe open and undrained;
a child that has more to write than the pipe holds waits for room while
`waitpid` waits for it. The comment at sys.c:155, "The child is done writing by
now", does not hold on that path.

Type correctness is checked where it is a theorem of its own (the context, the
gathering loop); elsewhere TLC evaluates every expression, which the safety properties and
the coverage of every action already ask for.

## Proofs

`FastPublishProofs` is about the context alone, in the open environment: the
theorems hold whatever the server sends, in whatever order, and for every value
of the constants under `ParamAssumption` (options are 16-bit and positive,
timeouts positive). The inductive invariant `ClientInv` is

* `TypeOK`;
* `AckInv`: one live commit ack exactly when `ctx->commitAck` is set, which
  implies that the commit has been answered and the context is closed, so
  `_onAck` returns early before it could overwrite it;
* `ReportInv`: a waiting commit has `commitPending` set, then no report is
  pending, and the sum of errors surfaced, errors about to be reported and
  commits that will return one is at most one;
* `NoMissedWakeup` itself.

`ReportedAtMostOnce` is not inductive alone: it needs to know that an open
context has reported nothing and that a waiting commit excludes a report.
There is one lemma per group of actions, `ClientInvNext` puts them together,
and the theorems follow: `TypeCorrect`, `NoWakeupMissed`,
`CommitAckHasOneOwner`, `TerminalErrorReportedOnce`, `ClosedIsSilent`.

`RequestManyProofs` is about the gathering loop under any options, any sentinel
(an uninterpreted operator) and any replies at any time, under
`GatherAssumption` (times and counts are natural numbers). The invariant
`GatherInv` is type correctness, the five properties, and four parts without
which they are not inductive: `CountInv` (the counter is what is left of the
count, and never 0 while the call runs), `SentinelInv` (no recognised reply in
the list), `StallInv` (a wait bounded by the stall time began after the last
reply in the list came, any other ends at the deadline) and `TimeInv` (no reply
comes from the future). There is one lemma per part over all steps, and
`GatherInvariant` puts them together. `BatchFetchProofs` shows
`FetchSpec => GatherSpec`, so that every theorem of the loop holds of the fetch.

`BatchFetchAsyncProofs` is about the asynchronous fetch for batches of any
length and any number of stray replies (`AsyncAssumption`: the bounds are natural
numbers). `SetupInv` says what the caller's position implies: the context is
marked before its subscription is closed, only a sent request is answered, and a
subscription closed on an open connection means that the batch ended or the setup
failed. It gives `FailedIsSilentWhileOpen` and, with the dispatcher's state,
`DoneIsLast`. `DoneIsSound` needs `DeliveryInv` as well: delivered and queued
messages together are what the server sent, in the order of its script, so that
the reply `_asyncOnMsg` looks at is the next of the script, and one that ends the
batch comes when all before it are delivered. `OnCompletion` reports a closed
connection only where `SetupInv` says it is closed.

`SysWalkProofs` has the invariant of a walk, for any list of any length, any
options and any number of calls (`WalkAssumption`). `WalkInv` is types; `CallInv`,
how the position of a call, its result and `done` go together; `PartInv`, that
on a list that only grows the delivered elements are its part from the start
offset, the page of the ping is the part after them, and is empty only if nothing
listed follows; `NoneLeftOut`; and that `offset` and `total` are what was delivered
and listed. `DeliveredOnce` alone is not inductive: the page in `walk->first` is
delivered in a later call than it was cut in. `SysPingEachProofs` adds `BeforeRun`
(no walk runs before the ping has made it) and proves `WalkDeliversOnce`,
`WalkLeavesNoneOut` and `FinishedStaysSilent`; for the owners of pages, `OwnerInv`
says which slots of the two lists are set at each index of each loop and how often
each page was freed, and gives `PageHasOneOwner` for any number of servers.

Model-checked only: the content of the synchronous fetch's batch (`FetchComplete`,
`FetchPartial`), everything about context and server together, the refinements of
`BatchSession` and `PlainKv`, the calls of the system client, the codecs,
`natsContext_Connect`; and all liveness (TLAPS 1.4.5 does not do `ENABLED`). What
the recursive functions of the codecs and of the JSON literals compute for every
input would need induction over data, which the installed provers cannot
instantiate: they are compared with reference definitions over bounded inputs.

The theorems that would add most: the context with its server keeps the window
(`WindowBound`) and implements `BatchSession` step by step; the content of a
fetched batch, from the loop's invariant and the shape of a script; the ownership
of the blocks of `natsContext_Connect` (`EverythingOwned`).

## Not modelled, and why

* Counters (`nats-counters/src`): each call is one request and one parse of its
  reply; the client keeps nothing between them. An increment counted twice is a
  retry by the application, and the count is the server's. The parser of a
  counter's entry is arithmetic on one text, like `natsSysTime_Parse`, whose
  bounds are those of 64 bits: over a smaller word they would be others.
* The six option structs' values, numbers and booleans of replies: a member is
  there, is missing, or is of the wrong type. `natsSysClient_Create` and the
  accessors are assignments.
* `natsBuf_Consume`, `natsBuf_MoveTo` and buffers on a caller's memory: not used
  by the callers that are modelled.
* KV codecs: other applications write between two calls only, since a call
  decodes its own copy of what it fetched. Watch options (`MetaOnly` and so on) and
  a history asked for with a wildcard are left out. Foreign keys that hold a `/`
  under a path codec, non-canonical base64 of a key, and NUL bytes in decoded keys
  are not tried; nor is a chain of base64 before path. Codecs are fixed by the
  scenario, so creating and destroying them is not modelled.
* Connection context: the direct dial and the handshake with the server are the
  NATS library's. A reconnect is one later dial, with the settings destroyed or
  not. `getaddrinfo` is assumed to return: it has no deadline in the code. What
  `nsc` reports is recorded and freed by the code and never put on the options, in
  the model as there. Names of contexts are good or bad, files are found or not.
  The registry of proxies is one block that is never freed.
* The Windows shims (`utils/src/win`), mutex creation and message helpers: another
  build, or thin wrappers of system or library calls.
* Building subjects and headers: one step that may fail. What the server makes of
  them is outside the source.
* Memory as such: allocation is a step that may fail; what matters of ownership
  is a variable of the model it belongs to.
* The NATS client library and the server, beyond what the source relies on.
* Examples, tests and generated documentation: read for what they expect.
