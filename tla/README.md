# Verification of libx-msg-im-xsc

libx-msg-im-xsc is the transaction layer of X-MSG-IM on top of the network
library libxsc.  A message between two network elements is a *transaction*: one
side begins it (`begin`), the other handles it and ends it (`end`), and the
answer, a timeout or the loss of the connection runs the callback of the side
that began it.  This directory holds TLA+ models of the library, TLC runs over
small instances, and TLAPS proofs for instances of any size.

libxsc itself is not in the repository.  What the models need of it is taken from
how the code here uses it: a worker is one thread; `future()` appends to the
worker's mailbox and the worker runs its mailbox in order; the worker calls
`evnRecv`, `dida`, `clean` and `evnDisc` of its channels and nobody else does;
`lazyClose()` closes once the write buffer is empty.

## Inventory

| Part | Source | State | Operations | Called by |
|---|---|---|---|---|
| Transaction layer | `XmsgImChannel`, `XmsgImTrans*` | `transInit` (pending transactions by id), `tidSeq`, `lastCheckTransTs`; of a transaction: `stid`, `dtid`, `ret`, `gts`, `lazyClose` | `begin`, `unidirection`, `forward*`, `futureBegin`, `evnMsg` and its handlers, `checkTransInit`, `cleanTransInit`, `end` on either side | applications on any thread; the worker |
| TCP channels | `tcp/XmsgImTcpChannel`, `XmsgImTcpN2H` | `est`, read and write buffers | `evnRecv`, `dida`, `clean`, `evnDisc` | the worker |
| Connecting side | `tcp/XmsgImTcpH2N` | `est`, `trying`, `needWait`, a place in the worker's `h2ns` | `connect`, `svc` on a detached thread, two futures, `heartbeat` | applications, `evnDisc` of a subclass |
| Registration | `XmsgImN2HMsgMgr`, `XmsgImMsgMgr` | `msgs`, `itcpCb`, and a copy per worker | `reg`, `setItcp`, `copyMsg2allXscWorker` | the application at start-up; workers read |
| Stubs | `XmsgImMsgStub` | protobuf names, `auth`, callback | `newBegin`, `newUnidirection`, `newPbMsg` | dispatch |
| RUDP, UDP channels | `rudp/`, `udp/` | as TCP; RUDP keeps a check stamp | `evnRecv`, `dida`, `clean` | the worker |
| WebSocket channel | `ws/` | handshake done, a partly received frame | `checkHandShake`, `decode`, `decodeFrameBinary`, `decodeXscPdu` | the worker |
| HTTP channel | `http/XmsgImHttpChannel` | `msgName`, `clientToken`, `oob`, `dat` of the last request | `evnHeader`, `evnBody`, `sendXscPdu` | the worker |
| Generated messages, logs | `http/*.pb.*`, `*Log.*` | none | none | not modelled |

What is hard here, and what would make each part correct:

- **Three ways to end a transaction.**  An END, the timeout check and the loss of
  the connection race for one table entry.  The callback must run at most once, an
  END must reach the transaction whose BEGIN carried its id and no other, and,
  says the repository's own README (line 70), every begin must end.
- **Futures that run late.**  `begin()` and `end()` act on the channel as it is when
  the worker runs their future, which may be closed, closing, or connected again.
- **A 32 bit counter** that starts anywhere and wraps over a table that may still hold
  its oldest entries.
- **Reconnecting.**  `connect()`, the detached `svc` thread and the worker share an
  atomic, a plain bool and `est`, with no lock.  There must be one `svc`, one
  registration for `dida()`, one connection, and no bytes of the old one.
- **A stream in frames.**  A WebSocket peer cuts its PDUs into frames and the network
  cuts the frames into reads.  What is kept between two reads, and between two frames,
  decides where the next head is read.  On TCP and RUDP a read ends anywhere, and a PDU
  that is left in the buffer waits for one that may not come.
- **Two ends of one connection.**  Each notices its loss at a time of its own.  An answer
  carries only an id, and it is sent on whatever connection the object has when the future
  runs.
- **Answers without an id.**  On a kept-alive HTTP connection the k-th answer is that of
  the k-th request, whatever order the application ends them in.
- **Copies per worker.**  Registration runs while workers handle PDUs.  It must be
  complete when it returns, and never inconsistent before.

`PROJECT.json` lists every such hazard at its line, with the properties aimed at it.

## Modules

| Module | Models |
|---|---|
| `TransactionLifecycle` | what a caller of `begin()` is promised: opened once, settled at most once with one of four outcomes |
| `XmsgImChannel` | one channel: the transaction layer with the `dida`/`clean` of its class |
| `RemoteCall` | what two sides that call each other are promised: served at most once, settled once, with an answer that was given |
| `ConnectionCycle` | what a connecting channel promises: what was asked for is not dropped before the channel is up |
| `XmsgImTcpH2N` | `connect()`, `svc()` and the heartbeat of a connecting channel |
| `XmsgImLink` | a connecting channel, the server's objects of its connections, and what is under way between them |
| `XmsgImHttpChannel` | a kept-alive HTTP connection: requests, the passive transactions they begin, answers |
| `PduStream` | what a peer that sends PDUs as bytes is promised: each handled once, in order, none skipped |
| `XmsgImTcpChannel` | `evnRecv()` of a TCP or RUDP channel: the bytes of a read become PDUs |
| `XmsgImWebSocketChannel` | handshake and frame decoder of a WebSocket channel |
| `XmsgImN2HMsgMgr` | registration of messages and of the interceptor over the workers, the stubs, and how a worker handles a PDU meanwhile |
| `MC...` | the instance of each for TLC |
| `...Proofs` | theorems of each |

### XmsgImChannel

`mailbox` is the part of the worker's mailbox that concerns the channel.  `Begin`,
`Unidirection` and `End` are the application's calls, on any thread; each appends
a task.  Everything else is a step of the worker and is one action, because the
worker is the only thread that touches `transInit`, `tidSeq` and `est`: a callback
that calls `begin()` or `end()` only appends to the mailbox.

| Code | Model |
|---|---|
| `begin`, `futureBegin`, `sendBegin`, `genTid` | `Begin`, `FutureBegin`, `SendBegin`, `GenTid` |
| `end` (eight forms), `__end__` | `End`; `EndUnsent`, `EndFailure`, `EndReply` |
| `evnEnd`, `XmsgImTransInitiative::end(pdu)` | `EvnEnd`, with `reflects` = the data parses |
| `evnBegin`, `evnUnidirection`, `evnMsg` returning false | `EvnBegin`, `EvnReject` |
| `dida`, `checkTransInit`, `n2hTransTimeout` | `Dida`, `CheckTransInit`, `TransTimeout` |
| `clean`, `cleanTransInit` | `CloseChannel` |
| the establishing future of `svc` | `Establish` |
| libxsc: loss, lazy close, writing | `Lost`, `LazyClosed`, `Flush` |

`Proto` selects the class: which have a `dida()` that checks (`ChecksTimeout`), which
have a `clean()` that ends what is pending (`CleansTrans`), and that a RUDP channel
starts with an arbitrary `lastCheckTransTs` (`Never` is a value the clock does not
reach).  Time is elapsed ticks that saturate at the thresholds the code compares
with.  An END with an unknown id, an accepted one-way message, a PDU the interceptor
consumed, PING and PONG change nothing here and are no actions.  `cbs`, `issued`,
`ord` and `carrier` are history that only properties read.  Bounds: a transaction is
begun once, a passive one is begun and ended once, a one-way message is not sent
again while it is under way.

### XmsgImTcpH2N

`AppConnect` reads `est`, `AppExchange` takes `trying` (an atomic exchange): the two
reads of `connect()` are separate steps on an application thread.  On the worker,
which alone writes `est`, the two are part of `Lost`: `evnDisc()` belongs to the
application's subclass and may or may not call `connect()`.  `svc[s]` is the program
counter of a detached thread, with a step between any two accesses to shared state.
`rcv` and `wbuf` tell whose bytes the buffers hold.  `AppConnects` bounds the calls
of application threads.  In terms of `ConnectionCycle` the channel is connecting from the
exchange of `trying` to the future that sets `est`, that is, while a thread has not
connected or that future is in the mailbox.

### XmsgImLink

This module composes the two sides: object 0 is the `XmsgImTcpH2N`, which lives for ever,
object `c > 0` the `XmsgImTcpN2H` the server makes for connection `c`.  `up[c]` and
`down[c]` hold what was sent on connection `c` and is not read.  A side that is told of the
loss (`Lost`) reads no more of it; the other may go on reading until it is told as well,
also when object 0 is on the next connection already.  What is sent to a side that has lost
the connection is not read, and what is written on a lost one is thrown away.

A PDU has its id and nothing else to tell transactions apart: `of` in an END is
read by no action, only by the history `answer`.  So `EvnEnd` may end a transaction with
the answer to another one, as the code may.

| Code | Model |
|---|---|
| `begin`, `futureBegin`, `genTid` | `Begin`, `FutureBegin`, `GenTid` |
| `end`, `__end__` | `End`; `FutureEndUnsent`, `FutureEndFailure`, `FutureEnd` |
| `evnRecv` | `Take`, one PDU at a time |
| `evnMsg`, where the interceptor returns `SUCCESS` or `FORBIDDEN` | `Intercepted` |
| `evnBegin`, `evnEnd` | `EvnBegin`, `EvnEnd` |
| `checkTransInit` | `CheckTransInit`, any of the pending transactions being overdue |
| `clean` | `Close`, part of `Lost` and of `FutureEndFailure` |
| the constructor of `XmsgImTcpN2H`, the establishing future of `svc` | `Connect` |

`RemoteCall` sees the outcomes of both sides, what became of the BEGIN on the side that
serves it (`served`), and `answer`.

An interceptor may take any PDU off the wire (`XmsgImChannel.cpp:425`).  If it takes an END,
the connection goes on and the transaction stays in the table until the timeout check or the
loss of the connection; `consumed` is the history of that, for the answers of the server.
That an interceptor answers a BEGIN itself, with the `sendEnd()` made for it, is left out
here.  `EXCEPTION`, and a PDU that is refused, is a `Lost`.

The details of one channel (time, raw messages, lazy closing, one-way messages)
are in `XmsgImChannel`; a lazy close is here a loss some time after the answer.  A passive
transaction is ended once.

### XmsgImHttpChannel

A GET with a name and data is a BEGIN.  `EvnHeader` is one call of `evnHeader`: each of
its returns is an action (`Nameless`, `NotGet`, `GetRefused`, `GetConsumed`,
`GetHandled`), and all but the first take the headers that are there (`TakeHeaders`).
`EvnBody` is `evnBody`; that it closes the connection when the request was a GET is in it.
`SendXscPdu` drops what is no END, which is why `begin()` on such a channel sends nothing.

A client may pipeline.  The application may end what it was given in any order and more than
once (`End`), and an interceptor may answer whatever it was shown, consumed or not, at any
time (`InterceptorEnds`), as nothing in the code keeps either from it.  `inOrder` is the
history of whether they kept to the order of the requests; `sent` is that of the answers.
An interceptor's answer overtakes what is in the mailbox, which its part of `inOrder`
says.  An END with `RET_FAILURE` and `lazyClose` sends nothing and leaves the connection open
until what is written is gone, so an answer behind it would be taken for its own: that breaks
the order too.  `MaxCalls` bounds the futures that wait and the answers together.

The oob and client token headers are left out.  The code copies the oob into the
transaction and leaves the token on the channel, and keeps both if a later request has none;
no text says what such a request should get.

### XmsgImTcpChannel

A byte is its position in what the peer sends, and PDU `i` ends at `Ends[i]`.  The peer may
stop sending PDUs anywhere, also in the middle of one, and send bytes that are none
(`junk`).  `Recv` is a read of any size with the call of `evnRecv()`; each turn of its loop
is a step `EvnRecv`, with `used` as in the code: `DecodePdu`, `Malformed` (`exp`) and
`Incomplete` are its ways on.  What `decode()` makes of bytes that are no PDU is left open
(`DecodeGarbage`).  The code is the same in `XmsgImTcpChannel.cpp:31` and
`XmsgImRudpChannel.cpp:28`.  Bounds: the number of PDUs, and `MaxJunk`.

### XmsgImWebSocketChannel

A byte is its position in the peer's stream and PDU `i` ends at `Ends[i]`, so "these
bytes decode to PDU `i`" is "they begin where it begins and reach its end".
`cachedXscPdu` always holds the last bytes before the next frame; `cached` is their
number.  `Recv` is a call of `evnRecv()` with some more bytes; the worker then takes
one step for each turn of the loops of `decode()` (`pc = "frame"`) and
`decodeXscPdu()` (`pc = "pdu"`).

| Code | Model |
|---|---|
| `checkHandShake`, `parseSwk`, `sendHandShake` | `CheckHandShake` |
| `decode`: refusals, control frames, length, mtu | `Refuse`, `SkipControl`, `LengthNotThere`, `Oversize`, `Incomplete`, `NoHead` |
| `decodeFrameBinary`, before and after | `DecodeFrame`; `EndFrame` with `NothingLeft`, `CacheRest`, `EraseRest` |
| `decodeXscPdu`, `evnMsg` | `DecodePdu`, `DecodeGarbage` |

What happens on bytes that are no head of a PDU or of a frame is any of: the connection
is closed, more is awaited, something nobody sent is handled (`Garbage`).  So is what follows
a control frame, of which the code skips two bytes, and the invalid `erase()` of line
239, which may also crash (`sync = FALSE`, `Astray`).  After a
control frame the code may also find the head of a frame again and handle PDUs that were
sent; the model has only `Garbage` then, so `HandledInOrder` says nothing of what is handled
after one.  `tidy` is history: the peer sent
only data frames within the mtu, and each that continues a PDU ended one.  A client
sends frames after the 101.  Bounds: `MaxFrame`, `MaxWire`, and `Garbage` as
often as there are PDUs while astray.

### XmsgImN2HMsgMgr

`Reg` is the set of calls of `reg()`, each with the descriptors of its stub; two may have
the same name (`Named`, the constructor of `XmsgImMsgStub`), and a stub named after its
BEGIN may take one-way messages of another name.  `Itcp` is the set of calls of
`setItcp()`.  A call appends to the mailboxes of the workers
one by one (`Post`), waits (`Wait`, `Return`), and the workers run what they have in
between (`RunFuture`).  One call is under way at a time: the map has no lock.

A worker also handles PDUs in between (`EvnPdu`): `getMsgStub` of its own manager, the
interceptor, the descriptor for a BEGIN or a one-way message, and the user a stub may
require.  `handled`, `unchecked` and `missed` are the history of that: which stubs handled
a PDU, which handled one that no interceptor had seen, and which had been registered,
`reg()` having returned, when a worker did not know the message.

## Runs

The longest run takes two to three minutes.  Deadlock is not checked: every instance stops when the bounded
calls are spent.

| Run | Question | Instance |
|---|---|---|
| `channel_h2n` | safety of initiative transactions over reconnections, the refinement of `TransactionLifecycle`, and that each begin ends | 3 transactions, one raw, 2 ids: with one more begin than ids a slot is overwritten |
| `channel_n2h` | is an answer lost only with its connection, and does what is pending on a live connection end? | 2 passive, 1 initiative, a one-way message, lazy closing |
| `channel_n2h_after_loss` | finding, below | 1 transaction |
| `h2n_connect` | one thread, one registration, no bytes of the old connection, the refinement of `ConnectionCycle`, every accepted `connect()` connects | 2 application threads, 3 calls, 3 thread names |
| `h2n_second_connection`, `h2n_lost_reconnect` | findings, below | 1 application thread |
| `link` | which transaction does an answer reach, on either side, is one lost though its connection is there and no interceptor took it, and the refinement of `RemoteCall` | 3 transactions begun of 3 of the dialing side and 2 of the server, 2 ids, 2 connections, 1 future at a time per object; the ids of the dialing side start at 0 |
| `http_requests` | in which order of ends do answers without an id reach their requests, and when is one lost? | 3 requests, 4 ends or answers, one message that is no answer |
| `tcp_stream` | is every PDU handled, once, in order and as soon as it is there, however the reads cut it? | PDUs of 2, 1, 3 and 1 bytes, 2 bytes of junk, all reads |
| `websocket_frames` | is any PDU handled twice, early or out of order, and does a tidy peer lose one? | PDUs of 1, 2 and 3 bytes, frames of 1 to 5, mtu 4, 3 frames under way |
| `websocket_split_pdu` | finding, below | the same |
| `msgmgr_reg` | with which stub, known or unknown, seen by an interceptor or not, is a PDU handled during the calls and after them, and do they return? | 3 workers, 3 stubs for 2 messages, 2 interceptors |

The bounds suffice to meet each hazard: the id counter goes round, each of the four
ways to leave the table meets each other, a transaction is older and younger than the
check, a PDU spans one to three frames and a frame one to three PDUs, a read holds up to four
PDUs, or a part of one, or all of some and the head of the next,
there is a thread more than may exist at once, a worker is behind, abreast and
ahead of another.  On the link the ids of the dialing side go round, an answer of the
first connection meets a transaction of the second, and a begin is overtaken; the HTTP
connection has a request that is neither the first nor the last, and room for one end or
answer more than requests.  On the link the ids of the dialing side start at 0 in TLC's
instance (`MCSpec`): they are compared with each other only, so it makes no difference where
they start.  Timeouts of one or two ticks order every pair of events in time that
the code distinguishes.

**Fairness.**  The channel runs assume that the worker runs its mailbox and its timer,
that time passes, and that a connecting channel is established again in the end
(`WF(Establish)`).  This last is an assumption, not a consequence: `AcceptedConnects` gives it
for a `connect()` that was accepted, and `h2n_lost_reconnect` shows that the one `evnDisc()`
calls may be refused; then it needs somebody who calls again.  So
`EveryBeginEndsUnlessWrapped` is about channels that are connected again.  Nothing else is
assumed of the peer or the application.  `XmsgImTcpH2N` assumes that threads are scheduled, that
the worker runs its mailbox, and that the remote side accepts if it is tried again and
again (strong fairness of `ConnectSucceeds`).  `XmsgImWebSocketChannel` assumes that what
was sent arrives and that the worker goes on decoding; nothing of the peer.  The registration runs assume that the
caller and every worker are scheduled.

## Findings

| Run | What happens |
|---|---|
| `channel_n2h_after_loss` | a `begin()` whose future runs after the N2H connection was lost enters the table after `clean()`; `dida()` returns early for a channel that is not established, so the callback never runs |
| `h2n_second_connection` | `connect()` between the successful connect and the future that sets `est` makes a second connection, and the socket of the first is forgotten |
| `h2n_lost_reconnect` | a connection established and lost before `svc` releases `trying` refuses the reconnect of `evnDisc()`, and nobody connects again |
| `websocket_split_pdu` | `erase(begin() + 0, end() + used)` should end at `begin() + used`: the second of three frames that carry a PDU erases the cache, and the third is decoded as a new PDU; if a frame completes a PDU and begins the next the range is invalid |

The first contradicts README.md:70 of the repository, the two of
`connect()` what it reports itself at lines 42 and 47.  `websocket_split_pdu` contradicts
README.md:11, which offers WebSocket beside the other transports, and README.md:70: the
message never becomes a transaction.  A client that puts one PDU in each frame, as the
example in the repository's README does, never meets it.

On an H2N channel the first heals: the transaction is in the table when the channel is
established again, and then the check ends it (`EveryBeginEndsUnlessWrapped` in
`channel_h2n`).  The second connection needs a call by the application: with one, later
ones being those of `evnDisc()`, there is none (`ReconnectsOnce`), which is why `Establish`
of `XmsgImChannel` has `~est`.  What `h2n_lost_reconnect` loses is a call that was refused:
an accepted one is never dropped (`CycleSpec`).

Two classes of channel keep less than the TCP ones, without any text that promises more.
`dida()` and `clean()` of the WebSocket and UDP channels are empty: an unanswered begin never
ends there, for WebSocket not even with the connection.  `XmsgImRudpChannel` leaves
`lastCheckTransTs` uninitialised; with some values in that memory (`Never`) the timeout check
never passes its guard.  `XmsgImChannel` models all three: `channel_n2h_after_loss` with
`Proto = "websocket"`, `"udp"` or `"rudp"` violates `PendingOnLiveEnds`.

On the link one thing that holds is weaker than a reader may expect.  An answer given on an
H2N channel after it was connected again goes to the server's new object, and the ids of
that object start anywhere: it may end a transaction of the new connection with the
answer to one of the old.  `AcceptorGetsOwnOrEarlierAnswer` says that nothing
else can; in the other direction it cannot happen (`DialerGetsOwnAnswer`).

## Proofs

The theorems are about `Spec`, so about any number of transactions, threads, workers,
any width of the id counter and any class.  They assume the `ASSUME` of the module only,
which says what sets the constants are from (`NothingPendingFromBefore` also
that the class has a `clean()`).

**XmsgImChannelProofs.**  That a callback runs once is not inductive.  The invariant
`IInv` says where a begun transaction is: in the mailbox, once, and not in the table
(`QueueInv`); or in the table, under its own id (`TableFollowsCounter`); and that the
callback count is 1 exactly when there is an outcome (`CallInv`).  `TableFollowsCounter`
carries the distance to the id counter: a slot that is overwritten holds a transaction
begun `MaxTid + 1` ids ago (`CounterStep`), which gives `LostOnlyAfterWrap`, and two
pending transactions never share an id.  `SettleKeeps` is the common step of an END, the
timeout check and `clean()`.  `ImplementsLifecycle` maps `outcome` and `cbs` to
the abstract variables; a pass of the check or a `clean()` is one `Settle`.
`ReplyLostOnlyWithConnection` needs that a passive transaction whose connection is there
is `carrier = "current"` as long as `est` holds, and is gone otherwise.

**XmsgImTcpH2NProofs.**  `SvcInv`: a thread that runs holds `trying` and is the only one.
`PhaseInv` ties `needWait` and the program counter to the registration: none before the
first attempt, one after.  `OrderInv`: an establishing future is behind the registration
in the mailbox, so the channel is in `h2ns` when it is established.

`OneInv`, for `ReconnectsOnce`: while application threads have called once at most, a thread
still to connect, an establishing future and an established channel exclude each other.

`TryingIsHeld`, the other half of `AtMostOneSvc`, is inductive beside `SvcInv`: who takes `trying` starts a thread, and the
thread that ends is the one that releases it.  `CycleStep` shows the refinement of
`ConnectionCycle` step by step, with no bound on threads or calls: a thread posts the
future in the step in which it is past connecting.

**XmsgImN2HMsgMgrProofs.**  `CallInv`: one call is under way and nothing but its future is in
any mailbox.  `JoinInv`: its join counter is the cardinality of the workers that have run that
future (`Ran`), so when it reaches `N` all have.  `SyncInv`: a worker that has is a copy of
the application's manager, one that has not lacks that change and nothing else; hence
`WorkersCopyWhenQuiet` and `RegisteredIsKnown`.  `StubInv`: a stub stays where it was
registered and an interceptor, once set, is at every worker before a guarded stub is; hence
`HandledAlike`, `InterceptedFromTheStart` and, of every step, `StubStays`.

**XmsgImLinkProofs.**  `Ids` says which ids a PDU about a transaction may carry: the one it
got, as far behind the counter as ids were generated since (`Back`, `Lag`); after a turn
that is forgotten, but under the id there is never a transaction less than a turn younger
(`FutureBeginIds`).  `WireInv` and `HandledInv` say that every PDU under way and every
`dtid` carries such an id, `SlotInv` that a table has nothing but under its own; so an END
ends its own transaction or one a turn younger, unless the two were begun on different
objects, which only the server has (`AnswerInv`).  `HereInv`: what is in the
dialing side's table travelled on the connection there is now, and with `TableInv`, that an
open transaction is in the table for a turn, an answer of the server is on that connection,
consumed by an interceptor there (`Answered`), or settled.  `TaskInv` and `BornInv` tell where futures are queued and transactions begun.
A step that sends nothing is `Calm`, which keeps all but a few parts at once
(`CalmKeeps`); the four that send, accept or consume a PDU have lemmas of their own.

**XmsgImLinkCallProofs.**  The refinement of `RemoteCall` needs three facts more than that:
`OpenInv`, nothing that is in a table or is still to be begun has an outcome; `EndsOnce`, of a
transaction one END at most is under way; and `UsedInv`, an answer that was told
is off the wire, and was told once.  With them `CInv` is inductive, and each step is one of
the abstract ones: `FutureEndFailure`, which closes the connection, is a `Drop` that gives up
what is open on it, and an END that is read is an `Answer` to one transaction, or nothing.

**XmsgImTcpChannelProofs.**  `OnTrack`: what was handled are the first PDUs, and `evnRecv()`
is at the end of the last; `OffTrack`: it is behind the stream, all of which was handled.
`NextPdu` leads from the one to the next step: the PDU that begins here is the one after the
last, and if it is not there as a whole no later one is (`NoneLeft`).  That gives order, that
nothing waits in the buffer, and the refinement of `PduStream`.  `PhaseInv`: in the loop something is left, so with `TypeOK`
`used` never passes `len`.

**XmsgImHttpChannelProofs.**  `LifeInv`: a request is unsent exactly when it is behind the
last, and no END is queued for one that has not arrived.
`QueueInv`, as long as the application and the interceptor kept to the order: the ENDs in the
mailbox are in the order of their requests, each request that is ending has one, and none is
twice.  `OrderInv`: while the connection is there, the answers are those to the first
requests, one each.  So the END at the head of the mailbox is the next answer (`HeadIsNext`),
and the queue behind it is in order again (`QueueTail`).

**XmsgImWebSocketChannelProofs.**  `WireInv`: a frame begins where the one before it
ended.  `PhaseInv`: the decoder is never before the cached bytes nor behind the
frame.  `BehindInv`: what was handled is behind the decoder, which with the increasing
`Ends` gives order.  `TidyInv` carries the argument why a tidy peer is safe: bytes are
cached only up to the middle of a PDU (`NoneEnds`), so the next frame ends a PDU, and
`NextPdu` leads from the decoder to that end with nothing left for `erase()`.  The
refinement follows: a step handles the next PDU or is no step of the stream.

Only model-checked: all liveness (`TidySentIsHandled`, `EveryBeginEndsUnlessWrapped`,
`PendingOnLiveEnds`, `AcceptedConnects`, `CallsReturn`), which needs fairness and ENABLED.

## Not modelled

Message data, oob headers and the client token, also where an HTTP channel keeps them, and
tracing;
logging and generated code; the raw socket calls; `evnContinue`, `evnDialog`, `evnCancel`
and `evnAbort`, which nothing calls.  `XmsgImH2NMsgMgr` adds nothing to `XmsgImMsgMgr`.
Where a PDU ends is `transm.len`, which the library decodes, and how large a read buffer may grow
is the library's as well.  A UDP channel takes one PDU from each datagram; datagrams,
which may be lost, are not modelled.  That a thread cannot be
created after `trying` was taken is not modelled.  An application
that ends a passive transaction twice (but see `XmsgImHttpChannel`), or registers from two
threads or from a worker, breaks the contract the code relies on and is left out;
`PROJECT.json` lists these under hazards.

## Plan

1. The bound on when a timeout is reported (`TransTimeout` plus `CheckPeriod`).
2. A refinement: each object of `XmsgImLink` implements `TransactionLifecycle`.
