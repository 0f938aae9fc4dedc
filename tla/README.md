# Verification of wp

This directory holds TLA+ models of `wp`, a Go implementation of the WP/2
protocol (a multiplexed successor of SPDY/2: requests, responses, pushes, pings
and headers as prioritised frames over one TLS connection), the TLC
configurations that check them, and proofs of the most important results with
TLAPS. Paths such as `conn.go 46-100` are relative to `src/`.

    tlc -config ConnServer.cfg MCConn.tla    # one run; the list is below
    tlapm Conn_proofs.tla                    # proofs; also Server_proofs,
                                             # Client_proofs, Transport_proofs,
                                             # Pings_proofs, Push_proofs,
                                             # Frames_proofs, Headers_proofs

## 1. The system

| Part | State | Operations | Talks to |
|---|---|---|---|
| Connection, `conn.go` | mutex, `sending`, `stop`, eight output channels, the maps of streams, pings and pushes, the ID counters, the error counter | `Ping`, `Push`, `Request`, `Close`, `Run`; goroutines `readFrames` and `send` | the streams (map under the mutex), the socket, the applications (channels) |
| Server stream, `server_stream.go` | `StreamState`, headers, `wroteHeader`, `wroteResponse`, its output channel | `Write`, `WriteHeader`, `WriteResponse`, `Header`, `ReceiveFrame`, `Run`, `Close`; one goroutine per request | the connection's output channels; the reader closes it |
| Client stream, `client_stream.go` | `StreamState`, headers, `receiver`, `finished` | `ReceiveFrame`, `Run`, `Close`, `Header`, `WriteHeader` | the reader delivers to it, the caller of `Run` waits for it |
| Push stream, `push_stream.go` | as a server stream, and its origin | `Write`, `Close` | the origin stream's state |
| Stream state, `interfaces.go` 204-274 | open, half-closed at an end, closed | `CloseHere`, `CloseThere` and the questions about them | every stream |
| Transport, `transport.go` | `t.m`, slots, pool of HTTP connections, WP connections by host | `RoundTrip`, `dial`, `doHTTP`, `process` | `Conn.Request`, `net/http` |
| Frame codec, `frames.go` | none | `readFrame`, and `ReadFrom` and `WriteTo` of seven frame types | the socket |
| Header compression, `compression.go` | zlib streams, shared by all frames of a direction | `Compress`, `Decompress` | the send loop, the reader |
| Set-up, `server_conn.go`, `client_conn.go` | none of its own | `AddWP`, `ListenAndServeTLS`, `PingClient`, `Push`, the two constructors | `net/http`, `crypto/tls` |

How they interact. Each endpoint of a connection has two goroutines of its own:
the *reader* (`Run`, which ends in `readFrames` and then `Close`) and the
*sender* (`send`). Applications add theirs: on a server one handler goroutine
for each request, on a client the callers of `Request` and `Ping`. Frames go to
the sender over unbuffered channels, one per priority, so that every `send`
blocks its goroutine, in some places with the connection's mutex held. `Close`
takes the mutex, asks the sender to drain by making `conn.sending`, waits for
it to be closed, closes `conn.stop`, the socket, the streams and the output
channels, and ends its goroutine with `Goexit`.

What is hard, and what correctness means:

- *Connection.* Whoever calls `Close`, and however often, the teardown happens
  once and after the sender has ended; nothing is sent afterwards; the frames
  that were waiting are sent; nobody keeps the mutex; a panic does not come
  from a send on a closed channel; urgent frames are not starved.
- *Server streams.* Whatever the handler calls, and whenever the client's
  frames close its stream, what goes out on a stream is one response, then
  data, and neither of them after FINISH (headers that are left may come
  anywhere); every accepted request is finished.
- *Client streams.* A receiver hears one answer, to its end and not beyond, and
  nothing once its stream is closed; the caller then returns.
- *Transport.* No connection is shared by two HTTP exchanges, slots are not
  exceeded, callers return.
- *Pings.* An answer reaches the call that it is for, once; whatever the peer
  sends, the reader does not panic over the channels it shares with `Ping`.
- *Pushes.* They go out in the order of their IDs, are taken or refused once,
  and no send begins on a push that has been closed; its writer may be at any
  statement when its stream, its origin or the connection is closed under it.
- *Frames.* The reader sees the frames that were written, whole and in order,
  or stops; Error frames, which are written as Data, are the exception.
- *Headers.* The names and values of each block arrive as they were sent, or
  the reader stops; no block is taken for the rest of another.

`PROJECT.json` lists these as hazards, each at its line.

## 2. The modules

| Module | Models | Uses |
|---|---|---|
| `Lifecycle` | abstract: what `Close` promises | |
| `Conn`, `MCConn` | the mutex, channels, send loop, `Close` and everything that locks or sends | implements `Lifecycle` |
| `Conn_proofs` | proofs about `Conn`, and that it implements `Lifecycle` | `Conn` |
| `StreamState` | the four states | |
| `Server`, `MCServer`, `Server_proofs` | the streams of a server's connection and their handlers | `StreamState` |
| `Client`, `MCClient`, `Client_proofs` | the streams of a client's connection, their callers, pushes as received | `StreamState` |
| `Transport`, `MCTransport`, `Transport_proofs` | `RoundTrip` for one host | |
| `Pings`, `MCPings`, `Pings_proofs` | the calls of `Ping`, their channels and the reader | |
| `Push`, `MCPush`, `Push_proofs` | a server's pushes with their origin, and the client that takes or refuses them | |
| `Frames`, `MCFrames`, `Frames_proofs` | the codec over a byte stream | |
| `Headers`, `MCHeaders`, `Headers_proofs` | header blocks over one zlib stream | |

An `MC` module gives values to constants that a `.cfg` cannot write down and
says nothing else. In each module some named conditions have a neighbour
marked *fault*: no action uses it, it is the form that the condition would have
after a plausible slip (a check dropped, an unlock forgotten, a loop one turn
short). For every property of a passing run `PROJECT.json` names the fault that
makes TLC report it, which shows that the property depends on the code.

### Conn

A goroutine's program counter names the statement it is about to execute or the
send it is blocked in. An unbuffered channel is the queue of the goroutines
blocked on it: Go serves them first in, first out. `Receive` hands the first
its turn; `Resume` says where it goes on. The actions follow the code:

- `Ping`, `Announce` (the opening frame of `Push` and of `Request`), `SendBody`,
  `Announced`, `Register`, `Unlock`: the mutex is held from the first to the
  unlock, and the stream is stored after it, as in `conn.go` 260-278;
- `IDsExhausted`, `Exhausted`: the same calls when the stream IDs are used up,
  with the `Unlock` of their own before the error (161-164, 251-254);
- `SetHeader`, `Write`, `WriteResponse`, `Flush`, `Data`, `RunEnd`: the response
  writer of a server and the end of its `Run`, with each of their sends: the
  Response (`server_stream.go` 192, 247), headers (278) and Data (65, 78, 200);
- `ReplyPing`, `RefusePush`, `OpenStream`, `ResetStream`, `StreamReset`,
  `HandlerProtocolError`, `LoopProtocolError`, `ReadEnd`: the reader;
- `CloseBegin` to `CloseOutputs`: `Close`, one action per statement at which
  another goroutine can come in. A failing `conn.conn.Close` returns early;
- `SenderTop`, `SenderPoll`, `SenderCheck`, `SenderSelect`, `SenderFrame`:
  `send` and `selectFrameToSend`, one action per non-blocking receive.

A panic is recorded in `panicked` with the statement it happens at, and nothing
happens after it: it ends the process. `due` and `overtaken` are history: they
appear in no guard.

Frames carry nothing here, a body is at most one `Data` frame, an application
goroutine has one stream, and the reader handles no frames once it has left its
loop. A `Write` is taken to have data; one without would only skip `Data`.

### Lifecycle, and how Conn implements it

`Lifecycle` has three variables: how far the connection has come (`open`,
`draining`, `drained`, `stopped`, `dismantling`, and then `closed`, or
`abandoned` when the socket's `Close` fails), who is closing it, and whether the
sender has a frame in hand. It says nothing of mutexes, queues and polls. Conn's
`Life == INSTANCE Lifecycle WITH ...` reads the phase off the handshake
(`sending`, `stop`, `closedOut` and the statement of whoever is inside `Close`).
`FollowsLifecycle == Life!Spec` is a property of the run `ConnClient` and the
theorem `Implementation`.

### Server

One action per handler of the reader, which works under the connection's mutex,
and one per step of the handler goroutine, which works without: `Write` is cut
into `WriteBegin` (its checks), `WriteRespond`, `WriteFlush` and `WriteData`,
and the end of `Run` into `Return` and `Finish`, so that `HandleError` and
`CloseConnStream` can remove the stream's state in between. `sent` has the
frames of each stream in the order in which their sends began; a handler then
`waits` until the send loop receives the frame (`Received`), which may be never.
`Close` of a stream is cut at its own send, too: `HandleError` and `StreamClosed`
if the reader calls it, `CloseBegin` and `CloseEnd` if the handler does, which
may since the writer is a `Stream` (`interfaces.go` 28-37). `state[id]` is `"nil"`
after the stream's `Close`: a use of it is a panic, recorded with the goroutine it
happens in; a send that had begun still goes out. `SenderFails` is a write error:
the sender waits in its own `Close` for itself (or for the mutex), `stop` stays
open and nobody receives any more (`"failed"`). `OutputClosed` is the end of a
wait at the hand of `Close`, which takes a frame of each output and closes it;
who waits behind panics. `ReadOn`, here and
in Client, is the reader after an application's `Close`, which ends only the
goroutine that called it: what is still in the reader's buffer finds no streams,
or makes the reader panic on a field that `Close` has set to nil.

### Client

`Request` is `RequestSend` (under the mutex) and `Register` (after the unlock);
`Run` is one action, enabled by `finished`. The reader's `LookUp` and
`ReceiveFrame` are apart because the application's `Close` of the stream takes
another mutex than the lookup. Bad IDs are in the frames that may arrive. `got`
and `pushGot` have the receiver's calls in order. Requests and pushes are in one
model: they share the reader, the mutex, the error count and `Close`.

### Transport

`Lock` to `ConnectWP` run under `t.m`; the exchange and its end (`Put`, `Refund`,
`CloseHTTP`, `ReadBody`) without it. The network's answers are choices.
Connections are numbered in the order they were dialled; `wp` is the number
that `wpConns` has. One host is enough, because hosts share only `t.m`.

### Frames

A frame's fixed header is one cell of the wire, every byte after it is another,
so a length that differs from the number of bytes written really misplaces the
reader. `WriteHeader` and `WritePayload` are the two writes of each `WriteTo`,
`HeaderCut` and `PayloadCut` a failure within one of them.

### Pings

`Ping` is three actions, cut at the send of the frame (`Sent`) and at the store
of the channel (`Store`), both with the mutex. The reader uses `conn.pings`
three times without it: `Deliver`, `CloseChannel` and `Delete` are apart. IDs
are numbers modulo `Modulus`, so that they start again. The reader's own sends,
the answer to a ping and `protocolError`'s frame, wait with no mutex: one is
received (`SendReceived`), taken by `Close` (`CloseEnd`), or made on an output
that `Close` has closed, and panics (`SendPanics`). `protocolError` returns when
the connection was closed already, or the socket's error cut `Close` short; the
reader then handles one frame more (`"over"`) before it counts again. `ReadOther`
is a frame of any other type. The peer is any peer: it
may send a Ping with any ID at any time. An ID of our parity is taken for an
answer (`conn.go` 788), also if the peer meant a ping of its own, as an endpoint
built from this code does: both ends number from 2. `MapRace` is the
fatal error that Go's runtime may report when the two uses of the map meet.

### Push

`Push` is cut where it sends with the mutex (`Sent`) and where it stores the
stream without (`Store`); `Write` is cut where it looks at its own stream and
then at its origin's (`WriteBegin`, `WriteChecks`), and at each send. The origin
is ended by its handler (`FinishOrigin`), closed by the reader or by its handler
(`CloseOrigin`), or closed with the connection. A frame of a push counts as sent
when its send has begun, and its handler then waits, as in Server; `wire` has the
pushes themselves, which are all that the client looks at. What `Push` returns is
a `Stream` too, so that its handler may close it (`CloseBegin`, `CloseEnd`); `own`
remembers which were closed so. `back` carries the client's refusals, as the Error frames they
are meant to be or as the Data frames that the codec makes of them (see Frames).
The steps of `Close` and the sender's failure are those that a push can tell
apart; Conn has them in detail. The counter is modulo `Modulus` and goes on past
`MaxStreamID`, as the code's does: the first ID after the wrap is 0, which
`WriteTo` refuses, and the sender then goes to close the connection.

### Headers

`Compress` is one action, with any order of the map. `Decompress` is one action
for each `Read`, because a Read of zlib may give less than was asked for
(`compression.go` 46-88 takes no notice) or fail. What zlib's `Read` gives is
external: `Ready` says that it hands over what there is up to the next full
window of the decompressor, or to the end of the block, which the sender
flushes; `Filled` leaves the rest of the caller's buffer as it was. The
lengths are four bytes of `Base` values each (`Int32`, with `Shift` for `>> 8`),
with the wrap of `uint32` at `Word`, so that the `-1` of a name without values is
a number too. Two things that `compression.go` does not check are assumed of the
headers: no name and no value has a NUL, which would be read as a separator, and
names are ASCII, so that `strings.ToLower` keeps their length, which is taken
before it (159-170). `Added` is the loop over `headers.Add`, which appends to what a name
has. A byte is a number, and two of
them are the two cases of one letter.

## 3. The runs

All runs use `CHECK_DEADLOCK FALSE`: a closed connection, a finished set of
requests and a process that has panicked have no next step.

| Run | Checks | Bounds |
|---|---|---|
| `ConnServer` | `ConnInv` (the invariant of the proofs), `OvertakenOnce`, `PendingFramesSent`, `QuietCloseCompletes`, `HighPriorityServed` | 2 handlers on 2 priorities, reader, sender |
| `ConnClient` | `OneTeardown`, `CheckedSendsSafe`, `NoSendAfterStop`, `FollowsLifecycle`, `MutexReleased` | 2 callers on priority 0, 2 priorities |
| `ConnClose` | violation of `CloseCompletes` | as `ConnServer` |
| `Server` | `ServerInv`, `ResponseGrammar`, `FinishCloses`, `RequestsInOrder`, `ClosedStreamsSilent`, `RequestsAnswered` | IDs 1, 2 and 3; the handler of 1 may call anything, that of 3 only returns; `MaxSent` 2; `MaxBenignErrors` 1 |
| `Client` | `ClientInv`, `NothingAfterFinal`, `FinishedOnce`, `SilentAfterClose`, `PushesInOrder`, `AnsweredRunReturns` | requests 1 and 3, pushes 2 and 4; 3 deliveries in all; `MaxBenignErrors` 1 |
| `ClientFast` | violation of `ResponseReceived` | request 1, no receiver of pushes |
| `Transport` | `TransportInv`, `SlotsBounded`, `ExclusiveExchange`, `OneWPConn`, `RoundTripReturns` | 2 callers, 2 slots, 3 calls each, https |
| `TransportHang` | violation of `SlotComes` | 3 callers, 2 slots, 1 call each, http |
| `Frames` | `TypeOK`, `FramesArriveWhole`, `StopsExplained`, `FramesAllArrive` | 2 frames of any type; sizes 0, 3 and 9; lengths below 8 |
| `Pings` | `PingInv`, `AnsweredUnlessEarly` | 4 calls; IDs modulo 8; `MaxBenignErrors` 1 |
| `Push` | `PushInv`, `PushesInOrder`, `PanicsExplained`, `ClosedPushesSilent` | 3 handlers (symmetric); IDs modulo 8, valid to 5; 4 calls; 1 frame of each push |
| `Headers` | `TypeOK`, `HeadersArrive`, `StopsExplained` | 4 blocks of 7 kinds; bytes of 4 values; window 48, first 40; 5 bytes of names and values |

`ServerInv`, `ClientInv`, `TransportInv`, `PingInv` and `PushInv` contain the
module's `TypeOK` and the facts that the proofs rest on.

Why the bounds are enough for the cases that matter. Two priorities are what an
overtaking needs, and the proofs do not depend on the number. With two
applications, a reader and a sender there can be a goroutine in `Close`, one
waiting for the mutex to call it again, one blocked with the mutex and one
blocked without. Two request IDs and an even one give the repeated, the late
and the malformed request. `MaxSent` stops a handler from starting a `Write`
when its stream has sent that much; `Return` is not bounded, so that every
handler still ends. The second stream is there for the order of the
requests and for what the streams share, the mutex, the error count and `Close`;
they share nothing else, so one handler that calls anything (`Writers`) is
enough, and the proofs do not depend on it. `MaxGot` is at least two, so that
a final frame can come first, or after another, and what follows the first can
be refused. One tolerated
error gives the count its limit and the step over it. Two slots and two callers
are the largest case in which no one is short of a slot; `TransportHang` has
one caller more. The length limit of 8 lets a payload of three bytes through
with the longest prefix and wraps for nine, as 2^16 does for the code's maximum
data size of 2^24. Four calls of `Ping` use up the three IDs of a modulus of 8
(2, 4 and 6; 0 is skipped), so that the fourth has the first one's again. Four
calls of `Push` use up the two valid IDs (2 and 4), fail at the third and meet 0
after the wrap. Three handlers let one hold the mutex, one be between its send
and its store, and one be in `Write`. One frame of each push lets
its headers or its data wait, meet a refusal or meet `Close`; who had a second to
send only comes back to the same statements, and the proofs have any number. The window of the Headers run is longer
than one block and shorter than the four together, and the header maps have no,
one and several values, an empty one, a name that is deleted and one that is too
long.

Fairness. *Conn*: weak fairness of the send loop, of each goroutine's steps
inside `Close`, of the steps of a call that an application has started and of
the reader's own steps; the Go scheduler runs a goroutine that can go on. None
for the start of calls, for frames that arrive and for the mutex beyond weak
fairness: `CloseBegin` may be overtaken for ever by other callers.
*Server*: weak fairness of each handler goroutine and strong fairness of
`Return`, because handlers return (the contract of `net/http`; a handler that
loops in `Write` for ever is outside of the claim). Nothing is assumed of the
send loop: a send may wait for ever, behind higher priorities or after a write
error, and `RequestsAnswered` is about the handlers that do not wait for ever.
*Pings*, *Push* and *Headers* state no liveness. *Client*: weak fairness of
a delivery the reader has begun and of the caller's way from `Request` to the
end of `Run`. *Transport*: weak fairness of a caller's steps (the network
answers or fails) and strong fairness of `Lock`: a Go mutex starves nobody.
*Frames*: the reader reads what is there.

What each shows:

- **ConnServer, ConnClient.** The teardown is done by one goroutine, once,
  after the sender has gone; nothing is sent for the socket after `stop`, and
  whatever asks `closed()` first, a ping, a refusal or an accepted request, is not
  begun. (`Push` and `Request` do not ask.) Every behaviour is one of `Lifecycle`. Sends made with the mutex after a check of
  `closed()` never meet a closed channel. The sends without the check, or
  without the mutex (`Write`, the reply to a ping, `Announce`, `protocolError`), may
  panic when they meet `Close`: the property leaves them out and says so. A
  frame waits through at most one frame of a lower priority. The drain serves
  the frames on the outputs that the sender's pass has yet to come to; a frame
  behind the pass is dropped. `QuietCloseCompletes` bounds the deadlock of the
  next item: `Close` ends if the sender is anywhere but in its select, the
  outputs fall quiet and the socket accepts the frame in hand. `MutexReleased`
  says who may keep the mutex for ever, and nobody else does, not even `Push` and
  `Request` on their way out when the IDs are used up: a `Close` that
  waits for the sender, the `Close` that `protocolError` makes with the mutex its
  caller holds, the flush of a stream that an Error frame closes (it waits
  behind every frame of a higher priority, which may never end), and any
  send once the sender has ended or is itself in `Close`.
- **ConnClose** (violation). `Close` of an idle connection: the sender is parked
  in its select, no output has a frame, and none gets one any more. `Close` waits
  at `conn.go` 57 for ever, since no case of the select (869-888) looks at
  `conn.sending`. The property assumes that the outputs fall quiet, so endless
  frames are not what violates it.
- **Server.** The order of frames on every stream, that FINISH closes it here, that
  handlers start once and in order, that no send begins on a closed stream, and that
  every accepted request is finished if its stream lives and its handler is not left
  waiting in a send for ever. Headers may go out after FINISH: `Run` leaves the map
  of headers as it is (`server_stream.go` 190), and `Close` flushes it (101).
- **Client.** One answer, ended once, nothing after it or after a
  `Close`; the caller returns; pushes are accepted in order and only accepted
  ones are heard of.
- **ClientFast** (violation). A response that is read between the unlock of
  `Request` and the registration of its stream is dropped.
- **Transport.** Slots are never exceeded and the channels never fill,
  connections are exclusive, one WP connection is made, and every call ends
  under the condition that no failure has lost a slot.
- **TransportHang** (violation). Without any failure: `dial` waits for a slot
  with `t.m` held, a pooled connection keeps its slot, and the third of three
  callers waits for ever, and with it all later ones.
- **Frames.** Frames that the length field can describe arrive whole and in
  order, one for each, and each that is no Error frame as it was sent. Of an Error
  frame nothing is claimed: its `WriteTo` gives the type `DATA` (`frames.go` 497),
  its `ReadFrom` asks for `ERROR` (457-459), and `String` says `3` (484). The reader
  stops early only at a Ping and is led astray only by an oversized payload.
- **Pings.** The reader's three unlocked uses of the map are safe against any
  peer and any calls of `Ping`, because a channel enters the map new and under
  the ID of its call, and a call that would replace it has another ID
  until the IDs start again. After too many benign errors the reader handles one
  frame more at most. Its answer to the peer's ping may panic on an output that
  `Close` has closed (`conn.go` 801); that is another state, `"sendPanic"`, and no
  property excludes it. An answer reaches its call unless it came before
  the channel was stored. `AnsweredUnlessEarly` ends with the IDs' first wrap:
  after it a late answer may be for the old call.
- **Push.** Pushes arrive in order because the frame is sent with the mutex
  held; this goes on past the limit of the IDs and past the wrap, since nothing is
  sent after the ID 0. No send begins on a closed push, at whatever statement of
  `Write` its handler stands; one that waits already may still go out. Where
  goroutines do panic, something was closed under them, and the reader panics over
  a refusal only if a handler closed its own push: see `PanicsExplained` and the
  list below.
- **Headers.** Any map in any order arrives as it was sent, under canonical
  names and without those for one hop, if no Read was cut short. Nothing is said of
  the separators between values: none is ever written, because `Compress` panics
  over several. The reader gives a block up only for a name without values, an
  empty value or too many bytes; the sender's panic is not excluded.

### Behaviours that no run singles out

The models have these behaviours too. They were met while modelling. Some of
them a doc or a comment contradicts, and then it is named; of most nothing is
said. No run is given to them; the properties above are worded around them.

- *Connection.* A write error makes the sender call `Close` (`conn.go` 919-929), which waits
  at line 57 for the sender, that is, for itself: the mutex is never released, and
  `stop` is never closed.
  Liveness properties of Conn have `SenderFailed` as a way out; in Server and Push
  it is `"failed"`: handlers wait in their sends, and their streams stay open.
- After a `Close` that an error of the socket cut short (`conn.go` 66-69), the
  sender has ended and the outputs are open: a `Request` or `Push` waits in its
  send for ever, with the mutex.
- An Error frame for a stream with unsent headers makes the reader flush them
  with the mutex held (`server_stream.go` 101), behind all frames of higher
  priorities.
- Handlers of frames call `protocolError` with the mutex held (`conn.go` 332,
  416, 424, 511, 520, 580, 636) and its `Close` (710) locks it again: the
  reader hangs (`"hung"` in Server and Client, a goroutine at `"close"` that
  holds the mutex in Conn, which `LockHeldInside` lists).
- `Close` flushes the headers of a stream into its output (`conn.go` 73,
  `server_stream.go` 101 and 278) when the sender has ended (`"stuck"`).
- `Goexit` at the end of `Close` (`conn.go` 99) ends the goroutine that called
  it, so that `Run` never returns to its caller (`"gone"`).
- An Error frame for a stream whose handler is running makes `Run` panic when
  the handler returns (`server_stream.go` 179-181). So does the handler's own
  `Close`.
- `Return` leaves the stream's headers in the map that its Response was made of
  (`server_stream.go` 182-192), and an Error frame or `Close` sends them again, as
  Headers, after the frame with FINISH.
- A frame whose send began before a stream's `Close` goes out after it
  (`server_stream.go` 78 holds the channel that 110 forgets).
- Data for a request is refused: the test of the parity is inverted
  (`conn.go` 323; the log line there says "should be odd").
- A stream that was closed stays in `conn.streams` without its state, and the
  next frame for it is a nil pointer in the reader (`conn.go` 368).
- After an application's `Close` a buffered frame with headers makes the reader
  panic (`conn.go` 747 with `conn.decompressor` nil); one without is handled,
  and data of a push still reaches its receiver.
- `Run` of a client stream that was closed panics when it wakes
  (`client_stream.go` 168), and never wakes if FINISH has not come (165).
- A push for which there is no receiver is neither refused nor noted
  (`conn.go` 459), and data of a push after its final frame is delivered (594).
- A failed dial, handshake or exchange keeps its slot (`transport.go` 114-117,
  190-237); a slot is given back before its connection is closed (123); a
  connection is pooled before the response's body has been read from it (120);
  a WP connection that has ended stays in `wpConns` (187).
- An Error frame is written with the type of a Data frame (`frames.go` 497),
  against its `ReadFrom` (457-459) and its `String` (484), and arrives as one.
  `protocolError(0)` (`conn.go` 726, 749) writes one with the ID 0, which `WriteTo`
  does not check. A Ping is written with length 6 and read with length 0 (863,
  829). The length field has 16 bits and the maximum data size 24 (414).
- The loop over chunks of `Write` (`server_stream.go` 61, `push_stream.go` 46)
  never shortens what it has to send, if it is entered. Push has it
  (`WriteChunk`); Server does not, because nothing else would follow.
- The channel of a ping is never closed by `Close`, so that a `Ping` that waits
  for its answer waits for ever; `server_conn.go` 178-179 and 223-226 speak of a
  channel that is closed when the connection is. An answer that is read before
  `conn.go` 126 is lost and counted as an error, against `server_conn.go` 176-179:
  the ping was answered, and its channel has neither a `Ping` nor a close.
- After Close, the reader's answer to a buffered ping, or `protocolError`, sends on
  an output that is closed, and panics (`conn.go` 709, 801). If the closed
  connection, or the socket's error, makes `protocolError` return, one more frame
  is handled (726-730).
- Both ends number their pings from 2, and a Ping with our parity is taken for
  an answer (`conn.go` 788): neither end answers the other's.
- `Write` of a push uses the state of an origin that was closed
  (`push_stream.go` 38-41): a nil pointer. `Push` and the writer's calls send on
  a closed channel after `Close`, and store into a nil map (`conn.go` 168, 181).
- A refusal that overtakes the store of the push (`conn.go` 181) is lost, and
  the handler goes on to write.
- A refusal that arrives as Data makes the server's reader panic if the handler has
  closed its push (`conn.go` 338, with the state that `push_stream.go` 92 removes).
- A header with two values or more makes `Compress` panic: the block's length is
  counted without the separators (`compression.go` 138-150). A name without
  values, and an empty value, may make the reader end the connection.
- A Read that zlib's window cuts short leaves part of a buffer unfilled
  (`compression.go` 46-88), and the rest of the block is misread.
- The example at `server_conn.go` 299 pushes `"/javascript.js"`, which `Push`
  refuses as an incomplete path (`conn.go` 143-145).

## 4. The proofs

Every theorem is about the module's `Spec`, for every value of its constants,
and rests on the module's named assumption alone. None of the properties is
inductive; each proof is that of an inductive invariant, one lemma per action or
group of actions, and then the property.

| Module | Theorem | Says |
|---|---|---|
| `Conn_proofs` | `Invariance` | `Spec => []ConnInv` |
| | `TypeCorrect` | `Spec => []TypeOK` |
| | `SenderIsGoneFirst` | `Spec => []SenderGoneFirst` |
| | `TeardownIsUnique` | `Spec => []OneTeardown` |
| | `LockIsReleased` | `Spec => []LockHeldInside` |
| | `CheckedSendsAreSafe` | `Spec => []CheckedSendsSafe` |
| | `DrainCompletes` | `Spec => []PendingFramesSent` |
| | `SilentAfterStop` | `Spec => NoSendAfterStop` |
| | `OvertakenAtMostOnce` | `Spec => []OvertakenOnce` |
| | `Implementation` | `Spec => FollowsLifecycle` |
| `Server_proofs` | `Invariance` | `Spec => []ServerInv` |
| | `AnswersAreWellFormed` | `Spec => []ResponseGrammar` |
| | `FinishClosesHere` | `Spec => []FinishCloses` |
| | `HandlersStartInOrder` | `Spec => RequestsInOrder` |
| | `ClosedStreamsAreSilent` | `Spec => ClosedStreamsSilent` |
| `Client_proofs` | `Invariance` | `Spec => []ClientInv` |
| | `FinalIsLast` | `Spec => []NothingAfterFinal` |
| | `FinishesOnce` | `Spec => []FinishedOnce` |
| | `ClosedStreamsAreSilent` | `Spec => SilentAfterClose` |
| | `PushesComeInOrder` | `Spec => PushesInOrder` |
| `Transport_proofs` | `Invariance` | `Spec => []TransportInv` |
| | `SlotsAreBounded` | `Spec => []SlotsBounded` |
| | `ExchangesAreExclusive` | `Spec => []ExclusiveExchange` |
| | `OneWPConnection` | `Spec => OneWPConn` |
| `Pings_proofs` | `ReaderIsSafe` | `Spec => []PingInv` |
| | `AnswersReachTheirCalls` | `Spec => []AnsweredUnlessEarly` |
| `Push_proofs` | `Invariance` | `Spec => []PushInv` |
| | `PushesAreInOrder` | `Spec => []PushesInOrder` |
| | `PanicsHaveCause` | `Spec => []PanicsExplained` |
| | `ClosedPushesAreSilent` | `Spec => ClosedPushesSilent` |
| `Frames_proofs` | `TypeCorrect` | `Spec => []TypeOK` |
| | `FramesArrive` | `Spec => []FramesArriveWhole` |
| | `StopsAreExplained` | `Spec => []StopsExplained` |
| `Headers_proofs` | `TypeCorrect` | `Spec => []TypeOK` |
| | `HeadersArriveAsSent` | `Spec => []HeadersArrive` |
| | `StopsAreExplained` | `Spec => []StopsExplained` |

The assumptions. *Conn*: the reader, the sender and `NoOne` are distinct and no
applications, and stream priorities are priorities; there may be any number of
goroutines and priorities, and either kind of endpoint. *Server*, *Client*: IDs
are numbers, in Client odd for requests and even for pushes. *Transport*: there
is at least one slot, the callers are finitely many and none is `NoOne`. *Pings*, *Push*: the modulus is
even and not tiny, and `NoOne` is nobody; the IDs may wrap any number of times.
*Frames*: the length field can say the lengths that are fixed, up to 6; sizes
are any numbers, also those that it cannot say. *Headers*: names and values are
finitely many and have no NUL, no name is empty, each length fits 32 bits, and no
two names of a map have the same canonical form, as `http.Header` has it when it
is filled by `Add` and `Set`; bytes may have any number of values above two, the
window any size, and the limit on a block is any number that the `-1` of a name
without values exceeds.
The bounds on counters (`MaxGot`, `MaxSent`, `MaxCalls`, `MaxBenignErrors`) are
any numbers.

The arguments.

*Conn.* That the teardown is unique needs that every goroutine inside `Close`
holds the mutex, and that `stop` is closed after the sender has left needs the
whole handshake. `ConnInv` is the conjunction of

- `TypeOK`;
- `Queued`: a goroutine stands in one queue at most, once, and is blocked; so
  whoever the sender or `Close` releases is not in the middle of something else;
- `Holding`: at the statements in `Locked` a goroutine has the mutex, so two
  goroutines are never there at once, and `LockHeldInside`, its converse;
- `Erring`: only the reader calls `protocolError` from a handler;
- `Handshake`: what `sending`, `stop` and the control states say of each other;
- `OutputsLast`: outputs are closed when the streams have been;
- `CheckedSendsSafe` itself: a send under the mutex meets no closed output
  because closing them also needs the mutex, and once they are closed `stop` is.

`DrainCompletes` adds `DrainInv`: while a drain is asked for, everyone it is to
serve is ahead of the sender, so that at `"check"`, when nothing is ahead,
everyone has been served. `OvertakenAtMostOnce` adds `OvertakeInv`: a goroutine
that has been overtaken waits, the sender is at neither its check nor its
select, and its polls have not passed that goroutine's output, so its next frame
is of no lower priority. Both start from `Aside`, what all the steps of
goroutines other than the sender have in common, and from `ConnInv`.
`SilentAfterStop` adds `StreamsOpened`: only `handleRequest`, which asks `closed()`,
and the `Register` of a call under way make a stream open.

*Lifecycle.* `Implementation` shows that the initial states map to an initial
state and that every step maps to a step of `Lifecycle` or to a stutter: the
steps outside `Close` and of the sender's polls leave the phase, the closer and
the frame in hand alone, and each step of `Close` is the abstract step of its
name. `Handshake` is what makes the phase well defined.

*Server.* What may be sent next is decided from `wroteHeader`, `wroteResponse`
and the state, none of which is the history of what was sent. `Answers` ties them:
`wroteResponse` exactly if a Response has gone out (but for the last one of
`Run`), and no FINISH while `Write` is past its checks. `Started` says that a
stream without a handler has sent nothing, and that no stream is newer than the
counter. `Flushing` is about the other half of a stream's `Close`: while the reader
waits in it, it has the mutex, so the connection is not stopped, and it has not
counted an error more than is tolerated, so that the one it may count then is the
last. `FinishClosesHere` says that FINISH closes the stream at this end, and no more:
that Response and Data stay away is `AnswersAreWellFormed`, and Headers may follow.

*Client.* The lookup is under one mutex and the delivery under another.
`LookedUp` says what survives in between: the stream is half-closed or has been
closed by its application, but has not had its final frame, because only the
reader delivers. `Numbered` says that a stream is made once.

*Transport.* `Owned` gives every HTTP connection one owner, the pool or a caller
inside `doHTTP`; `Choosing` says that only the holder of `t.m` chooses or makes
connections, and that it has found no WP connection before it dials. For the
slots, `Slots` adds up the tokens, the pooled, the callers' and the WP
connection's: no step raises the sum, and each that puts has one of its own.

*Pings.* `Entries`: a stored channel is that of the call whose ID it is under,
and is empty, but for the one that the reader has in its hand. `OwnIDs` keeps
the parity past the wrap. `OneFrameMore` is what bounds the error count: the reader
gets behind its check only by a `protocolError` that returned, and then `Close` is
over, so that the next one cannot get past its send.

*Push.* `IDsAscend` orders all the IDs that are anywhere: what the client has
seen and the refusals before the pushes on their way, those before the counter.
With it `Known`: a push that a refusal has closed, or is closing (`Refused`), is
older than everything on its way, so that a second refusal cannot meet it; one that
its own handler closed may be met, and is in `own`. At the wrap the ordering against the
counter lapses; the holder of the mutex then has the ID 0, whose frame ends the
sender.

*Answers to pings.* Until the counter starts again, `Answers` says that no two
calls have the same ID, that only a ping that was sent is heard, and what a
stored channel may be: empty and still in the map, full while the reader is
about to close it, or closed. A call whose answer was heard and whose channel is
empty is then the one that the reader has in its hand.

*Frames.* `Whole` holds as long as the length field can say the length of every
frame that has been written (`Fitting`). A function `off` gives the place on the
wire where each frame that has not been read begins; frames lie one behind the
other, and what is behind the last, `Rest`, is nothing or a frame of which
something is missing. So the reader is always at the head of a frame, and reads
from it what `Arrival`, in `Frames_proofs`, says: the frame, or the byte of Data
that an Error frame becomes. `Cause` is what it stops for. `off` exists for every
reachable wire: reading a frame shifts it, writing one extends it.

*Headers.* A block is `Laid` in the stream from one place to another: the number
of its pairs, and the pairs in some order of the names, the i-th from
`off[i - 1]` to `off[i]`. That `Compress` lays its block so is the lemma
`BlockLaid`. It needs what `FlattenSeq`, `FoldLeft` and `FoldSet` make of their
arguments; these are recursive functions under a `CHOOSE`, so the lemmas
`Flattened`, `JoinedOne`, `BytesOfOne`, `SizeSums` and `SplitOne` first show that
such a function exists, and then compute it. Induction is over a set of numbers
(`Induction`, from the well-foundedness of `<`), which needs no operator as a
parameter. `RoundTrip` is that a number below 2^32 is read from its four bytes.

The invariant `ArrivalInv` says that all blocks are laid, one behind the other,
and, unless a Read has been cut short, `UpToDate`: inside a block there is a
number `j` of pairs that have been read, `Collected` in the headers, and the
reader's statement determines its place behind `off[j]` and what `bounds` has
left. Every Read then finds what the sender wrote for it, whole. A length that
is refused shows that the names and values so far are too many: `Spent` bounds
what `j` pairs take by the sum over the whole map. A Read fails only at the end
of the block, which the reader reaches before it has all pairs only if what is
left is an empty value.

Only model-checked: the liveness properties (`QuietCloseCompletes`,
`HighPriorityServed`, `MutexReleased`, `RequestsAnswered`, `AnsweredRunReturns`,
`RoundTripReturns`, `FramesAllArrive`), since fairness and ENABLED are outside
of the prover's reach. Every invariant and every action property that a passing
run checks is a theorem.

## 5. What is left out

- Data races, but for `MapRace` in Pings. The map of streams, the headers and
  `StreamState` pointers are used by several goroutines, in part without a lock.
  The models interleave whole accesses; a concurrent map access that Go turns
  into a fatal error is left out, and so is a torn read. `conn.sending` is read
  by the sender without the mutex: a read that misses a write for a while is in
  the model as a read that came earlier.
- Receivers that call back into the connection, with its mutex held.
- In Client, the end of the stream IDs (`conn.go` 250-254): Conn has the path.
- Bodies of more than 2^24 bytes, but for Push: see the loop over chunks above.
- What zlib makes of the bytes, the errors of its writer, and what Decompress
  makes of a block after it has lost its place.

## 6. Not modelled

- *Response assembly* (`transport.go` 292-369) collects what it is given and is
  read after `Run` has returned, when `NothingAfterFinal` says that no more
  comes. It is sequential code without a decision; the order of its calls is
  `got` in Client.
- *Constants and status codes* (`constants.go`): tables. The values that matter
  are constants of the modules.
- *Set-up* (`server_conn.go`, `client_conn.go`): glue to `crypto/tls` and
  `net/http`; the constructors are the `Init` of the modules.
- *A session of two endpoints* in one model. Each endpoint is checked against any
  peer's frames, which is more than a peer built from this code sends; Push and
  Headers, where the two ends depend on each other, have both. A composition
  of Server, Frames and Client would show that a peer built from this code
  cannot provoke some of the errors; its state space is the product of
  theirs, and what it would add for the pings and error frames is known from
  Frames (they do not arrive).
