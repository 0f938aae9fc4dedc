-------------------------------- MODULE Conn --------------------------------
(***************************************************************************)
(* One endpoint of a WP connection (conn.go): the goroutines that share a  *)
(* conn, its mutex, its priority-ordered output channels, the send loop    *)
(* and the Close handshake that is meant to drain the channels, stop the   *)
(* sender and tear the connection down.                                    *)
(*                                                                         *)
(* An output channel is unbuffered, so its state is the queue of the       *)
(* goroutines blocked sending on it; the frames themselves carry nothing   *)
(* that matters here.  A goroutine's program counter names the statement   *)
(* it is about to execute, or the send statement it is blocked in.         *)
(***************************************************************************)
EXTENDS Naturals, FiniteSets, SequencesExt

CONSTANTS
  Apps,            \* goroutines that use the connection: handlers, clients
  Reader,          \* the goroutine in Run: readFrames, then Close
  Sender,          \* the goroutine in send
  NoOne,           \* nobody holds the mutex
  NumPriorities,   \* number of output channels (8 in the code)
  StreamPriority,  \* the output channel of each app's stream
  IsServer         \* conn.server # nil

Goroutines == Apps \cup {Reader, Sender}
Priorities == 0 .. NumPriorities - 1

ASSUME ConnAssumption ==
  /\ NumPriorities \in Nat \ {0}
  /\ StreamPriority \in [Apps -> 0 .. NumPriorities - 1]
  /\ IsServer \in BOOLEAN
  /\ Reader \notin Apps
  /\ Sender \notin Apps
  /\ Reader # Sender
  /\ NoOne \notin Apps \cup {Reader, Sender}

VARIABLES
  lock,       \* holder of conn.Mutex, or NoOne
  sending,    \* conn.sending: "nil", "open" (made) or "closed"
  stop,       \* conn.stop has been closed
  output,     \* per priority, the goroutines blocked sending, in FIFO order
  closedOut,  \* output channels 0 .. closedOut - 1 have been closed
  stream,     \* each app's stream: "none", "open", "closing" or "closed"
  header,     \* apps whose stream has headers that were set but not sent
  pc,         \* where each goroutine is
  poll,       \* loop index i of selectFrameToSend
  back,       \* where the Reader goes if its call of Close returns
  panicked    \* statements in which a goroutine has panicked

(* Auxiliary variables: they record history and guard nothing.             *)
VARIABLES
  due,        \* goroutines that the drain asked for by Close is to serve
  overtaken   \* lower-priority frames taken while this goroutine waits (0..2)

connVars == <<lock, sending, stop>>
chanVars == <<output, closedOut, panicked>>
streamVars == <<stream, header>>
sendVars == <<poll, due, overtaken>>
vars == <<connVars, chanVars, streamVars, sendVars, pc, back>>

-----------------------------------------------------------------------------
(* Control states.  Each blocked state is a send statement on an output    *)
(* channel, and resumes where the code continues after it.                 *)

Resume ==
  [flushing   |-> "data",     \* serverStream.writeHeader, in Write
   responding |-> "flush",    \* WriteResponse, in Write
   writing    |-> "running",  \* serverStream's Write, WriteResponse, Run
   pinging    |-> "unlock",   \* Ping
   requesting |-> "sent",     \* Request or Push: the opening frame
   body       |-> "bodySent",  \* Request: its Data frame
   replying   |-> "running",  \* readFrames: the answer to a ping
   refusing   |-> "unlock",   \* handlePush: REFUSED_STREAM
   resetting  |-> "reset",    \* handleError: Stream.Close flushing headers
   erring     |-> "close",    \* protocolError called by a handler
   failing    |-> "close",    \* protocolError called by readFrames
   headers    |-> "streams"]  \* Close: Stream.Close flushing headers

Blocked == DOMAIN Resume
Closing == {"await", "stop", "socket", "streams", "headers", "outputs"}
TornDown == {"socket", "streams", "headers", "outputs"}
Locked == Closing \cup
  {"pinging", "requesting", "sent", "body", "bodySent", "unlock",
   "exhausted", "refusing", "resetting", "reset", "erring"}
SenderPCs == {"top", "poll", "check", "select", "frame"}
PCs == Blocked \cup Closing \cup SenderPCs \cup
  {"running", "respond", "response", "flush", "data", "sent", "bodySent",
   "exhausted", "unlock", "register", "reset", "close", "returned", "gone",
   "stuck"}

TypeOK ==
  /\ lock \in Goroutines \cup {NoOne}
  /\ sending \in {"nil", "open", "closed"}
  /\ stop \in BOOLEAN
  /\ output \in [Priorities -> Seq(Goroutines)]
  /\ closedOut \in 0 .. NumPriorities
  /\ stream \in [Apps -> {"none", "open", "closing", "closed"}]
  /\ header \subseteq Apps
  /\ pc \in [Goroutines -> PCs]
  /\ poll \in Priorities
  /\ back \in {"running", "returned"}
  /\ panicked \subseteq PCs
  /\ due \subseteq Goroutines
  /\ overtaken \in [Goroutines -> 0 .. 2]

-----------------------------------------------------------------------------
(* Helpers.                                                                *)

Goto(g, at) == pc' = [pc EXCEPT ![g] = at]
Waiting == UNION {ToSet(output[p]) : p \in Priorities}

\* The goroutines waiting on outputs that the sender's present pass over the
\* outputs, or its next one if it is not in one, has yet to come to.
Ahead ==
  UNION {ToSet(output[p]) : p \in {q \in Priorities :
           pc[Sender] # "check" /\ (pc[Sender] = "poll" => q >= poll)}}

StreamsNil == closedOut > 0 \/ \E g \in Goroutines : pc[g] = "outputs"

Closed == stop

(* The conditions below are given names so that the seeded faults beside   *)
(* them (marked "fault", used by no action) can take their place.          *)

Unguarded == TRUE                 \* fault: no mutex
CanLock == lock = NoOne           \* conn.Lock()

Unchecked == FALSE                \* fault: the check is left out
PingClosed == Closed              \* Ping: if conn.closed()
PushClosed == Closed              \* handlePush: if conn.closed()

StillLocked == lock               \* fault: a path that does not unlock
Unlocked == NoOne                 \* Push and Request: conn.Unlock()
UnlockedFirst == NoOne            \* ... and before their error is returned

SendingMade == sending # "nil"    \* fault: <-conn.sending left out
Drained == sending = "closed"     \* <-conn.sending returns

Unasked == FALSE                  \* fault: conn.sending is never looked at
DrainAsked == sending # "nil"     \* selectFrameToSend: conn.sending != nil

SamePoll == poll                  \* fault: the polls do not start again
FirstPoll == 0                    \* selectFrameToSend: i := 0

LastSkipped == poll + 2 < NumPriorities  \* fault: i < 7
PollAgain == poll + 1 < NumPriorities   \* selectFrameToSend: i < 8

\* `conn.output[p] <- frame`: block in the send, or panic if it is closed.
Offer(g, p, at) ==
  /\ IF p < closedOut
     THEN /\ panicked' = panicked \cup {at}
          /\ UNCHANGED <<output, pc>>
     ELSE /\ output' = [output EXCEPT ![p] = Append(@, g)]
          /\ Goto(g, at)
          /\ UNCHANGED panicked
  /\ UNCHANGED closedOut

\* The sender receives from output channel p and the goroutine that was
\* first in line goes on.
Receive(p) ==
  LET g == Head(output[p])
      passed == UNION {ToSet(output[q]) : q \in 0 .. p - 1}
  IN /\ output' = [output EXCEPT ![p] = Tail(@)]
     /\ pc' = [pc EXCEPT ![g] = Resume[@], ![Sender] = "frame"]
     /\ due' = due \ {g}
     /\ overtaken' = [h \in Goroutines |->
          IF h = g THEN 0
          ELSE IF h \in passed /\ overtaken[h] < 2 THEN overtaken[h] + 1
          ELSE overtaken[h]]

Init ==
  /\ lock = NoOne
  /\ sending = "nil"
  /\ stop = FALSE
  /\ output = [p \in Priorities |-> <<>>]
  /\ closedOut = 0
  /\ stream = [a \in Apps |-> "none"]
  /\ header = {}
  /\ pc = [g \in Goroutines |-> IF g = Sender THEN "top" ELSE "running"]
  /\ poll = 0
  /\ back = "returned"
  /\ panicked = {}
  /\ due = {}
  /\ overtaken = [g \in Goroutines |-> 0]

-----------------------------------------------------------------------------
(* Streams: what a handler or a client does with its stream, with no mutex *)
(* held, and the two halves of Stream.Close, called with the mutex held.   *)

\* w.Header().Set: a nil map once the stream has been closed.
SetHeader(a) ==
  /\ pc[a] = "running"
  /\ stream[a] # "none"
  /\ IF stream[a] = "closed"
     THEN panicked' = panicked \cup {pc[a]} /\ UNCHANGED header
     ELSE header' = header \cup {a} /\ UNCHANGED panicked
  /\ UNCHANGED <<connVars, output, closedOut, stream, pc, sendVars, back>>

\* Write up to its checks; the first Write responds before it goes on.  A
\* client's stream is half-closed from the start.
Write(a) ==
  /\ IsServer
  /\ pc[a] = "running"
  /\ stream[a] \in {"open", "closing"} /\ ~Closed
  /\ \E next \in {"respond", "flush"} : Goto(a, next)
  /\ UNCHANGED <<connVars, chanVars, streamVars, sendVars, back>>

\* WriteResponse, called by Write or by the handler, up to its send: it asks
\* nothing of the connection, and the stream's headers go with the Response.
WriteResponse(a, from) ==
  /\ IsServer
  /\ pc[a] = from
  /\ stream[a] # "none"
  /\ IF stream[a] = "closed"
     THEN panicked' = panicked \cup {from} /\ UNCHANGED <<header, pc>>
     ELSE /\ Goto(a, IF from = "respond" THEN "response" ELSE "data")
          /\ header' = header \ {a}
          /\ UNCHANGED panicked
  /\ UNCHANGED <<connVars, output, closedOut, stream, sendVars, back>>

\* The end of Run up to its send: it reads the state, and leaves the headers.
RunEnd(a) ==
  /\ IsServer
  /\ pc[a] = "running"
  /\ stream[a] # "none"
  /\ IF stream[a] = "closed"
     THEN panicked' = panicked \cup {pc[a]} /\ UNCHANGED pc
     ELSE Goto(a, "data") /\ UNCHANGED panicked
  /\ UNCHANGED <<connVars, output, closedOut, streamVars, sendVars, back>>

\* Write: the stream's new headers go first.
Flush(a) ==
  /\ pc[a] = "flush"
  /\ IF a \in header
     THEN Offer(a, StreamPriority[a], "flushing")
     ELSE Goto(a, "data") /\ UNCHANGED chanVars
  /\ header' = header \ {a}
  /\ UNCHANGED <<connVars, stream, sendVars, back>>

\* The send of a Response or of Data.  Once the stream is closed its
\* s.output is nil, and a send on a nil channel never returns.
Data(a) ==
  /\ pc[a] \in {"response", "data"}
  /\ IF stream[a] = "closed"
     THEN Goto(a, "stuck") /\ UNCHANGED chanVars
     ELSE Offer(a, StreamPriority[a], IF pc[a] = "data" THEN "writing" ELSE "responding")
  /\ UNCHANGED <<connVars, streamVars, sendVars, back>>

\* Stream.Close called by g: send the headers that are left, if any.
CloseStream(g, a, at, next) ==
  IF a \in header
  THEN /\ Offer(g, StreamPriority[a], at)
       /\ header' = header \ {a}
       /\ stream' = [stream EXCEPT ![a] = "closing"]
  ELSE /\ Goto(g, next)
       /\ stream' = [stream EXCEPT ![a] = "closed"]
       /\ UNCHANGED <<chanVars, header>>

\* Stream.Close, the rest: the stream's fields are set to nil.
StreamClosed ==
  LET a == CHOOSE b \in Apps : stream[b] = "closing"
  IN /\ stream' = [stream EXCEPT ![a] = "closed"]
     /\ header' = header \ {a}

-----------------------------------------------------------------------------
(* Ping, Push and Request, called by an app.                               *)

Ping(a) ==
  /\ pc[a] = "running"
  /\ CanLock /\ ~PingClosed
  /\ lock' = a
  /\ Offer(a, 0, "pinging")
  /\ UNCHANGED <<sending, stop, streamVars, sendVars, back>>

\* Push or Request up to the opening frame; neither asks whether the
\* connection is closed.
Announce(a) ==
  /\ pc[a] = "running"
  /\ IsServer => stream[a] # "none"
  /\ CanLock
  /\ lock' = a
  /\ Offer(a, 0, "requesting")
  /\ UNCHANGED <<sending, stop, streamVars, sendVars, back>>

\* Push or Request when the stream IDs are used up: it takes the mutex, and
\* an Unlock of its own precedes the error that it returns.
IDsExhausted(a) ==
  /\ pc[a] = "running"
  /\ IsServer => stream[a] # "none"
  /\ CanLock
  /\ lock' = a
  /\ Goto(a, "exhausted")
  /\ UNCHANGED <<sending, stop, chanVars, streamVars, sendVars, back>>

Exhausted(a) ==
  /\ pc[a] = "exhausted"
  /\ lock' = UnlockedFirst
  /\ Goto(a, "running")
  /\ UNCHANGED <<sending, stop, chanVars, streamVars, sendVars, back>>

\* Request: the body, at most one Data frame, sent under the mutex.
SendBody(a) ==
  /\ pc[a] = "sent"
  /\ ~IsServer
  /\ Offer(a, 0, "body")
  /\ UNCHANGED <<connVars, streamVars, sendVars, back>>

\* Push or Request: the mutex is released before the stream is stored.
Announced(a) ==
  /\ pc[a] \in {"sent", "bodySent"}
  /\ lock' = Unlocked
  /\ Goto(a, "register")
  /\ UNCHANGED <<sending, stop, chanVars, streamVars, sendVars, back>>

\* Push or Request: conn.streams[id] = out, a nil map after Close.
Register(a) ==
  /\ pc[a] = "register"
  /\ IF StreamsNil
     THEN panicked' = panicked \cup {pc[a]} /\ UNCHANGED <<stream, pc>>
     ELSE /\ stream' = [stream EXCEPT ![a] = IF @ = "none" THEN "open" ELSE @]
          /\ Goto(a, "running")
          /\ UNCHANGED panicked
  /\ UNCHANGED <<connVars, output, closedOut, header, sendVars, back>>

\* The deferred Unlock of Ping and of handlePush.
Unlock(g) ==
  /\ pc[g] = "unlock"
  /\ lock' = NoOne
  /\ Goto(g, "running")
  /\ UNCHANGED <<sending, stop, chanVars, streamVars, sendVars, back>>

CallClose(a) ==
  /\ pc[a] = "running"
  /\ Goto(a, "close")
  /\ UNCHANGED <<connVars, chanVars, streamVars, sendVars, back>>

-----------------------------------------------------------------------------
(* The Reader: what readFrames does with a frame, or with the lack of one, *)
(* that involves the connection's locks, channels and streams.             *)

\* A Ping from the peer is answered with no mutex held.
ReplyPing ==
  /\ pc[Reader] = "running"
  /\ Offer(Reader, 0, "replying")
  /\ UNCHANGED <<connVars, streamVars, sendVars, back>>

\* handlePush: the receiver does not want the resource.
RefusePush ==
  /\ pc[Reader] = "running"
  /\ ~IsServer
  /\ CanLock /\ ~PushClosed
  /\ lock' = Reader
  /\ Offer(Reader, 0, "refusing")
  /\ UNCHANGED <<sending, stop, streamVars, sendVars, back>>

\* handleRequest: a new stream, whose handler is app a.
OpenStream(a) ==
  /\ pc[Reader] = "running"
  /\ IsServer
  /\ CanLock /\ ~Closed
  /\ stream[a] = "none"
  /\ stream' = [stream EXCEPT ![a] = "open"]
  /\ UNCHANGED <<connVars, chanVars, header, pc, sendVars, back>>

\* handleError: an Error frame closes the stream, under the mutex.
ResetStream(a) ==
  /\ pc[Reader] = "running"
  /\ CanLock
  /\ ~StreamsNil
  /\ stream[a] = "open"
  /\ lock' = IF a \in header THEN Reader ELSE lock
  /\ CloseStream(Reader, a, "resetting", "running")
  /\ UNCHANGED <<sending, stop, sendVars, back>>

StreamReset ==
  /\ pc[Reader] = "reset"
  /\ StreamClosed
  /\ lock' = NoOne
  /\ Goto(Reader, "running")
  /\ UNCHANGED <<sending, stop, chanVars, sendVars, back>>

\* protocolError called by a handler, which holds the mutex.
HandlerProtocolError ==
  /\ pc[Reader] = "running"
  /\ CanLock
  /\ lock' = Reader
  /\ Offer(Reader, 0, "erring")
  /\ UNCHANGED <<sending, stop, streamVars, sendVars, back>>

\* protocolError called by readFrames itself: too many benign errors, or
\* headers that do not decompress.  If Close returns, the loop goes on.
LoopProtocolError ==
  /\ pc[Reader] = "running"
  /\ back' = "running"
  /\ Offer(Reader, 0, "failing")
  /\ UNCHANGED <<connVars, streamVars, sendVars>>

\* The connection cannot be read, or the peer reported a fatal error.
ReadEnd ==
  /\ pc[Reader] = "running"
  /\ back' = "returned"
  /\ Goto(Reader, "close")
  /\ UNCHANGED <<connVars, chanVars, streamVars, sendVars>>

-----------------------------------------------------------------------------
(* Close, called by any goroutine.  It holds the mutex from its first step *)
(* to its last, and ends the goroutine with runtime.Goexit.                *)

AfterClose(g) == IF g = Sender THEN "gone"
                 ELSE IF g = Reader THEN back ELSE "running"

\* Lock, closed(), and the creation of conn.sending.
CloseBegin(g) ==
  /\ pc[g] = "close"
  /\ CanLock
  /\ IF Closed
     THEN /\ Goto(g, AfterClose(g))
          /\ UNCHANGED <<lock, sending, due>>
     ELSE /\ lock' = g
          /\ IF sending = "nil"
             THEN Goto(g, "await") /\ sending' = "open" /\ due' = Ahead
             ELSE Goto(g, "stop") /\ UNCHANGED <<sending, due>>
  /\ UNCHANGED <<stop, chanVars, streamVars, poll, overtaken, back>>

\* <-conn.sending
CloseAwait(g) ==
  /\ pc[g] = "await"
  /\ Drained
  /\ Goto(g, "stop")
  /\ UNCHANGED <<connVars, chanVars, streamVars, sendVars, back>>

CloseStop(g) ==
  /\ pc[g] = "stop"
  /\ stop' = TRUE
  /\ Goto(g, "socket")
  /\ UNCHANGED <<lock, sending, chanVars, streamVars, sendVars, back>>

\* conn.conn.Close(): on an error Close returns there and then.
CloseSocket(g) ==
  /\ pc[g] = "socket"
  /\ \/ Goto(g, "streams") /\ UNCHANGED lock
     \/ Goto(g, AfterClose(g)) /\ lock' = NoOne
  /\ UNCHANGED <<sending, stop, chanVars, streamVars, sendVars, back>>

\* Every stream is closed, in the order of a map; then conn.streams = nil.
CloseStreams(g) ==
  /\ pc[g] = "streams"
  /\ IF \E a \in Apps : stream[a] = "closing"
     THEN StreamClosed /\ UNCHANGED <<chanVars, pc>>
     ELSE IF \A a \in Apps : stream[a] # "open"
     THEN Goto(g, "outputs") /\ UNCHANGED <<chanVars, streamVars>>
     ELSE \E a \in Apps : stream[a] = "open" /\ CloseStream(g, a, "headers", "streams")
  /\ UNCHANGED <<connVars, sendVars, back>>

\* Each output channel is closed after one frame, if one is waiting, has
\* been received and dropped; whoever waits behind it panics.  At the end
\* the goroutine exits and the deferred Unlock runs.
CloseOutputs(g) ==
  /\ pc[g] = "outputs"
  /\ IF closedOut < NumPriorities
     THEN LET queue == output[closedOut]
          IN /\ closedOut' = closedOut + 1
             /\ IF queue = <<>>
                THEN UNCHANGED <<output, pc, panicked>>
                ELSE /\ output' = [output EXCEPT ![closedOut] = Tail(@)]
                     /\ pc' = [pc EXCEPT ![Head(queue)] = Resume[@]]
                     /\ panicked' = panicked \cup {pc[h] : h \in ToSet(Tail(queue))}
             /\ UNCHANGED lock
     ELSE /\ Goto(g, "gone")
          /\ lock' = NoOne
          /\ UNCHANGED chanVars
  /\ UNCHANGED <<sending, stop, streamVars, sendVars, back>>

-----------------------------------------------------------------------------
(* The send loop.                                                          *)

SenderTop ==
  /\ pc[Sender] = "top"
  /\ Goto(Sender, IF Closed THEN "close" ELSE "poll")
  /\ poll' = FirstPoll
  /\ UNCHANGED <<connVars, chanVars, streamVars, due, overtaken, back>>

\* One non-blocking receive of the loop over the outputs.
SenderPoll ==
  /\ pc[Sender] = "poll"
  /\ IF output[poll] # <<>>
     THEN Receive(poll) /\ UNCHANGED poll
     ELSE /\ UNCHANGED <<output, due, overtaken>>
          /\ IF PollAgain
             THEN poll' = poll + 1 /\ UNCHANGED pc
             ELSE poll' = FirstPoll /\ Goto(Sender, "check")
  /\ UNCHANGED <<connVars, closedOut, panicked, streamVars, back>>

\* conn.sending is read without the mutex.
SenderCheck ==
  /\ pc[Sender] = "check"
  /\ IF DrainAsked
     THEN sending' = "closed" /\ Goto(Sender, "gone")
     ELSE Goto(Sender, "select") /\ UNCHANGED sending
  /\ UNCHANGED <<lock, stop, chanVars, streamVars, sendVars, back>>

\* The blocking select: any output with a frame, or conn.stop.
SenderSelect ==
  /\ pc[Sender] = "select"
  /\ \E ready \in {p \in Priorities : output[p] # <<>>}
                  \cup {p \in {NumPriorities} : Closed} :
       IF ready \in Priorities
       THEN Receive(ready)
       ELSE Goto(Sender, "close") /\ UNCHANGED <<output, due, overtaken>>
  /\ UNCHANGED <<connVars, closedOut, panicked, streamVars, poll, back>>

\* Compress and WriteTo.  A frame that cannot be compressed is skipped; an
\* error from the socket makes the sender call Close.
SenderFrame ==
  /\ pc[Sender] = "frame"
  /\ \E next \in {"top", "close"} : Goto(Sender, next)
  /\ UNCHANGED <<connVars, chanVars, streamVars, sendVars, back>>

-----------------------------------------------------------------------------
SendLoop == SenderTop \/ SenderPoll \/ SenderCheck \/ SenderSelect \/ SenderFrame

CloseStep(g) ==
  \/ CloseBegin(g) \/ CloseAwait(g) \/ CloseStop(g)
  \/ CloseSocket(g) \/ CloseStreams(g) \/ CloseOutputs(g)

\* The steps of a call an app has made: once started it goes on.
AppStep(a) ==
  \/ WriteResponse(a, "respond") \/ Flush(a) \/ Data(a) \/ SendBody(a)
  \/ Announced(a) \/ Exhausted(a) \/ Register(a) \/ Unlock(a)

AppCall(a) ==
  \/ SetHeader(a) \/ Write(a) \/ WriteResponse(a, "running") \/ RunEnd(a)
  \/ Ping(a) \/ Announce(a) \/ IDsExhausted(a) \/ CallClose(a)

ReaderFrame ==
  \/ ReplyPing \/ RefusePush \/ HandlerProtocolError \/ LoopProtocolError \/ ReadEnd
  \/ \E a \in Apps : OpenStream(a) \/ ResetStream(a)

ReaderStep == StreamReset \/ Unlock(Reader)

Step ==
  \/ SendLoop \/ ReaderFrame \/ ReaderStep
  \/ \E g \in Goroutines : CloseStep(g)
  \/ \E a \in Apps : AppCall(a) \/ AppStep(a)

\* A panic in any goroutine ends the process.
Next == panicked = {} /\ Step

Spec == Init /\ [][Next]_vars

\* A goroutine that can go on inside the library does: the Go scheduler
\* runs it.  When apps call and frames arrive is up to the environment.
Fairness ==
  /\ WF_vars(SendLoop /\ panicked = {})
  /\ WF_vars(ReaderStep /\ panicked = {})
  /\ \A g \in Goroutines : WF_vars(CloseStep(g) /\ panicked = {})
  /\ \A a \in Apps : WF_vars(AppStep(a) /\ panicked = {})

FairSpec == Spec /\ Fairness

-----------------------------------------------------------------------------
(* Safety.                                                                 *)

\* Teardown starts only after the sender goroutine has ended, so that no
\* frame is being written to, or compressed for, a connection that Close is
\* dismantling (conn.go 54-85: sending is awaited before stop is closed).
SenderGoneFirst == stop => pc[Sender] = "gone"

\* At most one goroutine is inside Close past its checks, it holds the
\* mutex, and one that has yet to close conn.stop is not the second to tear
\* the connection down ("Close can be called multiple times safely").
OneTeardown ==
  /\ \A g, h \in Goroutines : pc[g] \in Closing /\ pc[h] \in Closing => g = h
  /\ \A g \in Goroutines : pc[g] \in Closing => lock = g
  /\ \A g \in Goroutines : pc[g] \in {"await", "stop"} => ~stop

\* A goroutine blocked on an output channel sees at most one frame of a
\* lower priority leave before its own: the polls restart at priority 0
\* after every frame (conn.go 851-858), so only a frame the sender was
\* already past, or picked in its select, can overtake.
OvertakenOnce == \A g \in Goroutines : overtaken[g] < 2

\* The frames that the drain is to serve have been sent when the sender
\* reports that it is done, whatever else is sent meanwhile (conn.go 54-58,
\* "Ensure any pending frames are sent", against 851-866).  A frame behind
\* the sender's present pass is not among them, and may be dropped.
PendingFramesSent == sending = "closed" => due = {}

\* The frames sent under the mutex after a check of closed() never meet a
\* closed channel, whatever Close does around them: Ping (conn.go 105-124),
\* the refusal of a push (382-464) and the headers a stream flushes when an
\* Error frame or Close closes it.
CheckedSendsSafe ==
  panicked \cap {"pinging", "refusing", "resetting", "headers"} = {}

\* The mutex is held by nobody once it is nobody's turn to release it: a
\* holder is always at a statement that its function runs with the mutex
\* held, so no path returns without unlocking (conn.go 160-168, 245-261 and
\* the deferred Unlocks).
LockHeldInside ==
  lock # NoOne /\ panicked = {} =>
    pc[lock] \in Locked \/ (lock = Reader /\ pc[Reader] = "close")

-----------------------------------------------------------------------------
(* The inductive invariant behind the safety properties.                   *)

\* A goroutine stands in at most one queue, once, and is then blocked.
Queued ==
  /\ \A p \in Priorities : \A i \in 1 .. Len(output[p]) : pc[output[p][i]] \in Blocked
  /\ \A p, q \in Priorities : \A i \in 1 .. Len(output[p]), j \in 1 .. Len(output[q]) :
       output[p][i] = output[q][j] => p = q /\ i = j

\* The statements that run with the mutex held do.
Holding == \A g \in Goroutines : pc[g] \in Locked => lock = g

\* Only the Reader runs the handlers of frames, which call protocolError.
Erring == \A g \in Goroutines : pc[g] = "erring" => g = Reader

\* How far the handshake between Close and the sender has come.
Handshake ==
  /\ sending = "open" => lock \in Goroutines /\ pc[lock] = "await"
  /\ sending = "closed" => pc[Sender] = "gone"
  /\ sending = "closed" /\ ~stop => lock \in Goroutines /\ pc[lock] \in {"await", "stop"}
  /\ stop => sending = "closed"
  /\ \A g \in Goroutines : pc[g] = "await" => sending # "nil" /\ ~stop
  /\ \A g \in Goroutines : pc[g] = "stop" => sending = "closed" /\ ~stop
  /\ \A g \in Goroutines : pc[g] \in TornDown => stop

\* The output channels are closed last, by the only goroutine in Close.
OutputsLast ==
  closedOut > 0 =>
    stop /\ \A g \in Goroutines : pc[g] \notin {"socket", "streams", "headers"}

\* The facts above, which every step of the endpoint preserves together
\* (conn.go 46-100 against 846-889).
ConnInv ==
  TypeOK /\ Queued /\ Holding /\ Erring /\ Handshake /\ OutputsLast
  /\ LockHeldInside /\ CheckedSendsSafe

-----------------------------------------------------------------------------
(* Action properties.                                                      *)

\* Once conn.stop is closed no frame is ever again taken for the socket, and
\* whatever asks closed() first is not begun: no request is accepted, no ping
\* sent and no push refused.  Push and Request do not ask, and may go on to
\* announce and to register a stream when the socket has cut a Close short.
NoSendAfterStop ==
  [][stop => /\ pc'[Sender] = pc[Sender]
             /\ \A g \in Goroutines : pc'[g] \in {"pinging", "refusing"} => pc[g] = pc'[g]
             /\ \A a \in Apps : stream[a] = "none" /\ stream'[a] = "open" => pc[a] = "register"
    ]_vars

-----------------------------------------------------------------------------
(* Refinement: the connection's life cycle, read off the handshake.        *)

Closer == IF lock \in Goroutines /\ pc[lock] \in Closing THEN lock ELSE NoOne

Phase ==
  IF ~stop
  THEN CASE sending = "nil" -> "open"
         [] sending = "open" -> "draining"
         [] OTHER -> "drained"
  ELSE IF Closer = NoOne
  THEN IF closedOut = NumPriorities THEN "closed" ELSE "abandoned"
  ELSE IF pc[Closer] = "socket" THEN "stopped" ELSE "dismantling"

Life == INSTANCE Lifecycle
        WITH phase <- Phase, closer <- Closer, serving <- pc[Sender] = "frame"

\* Close keeps its promise of a life cycle: one goroutine begins it, and the
\* drain, conn.stop, the socket and the rest follow in this order and at
\* that goroutine's hand, whatever calls, frames and errors come between
\* (conn.go 46-100 against 846-889 and 895-931).
FollowsLifecycle == Life!Spec

-----------------------------------------------------------------------------
(* Liveness, under Fairness.                                               *)

\* The socket has refused a frame, and the sender has called Close.
SenderFailed == pc[Sender] \in {"close", "await"}

\* A Close that finds the sender anywhere but parked in its select gets
\* through the handshake, if the outputs fall quiet and the socket accepts
\* the frame in hand (conn.go 54-58 against 863-866).
QuietCloseCompletes ==
  <>[](Waiting = {}) =>
    ((sending = "open" /\ pc[Sender] \in {"top", "poll", "check", "frame"})
      ~> (stop \/ SenderFailed \/ panicked # {}))

\* A frame of the highest priority is taken for the socket, whatever the
\* other priorities send, until a Close or a write error ends the sender.
HighPriorityServed ==
  \A g \in Goroutines :
    g \in ToSet(output[0])
      ~> \/ g \notin ToSet(output[0])
         \/ sending = "closed" \/ SenderFailed \/ panicked # {}

\* Whoever takes the mutex gives it back, but for the waits that may have no
\* end: Close's for the sender (QuietCloseCompletes says more), that of
\* protocolError for the mutex which its caller holds, the flush of a stream
\* that an Error frame closes, behind all frames of higher priorities, and
\* any send once the sender has ended or is itself waiting in Close, as in
\* the flush of headers by Close, or after a Close that the socket has cut
\* short (conn.go 46-100, 104-128, 159-168, 244-261, 580, 704-711, 919-929).
MutexReleased ==
  \A g \in Goroutines :
    lock = g
      ~> \/ lock # g \/ panicked # {}
         \/ pc[g] \in {"await", "close", "resetting"}
         \/ SenderFailed \/ (sending = "closed" /\ pc[g] \in Blocked)

-----------------------------------------------------------------------------
(* What a comment says of the program and the program does not do.         *)

\* conn.go 44: "Close ends the connection, cleaning up relevant resources."
\* With no frame to send any more, a Close that finds the sender parked in
\* its select waits for it at 57, and the select (869-888) does not look at
\* conn.sending: the code notices such a Close only if a frame comes by.
CloseCompletes ==
  <>[](Waiting = {}) =>
    ((sending = "open" /\ pc[Sender] = "select")
      ~> (stop \/ SenderFailed \/ panicked # {}))
=============================================================================
