-------------------------------- MODULE Push --------------------------------
(***************************************************************************)
(* The pushes of a server (conn.go 131-184, push_stream.go) and the client *)
(* that takes or refuses them (conn.go 382-475): handlers that call Push   *)
(* for the stream they answer and write to what they get, the reader that  *)
(* closes refused pushes, and the two directions of the connection.        *)
(*                                                                         *)
(* A Write holds no mutex and is cut where the reader or Close can change  *)
(* its stream.  A frame counts as sent when its send has begun, as in      *)
(* Server; the goroutine then waits until the sender receives it.  Push    *)
(* frames are waited for with the mutex held.  Of the frames on their way  *)
(* only those are kept that the client looks at: the pushes.               *)
(***************************************************************************)
EXTENDS Naturals, Sequences

CONSTANTS
  Pushers,      \* goroutines that push, all for the one stream
  NoOne,        \* nobody
  Modulus,      \* number of StreamIDs there are (2^32 in the code)
  MaxStreamID,  \* the largest valid one (2^31 - 1)
  MaxCalls,     \* bound: calls of Push
  MaxSent       \* bound: frames of each push

ASSUME PushAssumption ==
  /\ NoOne \notin Pushers
  /\ Modulus \in Nat /\ Modulus % 2 = 0 /\ Modulus > 2
  /\ MaxStreamID \in 0 .. Modulus - 1
  /\ MaxCalls \in Nat /\ MaxSent \in Nat

StreamIDs == 0 .. Modulus - 1

VARIABLES
  lock,       \* holder of the server's conn.Mutex, or NoOne
  conn,       \* the server's connection: "open"; "failed", when the sender has
              \* been refused a frame, and "hung", when it is in Close, waiting for
              \* itself; or, closed by another goroutine, "stopped", "stuck", "closed"
  lastPush,   \* conn.lastPushStreamID of the server
  streams,    \* the pushes in conn.streams, by StreamID
  late,       \* those stored while Close was going over conn.streams
  pc,         \* where each pusher is
  id,         \* the StreamID of its push
  state,      \* its push stream: "absent", "open" or, once closed, "nil"
  header,     \* pushers whose push has headers that were set and not sent
  closing,    \* the push whose headers the reader or Close is sending, or NoOne
  waits,      \* pushers that wait for their last send to be received
  origin,     \* the stream that is answered: "open", "closedHere" or "nil"
  wire,       \* the StreamIDs of the pushes on their way to the client
  back,       \* what is on its way back: refusals
  seen,       \* conn.lastPushStreamID of the client
  benign,     \* the client has counted a benign error for a push
  panicked    \* where a goroutine of the server has panicked, or "no"

(* Auxiliary variables: they record history; calls and sent also bound.    *)
VARIABLES
  calls,      \* calls of Push so far
  sent,       \* the frames whose send has begun, on each push
  own,        \* pushes that their own handlers have closed
  cut         \* Close of the origin has been called

connVars == <<lock, conn, lastPush, streams, late>>
sendVars == <<sent, waits>>
closeVars == <<state, header, closing, own>>
pushVars == <<pc, id, closeVars, sendVars>>
clientVars == <<seen, benign>>
vars == <<connVars, pushVars, clientVars, origin, wire, back, panicked, calls, cut>>

Refusals == [kind : {"Error", "Data"}, id : StreamIDs]

TypeOK ==
  /\ lock \in Pushers \cup {NoOne}
  /\ conn \in {"open", "failed", "hung", "stopped", "stuck", "closed"}
  /\ lastPush \in StreamIDs
  /\ streams \in [StreamIDs -> Pushers \cup {NoOne}]
  /\ late \subseteq Pushers
  /\ pc \in [Pushers -> {"idle", "sending", "storing", "ready", "checked",
                         "flush", "data", "chunks", "close"}]
  /\ id \in [Pushers -> StreamIDs]
  /\ state \in [Pushers -> {"absent", "open", "nil"}]
  /\ header \subseteq Pushers
  /\ closing \in Pushers \cup {NoOne}
  /\ waits \subseteq Pushers
  /\ own \subseteq Pushers
  /\ origin \in {"open", "closedHere", "nil"}
  /\ wire \in Seq(StreamIDs)
  /\ back \in Seq(Refusals)
  /\ seen \in StreamIDs
  /\ benign \in BOOLEAN
  /\ panicked \in {"no", "Push", "writer", "reader"}
  /\ calls \in 0 .. MaxCalls
  /\ sent \in [Pushers -> 0 .. MaxSent]
  /\ cut \in BOOLEAN

Init ==
  /\ lock = NoOne /\ conn = "open" /\ lastPush = 0
  /\ streams = [i \in StreamIDs |-> NoOne] /\ late = {}
  /\ pc = [p \in Pushers |-> "idle"]
  /\ id = [p \in Pushers |-> 0]
  /\ state = [p \in Pushers |-> "absent"]
  /\ header = {} /\ closing = NoOne /\ waits = {} /\ own = {}
  /\ origin = "open"
  /\ wire = <<>> /\ back = <<>>
  /\ seen = 0 /\ benign = FALSE
  /\ panicked = "no"
  /\ calls = 0 /\ sent = [p \in Pushers |-> 0] /\ cut = FALSE

-----------------------------------------------------------------------------
(* Helpers.  Those marked "fault" are seeded faults and used by no action. *)

Goto(p, at) == pc' = [pc EXCEPT ![p] = at]
Stopped == conn \in {"stopped", "stuck", "closed"}

\* Close keeps the mutex until it is done, and for ever if it gets stuck; the
\* reader keeps it while it sends the headers of a push that it closes.
CanLock == lock = NoOne /\ closing = NoOne /\ conn \in {"open", "failed", "closed"}

\* A second Close of a push waits for the first: p.Lock().
CanClose(p) == pc[p] # "close"

Unguarded(p) == NoOne             \* fault: Push unlocks before it sends
GuardedBy(p) == p                 \* Push: conn.Lock() ... conn.Unlock()

NextID(i) == (i + 2) % Modulus    \* Push: conn.lastPushStreamID += 2

NoLimit(i) == FALSE               \* fault: the limit is not looked at
Exhausted(i) == i > MaxStreamID   \* Push: conn.lastPushStreamID > MAX_STREAM_ID

ClosedFully(s) == "nil"           \* fault: Run ends with Close
ClosedHere(s) == IF s = "open" THEN "closedHere" ELSE s  \* state.CloseHere()

OutputKept(p) == TRUE             \* fault: Close leaves p.output
HasOutput(p) == state[p] # "nil"  \* Close: p.output = nil

Begun(p) == sent[p] < MaxSent /\ sent' = [sent EXCEPT ![p] = @ + 1]

\* p.output <- frame, by the handler: it begins, and the handler waits.  The
\* channel is closed once Close is done, and the handler panics, if Close has
\* passed over the push and p.output is still there.
Send(p, at) ==
  IF conn = "closed"
  THEN panicked' = "writer" /\ UNCHANGED <<pc, sendVars>>
  ELSE /\ Begun(p) /\ waits' = waits \cup {p}
       /\ Goto(p, at)
       /\ UNCHANGED panicked

\* writeHeader, by the handler.
Flush(p, at) ==
  /\ IF p \in header THEN Send(p, at) ELSE Goto(p, at) /\ UNCHANGED <<sendVars, panicked>>
  /\ header' = header \ {p}

-----------------------------------------------------------------------------
(* Push.                                                                   *)

\* Push up to the send of its frame.  The counter goes on past the limit.
Push(p) ==
  /\ pc[p] = "idle" /\ calls < MaxCalls
  /\ CanLock
  /\ calls' = calls + 1
  /\ lastPush' = NextID(lastPush)
  /\ IF Exhausted(lastPush')
     THEN UNCHANGED <<lock, pc, id>>
     ELSE /\ lock' = GuardedBy(p)
          /\ id' = [id EXCEPT ![p] = lastPush']
          /\ Goto(p, "sending")
  /\ UNCHANGED <<conn, streams, late, closeVars, sendVars, clientVars, origin, wire, back,
                 panicked, cut>>

\* The sender takes the frame.  WriteTo refuses the ID 0, and the sender
\* goes to close the connection.  Close leaves the channel closed, and Push
\* panics.
Sent(p) ==
  /\ pc[p] = "sending"
  /\ IF conn = "closed"
     THEN panicked' = "Push" /\ UNCHANGED <<lock, conn, pc, wire>>
     ELSE /\ conn = "open"
          /\ IF id[p] = 0
             THEN conn' = "failed" /\ UNCHANGED wire
             ELSE wire' = Append(wire, id[p]) /\ UNCHANGED conn
          /\ lock' = NoOne
          /\ Goto(p, "storing")
          /\ UNCHANGED panicked
  /\ UNCHANGED <<lastPush, streams, late, id, closeVars, sendVars, clientVars, origin, back,
                 calls, cut>>

\* conn.streams[newID] = out, with no mutex: a nil map once Close is done.
Store(p) ==
  /\ pc[p] = "storing"
  /\ IF conn = "closed"
     THEN panicked' = "Push" /\ UNCHANGED <<streams, late, state, pc>>
     ELSE /\ streams' = [streams EXCEPT ![id[p]] = p]
          /\ late' = IF conn = "stopped" THEN late \cup {p} ELSE late
          /\ state' = [state EXCEPT ![p] = "open"]
          /\ Goto(p, "ready")
          /\ UNCHANGED panicked
  /\ UNCHANGED <<lock, conn, lastPush, id, header, closing, own, sendVars, clientVars, origin,
                 wire, back, calls, cut>>

-----------------------------------------------------------------------------
(* The http.ResponseWriter that Push returned.                             *)

\* Header().Set: the map is nil once the push is closed.
SetHeader(p) ==
  /\ pc[p] = "ready"
  /\ IF state[p] = "nil"
     THEN panicked' = "writer" /\ UNCHANGED header
     ELSE header' = header \cup {p} /\ UNCHANGED panicked
  /\ UNCHANGED <<connVars, pc, id, state, closing, own, sendVars, clientVars, origin, wire, back,
                 calls, cut>>

\* WriteHeader and WriteResponse: the status has no effect.  They do not look
\* at closed().
WriteHeader(p) ==
  /\ pc[p] = "ready"
  /\ p \in header
  /\ Flush(p, "ready")
  /\ UNCHANGED <<connVars, id, state, closing, own, clientVars, origin, wire, back, calls, cut>>

\* Write: closed().
WriteBegin(p) ==
  /\ pc[p] = "ready"
  /\ state[p] # "nil" /\ ~Stopped
  /\ Goto(p, "checked")
  /\ UNCHANGED <<connVars, id, closeVars, sendVars, clientVars, origin, wire, back,
                 panicked, calls, cut>>

\* Write: the states of the push and of its origin, each a nil pointer once
\* the stream is closed.  That there is an origin is looked at last.
WriteChecks(p) ==
  /\ pc[p] = "checked"
  /\ IF state[p] = "nil" \/ origin = "nil"
     THEN panicked' = "writer" /\ UNCHANGED pc
     ELSE /\ Goto(p, IF origin = "closedHere" THEN "ready" ELSE "flush")
          /\ UNCHANGED panicked
  /\ UNCHANGED <<connVars, id, closeVars, sendVars, clientVars, origin, wire, back, calls, cut>>

\* Write: writeHeader.
WriteFlush(p) ==
  /\ pc[p] = "flush"
  /\ \E at \in {"data", "chunks"} : Flush(p, at)
  /\ UNCHANGED <<connVars, id, state, closing, own, clientVars, origin, wire, back, calls, cut>>

\* Write: the Data frame, if there is data.  On a push closed meanwhile
\* p.output is nil and the send never returns.
WriteData(p) ==
  /\ pc[p] = "data"
  /\ \/ HasOutput(p) /\ Send(p, "ready")
     \/ Goto(p, "ready") /\ UNCHANGED <<sendVars, panicked>>
  /\ UNCHANGED <<connVars, id, closeVars, clientVars, origin, wire, back, calls, cut>>

\* Write of more than MAX_DATA_SIZE bytes: the loop sends the first chunk
\* again and again.
WriteChunk(p) ==
  /\ pc[p] = "chunks"
  /\ HasOutput(p) /\ Send(p, "chunks")
  /\ UNCHANGED <<connVars, id, closeVars, clientVars, origin, wire, back, calls, cut>>

\* pushStream.Close after its writeHeader: the fields are set to nil.
CloseStream(p) ==
  /\ header' = header \ {p}
  /\ state' = [state EXCEPT ![p] = "nil"]

\* The handler may call Close: what Push returns is a Stream too.
CloseBegin(p) ==
  /\ pc[p] = "ready"
  /\ closing # p
  /\ Flush(p, "close")
  /\ UNCHANGED <<connVars, id, state, closing, own, clientVars, origin, wire, back, calls, cut>>

CloseEnd(p) ==
  /\ pc[p] = "close"
  /\ CloseStream(p)
  /\ own' = own \cup {p}
  /\ Goto(p, "ready")
  /\ UNCHANGED <<connVars, id, closing, sendVars, clientVars, origin, wire, back, panicked,
                 calls, cut>>

-----------------------------------------------------------------------------
(* The other end of a handler's send.                                      *)

\* The sender receives the frame, and the client hands it to its receiver.
Received(p) ==
  /\ p \in waits /\ conn = "open"
  /\ waits' = waits \ {p}
  /\ UNCHANGED <<connVars, pc, id, closeVars, sent, clientVars, origin, wire, back, panicked,
                 calls, cut>>

\* Close receives one frame of each output, which is lost, and closes it;
\* who still waits there panics.
OutputClosed(p) ==
  /\ p \in waits /\ conn = "closed"
  /\ waits' = waits \ {p}
  /\ panicked' \in {panicked, "writer"}
  /\ UNCHANGED <<connVars, pc, id, closeVars, sent, clientVars, origin, wire, back, calls, cut>>

-----------------------------------------------------------------------------
(* The origin, and the server's reader, sender and Close.                  *)

\* The handler's Response needs no body, or its Run ends: CloseHere.
FinishOrigin ==
  /\ origin = "open"
  /\ origin' = ClosedHere(origin)
  /\ UNCHANGED <<connVars, pushVars, clientVars, wire, back, panicked, calls, cut>>

\* Close of the origin by handleError or, without the mutex, by its handler.
CloseOrigin ==
  /\ origin # "nil"
  /\ origin' = "nil"
  /\ cut' = TRUE
  /\ UNCHANGED <<connVars, pushVars, clientVars, wire, back, panicked, calls>>

\* A refusal: handleError closes the push, if it has been stored by now, and
\* first begins to send the headers that are left.  A refusal that comes as
\* Data (see Frames) is for handleClientData, which looks at the push's state,
\* and the push's ReceiveFrame ignores it.
ReadRefusal ==
  /\ CanLock
  /\ back # <<>>
  /\ back' = Tail(back)
  /\ LET p == IF conn = "closed" THEN NoOne ELSE streams[Head(back).id]
     IN IF p = NoOne
        THEN UNCHANGED <<state, header, closing, sent, panicked>>
        ELSE IF Head(back).kind = "Data"
        THEN /\ panicked' = IF state[p] = "nil" THEN "reader" ELSE "no"
             /\ UNCHANGED <<state, header, closing, sent>>
        ELSE /\ CanClose(p)
             /\ IF p \in header
                THEN /\ Begun(p)
                     /\ header' = header \ {p}
                     /\ closing' = p
                     /\ UNCHANGED state
                ELSE CloseStream(p) /\ UNCHANGED <<closing, sent>>
             /\ UNCHANGED panicked
  /\ UNCHANGED <<connVars, pc, id, own, waits, clientVars, origin, wire, calls, cut>>

\* handleError goes on when the headers have been received.
StreamClosed ==
  /\ closing # NoOne /\ conn = "open"
  /\ CloseStream(closing)
  /\ closing' = NoOne
  /\ UNCHANGED <<connVars, pc, id, own, sendVars, clientVars, origin, wire, back, panicked,
                 calls, cut>>

\* A write error: nobody receives any more, and the sender goes to Close.
SenderFails ==
  /\ conn = "open"
  /\ conn' = "failed"
  /\ UNCHANGED <<lock, lastPush, streams, late, pushVars, clientVars, origin, wire, back,
                 panicked, calls, cut>>

\* Close by the sender, or while the sender waits for the mutex: its handshake
\* with the sender never ends.
CloseHangs ==
  /\ CanLock /\ conn = "failed"
  /\ conn' = "hung"
  /\ UNCHANGED <<lock, lastPush, streams, late, pushVars, clientVars, origin, wire, back,
                 panicked, calls, cut>>

\* Close, past its handshake with the sender (see Conn) ...
CloseConn ==
  /\ CanLock /\ conn = "open"
  /\ conn' = "stopped"
  /\ UNCHANGED <<lock, lastPush, streams, late, pushVars, clientVars, origin, wire, back,
                 panicked, calls, cut>>

\* ... closes the streams, with nobody to take the headers that are left ...
CloseConnStream(p) ==
  /\ conn = "stopped"
  /\ streams[id[p]] = p /\ state[p] = "open" /\ CanClose(p)
  /\ IF p \in header
     THEN /\ conn' = "stuck"
          /\ Begun(p)
          /\ header' = header \ {p}
          /\ closing' = p
          /\ UNCHANGED state
     ELSE CloseStream(p) /\ UNCHANGED <<conn, closing, sent>>
  /\ UNCHANGED <<lock, lastPush, streams, late, pc, id, own, waits, clientVars, origin, wire,
                 back, panicked, calls, cut>>

CloseConnOrigin ==
  /\ conn = "stopped"
  /\ origin # "nil"
  /\ \/ origin' = "nil" /\ cut' = TRUE /\ UNCHANGED conn
     \/ conn' = "stuck" /\ UNCHANGED <<origin, cut>>
  /\ UNCHANGED <<lock, lastPush, streams, late, pushVars, clientVars, wire, back,
                 panicked, calls>>

\* ... and is done.  A stream stored meanwhile may have been passed over.
CloseConnEnd ==
  /\ conn = "stopped"
  /\ origin = "nil"
  /\ \A p \in Pushers : state[p] = "open" => p \in late
  /\ conn' = "closed"
  /\ UNCHANGED <<lock, lastPush, streams, late, pushVars, clientVars, origin, wire, back,
                 panicked, calls, cut>>

-----------------------------------------------------------------------------
(* The client: handlePush, with a receiver that takes what it wants.  Its  *)
(* error frame goes out as Data if it is built from this code (Frames).    *)

TakePush(wanted) ==
  /\ wire # <<>>
  /\ wire' = Tail(wire)
  /\ LET sid == Head(wire)
     IN IF sid <= seen
        THEN benign' = TRUE /\ UNCHANGED <<seen, back>>
        ELSE /\ IF wanted
                THEN seen' = sid /\ UNCHANGED back
                ELSE /\ \E kind \in {"Error", "Data"} :
                          back' = Append(back, [kind |-> kind, id |-> sid])
                     /\ UNCHANGED seen
             /\ UNCHANGED benign
  /\ UNCHANGED <<connVars, pushVars, origin, panicked, calls, cut>>

-----------------------------------------------------------------------------
PusherStep(p) ==
  /\ p \notin waits
  /\ \/ Push(p) \/ Sent(p) \/ Store(p) \/ SetHeader(p) \/ WriteHeader(p)
     \/ WriteBegin(p) \/ WriteChecks(p) \/ WriteFlush(p) \/ WriteData(p) \/ WriteChunk(p)
     \/ CloseBegin(p) \/ CloseEnd(p)

SendStep(p) == Received(p) \/ OutputClosed(p)

ServerStep ==
  \/ FinishOrigin \/ CloseOrigin \/ ReadRefusal \/ StreamClosed \/ SenderFails
  \/ CloseHangs \/ CloseConn \/ CloseConnOrigin \/ CloseConnEnd
  \/ \E p \in Pushers : PusherStep(p) \/ SendStep(p) \/ CloseConnStream(p)

ClientStep == \E wanted \in BOOLEAN : TakePush(wanted)

\* A panic in any goroutine of the server ends its process.
Next == (panicked = "no" /\ ServerStep) \/ ClientStep

Spec == Init /\ [][Next]_vars

-----------------------------------------------------------------------------
(* Properties.                                                             *)

\* IDs that have gone out: on their way, on their way back, and taken back.
Out == {wire[i] : i \in DOMAIN wire} \cup {back[i].id : i \in DOMAIN back}
       \cup {seen} \cup {id[p] : p \in {q \in Pushers : pc[q] \notin {"idle", "sending"}}}

\* The pushes on their way are newer than what the client has seen and refused
\* and older than the one that is to be sent, or, if none is, no newer than
\* the counter.
IDsAscend ==
  /\ \A i, j \in DOMAIN wire : i < j => wire[i] < wire[j]
  /\ \A i \in DOMAIN wire : seen < wire[i] /\ wire[i] <= MaxStreamID
  /\ \A i, j \in DOMAIN back : i < j => back[i].id < back[j].id
  /\ \A i \in DOMAIN back : \A j \in DOMAIN wire : back[i].id < wire[j]
  /\ \A p \in Pushers : pc[p] = "sending" =>
       lock = p /\ id[p] = lastPush /\ lastPush <= MaxStreamID
  /\ lastPush % 2 = 0
  /\ conn = "open" /\ (lastPush = 0 => lock = NoOne) =>
       \A i \in Out : IF lock = NoOne THEN i <= lastPush ELSE i < lastPush

\* A push that a refusal has closed, or that it is closing.
Refused(p) == p = closing \/ (state[p] = "nil" /\ p \notin own)

\* A push is known to the connection under its own ID and once it is stored.
\* One that a refusal closes is older than all that are on their way.
Known ==
  /\ \A i \in StreamIDs : streams[i] # NoOne => id[streams[i]] = i /\ state[streams[i]] # "absent"
  /\ \A p \in Pushers :
       /\ pc[p] \in {"idle", "sending", "storing"} <=> state[p] = "absent"
       /\ state[p] = "nil" => p \notin header
       /\ Refused(p) /\ conn \in {"open", "failed"} =>
            /\ \A i \in DOMAIN back : id[p] < back[i].id
            /\ \A i \in DOMAIN wire : id[p] < wire[i]
  /\ closing # NoOne => state[closing] # "absent"
  /\ origin = "nil" \/ conn = "closed" => cut

\* The facts by which pushes are taken in order (conn.go 158-168) and refused
\* once (546-582): the frames go out in the order of their IDs, all of them
\* valid, and none after the counter has passed its 32 bits, because the
\* first ID after that is 0.
PushInv == TypeOK /\ IDsAscend /\ Known

\* No client that is built from this code finds a push out of order and takes
\* that for an error, however many handlers push at once, some are refused,
\* and calls go on past the limit of the IDs (conn.go 158-168, 405-411).
PushesInOrder == ~benign

\* A goroutine of the server panics over a push only where a stream has been
\* closed under it: Push only after the end of Close, the writer's methods
\* only if a push was closed, or Close of its origin was called.  A refusal
\* makes the reader panic only if a handler has closed its own push
\* (push_stream.go 34-42, 83-96, conn.go 338).
PanicsExplained ==
  /\ panicked = "Push" => conn = "closed"
  /\ panicked = "writer" => cut \/ \E p \in Pushers : state[p] = "nil"
  /\ panicked = "reader" => own # {}

\* On a push that a refusal, its handler or Close has closed no send begins,
\* wherever in Write its handler was.  A frame whose handler waits already may
\* still go out (push_stream.go 83-97).
ClosedPushesSilent ==
  [][\A p \in Pushers : state[p] = "nil" =>
       state'[p] = "nil" /\ sent'[p] = sent[p]]_vars
=============================================================================
