------------------------------- MODULE Server -------------------------------
(***************************************************************************)
(* The streams of a server's connection: what the frames of the client do  *)
(* to them (conn.go), what their handlers do (server_stream.go), and the   *)
(* frames that go out on each.                                             *)
(*                                                                         *)
(* The reader handles a frame in one step, under the connection's mutex; a *)
(* handler goroutine holds no mutex, so Write is cut at every point where  *)
(* the reader can close its stream.  A frame counts as sent when its send  *)
(* has begun; the goroutine then waits until the send loop receives it,    *)
(* for ever if the send loop has ended or is kept busy by frames of higher *)
(* priorities.  The send loop and the steps of the connection's Close are  *)
(* the subject of Conn.                                                    *)
(***************************************************************************)
EXTENDS Naturals, SequencesExt, StreamState

CONSTANTS
  Requests,         \* the stream IDs the client may send (odd in a good request)
  MaxBenignErrors,  \* benign errors tolerated (10 in the code)
  MaxSent,          \* bound: a handler writes until its stream has sent this much
  Writers           \* bound: the requests whose handlers do more than return

IsOdd(id) == id % 2 = 1
IDs == {id \in Requests : IsOdd(id)}

ASSUME ServerAssumption ==
  /\ Requests \subseteq Nat \ {0}
  /\ MaxBenignErrors \in Nat
  /\ MaxSent \in Nat

VARIABLES
  conn,           \* "open", "hung" (the reader has deadlocked itself),
                  \* "failed" (the sender waits for itself in Close, or for
                  \* the mutex), and, with conn.stop closed, "stopped",
                  \* "stuck" or "closed"
  last,           \* conn.lastRequestStreamID
  benign,         \* conn.numBenignErrors
  closing,        \* the stream whose headers the reader is flushing, or NoID
  state,          \* state of each stream: a StreamState, "nil" or "absent"
  header,         \* streams whose header map is not empty
  wroteHeader,    \* streams with wroteHeader set
  wroteResponse,  \* streams with wroteResponse set
  pc,             \* where the handler goroutine of each stream is
  sent,           \* the frames whose send has begun, on each stream
  waits,          \* streams whose handler waits for its last send to be received
  panicked        \* the goroutine that panicked: "no", "handler", "run" (the goroutine of Run) or "reader"

NoID == 0   \* closing: the reader is in no stream's Close

readerVars == <<conn, last, benign, closing>>
sendVars == <<sent, waits>>
handlerVars == <<wroteHeader, wroteResponse, pc, sendVars>>
vars == <<readerVars, state, header, handlerVars, panicked>>

PCs == {"none", "start", "handler", "respond", "flush", "data", "close", "finish", "done"}
Frames == [type : {"Response", "Data", "Headers"}, finish : BOOLEAN]

TypeOK ==
  /\ conn \in {"open", "hung", "failed", "stopped", "stuck", "closed"}
  /\ last \in Nat
  /\ benign \in 0 .. MaxBenignErrors + 1
  /\ closing \in IDs \cup {NoID}
  /\ state \in [IDs -> StreamStates \cup NoStates]
  /\ header \subseteq IDs
  /\ wroteHeader \subseteq IDs /\ wroteResponse \subseteq IDs
  /\ pc \in [IDs -> PCs]
  /\ sent \in [IDs -> Seq(Frames)]
  /\ waits \subseteq IDs
  /\ panicked \in {"no", "handler", "reader", "run"}

Init ==
  /\ conn = "open"
  /\ last = 0
  /\ benign = 0
  /\ closing = NoID
  /\ state = [id \in IDs |-> "absent"]
  /\ header = {} /\ wroteHeader = {} /\ wroteResponse = {}
  /\ pc = [id \in IDs |-> "none"]
  /\ sent = [id \in IDs |-> <<>>]
  /\ waits = {}
  /\ panicked = "no"

-----------------------------------------------------------------------------
(* Helpers.  Those marked "fault" are seeded faults and used by no action. *)

Panic(where) == panicked' = where
Goto(id, at) == pc' = [pc EXCEPT ![id] = at]
Known(id) == id \in IDs /\ state[id] # "absent"
ReadingOn == conn = "open" /\ closing = NoID   \* fault: the limit is not looked at
Reading == conn = "open" /\ closing = NoID /\ benign <= MaxBenignErrors
Stopped == conn \in {"stopped", "stuck", "closed"}

AnyID(id) == FALSE                         \* fault: no order among requests
StaleID(id) == id <= last /\ last # 0      \* handleRequest: sid <= lsid

SendAlways(s) == TRUE                      \* fault: FINISH is sent twice
SendIfOpen(s) == s = "open"                \* fault: half-closed taken for closed
OpenHere(s) == ~ClosedHere(s)              \* Run: s.state.OpenHere()

Unmarked(s) == s                           \* fault: state.CloseHere left out
FinishHere(s) == CloseHere(s)              \* WriteResponse: s.state.CloseHere()

OutputKept(id) == TRUE                     \* fault: Close leaves s.output
HasOutput(id) == state[id] # "nil"         \* Close: s.output = nil

Begun(id, type, finish) ==
  sent' = [sent EXCEPT ![id] = Append(@, [type |-> type, finish |-> finish])]

\* s.output <- frame, by the handler: it begins, and the handler waits.
Send(id, type, finish) == Begun(id, type, finish) /\ waits' = waits \cup {id}

\* The send loop receives while it lives, though it need not come to this
\* stream's priority.
Receiving == conn \in {"open", "hung"}

\* A second Close of a stream waits for the first: s.Lock().
CanClose(id) == pc[id] # "close"

-----------------------------------------------------------------------------
(* Frames from the client.  The IDs that a frame's ReadFrom refuses end    *)
(* the connection there, as does any other read error: ReadEnd.            *)

Benign == benign' = benign + 1

\* handleResponse: only a client can receive a Response.
HandleResponse ==
  /\ Reading
  /\ Benign
  /\ UNCHANGED <<conn, last, closing, state, header, handlerVars, panicked>>

\* handleClientData.  Data with an odd ID is refused; an even ID is that of
\* a push, which takes no frames.
HandleClientData(id) ==
  /\ Reading
  /\ IF IsOdd(id) THEN Benign ELSE \E unknown \in {0, 1} : benign' = benign + unknown
  /\ UNCHANGED <<conn, last, closing, state, header, handlerVars, panicked>>

\* handleRequest and newStream.  A request whose URL or version does not
\* parse is dropped without a trace.
HandleRequest(id, finish, parses) ==
  /\ Reading
  /\ IF ~IsOdd(id) \/ StaleID(id)
     THEN Benign /\ UNCHANGED <<last, state, pc>>
     ELSE /\ parses
          /\ last' = id
          /\ state' = [state EXCEPT ![id] = IF finish THEN CloseThere("open") ELSE "open"]
          /\ Goto(id, "start")
          /\ UNCHANGED benign
  /\ UNCHANGED <<conn, closing, header, wroteHeader, wroteResponse, sendVars, panicked>>

\* handleHeaders: more headers of the request go to the response's headers.
\* State() of a stream that has been closed is a nil pointer.
HandleHeaders(id) ==
  /\ Reading
  /\ IF ~Known(id) THEN Benign /\ UNCHANGED <<header, panicked>>
     ELSE IF state[id] = "nil" THEN Panic("reader") /\ UNCHANGED <<benign, header>>
     ELSE IF ClosedThere(state[id]) THEN Benign /\ UNCHANGED <<header, panicked>>
     ELSE header' = header \cup {id} /\ UNCHANGED <<benign, panicked>>
  /\ UNCHANGED <<conn, last, closing, state, handlerVars>>

\* serverStream.Close after its writeHeader: the fields are set to nil, and
\* with them the headers that the handler has set meanwhile.
CloseStream(id) ==
  /\ header' = header \ {id}
  /\ state' = [state EXCEPT ![id] = "nil"]

Counted(counted) == IF counted THEN Benign ELSE UNCHANGED benign

\* handleError.  INVALID_STREAM and STREAM_CLOSED count as benign errors.
\* If the stream has headers that were not sent, its Close begins to send
\* them; otherwise it is done at once.
HandleError(id, counted) ==
  /\ Reading
  /\ Known(id) => CanClose(id)
  /\ IF Known(id) /\ id \in header
     THEN /\ Begun(id, "Headers", FALSE)
          /\ header' = header \ {id}
          /\ closing' = id
          /\ UNCHANGED <<state, benign>>
     ELSE /\ IF Known(id) THEN CloseStream(id) ELSE UNCHANGED <<state, header>>
          /\ Counted(counted)
          /\ UNCHANGED <<closing, sent>>
  /\ UNCHANGED <<conn, last, wroteHeader, wroteResponse, pc, waits, panicked>>

\* handleError goes on when the headers have been received.
StreamClosed(counted) ==
  /\ closing # NoID /\ Receiving
  /\ CloseStream(closing)
  /\ closing' = NoID
  /\ Counted(counted)
  /\ UNCHANGED <<conn, last, handlerVars, panicked>>

\* handleError with an unknown status, and Data with an ID out of range.
ProtocolError ==
  /\ Reading
  /\ conn' = "hung"
  /\ UNCHANGED <<last, benign, closing, state, header, handlerVars, panicked>>

\* The connection closes: a read error, a fatal Error frame, too many
\* benign errors, or an app's call of Close.  The mutex is free, and the
\* sender has ended, when conn.stop is closed.
CloseConn ==
  /\ conn = "open" /\ closing = NoID
  /\ conn' = "stopped"
  /\ UNCHANGED <<last, benign, closing, state, header, handlerVars, panicked>>

\* A write error.  The sender calls Close itself and waits there for the
\* sender, with the mutex, or for the mutex, if the reader keeps it:
\* conn.stop stays open and nobody receives any more.
SenderFails ==
  /\ Receiving
  /\ conn' = "failed"
  /\ UNCHANGED <<last, benign, closing, state, header, handlerVars, panicked>>

\* Close closes the streams one by one.  Headers that are left are sent to a
\* sender that is gone, and Close waits for ever.
CloseConnStream(id) ==
  /\ conn = "stopped"
  /\ Known(id) /\ state[id] # "nil" /\ CanClose(id)
  /\ IF id \in header
     THEN /\ conn' = "stuck"
          /\ Begun(id, "Headers", FALSE)
          /\ header' = header \ {id}
          /\ UNCHANGED state
     ELSE CloseStream(id) /\ UNCHANGED <<conn, sent>>
  /\ UNCHANGED <<last, benign, closing, wroteHeader, wroteResponse, pc, waits, panicked>>

CloseConnEnd ==
  /\ conn = "stopped"
  /\ \A id \in IDs : Known(id) => state[id] = "nil"
  /\ conn' = "closed"
  /\ UNCHANGED <<last, benign, closing, state, header, handlerVars, panicked>>

\* After an application's Close the reader goes on with what it has buffered.
\* A frame with headers makes it panic, because conn.decompressor is nil, and
\* so does one benign error too many, because output[0] is closed; the others
\* find no streams.
ReadOn ==
  /\ conn = "closed"
  /\ \/ Panic("reader") /\ UNCHANGED benign
     \/ benign <= MaxBenignErrors /\ Benign /\ UNCHANGED panicked
  /\ UNCHANGED <<conn, last, closing, state, header, handlerVars>>

-----------------------------------------------------------------------------
(* The handler goroutine of a stream: Run, and the calls of the handler.   *)

\* Run up to ServeHTTP: s.request is nil if the stream was closed by then.
RunStart(id) ==
  /\ pc[id] = "start"
  /\ IF state[id] = "nil"
     THEN Panic("run") /\ UNCHANGED pc
     ELSE Goto(id, "handler") /\ UNCHANGED panicked
  /\ UNCHANGED <<readerVars, state, header, wroteHeader, wroteResponse, sendVars>>

\* ServeHTTP is running, and may call what w has.
InHandler(id) == pc[id] = "handler" /\ id \in Writers

\* w.Header().Set: the map is nil once the stream is closed.
SetHeader(id) ==
  /\ InHandler(id)
  /\ IF state[id] = "nil"
     THEN Panic("handler") /\ UNCHANGED header
     ELSE header' = header \cup {id} /\ UNCHANGED panicked
  /\ UNCHANGED <<readerVars, state, handlerVars>>

\* The body of WriteResponse: the Response takes all the headers; one that
\* has no body finishes the stream.
Respond(id, bodyless) ==
  IF id \in wroteResponse THEN UNCHANGED <<state, header, wroteResponse, sendVars, panicked>>
  ELSE IF state[id] = "nil"
  THEN Panic("handler") /\ UNCHANGED <<state, header, wroteResponse, sendVars>>
  ELSE /\ wroteResponse' = wroteResponse \cup {id}
       /\ header' = header \ {id}
       /\ state' = [state EXCEPT ![id] = IF bodyless THEN FinishHere(@) ELSE @]
       /\ Send(id, "Response", bodyless)
       /\ UNCHANGED panicked

WriteResponse(id, bodyless) ==
  /\ InHandler(id)
  /\ id \notin wroteResponse
  /\ Respond(id, bodyless)
  /\ UNCHANGED <<readerVars, wroteHeader, pc>>

WriteHeader(id, bodyless) ==
  /\ InHandler(id)
  /\ id \notin wroteHeader
  /\ wroteHeader' = wroteHeader \cup {id}
  /\ Respond(id, bodyless)
  /\ UNCHANGED <<readerVars, pc>>

\* Write: closed() and ClosedHere.
WriteBegin(id) ==
  /\ InHandler(id)
  /\ Len(sent[id]) < MaxSent
  /\ state[id] # "nil" /\ ~Stopped /\ ~ClosedHere(state[id])
  /\ Goto(id, "respond")
  /\ UNCHANGED <<readerVars, state, header, wroteHeader, wroteResponse, sendVars, panicked>>

\* Write: the default response, 200.
WriteRespond(id) ==
  /\ pc[id] = "respond"
  /\ IF id \in wroteHeader
     THEN UNCHANGED <<state, header, wroteHeader, wroteResponse, sendVars, panicked>>
     ELSE wroteHeader' = wroteHeader \cup {id} /\ Respond(id, FALSE)
  /\ Goto(id, "flush")
  /\ UNCHANGED readerVars

\* Write: writeHeader.
WriteFlush(id) ==
  /\ pc[id] = "flush"
  /\ IF id \in header THEN Send(id, "Headers", FALSE) ELSE UNCHANGED sendVars
  /\ header' = header \ {id}
  /\ Goto(id, "data")
  /\ UNCHANGED <<readerVars, state, wroteHeader, wroteResponse, panicked>>

\* Write: the Data frame, if there is data.  On a stream closed meanwhile
\* s.output is nil and the send never returns.
WriteData(id) ==
  /\ pc[id] = "data"
  /\ \/ HasOutput(id) /\ Send(id, "Data", FALSE)
     \/ UNCHANGED sendVars
  /\ Goto(id, "handler")
  /\ UNCHANGED <<readerVars, state, header, wroteHeader, wroteResponse, panicked>>

\* The handler may call Close of its own stream, which is a Stream: first
\* writeHeader, then the fields.
CloseBegin(id) ==
  /\ InHandler(id)
  /\ closing # id
  /\ IF id \in header THEN Send(id, "Headers", FALSE) ELSE UNCHANGED sendVars
  /\ header' = header \ {id}
  /\ Goto(id, "close")
  /\ UNCHANGED <<readerVars, state, wroteHeader, wroteResponse, panicked>>

CloseEnd(id) ==
  /\ pc[id] = "close"
  /\ CloseStream(id)
  /\ Goto(id, "handler")
  /\ UNCHANGED <<readerVars, wroteHeader, wroteResponse, sendVars, panicked>>

\* Run after ServeHTTP: what is left to finish the stream with.
Return(id) ==
  /\ pc[id] = "handler"
  /\ IF state[id] = "nil"
     THEN Panic("run") /\ UNCHANGED <<header, pc, sendVars>>
     ELSE /\ IF ~OpenHere(state[id]) THEN UNCHANGED <<header, sendVars>>
             ELSE IF id \in wroteResponse
             THEN Send(id, "Data", TRUE) /\ UNCHANGED header
             ELSE Send(id, "Response", TRUE) /\ header' = header \cup {id}
          /\ Goto(id, "finish")
          /\ UNCHANGED panicked
  /\ UNCHANGED <<readerVars, state, wroteHeader, wroteResponse>>

\* Run: s.state.CloseHere()
Finish(id) ==
  /\ pc[id] = "finish"
  /\ IF state[id] = "nil"
     THEN Panic("run") /\ UNCHANGED <<state, pc>>
     ELSE /\ state' = [state EXCEPT ![id] = CloseHere(@)]
          /\ Goto(id, "done")
          /\ UNCHANGED panicked
  /\ UNCHANGED <<readerVars, header, wroteHeader, wroteResponse, sendVars>>

-----------------------------------------------------------------------------
(* The other end of a handler's send.                                      *)

\* The send loop receives the frame.
Received(id) ==
  /\ id \in waits /\ Receiving
  /\ waits' = waits \ {id}
  /\ UNCHANGED <<readerVars, state, header, wroteHeader, wroteResponse, pc, sent, panicked>>

\* Close receives one frame of each output, which is lost, and closes it;
\* who still waits there panics.
OutputClosed(id) ==
  /\ id \in waits /\ conn = "closed"
  /\ waits' = waits \ {id}
  /\ \/ UNCHANGED panicked
     \/ Panic(IF pc[id] = "finish" THEN "run" ELSE "handler")
  /\ UNCHANGED <<readerVars, state, header, wroteHeader, wroteResponse, pc, sent>>

-----------------------------------------------------------------------------
ReaderStep ==
  \/ HandleResponse \/ ProtocolError \/ ReadOn
  \/ \E counted \in BOOLEAN : StreamClosed(counted)
  \/ \E id \in Requests :
       \/ HandleClientData(id) \/ HandleHeaders(id)
       \/ \E counted \in BOOLEAN : HandleError(id, counted)
       \/ \E finish, parses \in BOOLEAN : HandleRequest(id, finish, parses)

CloseStep == CloseConn \/ SenderFails \/ CloseConnEnd \/ \E id \in IDs : CloseConnStream(id)

SendStep(id) == Received(id) \/ OutputClosed(id)

HandlerStep(id) ==
  /\ id \notin waits
  /\ \/ RunStart(id) \/ SetHeader(id)
     \/ \E bodyless \in BOOLEAN : WriteResponse(id, bodyless) \/ WriteHeader(id, bodyless)
     \/ WriteBegin(id) \/ WriteRespond(id) \/ WriteFlush(id) \/ WriteData(id)
     \/ CloseBegin(id) \/ CloseEnd(id)
     \/ Return(id) \/ Finish(id)

\* A panic in any goroutine ends the process.
Next ==
  /\ panicked = "no"
  /\ ReaderStep \/ CloseStep \/ \E id \in IDs : HandlerStep(id) \/ SendStep(id)

Spec == Init /\ [][Next]_vars

\* The handler goroutines run, and handlers return: net/http's contract.
\* Nothing is assumed of who receives.
FairSpec ==
  /\ Spec
  /\ \A id \in IDs : /\ WF_vars(panicked = "no" /\ HandlerStep(id))
                    /\ SF_vars(panicked = "no" /\ id \notin waits /\ Return(id))

-----------------------------------------------------------------------------
(* Properties.                                                             *)

Answered(id) == \E i \in DOMAIN sent[id] : sent[id][i].type = "Response"
Finished(id) == \E i \in DOMAIN sent[id] : sent[id][i].finish

\* A stream has a handler, and no stream has an ID above the last request's.
Started ==
  \A id \in IDs :
    /\ pc[id] = "none" <=> state[id] = "absent"
    /\ pc[id] = "none" => sent[id] = <<>> /\ id \notin header
    /\ pc[id] # "none" => id <= last
    /\ state[id] = "nil" => id \notin header
    /\ closing = id => state[id] # "absent"

\* What wroteHeader and wroteResponse say of the frames that have been sent.
Answers ==
  \A id \in IDs :
    /\ id \in wroteResponse => Answered(id)
    /\ Answered(id) => id \in wroteResponse \/ pc[id] \in {"finish", "done"}
    /\ Finished(id) => Answered(id)
    /\ pc[id] \in {"respond", "flush", "data"} => ~Finished(id)
    /\ panicked # "no" \/ id \notin wroteHeader \/ id \in wroteResponse
    /\ panicked # "no" \/ pc[id] \notin {"flush", "data"} \/ id \in wroteResponse

\* The reader flushes a stream's headers with the mutex, so no Close comes
\* between; the error it may count then is not one too many.
Flushing == closing # NoID => ~Stopped /\ benign <= MaxBenignErrors

\* The facts by which the two flags of the writer, the state and the header
\* map are enough to decide what may still be sent (server_stream.go 42-92,
\* 165-248), and by which the reader stops counting errors (conn.go 724).
ServerInv == TypeOK /\ Started /\ Answers /\ Flushing

\* On each stream there is one Response at most, Data only after it, and
\* neither of them after a frame with FINISH (Headers may come anywhere),
\* however the handler mixes its calls and whatever the client sends
\* meanwhile (server_stream.go 42-92, 165-248).
ResponseGrammar ==
  \A id \in IDs : \A j \in DOMAIN sent[id] :
    LET earlier == {sent[id][i] : i \in 1 .. j - 1}
        answered == \E f \in earlier : f.type = "Response"
    IN /\ sent[id][j].type = "Response" => ~answered
       /\ sent[id][j].type = "Data" => answered
       /\ sent[id][j].type # "Headers" => ~ \E f \in earlier : f.finish

\* A stream on which FINISH has been sent is closed at this end, so that
\* Write refuses what comes after, once Run has had time to note its own.
\* Headers may still follow: the Close of the stream flushes what is left.
FinishCloses ==
  \A id \in IDs :
    (\E i \in DOMAIN sent[id] : sent[id][i].finish)
      => state[id] = "nil" \/ ClosedHere(state[id]) \/ pc[id] = "finish"

\* A handler is started once per stream ID and the IDs go up: a request that
\* is repeated, or arrives after a later one, starts nothing (conn.go 500-506).
RequestsInOrder ==
  [][\A id \in IDs : pc[id] # "start" /\ pc'[id] = "start" =>
       \A other \in IDs : pc[other] # "none" => other < id]_vars

\* On a stream that an Error frame, its handler or the connection's Close has
\* closed no send begins, wherever in Write its handler was.  A frame whose
\* handler waits already may still go out (server_stream.go 98-116).
ClosedStreamsSilent ==
  [][\A id \in IDs : state[id] = "nil" =>
       state'[id] = "nil" /\ sent'[id] = sent[id]]_vars

\* Every request that was accepted is answered to the end, whatever frames
\* the client sends, and also when the reader has hung, if its handler returns
\* and no send of it waits for ever.  A send does when the send loop has ended
\* and when frames of higher priorities never end: Conn says of whom that is
\* true.  Otherwise only Close of the stream or of the connection, or a panic,
\* takes the answer away (server_stream.go 165-206).
RequestsAnswered ==
  \A id \in IDs :
    []<>(id \notin waits) =>
      (pc[id] = "start" ~>
         \/ Finished(id) /\ id \notin waits
         \/ state[id] = "nil" \/ Stopped \/ panicked # "no")
=============================================================================
