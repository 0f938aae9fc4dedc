------------------------------- MODULE Client -------------------------------
(***************************************************************************)
(* The streams of a client's connection: the callers of Conn.Request (as   *)
(* Transport.RoundTrip) that wait in clientStream.Run, the reader that     *)
(* takes the server's frames to them (conn.go, client_stream.go), and the  *)
(* server's pushes.                                                        *)
(*                                                                         *)
(* Request sends its frames under the connection's mutex and registers the *)
(* stream after the unlock.  The reader looks a stream up under that mutex *)
(* and delivers under the stream's own, so that the application's Close of *)
(* the stream can come between.  The server may send any frame at any      *)
(* time.  The send loop and the steps of Conn.Close are in Conn.           *)
(***************************************************************************)
EXTENDS Naturals, Sequences, FiniteSets, Functions, StreamState

CONSTANTS
  Requests,         \* bound: the stream IDs the client may use, odd
  Pushes,           \* bound: the stream IDs the server may push, even
  HasPushReceiver,  \* conn.pushReceiver # nil
  MaxBenignErrors,  \* benign errors tolerated (10 in the code)
  MaxGot            \* bound: deliveries, to all receivers together

ASSUME ClientAssumption ==
  /\ Requests \subseteq {id \in Nat : id % 2 = 1}
  /\ Pushes \subseteq {id \in Nat : id % 2 = 0 /\ id > 0}
  /\ HasPushReceiver \in BOOLEAN
  /\ MaxBenignErrors \in Nat
  /\ MaxGot \in Nat

VARIABLES
  conn,      \* "open", "hung" (the reader has deadlocked itself), and, with
             \* conn.stop closed, "stopped", "stuck" or "closed"
  last,      \* conn.lastRequestStreamID
  benign,    \* conn.numBenignErrors
  held,      \* the frame that the reader, holding the mutex, has looked up
  state,     \* state of each stream: a StreamState, "nil" or "absent"
  late,      \* streams registered while Close was going over conn.streams
  header,    \* streams whose header map is not empty
  pc,        \* where the caller of each request is
  finished,  \* streams whose finished channel is closed
  got,       \* the calls of each request's receiver
  lastPush,  \* conn.lastPushStreamID
  push,      \* what became of each push
  pushGot,   \* the calls of the push receiver for each push
  panicked   \* the goroutine that panicked

reqVars == <<state, late, header, pc, finished, got>>
pushVars == <<lastPush, push, pushGot>>
vars == <<conn, last, benign, held, reqVars, pushVars, panicked>>

Deliveries == [type : {"Response", "Data", "Headers"}, finish : BOOLEAN]
Frames == [id : Requests, type : {"Response", "Data", "Headers"}, finish : BOOLEAN]

TypeOK ==
  /\ conn \in {"open", "hung", "stopped", "stuck", "closed"}
  /\ last \in Requests \cup {0}
  /\ benign \in 0 .. MaxBenignErrors + 1
  /\ held \subseteq Frames /\ Cardinality(held) <= 1
  /\ state \in [Requests -> (StreamStates \cup NoStates) \ {"open", "halfClosedThere"}]
  /\ late \subseteq Requests /\ header \subseteq Requests /\ finished \subseteq Requests
  /\ pc \in [Requests -> {"none", "sent", "run", "done"}]
  /\ got \in [Requests -> Seq(Deliveries)]
  /\ lastPush \in Pushes \cup {0}
  /\ push \in [Pushes -> {"none", "dropped", "refused", "accepted"}]
  /\ pushGot \in [Pushes -> Seq(Deliveries)]
  /\ panicked \in {"no", "caller", "reader", "run", "finished"}

Init ==
  /\ conn = "open"
  /\ last = 0 /\ lastPush = 0
  /\ benign = 0
  /\ held = {}
  /\ state = [id \in Requests |-> "absent"]
  /\ late = {} /\ header = {} /\ finished = {}
  /\ pc = [id \in Requests |-> "none"]
  /\ got = [id \in Requests |-> <<>>]
  /\ push = [id \in Pushes |-> "none"]
  /\ pushGot = [id \in Pushes |-> <<>>]
  /\ panicked = "no"

-----------------------------------------------------------------------------
(* Helpers.  Those marked "fault" are seeded faults and used by no action. *)

Panic(where) == panicked' = where
Stopped == conn \in {"stopped", "stuck", "closed"}
Delivery(type, finish) == [type |-> type, finish |-> finish]
Calls(receivers) == FoldFunction(LAMBDA calls, n : Len(calls) + n, 0, receivers)
MayGet == Calls(got) + Calls(pushGot) < MaxGot

\* The reader is in readFrames, ready for a frame.
ReadingOn == conn = "open" /\ held = {}    \* fault: the limit is not looked at
Reading == conn = "open" /\ held = {} /\ benign <= MaxBenignErrors

\* It goes on after an application's Close with what it has buffered.
ReadingClosed == conn = "closed" /\ benign <= MaxBenignErrors

NextID == IF last = 0 THEN 1 ELSE last + 2

\* !ok || stream == nil || stream.State().ClosedThere()
Unregistered(id) == state[id] = "absent"   \* fault: a finished stream takes more
Refused(id) == state[id] = "absent" \/ ClosedThere(state[id])

NoOrder(id) == FALSE                       \* fault: no order among pushes
StalePush(id) == id <= lastPush            \* handlePush: sid <= lsid

Accepted(id) == push[id] = "accepted"      \* pushRequests[sid] != nil

ReceiverKept(id) == TRUE                   \* fault: Close leaves s.receiver
HasReceiver(id) == state[id] # "nil"       \* Close: s.receiver = nil

OnData(f) == f.finish /\ f.type = "Data"   \* fault: a bodyless answer is forgotten
Final(f) == f.finish                       \* ReceiveFrame: frame.Flags.FINISH()

-----------------------------------------------------------------------------
(* The callers of Conn.Request.                                            *)

\* Request, under the mutex: the Request frame and the body's go out.  The
\* channels are closed by the connection's Close.
RequestSend ==
  /\ conn \in {"open", "closed"} /\ held = {}
  /\ NextID \in Requests
  /\ last' = NextID
  /\ IF conn = "closed"
     THEN Panic("caller") /\ UNCHANGED pc
     ELSE pc' = [pc EXCEPT ![NextID] = "sent"] /\ UNCHANGED panicked
  /\ UNCHANGED <<conn, benign, held, state, late, header, finished, got, pushVars>>

\* Request, after the unlock: the stream is made and put in conn.streams,
\* which is nil after Close; the caller goes on to stream.Run.
Register(id) ==
  /\ pc[id] = "sent"
  /\ IF conn = "closed"
     THEN Panic("caller") /\ UNCHANGED <<state, late, pc>>
     ELSE /\ state' = [state EXCEPT ![id] = CloseHere("open")]
          /\ late' = IF Stopped THEN late \cup {id} ELSE late
          /\ pc' = [pc EXCEPT ![id] = "run"]
          /\ UNCHANGED panicked
  /\ UNCHANGED <<conn, last, benign, held, header, finished, got, pushVars>>

\* Run: <-s.finished, then s.state.CloseHere().
Run(id) ==
  /\ pc[id] = "run" /\ id \in finished
  /\ IF state[id] = "nil"
     THEN Panic("run") /\ UNCHANGED <<state, pc>>
     ELSE /\ state' = [state EXCEPT ![id] = CloseHere(@)]
          /\ pc' = [pc EXCEPT ![id] = "done"]
          /\ UNCHANGED panicked
  /\ UNCHANGED <<conn, last, benign, held, late, header, finished, got, pushVars>>

\* stream.Header().Set: the map is nil once the stream is closed.
SetHeader(id) ==
  /\ pc[id] \in {"run", "done"}
  /\ IF state[id] = "nil"
     THEN Panic("caller") /\ UNCHANGED header
     ELSE header' = header \cup {id} /\ UNCHANGED panicked
  /\ UNCHANGED <<conn, last, benign, held, state, late, pc, finished, got, pushVars>>

\* stream.WriteHeader sends the headers there are.
WriteHeader(id) ==
  /\ id \in header /\ ~Stopped
  /\ header' = header \ {id}
  /\ UNCHANGED <<conn, last, benign, held, state, late, pc, finished, got, pushVars, panicked>>

\* clientStream.Close, up to the fields set to nil.  Headers that are left
\* are sent first, to a sender that must be there.
CloseStream(id) ==
  /\ id \in header => ~Stopped
  /\ header' = header \ {id}
  /\ state' = [state EXCEPT ![id] = "nil"]

\* The application closes the stream that Request gave it.
AppCloseStream(id) ==
  /\ pc[id] \in {"run", "done"}
  /\ CloseStream(id)
  /\ UNCHANGED <<conn, last, benign, held, late, pc, finished, got, pushVars, panicked>>

-----------------------------------------------------------------------------
(* Frames from the server.  The IDs that a frame's ReadFrom refuses end    *)
(* the connection, as any read error does: CloseConn.                      *)

Benign == benign' = benign + 1

\* The lookup that handleResponse, handleServerData and handleHeaders share.
\* State() of a stream that has been closed is a nil pointer.
LookUp(f) ==
  /\ Reading
  /\ MayGet
  /\ IF state[f.id] = "nil" THEN Panic("reader") /\ UNCHANGED <<benign, held>>
     ELSE IF Refused(f.id) THEN Benign /\ UNCHANGED <<held, panicked>>
     ELSE held' = {f} /\ UNCHANGED <<benign, panicked>>
  /\ UNCHANGED <<conn, last, reqVars, pushVars>>

HandleResponse(id, finish) == LookUp([id |-> id, type |-> "Response", finish |-> finish])
HandleServerData(id, finish) == LookUp([id |-> id, type |-> "Data", finish |-> finish])
HandleHeaders(id) == LookUp([id |-> id, type |-> "Headers", finish |-> FALSE])

\* handleResponse with an even ID.
HandleEvenResponse ==
  /\ Reading
  /\ Benign
  /\ UNCHANGED <<conn, last, held, reqVars, pushVars, panicked>>

\* clientStream.ReceiveFrame, under the stream's mutex.  Only Headers are
\* looked at for a receiver that Close has set to nil.
ReceiveFrame(f) ==
  /\ f \in held
  /\ held' = {}
  /\ IF ~HasReceiver(f.id)
     THEN /\ IF f.type = "Headers" THEN UNCHANGED panicked ELSE Panic("reader")
          /\ UNCHANGED <<state, finished, got>>
     ELSE /\ got' = [got EXCEPT ![f.id] = Append(@, Delivery(f.type, f.finish))]
          /\ IF ~Final(f) THEN UNCHANGED <<state, finished, panicked>>
             ELSE /\ state' = [state EXCEPT ![f.id] = CloseThere(@)]
                  /\ finished' = finished \cup {f.id}
                  /\ IF f.id \in finished THEN Panic("finished") ELSE UNCHANGED panicked
  /\ UNCHANGED <<conn, last, benign, late, header, pc, pushVars>>

\* handlePush.  A push whose URL or version does not parse leaves no trace,
\* a push that the receiver does not want is answered with REFUSED_STREAM.
HandlePush(id, parses, wanted) ==
  /\ Reading
  /\ IF StalePush(id) THEN Benign /\ UNCHANGED <<lastPush, push, pushGot>>
     ELSE /\ parses
          /\ IF ~HasPushReceiver
             THEN push' = [push EXCEPT ![id] = "dropped"] /\ UNCHANGED <<lastPush, pushGot>>
             ELSE IF ~wanted
             THEN push' = [push EXCEPT ![id] = "refused"] /\ UNCHANGED <<lastPush, pushGot>>
             ELSE /\ MayGet
                  /\ push' = [push EXCEPT ![id] = "accepted"]
                  /\ lastPush' = id
                  /\ pushGot' = [pushGot EXCEPT ![id] = Append(@, Delivery("Headers", FALSE))]
          /\ UNCHANGED benign
  /\ UNCHANGED <<conn, last, held, reqVars, panicked>>

\* handlePush with an odd ID.
HandleOddPush ==
  /\ Reading
  /\ Benign
  /\ UNCHANGED <<conn, last, held, reqVars, pushVars, panicked>>

\* handleServerData and handleHeaders with an even ID.  They do not look at
\* conn.closed(), and Close leaves conn.pushRequests.
PushFrame(id, type, finish) ==
  /\ Reading \/ (ReadingClosed /\ type = "Data")
  /\ Accepted(id) /\ HasPushReceiver
  /\ MayGet
  /\ pushGot' = [pushGot EXCEPT ![id] = Append(@, Delivery(type, finish))]
  /\ UNCHANGED <<conn, last, benign, held, reqVars, lastPush, push, panicked>>

\* handleError.  INVALID_STREAM and STREAM_CLOSED count as benign errors.
HandleError(id, counted) ==
  /\ Reading
  /\ IF state[id] # "absent" THEN CloseStream(id) ELSE UNCHANGED <<state, header>>
  /\ IF counted THEN Benign ELSE UNCHANGED benign
  /\ UNCHANGED <<conn, last, held, late, pc, finished, got, pushVars, panicked>>

\* A protocol error found while the mutex is held: protocolError's Close
\* locks it again.
ProtocolError ==
  /\ Reading
  /\ conn' = "hung"
  /\ UNCHANGED <<last, benign, held, reqVars, pushVars, panicked>>

\* After an application's Close a frame with headers makes the reader panic,
\* because conn.decompressor is nil, and so does one benign error too many,
\* because output[0] is closed; the others find no streams.
ReadOn ==
  /\ conn = "closed"
  /\ \/ Panic("reader") /\ UNCHANGED benign
     \/ ReadingClosed /\ Benign /\ UNCHANGED panicked
  /\ UNCHANGED <<conn, last, held, reqVars, pushVars>>

-----------------------------------------------------------------------------
(* Conn.Close: by the reader, the sender or the application.               *)

CloseConn ==
  /\ conn = "open" /\ held = {}
  /\ conn' = "stopped"
  /\ UNCHANGED <<last, benign, held, reqVars, pushVars, panicked>>

\* One turn of the loop over conn.streams.  It waits for ever on headers
\* that are left: the sender is gone.
CloseConnStream(id) ==
  /\ conn = "stopped"
  /\ state[id] \notin NoStates
  /\ IF id \in header
     THEN conn' = "stuck" /\ UNCHANGED <<state, header>>
     ELSE CloseStream(id) /\ UNCHANGED conn
  /\ UNCHANGED <<last, benign, held, late, pc, finished, got, pushVars, panicked>>

\* The end of the loop, which need not meet what was put in the map since
\* it began, and the rest of Close.
CloseConnEnd ==
  /\ conn = "stopped"
  /\ \A id \in Requests \ late : state[id] \in NoStates
  /\ conn' = "closed"
  /\ UNCHANGED <<last, benign, held, reqVars, pushVars, panicked>>

-----------------------------------------------------------------------------
CallerStep ==
  \/ RequestSend
  \/ \E id \in Requests :
       Register(id) \/ Run(id) \/ SetHeader(id) \/ WriteHeader(id) \/ AppCloseStream(id)

ReaderStep ==
  \/ \E id \in Requests :
       \/ \E finish \in BOOLEAN : HandleResponse(id, finish) \/ HandleServerData(id, finish)
       \/ HandleHeaders(id)
       \/ \E counted \in BOOLEAN : HandleError(id, counted)
  \/ HandleEvenResponse \/ HandleOddPush
  \/ \E f \in held : ReceiveFrame(f)
  \/ \E id \in Pushes :
       \/ \E parses, wanted \in BOOLEAN : HandlePush(id, parses, wanted)
       \/ \E finish \in BOOLEAN : PushFrame(id, "Data", finish)
       \/ PushFrame(id, "Headers", FALSE)
  \/ ProtocolError \/ ReadOn

CloseStep == CloseConn \/ CloseConnEnd \/ \E id \in Requests : CloseConnStream(id)

\* A panic in any goroutine ends the process.
Next ==
  /\ panicked = "no"
  /\ CallerStep \/ ReaderStep \/ CloseStep

Spec == Init /\ [][Next]_vars

\* The goroutines run: the reader gives a frame it holds to its stream, and
\* a caller goes on from Request to Run and from Run when it is woken.
FairSpec ==
  /\ Spec
  /\ WF_vars(panicked = "no" /\ \E f \in held : ReceiveFrame(f))
  /\ \A id \in Requests : WF_vars(panicked = "no" /\ (Register(id) \/ Run(id)))

-----------------------------------------------------------------------------
(* Properties.                                                             *)

\* A stream is made after its ID has been given out, and only once; what has
\* been accepted of the pushes is no newer than the counter.
Numbered ==
  /\ \A id \in Requests :
       /\ pc[id] # "none" => id <= last
       /\ pc[id] \in {"none", "sent"} <=> state[id] = "absent"
  /\ \A id \in Pushes : push[id] = "accepted" => id <= lastPush

\* The stream of a frame that the reader has looked up has not got its final
\* frame, though it may have been closed since.
LookedUp == \A f \in held : state[f.id] \in {"halfClosedHere", "nil"}

\* The facts by which a lookup under one mutex is enough for a delivery under
\* another (conn.go 641-655, client_stream.go 112-157), IDs are not used
\* twice (conn.go 246-256), and benign errors are counted (conn.go 724).
ClientInv == TypeOK /\ Numbered /\ LookedUp

\* A receiver hears nothing of a request after the frame with FINISH,
\* whatever the server sends afterwards (client_stream.go 112-157).
NothingAfterFinal ==
  \A id \in Requests : \A i \in DOMAIN got[id] : got[id][i].finish => i = Len(got[id])

\* The finished channel is closed with the final delivery, no other close
\* of it is tried, and the stream is then closed at both ends (it began
\* half-closed) so that no later frame can close it again.
FinishedOnce ==
  /\ panicked # "finished"
  /\ \A id \in Requests :
       /\ id \in finished <=> \E i \in DOMAIN got[id] : got[id][i].finish
       /\ id \in finished => state[id] \in {"closed", "nil"}

\* A receiver hears nothing once its stream has been closed, not even of the
\* frame that the reader had looked the stream up for (client_stream.go 83-97).
SilentAfterClose ==
  [][\A id \in Requests : state[id] = "nil" => state'[id] = "nil" /\ got'[id] = got[id]]_vars

\* Pushes are accepted in the order of their IDs, once each, and the
\* receiver hears of no other (conn.go 405-410, 466-473, 593-596).
PushesInOrder ==
  [][\A id \in Pushes : pushGot'[id] # pushGot[id] =>
       /\ push'[id] = "accepted"
       /\ push[id] # "accepted" => \A other \in Pushes : push[other] = "accepted" => other < id]_vars

\* A caller whose answer has been delivered to the end returns from Run, be
\* it with a body or without, unless its stream is closed in between.
AnsweredRunReturns ==
  \A id \in Requests :
    (\E f \in held : f.id = id /\ f.finish) ~>
      pc[id] = "done" \/ state[id] = "nil" \/ panicked # "no"

-----------------------------------------------------------------------------
(* What a comment says of the program and the program does not do.         *)

\* transport.go 71: "Receiver is used to receive the server's response."
\* A response read before Request has registered the stream is dropped.
ResponseReceived ==
  [][\A id \in Requests : \A finish \in BOOLEAN :
       pc[id] # "none" /\ got[id] = <<>> /\ state[id] # "nil" /\ HandleResponse(id, finish)
         => held' # {}]_vars
=============================================================================
