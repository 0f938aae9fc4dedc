--------------------------- MODULE Server_proofs ---------------------------
(***************************************************************************)
(* Proofs about Server, for any set of requests, any number of benign      *)
(* errors and handlers that write as long as they like: the frames of each *)
(* stream are well formed, handlers start in order and closed streams are  *)
(* silent.                                                                 *)
(***************************************************************************)
EXTENDS Server, TLAPS

-----------------------------------------------------------------------------
(* Sequences of frames.                                                    *)

HasResponse(s) == \E i \in DOMAIN s : s[i].type = "Response"
HasFinish(s) == \E i \in DOMAIN s : s[i].finish

WellFormed(s) ==
  \A j \in DOMAIN s :
    LET earlier == {s[i] : i \in 1 .. j - 1}
        answered == \E f \in earlier : f.type = "Response"
    IN /\ s[j].type = "Response" => ~answered
       /\ s[j].type = "Data" => answered
       /\ s[j].type # "Headers" => ~ \E f \in earlier : f.finish

LEMMA AppendFacts ==
  ASSUME NEW s \in Seq(Frames), NEW f \in Frames
  PROVE  /\ Append(s, f) \in Seq(Frames)
         /\ DOMAIN s = 1 .. Len(s) /\ Len(s) \in Nat
         /\ DOMAIN Append(s, f) = 1 .. Len(s) + 1
         /\ \A i \in 1 .. Len(s) : Append(s, f)[i] = s[i]
         /\ Append(s, f)[Len(s) + 1] = f
  OBVIOUS

\* What the next frame adds.
LEMMA AppendHas ==
  ASSUME NEW s \in Seq(Frames), NEW f \in Frames
  PROVE  /\ HasResponse(Append(s, f)) <=> HasResponse(s) \/ f.type = "Response"
         /\ HasFinish(Append(s, f)) <=> HasFinish(s) \/ f.finish
  <1>1. \A i : i \in DOMAIN Append(s, f) <=> i \in DOMAIN s \/ i = Len(s) + 1
    BY AppendFacts
  <1>2. (\A i \in DOMAIN s : Append(s, f)[i] = s[i]) /\ Append(s, f)[Len(s) + 1] = f
    BY AppendFacts
  <1> QED BY <1>1, <1>2 DEF HasResponse, HasFinish

\* When the next frame keeps the grammar.
LEMMA AppendWellFormed ==
  ASSUME NEW s \in Seq(Frames), NEW f \in Frames, WellFormed(s),
         f.type = "Response" => ~HasResponse(s),
         f.type = "Data" => HasResponse(s),
         f.type # "Headers" => ~HasFinish(s)
  PROVE  WellFormed(Append(s, f))
  <1> DEFINE t == Append(s, f)
             n == Len(s)
             Before(u, j) == {u[i] : i \in 1 .. j - 1}
  <1>1. /\ n \in Nat /\ DOMAIN s = 1 .. n /\ DOMAIN t = 1 .. n + 1
        /\ \A i \in 1 .. n : t[i] = s[i]
        /\ t[n + 1] = f
    BY AppendFacts
  <1>2. ASSUME NEW j \in DOMAIN t
        PROVE  /\ t[j].type = "Response" => ~ \E g \in Before(t, j) : g.type = "Response"
               /\ t[j].type = "Data" => \E g \in Before(t, j) : g.type = "Response"
               /\ t[j].type # "Headers" => ~ \E g \in Before(t, j) : g.finish
    <2>1. CASE j = n + 1
      <3>1. Before(t, j) = {s[i] : i \in DOMAIN s}
        BY <1>1, <2>1
      <3>2. t[j] = f
        BY <1>1, <2>1
      <3> QED BY <3>1, <3>2 DEF HasResponse, HasFinish
    <2>2. CASE j # n + 1
      <3>1. j \in DOMAIN s /\ t[j] = s[j]
        BY <1>1, <2>2
      <3>2. Before(t, j) = Before(s, j)
        <4>1. \A i \in 1 .. j - 1 : t[i] = s[i]
          BY <1>1, <3>1
        <4> QED BY <4>1
      <3> QED BY <3>1, <3>2 DEF WellFormed
    <2> QED BY <2>1, <2>2
  <1> QED BY <1>2 DEF WellFormed

LEMMA EmptyWellFormed == WellFormed(<<>>) /\ ~HasResponse(<<>>) /\ ~HasFinish(<<>>)
  BY DEF WellFormed, HasResponse, HasFinish

LEMMA StateFacts ==
  /\ \A s \in StreamStates : CloseHere(s) \in StreamStates /\ ClosedHere(CloseHere(s))
  /\ CloseThere("open") \in StreamStates
  BY DEF StreamStates, CloseHere, CloseThere, ClosedHere

-----------------------------------------------------------------------------
(* The invariant, stream by stream.                                        *)

Good(id) ==
  /\ pc[id] = "none" <=> state[id] = "absent"
  /\ pc[id] = "none" => sent[id] = <<>> /\ id \notin header
  /\ pc[id] # "none" => id <= last
  /\ state[id] = "nil" => id \notin header
  /\ closing = id => state[id] # "absent"
  /\ id \in wroteResponse => HasResponse(sent[id])
  /\ HasResponse(sent[id]) => id \in wroteResponse \/ pc[id] \in {"finish", "done"}
  /\ HasFinish(sent[id]) => HasResponse(sent[id])
  /\ pc[id] \in {"respond", "flush", "data"} => ~HasFinish(sent[id])
  /\ panicked # "no" \/ id \notin wroteHeader \/ id \in wroteResponse
  /\ panicked # "no" \/ pc[id] \notin {"flush", "data"} \/ id \in wroteResponse
  /\ HasFinish(sent[id]) => state[id] = "nil" \/ ClosedHere(state[id]) \/ pc[id] = "finish"
  /\ WellFormed(sent[id])

IInv == TypeOK /\ \A id \in IDs : Good(id)

LEMMA Parts == IInv /\ Flushing <=> ServerInv /\ FinishCloses /\ ResponseGrammar
  <1>1. \A id \in IDs : /\ Answered(id) <=> HasResponse(sent[id])
                        /\ Finished(id) <=> HasFinish(sent[id])
    BY DEF Answered, Finished, HasResponse, HasFinish
  <1>2. FinishCloses <=> \A id \in IDs :
          HasFinish(sent[id]) => state[id] = "nil" \/ ClosedHere(state[id]) \/ pc[id] = "finish"
    BY DEF FinishCloses, HasFinish
  <1>3. ResponseGrammar <=> \A id \in IDs : WellFormed(sent[id])
    BY DEF ResponseGrammar, WellFormed
  <1> QED BY <1>1, <1>2, <1>3 DEF IInv, Good, ServerInv, Started, Answers

\* A step leaves a stream alone.
Same(d) ==
  /\ pc'[d] = pc[d] /\ state'[d] = state[d] /\ sent'[d] = sent[d]
  /\ d \in header' <=> d \in header
  /\ d \in wroteHeader' <=> d \in wroteHeader
  /\ d \in wroteResponse' <=> d \in wroteResponse
  /\ closing' = d => closing = d

LEMMA LeftAlone ==
  ASSUME IInv, panicked = "no", NEW d \in IDs, Same(d), last' \in Nat, last <= last'
  PROVE  Good(d)'
  <1>1. IDs \subseteq Nat /\ last \in Nat
    BY ServerAssumption DEF IDs, IInv, TypeOK
  <1>2. pc[d] # "none" => d <= last'
    BY <1>1 DEF IInv, Good
  <1> QED BY <1>2 DEF IInv, Good, Same

LEMMA OneStream ==
  ASSUME IInv, panicked = "no", TypeOK', last <= last',
         NEW id \in IDs, Good(id)', \A d \in IDs \ {id} : Same(d)
  PROVE  IInv'
  <1>1. \A d \in IDs : Good(d)'
    <2> SUFFICES ASSUME NEW d \in IDs, d # id PROVE Good(d)'
      OBVIOUS
    <2> QED BY LeftAlone DEF TypeOK
  <1> QED BY <1>1 DEF IInv

LEMMA NoStream ==
  ASSUME IInv, panicked = "no", TypeOK', last' = last, closing' = closing,
         UNCHANGED <<state, header, wroteHeader, wroteResponse, pc, sent>>
  PROVE  IInv'
  <1>1. \A d \in IDs : Good(d)'
    <2> SUFFICES ASSUME NEW d \in IDs PROVE Good(d)'
      OBVIOUS
    <2> QED BY DEF IInv, Good
  <1> QED BY <1>1 DEF IInv

\* What a send does to the stream, and to the others.
LEMMA Sending ==
  ASSUME TypeOK, NEW id \in IDs, NEW type \in {"Response", "Data", "Headers"},
         NEW finish \in BOOLEAN, Begun(id, type, finish)
  PROVE  /\ [type |-> type, finish |-> finish] \in Frames
         /\ sent[id] \in Seq(Frames)
         /\ sent' \in [IDs -> Seq(Frames)]
         /\ sent'[id] = Append(sent[id], [type |-> type, finish |-> finish])
         /\ \A d \in IDs \ {id} : sent'[d] = sent[d]
  <1>1. [type |-> type, finish |-> finish] \in Frames
    BY DEF Frames
  <1>2. sent \in [IDs -> Seq(Frames)] /\ sent[id] \in Seq(Frames)
    BY DEF TypeOK
  <1>3. Append(sent[id], [type |-> type, finish |-> finish]) \in Seq(Frames)
    BY <1>1, <1>2
  <1> QED BY <1>1, <1>2, <1>3 DEF Begun

\* Headers are sent at any time.
LEMMA SendingHeaders ==
  ASSUME IInv, NEW id \in IDs, Begun(id, "Headers", FALSE)
  PROVE  /\ sent' \in [IDs -> Seq(Frames)] /\ \A d \in IDs \ {id} : sent'[d] = sent[d]
         /\ HasResponse(sent'[id]) <=> HasResponse(sent[id])
         /\ HasFinish(sent'[id]) <=> HasFinish(sent[id])
         /\ WellFormed(sent'[id])
  <1> DEFINE f == [type |-> "Headers", finish |-> FALSE]
  <1>1. /\ f \in Frames /\ sent[id] \in Seq(Frames) /\ sent' \in [IDs -> Seq(Frames)]
        /\ sent'[id] = Append(sent[id], f) /\ \A d \in IDs \ {id} : sent'[d] = sent[d]
    BY Sending DEF IInv
  <1>2. f.type = "Headers" /\ f.finish = FALSE
    OBVIOUS
  <1>3. WellFormed(sent[id])
    BY DEF IInv, Good
  <1>4. WellFormed(Append(sent[id], f))
    BY <1>1, <1>2, <1>3, AppendWellFormed
  <1> HIDE DEF f
  <1> QED BY <1>1, <1>2, <1>4, AppendHas

-----------------------------------------------------------------------------
(* The reader.                                                             *)

LEMMA CloseStreams ==
  ASSUME IInv, panicked = "no", NEW id \in IDs, state[id] # "absent", CloseStream(id),
         conn' = conn, last' = last, closing' \in {closing, NoID},
         benign' \in 0 .. MaxBenignErrors + 1,
         UNCHANGED <<wroteHeader, wroteResponse, pc, sent, waits, panicked>>
  PROVE  IInv'
  <1>1. header' = header \ {id} /\ state' = [state EXCEPT ![id] = "nil"]
    BY DEF CloseStream
  <1>2. TypeOK'
    BY <1>1 DEF IInv, TypeOK, NoStates
  <1>3. Good(id)'
    BY <1>1 DEF IInv, TypeOK, Good
  <1>4. NoID \notin IDs
    BY ServerAssumption DEF IDs, NoID
  <1>5. \A d \in IDs \ {id} : Same(d)
    BY <1>1, <1>4 DEF IInv, TypeOK, Same
  <1>6. last <= last'
    BY DEF IInv, TypeOK
  <1> QED BY <1>2, <1>3, <1>5, <1>6, OneStream

\* A Close begins to send the headers that are left.
LEMMA FlushBegins ==
  ASSUME IInv, panicked = "no", NEW id \in IDs, state[id] # "absent",
         Begun(id, "Headers", FALSE), header' = header \ {id},
         conn' \in {conn, "stuck"}, closing' \in {closing, id}, benign' = benign,
         UNCHANGED <<last, state, wroteHeader, wroteResponse, pc, waits, panicked>>
  PROVE  IInv'
  <1>1. /\ sent' \in [IDs -> Seq(Frames)] /\ \A d \in IDs \ {id} : sent'[d] = sent[d]
        /\ HasResponse(sent'[id]) <=> HasResponse(sent[id])
        /\ HasFinish(sent'[id]) <=> HasFinish(sent[id])
        /\ WellFormed(sent'[id])
    BY SendingHeaders
  <1>2. TypeOK'
    BY <1>1 DEF IInv, TypeOK
  <1>3. Good(id)'
    BY <1>1 DEF IInv, TypeOK, Good
  <1>4. \A d \in IDs \ {id} : Same(d)
    BY <1>1 DEF IInv, TypeOK, Same
  <1>5. last <= last'
    BY DEF IInv, TypeOK
  <1> QED BY <1>2, <1>3, <1>4, <1>5, OneStream

LEMMA BenignFact ==
  ASSUME TypeOK, Reading
  PROVE  benign + 1 \in 0 .. MaxBenignErrors + 1
  BY ServerAssumption DEF Reading, TypeOK

LEMMA RequestStep ==
  ASSUME IInv, panicked = "no", NEW id \in Requests, NEW finish \in BOOLEAN, NEW parses \in BOOLEAN,
         HandleRequest(id, finish, parses)
  PROVE  IInv'
  <1>1. CASE ~IsOdd(id) \/ StaleID(id)
    <2>1. TypeOK'
      BY <1>1, BenignFact DEF HandleRequest, Benign, IInv, TypeOK, sendVars
    <2> QED BY <1>1, <2>1, NoStream DEF HandleRequest, sendVars
  <1>2. CASE IsOdd(id) /\ ~StaleID(id)
    <2>1. id \in IDs /\ id \in Nat /\ id # 0 /\ last \in Nat
      BY <1>2, ServerAssumption DEF IDs, IInv, TypeOK
    <2>2. /\ last' = id /\ pc' = [pc EXCEPT ![id] = "start"]
          /\ state' = [state EXCEPT ![id] = IF finish THEN CloseThere("open") ELSE "open"]
          /\ UNCHANGED <<conn, benign, closing, header, wroteHeader, wroteResponse, sent, waits, panicked>>
      BY <1>2 DEF HandleRequest, Goto, sendVars
    <2>3. last < id
      BY <1>2, <2>1 DEF StaleID
    <2>4. pc[id] = "none"
      BY <2>1, <2>3 DEF IInv, Good
    <2>5. (IF finish THEN CloseThere("open") ELSE "open") \in StreamStates
      BY StateFacts DEF StreamStates
    <2>6. TypeOK'
      <3>1. state' \in [IDs -> StreamStates \cup NoStates] /\ pc' \in [IDs -> PCs] /\ last' \in Nat
        BY <2>1, <2>2, <2>5 DEF IInv, TypeOK, PCs
      <3> QED BY <2>2, <3>1 DEF IInv, TypeOK
    <2>7. Good(id)'
      <3>1. pc'[id] = "start" /\ state'[id] \in StreamStates /\ id <= last'
        BY <2>1, <2>2, <2>5 DEF IInv, TypeOK
      <3>2. state'[id] # "absent" /\ state'[id] # "nil"
        BY <3>1 DEF StreamStates
      <3>3. sent'[id] = <<>> /\ (id \in wroteResponse' <=> id \in wroteResponse)
            /\ (id \in wroteHeader' <=> id \in wroteHeader) /\ panicked' = panicked
        BY <2>1, <2>2, <2>4 DEF IInv, Good
      <3>4. id \notin wroteResponse
        BY <2>1, <2>4, EmptyWellFormed DEF IInv, Good
      <3>5. id \notin wroteHeader
        BY <2>1, <3>4 DEF IInv, Good
      <3> QED BY <3>1, <3>2, <3>3, <3>4, <3>5, EmptyWellFormed DEF Good
    <2>8. \A d \in IDs \ {id} : Same(d)
      BY <2>2 DEF IInv, TypeOK, Same
    <2>9. last <= last'
      BY <2>1, <2>2, <2>3
    <2> QED BY <2>1, <2>6, <2>7, <2>8, <2>9, OneStream
  <1> QED BY <1>1, <1>2

LEMMA HeadersStep ==
  ASSUME IInv, panicked = "no", NEW id \in Requests, HandleHeaders(id)
  PROVE  IInv'
  <1>1. /\ benign' \in {benign, benign + 1} /\ UNCHANGED <<conn, last, closing, state, handlerVars>>
        /\ \/ UNCHANGED <<header, panicked>>
           \/ header' = header /\ panicked' = "reader"
           \/ /\ header' = header \cup {id} /\ panicked' = panicked
              /\ Known(id) /\ state[id] # "nil"
    BY DEF HandleHeaders, Benign, Panic
  <1>2. benign' \in 0 .. MaxBenignErrors + 1
    BY <1>1, BenignFact DEF HandleHeaders, IInv, TypeOK
  <1>3. Known(id) => id \in IDs
    BY DEF Known
  <1>4. TypeOK'
    BY <1>1, <1>2, <1>3 DEF IInv, TypeOK, handlerVars, sendVars
  <1>5. \A d \in IDs : Good(d)'
    BY <1>1 DEF IInv, Good, handlerVars, sendVars, Known
  <1> QED BY <1>4, <1>5 DEF IInv

LEMMA ErrorStep ==
  ASSUME IInv, panicked = "no", NEW id \in Requests, NEW counted \in BOOLEAN, HandleError(id, counted)
  PROVE  IInv'
  <1>1. UNCHANGED <<conn, last, wroteHeader, wroteResponse, pc, waits, panicked>>
    BY DEF HandleError
  <1>2. CASE Known(id) /\ id \in header
    <2>1. id \in IDs /\ state[id] # "absent"
      BY <1>2 DEF Known
    <2> QED BY <1>1, <1>2, <2>1, FlushBegins DEF HandleError
  <1>3. CASE ~(Known(id) /\ id \in header)
    <2>1. /\ closing' = closing /\ sent' = sent
          /\ Reading /\ benign' \in {benign, benign + 1}
          /\ IF Known(id) THEN CloseStream(id) ELSE UNCHANGED <<state, header>>
      BY <1>3 DEF HandleError, Counted, Benign
    <2>2. benign' \in 0 .. MaxBenignErrors + 1
      BY <2>1, BenignFact DEF IInv, TypeOK
    <2>3. CASE Known(id)
      <3>1. id \in IDs /\ state[id] # "absent" /\ CloseStream(id)
        BY <2>1, <2>3 DEF Known
      <3> QED BY <1>1, <2>1, <2>2, <3>1, CloseStreams
    <2>4. CASE ~Known(id)
      <3>1. UNCHANGED <<state, header>>
        BY <2>1, <2>4
      <3>2. TypeOK'
        BY <1>1, <2>1, <2>2, <3>1 DEF IInv, TypeOK
      <3> QED BY <1>1, <2>1, <3>1, <3>2, NoStream
    <2> QED BY <2>3, <2>4
  <1> QED BY <1>2, <1>3

LEMMA ClosedStep ==
  ASSUME IInv, Flushing, panicked = "no", NEW counted \in BOOLEAN, StreamClosed(counted)
  PROVE  IInv'
  <1>1. /\ closing \in IDs /\ CloseStream(closing) /\ closing' = NoID
        /\ UNCHANGED <<conn, last, wroteHeader, wroteResponse, pc, sent, waits, panicked>>
        /\ benign' \in {benign, benign + 1} /\ (benign' = benign + 1 => counted)
    BY DEF StreamClosed, Counted, Benign, IInv, TypeOK, handlerVars, sendVars
  <1>2. state[closing] # "absent"
    BY <1>1 DEF IInv, Good
  <1>3. benign' \in 0 .. MaxBenignErrors + 1
    <2>1. NoID \notin IDs
      BY ServerAssumption DEF IDs, NoID
    <2>2. benign <= MaxBenignErrors
      BY <1>1, <2>1 DEF Flushing
    <2> QED BY <1>1, <2>2, ServerAssumption DEF IInv, TypeOK
  <1> QED BY <1>1, <1>2, <1>3, CloseStreams

LEMMA ReaderSteps ==
  ASSUME IInv, Flushing, panicked = "no", ReaderStep
  PROVE  IInv'
  <1>1. CASE HandleResponse \/ ProtocolError \/ \E id \in Requests : HandleClientData(id)
    <2>1. UNCHANGED <<last, closing, state, header, handlerVars, panicked>>
          /\ conn' \in {conn, "hung"} /\ benign' \in {benign, benign + 1, benign + 0}
          /\ (benign' = benign + 1 => Reading)
      BY <1>1 DEF HandleResponse, ProtocolError, HandleClientData, Benign
    <2>2. benign' \in 0 .. MaxBenignErrors + 1
      BY <2>1, BenignFact, ServerAssumption DEF IInv, TypeOK
    <2>3. TypeOK'
      BY <2>1, <2>2 DEF IInv, TypeOK, handlerVars, sendVars
    <2> QED BY <2>1, <2>3, NoStream DEF handlerVars, sendVars
  <1>2. CASE ReadOn
    <2>1. /\ UNCHANGED <<conn, last, closing, state, header, handlerVars>>
          /\ panicked' \in {"no", "reader"} /\ benign' \in 0 .. MaxBenignErrors + 1
      BY <1>2, ServerAssumption DEF ReadOn, Panic, Benign, IInv, TypeOK
    <2>2. TypeOK'
      BY <2>1 DEF IInv, TypeOK, handlerVars, sendVars
    <2> QED BY <2>1, <2>2, NoStream DEF handlerVars, sendVars
  <1> QED BY <1>1, <1>2, RequestStep, HeadersStep, ErrorStep, ClosedStep DEF ReaderStep

LEMMA CloseSteps ==
  ASSUME IInv, panicked = "no", CloseStep
  PROVE  IInv'
  <1>1. CASE CloseConn \/ CloseConnEnd \/ SenderFails
    <2>1. UNCHANGED <<last, benign, closing, state, header, handlerVars, panicked>>
          /\ conn' \in {"stopped", "closed", "failed"}
      BY <1>1 DEF CloseConn, CloseConnEnd, SenderFails
    <2>2. TypeOK'
      BY <2>1 DEF IInv, TypeOK, handlerVars, sendVars
    <2> QED BY <2>1, <2>2, NoStream DEF handlerVars, sendVars
  <1>2. ASSUME NEW id \in IDs, CloseConnStream(id) PROVE IInv'
    <2>1. state[id] # "absent"
          /\ UNCHANGED <<last, benign, closing, wroteHeader, wroteResponse, pc, waits, panicked>>
      BY <1>2 DEF CloseConnStream, Known
    <2>2. CASE id \in header
      BY <1>2, <2>1, <2>2, FlushBegins DEF CloseConnStream
    <2>3. CASE id \notin header
      BY <1>2, <2>1, <2>3, CloseStreams DEF CloseConnStream, IInv, TypeOK
    <2> QED BY <2>2, <2>3
  <1> QED BY <1>1, <1>2 DEF CloseStep

\* The end of a handler's wait.
LEMMA SendSteps ==
  ASSUME IInv, panicked = "no", NEW id \in IDs, SendStep(id)
  PROVE  IInv'
  <1>1. /\ UNCHANGED <<readerVars, state, header, wroteHeader, wroteResponse, pc, sent>>
        /\ waits' = waits \ {id} /\ panicked' \in {"no", "handler", "run"}
    BY DEF SendStep, Received, OutputClosed, Panic
  <1>2. TypeOK'
    BY <1>1 DEF IInv, TypeOK, readerVars
  <1> QED BY <1>1, <1>2, NoStream DEF readerVars

-----------------------------------------------------------------------------
(* The handler.                                                            *)

\* The handler's steps leave the reader alone, and the other streams.
LEMMA HandlerStream ==
  ASSUME IInv, panicked = "no", NEW id \in IDs, UNCHANGED readerVars,
         state' \in [IDs -> StreamStates \cup NoStates],
         \A d \in IDs \ {id} : state'[d] = state[d] /\ sent'[d] = sent[d],
         sent' \in [IDs -> Seq(Frames)], waits' \subseteq IDs,
         header' \ {id} = header \ {id}, wroteHeader' \ {id} = wroteHeader \ {id},
         wroteResponse' \ {id} = wroteResponse \ {id},
         NEW at \in PCs, pc' = [pc EXCEPT ![id] = at],
         panicked' \in {"no", "handler", "run"},
         Good(id)'
  PROVE  IInv'
  <1>1. TypeOK'
    BY DEF IInv, TypeOK, readerVars
  <1>2. \A d \in IDs \ {id} : Same(d)
    BY DEF IInv, TypeOK, Same, readerVars
  <1>3. last <= last'
    BY DEF IInv, TypeOK, readerVars
  <1> QED BY <1>1, <1>2, <1>3, OneStream

\* A panic leaves the streams as they are, but for the flag of WriteHeader.
LEMMA Panics ==
  ASSUME IInv, panicked = "no", NEW id \in IDs, UNCHANGED <<readerVars, state, header>>,
         UNCHANGED <<wroteResponse, sent, waits>>, wroteHeader' \ {id} = wroteHeader \ {id},
         pc' = pc \/ (pc[id] = "respond" /\ pc' = [pc EXCEPT ![id] = "flush"]),
         panicked' \in {"handler", "run"}
  PROVE  IInv'
  <1>1. TypeOK'
    BY DEF IInv, TypeOK, readerVars, PCs
  <1>2. \A d \in IDs : Good(d)'
    <2> SUFFICES ASSUME NEW d \in IDs PROVE Good(d)'
      OBVIOUS
    <2>1. Good(d) /\ last' = last /\ closing' = closing
      BY DEF IInv, readerVars
    <2> QED BY <2>1 DEF IInv, TypeOK, Good
  <1> QED BY <1>1, <1>2 DEF IInv

\* What Respond does when it does not panic.
LEMMA Responding ==
  ASSUME IInv, panicked = "no", NEW id \in IDs, NEW bodyless \in BOOLEAN,
         pc[id] \in {"handler", "respond"}, bodyless => pc[id] = "handler",
         Respond(id, bodyless), panicked' = "no"
  PROVE  /\ state' \in [IDs -> StreamStates \cup NoStates] /\ sent' \in [IDs -> Seq(Frames)]
         /\ \A d \in IDs \ {id} : state'[d] = state[d] /\ sent'[d] = sent[d]
         /\ header' \ {id} = header \ {id} /\ (header' = header \/ header' = header \ {id})
         /\ wroteResponse' = wroteResponse \cup {id}
         /\ state'[id] = "absent" <=> state[id] = "absent"
         /\ state'[id] = "nil" <=> state[id] = "nil"
         /\ HasResponse(sent'[id]) /\ WellFormed(sent'[id])
         /\ HasFinish(sent'[id]) => state'[id] = "nil" \/ ClosedHere(state'[id])
         /\ pc[id] = "respond" => ~HasFinish(sent'[id])
  <1>1. Good(id) /\ TypeOK /\ state[id] # "absent"
    BY DEF IInv, Good
  <1>2. CASE id \in wroteResponse
    <2>1. UNCHANGED <<state, header, wroteResponse, sent>>
      BY <1>2 DEF Respond, sendVars
    <2> QED BY <1>1, <1>2, <2>1 DEF TypeOK, Good
  <1>3. CASE id \notin wroteResponse
    <2> DEFINE f == [type |-> "Response", finish |-> bodyless]
               st == IF bodyless THEN FinishHere(state[id]) ELSE state[id]
    <2>1. /\ wroteResponse' = wroteResponse \cup {id} /\ header' = header \ {id}
          /\ state[id] # "nil" /\ state' = [state EXCEPT ![id] = st]
          /\ Begun(id, "Response", bodyless)
      BY <1>1, <1>3 DEF Respond, Panic, TypeOK, Send
    <2>2. /\ f \in Frames /\ sent[id] \in Seq(Frames) /\ sent' \in [IDs -> Seq(Frames)]
          /\ sent'[id] = Append(sent[id], f) /\ \A d \in IDs \ {id} : sent'[d] = sent[d]
      BY <1>1, <2>1, Sending
    <2>3. f.type = "Response" /\ f.finish = bodyless
      OBVIOUS
    <2>4. ~HasResponse(sent[id]) /\ ~HasFinish(sent[id]) /\ WellFormed(sent[id])
      BY <1>1, <1>3 DEF Good
    <2>5. state[id] \in StreamStates
      BY <1>1, <2>1 DEF TypeOK, NoStates
    <2>6. st \in StreamStates /\ (bodyless => ClosedHere(st))
      BY <2>5, StateFacts DEF FinishHere
    <2>7. state' \in [IDs -> StreamStates \cup NoStates] /\ state'[id] = st
          /\ \A d \in IDs \ {id} : state'[d] = state[d]
      <3> HIDE DEF st
      <3> QED BY <1>1, <2>1, <2>6 DEF TypeOK
    <2>8. st # "absent" /\ st # "nil"
      <3> HIDE DEF st
      <3> QED BY <2>6 DEF StreamStates
    <2> HIDE DEF f, st
    <2>9. WellFormed(sent'[id]) /\ HasResponse(sent'[id]) /\ (HasFinish(sent'[id]) => bodyless)
      BY <2>2, <2>3, <2>4, AppendWellFormed, AppendHas
    <2> QED BY <1>1, <2>1, <2>2, <2>6, <2>7, <2>8, <2>9
  <1> QED BY <1>2, <1>3

LEMMA ResponseSteps ==
  ASSUME IInv, panicked = "no", NEW id \in IDs, waits' \subseteq IDs, NEW bodyless \in BOOLEAN,
         WriteResponse(id, bodyless) \/ WriteHeader(id, bodyless)
  PROVE  IInv'
  <1>1. /\ pc[id] = "handler" /\ Respond(id, bodyless) /\ UNCHANGED <<readerVars, pc>>
        /\ wroteHeader' = wroteHeader \/ wroteHeader' = wroteHeader \cup {id}
    BY DEF WriteResponse, WriteHeader, InHandler
  <1>2. wroteHeader' \ {id} = wroteHeader \ {id}
    BY <1>1
  <1>3. panicked' \in {"no", "handler"}
    BY <1>1 DEF Respond, Panic
  <1>4. CASE panicked' = "handler"
    <2>1. UNCHANGED <<state, header, wroteResponse, sent, waits>>
      BY <1>1, <1>4 DEF Respond, sendVars
    <2> QED BY <1>1, <1>2, <1>4, <2>1, Panics
  <1>5. CASE panicked' = "no"
    <2>1. /\ state' \in [IDs -> StreamStates \cup NoStates] /\ sent' \in [IDs -> Seq(Frames)]
          /\ \A d \in IDs \ {id} : state'[d] = state[d] /\ sent'[d] = sent[d]
          /\ header' \ {id} = header \ {id} /\ (header' = header \/ header' = header \ {id})
          /\ wroteResponse' = wroteResponse \cup {id}
          /\ state'[id] = "absent" <=> state[id] = "absent"
          /\ state'[id] = "nil" <=> state[id] = "nil"
          /\ HasResponse(sent'[id]) /\ WellFormed(sent'[id])
          /\ HasFinish(sent'[id]) => state'[id] = "nil" \/ ClosedHere(state'[id])
      BY <1>1, <1>5, Responding
    <2>2. pc' = [pc EXCEPT ![id] = "handler"] /\ pc'[id] = "handler"
      BY <1>1 DEF IInv, TypeOK
    <2>3. Good(id)'
      BY <1>1, <2>1, <2>2 DEF IInv, Good, readerVars
    <2>4. wroteResponse' \ {id} = wroteResponse \ {id}
      BY <2>1
    <2> QED BY <1>1, <1>2, <1>5, <2>1, <2>2, <2>3, <2>4, HandlerStream DEF PCs
  <1> QED BY <1>3, <1>4, <1>5

LEMMA StartSteps ==
  ASSUME IInv, panicked = "no", NEW id \in IDs, waits' \subseteq IDs, RunStart(id) \/ SetHeader(id) \/ WriteBegin(id)
  PROVE  IInv'
  <1>1. Good(id) /\ TypeOK
    BY DEF IInv
  <1>2. CASE RunStart(id) \/ SetHeader(id)
    <2>1. CASE state[id] = "nil"
      <3>1. panicked' \in {"handler", "run"} /\ UNCHANGED <<readerVars, state, header, handlerVars>>
        BY <1>2, <2>1 DEF RunStart, SetHeader, Panic, handlerVars
      <3> QED BY <3>1, Panics DEF handlerVars, sendVars
    <2>2. CASE state[id] # "nil"
      <3>1. /\ UNCHANGED <<readerVars, state, wroteHeader, wroteResponse, sent, panicked>>
            /\ pc[id] \in {"start", "handler"} /\ pc' = [pc EXCEPT ![id] = "handler"]
            /\ header' = header \/ header' = header \cup {id}
        <4>1. CASE RunStart(id)
          BY <2>2, <4>1 DEF RunStart, Goto, sendVars
        <4>2. CASE SetHeader(id)
          <5>1. pc[id] = "handler" /\ pc' = pc /\ pc \in [IDs -> PCs]
            BY <1>1, <4>2 DEF SetHeader, InHandler, handlerVars, TypeOK
          <5> QED BY <2>2, <4>2, <5>1 DEF SetHeader, handlerVars, sendVars
        <4> QED BY <1>2, <4>1, <4>2
      <3>2. pc'[id] = "handler" /\ last' = last /\ closing' = closing
        BY <1>1, <3>1 DEF TypeOK, readerVars
      <3>3. Good(id)'
        BY <1>1, <2>2, <3>1, <3>2 DEF Good
      <3>4. header' \ {id} = header \ {id}
        BY <3>1
      <3> QED BY <1>1, <3>1, <3>3, <3>4, HandlerStream DEF PCs, TypeOK
    <2> QED BY <2>1, <2>2
  <1>3. CASE WriteBegin(id)
    <2>1. /\ UNCHANGED <<readerVars, state, header, wroteHeader, wroteResponse, sent, panicked>>
          /\ pc[id] = "handler" /\ pc' = [pc EXCEPT ![id] = "respond"]
          /\ state[id] # "nil" /\ ~ClosedHere(state[id])
      BY <1>3 DEF WriteBegin, InHandler, Goto, sendVars
    <2>2. pc'[id] = "respond" /\ last' = last /\ closing' = closing
      BY <1>1, <2>1 DEF TypeOK, readerVars
    <2>3. Good(id)'
      BY <1>1, <2>1, <2>2 DEF Good
    <2> QED BY <1>1, <2>1, <2>3, HandlerStream DEF PCs, TypeOK
  <1> QED BY <1>2, <1>3

LEMMA RespondStep ==
  ASSUME IInv, panicked = "no", NEW id \in IDs, waits' \subseteq IDs, WriteRespond(id)
  PROVE  IInv'
  <1>1. Good(id) /\ TypeOK
    BY DEF IInv
  <1>2. /\ pc[id] = "respond" /\ pc' = [pc EXCEPT ![id] = "flush"] /\ UNCHANGED readerVars
        /\ pc'[id] = "flush" /\ last' = last /\ closing' = closing
    BY <1>1 DEF WriteRespond, Goto, TypeOK, readerVars
  <1>3. CASE id \in wroteHeader
    <2>1. UNCHANGED <<state, header, wroteHeader, wroteResponse, sent, panicked>>
      BY <1>3 DEF WriteRespond, sendVars
    <2>2. Good(id)'
      BY <1>1, <1>2, <1>3, <2>1 DEF Good
    <2> QED BY <1>1, <1>2, <2>1, <2>2, HandlerStream DEF PCs, TypeOK
  <1>4. CASE id \notin wroteHeader
    <2>1. wroteHeader' = wroteHeader \cup {id} /\ Respond(id, FALSE)
      BY <1>4 DEF WriteRespond
    <2>2. panicked' \in {"no", "handler"} /\ wroteHeader' \ {id} = wroteHeader \ {id}
      BY <2>1 DEF Respond, Panic
    <2>3. CASE panicked' = "handler"
      <3>1. UNCHANGED <<state, header, wroteResponse, sent, waits>>
        BY <2>1, <2>3 DEF Respond, sendVars
      <3> QED BY <1>2, <2>2, <2>3, <3>1, Panics
    <2>4. CASE panicked' = "no"
      <3>1. /\ state' \in [IDs -> StreamStates \cup NoStates] /\ sent' \in [IDs -> Seq(Frames)]
            /\ \A d \in IDs \ {id} : state'[d] = state[d] /\ sent'[d] = sent[d]
            /\ header' \ {id} = header \ {id} /\ (header' = header \/ header' = header \ {id})
            /\ wroteResponse' = wroteResponse \cup {id}
            /\ state'[id] = "absent" <=> state[id] = "absent"
            /\ state'[id] = "nil" <=> state[id] = "nil"
            /\ HasResponse(sent'[id]) /\ WellFormed(sent'[id])
            /\ ~HasFinish(sent'[id])
        BY <1>2, <2>1, <2>4, Responding
      <3>2. Good(id)'
        BY <1>1, <1>2, <2>1, <3>1 DEF Good
      <3>3. wroteResponse' \ {id} = wroteResponse \ {id}
        BY <3>1
      <3> QED BY <1>2, <2>2, <2>4, <3>1, <3>2, <3>3, HandlerStream DEF PCs
    <2> QED BY <2>2, <2>3, <2>4
  <1> QED BY <1>3, <1>4

LEMMA FlushStep ==
  ASSUME IInv, panicked = "no", NEW id \in IDs, waits' \subseteq IDs, WriteFlush(id)
  PROVE  IInv'
  <1>1. Good(id) /\ TypeOK
    BY DEF IInv
  <1>2. /\ pc[id] = "flush" /\ pc' = [pc EXCEPT ![id] = "data"] /\ header' = header \ {id}
        /\ UNCHANGED <<readerVars, state, wroteHeader, wroteResponse, panicked>>
        /\ pc'[id] = "data" /\ last' = last /\ closing' = closing
    BY <1>1 DEF WriteFlush, Goto, TypeOK, readerVars
  <1>3. /\ sent' \in [IDs -> Seq(Frames)] /\ \A d \in IDs \ {id} : sent'[d] = sent[d]
        /\ HasResponse(sent'[id]) <=> HasResponse(sent[id])
        /\ HasFinish(sent'[id]) <=> HasFinish(sent[id])
        /\ WellFormed(sent'[id])
    <2>1. CASE id \in header
      BY <2>1, SendingHeaders DEF WriteFlush, Send
    <2>2. CASE id \notin header
      BY <1>1, <2>2 DEF WriteFlush, TypeOK, Good, sendVars
    <2> QED BY <2>1, <2>2
  <1>4. Good(id)'
    BY <1>1, <1>2, <1>3 DEF Good
  <1>5. header' \ {id} = header \ {id}
    BY <1>2
  <1> QED BY <1>1, <1>2, <1>3, <1>4, <1>5, HandlerStream DEF PCs, TypeOK

LEMMA DataStep ==
  ASSUME IInv, panicked = "no", NEW id \in IDs, waits' \subseteq IDs, WriteData(id)
  PROVE  IInv'
  <1>1. Good(id) /\ TypeOK
    BY DEF IInv
  <1>2. /\ pc[id] = "data" /\ pc' = [pc EXCEPT ![id] = "handler"]
        /\ UNCHANGED <<readerVars, state, header, wroteHeader, wroteResponse, panicked>>
        /\ pc'[id] = "handler" /\ last' = last /\ closing' = closing
    BY <1>1 DEF WriteData, Goto, TypeOK, readerVars
  <1>3. HasResponse(sent[id]) /\ ~HasFinish(sent[id]) /\ WellFormed(sent[id])
    BY <1>1, <1>2 DEF Good
  <1>4. /\ sent' \in [IDs -> Seq(Frames)] /\ \A d \in IDs \ {id} : sent'[d] = sent[d]
        /\ HasResponse(sent'[id]) /\ ~HasFinish(sent'[id]) /\ WellFormed(sent'[id])
    <2>1. CASE sent' = sent
      BY <1>1, <1>3, <2>1 DEF TypeOK
    <2>2. CASE Begun(id, "Data", FALSE)
      <3> DEFINE f == [type |-> "Data", finish |-> FALSE]
      <3>1. /\ f \in Frames /\ sent[id] \in Seq(Frames) /\ sent' \in [IDs -> Seq(Frames)]
            /\ sent'[id] = Append(sent[id], f) /\ \A d \in IDs \ {id} : sent'[d] = sent[d]
        BY <1>1, <2>2, Sending
      <3>2. f.type = "Data" /\ f.finish = FALSE
        OBVIOUS
      <3> HIDE DEF f
      <3> QED BY <1>3, <3>1, <3>2, AppendWellFormed, AppendHas
    <2> QED BY <2>1, <2>2 DEF WriteData, Send, sendVars
  <1>5. Good(id)'
    BY <1>1, <1>2, <1>4 DEF Good
  <1> QED BY <1>1, <1>2, <1>4, <1>5, HandlerStream DEF PCs, TypeOK

LEMMA ReturnStep ==
  ASSUME IInv, panicked = "no", NEW id \in IDs, waits' \subseteq IDs, Return(id)
  PROVE  IInv'
  <1>1. Good(id) /\ TypeOK
    BY DEF IInv
  <1>2. pc[id] = "handler" /\ UNCHANGED <<readerVars, state, wroteHeader, wroteResponse>>
        /\ last' = last /\ closing' = closing
    BY DEF Return, readerVars
  <1>3. CASE state[id] = "nil"
    <2>1. panicked' = "run" /\ UNCHANGED <<header, pc, sent, waits>>
      BY <1>3 DEF Return, Panic, sendVars
    <2> QED BY <1>2, <2>1, Panics
  <1>4. CASE state[id] # "nil"
    <2>1. pc' = [pc EXCEPT ![id] = "finish"] /\ pc'[id] = "finish" /\ panicked' = panicked
      BY <1>1, <1>4 DEF Return, Goto, TypeOK
    <2>2. CASE UNCHANGED <<header, sent>>
      <3>1. Good(id)'
        BY <1>1, <1>2, <1>4, <2>1, <2>2 DEF Good
      <3> QED BY <1>1, <1>2, <2>1, <2>2, <3>1, HandlerStream DEF PCs, TypeOK
    <2>3. CASE ~UNCHANGED <<header, sent>>
      <3>1. /\ OpenHere(state[id])
            /\ \/ id \in wroteResponse /\ Begun(id, "Data", TRUE) /\ header' = header
               \/ /\ id \notin wroteResponse /\ Begun(id, "Response", TRUE)
                  /\ header' = header \cup {id}
        BY <1>4, <2>3 DEF Return, Send, sendVars
      <3>2. ~HasFinish(sent[id]) /\ WellFormed(sent[id])
            /\ (id \in wroteResponse <=> HasResponse(sent[id]))
        BY <1>1, <1>2, <1>4, <3>1 DEF Good, OpenHere
      <3>3. PICK type \in {"Response", "Data"} :
              Begun(id, type, TRUE) /\ (type = "Data" <=> id \in wroteResponse)
        BY <3>1
      <3> DEFINE f == [type |-> type, finish |-> TRUE]
      <3>4. /\ f \in Frames /\ sent[id] \in Seq(Frames) /\ sent' \in [IDs -> Seq(Frames)]
            /\ sent'[id] = Append(sent[id], f) /\ \A d \in IDs \ {id} : sent'[d] = sent[d]
        BY <1>1, <3>3, Sending
      <3>5. f.type = type /\ f.finish = TRUE
        OBVIOUS
      <3>6. HasResponse(sent'[id]) /\ WellFormed(sent'[id])
        <4> HIDE DEF f
        <4> QED BY <3>2, <3>3, <3>4, <3>5, AppendWellFormed, AppendHas
      <3>7. header' = header \/ header' = header \cup {id}
        BY <3>1
      <3>8. Good(id)'
        BY <1>1, <1>2, <1>4, <2>1, <3>6, <3>7 DEF Good
      <3>9. header' \ {id} = header \ {id}
        BY <3>7
      <3> QED BY <1>1, <1>2, <2>1, <3>4, <3>8, <3>9, HandlerStream DEF PCs, TypeOK
    <2> QED BY <2>2, <2>3
  <1> QED BY <1>3, <1>4

LEMMA FinishStep ==
  ASSUME IInv, panicked = "no", NEW id \in IDs, waits' \subseteq IDs, Finish(id)
  PROVE  IInv'
  <1>1. Good(id) /\ TypeOK /\ pc[id] = "finish"
    BY DEF IInv, Finish
  <1>2. UNCHANGED <<readerVars, header, wroteHeader, wroteResponse, sent, waits>>
        /\ last' = last /\ closing' = closing
    BY DEF Finish, readerVars, sendVars
  <1>3. CASE state[id] = "nil"
    <2>1. panicked' = "run" /\ UNCHANGED <<state, pc>>
      BY <1>3 DEF Finish, Panic
    <2> QED BY <1>2, <2>1, Panics
  <1>4. CASE state[id] # "nil"
    <2>1. /\ state' = [state EXCEPT ![id] = CloseHere(state[id])]
          /\ pc' = [pc EXCEPT ![id] = "done"] /\ pc'[id] = "done" /\ panicked' = panicked
      BY <1>1, <1>4 DEF Finish, Goto, TypeOK
    <2>2. state[id] \in StreamStates
      BY <1>1, <1>4 DEF Good, TypeOK, NoStates
    <2>3. CloseHere(state[id]) \in StreamStates /\ ClosedHere(CloseHere(state[id]))
      BY <2>2, StateFacts
    <2>4. /\ state' \in [IDs -> StreamStates \cup NoStates] /\ state'[id] = CloseHere(state[id])
          /\ \A d \in IDs \ {id} : state'[d] = state[d]
      BY <1>1, <2>1, <2>3 DEF TypeOK
    <2>5. state'[id] # "absent" /\ state'[id] # "nil"
      BY <2>3, <2>4 DEF StreamStates
    <2>6. Good(id)'
      BY <1>1, <1>2, <2>1, <2>3, <2>4, <2>5 DEF Good
    <2> QED BY <1>1, <1>2, <2>1, <2>4, <2>6, HandlerStream DEF PCs, TypeOK
  <1> QED BY <1>3, <1>4

\* The handler's Close of its own stream.
LEMMA OwnClose ==
  ASSUME IInv, panicked = "no", NEW id \in IDs, waits' \subseteq IDs, CloseBegin(id) \/ CloseEnd(id)
  PROVE  IInv'
  <1>1. Good(id) /\ TypeOK
    BY DEF IInv
  <1>2. CASE CloseBegin(id)
    <2>1. /\ pc[id] = "handler" /\ pc' = [pc EXCEPT ![id] = "close"] /\ header' = header \ {id}
          /\ UNCHANGED <<readerVars, state, wroteHeader, wroteResponse, panicked>>
          /\ pc'[id] = "close" /\ last' = last /\ closing' = closing
      BY <1>1, <1>2 DEF CloseBegin, InHandler, Goto, TypeOK, readerVars
    <2>2. /\ sent' \in [IDs -> Seq(Frames)] /\ \A d \in IDs \ {id} : sent'[d] = sent[d]
          /\ HasResponse(sent'[id]) <=> HasResponse(sent[id])
          /\ HasFinish(sent'[id]) <=> HasFinish(sent[id])
          /\ WellFormed(sent'[id])
      <3>1. CASE id \in header
        BY <1>2, <3>1, SendingHeaders DEF CloseBegin, Send
      <3>2. CASE id \notin header
        BY <1>1, <1>2, <3>2 DEF CloseBegin, TypeOK, Good, sendVars
      <3> QED BY <3>1, <3>2
    <2>3. Good(id)'
      BY <1>1, <2>1, <2>2 DEF Good
    <2>4. header' \ {id} = header \ {id}
      BY <2>1
    <2> QED BY <1>1, <2>1, <2>2, <2>3, <2>4, HandlerStream DEF PCs, TypeOK
  <1>3. CASE CloseEnd(id)
    <2>1. /\ pc[id] = "close" /\ pc' = [pc EXCEPT ![id] = "handler"] /\ header' = header \ {id}
          /\ state' = [state EXCEPT ![id] = "nil"]
          /\ UNCHANGED <<readerVars, wroteHeader, wroteResponse, sent, panicked>>
          /\ pc'[id] = "handler" /\ last' = last /\ closing' = closing
      BY <1>1, <1>3 DEF CloseEnd, CloseStream, Goto, TypeOK, readerVars, sendVars
    <2>2. /\ state' \in [IDs -> StreamStates \cup NoStates] /\ state'[id] = "nil"
          /\ \A d \in IDs \ {id} : state'[d] = state[d]
      BY <1>1, <2>1 DEF TypeOK, NoStates
    <2>3. Good(id)'
      BY <1>1, <2>1, <2>2 DEF Good
    <2>4. header' \ {id} = header \ {id}
      BY <2>1
    <2> QED BY <1>1, <2>1, <2>2, <2>3, <2>4, HandlerStream DEF PCs, TypeOK
  <1> QED BY <1>2, <1>3

LEMMA WaitsTyped ==
  ASSUME IInv, NEW id \in IDs, HandlerStep(id)
  PROVE  waits' \subseteq IDs
  BY DEF HandlerStep, RunStart, SetHeader, WriteResponse, WriteHeader, WriteBegin, WriteRespond,
     WriteFlush, WriteData, CloseBegin, CloseEnd, Return, Finish, Respond, Send, handlerVars,
     sendVars, IInv, TypeOK

-----------------------------------------------------------------------------
(* The theorems.                                                           *)

LEMMA Initially == Init => IInv
  <1> SUFFICES ASSUME Init PROVE IInv
    OBVIOUS
  <1>1. TypeOK
    <2>1. <<>> \in Seq(Frames)
      OBVIOUS
    <2> QED BY <2>1, ServerAssumption DEF Init, TypeOK, NoStates, PCs
  <1>2. \A id \in IDs : Good(id)
    <2>1. \A id \in IDs : closing # id
      BY ServerAssumption DEF Init, IDs, NoID
    <2>2. ASSUME NEW id \in IDs PROVE Good(id)
      BY <2>1, <2>2, EmptyWellFormed DEF Init, Good
    <2> QED BY <2>2
  <1> QED BY <1>1, <1>2 DEF IInv

LEMMA Preserved == IInv /\ Flushing /\ [Next]_vars => IInv'
  <1> SUFFICES ASSUME IInv, Flushing, [Next]_vars PROVE IInv'
    OBVIOUS
  <1>1. CASE Next
    <2>1. panicked = "no"
      BY <1>1 DEF Next
    <2>2. ASSUME NEW id \in IDs, HandlerStep(id) PROVE IInv'
      BY <2>1, <2>2, WaitsTyped, StartSteps, ResponseSteps, RespondStep, FlushStep, DataStep,
         OwnClose, ReturnStep, FinishStep DEF HandlerStep
    <2> QED BY <1>1, <2>1, <2>2, ReaderSteps, CloseSteps, SendSteps DEF Next
  <1>2. CASE UNCHANGED vars
    BY <1>2 DEF vars, readerVars, handlerVars, sendVars, IInv, TypeOK, Good
  <1> QED BY <1>1, <1>2

\* Only the reader changes benign and closing, and only CloseConn stops.
LEMMA FlushingKept == TypeOK /\ Flushing /\ [Next]_vars => Flushing'
  <1> SUFFICES ASSUME Flushing, [Next]_vars PROVE Flushing'
    OBVIOUS
  <1>1. CASE ReaderStep
    BY <1>1 DEF ReaderStep, HandleResponse, ProtocolError, ReadOn, StreamClosed, HandleClientData,
       HandleHeaders, HandleError, HandleRequest, Reading, Flushing, Stopped, Counted, Benign
  <1>2. CASE CloseStep
    BY <1>2 DEF CloseStep, CloseConn, SenderFails, CloseConnEnd, CloseConnStream, Receiving,
       Flushing, Stopped
  <1>3. ASSUME NEW id \in IDs, HandlerStep(id) \/ SendStep(id) PROVE UNCHANGED readerVars
    BY <1>3 DEF HandlerStep, RunStart, SetHeader, WriteResponse, WriteHeader, WriteBegin,
       WriteRespond, WriteFlush, WriteData, CloseBegin, CloseEnd, Return, Finish, SendStep,
       Received, OutputClosed
  <1> QED BY <1>1, <1>2, <1>3 DEF Next, Flushing, Stopped, vars, readerVars

LEMMA Invariant == Spec => [](IInv /\ Flushing)
  <1>1. Init => Flushing
    BY DEF Init, Flushing
  <1>2. IInv => TypeOK
    BY DEF IInv
  <1> QED BY <1>1, <1>2, Initially, Preserved, FlushingKept, PTL DEF Spec

\* What the two flags of the writer say of the frames sent, and that the
\* benign errors overshoot their limit by one at most (server_stream.go
\* 42-92, 165-248; conn.go 724).
THEOREM Invariance == Spec => []ServerInv
  BY Parts, Invariant, PTL

\* A stream carries one Response, Data after it, and nothing but Headers
\* after FINISH, for any number of streams and any length of the answers.
THEOREM AnswersAreWellFormed == Spec => []ResponseGrammar
  BY Parts, Invariant, PTL

\* A stream on which FINISH was sent is closed at this end, so that Write and
\* Run begin no send of Data there; Headers may follow.
THEOREM FinishClosesHere == Spec => []FinishCloses
  BY Parts, Invariant, PTL

\* A handler is started once for each request, and the IDs go up.
THEOREM HandlersStartInOrder == Spec => RequestsInOrder
  <1> DEFINE InOrder == \A id \in IDs : pc[id] # "start" /\ pc'[id] = "start" =>
                          \A other \in IDs : pc[other] # "none" => other < id
  <1>1. ASSUME IInv, Next PROVE InOrder
    <2>1. ASSUME NEW id \in Requests, NEW finish \in BOOLEAN, NEW parses \in BOOLEAN,
                 HandleRequest(id, finish, parses)
          PROVE  InOrder
      <3>1. CASE ~IsOdd(id) \/ StaleID(id)
        BY <2>1, <3>1 DEF HandleRequest
      <3>2. CASE IsOdd(id) /\ ~StaleID(id)
        <4>1. id \in IDs /\ id \in Nat /\ IDs \subseteq Nat \ {0} /\ last \in Nat
          BY <1>1, <3>2, ServerAssumption DEF IDs, IInv, TypeOK
        <4>2. last < id \/ last = 0
          BY <3>2, <4>1 DEF StaleID
        <4>3. \A d \in IDs : pc[d] # "none" => d < id
          BY <1>1, <4>1, <4>2 DEF IInv, Good
        <4>4. \A d \in IDs : pc'[d] = "start" /\ pc[d] # "start" => d = id
          BY <1>1, <2>1, <3>2 DEF HandleRequest, Goto, IInv, TypeOK
        <4> QED BY <4>3, <4>4
      <3> QED BY <3>1, <3>2
    <2>2. ASSUME NEW id \in IDs, HandlerStep(id) PROVE InOrder
      <3>1. \A d \in IDs : pc'[d] = "start" => pc[d] = "start"
        BY <1>1, <2>2 DEF HandlerStep, RunStart, SetHeader, WriteResponse, WriteHeader, WriteBegin,
           WriteRespond, WriteFlush, WriteData, CloseBegin, CloseEnd, Return, Finish, Goto,
           handlerVars, IInv, TypeOK
      <3> QED BY <3>1
    <2>3. ASSUME ReaderStep \/ CloseStep,
                 \A id \in Requests : \A finish, parses \in BOOLEAN : ~HandleRequest(id, finish, parses)
          PROVE  InOrder
      <3>1. pc' = pc
        BY <2>3 DEF ReaderStep, CloseStep, HandleResponse, ProtocolError, HandleClientData,
           HandleHeaders, ReadOn, HandleError, StreamClosed, CloseConn, SenderFails, CloseConnEnd,
           CloseConnStream, handlerVars
      <3> QED BY <3>1
    <2>4. ASSUME NEW id \in IDs, SendStep(id) PROVE InOrder
      BY <2>4 DEF SendStep, Received, OutputClosed
    <2> QED BY <1>1, <2>1, <2>2, <2>3, <2>4 DEF Next
  <1>2. IInv /\ [Next]_vars => [InOrder]_vars
    BY <1>1
  <1> QED BY <1>2, Invariant, PTL DEF Spec, RequestsInOrder

\* A stream that was closed by an Error frame or by Close sends nothing more.
THEOREM ClosedStreamsAreSilent == Spec => ClosedStreamsSilent
  <1> DEFINE Silent == \A id \in IDs : state[id] = "nil" => state'[id] = "nil" /\ sent'[id] = sent[id]
  <1>1. ASSUME IInv, Next PROVE Silent
    <2> SUFFICES ASSUME NEW d \in IDs, state[d] = "nil" PROVE state'[d] = "nil" /\ sent'[d] = sent[d]
      OBVIOUS
    <2>1. /\ TypeOK /\ Good(d) /\ d \notin header /\ pc[d] # "none" /\ d <= last
          /\ last \in Nat /\ d \in Nat \ {0}
      BY <1>1, ServerAssumption DEF IInv, Good, IDs, TypeOK
    <2>2. ASSUME NEW id \in IDs, NEW type, NEW finish, Begun(id, type, finish), id # d
          PROVE  sent'[d] = sent[d]
      BY <2>1, <2>2 DEF Begun, TypeOK
    <2>3. ASSUME NEW id \in IDs, CloseStream(id) PROVE state'[d] = "nil"
      BY <2>1, <2>3 DEF CloseStream, TypeOK
    <2>4. ASSUME NEW id \in IDs, NEW bodyless \in BOOLEAN, Respond(id, bodyless)
          PROVE  state'[d] = "nil" /\ sent'[d] = sent[d]
      <3>1. CASE UNCHANGED <<state, sent>>
        BY <2>1, <3>1
      <3>2. CASE ~UNCHANGED <<state, sent>>
        <4>1. id # d /\ Begun(id, "Response", bodyless) /\ \E st : state' = [state EXCEPT ![id] = st]
          BY <2>4, <3>2 DEF Respond, Send, sendVars
        <4> QED BY <2>1, <2>2, <4>1 DEF TypeOK
      <3> QED BY <3>1, <3>2
    <2>5. ASSUME ReaderStep PROVE state'[d] = "nil" /\ sent'[d] = sent[d]
      <3>1. ASSUME NEW id \in Requests, NEW finish \in BOOLEAN, NEW parses \in BOOLEAN,
                   HandleRequest(id, finish, parses)
            PROVE  state'[d] = "nil" /\ sent'[d] = sent[d]
        <4>1. CASE id = d
          BY <2>1, <3>1, <4>1 DEF HandleRequest, StaleID, sendVars
        <4>2. CASE id # d
          BY <2>1, <3>1, <4>2 DEF HandleRequest, TypeOK, sendVars
        <4> QED BY <4>1, <4>2
      <3>2. ASSUME NEW id \in Requests, NEW counted \in BOOLEAN, HandleError(id, counted)
            PROVE  state'[d] = "nil" /\ sent'[d] = sent[d]
        BY <2>1, <2>2, <2>3, <3>2 DEF HandleError, Known
      <3>3. ASSUME NEW counted \in BOOLEAN, StreamClosed(counted)
            PROVE  state'[d] = "nil" /\ sent'[d] = sent[d]
        BY <2>1, <2>3, <3>3 DEF StreamClosed, TypeOK, handlerVars, sendVars
      <3> QED BY <2>1, <2>5, <3>1, <3>2, <3>3
             DEF ReaderStep, HandleResponse, ProtocolError, HandleClientData, HandleHeaders,
                 ReadOn, handlerVars, sendVars
    <2>6. ASSUME CloseStep PROVE state'[d] = "nil" /\ sent'[d] = sent[d]
      BY <2>1, <2>2, <2>3, <2>6
         DEF CloseStep, CloseConn, SenderFails, CloseConnEnd, CloseConnStream, handlerVars, sendVars
    <2>7. ASSUME NEW id \in IDs, HandlerStep(id) PROVE state'[d] = "nil" /\ sent'[d] = sent[d]
      <3>1. CASE RunStart(id) \/ SetHeader(id) \/ WriteBegin(id)
        BY <2>1, <3>1 DEF RunStart, SetHeader, WriteBegin, handlerVars, sendVars
      <3>2. ASSUME NEW bodyless \in BOOLEAN, WriteResponse(id, bodyless) \/ WriteHeader(id, bodyless)
            PROVE  state'[d] = "nil" /\ sent'[d] = sent[d]
        BY <2>4, <3>2 DEF WriteResponse, WriteHeader
      <3>3. CASE WriteRespond(id)
        BY <2>1, <2>4, <3>3 DEF WriteRespond, sendVars
      <3>4. CASE WriteFlush(id) \/ WriteData(id)
        BY <2>1, <2>2, <3>4 DEF WriteFlush, WriteData, HasOutput, Send, sendVars
      <3>5. CASE Return(id)
        BY <2>1, <2>2, <3>5 DEF Return, Send, sendVars
      <3>6. CASE Finish(id)
        BY <2>1, <3>6 DEF Finish, TypeOK, sendVars
      <3>7. CASE CloseBegin(id)
        BY <2>1, <2>2, <3>7 DEF CloseBegin, Send, sendVars
      <3>8. CASE CloseEnd(id)
        BY <2>1, <2>3, <3>8 DEF CloseEnd, sendVars
      <3> QED BY <2>7, <3>1, <3>2, <3>3, <3>4, <3>5, <3>6, <3>7, <3>8 DEF HandlerStep
    <2>8. ASSUME NEW id \in IDs, SendStep(id) PROVE state'[d] = "nil" /\ sent'[d] = sent[d]
      BY <2>1, <2>8 DEF SendStep, Received, OutputClosed
    <2> QED BY <1>1, <2>5, <2>6, <2>7, <2>8 DEF Next
  <1>2. IInv /\ [Next]_vars => [Silent]_vars
    BY <1>1
  <1> QED BY <1>2, Invariant, PTL DEF Spec, ClosedStreamsSilent
=============================================================================
