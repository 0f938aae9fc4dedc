--------------------------- MODULE Client_proofs ---------------------------
(***************************************************************************)
(* Proofs about Client, for any requests and pushes and any number of      *)
(* frames: a receiver hears one well-ended answer and nothing after its    *)
(* stream's Close, and pushes are accepted in order.                       *)
(***************************************************************************)
EXTENDS Client, FiniteSetTheorems, TLAPS

HasFinal(s) == \E i \in DOMAIN s : s[i].finish
Ended(s) == \A i \in DOMAIN s : s[i].finish => i = Len(s)

\* The final delivery is the last, and closes the finished channel.
Ends(id) ==
  /\ id \in finished <=> HasFinal(got[id])
  /\ id \in finished => state[id] \in {"closed", "nil"}
  /\ Ended(got[id])

IInv == ClientInv /\ panicked # "finished" /\ \A id \in Requests : Ends(id)

LEMMA Parts == IInv <=> ClientInv /\ FinishedOnce /\ NothingAfterFinal
  BY DEF IInv, Ends, FinishedOnce, NothingAfterFinal, HasFinal, Ended

LEMMA AppendFacts ==
  ASSUME NEW s \in Seq(Deliveries), NEW d \in Deliveries
  PROVE  /\ Append(s, d) \in Seq(Deliveries)
         /\ HasFinal(Append(s, d)) <=> HasFinal(s) \/ d.finish
         /\ ~HasFinal(s) => Ended(Append(s, d))
  <1>1. /\ Append(s, d) \in Seq(Deliveries) /\ Len(Append(s, d)) = Len(s) + 1
        /\ Len(s) \in Nat /\ DOMAIN s = 1 .. Len(s)
        /\ DOMAIN Append(s, d) = 1 .. Len(s) + 1
        /\ \A i \in 1 .. Len(s) : Append(s, d)[i] = s[i]
        /\ Append(s, d)[Len(s) + 1] = d
    OBVIOUS
  <1>2. \A i : i \in DOMAIN Append(s, d) <=> i \in DOMAIN s \/ i = Len(s) + 1
    BY <1>1
  <1>3. HasFinal(Append(s, d)) <=> HasFinal(s) \/ d.finish
    BY <1>1, <1>2 DEF HasFinal
  <1>4. ~HasFinal(s) => Ended(Append(s, d))
    BY <1>1, <1>2 DEF HasFinal, Ended
  <1> QED BY <1>1, <1>3, <1>4

LEMMA StateFacts ==
  /\ CloseHere("open") = "halfClosedHere" /\ CloseHere("closed") = "closed"
  /\ CloseThere("halfClosedHere") = "closed"
  /\ \A s \in (StreamStates \cup NoStates) \ {"open", "halfClosedThere"} :
       ~ClosedThere(s) /\ s \notin NoStates => s = "halfClosedHere"
  BY DEF CloseHere, CloseThere, ClosedThere, StreamStates, NoStates

LEMMA Types ==
  ASSUME TypeOK
  PROVE  /\ Requests \subseteq Nat /\ Pushes \subseteq Nat /\ last \in Nat /\ lastPush \in Nat
         /\ Reading => benign + 1 \in 0 .. MaxBenignErrors + 1
         /\ NextID \in Nat /\ last < NextID
  BY ClientAssumption DEF TypeOK, Reading, NextID

-----------------------------------------------------------------------------
(* Kinds of steps.                                                         *)

\* Steps that leave the streams, the receivers and the numbering alone.
LEMMA Quiet ==
  ASSUME IInv, UNCHANGED <<last, state, pc, finished, got, lastPush, push, pushGot>>,
         held' = held \/ \E f \in Frames : held' = {f} /\ state[f.id] = "halfClosedHere",
         conn' \in {"open", "hung", "stopped", "stuck", "closed"},
         benign' \in 0 .. MaxBenignErrors + 1,
         late' \subseteq Requests, header' \subseteq Requests,
         panicked' \in {"no", "caller", "reader", "run"}
  PROVE  IInv'
  <1>1. held' \subseteq Frames /\ Cardinality(held') <= 1
    <2>1. CASE held' = held
      BY <2>1 DEF IInv, ClientInv, TypeOK
    <2>2. ASSUME NEW f \in Frames, held' = {f} PROVE held' \subseteq Frames /\ Cardinality(held') <= 1
      BY <2>2, FS_Singleton
    <2> QED BY <2>1, <2>2
  <1>2. TypeOK'
    BY <1>1 DEF IInv, ClientInv, TypeOK
  <1>3. Numbered' /\ LookedUp'
    BY DEF IInv, ClientInv, Numbered, LookedUp
  <1>4. \A id \in Requests : Ends(id)'
    BY DEF IInv, Ends
  <1> QED BY <1>2, <1>3, <1>4 DEF IInv, ClientInv

\* A stream that is closed keeps its place, and its receiver's calls.
LEMMA StreamCloses ==
  ASSUME IInv, NEW id \in Requests, CloseStream(id), state[id] # "absent",
         UNCHANGED <<conn, last, held, late, pc, finished, got, pushVars, panicked>>,
         benign' \in 0 .. MaxBenignErrors + 1
  PROVE  IInv'
  <1>1. state' = [state EXCEPT ![id] = "nil"] /\ header' = header \ {id}
    BY DEF CloseStream
  <1>2. TypeOK'
    BY <1>1 DEF IInv, ClientInv, TypeOK, NoStates, pushVars
  <1>3. \A d \in Requests : state'[d] = IF d = id THEN "nil" ELSE state[d]
    BY <1>1 DEF IInv, ClientInv, TypeOK
  <1>4. Numbered'
    BY <1>3 DEF IInv, ClientInv, Numbered, pushVars
  <1>5. LookedUp'
    <2>1. \A f \in held : f.id \in Requests
      BY DEF IInv, ClientInv, TypeOK, Frames
    <2> QED BY <1>3, <2>1 DEF IInv, ClientInv, LookedUp
  <1>6. \A d \in Requests : Ends(d)'
    BY <1>3 DEF IInv, Ends
  <1> QED BY <1>2, <1>4, <1>5, <1>6 DEF IInv, ClientInv

-----------------------------------------------------------------------------
(* The callers.                                                            *)

LEMMA SendStep ==
  ASSUME IInv, panicked = "no", RequestSend
  PROVE  IInv'
  <1>1. /\ NextID \in Requests /\ last' = NextID
        /\ UNCHANGED <<conn, benign, held, state, late, header, finished, got, pushVars>>
        /\ \/ pc' = pc /\ panicked' = "caller"
           \/ pc' = [pc EXCEPT ![NextID] = "sent"] /\ panicked' = panicked
    BY DEF RequestSend, Panic
  <1>2. NextID \in Nat /\ last < NextID /\ Requests \subseteq Nat /\ last \in Nat
    BY Types DEF IInv, ClientInv
  <1>3. pc[NextID] = "none"
    BY <1>1, <1>2 DEF IInv, ClientInv, Numbered
  <1>4. TypeOK'
    BY <1>1 DEF IInv, ClientInv, TypeOK, pushVars
  <1>5. \A d \in Requests : pc'[d] = pc[d] \/ (d = NextID /\ pc'[d] = "sent")
    BY <1>1 DEF IInv, ClientInv, TypeOK
  <1>6. Numbered'
    <2>1. \A d \in Requests : pc'[d] # "none" => d <= last'
      BY <1>1, <1>2, <1>5 DEF IInv, ClientInv, Numbered
    <2>2. \A d \in Requests : pc'[d] \in {"none", "sent"} <=> state'[d] = "absent"
      BY <1>1, <1>3, <1>5 DEF IInv, ClientInv, Numbered
    <2> QED BY <1>1, <2>1, <2>2 DEF IInv, ClientInv, Numbered, pushVars
  <1>7. LookedUp' /\ \A d \in Requests : Ends(d)'
    BY <1>1 DEF IInv, ClientInv, LookedUp, Ends
  <1> QED BY <1>1, <1>4, <1>6, <1>7 DEF IInv, ClientInv

LEMMA RegisterStep ==
  ASSUME IInv, panicked = "no", NEW id \in Requests, Register(id)
  PROVE  IInv'
  <1>1. CASE conn = "closed"
    BY <1>1, Quiet DEF Register, Panic, IInv, ClientInv, TypeOK, pushVars
  <1>2. CASE conn # "closed"
    <2>1. /\ pc[id] = "sent" /\ state' = [state EXCEPT ![id] = "halfClosedHere"]
          /\ pc' = [pc EXCEPT ![id] = "run"] /\ late' \subseteq late \cup {id}
          /\ UNCHANGED <<conn, last, benign, held, header, finished, got, pushVars, panicked>>
      BY <1>2, StateFacts DEF Register
    <2>2. TypeOK'
      <3>1. "halfClosedHere" \in (StreamStates \cup NoStates) \ {"open", "halfClosedThere"}
        BY DEF StreamStates
      <3>2. state' \in [Requests -> (StreamStates \cup NoStates) \ {"open", "halfClosedThere"}]
        BY <2>1, <3>1 DEF IInv, ClientInv, TypeOK
      <3> QED BY <2>1, <3>2 DEF IInv, ClientInv, TypeOK, pushVars
    <2>3. \A d \in Requests :
            /\ state'[d] = IF d = id THEN "halfClosedHere" ELSE state[d]
            /\ pc'[d] = IF d = id THEN "run" ELSE pc[d]
      BY <2>1 DEF IInv, ClientInv, TypeOK
    <2>4. state[id] = "absent" /\ id \notin finished
      BY <2>1 DEF IInv, ClientInv, Numbered, Ends
    <2>5. Numbered'
      BY <2>1, <2>3 DEF IInv, ClientInv, Numbered, pushVars
    <2>6. LookedUp'
      <3>1. \A f \in held : f.id \in Requests
        BY DEF IInv, ClientInv, TypeOK, Frames
      <3> QED BY <2>1, <2>3, <3>1 DEF IInv, ClientInv, LookedUp
    <2>7. \A d \in Requests : Ends(d)'
      BY <2>1, <2>3, <2>4 DEF IInv, Ends
    <2> QED BY <2>1, <2>2, <2>5, <2>6, <2>7 DEF IInv, ClientInv
  <1> QED BY <1>1, <1>2

LEMMA RunStep ==
  ASSUME IInv, panicked = "no", NEW id \in Requests, Run(id)
  PROVE  IInv'
  <1>1. CASE state[id] = "nil"
    BY <1>1, Quiet DEF Run, Panic, IInv, ClientInv, TypeOK, pushVars
  <1>2. CASE state[id] # "nil"
    <2>1. state[id] = "closed" /\ pc[id] = "run"
      BY <1>2 DEF Run, IInv, Ends
    <2>2. /\ state' = [state EXCEPT ![id] = CloseHere(state[id])] /\ pc' = [pc EXCEPT ![id] = "done"]
          /\ UNCHANGED <<conn, last, benign, held, late, header, finished, got, pushVars, panicked>>
      BY <1>2 DEF Run
    <2>3. state' = state
      <3>1. state' = [state EXCEPT ![id] = "closed"]
        BY <2>1, <2>2, StateFacts
      <3> QED BY <2>1, <3>1 DEF IInv, ClientInv, TypeOK
    <2>4. TypeOK'
      BY <2>2, <2>3 DEF IInv, ClientInv, TypeOK, pushVars
    <2>5. \A d \in Requests : pc'[d] = IF d = id THEN "done" ELSE pc[d]
      BY <2>2 DEF IInv, ClientInv, TypeOK
    <2>6. Numbered'
      BY <2>1, <2>2, <2>3, <2>5 DEF IInv, ClientInv, Numbered, pushVars
    <2>7. LookedUp' /\ \A d \in Requests : Ends(d)'
      BY <2>2, <2>3 DEF IInv, ClientInv, LookedUp, Ends
    <2> QED BY <2>2, <2>4, <2>6, <2>7 DEF IInv, ClientInv
  <1> QED BY <1>1, <1>2

LEMMA CallerSteps ==
  ASSUME IInv, panicked = "no", CallerStep
  PROVE  IInv'
  <1>1. ASSUME NEW id \in Requests, SetHeader(id) \/ WriteHeader(id) PROVE IInv'
    BY <1>1, Quiet DEF SetHeader, WriteHeader, Panic, IInv, ClientInv, TypeOK, pushVars
  <1>2. ASSUME NEW id \in Requests, AppCloseStream(id) PROVE IInv'
    <2>1. state[id] # "absent"
      BY <1>2 DEF AppCloseStream, IInv, ClientInv, Numbered
    <2> QED BY <1>2, <2>1, StreamCloses DEF AppCloseStream, IInv, ClientInv, TypeOK
  <1> QED BY <1>1, <1>2, SendStep, RegisterStep, RunStep DEF CallerStep

-----------------------------------------------------------------------------
(* The reader and Close.                                                   *)

LEMMA LookUpStep ==
  ASSUME IInv, panicked = "no", NEW f \in Frames, LookUp(f)
  PROVE  IInv'
  <1>1. /\ UNCHANGED <<conn, last, reqVars, pushVars>>
        /\ Reading /\ benign' \in {benign, benign + 1} /\ panicked' \in {panicked, "reader"}
        /\ held' = held \/ (held' = {f} /\ state[f.id] # "nil" /\ ~Refused(f.id))
    BY DEF LookUp, Benign, Panic
  <1>2. benign' \in 0 .. MaxBenignErrors + 1
    BY <1>1, Types DEF IInv, ClientInv, TypeOK
  <1>3. ~Refused(f.id) /\ state[f.id] # "nil" => state[f.id] = "halfClosedHere"
    <2>1. f.id \in Requests
      BY DEF Frames
    <2>2. state[f.id] \in (StreamStates \cup NoStates) \ {"open", "halfClosedThere"}
      BY <2>1 DEF IInv, ClientInv, TypeOK
    <2> QED BY <2>2, StateFacts DEF Refused, NoStates
  <1> QED BY <1>1, <1>2, <1>3, Quiet DEF IInv, ClientInv, TypeOK, reqVars, pushVars

LEMMA ReceiveStep ==
  ASSUME IInv, panicked = "no", NEW f \in held, ReceiveFrame(f)
  PROVE  IInv'
  <1>1. f \in Frames /\ f.id \in Requests /\ TypeOK
    BY DEF IInv, ClientInv, TypeOK, Frames
  <1>2. held' = {} /\ UNCHANGED <<conn, last, benign, late, header, pc, pushVars>>
    BY DEF ReceiveFrame
  <1>3. IsFiniteSet({}) /\ Cardinality({}) = 0
    BY FS_EmptySet
  <1>4. CASE state[f.id] = "nil"
    <2>1. UNCHANGED <<state, finished, got>> /\ panicked' \in {panicked, "reader"}
      BY <1>4 DEF ReceiveFrame, HasReceiver, Panic
    <2>2. TypeOK'
      BY <1>1, <1>2, <1>3, <2>1 DEF TypeOK, pushVars
    <2> QED BY <1>2, <2>1, <2>2 DEF IInv, ClientInv, Numbered, LookedUp, Ends, pushVars
  <1>5. CASE state[f.id] # "nil"
    <2> DEFINE id == f.id
               d == Delivery(f.type, f.finish)
    <2>1. state[id] = "halfClosedHere"
      BY <1>5 DEF IInv, ClientInv, LookedUp
    <2>2. id \notin finished /\ ~HasFinal(got[id]) /\ got[id] \in Seq(Deliveries)
      BY <1>1, <2>1 DEF IInv, Ends, TypeOK
    <2>3. d \in Deliveries /\ d.finish = f.finish /\ f.finish \in BOOLEAN
      BY <1>1 DEF Frames, Deliveries, Delivery
    <2>4. got' = [got EXCEPT ![id] = Append(got[id], d)]
      BY <1>5 DEF ReceiveFrame, HasReceiver
    <2>5. \/ ~f.finish /\ UNCHANGED <<state, finished, panicked>>
          \/ /\ f.finish /\ state' = [state EXCEPT ![id] = "closed"]
             /\ finished' = finished \cup {id} /\ panicked' = panicked
      BY <1>5, <2>1, <2>2, StateFacts DEF ReceiveFrame, HasReceiver, Final
    <2> HIDE DEF d
    <2>6. /\ got' \in [Requests -> Seq(Deliveries)] /\ got'[id] = Append(got[id], d)
          /\ \A r \in Requests \ {id} : got'[r] = got[r]
      BY <1>1, <2>2, <2>3, <2>4, AppendFacts DEF TypeOK
    <2>7. /\ state' \in [Requests -> (StreamStates \cup NoStates) \ {"open", "halfClosedThere"}]
          /\ state'[id] \in {"closed", "halfClosedHere"} /\ (f.finish => state'[id] = "closed")
          /\ \A r \in Requests \ {id} : state'[r] = state[r]
      <3>1. "closed" \in (StreamStates \cup NoStates) \ {"open", "halfClosedThere"}
        BY DEF StreamStates
      <3>2. CASE f.finish
        <4>1. state' = [state EXCEPT ![id] = "closed"] /\ id \in Requests
          BY <1>1, <2>5, <3>2
        <4> QED BY <1>1, <3>1, <4>1 DEF TypeOK
      <3>3. CASE ~f.finish
        <4>1. state' = state
          BY <2>5, <3>3
        <4> QED BY <1>1, <2>1, <3>3, <4>1 DEF TypeOK
      <3> QED BY <3>2, <3>3
    <2>8. TypeOK'
      <3>1. finished' \subseteq Requests /\ panicked' = panicked
        BY <1>1, <2>5 DEF TypeOK
      <3> QED BY <1>1, <1>2, <1>3, <2>6, <2>7, <3>1 DEF TypeOK, pushVars
    <2>9. Numbered' /\ LookedUp'
      <3>1. \A r \in Requests : state'[r] = "absent" <=> state[r] = "absent"
        BY <2>1, <2>7
      <3> QED BY <1>2, <3>1 DEF IInv, ClientInv, Numbered, LookedUp, pushVars
    <2>10. Ends(id)'
      <3>1. HasFinal(got'[id]) <=> f.finish
        BY <2>2, <2>3, <2>6, AppendFacts
      <3>2. Ended(got'[id])
        BY <2>2, <2>3, <2>6, AppendFacts
      <3> QED BY <2>2, <2>5, <2>7, <3>1, <3>2 DEF Ends
    <2>11. \A r \in Requests \ {id} : Ends(r)'
      BY <2>5, <2>6, <2>7 DEF IInv, Ends
    <2> QED BY <2>5, <2>8, <2>9, <2>10, <2>11 DEF IInv, ClientInv
  <1> QED BY <1>4, <1>5

\* Steps about pushes leave the requests alone.
LEMMA PushSteps ==
  ASSUME IInv, panicked = "no", NEW id \in Pushes,
         \/ \E parses, wanted \in BOOLEAN : HandlePush(id, parses, wanted)
         \/ \E finish \in BOOLEAN : PushFrame(id, "Data", finish)
         \/ PushFrame(id, "Headers", FALSE)
  PROVE  IInv'
  <1>1. /\ UNCHANGED <<conn, last, held, reqVars, panicked>>
        /\ benign' = benign \/ (Reading /\ benign' = benign + 1)
        /\ pushGot' = pushGot \/ \E type \in {"Data", "Headers"} : \E finish \in BOOLEAN :
             pushGot' = [pushGot EXCEPT ![id] = Append(pushGot[id], Delivery(type, finish))]
        /\ \/ UNCHANGED <<push, lastPush>>
           \/ /\ ~StalePush(id)
              /\ \/ /\ lastPush' = lastPush
                    /\ \E what \in {"dropped", "refused"} : push' = [push EXCEPT ![id] = what]
                 \/ lastPush' = id /\ push' = [push EXCEPT ![id] = "accepted"]
    BY DEF HandlePush, PushFrame, Benign
  <1>2. benign' \in 0 .. MaxBenignErrors + 1
    BY <1>1, Types DEF IInv, ClientInv, TypeOK
  <1>3. pushGot' \in [Pushes -> Seq(Deliveries)]
    <2>1. ASSUME NEW type \in {"Data", "Headers"}, NEW finish \in BOOLEAN
          PROVE  Append(pushGot[id], Delivery(type, finish)) \in Seq(Deliveries)
      <3>1. Delivery(type, finish) \in Deliveries
        BY DEF Delivery, Deliveries
      <3>2. pushGot[id] \in Seq(Deliveries)
        BY DEF IInv, ClientInv, TypeOK
      <3> QED BY <3>1, <3>2, AppendFacts
    <2>2. pushGot \in [Pushes -> Seq(Deliveries)]
      BY DEF IInv, ClientInv, TypeOK
    <2>3. ASSUME NEW s \in Seq(Deliveries), pushGot' = [pushGot EXCEPT ![id] = s]
          PROVE  pushGot' \in [Pushes -> Seq(Deliveries)]
      BY <2>2, <2>3
    <2>4. pushGot' = pushGot \/ \E s \in Seq(Deliveries) : pushGot' = [pushGot EXCEPT ![id] = s]
      BY <1>1, <2>1
    <2> QED BY <2>2, <2>3, <2>4
  <1>4. /\ push' \in [Pushes -> {"none", "dropped", "refused", "accepted"}]
        /\ lastPush' \in Pushes \cup {0}
    BY <1>1 DEF IInv, ClientInv, TypeOK
  <1>5. TypeOK'
    BY <1>1, <1>2, <1>3, <1>4 DEF IInv, ClientInv, TypeOK, reqVars
  <1>6. Numbered'
    <2>1. \A p \in Pushes : push'[p] = "accepted" => p <= lastPush'
      <3>1. Pushes \subseteq Nat /\ lastPush \in Nat
        BY Types DEF IInv, ClientInv
      <3>2. CASE UNCHANGED <<push, lastPush>>
        BY <3>2 DEF IInv, ClientInv, Numbered
      <3>3. CASE ~StalePush(id) /\ lastPush' = id /\ push' = [push EXCEPT ![id] = "accepted"]
        <4>1. \A p \in Pushes : push'[p] = "accepted" => p = id \/ push[p] = "accepted"
          BY <3>3 DEF IInv, ClientInv, TypeOK
        <4>2. lastPush < id
          BY <3>1, <3>3 DEF StalePush
        <4> QED BY <3>1, <3>3, <4>1, <4>2 DEF IInv, ClientInv, Numbered
      <3>4. ASSUME lastPush' = lastPush, NEW what \in {"dropped", "refused"},
                   push' = [push EXCEPT ![id] = what]
            PROVE  \A p \in Pushes : push'[p] = "accepted" => p <= lastPush'
        <4>1. \A p \in Pushes : push'[p] = "accepted" => push[p] = "accepted"
          BY <3>4 DEF IInv, ClientInv, TypeOK
        <4> QED BY <3>4, <4>1 DEF IInv, ClientInv, Numbered
      <3> QED BY <1>1, <3>2, <3>3, <3>4
    <2> QED BY <1>1, <2>1 DEF IInv, ClientInv, Numbered, reqVars
  <1>7. LookedUp' /\ \A r \in Requests : Ends(r)'
    BY <1>1 DEF IInv, ClientInv, LookedUp, Ends, reqVars
  <1> QED BY <1>1, <1>5, <1>6, <1>7 DEF IInv, ClientInv

LEMMA ReaderSteps ==
  ASSUME IInv, panicked = "no", ReaderStep
  PROVE  IInv'
  <1>1. ASSUME NEW id \in Requests, NEW finish \in BOOLEAN,
               HandleResponse(id, finish) \/ HandleServerData(id, finish) \/ HandleHeaders(id)
        PROVE  IInv'
    <2>1. \A type \in {"Response", "Data", "Headers"} : \A fin \in BOOLEAN :
            [id |-> id, type |-> type, finish |-> fin] \in Frames
      BY DEF Frames
    <2>2. PICK f \in Frames : LookUp(f)
      BY <1>1, <2>1 DEF HandleResponse, HandleServerData, HandleHeaders
    <2> QED BY <2>2, LookUpStep
  <1>2. CASE HandleEvenResponse \/ HandleOddPush \/ ProtocolError
    <2>1. /\ UNCHANGED <<last, held, reqVars, pushVars, panicked>> /\ Reading
          /\ benign' \in {benign, benign + 1} /\ conn' \in {conn, "hung"}
      BY <1>2 DEF HandleEvenResponse, HandleOddPush, ProtocolError, Benign
    <2>2. benign' \in 0 .. MaxBenignErrors + 1
      BY <2>1, Types DEF IInv, ClientInv, TypeOK
    <2> QED BY <2>1, <2>2, Quiet DEF IInv, ClientInv, TypeOK, reqVars, pushVars
  <1>3. ASSUME NEW id \in Requests, NEW counted \in BOOLEAN, HandleError(id, counted) PROVE IInv'
    <2>1. /\ UNCHANGED <<conn, last, held, late, pc, finished, got, pushVars, panicked>> /\ Reading
          /\ benign' \in {benign, benign + 1}
          /\ \/ state[id] # "absent" /\ CloseStream(id)
             \/ UNCHANGED <<state, header>>
      BY <1>3 DEF HandleError, Benign
    <2>2. benign' \in 0 .. MaxBenignErrors + 1
      BY <2>1, Types DEF IInv, ClientInv, TypeOK
    <2>3. CASE UNCHANGED <<state, header>>
      BY <2>1, <2>2, <2>3, Quiet DEF IInv, ClientInv, TypeOK, pushVars
    <2> QED BY <2>1, <2>2, <2>3, StreamCloses
  <1>4. CASE ReadOn
    <2>1. /\ UNCHANGED <<conn, last, held, reqVars, pushVars>>
          /\ panicked' \in {"no", "reader"} /\ benign' \in 0 .. MaxBenignErrors + 1
      BY <1>4, ClientAssumption DEF ReadOn, ReadingClosed, Panic, Benign, IInv, ClientInv, TypeOK
    <2> QED BY <2>1, Quiet DEF IInv, ClientInv, TypeOK, reqVars, pushVars
  <1> QED BY <1>1, <1>2, <1>3, <1>4, ReceiveStep, PushSteps DEF ReaderStep

LEMMA CloseSteps ==
  ASSUME IInv, panicked = "no", CloseStep
  PROVE  IInv'
  <1>1. CASE CloseConn \/ CloseConnEnd
    BY <1>1, Quiet DEF CloseConn, CloseConnEnd, IInv, ClientInv, TypeOK, reqVars, pushVars
  <1>2. ASSUME NEW id \in Requests, CloseConnStream(id) PROVE IInv'
    <2>1. state[id] # "absent"
      BY <1>2 DEF CloseConnStream, NoStates
    <2>2. CASE id \in header
      BY <1>2, <2>2, Quiet DEF CloseConnStream, IInv, ClientInv, TypeOK, pushVars
    <2>3. CASE id \notin header
      BY <1>2, <2>1, <2>3, StreamCloses DEF CloseConnStream, IInv, ClientInv, TypeOK
    <2> QED BY <2>2, <2>3
  <1> QED BY <1>1, <1>2 DEF CloseStep

-----------------------------------------------------------------------------
(* The theorems.                                                           *)

LEMMA Initially == Init => IInv
  <1> SUFFICES ASSUME Init PROVE IInv
    OBVIOUS
  <1>1. <<>> \in Seq(Deliveries) /\ ~HasFinal(<<>>) /\ Ended(<<>>) /\ Cardinality({}) = 0
    BY FS_EmptySet DEF HasFinal, Ended
  <1>2. TypeOK
    BY <1>1, ClientAssumption DEF Init, TypeOK, NoStates
  <1>3. Numbered /\ LookedUp
    BY DEF Init, Numbered, LookedUp
  <1>4. \A id \in Requests : Ends(id)
    BY <1>1 DEF Init, Ends
  <1> QED BY <1>2, <1>3, <1>4 DEF IInv, ClientInv, Init

LEMMA Preserved == IInv /\ [Next]_vars => IInv'
  <1> SUFFICES ASSUME IInv, [Next]_vars PROVE IInv'
    OBVIOUS
  <1>1. CASE Next
    BY <1>1, CallerSteps, ReaderSteps, CloseSteps DEF Next
  <1>2. CASE UNCHANGED vars
    BY <1>2 DEF vars, reqVars, pushVars, IInv, ClientInv, TypeOK, Numbered, LookedUp, Ends
  <1> QED BY <1>1, <1>2

LEMMA Invariant == Spec => []IInv
  BY Initially, Preserved, PTL DEF Spec

\* The facts that make a lookup and a delivery under two mutexes agree.
THEOREM Invariance == Spec => []ClientInv
  BY Parts, Invariant, PTL

\* A receiver hears nothing of a request after the frame with FINISH.
THEOREM FinalIsLast == Spec => []NothingAfterFinal
  BY Parts, Invariant, PTL

\* The finished channel is closed once, with the final delivery.
THEOREM FinishesOnce == Spec => []FinishedOnce
  BY Parts, Invariant, PTL

\* A receiver hears nothing once its stream has been closed, in whatever
\* order the application's Close meets the reader's lookup and delivery.
THEOREM ClosedStreamsAreSilent == Spec => SilentAfterClose
  <1> DEFINE Silent == \A id \in Requests : state[id] = "nil" => state'[id] = "nil" /\ got'[id] = got[id]
  <1>1. ASSUME IInv, Next PROVE Silent
    <2> SUFFICES ASSUME NEW d \in Requests, state[d] = "nil" PROVE state'[d] = "nil" /\ got'[d] = got[d]
      OBVIOUS
    <2>1. TypeOK /\ pc[d] \notin {"none", "sent"}
      BY <1>1 DEF IInv, ClientInv, Numbered
    <2>2. ASSUME NEW id \in Requests, CloseStream(id) PROVE state'[d] = "nil"
      BY <2>1, <2>2 DEF CloseStream, TypeOK
    <2>3. ASSUME NEW id \in Requests, Register(id) \/ Run(id) PROVE state'[d] = "nil" /\ got'[d] = got[d]
      <3>1. CASE id = d
        BY <2>1, <2>3, <3>1 DEF Register, Run
      <3>2. CASE id # d
        BY <2>1, <2>3, <3>2 DEF Register, Run, TypeOK
      <3> QED BY <3>1, <3>2
    <2>4. ASSUME NEW f \in held, ReceiveFrame(f) PROVE state'[d] = "nil" /\ got'[d] = got[d]
      <3>1. f.id \in Requests
        BY <2>1 DEF TypeOK, Frames
      <3>2. CASE f.id = d
        BY <2>4, <3>2 DEF ReceiveFrame, HasReceiver
      <3>3. CASE f.id # d
        BY <2>1, <2>4, <3>1, <3>3 DEF ReceiveFrame, TypeOK
      <3> QED BY <3>2, <3>3
    <2>5. ASSUME CallerStep PROVE state'[d] = "nil" /\ got'[d] = got[d]
      BY <2>2, <2>3, <2>5 DEF CallerStep, RequestSend, SetHeader, WriteHeader, AppCloseStream
    <2>6. ASSUME ReaderStep PROVE state'[d] = "nil" /\ got'[d] = got[d]
      BY <2>2, <2>4, <2>6 DEF ReaderStep, HandleResponse, HandleServerData, HandleHeaders, LookUp,
         HandleError, HandleEvenResponse, HandleOddPush, HandlePush, PushFrame, ProtocolError,
         ReadOn, reqVars
    <2>7. ASSUME CloseStep PROVE state'[d] = "nil" /\ got'[d] = got[d]
      BY <2>2, <2>7 DEF CloseStep, CloseConn, CloseConnEnd, CloseConnStream, reqVars
    <2> QED BY <1>1, <2>5, <2>6, <2>7 DEF Next
  <1>2. IInv /\ [Next]_vars => [Silent]_vars
    BY <1>1
  <1> QED BY <1>2, Invariant, PTL DEF Spec, SilentAfterClose

\* Pushes are accepted in the order of their IDs and once each.
THEOREM PushesComeInOrder == Spec => PushesInOrder
  <1> DEFINE InOrder == \A id \in Pushes : pushGot'[id] # pushGot[id] =>
       /\ push'[id] = "accepted"
       /\ push[id] # "accepted" => \A other \in Pushes : push[other] = "accepted" => other < id
  <1>1. ASSUME IInv, Next PROVE InOrder
    <2>1. TypeOK /\ Pushes \subseteq Nat /\ lastPush \in Nat
          /\ \A p \in Pushes : push[p] = "accepted" => p <= lastPush
      BY <1>1, Types DEF IInv, ClientInv, Numbered
    <2>2. ASSUME NEW id \in Pushes, NEW parses \in BOOLEAN, NEW wanted \in BOOLEAN,
                 HandlePush(id, parses, wanted)
          PROVE  InOrder
      <3>1. CASE pushGot' = pushGot
        BY <3>1
      <3>2. CASE pushGot' # pushGot
        <4>1. /\ ~StalePush(id) /\ push' = [push EXCEPT ![id] = "accepted"]
              /\ pushGot' = [pushGot EXCEPT ![id] = Append(pushGot[id], Delivery("Headers", FALSE))]
          BY <2>2, <3>2 DEF HandlePush
        <4>2. \A p \in Pushes : pushGot'[p] # pushGot[p] => p = id
          BY <2>1, <4>1 DEF TypeOK
        <4>3. push'[id] = "accepted" /\ lastPush < id
          BY <2>1, <4>1 DEF StalePush, TypeOK
        <4> QED BY <2>1, <4>2, <4>3
      <3> QED BY <3>1, <3>2
    <2>3. ASSUME NEW id \in Pushes, NEW type, NEW finish, PushFrame(id, type, finish) PROVE InOrder
      <3>1. push[id] = "accepted" /\ push' = push
            /\ \A p \in Pushes : pushGot'[p] # pushGot[p] => p = id
        BY <2>1, <2>3 DEF PushFrame, Accepted, TypeOK
      <3> QED BY <3>1
    <2>4. CASE pushGot' = pushGot
      BY <2>4
    <2>5. ASSUME CallerStep \/ CloseStep PROVE pushGot' = pushGot
      BY <2>5 DEF CallerStep, CloseStep, RequestSend, Register, Run, SetHeader, WriteHeader,
         AppCloseStream, CloseConn, CloseConnEnd, CloseConnStream, pushVars
    <2>6. ASSUME ReaderStep, pushGot' # pushGot PROVE InOrder
      BY <2>2, <2>3, <2>6 DEF ReaderStep, HandleResponse, HandleServerData, HandleHeaders, LookUp,
         HandleError, HandleEvenResponse, HandleOddPush, ReceiveFrame, ProtocolError,
         ReadOn, pushVars
    <2> QED BY <1>1, <2>4, <2>5, <2>6 DEF Next
  <1>2. IInv /\ [Next]_vars => [InOrder]_vars
    BY <1>1
  <1> QED BY <1>2, Invariant, PTL DEF Spec, PushesInOrder
=============================================================================
