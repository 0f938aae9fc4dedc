----------------------------- MODULE Conn_proofs -----------------------------
(***************************************************************************)
(* Proofs about Conn, for any set of apps and any number of priorities.    *)
(*                                                                         *)
(* First who holds the mutex and who waits for whom; on that invariant     *)
(* rest the proofs of what the send loop sends (a waiting frame is         *)
(* overtaken once at the most, the frames that the drain of Close serves   *)
(* are sent, and once conn.stop is closed nothing more is) and the proof   *)
(* that Conn implements Lifecycle.                                         *)
(***************************************************************************)
EXTENDS Conn, TLAPS

-----------------------------------------------------------------------------
(* Constants and control states.                                           *)

LEMMA Constants ==
  /\ Priorities \subseteq Nat
  /\ 0 \in Priorities
  /\ \A p \in Nat : p < NumPriorities => p \in Priorities
  /\ NumPriorities \in Nat
  /\ \A a \in Apps : StreamPriority[a] \in Priorities
  /\ Reader \in Goroutines /\ Sender \in Goroutines /\ Reader # Sender
  /\ \A a \in Apps : a \in Goroutines /\ a # Reader /\ a # Sender
  /\ NoOne \notin Goroutines
  BY ConnAssumption DEF Priorities, Goroutines

LEMMA BlockedStates ==
  Blocked = {"flushing", "responding", "writing", "pinging", "requesting", "body", "replying",
             "refusing", "resetting", "erring", "failing", "headers"}
  BY DEF Blocked, Resume

\* Where a send resumes: with the mutex held exactly if the send was made
\* with it, save for protocolError's call of Close.
LEMMA Resumption ==
  ASSUME NEW b \in Blocked
  PROVE  /\ Resume[b] \in PCs \ Blocked
         /\ b \in Locked => Resume[b] \in Locked \/ b = "erring"
         /\ Resume[b] \in Locked => b \in Locked
         /\ Resume[b] \notin {"await", "stop", "socket", "outputs"}
         /\ Resume[b] = "streams" => b = "headers"
  <1>1. b \in {"flushing", "responding", "writing", "pinging", "requesting", "body",
               "replying", "refusing", "resetting", "erring", "failing", "headers"}
    BY BlockedStates
  <1> QED BY <1>1, BlockedStates DEF Resume, PCs, Locked, Closing, SenderPCs

-----------------------------------------------------------------------------
(* The two operations on an output channel.                                *)

\* A goroutine that blocks in a send joins the end of one queue.
LEMMA OfferJoins ==
  ASSUME TypeOK, Queued, NEW g \in Goroutines, NEW p \in Priorities,
         NEW at \in Blocked, pc[g] \notin Blocked, Offer(g, p, at)
  PROVE  /\ output' \in [Priorities -> Seq(Goroutines)]
         /\ pc' \in [Goroutines -> PCs]
         /\ panicked' \subseteq PCs
         /\ closedOut' = closedOut
         /\ Queued'
         /\ \/ pc' = pc /\ panicked' = panicked \cup {at} /\ p < closedOut
            \/ pc' = [pc EXCEPT ![g] = at] /\ panicked' = panicked
  <1>1. at \in PCs
    BY DEF PCs
  <1>2. CASE p < closedOut
    BY <1>1, <1>2 DEF Offer, TypeOK, Queued
  <1>3. CASE ~(p < closedOut)
    <2>1. /\ output' = [output EXCEPT ![p] = Append(@, g)]
          /\ pc' = [pc EXCEPT ![g] = at]
          /\ panicked' = panicked
          /\ closedOut' = closedOut
      BY <1>3 DEF Offer, Goto
    <2>2. output[p] \in Seq(Goroutines)
      BY DEF TypeOK
    <2>3. output' \in [Priorities -> Seq(Goroutines)]
      BY <2>1, <2>2 DEF TypeOK
    <2>4. pc' \in [Goroutines -> PCs]
      BY <2>1, <1>1 DEF TypeOK
    <2>5. \A q \in Priorities : \A i \in 1 .. Len(output[q]) :
            output[q][i] \in Goroutines /\ output[q][i] # g
      BY DEF TypeOK, Queued
    <2>6. \A q \in Priorities : \A i \in 1 .. Len(output'[q]) :
            \/ q = p /\ i = Len(output[p]) + 1 /\ output'[q][i] = g
            \/ i \in 1 .. Len(output[q]) /\ output'[q][i] = output[q][i]
      BY <2>1, <2>2 DEF TypeOK
    <2>7. Queued'
      BY <2>1, <2>4, <2>5, <2>6 DEF TypeOK, Queued
    <2> QED BY <2>1, <2>3, <2>4, <2>7 DEF TypeOK
  <1> QED BY <1>2, <1>3

\* The goroutine at the head of a queue leaves it.
LEMMA Dequeue ==
  ASSUME TypeOK, Queued, NEW p \in Priorities, output[p] # <<>>,
         output' = [output EXCEPT ![p] = Tail(@)],
         \A h \in Goroutines : pc[h] \in Blocked /\ h # Head(output[p]) => pc'[h] = pc[h]
  PROVE  /\ output' \in [Priorities -> Seq(Goroutines)]
         /\ Head(output[p]) \in Goroutines /\ pc[Head(output[p])] \in Blocked
         /\ Queued'
  <1> DEFINE g == Head(output[p])
  <1>1. output[p] \in Seq(Goroutines)
    BY DEF TypeOK
  <1>2. g \in Goroutines /\ g = output[p][1] /\ 1 \in 1 .. Len(output[p])
    BY <1>1
  <1>3. pc[g] \in Blocked
    BY <1>2 DEF Queued
  <1>4. output' \in [Priorities -> Seq(Goroutines)]
    BY <1>1 DEF TypeOK
  <1>5. \A q \in Priorities : \A i \in 1 .. Len(output'[q]) :
          IF q = p THEN i + 1 \in 1 .. Len(output[p]) /\ output'[q][i] = output[p][i + 1]
          ELSE i \in 1 .. Len(output[q]) /\ output'[q][i] = output[q][i]
    BY <1>1 DEF TypeOK
  <1>6. \A q \in Priorities : \A i \in 1 .. Len(output'[q]) :
          /\ output'[q][i] \in Goroutines /\ output'[q][i] # g
          /\ pc[output'[q][i]] \in Blocked
    <2> SUFFICES ASSUME NEW q \in Priorities, NEW i \in 1 .. Len(output'[q])
                 PROVE  /\ output'[q][i] \in Goroutines /\ output'[q][i] # g
                        /\ pc[output'[q][i]] \in Blocked
      OBVIOUS
    <2> DEFINE m == IF q = p THEN i + 1 ELSE i
    <2>1. m \in 1 .. Len(output[q]) /\ output'[q][i] = output[q][m]
      BY <1>5
    <2>2. output[q] \in Seq(Goroutines)
      BY DEF TypeOK
    <2>3. output[q][m] \in Goroutines /\ pc[output[q][m]] \in Blocked
      BY <2>1, <2>2 DEF Queued
    <2>4. q = p => m # 1
      BY <2>1
    <2>5. output[q][m] # g
      BY <1>2, <2>1, <2>4 DEF Queued
    <2> QED BY <2>1, <2>3, <2>5
  <1>7. \A q \in Priorities : \A i \in 1 .. Len(output'[q]) : pc'[output'[q][i]] \in Blocked
    BY <1>6
  <1>8. \A q, r \in Priorities : \A i \in 1 .. Len(output'[q]), j \in 1 .. Len(output'[r]) :
          output'[q][i] = output'[r][j] => q = r /\ i = j
    <2> SUFFICES ASSUME NEW q \in Priorities, NEW r \in Priorities,
                        NEW i \in 1 .. Len(output'[q]), NEW j \in 1 .. Len(output'[r]),
                        output'[q][i] = output'[r][j]
                 PROVE  q = r /\ i = j
      OBVIOUS
    <2> DEFINE m == IF q = p THEN i + 1 ELSE i
               n == IF r = p THEN j + 1 ELSE j
    <2>1. m \in 1 .. Len(output[q]) /\ n \in 1 .. Len(output[r])
      BY <1>5
    <2>2. output'[q][i] = output[q][m]
      BY <1>5
    <2>3. output'[r][j] = output[r][n]
      BY <1>5
    <2>4. output[q][m] = output[r][n]
      BY <2>2, <2>3
    <2>5. q = r /\ m = n
      BY <2>1, <2>4 DEF Queued
    <2>6. i \in Int /\ j \in Int
      OBVIOUS
    <2> QED BY <2>5, <2>6
  <1> QED BY <1>2, <1>3, <1>4, <1>7, <1>8 DEF Queued

\* The sender receives: the head of the queue goes on, the sender has a frame.
LEMMA ReceiveTakes ==
  ASSUME TypeOK, Queued, NEW p \in Priorities, output[p] # <<>>,
         pc[Sender] \notin Blocked, Receive(p)
  PROVE  /\ output' \in [Priorities -> Seq(Goroutines)]
         /\ due' \subseteq Goroutines
         /\ overtaken' \in [Goroutines -> 0 .. 2]
         /\ Queued'
         /\ \E g \in Goroutines :
              /\ g # Sender /\ pc[g] \in Blocked
              /\ pc' = [pc EXCEPT ![g] = Resume[pc[g]], ![Sender] = "frame"]
  <1> DEFINE g == Head(output[p])
  <1>1. /\ output' = [output EXCEPT ![p] = Tail(@)]
        /\ pc' = [pc EXCEPT ![g] = Resume[@], ![Sender] = "frame"]
        /\ due' = due \ {g}
    BY DEF Receive
  <1>2. \A h \in Goroutines : pc[h] \in Blocked /\ h # g => pc'[h] = pc[h]
    BY <1>1 DEF TypeOK
  <1>3. /\ output' \in [Priorities -> Seq(Goroutines)] /\ Queued'
        /\ g \in Goroutines /\ pc[g] \in Blocked
    BY <1>1, <1>2, Dequeue
  <1>4. overtaken' \in [Goroutines -> 0 .. 2]
    <2> DEFINE passed == UNION {ToSet(output[q]) : q \in 0 .. p - 1}
    <2>1. overtaken' = [h \in Goroutines |->
            IF h = g THEN 0
            ELSE IF h \in passed /\ overtaken[h] < 2 THEN overtaken[h] + 1
            ELSE overtaken[h]]
      BY DEF Receive
    <2>2. \A h \in Goroutines : overtaken[h] \in 0 .. 2
      BY DEF TypeOK
    <2> HIDE DEF passed
    <2> QED BY <2>1, <2>2
  <1>5. due' \subseteq Goroutines
    BY <1>1 DEF TypeOK
  <1>6. g # Sender /\ pc' = [pc EXCEPT ![g] = Resume[pc[g]], ![Sender] = "frame"]
    BY <1>1, <1>3
  <1> QED BY <1>3, <1>4, <1>5, <1>6

\* A step that leaves the queues alone and lets no blocked goroutine move.
LEMMA QueuesKept ==
  ASSUME TypeOK, Queued, output' = output,
         \A h \in Goroutines : pc[h] \in Blocked => pc'[h] \in Blocked
  PROVE  Queued'
  BY DEF TypeOK, Queued

\* A goroutine that is not in a queue moves on.
LEMMA Moves ==
  ASSUME TypeOK, Queued, output' = output, NEW g \in Goroutines, NEW at \in PCs,
         pc[g] \notin Blocked, Goto(g, at)
  PROVE  Queued' /\ pc' \in [Goroutines -> PCs] /\ pc' = [pc EXCEPT ![g] = at]
  <1>1. pc' = [pc EXCEPT ![g] = at] /\ pc' \in [Goroutines -> PCs]
    BY DEF TypeOK, Goto
  <1>2. \A h \in Goroutines : pc[h] \in Blocked => pc'[h] \in Blocked
    BY <1>1 DEF TypeOK
  <1> QED BY <1>1, <1>2, QueuesKept

-----------------------------------------------------------------------------
(* The invariant is preserved.  Control is the part of it that speaks of   *)
(* the mutex, the handshake and the goroutines' program counters.          *)

Control == Holding /\ Erring /\ Handshake /\ OutputsLast /\ LockHeldInside /\ CheckedSendsSafe

\* A goroutine that takes the mutex and blocks in a send, or panics there.
LEMMA LockTaken ==
  ASSUME TypeOK, Control, panicked = {}, NEW g \in Goroutines, pc[g] = "running",
         NEW at \in {"pinging", "refusing", "requesting", "erring"},
         at = "erring" => g = Reader, at \in {"pinging", "refusing"} => ~stop,
         lock = NoOne, lock' = g, sending' = sending, stop' = stop, closedOut' = closedOut,
         \/ pc' = pc /\ panicked' = panicked \cup {at} /\ 0 < closedOut
         \/ pc' = [pc EXCEPT ![g] = at] /\ panicked' = panicked
  PROVE  Control'
  <1> USE Constants
  <1>1. \A h \in Goroutines : pc'[h] = pc[h] \/ (h = g /\ pc'[h] = at)
    BY DEF TypeOK
  <1>2. \A h \in Goroutines : pc[h] \notin Locked
    BY DEF Control, Holding
  <1>3. Holding'
    BY <1>1, <1>2 DEF Holding
  <1>4. Erring'
    BY <1>1 DEF Control, Erring
  <1>5. sending # "open" /\ (sending = "closed" => stop) /\ (stop => sending = "closed")
        /\ (sending = "closed" => pc[Sender] = "gone")
    BY DEF Control, Handshake
  <1>6. Handshake'
    <2>1. \A h \in Goroutines : pc'[h] \notin TornDown \cup {"await", "stop"}
      BY <1>1, <1>2 DEF Locked, Closing, TornDown
    <2>2. sending = "closed" => pc'[Sender] = "gone"
      BY <1>1, <1>5
    <2> QED BY <1>5, <2>1, <2>2 DEF Handshake
  <1>7. OutputsLast'
    BY <1>1 DEF Control, OutputsLast
  <1>8. LockHeldInside'
    BY DEF TypeOK, LockHeldInside, Locked
  <1>9. CheckedSendsSafe'
    BY DEF Control, CheckedSendsSafe, OutputsLast, TypeOK
  <1> QED BY <1>3, <1>4, <1>6, <1>7, <1>8, <1>9 DEF Control

LEMMA AppCallPreserves ==
  ASSUME ConnInv, panicked = {}, NEW a \in Apps, AppCall(a)
  PROVE  ConnInv'
  <1> USE Constants
  <1>0. TypeOK /\ Queued /\ Control /\ a \in Goroutines /\ a # Reader
    BY DEF ConnInv, Control
  <1>1. CASE SetHeader(a)
    <2>1. TypeOK'
      BY <1>0, <1>1 DEF SetHeader, TypeOK, connVars, sendVars
    <2>2. Queued'
      BY <1>0, <1>1, QueuesKept DEF SetHeader
    <2>3. Control'
      BY <1>0, <1>1 DEF TypeOK, Control, Holding, Erring, Handshake,
         OutputsLast, LockHeldInside, CheckedSendsSafe, Locked, Closing, TornDown, SetHeader, connVars
    <2> QED BY <2>1, <2>2, <2>3 DEF ConnInv, Control
  <1>2. CASE Write(a)
    <2>1. pc[a] = "running" /\ UNCHANGED <<lock, sending, stop, panicked, closedOut>>
      BY <1>0, <1>2 DEF Write, connVars, chanVars
    <2>2. PICK next \in {"respond", "flush"} : Goto(a, next)
      BY <1>2 DEF Write
    <2>3. Queued' /\ pc' \in [Goroutines -> PCs] /\ pc' = [pc EXCEPT ![a] = next]
      BY <1>0, <1>2, <2>1, <2>2, Moves, BlockedStates DEF Write, PCs, chanVars
    <2>4. TypeOK'
      BY <1>0, <1>2, <2>1, <2>3 DEF Write, TypeOK, connVars, chanVars, streamVars, sendVars
    <2>5. Control'
      BY <1>0, <2>1, <2>3 DEF TypeOK, Control, Holding, Erring, Handshake,
         OutputsLast, LockHeldInside, CheckedSendsSafe, Locked, Closing, TornDown
    <2> QED BY <2>4, <2>5, <2>3 DEF ConnInv, Control
  <1>3. CASE Ping(a)
    <2>1. pc[a] = "running" /\ lock = NoOne /\ lock' = a /\ ~stop
          /\ UNCHANGED <<sending, stop, streamVars, sendVars, back>>
      BY <1>0, <1>3 DEF Ping, CanLock, PingClosed, Closed
    <2>2. /\ output' \in [Priorities -> Seq(Goroutines)] /\ pc' \in [Goroutines -> PCs]
          /\ panicked' \subseteq PCs /\ closedOut' = closedOut /\ Queued'
          /\ \/ pc' = pc /\ panicked' = panicked \cup {"pinging"} /\ 0 < closedOut
             \/ pc' = [pc EXCEPT ![a] = "pinging"] /\ panicked' = panicked
      BY <1>0, <1>3, <2>1, OfferJoins, BlockedStates DEF Ping
    <2>3. TypeOK'
      BY <1>0, <2>1, <2>2 DEF TypeOK, streamVars, sendVars
    <2>4. Control'
      BY <1>0, <2>1, <2>2, LockTaken
    <2> QED BY <2>2, <2>3, <2>4 DEF ConnInv, Control
  <1>4. CASE Announce(a)
    <2>1. pc[a] = "running" /\ lock = NoOne /\ lock' = a
          /\ UNCHANGED <<sending, stop, streamVars, sendVars, back>>
      BY <1>0, <1>4 DEF Announce, CanLock
    <2>2. /\ output' \in [Priorities -> Seq(Goroutines)] /\ pc' \in [Goroutines -> PCs]
          /\ panicked' \subseteq PCs /\ closedOut' = closedOut /\ Queued'
          /\ \/ pc' = pc /\ panicked' = panicked \cup {"requesting"} /\ 0 < closedOut
             \/ pc' = [pc EXCEPT ![a] = "requesting"] /\ panicked' = panicked
      BY <1>0, <1>4, <2>1, OfferJoins, BlockedStates DEF Announce
    <2>3. TypeOK'
      BY <1>0, <2>1, <2>2 DEF TypeOK, streamVars, sendVars
    <2>4. Control'
      BY <1>0, <2>1, <2>2, LockTaken
    <2> QED BY <2>2, <2>3, <2>4 DEF ConnInv, Control
  <1>5. CASE CallClose(a)
    <2>1. pc[a] = "running" /\ UNCHANGED <<lock, sending, stop, panicked, closedOut>>
      BY <1>0, <1>5 DEF CallClose, connVars, chanVars
    <2>2. Queued' /\ pc' \in [Goroutines -> PCs] /\ pc' = [pc EXCEPT ![a] = "close"]
      BY <1>0, <1>5, <2>1, Moves, BlockedStates DEF CallClose, PCs, chanVars
    <2>3. TypeOK'
      BY <1>0, <1>5, <2>1, <2>2 DEF CallClose, TypeOK, connVars, chanVars, streamVars, sendVars
    <2>4. Control'
      BY <1>0, <2>1, <2>2 DEF TypeOK, Control, Holding, Erring, Handshake,
         OutputsLast, LockHeldInside, CheckedSendsSafe, Locked, Closing, TornDown
    <2> QED BY <2>2, <2>3, <2>4 DEF ConnInv, Control
  <1>6. CASE WriteResponse(a, "running")
    <2>1. pc[a] = "running" /\ UNCHANGED <<connVars, closedOut, sendVars, back, stream>> /\ header' \subseteq Apps
      BY <1>0, <1>6 DEF WriteResponse, TypeOK, streamVars
    <2>2. /\ output' \in [Priorities -> Seq(Goroutines)] /\ pc' \in [Goroutines -> PCs]
          /\ panicked' \subseteq PCs /\ Queued'
          /\ \/ pc' = pc /\ panicked' = panicked \cup {"running"}
             \/ pc' = [pc EXCEPT ![a] = "data"] /\ panicked' = panicked
      <3>1. CASE stream[a] = "closed"
        BY <1>0, <1>6, <2>1, <3>1, QueuesKept DEF WriteResponse, TypeOK, PCs
      <3>2. CASE stream[a] # "closed"
        BY <1>0, <1>6, <2>1, <3>2, Moves, BlockedStates DEF WriteResponse, PCs, TypeOK
      <3> QED BY <3>1, <3>2
    <2>3. TypeOK'
      BY <1>0, <2>1, <2>2 DEF TypeOK, connVars, sendVars
    <2>4. Control'
      BY <1>0, <2>1, <2>2 DEF TypeOK, Control, Holding, Erring, Handshake,
         OutputsLast, LockHeldInside, CheckedSendsSafe, Locked, Closing, TornDown, connVars
    <2> QED BY <2>2, <2>3, <2>4 DEF ConnInv, Control
  <1>7. CASE RunEnd(a)
    <2>1. pc[a] = "running" /\ UNCHANGED <<connVars, closedOut, sendVars, back, stream>> /\ header' \subseteq Apps
      BY <1>0, <1>7 DEF RunEnd, TypeOK, streamVars
    <2>2. /\ output' \in [Priorities -> Seq(Goroutines)] /\ pc' \in [Goroutines -> PCs]
          /\ panicked' \subseteq PCs /\ Queued'
          /\ \/ pc' = pc /\ panicked' = panicked \cup {"running"}
             \/ pc' = [pc EXCEPT ![a] = "data"] /\ panicked' = panicked
      <3>1. CASE stream[a] = "closed"
        BY <1>0, <1>7, <2>1, <3>1, QueuesKept DEF RunEnd, TypeOK, PCs
      <3>2. CASE stream[a] # "closed"
        BY <1>0, <1>7, <2>1, <3>2, Moves, BlockedStates DEF RunEnd, PCs, TypeOK
      <3> QED BY <3>1, <3>2
    <2>3. TypeOK'
      BY <1>0, <2>1, <2>2 DEF TypeOK, connVars, sendVars
    <2>4. Control'
      BY <1>0, <2>1, <2>2 DEF TypeOK, Control, Holding, Erring, Handshake,
         OutputsLast, LockHeldInside, CheckedSendsSafe, Locked, Closing, TornDown, connVars
    <2> QED BY <2>2, <2>3, <2>4 DEF ConnInv, Control
  <1>8. CASE IDsExhausted(a)
    <2>1. pc[a] = "running" /\ lock = NoOne /\ lock' = a
          /\ UNCHANGED <<sending, stop, panicked, closedOut>>
      BY <1>0, <1>8 DEF IDsExhausted, CanLock, chanVars
    <2>2. Queued' /\ pc' \in [Goroutines -> PCs] /\ pc' = [pc EXCEPT ![a] = "exhausted"]
      BY <1>0, <1>8, <2>1, Moves, BlockedStates DEF IDsExhausted, PCs, chanVars
    <2>3. TypeOK'
      BY <1>0, <1>8, <2>1, <2>2 DEF IDsExhausted, TypeOK, connVars, chanVars, streamVars, sendVars
    <2>4. Control'
      BY <1>0, <2>1, <2>2 DEF TypeOK, Control, Holding, Erring, Handshake,
         OutputsLast, LockHeldInside, CheckedSendsSafe, Locked, Closing, TornDown
    <2> QED BY <2>2, <2>3, <2>4 DEF ConnInv, Control
  <1> QED BY <1>1, <1>2, <1>3, <1>4, <1>5, <1>6, <1>7, <1>8 DEF AppCall

LEMMA AppStepPreserves ==
  ASSUME ConnInv, panicked = {}, NEW a \in Apps, AppStep(a)
  PROVE  ConnInv'
  <1> USE Constants
  <1>0. TypeOK /\ Queued /\ Control /\ a \in Goroutines /\ a # Reader
    BY DEF ConnInv, Control
  <1>1. CASE Flush(a)
    <2>1. pc[a] = "flush" /\ header' \subseteq Apps /\ UNCHANGED <<connVars, stream, sendVars, back>>
      BY <1>0, <1>1 DEF Flush, TypeOK
    <2>2. /\ output' \in [Priorities -> Seq(Goroutines)] /\ pc' \in [Goroutines -> PCs]
          /\ panicked' \subseteq PCs /\ closedOut' = closedOut /\ Queued'
          /\ \/ pc' = pc /\ panicked' = panicked \cup {"flushing"} /\ StreamPriority[a] < closedOut
             \/ pc' = [pc EXCEPT ![a] = "flushing"] /\ panicked' = panicked
             \/ pc' = [pc EXCEPT ![a] = "data"] /\ panicked' = panicked
      <3>1. CASE a \in header
        BY <1>0, <1>1, <2>1, <3>1, OfferJoins, BlockedStates DEF Flush
      <3>2. CASE a \notin header
        BY <1>0, <1>1, <2>1, <3>2, Moves, BlockedStates DEF Flush, PCs, chanVars, TypeOK
      <3> QED BY <3>1, <3>2
    <2>3. TypeOK'
      BY <1>0, <2>1, <2>2 DEF TypeOK, connVars, sendVars
    <2>4. Control'
      BY <1>0, <2>1, <2>2 DEF TypeOK, Control, Holding, Erring, Handshake,
         OutputsLast, LockHeldInside, CheckedSendsSafe, Locked, Closing, TornDown, connVars
    <2> QED BY <2>2, <2>3, <2>4 DEF ConnInv, Control
  <1>2. CASE Data(a)
    <2> DEFINE at == IF pc[a] = "data" THEN "writing" ELSE "responding"
    <2>1. /\ pc[a] \in {"response", "data"} /\ UNCHANGED <<connVars, streamVars, sendVars, back>>
          /\ at \in {"writing", "responding"}
      BY <1>0, <1>2 DEF Data
    <2>2. /\ output' \in [Priorities -> Seq(Goroutines)] /\ pc' \in [Goroutines -> PCs]
          /\ panicked' \subseteq PCs /\ closedOut' = closedOut /\ Queued'
          /\ \/ pc' = pc /\ panicked' = panicked \cup {at} /\ StreamPriority[a] < closedOut
             \/ pc' = [pc EXCEPT ![a] = at] /\ panicked' = panicked
             \/ pc' = [pc EXCEPT ![a] = "stuck"] /\ panicked' = panicked
      <3>1. CASE stream[a] # "closed"
        <4>1. Offer(a, StreamPriority[a], at)
          BY <1>2, <3>1 DEF Data
        <4>2. at \in Blocked /\ pc[a] \notin Blocked
          BY <2>1, BlockedStates
        <4> HIDE DEF at
        <4> QED BY <1>0, <4>1, <4>2, OfferJoins
      <3>2. CASE stream[a] = "closed"
        BY <1>0, <1>2, <2>1, <3>2, Moves, BlockedStates DEF Data, PCs, chanVars, TypeOK
      <3> QED BY <3>1, <3>2
    <2>3. TypeOK'
      BY <1>0, <2>1, <2>2 DEF TypeOK, connVars, streamVars, sendVars
    <2>4. Control'
      BY <1>0, <2>1, <2>2 DEF TypeOK, Control, Holding, Erring, Handshake,
         OutputsLast, LockHeldInside, CheckedSendsSafe, Locked, Closing, TornDown, connVars
    <2> QED BY <2>2, <2>3, <2>4 DEF ConnInv, Control
  <1>3. CASE SendBody(a)
    <2>1. pc[a] = "sent"
          /\ UNCHANGED <<connVars, streamVars, sendVars, back>>
      BY <1>0, <1>3 DEF SendBody
    <2>2. /\ output' \in [Priorities -> Seq(Goroutines)] /\ pc' \in [Goroutines -> PCs]
          /\ panicked' \subseteq PCs /\ closedOut' = closedOut /\ Queued'
          /\ \/ pc' = pc /\ panicked' = panicked \cup {"body"} /\ 0 < closedOut
             \/ pc' = [pc EXCEPT ![a] = "body"] /\ panicked' = panicked
      BY <1>0, <1>3, <2>1, OfferJoins, BlockedStates DEF SendBody
    <2>3. TypeOK'
      BY <1>0, <2>1, <2>2 DEF TypeOK, connVars, streamVars, sendVars
    <2>4. Control'
      BY <1>0, <2>1, <2>2 DEF TypeOK, Control, Holding, Erring, Handshake,
         OutputsLast, LockHeldInside, CheckedSendsSafe, Locked, Closing, TornDown, connVars
    <2> QED BY <2>2, <2>3, <2>4 DEF ConnInv, Control
  <1>4. CASE Announced(a)
    <2>1. pc[a] \in {"sent", "bodySent"} /\ lock' = NoOne /\ UNCHANGED <<sending, stop, panicked, closedOut>>
      BY <1>0, <1>4 DEF Announced, Unlocked, chanVars
    <2>2. Queued' /\ pc' \in [Goroutines -> PCs] /\ pc' = [pc EXCEPT ![a] = "register"]
      BY <1>0, <1>4, <2>1, Moves, BlockedStates DEF Announced, PCs, chanVars
    <2>3. TypeOK'
      BY <1>0, <1>4, <2>1, <2>2 DEF Announced, TypeOK, connVars, chanVars, streamVars, sendVars
    <2>4. Control'
      BY <1>0, <2>1, <2>2 DEF TypeOK, Control, Holding, Erring, Handshake,
         OutputsLast, LockHeldInside, CheckedSendsSafe, Locked, Closing, TornDown
    <2> QED BY <2>2, <2>3, <2>4 DEF ConnInv, Control
  <1>5. CASE Register(a)
    <2>1. pc[a] = "register" /\ UNCHANGED <<connVars, output, closedOut, header, sendVars, back>>
      BY <1>0, <1>5 DEF Register
    <2>2. Queued' /\ pc' \in [Goroutines -> PCs]
          /\ \/ pc' = pc /\ panicked' = panicked \cup {"register"} /\ stream' = stream
             \/ /\ pc' = [pc EXCEPT ![a] = "running"] /\ panicked' = panicked
                /\ stream' = [stream EXCEPT ![a] = IF @ = "none" THEN "open" ELSE @]
      <3>1. CASE StreamsNil
        BY <1>0, <1>5, <2>1, <3>1, QueuesKept DEF Register, TypeOK
      <3>2. CASE ~StreamsNil
        BY <1>0, <1>5, <2>1, <3>2, Moves, BlockedStates DEF Register, PCs
      <3> QED BY <3>1, <3>2
    <2>3. TypeOK'
      BY <1>0, <2>1, <2>2 DEF TypeOK, PCs, connVars, sendVars
    <2>4. Control'
      BY <1>0, <2>1, <2>2 DEF TypeOK, Control, Holding, Erring, Handshake,
         OutputsLast, LockHeldInside, CheckedSendsSafe, Locked, Closing, TornDown, connVars
    <2> QED BY <2>2, <2>3, <2>4 DEF ConnInv, Control
  <1>6. CASE Unlock(a)
    <2>1. pc[a] = "unlock" /\ lock' = NoOne /\ UNCHANGED <<sending, stop, panicked, closedOut>>
      BY <1>0, <1>6 DEF Unlock, chanVars
    <2>2. Queued' /\ pc' \in [Goroutines -> PCs] /\ pc' = [pc EXCEPT ![a] = "running"]
      BY <1>0, <1>6, <2>1, Moves, BlockedStates DEF Unlock, PCs, chanVars
    <2>3. TypeOK'
      BY <1>0, <1>6, <2>1, <2>2 DEF Unlock, TypeOK, connVars, chanVars, streamVars, sendVars
    <2>4. Control'
      BY <1>0, <2>1, <2>2 DEF TypeOK, Control, Holding, Erring, Handshake,
         OutputsLast, LockHeldInside, CheckedSendsSafe, Locked, Closing, TornDown
    <2> QED BY <2>2, <2>3, <2>4 DEF ConnInv, Control
  <1>7. CASE WriteResponse(a, "respond")
    <2>1. pc[a] = "respond" /\ UNCHANGED <<connVars, closedOut, sendVars, back, stream>> /\ header' \subseteq Apps
      BY <1>0, <1>7 DEF WriteResponse, TypeOK, streamVars
    <2>2. /\ output' \in [Priorities -> Seq(Goroutines)] /\ pc' \in [Goroutines -> PCs]
          /\ panicked' \subseteq PCs /\ Queued'
          /\ \/ pc' = pc /\ panicked' = panicked \cup {"respond"}
             \/ pc' = [pc EXCEPT ![a] = "response"] /\ panicked' = panicked
      <3>1. CASE stream[a] = "closed"
        BY <1>0, <1>7, <2>1, <3>1, QueuesKept DEF WriteResponse, TypeOK, PCs
      <3>2. CASE stream[a] # "closed"
        BY <1>0, <1>7, <2>1, <3>2, Moves, BlockedStates DEF WriteResponse, PCs, TypeOK
      <3> QED BY <3>1, <3>2
    <2>3. TypeOK'
      BY <1>0, <2>1, <2>2 DEF TypeOK, connVars, sendVars
    <2>4. Control'
      BY <1>0, <2>1, <2>2 DEF TypeOK, Control, Holding, Erring, Handshake,
         OutputsLast, LockHeldInside, CheckedSendsSafe, Locked, Closing, TornDown, connVars
    <2> QED BY <2>2, <2>3, <2>4 DEF ConnInv, Control
  <1>8. CASE Exhausted(a)
    <2>1. pc[a] = "exhausted" /\ lock' = NoOne /\ UNCHANGED <<sending, stop, panicked, closedOut>>
      BY <1>0, <1>8 DEF Exhausted, UnlockedFirst, chanVars
    <2>2. Queued' /\ pc' \in [Goroutines -> PCs] /\ pc' = [pc EXCEPT ![a] = "running"]
      BY <1>0, <1>8, <2>1, Moves, BlockedStates DEF Exhausted, PCs, chanVars
    <2>3. TypeOK'
      BY <1>0, <1>8, <2>1, <2>2 DEF Exhausted, TypeOK, connVars, chanVars, streamVars, sendVars
    <2>4. Control'
      BY <1>0, <2>1, <2>2 DEF TypeOK, Control, Holding, Erring, Handshake,
         OutputsLast, LockHeldInside, CheckedSendsSafe, Locked, Closing, TornDown
    <2> QED BY <2>2, <2>3, <2>4 DEF ConnInv, Control
  <1> QED BY <1>1, <1>2, <1>3, <1>4, <1>5, <1>6, <1>7, <1>8 DEF AppStep

LEMMA ReaderFramePreserves ==
  ASSUME ConnInv, panicked = {}, ReaderFrame
  PROVE  ConnInv'
  <1> USE Constants
  <1>0. TypeOK /\ Queued /\ Control
    BY DEF ConnInv, Control
  <1>1. CASE ReplyPing
    <2>1. pc[Reader] = "running"
          /\ UNCHANGED <<connVars, streamVars, sendVars, back>>
      BY <1>0, <1>1 DEF ReplyPing
    <2>2. /\ output' \in [Priorities -> Seq(Goroutines)] /\ pc' \in [Goroutines -> PCs]
          /\ panicked' \subseteq PCs /\ closedOut' = closedOut /\ Queued'
          /\ \/ pc' = pc /\ panicked' = panicked \cup {"replying"} /\ 0 < closedOut
             \/ pc' = [pc EXCEPT ![Reader] = "replying"] /\ panicked' = panicked
      BY <1>0, <1>1, <2>1, OfferJoins, BlockedStates DEF ReplyPing
    <2>3. TypeOK'
      BY <1>0, <2>1, <2>2 DEF TypeOK, connVars, streamVars, sendVars
    <2>4. Control'
      BY <1>0, <2>1, <2>2 DEF TypeOK, Control, Holding, Erring, Handshake,
         OutputsLast, LockHeldInside, CheckedSendsSafe, Locked, Closing, TornDown, connVars
    <2> QED BY <2>2, <2>3, <2>4 DEF ConnInv, Control
  <1>2. CASE RefusePush
    <2>1. pc[Reader] = "running" /\ lock = NoOne /\ lock' = Reader /\ ~stop
          /\ UNCHANGED <<sending, stop, streamVars, sendVars, back>>
      BY <1>0, <1>2 DEF RefusePush, CanLock, PushClosed, Closed
    <2>2. /\ output' \in [Priorities -> Seq(Goroutines)] /\ pc' \in [Goroutines -> PCs]
          /\ panicked' \subseteq PCs /\ closedOut' = closedOut /\ Queued'
          /\ \/ pc' = pc /\ panicked' = panicked \cup {"refusing"} /\ 0 < closedOut
             \/ pc' = [pc EXCEPT ![Reader] = "refusing"] /\ panicked' = panicked
      BY <1>0, <1>2, <2>1, OfferJoins, BlockedStates DEF RefusePush
    <2>3. TypeOK'
      BY <1>0, <2>1, <2>2 DEF TypeOK, streamVars, sendVars
    <2>4. Control'
      BY <1>0, <2>1, <2>2, LockTaken
    <2> QED BY <2>2, <2>3, <2>4 DEF ConnInv, Control
  <1>3. CASE HandlerProtocolError
    <2>1. pc[Reader] = "running" /\ lock = NoOne /\ lock' = Reader
          /\ UNCHANGED <<sending, stop, streamVars, sendVars, back>>
      BY <1>0, <1>3 DEF HandlerProtocolError, CanLock
    <2>2. /\ output' \in [Priorities -> Seq(Goroutines)] /\ pc' \in [Goroutines -> PCs]
          /\ panicked' \subseteq PCs /\ closedOut' = closedOut /\ Queued'
          /\ \/ pc' = pc /\ panicked' = panicked \cup {"erring"} /\ 0 < closedOut
             \/ pc' = [pc EXCEPT ![Reader] = "erring"] /\ panicked' = panicked
      BY <1>0, <1>3, <2>1, OfferJoins, BlockedStates DEF HandlerProtocolError
    <2>3. TypeOK'
      BY <1>0, <2>1, <2>2 DEF TypeOK, streamVars, sendVars
    <2>4. Control'
      BY <1>0, <2>1, <2>2, LockTaken
    <2> QED BY <2>2, <2>3, <2>4 DEF ConnInv, Control
  <1>4. CASE LoopProtocolError
    <2>1. pc[Reader] = "running" /\ back' = "running"
          /\ UNCHANGED <<connVars, streamVars, sendVars>>
      BY <1>0, <1>4 DEF LoopProtocolError
    <2>2. /\ output' \in [Priorities -> Seq(Goroutines)] /\ pc' \in [Goroutines -> PCs]
          /\ panicked' \subseteq PCs /\ closedOut' = closedOut /\ Queued'
          /\ \/ pc' = pc /\ panicked' = panicked \cup {"failing"} /\ 0 < closedOut
             \/ pc' = [pc EXCEPT ![Reader] = "failing"] /\ panicked' = panicked
      BY <1>0, <1>4, <2>1, OfferJoins, BlockedStates DEF LoopProtocolError
    <2>3. TypeOK'
      BY <1>0, <2>1, <2>2 DEF TypeOK, connVars, streamVars, sendVars
    <2>4. Control'
      BY <1>0, <2>1, <2>2 DEF TypeOK, Control, Holding, Erring, Handshake,
         OutputsLast, LockHeldInside, CheckedSendsSafe, Locked, Closing, TornDown, connVars
    <2> QED BY <2>2, <2>3, <2>4 DEF ConnInv, Control
  <1>5. CASE ReadEnd
    <2>1. pc[Reader] = "running" /\ UNCHANGED <<lock, sending, stop, panicked, closedOut>>
      BY <1>0, <1>5 DEF ReadEnd, connVars, chanVars
    <2>2. Queued' /\ pc' \in [Goroutines -> PCs] /\ pc' = [pc EXCEPT ![Reader] = "close"]
      BY <1>0, <1>5, <2>1, Moves, BlockedStates DEF ReadEnd, PCs, chanVars
    <2>3. TypeOK'
      BY <1>0, <1>5, <2>1, <2>2 DEF ReadEnd, TypeOK, connVars, chanVars, streamVars, sendVars
    <2>4. Control'
      BY <1>0, <2>1, <2>2 DEF TypeOK, Control, Holding, Erring, Handshake,
         OutputsLast, LockHeldInside, CheckedSendsSafe, Locked, Closing, TornDown
    <2> QED BY <2>2, <2>3, <2>4 DEF ConnInv, Control
  <1>6. CASE \E a \in Apps : OpenStream(a)
    <2>1. TypeOK'
      BY <1>0, <1>6 DEF OpenStream, TypeOK, connVars, chanVars, sendVars
    <2>2. Queued'
      BY <1>0, <1>6, QueuesKept DEF OpenStream, chanVars
    <2>3. Control'
      BY <1>0, <1>6 DEF TypeOK, Control, Holding, Erring, Handshake,
         OutputsLast, LockHeldInside, CheckedSendsSafe, Locked, Closing, TornDown, OpenStream, connVars, chanVars
    <2> QED BY <2>1, <2>2, <2>3 DEF ConnInv, Control
  <1>7. CASE \E a \in Apps : ResetStream(a)
    <2>1. PICK a \in Apps : ResetStream(a)
      BY <1>7
    <2>2. /\ pc[Reader] = "running" /\ lock = NoOne /\ closedOut = 0
          /\ lock' = IF a \in header THEN Reader ELSE lock
          /\ UNCHANGED <<sending, stop, sendVars, back>>
      BY <1>0, <2>1 DEF ResetStream, CanLock, StreamsNil, TypeOK
    <2>3. stream' \in [Apps -> {"none", "open", "closing", "closed"}] /\ header' \subseteq Apps
      BY <1>0, <2>1 DEF ResetStream, CloseStream, TypeOK
    <2>4. /\ output' \in [Priorities -> Seq(Goroutines)] /\ pc' \in [Goroutines -> PCs]
          /\ panicked' = panicked /\ closedOut' = closedOut /\ Queued'
          /\ \/ pc' = [pc EXCEPT ![Reader] = "resetting"] /\ lock' = Reader
             \/ pc' = [pc EXCEPT ![Reader] = "running"] /\ lock' = lock
      <3>1. CASE a \in header
        <4>1. StreamPriority[a] \in Priorities /\ ~(StreamPriority[a] < closedOut)
          <5>1. closedOut = 0
            BY <2>2
          <5>2. StreamPriority[a] \in Nat
            BY ConnAssumption
          <5> QED BY <5>1, <5>2
        <4>2. Offer(Reader, StreamPriority[a], "resetting") /\ lock' = Reader
          BY <2>1, <2>2, <3>1 DEF ResetStream, CloseStream
        <4> QED BY <1>0, <2>2, <4>1, <4>2, OfferJoins, BlockedStates
      <3>2. CASE a \notin header
        BY <1>0, <2>1, <2>2, <3>2, Moves, BlockedStates
        DEF ResetStream, CloseStream, PCs, chanVars, TypeOK
      <3> QED BY <3>1, <3>2
    <2>5. TypeOK'
      BY <1>0, <2>2, <2>3, <2>4 DEF TypeOK, sendVars
    <2>6. Control'
      BY <1>0, <2>2, <2>4 DEF TypeOK, Control, Holding, Erring, Handshake,
         OutputsLast, LockHeldInside, CheckedSendsSafe, Locked, Closing, TornDown
    <2> QED BY <2>4, <2>5, <2>6 DEF ConnInv, Control
  <1> QED BY <1>1, <1>2, <1>3, <1>4, <1>5, <1>6, <1>7 DEF ReaderFrame

LEMMA ReaderStepPreserves ==
  ASSUME ConnInv, panicked = {}, ReaderStep
  PROVE  ConnInv'
  <1> USE Constants
  <1>0. TypeOK /\ Queued /\ Control
    BY DEF ConnInv, Control
  <1>1. CASE StreamReset
    <2>1. pc[Reader] = "reset" /\ lock' = NoOne /\ UNCHANGED <<sending, stop, panicked, closedOut>>
      BY <1>0, <1>1 DEF StreamReset, chanVars
    <2>2. Queued' /\ pc' \in [Goroutines -> PCs] /\ pc' = [pc EXCEPT ![Reader] = "running"]
      BY <1>0, <1>1, <2>1, Moves, BlockedStates DEF StreamReset, PCs, chanVars
    <2>3. TypeOK'
      BY <1>0, <1>1, <2>1, <2>2 DEF StreamReset, TypeOK, StreamClosed, chanVars, sendVars
    <2>4. Control'
      BY <1>0, <2>1, <2>2 DEF TypeOK, Control, Holding, Erring, Handshake,
         OutputsLast, LockHeldInside, CheckedSendsSafe, Locked, Closing, TornDown
    <2> QED BY <2>2, <2>3, <2>4 DEF ConnInv, Control
  <1>2. CASE Unlock(Reader)
    <2>1. pc[Reader] = "unlock" /\ lock' = NoOne /\ UNCHANGED <<sending, stop, panicked, closedOut>>
      BY <1>0, <1>2 DEF Unlock, chanVars
    <2>2. Queued' /\ pc' \in [Goroutines -> PCs] /\ pc' = [pc EXCEPT ![Reader] = "running"]
      BY <1>0, <1>2, <2>1, Moves, BlockedStates DEF Unlock, PCs, chanVars
    <2>3. TypeOK'
      BY <1>0, <1>2, <2>1, <2>2 DEF Unlock, TypeOK, chanVars, streamVars, sendVars
    <2>4. Control'
      BY <1>0, <2>1, <2>2 DEF TypeOK, Control, Holding, Erring, Handshake,
         OutputsLast, LockHeldInside, CheckedSendsSafe, Locked, Closing, TornDown
    <2> QED BY <2>2, <2>3, <2>4 DEF ConnInv, Control
  <1> QED BY <1>1, <1>2 DEF ReaderStep

\* The sender takes a frame, in its polls or in its select.
LEMMA FrameTaken ==
  ASSUME TypeOK, Queued, Control, panicked = {}, NEW p \in Priorities, output[p] # <<>>,
         pc[Sender] \in {"poll", "select"}, Receive(p),
         UNCHANGED <<lock, sending, stop, closedOut, panicked, stream, header, poll, back>>
  PROVE  ConnInv'
  <1> USE Constants
  <1>1. /\ output' \in [Priorities -> Seq(Goroutines)] /\ due' \subseteq Goroutines
        /\ overtaken' \in [Goroutines -> 0 .. 2] /\ Queued'
        /\ \E g \in Goroutines :
             /\ g # Sender /\ pc[g] \in Blocked
             /\ pc' = [pc EXCEPT ![g] = Resume[pc[g]], ![Sender] = "frame"]
    BY ReceiveTakes, BlockedStates
  <1>2. PICK g \in Goroutines :
          /\ g # Sender /\ pc[g] \in Blocked
          /\ pc' = [pc EXCEPT ![g] = Resume[pc[g]], ![Sender] = "frame"]
    BY <1>1
  <1>3. /\ Resume[pc[g]] \in PCs \ Blocked
        /\ pc[g] \in Locked => Resume[pc[g]] \in Locked \/ pc[g] = "erring"
        /\ Resume[pc[g]] \in Locked => pc[g] \in Locked
        /\ Resume[pc[g]] \notin {"await", "stop", "socket", "outputs"}
        /\ Resume[pc[g]] = "streams" => pc[g] = "headers"
        /\ pc[g] = "erring" => Resume[pc[g]] = "close"
    BY <1>2, Resumption DEF Resume
  <1>4. TypeOK'
    BY <1>1, <1>2, <1>3 DEF TypeOK, PCs, SenderPCs
  <1>5. Control'
    <2>1. /\ pc'[Sender] = "frame" /\ pc'[g] = Resume[pc[g]]
          /\ \A h \in Goroutines : h # g /\ h # Sender => pc'[h] = pc[h]
      BY <1>2 DEF TypeOK
    <2>2. sending # "closed" /\ ~stop
      BY DEF Control, Handshake
    <2>3. Holding' /\ LockHeldInside' /\ Erring'
      BY <1>2, <1>3, <2>1, BlockedStates DEF TypeOK, Control, Holding, LockHeldInside, Erring, Locked, Closing
    <2>4. Handshake'
      BY <1>2, <1>3, <2>1, <2>2, BlockedStates DEF TypeOK, Control, Handshake, TornDown
    <2> QED BY <2>2, <2>3, <2>4 DEF Control, OutputsLast, CheckedSendsSafe
  <1> QED BY <1>1, <1>4, <1>5 DEF ConnInv, Control

LEMMA SendLoopPreserves ==
  ASSUME ConnInv, panicked = {}, SendLoop
  PROVE  ConnInv'
  <1> USE Constants
  <1>0. TypeOK /\ Queued /\ Control
    BY DEF ConnInv, Control
  <1>1. CASE SenderTop
    <2>1. pc[Sender] = "top" /\ UNCHANGED <<lock, sending, stop, panicked, closedOut>>
      BY <1>0, <1>1 DEF SenderTop, connVars, chanVars
    <2>2. PICK at \in {"close", "poll"} : Goto(Sender, at)
      BY <1>1 DEF SenderTop
    <2>3. Queued' /\ pc' \in [Goroutines -> PCs] /\ pc' = [pc EXCEPT ![Sender] = at]
      BY <1>0, <1>1, <2>1, <2>2, Moves, BlockedStates DEF SenderTop, PCs, SenderPCs, chanVars
    <2>4. TypeOK'
      BY <1>0, <1>1, <2>1, <2>3 DEF SenderTop, FirstPoll, TypeOK, connVars, chanVars, streamVars
    <2>5. Control'
      BY <1>0, <2>1, <2>3 DEF TypeOK, Control, Holding, Erring, Handshake,
         OutputsLast, LockHeldInside, CheckedSendsSafe, Locked, Closing, TornDown
    <2> QED BY <2>3, <2>4, <2>5 DEF ConnInv, Control
  <1>2. CASE SenderPoll
    <2>1. pc[Sender] = "poll" /\ poll \in Priorities /\ poll \in Nat
          /\ UNCHANGED <<connVars, closedOut, panicked, streamVars, back>>
      BY <1>0, <1>2 DEF SenderPoll, TypeOK
    <2>2. CASE output[poll] # <<>>
      <3>1. Receive(poll) /\ poll' = poll
        BY <1>2, <2>2 DEF SenderPoll
      <3> QED BY <1>0, <2>1, <2>2, <3>1, FrameTaken DEF connVars, streamVars
    <2>3. CASE output[poll] = <<>> /\ PollAgain
      <3>1. UNCHANGED <<output, due, overtaken, pc>> /\ poll' \in Priorities
        BY <1>2, <2>1, <2>3 DEF SenderPoll, PollAgain
      <3>2. Queued'
        BY <1>0, <3>1, QueuesKept
      <3>3. TypeOK'
        BY <1>0, <2>1, <3>1 DEF TypeOK, connVars, streamVars
      <3>4. Control'
        BY <1>0, <2>1, <3>1 DEF TypeOK, Control, Holding, Erring, Handshake,
         OutputsLast, LockHeldInside, CheckedSendsSafe, Locked, Closing, TornDown, connVars
      <3> QED BY <3>2, <3>3, <3>4 DEF ConnInv, Control
    <2>4. CASE output[poll] = <<>> /\ ~PollAgain
      <3>1. UNCHANGED <<output, due, overtaken>> /\ poll' = 0 /\ Goto(Sender, "check")
        BY <1>2, <2>4 DEF SenderPoll, FirstPoll
      <3>2. Queued' /\ pc' \in [Goroutines -> PCs] /\ pc' = [pc EXCEPT ![Sender] = "check"]
        BY <1>0, <2>1, <3>1, Moves, BlockedStates DEF PCs, SenderPCs
      <3>3. TypeOK'
        BY <1>0, <2>1, <3>1, <3>2 DEF TypeOK, connVars, streamVars
      <3>4. Control'
        BY <1>0, <2>1, <3>2 DEF TypeOK, Control, Holding, Erring, Handshake,
         OutputsLast, LockHeldInside, CheckedSendsSafe, Locked, Closing, TornDown, connVars
      <3> QED BY <3>2, <3>3, <3>4 DEF ConnInv, Control
    <2> QED BY <2>2, <2>3, <2>4
  <1>3. CASE SenderCheck
    <2>1. pc[Sender] = "check" /\ UNCHANGED <<lock, stop, panicked, closedOut>>
          /\ \/ sending # "nil" /\ sending' = "closed" /\ Goto(Sender, "gone")
             \/ sending = "nil" /\ sending' = sending /\ Goto(Sender, "select")
      BY <1>0, <1>3 DEF SenderCheck, DrainAsked, chanVars
    <2>2. /\ Queued' /\ pc' \in [Goroutines -> PCs]
          /\ \/ sending # "nil" /\ sending' = "closed" /\ pc' = [pc EXCEPT ![Sender] = "gone"]
             \/ sending = "nil" /\ sending' = sending /\ pc' = [pc EXCEPT ![Sender] = "select"]
      BY <1>0, <1>3, <2>1, Moves, BlockedStates DEF SenderCheck, PCs, SenderPCs, chanVars
    <2>3. TypeOK'
      BY <1>0, <1>3, <2>1, <2>2 DEF SenderCheck, TypeOK, chanVars, streamVars, sendVars
    <2>4. Control'
      BY <1>0, <2>1, <2>2 DEF TypeOK, Control, Holding, Erring, Handshake,
         OutputsLast, LockHeldInside, CheckedSendsSafe, Locked, Closing, TornDown
    <2> QED BY <2>2, <2>3, <2>4 DEF ConnInv, Control
  <1>4. CASE SenderSelect
    <2>1. pc[Sender] = "select" /\ UNCHANGED <<connVars, closedOut, panicked, streamVars, poll, back>>
      BY <1>4 DEF SenderSelect
    <2>2. ~stop
      BY <1>0, <2>1 DEF Control, Handshake
    <2>3. PICK ready \in Priorities : output[ready] # <<>> /\ Receive(ready)
      BY <1>4, <2>2 DEF SenderSelect, Closed
    <2> QED BY <1>0, <2>1, <2>3, FrameTaken DEF connVars, streamVars, TypeOK
  <1>5. CASE SenderFrame
    <2>1. pc[Sender] = "frame" /\ UNCHANGED <<lock, sending, stop, panicked, closedOut>>
      BY <1>0, <1>5 DEF SenderFrame, connVars, chanVars
    <2>2. PICK at \in {"top", "close"} : Goto(Sender, at)
      BY <1>5 DEF SenderFrame
    <2>3. Queued' /\ pc' \in [Goroutines -> PCs] /\ pc' = [pc EXCEPT ![Sender] = at]
      BY <1>0, <1>5, <2>1, <2>2, Moves, BlockedStates DEF SenderFrame, PCs, SenderPCs, chanVars
    <2>4. TypeOK'
      BY <1>0, <1>5, <2>3 DEF SenderFrame, TypeOK, connVars, chanVars, streamVars, sendVars
    <2>5. Control'
      BY <1>0, <2>1, <2>3 DEF TypeOK, Control, Holding, Erring, Handshake,
         OutputsLast, LockHeldInside, CheckedSendsSafe, Locked, Closing, TornDown
    <2> QED BY <2>3, <2>4, <2>5 DEF ConnInv, Control
  <1> QED BY <1>1, <1>2, <1>3, <1>4, <1>5 DEF SendLoop

\* Whoever waits in a queue is a goroutine.
LEMMA AllWaiting == TypeOK => Ahead \subseteq Goroutines
  <1> SUFFICES ASSUME TypeOK PROVE Ahead \subseteq Goroutines
    OBVIOUS
  <1>1. \A p \in Priorities : ToSet(output[p]) \subseteq Goroutines
    BY DEF TypeOK, ToSet
  <1> QED BY <1>1 DEF Ahead

LEMMA CloseStepPreserves ==
  ASSUME ConnInv, panicked = {}, NEW g \in Goroutines, CloseStep(g)
  PROVE  ConnInv'
  <1> USE Constants
  <1>0. TypeOK /\ Queued /\ Control
    BY DEF ConnInv, Control
  <1>1. CASE CloseBegin(g)
    <2>1. pc[g] = "close" /\ lock = NoOne /\ UNCHANGED <<stop, panicked, closedOut, output, poll, overtaken, back>>
      BY <1>0, <1>1 DEF CloseBegin, CanLock, chanVars
    <2>2. /\ sending' \in {"nil", "open", "closed"} /\ due' \subseteq Goroutines
          /\ \/ /\ stop /\ lock' = lock /\ sending' = sending
                /\ \E at \in {"gone", "running", "returned"} : Goto(g, at)
             \/ /\ ~stop /\ sending = "nil" /\ sending' = "open" /\ lock' = g /\ Goto(g, "await")
             \/ /\ ~stop /\ sending # "nil" /\ sending' = sending /\ lock' = g /\ Goto(g, "stop")
      BY <1>0, <1>1, AllWaiting DEF CloseBegin, Closed, AfterClose, TypeOK
    <2>3. /\ sending = "open" => FALSE
          /\ sending = "closed" => stop
      BY <1>0, <2>1 DEF Control, Handshake
    <2>4. /\ Queued' /\ pc' \in [Goroutines -> PCs]
          /\ \/ /\ stop /\ lock' = lock /\ sending' = sending
                /\ \E at \in {"gone", "running", "returned"} : pc' = [pc EXCEPT ![g] = at]
             \/ /\ ~stop /\ sending = "nil" /\ sending' = "open" /\ lock' = g
                /\ pc' = [pc EXCEPT ![g] = "await"]
      <3>1. pc[g] \notin Blocked /\ {"gone", "running", "returned", "await"} \subseteq PCs
        BY <2>1, BlockedStates DEF PCs, Closing
      <3>2. CASE stop
        BY <1>0, <2>1, <2>2, <3>1, <3>2, Moves
      <3>3. CASE ~stop
        <4>1. sending = "nil"
          BY <1>0, <2>3, <3>3 DEF TypeOK
        <4> QED BY <1>0, <2>1, <2>2, <3>1, <3>3, <4>1, Moves
      <3> QED BY <3>2, <3>3
    <2>5. TypeOK'
      BY <1>0, <1>1, <2>1, <2>2, <2>4 DEF CloseBegin, TypeOK, streamVars
    <2>6. Control'
      BY <1>0, <2>1, <2>3, <2>4 DEF TypeOK, Control, Holding, Erring, Handshake,
         OutputsLast, LockHeldInside, CheckedSendsSafe, Locked, Closing, TornDown
    <2> QED BY <2>4, <2>5, <2>6 DEF ConnInv, Control
  <1>2. CASE CloseAwait(g)
    <2>1. pc[g] = "await" /\ sending = "closed" /\ UNCHANGED <<lock, sending, stop, panicked, closedOut>>
      BY <1>0, <1>2 DEF CloseAwait, Drained, connVars, chanVars
    <2>2. Queued' /\ pc' \in [Goroutines -> PCs] /\ pc' = [pc EXCEPT ![g] = "stop"]
      BY <1>0, <1>2, <2>1, Moves, BlockedStates DEF CloseAwait, PCs, Closing, chanVars
    <2>3. TypeOK'
      BY <1>0, <1>2, <2>1, <2>2 DEF CloseAwait, TypeOK, connVars, chanVars, streamVars, sendVars
    <2>4. Control'
      BY <1>0, <2>1, <2>2 DEF TypeOK, Control, Holding, Erring, Handshake,
         OutputsLast, LockHeldInside, CheckedSendsSafe, Locked, Closing, TornDown
    <2> QED BY <2>2, <2>3, <2>4 DEF ConnInv, Control
  <1>3. CASE CloseStop(g)
    <2>1. pc[g] = "stop" /\ stop' = TRUE /\ UNCHANGED <<lock, sending, panicked, closedOut>>
      BY <1>0, <1>3 DEF CloseStop, chanVars
    <2>2. Queued' /\ pc' \in [Goroutines -> PCs] /\ pc' = [pc EXCEPT ![g] = "socket"]
      BY <1>0, <1>3, <2>1, Moves, BlockedStates DEF CloseStop, PCs, Closing, chanVars
    <2>3. TypeOK'
      BY <1>0, <1>3, <2>1, <2>2 DEF CloseStop, TypeOK, chanVars, streamVars, sendVars
    <2>4. Control'
      BY <1>0, <2>1, <2>2 DEF TypeOK, Control, Holding, Erring, Handshake,
         OutputsLast, LockHeldInside, CheckedSendsSafe, Locked, Closing, TornDown
    <2> QED BY <2>2, <2>3, <2>4 DEF ConnInv, Control
  <1>4. CASE CloseSocket(g)
    <2>1. pc[g] = "socket" /\ UNCHANGED <<sending, stop, panicked, closedOut>>
      BY <1>0, <1>4 DEF CloseSocket, chanVars
    <2>2. \/ Goto(g, "streams") /\ lock' = lock
          \/ lock' = NoOne /\ \E at \in {"gone", "running", "returned"} : Goto(g, at)
      BY <1>0, <1>4 DEF CloseSocket, AfterClose, TypeOK
    <2>3. /\ Queued' /\ pc' \in [Goroutines -> PCs]
          /\ \/ pc' = [pc EXCEPT ![g] = "streams"] /\ lock' = lock
             \/ /\ lock' = NoOne
                /\ \E at \in {"gone", "running", "returned"} : pc' = [pc EXCEPT ![g] = at]
      BY <1>0, <1>4, <2>1, <2>2, Moves, BlockedStates DEF CloseSocket, PCs, Closing, chanVars
    <2>4. TypeOK'
      BY <1>0, <1>4, <2>1, <2>3 DEF CloseSocket, TypeOK, chanVars, streamVars, sendVars
    <2>5. Control'
      <3>1. CASE pc' = [pc EXCEPT ![g] = "streams"] /\ lock' = lock
        BY <1>0, <2>1, <3>1 DEF TypeOK, Control, Holding, Erring, Handshake,
           OutputsLast, LockHeldInside, CheckedSendsSafe, Locked, Closing, TornDown
      <3>2. ASSUME NEW at \in {"gone", "running", "returned"},
                   lock' = NoOne, pc' = [pc EXCEPT ![g] = at]
            PROVE  Control'
        <4>1. Holding' /\ Erring' /\ LockHeldInside' /\ CheckedSendsSafe'
          BY <1>0, <2>1, <3>2 DEF TypeOK, Control, Holding, Erring, LockHeldInside,
             CheckedSendsSafe, Locked, Closing
        <4>2. Handshake'
          BY <1>0, <2>1, <3>2 DEF TypeOK, Control, Handshake, Holding, Locked, Closing, TornDown
        <4>3. OutputsLast'
          BY <1>0, <2>1, <3>2 DEF TypeOK, Control, OutputsLast
        <4> QED BY <4>1, <4>2, <4>3 DEF Control
      <3> QED BY <2>3, <3>1, <3>2
    <2> QED BY <2>3, <2>4, <2>5 DEF ConnInv, Control
  <1>5. CASE CloseStreams(g)
    <2>1. pc[g] = "streams" /\ UNCHANGED <<connVars, sendVars, back>>
      BY <1>5 DEF CloseStreams
    <2>2. closedOut = 0
      BY <1>0, <2>1 DEF Control, OutputsLast, TypeOK
    <2>3. /\ stream' \in [Apps -> {"none", "open", "closing", "closed"}] /\ header' \subseteq Apps
          /\ output' \in [Priorities -> Seq(Goroutines)] /\ pc' \in [Goroutines -> PCs]
          /\ panicked' = panicked /\ closedOut' = closedOut /\ Queued'
          /\ \E at \in {"streams", "headers", "outputs"} : pc' = [pc EXCEPT ![g] = at]
      <3>1. CASE \E a \in Apps : stream[a] = "closing"
        <4>1. StreamClosed /\ UNCHANGED <<chanVars, pc>>
          BY <1>5, <3>1 DEF CloseStreams
        <4>2. Queued'
          BY <1>0, <4>1, QueuesKept DEF chanVars
        <4>3. pc' = [pc EXCEPT ![g] = "streams"]
          BY <1>0, <2>1, <4>1 DEF TypeOK
        <4> QED BY <1>0, <4>1, <4>2, <4>3 DEF StreamClosed, chanVars, TypeOK
      <3>2. CASE /\ ~ \E a \in Apps : stream[a] = "closing"
                 /\ \A a \in Apps : stream[a] # "open"
        <4>1. Goto(g, "outputs") /\ UNCHANGED <<chanVars, streamVars>>
          BY <1>5, <3>2 DEF CloseStreams
        <4> QED BY <1>0, <2>1, <4>1, Moves, BlockedStates
                DEF PCs, Closing, chanVars, streamVars, TypeOK
      <3>3. CASE /\ ~ \E a \in Apps : stream[a] = "closing"
                 /\ ~ \A a \in Apps : stream[a] # "open"
        <4>1. PICK a \in Apps : CloseStream(g, a, "headers", "streams")
          BY <1>5, <3>3 DEF CloseStreams
        <4>2. CASE a \in header
          <5>1. StreamPriority[a] \in Nat /\ StreamPriority[a] \in Priorities
            BY ConnAssumption, Constants
          <5>2. ~(StreamPriority[a] < closedOut)
            BY <2>2, <5>1
          <5>3. Offer(g, StreamPriority[a], "headers")
            BY <4>1, <4>2 DEF CloseStream
          <5>4. /\ output' \in [Priorities -> Seq(Goroutines)] /\ pc' \in [Goroutines -> PCs]
                /\ closedOut' = closedOut /\ Queued' /\ panicked' = panicked
                /\ pc' = [pc EXCEPT ![g] = "headers"]
            BY <1>0, <2>1, <5>1, <5>2, <5>3, OfferJoins, BlockedStates
          <5> QED BY <1>0, <4>1, <4>2, <5>4 DEF CloseStream, TypeOK
        <4>3. CASE a \notin header
          BY <1>0, <2>1, <4>1, <4>3, Moves, BlockedStates
          DEF CloseStream, PCs, Closing, chanVars, TypeOK
        <4> QED BY <4>2, <4>3
      <3> QED BY <3>1, <3>2, <3>3
    <2>4. TypeOK'
      BY <1>0, <2>1, <2>3 DEF TypeOK, connVars, sendVars
    <2>5. Control'
      BY <1>0, <2>1, <2>2, <2>3 DEF TypeOK, Control, Holding, Erring, Handshake,
         OutputsLast, LockHeldInside, CheckedSendsSafe, Locked, Closing, TornDown, connVars
    <2> QED BY <2>3, <2>4, <2>5 DEF ConnInv, Control
  <1>6. CASE CloseOutputs(g)
    <2>1. pc[g] = "outputs" /\ lock = g /\ stop /\ UNCHANGED <<sending, stop, streamVars, sendVars, back>>
      BY <1>0, <1>6 DEF CloseOutputs, Control, Holding, Handshake, Locked, Closing, TornDown
    <2>2. \A h \in Goroutines : h # g => pc[h] \notin Locked
      BY <1>0, <2>1 DEF Control, Holding
    <2>3. CASE ~(closedOut < NumPriorities)
      <3>1. Goto(g, "gone") /\ lock' = NoOne /\ UNCHANGED chanVars
        BY <1>6, <2>3 DEF CloseOutputs
      <3>2. Queued' /\ pc' \in [Goroutines -> PCs] /\ pc' = [pc EXCEPT ![g] = "gone"]
        BY <1>0, <2>1, <3>1, Moves, BlockedStates DEF PCs, chanVars
      <3>3. TypeOK'
        BY <1>0, <2>1, <3>1, <3>2 DEF TypeOK, chanVars, streamVars, sendVars
      <3>4. Control'
        BY <1>0, <2>1, <3>1, <3>2 DEF TypeOK, Control, Holding, Erring, Handshake,
         OutputsLast, LockHeldInside, CheckedSendsSafe, Locked, Closing, TornDown, chanVars
      <3> QED BY <3>2, <3>3, <3>4 DEF ConnInv, Control
    <2>4. CASE closedOut < NumPriorities /\ output[closedOut] = <<>>
      <3>1. closedOut' = closedOut + 1 /\ UNCHANGED <<output, pc, panicked, lock>>
        BY <1>6, <2>4 DEF CloseOutputs
      <3>2. Queued'
        BY <1>0, <3>1, QueuesKept
      <3>3. TypeOK'
        BY <1>0, <2>1, <2>4, <3>1 DEF TypeOK, streamVars, sendVars
      <3>4. Control'
        BY <1>0, <2>1, <2>2, <2>4, <3>1 DEF TypeOK, Control, Holding, Erring, Handshake,
         OutputsLast, LockHeldInside, CheckedSendsSafe, Locked, Closing, TornDown
      <3> QED BY <3>2, <3>3, <3>4 DEF ConnInv, Control
    <2>5. CASE closedOut < NumPriorities /\ output[closedOut] # <<>>
      <3> DEFINE queue == output[closedOut]
                 first == Head(queue)
      <3>1. /\ closedOut' = closedOut + 1 /\ lock' = lock
            /\ output' = [output EXCEPT ![closedOut] = Tail(@)]
            /\ pc' = [pc EXCEPT ![first] = Resume[@]]
            /\ panicked' = panicked \cup {pc[h] : h \in ToSet(Tail(queue))}
        BY <1>6, <2>5 DEF CloseOutputs
      <3>2. closedOut \in Priorities
        BY <1>0, <2>5 DEF TypeOK
      <3>3. /\ output' \in [Priorities -> Seq(Goroutines)] /\ Queued'
            /\ first \in Goroutines /\ pc[first] \in Blocked
        <4>1. \A h \in Goroutines : pc[h] \in Blocked /\ h # first => pc'[h] = pc[h]
          BY <1>0, <3>1 DEF TypeOK
        <4> QED BY <1>0, <2>5, <3>1, <3>2, <4>1, Dequeue
      <3>4. first # g /\ pc[first] \notin Locked /\ pc[first] # "erring"
        BY <2>1, <2>2, <3>3, BlockedStates DEF Locked
      <3>5. Resume[pc[first]] \in PCs \ Blocked /\ Resume[pc[first]] \notin Locked
        BY <3>3, <3>4, Resumption
      <3>6. \A h \in ToSet(Tail(queue)) : h \in Goroutines /\ pc[h] \in Blocked /\ h # g
        <4>1. queue \in Seq(Goroutines) /\ queue # <<>>
          BY <1>0, <2>5, <3>2 DEF TypeOK
        <4>2. \A h \in ToSet(Tail(queue)) : \E i \in 1 .. Len(queue) : h = queue[i]
          BY <4>1 DEF ToSet
        <4>3. \A i \in 1 .. Len(queue) : queue[i] \in Goroutines
          BY <4>1
        <4>4. \A i \in 1 .. Len(queue) : pc[queue[i]] \in Blocked
          BY <1>0, <3>2 DEF Queued
        <4> QED BY <2>1, <4>2, <4>3, <4>4, BlockedStates
      <3>7. TypeOK'
        BY <1>0, <2>1, <2>5, <3>1, <3>3, <3>5, <3>6 DEF TypeOK, PCs, streamVars, sendVars
      <3>8. /\ pc'[first] = Resume[pc[first]]
            /\ \A h \in Goroutines : h # first => pc'[h] = pc[h]
        BY <1>0, <3>1, <3>3 DEF TypeOK
      <3>9. CheckedSendsSafe'
        BY <1>0, <2>2, <3>1, <3>6 DEF Control, CheckedSendsSafe, Locked, Closing
      <3>10. first # Sender
        BY <1>0, <2>1, <3>3, BlockedStates DEF Control, Handshake
      <3>11. Holding' /\ Erring' /\ Handshake' /\ OutputsLast' /\ LockHeldInside'
        <4> HIDE DEF first
        <4>1. pc'[first] \notin Locked \cup {"erring"} /\ pc'[g] = "outputs"
          BY <2>1, <3>4, <3>5, <3>8, BlockedStates
        <4> QED BY <1>0, <2>1, <2>2, <3>1, <3>3, <3>4, <3>8, <3>10, <4>1
                DEF TypeOK, Control, Holding, Erring, Handshake, OutputsLast, LockHeldInside,
                Locked, Closing, TornDown
      <3> QED BY <3>3, <3>7, <3>9, <3>11 DEF ConnInv, Control
    <2> QED BY <2>3, <2>4, <2>5
  <1> QED BY <1>1, <1>2, <1>3, <1>4, <1>5, <1>6 DEF CloseStep

-----------------------------------------------------------------------------
(* The theorems.                                                           *)

\* The inductive invariant of the endpoint: types, queues, mutex, handshake
\* (conn.go 46-100, 104-307, 704-932).
THEOREM Invariance == Spec => []ConnInv
  <1> USE Constants
  <1>1. Init => ConnInv
    <2> SUFFICES ASSUME Init PROVE ConnInv
      OBVIOUS
    <2>1. TypeOK
      <3>1. output \in [Priorities -> Seq(Goroutines)]
        <4>1. <<>> \in Seq(Goroutines)
          OBVIOUS
        <4> QED BY <4>1 DEF Init
      <3>2. pc \in [Goroutines -> PCs] /\ overtaken \in [Goroutines -> 0 .. 2]
        BY DEF Init, PCs, SenderPCs
      <3>3. /\ lock \in Goroutines \cup {NoOne} /\ sending \in {"nil", "open", "closed"}
            /\ stop \in BOOLEAN /\ back \in {"running", "returned"}
            /\ stream \in [Apps -> {"none", "open", "closing", "closed"}]
            /\ header \subseteq Apps /\ panicked \subseteq PCs /\ due \subseteq Goroutines
        BY DEF Init
      <3>4. closedOut \in 0 .. NumPriorities /\ poll \in Priorities
        BY DEF Init
      <3> QED BY <3>1, <3>2, <3>3, <3>4 DEF TypeOK
    <2>2. Queued
      BY DEF Init, Queued
    <2>3. Control
      BY DEF Init, Control, Holding, Erring, Handshake, OutputsLast, LockHeldInside,
         CheckedSendsSafe, Locked, Closing, TornDown
    <2> QED BY <2>1, <2>2, <2>3 DEF ConnInv, Control
  <1>2. ConnInv /\ [Next]_vars => ConnInv'
    <2>1. CASE UNCHANGED vars
      <3> SUFFICES ASSUME ConnInv PROVE ConnInv'
        BY <2>1
      <3> QED BY <2>1 DEF ConnInv, TypeOK, Queued, Holding, Erring, Handshake, OutputsLast,
                 LockHeldInside, CheckedSendsSafe, vars, connVars, chanVars, streamVars, sendVars
    <2>2. ASSUME ConnInv, Next PROVE ConnInv'
      BY <2>2, AppCallPreserves, AppStepPreserves, ReaderFramePreserves,
         ReaderStepPreserves, SendLoopPreserves, CloseStepPreserves DEF Next, Step
    <2> QED BY <2>1, <2>2
  <1> QED BY <1>1, <1>2, PTL DEF Spec

\* The types of the state, for any number of goroutines and priorities.
THEOREM TypeCorrect == Spec => []TypeOK
  <1>1. ConnInv => TypeOK
    BY DEF ConnInv
  <1> QED BY <1>1, Invariance, PTL

\* Teardown and the sender goroutine never overlap (conn.go 54-85).
THEOREM SenderIsGoneFirst == Spec => []SenderGoneFirst
  <1>1. ConnInv => SenderGoneFirst
    BY DEF ConnInv, Handshake, SenderGoneFirst
  <1> QED BY <1>1, Invariance, PTL

\* One goroutine at most is inside Close, however many call it, and the
\* connection is torn down once (conn.go 44-64).
THEOREM TeardownIsUnique == Spec => []OneTeardown
  <1>1. ConnInv => OneTeardown
    BY Constants DEF ConnInv, Holding, Handshake, OneTeardown, Locked
  <1> QED BY <1>1, Invariance, PTL

\* No path of the code leaves a function with the mutex held.
THEOREM LockIsReleased == Spec => []LockHeldInside
  <1>1. ConnInv => LockHeldInside
    BY DEF ConnInv
  <1> QED BY <1>1, Invariance, PTL

\* Ping, the refusal of a push and the headers of a closing stream are never
\* sent on a closed channel (conn.go 105-124, 382-464, 72-77).
THEOREM CheckedSendsAreSafe == Spec => []CheckedSendsSafe
  <1>1. ConnInv => CheckedSendsSafe
    BY DEF ConnInv
  <1> QED BY <1>1, Invariance, PTL

-----------------------------------------------------------------------------
(* The send loop.                                                          *)

\* What a step of a goroutine other than the sender does: it leaves everyone's
\* place in the queues and joins one itself at the most, and it starts no ping
\* or refusal of a push after the stop.
Aside ==
  /\ UNCHANGED <<due, poll, sending, overtaken>>
  /\ \A p \in Priorities :
       /\ ToSet(output[p]) \subseteq ToSet(output'[p])
       /\ \A h \in ToSet(output'[p]) \ ToSet(output[p]) : pc[h] \notin Blocked
  /\ \/ pc' = pc
     \/ \E g \in Goroutines \ {Sender}, at \in PCs :
          /\ pc' = [pc EXCEPT ![g] = at]
          /\ stop => at \notin {"pinging", "refusing"}

\* A send keeps everyone's place in the queues.
LEMMA OfferKeeps ==
  ASSUME TypeOK, NEW g \in Goroutines, NEW p \in Priorities, NEW at \in Blocked,
         Offer(g, p, at)
  PROVE  /\ \A q \in Priorities : ToSet(output[q]) \subseteq ToSet(output'[q])
         /\ \A q \in Priorities : ToSet(output'[q]) \subseteq ToSet(output[q]) \cup {g}
         /\ pc' = pc \/ pc' = [pc EXCEPT ![g] = at]
         /\ at \in PCs
  <1>1. CASE p < closedOut
    BY <1>1 DEF Offer, PCs
  <1>2. CASE ~(p < closedOut)
    <2>1. output' = [output EXCEPT ![p] = Append(@, g)] /\ pc' = [pc EXCEPT ![g] = at]
      BY <1>2 DEF Offer, Goto
    <2>2. output[p] \in Seq(Goroutines)
      BY DEF TypeOK
    <2>3. /\ ToSet(output[p]) \subseteq ToSet(Append(output[p], g))
          /\ ToSet(Append(output[p], g)) \subseteq ToSet(output[p]) \cup {g}
      BY <2>2 DEF ToSet
    <2> QED BY <2>1, <2>3 DEF TypeOK, PCs
  <1> QED BY <1>1, <1>2

LEMMA OfferAside ==
  ASSUME TypeOK, NEW g \in Goroutines \ {Sender}, NEW p \in Priorities, NEW at \in Blocked,
         Offer(g, p, at), UNCHANGED <<due, poll, sending, overtaken>>,
         pc[g] \notin Blocked, stop => at \notin {"pinging", "refusing"}
  PROVE  Aside
  BY OfferKeeps DEF Aside

LEMMA AppAside ==
  ASSUME TypeOK, NEW a \in Apps, AppCall(a) \/ AppStep(a)
  PROVE  Aside
  <1> USE Constants, BlockedStates
  <1>0. a \in Goroutines \ {Sender}
    OBVIOUS
  <1>1. CASE SetHeader(a) \/ Register(a)
    BY <1>0, <1>1 DEF SetHeader, Register, Aside, Goto, PCs, connVars, sendVars
  <1>2. CASE Write(a) \/ CallClose(a)
    BY <1>0, <1>2 DEF Write, CallClose, Aside, Goto, PCs, connVars, chanVars, sendVars
  <1>3. CASE Ping(a)
    BY <1>0, <1>3, OfferAside DEF Ping, PingClosed, Closed, sendVars
  <1>4. CASE Announce(a)
    BY <1>0, <1>4, OfferAside DEF Announce, sendVars
  <1>5. CASE Flush(a)
    <2>1. CASE a \in header
      <3>1. Offer(a, StreamPriority[a], "flushing") /\ pc[a] = "flush"
            /\ UNCHANGED <<due, poll, sending, overtaken>>
        BY <1>5, <2>1 DEF Flush, connVars, sendVars
      <3> QED BY <1>0, <3>1, OfferAside
    <2>2. CASE a \notin header
      BY <1>0, <1>5, <2>2 DEF Flush, Aside, Goto, PCs, connVars, chanVars, sendVars
    <2> QED BY <2>1, <2>2
  <1>6. CASE Data(a)
    <2>1. CASE stream[a] = "closed"
      BY <1>0, <1>6, <2>1 DEF Data, Aside, Goto, PCs, connVars, chanVars, sendVars
    <2>2. CASE stream[a] # "closed"
      <3> DEFINE at == IF pc[a] = "data" THEN "writing" ELSE "responding"
      <3>1. Offer(a, StreamPriority[a], at) /\ pc[a] \in {"response", "data"}
            /\ UNCHANGED <<due, poll, sending, overtaken>>
        BY <1>6, <2>2 DEF Data, connVars, sendVars
      <3>2. at \in Blocked /\ pc[a] \notin Blocked /\ at \notin {"pinging", "refusing"}
        BY <3>1
      <3> HIDE DEF at
      <3> QED BY <1>0, <3>1, <3>2, OfferAside
    <2> QED BY <2>1, <2>2
  <1>7. CASE SendBody(a)
    BY <1>0, <1>7, OfferAside DEF SendBody, connVars, sendVars
  <1>8. CASE Announced(a) \/ Unlock(a)
    BY <1>0, <1>8 DEF Announced, Unlock, Aside, Goto, PCs, chanVars, sendVars
  <1>9. CASE IDsExhausted(a) \/ Exhausted(a)
    BY <1>0, <1>9 DEF IDsExhausted, Exhausted, Aside, Goto, PCs, chanVars, sendVars
  <1>10. CASE RunEnd(a) \/ \E from \in {"running", "respond"} : WriteResponse(a, from)
    BY <1>0, <1>10 DEF RunEnd, WriteResponse, Aside, Goto, PCs, connVars, sendVars
  <1> QED BY <1>1, <1>2, <1>3, <1>4, <1>5, <1>6, <1>7, <1>8, <1>9, <1>10 DEF AppCall, AppStep

LEMMA ReaderAside ==
  ASSUME TypeOK, ReaderFrame \/ ReaderStep
  PROVE  Aside
  <1> USE Constants, BlockedStates
  <1>0. Reader \in Goroutines \ {Sender}
    OBVIOUS
  <1>1. CASE ReplyPing \/ LoopProtocolError \/ HandlerProtocolError
    BY <1>0, <1>1, OfferAside
       DEF ReplyPing, LoopProtocolError, HandlerProtocolError, connVars, sendVars
  <1>2. CASE RefusePush
    BY <1>0, <1>2, OfferAside DEF RefusePush, PushClosed, Closed, sendVars
  <1>3. CASE ReadEnd \/ StreamReset \/ Unlock(Reader)
    BY <1>0, <1>3 DEF ReadEnd, StreamReset, Unlock, Aside, Goto, PCs, connVars, chanVars, sendVars
  <1>4. ASSUME NEW a \in Apps, OpenStream(a) PROVE Aside
    BY <1>4 DEF OpenStream, Aside, connVars, chanVars, sendVars
  <1>5. ASSUME NEW a \in Apps, ResetStream(a) PROVE Aside
    <2>1. /\ UNCHANGED <<sending, poll, due, overtaken>> /\ pc[Reader] = "running"
          /\ CloseStream(Reader, a, "resetting", "running")
      BY <1>5 DEF ResetStream, sendVars
    <2>2. CASE a \in header
      <3>1. Offer(Reader, StreamPriority[a], "resetting")
        BY <2>1, <2>2 DEF CloseStream
      <3> QED BY <1>0, <2>1, <3>1, OfferAside
    <2>3. CASE a \notin header
      BY <1>0, <2>1, <2>3 DEF CloseStream, Aside, Goto, PCs, chanVars
    <2> QED BY <2>2, <2>3
  <1> QED BY <1>1, <1>2, <1>3, <1>4, <1>5 DEF ReaderFrame, ReaderStep

-----------------------------------------------------------------------------
(* The drain.                                                              *)

\* While the drain is asked for, whom it is to serve waits ahead of the
\* sender; when it is done there is nobody left.
DrainInv ==
  /\ sending = "open" => due \subseteq Ahead
  /\ sending = "closed" => due = {}

\* Steps that leave the sender where it is, or outside of a pass.
LEMMA AheadKept ==
  ASSUME TypeOK, UNCHANGED poll,
         \A p \in Priorities : ToSet(output[p]) \subseteq ToSet(output'[p]),
         pc'[Sender] = pc[Sender] \/ pc'[Sender] \notin {"poll", "check"}
  PROVE  Ahead \subseteq Ahead'
  BY DEF Ahead

LEMMA AsideDrains ==
  ASSUME TypeOK, DrainInv, Aside
  PROVE  DrainInv'
  <1>1. pc'[Sender] = pc[Sender]
    BY Constants DEF Aside, TypeOK
  <1>2. Ahead \subseteq Ahead'
    BY <1>1, AheadKept DEF Aside
  <1> QED BY <1>2 DEF Aside, DrainInv

\* The sender takes one frame and leaves the others where they are.
LEMMA ReceiveKeeps ==
  ASSUME TypeOK, NEW p \in Priorities, output[p] # <<>>, Receive(p)
  PROVE  \A q \in Priorities : ToSet(output[q]) \subseteq ToSet(output'[q]) \cup {Head(output[p])}
  <1> DEFINE g == Head(output[p])
  <1>1. output' = [output EXCEPT ![p] = Tail(@)]
    BY DEF Receive
  <1>2. output[p] \in Seq(Goroutines)
    BY DEF TypeOK
  <1>3. ToSet(output[p]) \subseteq ToSet(Tail(output[p])) \cup {g}
    <2> SUFFICES ASSUME NEW i \in 1 .. Len(output[p]), i # 1
                 PROVE  output[p][i] \in ToSet(Tail(output[p]))
      BY <1>2 DEF ToSet
    <2>1. i - 1 \in 1 .. Len(Tail(output[p])) /\ Tail(output[p])[i - 1] = output[p][i]
      BY <1>2
    <2>2. i - 1 \in DOMAIN Tail(output[p])
      BY <1>2, <2>1
    <2> QED BY <2>1, <2>2 DEF ToSet
  <1> QED BY <1>1, <1>3 DEF TypeOK

\* The frame that the sender takes is due no more, everyone else still waits.
LEMMA ReceiveDrains ==
  ASSUME TypeOK, DrainInv, NEW p \in Priorities, output[p] # <<>>,
         pc[Sender] \notin Blocked, pc[Head(output[p])] \in Blocked,
         Receive(p), sending' = sending
  PROVE  DrainInv'
  <1> DEFINE g == Head(output[p])
  <1>1. /\ output' = [output EXCEPT ![p] = Tail(@)]
        /\ pc' = [pc EXCEPT ![g] = Resume[@], ![Sender] = "frame"]
        /\ due' = due \ {g}
    BY DEF Receive
  <1>4. \A q \in Priorities : ToSet(output[q]) \subseteq ToSet(output'[q]) \cup {g}
    BY ReceiveKeeps
  <1>5. pc'[Sender] = "frame"
    BY <1>1, Constants DEF TypeOK
  <1>6. Ahead \subseteq Ahead' \cup {g}
    BY <1>4, <1>5 DEF Ahead
  <1> QED BY <1>1, <1>6 DEF DrainInv

\* Whoever is first in a queue is a goroutine blocked in a send.
LEMMA Dequeued ==
  ASSUME TypeOK, Queued, NEW p \in Priorities, output[p] # <<>>
  PROVE  Head(output[p]) \in Goroutines /\ pc[Head(output[p])] \in Blocked
  <1>1. output[p] \in Seq(Goroutines)
    BY DEF TypeOK
  <1>2. Head(output[p]) = output[p][1] /\ 1 \in 1 .. Len(output[p])
    BY <1>1
  <1> QED BY <1>1, <1>2 DEF Queued

LEMMA SendLoopDrains ==
  ASSUME ConnInv, DrainInv, SendLoop
  PROVE  DrainInv'
  <1> USE Constants
  <1>0. TypeOK /\ Queued /\ Handshake
    BY DEF ConnInv
  <1>1. CASE SenderTop
    <2>1. /\ UNCHANGED <<sending, output, due>> /\ poll' = 0
          /\ pc'[Sender] \in {"close", "poll"}
      BY <1>0, <1>1 DEF SenderTop, FirstPoll, Goto, connVars, chanVars, TypeOK
    <2>2. Ahead \subseteq Ahead'
      <3>1. \A q \in Priorities : q >= poll'
        BY <2>1
      <3> QED BY <2>1, <3>1 DEF Ahead
    <2> QED BY <2>1, <2>2 DEF DrainInv
  <1>2. CASE SenderPoll
    <2>1. pc[Sender] = "poll" /\ poll \in Priorities /\ sending' = sending
      BY <1>0, <1>2 DEF SenderPoll, TypeOK, connVars
    <2>2. CASE output[poll] # <<>>
      BY <1>0, <1>2, <2>1, <2>2, Dequeued, ReceiveDrains, BlockedStates DEF SenderPoll
    <2>3. CASE output[poll] = <<>> /\ PollAgain
      <3>1. UNCHANGED <<output, due, pc>> /\ poll' = poll + 1
        BY <1>2, <2>3 DEF SenderPoll
      <3>2. Ahead \subseteq Ahead'
        <4>1. ToSet(output[poll]) = {}
          BY <2>3 DEF ToSet
        <4>2. \A q \in Priorities : q >= poll /\ q # poll => q >= poll + 1
          BY <2>1
        <4> QED BY <2>1, <3>1, <4>1, <4>2 DEF Ahead
      <3> QED BY <2>1, <3>1, <3>2 DEF DrainInv
    <2>4. CASE output[poll] = <<>> /\ ~PollAgain
      <3>1. UNCHANGED <<output, due>>
        BY <1>2, <2>4 DEF SenderPoll
      <3>2. Ahead = {}
        <4>1. ToSet(output[poll]) = {}
          BY <2>4 DEF ToSet
        <4>2. \A q \in Priorities : q >= poll => q = poll
          BY <2>1, <2>4 DEF PollAgain, Priorities
        <4> QED BY <2>1, <4>1, <4>2 DEF Ahead
      <3> QED BY <2>1, <3>1, <3>2 DEF DrainInv
    <2> QED BY <2>2, <2>3, <2>4
  <1>3. CASE SenderCheck
    <2>1. pc[Sender] = "check" /\ due' = due /\ sending' \in {"closed", "nil"}
          /\ (sending' = "closed" => sending # "nil")
      BY <1>0, <1>3 DEF SenderCheck, DrainAsked, sendVars, TypeOK
    <2>2. Ahead = {}
      BY <2>1 DEF Ahead
    <2> QED BY <1>0, <2>1, <2>2 DEF DrainInv, TypeOK
  <1>4. CASE SenderSelect
    <2>1. pc[Sender] = "select" /\ sending' = sending
      BY <1>4 DEF SenderSelect, connVars
    <2>2. ~stop
      BY <1>0, <2>1 DEF Handshake
    <2>3. PICK ready \in Priorities : output[ready] # <<>> /\ Receive(ready)
      BY <1>4, <2>2 DEF SenderSelect, Closed
    <2> QED BY <1>0, <2>1, <2>3, Dequeued, ReceiveDrains, BlockedStates
  <1>5. CASE SenderFrame
    <2>1. /\ UNCHANGED <<sending, output, due, poll>>
          /\ pc'[Sender] \in {"close", "top"}
      BY <1>0, <1>5 DEF SenderFrame, Goto, connVars, chanVars, sendVars, TypeOK
    <2>2. Ahead \subseteq Ahead'
      BY <1>0, <2>1, AheadKept
    <2> QED BY <2>1, <2>2 DEF DrainInv
  <1> QED BY <1>1, <1>2, <1>3, <1>4, <1>5 DEF SendLoop

LEMMA CloseStepDrains ==
  ASSUME ConnInv, DrainInv, NEW g \in Goroutines, CloseStep(g)
  PROVE  DrainInv'
  <1> USE Constants
  <1>0. TypeOK /\ Handshake
    BY DEF ConnInv
  <1>1. CASE CloseBegin(g)
    <2>1. /\ pc[g] = "close" /\ lock = NoOne /\ UNCHANGED <<output, poll>>
          /\ \/ UNCHANGED <<sending, due>>
             \/ sending' = "open" /\ due' = Ahead
      BY <1>1 DEF CloseBegin, CanLock, chanVars
    <2>2. sending # "open"
      BY <1>0, <2>1 DEF Handshake
    <2>3. pc'[Sender] = pc[Sender] \/ pc'[Sender] \notin {"poll", "check"}
      BY <1>0, <1>1 DEF CloseBegin, AfterClose, Goto, TypeOK
    <2>4. Ahead \subseteq Ahead'
      BY <1>0, <2>1, <2>3, AheadKept
    <2> QED BY <2>1, <2>2, <2>4 DEF DrainInv
  <1>2. ASSUME CloseAwait(g) \/ CloseStop(g) \/ CloseSocket(g) \/ CloseStreams(g) \/ CloseOutputs(g)
        PROVE  DrainInv'
    <2>1. pc[g] \in TornDown \cup {"stop"} \/ sending = "closed"
      BY <1>2 DEF CloseAwait, CloseStop, CloseSocket, CloseStreams, CloseOutputs, Drained, TornDown
    <2>2. sending = "closed"
      BY <1>0, <2>1 DEF Handshake
    <2>3. due' = due /\ sending' = sending
      BY <1>2 DEF CloseAwait, CloseStop, CloseSocket, CloseStreams, CloseOutputs, connVars, sendVars
    <2> QED BY <2>2, <2>3 DEF DrainInv
  <1> QED BY <1>1, <1>2 DEF CloseStep

\* The drain serves the frames it was asked for: whoever waited on an output
\* that the sender had yet to come to when Close began has been received from
\* by the time the sender reports that it is done (conn.go 54-58, 851-866).
THEOREM DrainCompletes == Spec => []PendingFramesSent
  <1>1. Init => DrainInv
    BY DEF Init, DrainInv
  <1>2. ConnInv /\ DrainInv /\ [Next]_vars => DrainInv'
    <2>1. CASE UNCHANGED vars
      BY <2>1 DEF DrainInv, Ahead, vars, connVars, chanVars, streamVars, sendVars
    <2>2. ASSUME ConnInv, DrainInv, Next PROVE DrainInv'
      <3>1. TypeOK
        BY <2>2 DEF ConnInv
      <3> QED BY <2>2, <3>1, AppAside, ReaderAside, AsideDrains, SendLoopDrains, CloseStepDrains
              DEF Next, Step
    <2> QED BY <2>1, <2>2
  <1>3. DrainInv => PendingFramesSent
    BY DEF DrainInv, PendingFramesSent
  <1> QED BY <1>1, <1>2, <1>3, Invariance, PTL DEF Spec

-----------------------------------------------------------------------------
(* After the sender has ended.                                             *)

\* What NoSendAfterStop says of one step after the stop.
Silent ==
  /\ pc'[Sender] = pc[Sender]
  /\ \A g \in Goroutines : pc'[g] \in {"pinging", "refusing"} => pc[g] = pc'[g]

\* A step of Close, once the sender has ended.
LEMMA CloseStepSilent ==
  ASSUME ConnInv, pc[Sender] = "gone", NEW g \in Goroutines, CloseStep(g)
  PROVE  Silent
  <1> USE Constants, BlockedStates
  <1>0. TypeOK /\ Queued /\ pc[Sender] = "gone"
    BY DEF ConnInv
  <1>1. ASSUME NEW at \in PCs \ {"pinging", "refusing"}, pc[g] # "gone", Goto(g, at)
        PROVE  Silent
    BY <1>0, <1>1 DEF Silent, Goto, TypeOK
  <1>2. CASE CloseBegin(g)
    <2>1. pc[g] = "close" /\ \E at \in {"gone", "returned", "running", "await", "stop"} : Goto(g, at)
      BY <1>0, <1>2 DEF CloseBegin, AfterClose, TypeOK
    <2> QED BY <1>1, <2>1 DEF PCs, Closing
  <1>3. CASE CloseAwait(g) \/ CloseStop(g) \/ CloseSocket(g)
    <2>1. /\ pc[g] \in {"await", "stop", "socket"}
          /\ \E at \in {"stop", "socket", "streams", "gone", "returned", "running"} : Goto(g, at)
      BY <1>0, <1>3 DEF CloseAwait, CloseStop, CloseSocket, AfterClose, TypeOK
    <2> QED BY <1>1, <2>1 DEF PCs, Closing
  <1>4. CASE CloseStreams(g)
    <2>1. pc[g] = "streams"
      BY <1>4 DEF CloseStreams
    <2>2. ASSUME NEW a \in Apps, CloseStream(g, a, "headers", "streams") PROVE Silent
      <3>1. CASE a \in header
        <4>1. Offer(g, StreamPriority[a], "headers")
          BY <2>2, <3>1 DEF CloseStream
        <4>2. pc' = pc \/ Goto(g, "headers")
          BY <1>0, <4>1, OfferKeeps DEF Goto
        <4> QED BY <1>0, <1>1, <2>1, <4>2 DEF Silent, PCs
      <3>2. CASE a \notin header
        BY <1>1, <2>1, <2>2, <3>2 DEF CloseStream, PCs, Closing
      <3> QED BY <3>1, <3>2
    <2>3. \/ pc' = pc \/ Goto(g, "outputs")
          \/ \E a \in Apps : CloseStream(g, a, "headers", "streams")
      BY <1>4 DEF CloseStreams
    <2> QED BY <1>0, <1>1, <2>1, <2>2, <2>3 DEF Silent, PCs, Closing
  <1>5. CASE CloseOutputs(g)
    <2>1. pc[g] = "outputs"
      BY <1>5 DEF CloseOutputs
    <2>2. CASE closedOut < NumPriorities
      <3>1. closedOut \in Priorities
        BY <1>0, <2>2 DEF TypeOK
      <3>2. \/ pc' = pc
            \/ /\ output[closedOut] # <<>>
               /\ pc' = [pc EXCEPT ![Head(output[closedOut])] = Resume[@]]
        BY <1>5, <2>2 DEF CloseOutputs
      <3>3. CASE pc' = pc
        BY <1>0, <3>3 DEF Silent
      <3>4. CASE output[closedOut] # <<>> /\ pc' # pc
        <4> DEFINE h == Head(output[closedOut])
        <4>1. h \in Goroutines /\ pc[h] \in Blocked
          BY <1>0, <3>1, <3>4, Dequeued
        <4>2. Resume[pc[h]] \notin {"pinging", "refusing"}
          BY <4>1, Resumption
        <4> QED BY <1>0, <3>2, <3>4, <4>1, <4>2 DEF Silent, TypeOK
      <3> QED BY <3>2, <3>3, <3>4
    <2>3. CASE ~(closedOut < NumPriorities)
      BY <1>1, <1>5, <2>1, <2>3 DEF CloseOutputs, PCs
    <2> QED BY <2>2, <2>3
  <1> QED BY <1>2, <1>3, <1>4, <1>5 DEF CloseStep

\* A stream comes to be open by handleRequest, which asks closed() first, or
\* by the caller of Push or Request, who is about to register it.
Accepting ==
  \A a \in Apps : stream[a] = "none" /\ stream'[a] = "open" => pc[a] = "register"

LEMMA StreamsOpened ==
  ASSUME TypeOK, stop, Step
  PROVE  Accepting
  <1>1. ASSUME NEW a \in Apps, AppCall(a) \/ AppStep(a) PROVE Accepting
    <2>1. CASE Register(a)
      BY <2>1 DEF Register, Accepting, TypeOK
    <2>2. CASE stream' = stream
      BY <2>2 DEF Accepting
    <2> QED BY <1>1, <2>1, <2>2
            DEF AppCall, AppStep, SetHeader, Write, WriteResponse, RunEnd, Ping, Announce,
                IDsExhausted, CallClose, Flush, Data, SendBody, Announced, Exhausted, Unlock,
                streamVars
  <1>2. ASSUME NEW g \in Goroutines, NEW a \in Apps, NEW at \in PCs, NEW next \in PCs,
               CloseStream(g, a, at, next)
        PROVE  Accepting
    BY <1>2 DEF CloseStream, Accepting, TypeOK
  <1>3. ASSUME StreamClosed PROVE Accepting
    BY <1>3 DEF StreamClosed, Accepting, TypeOK
  <1>4. ASSUME ReaderFrame \/ ReaderStep PROVE Accepting
    <2>1. CASE \E a \in Apps : ResetStream(a)
      BY <1>2, <2>1, Constants DEF ResetStream, PCs, Blocked, Resume
    <2>2. CASE StreamReset
      BY <1>3, <2>2 DEF StreamReset
    <2>3. CASE stream' = stream
      BY <2>3 DEF Accepting
    <2> QED BY <1>4, <2>1, <2>2, <2>3
            DEF ReaderFrame, ReaderStep, ReplyPing, RefusePush, HandlerProtocolError,
                LoopProtocolError, ReadEnd, OpenStream, Closed, Unlock, streamVars
  <1>5. ASSUME NEW g \in Goroutines, CloseStep(g) PROVE Accepting
    <2>1. CASE CloseStreams(g)
      BY <1>2, <1>3, <2>1 DEF CloseStreams, PCs, Closing, Blocked, Resume, Accepting, streamVars
    <2>2. CASE stream' = stream
      BY <2>2 DEF Accepting
    <2> QED BY <1>5, <2>1, <2>2
            DEF CloseStep, CloseBegin, CloseAwait, CloseStop, CloseSocket, CloseOutputs, streamVars
  <1>6. ASSUME SendLoop PROVE Accepting
    BY <1>6 DEF SendLoop, SenderTop, SenderPoll, SenderCheck, SenderSelect, SenderFrame,
                Accepting, streamVars
  <1> QED BY <1>1, <1>4, <1>5, <1>6 DEF Step

\* Once conn.stop is closed the sender is gone and stays gone, no ping or
\* refusal of a push is started, and no request is accepted (conn.go 60-64,
\* 105-110, 382-388, 478-481).
THEOREM SilentAfterStop == Spec => NoSendAfterStop
  <1>1. ConnInv /\ [Next]_vars => [stop => Silent /\ Accepting]_vars
    <2> SUFFICES ASSUME ConnInv, Next, stop PROVE Silent /\ Accepting
      OBVIOUS
    <2>1. TypeOK /\ pc[Sender] = "gone"
      BY DEF ConnInv, Handshake
    <2>2. ASSUME Aside PROVE Silent
      BY <2>1, <2>2, Constants DEF Aside, Silent, TypeOK
    <2>3. ASSUME SendLoop PROVE Silent
      BY <2>1, <2>3 DEF SendLoop, SenderTop, SenderPoll, SenderCheck, SenderSelect, SenderFrame, Silent
    <2>4. Silent
      BY <2>1, <2>2, <2>3, AppAside, ReaderAside, CloseStepSilent DEF Next, Step
    <2>5. Accepting
      BY <2>1, StreamsOpened DEF Next
    <2> QED BY <2>4, <2>5
  <1>2. (Silent /\ Accepting) <=>
          /\ pc'[Sender] = pc[Sender]
          /\ \A g \in Goroutines : pc'[g] \in {"pinging", "refusing"} => pc[g] = pc'[g]
          /\ \A a \in Apps : stream[a] = "none" /\ stream'[a] = "open" => pc[a] = "register"
    BY DEF Silent, Accepting
  <1> QED BY <1>1, <1>2, Invariance, PTL DEF Spec, NoSendAfterStop

-----------------------------------------------------------------------------
(* Overtaking.                                                             *)

\* A goroutine that has been overtaken waits, and the sender comes to its
\* output before it comes to one of a lower priority.
OvertakeInv ==
  \A h \in Goroutines :
    /\ overtaken[h] < 2
    /\ overtaken[h] = 1 /\ pc[Sender] # "gone" =>
         /\ h \in Waiting
         /\ pc[Sender] \notin {"check", "select"}
         /\ pc[Sender] = "poll" =>
              \A q \in Priorities : h \in ToSet(output[q]) => poll <= q

\* Whoever waits in a queue is blocked.
LEMMA WaitingBlocked ==
  ASSUME Queued, NEW h \in Waiting
  PROVE  pc[h] \in Blocked
  BY DEF Queued, Waiting, ToSet

LEMMA AsideOvertakes ==
  ASSUME TypeOK, Queued, OvertakeInv, Aside
  PROVE  OvertakeInv'
  <1>1. pc'[Sender] = pc[Sender]
    BY Constants DEF Aside, TypeOK
  <1>2. Waiting \subseteq Waiting'
    BY DEF Aside, Waiting
  <1>3. ASSUME NEW h \in Waiting, NEW q \in Priorities, h \in ToSet(output'[q])
        PROVE  h \in ToSet(output[q])
    BY <1>3, WaitingBlocked DEF Aside
  <1> QED BY <1>1, <1>2, <1>3 DEF Aside, OvertakeInv

\* The sender takes a frame: from its polls, where whoever it passes had not
\* been overtaken, or from its select, where nobody had.
LEMMA ReceiveOvertakes ==
  ASSUME TypeOK, Queued, OvertakeInv, NEW p \in Priorities, output[p] # <<>>, Receive(p),
         pc[Sender] = "select" \/ (pc[Sender] = "poll" /\ poll = p)
  PROVE  OvertakeInv'
  <1> USE Constants
  <1> DEFINE g == Head(output[p])
             passed == UNION {ToSet(output[q]) : q \in 0 .. p - 1}
  <1>1. /\ output' = [output EXCEPT ![p] = Tail(@)]
        /\ overtaken' = [h \in Goroutines |->
             IF h = g THEN 0
             ELSE IF h \in passed /\ overtaken[h] < 2 THEN overtaken[h] + 1
             ELSE overtaken[h]]
    BY DEF Receive
  <1>2. pc'[Sender] = "frame"
    BY DEF Receive, TypeOK
  <1>3. \A q \in Priorities : ToSet(output[q]) \subseteq ToSet(output'[q]) \cup {g}
    BY ReceiveKeeps
  <1>4. Waiting \subseteq Waiting' \cup {g}
    BY <1>3 DEF Waiting
  <1>5. 0 .. p - 1 \subseteq Priorities
    BY DEF Priorities
  <1>6. passed \subseteq Waiting
    BY <1>5 DEF Waiting
  <1>7. ASSUME NEW h \in Goroutines, h \in passed PROVE overtaken[h] = 0
    <2>1. PICK q \in 0 .. p - 1 : h \in ToSet(output[q])
      BY <1>7
    <2>2. q \in Priorities /\ ~(p <= q) /\ overtaken[h] \in 0 .. 2
      BY <1>5 DEF TypeOK
    <2> QED BY <2>1, <2>2 DEF OvertakeInv
  <1> HIDE DEF passed
  <1>8. ASSUME NEW h \in Goroutines
        PROVE  overtaken'[h] < 2 /\ (overtaken'[h] = 1 => h \in Waiting')
    <2>1. overtaken[h] \in 0 .. 1 /\ (overtaken[h] = 1 => h \in Waiting)
      BY DEF OvertakeInv, TypeOK
    <2> QED BY <1>1, <1>4, <1>6, <1>7, <2>1
  <1> QED BY <1>2, <1>8 DEF OvertakeInv

LEMMA SendLoopOvertakes ==
  ASSUME ConnInv, OvertakeInv, SendLoop
  PROVE  OvertakeInv'
  <1> USE Constants
  <1>0. TypeOK /\ Queued /\ Handshake
    BY DEF ConnInv
  <1>1. CASE SenderTop
    <2>1. /\ UNCHANGED <<output, overtaken>> /\ poll' = 0
          /\ pc[Sender] = "top" /\ pc'[Sender] \in {"close", "poll"}
      BY <1>0, <1>1 DEF SenderTop, FirstPoll, Goto, chanVars, TypeOK
    <2>2. \A q \in Priorities : poll' <= q
      BY <2>1
    <2> QED BY <2>1, <2>2 DEF OvertakeInv, Waiting
  <1>2. CASE SenderPoll
    <2>1. pc[Sender] = "poll" /\ poll \in Priorities
      BY <1>0, <1>2 DEF SenderPoll, TypeOK
    <2>2. CASE output[poll] # <<>>
      BY <1>0, <1>2, <2>1, <2>2, ReceiveOvertakes DEF SenderPoll
    <2>3. CASE output[poll] = <<>>
      <3>1. UNCHANGED <<output, overtaken>>
        BY <1>2, <2>3 DEF SenderPoll
      <3>2. ToSet(output[poll]) = {}
        BY <2>3 DEF ToSet
      <3>3. CASE PollAgain
        <4>1. pc' = pc /\ poll' = poll + 1
          BY <1>2, <2>3, <3>3 DEF SenderPoll
        <4>2. \A q \in Priorities : poll <= q /\ q # poll => poll + 1 <= q
          BY <2>1
        <4> QED BY <2>1, <3>1, <3>2, <4>1, <4>2 DEF OvertakeInv, Waiting
      <3>4. CASE ~PollAgain
        <4>1. \A q \in Priorities : poll <= q => q = poll
          BY <2>1, <3>4 DEF PollAgain, Priorities
        <4>2. \A h \in Goroutines : overtaken[h] # 1
          BY <2>1, <3>2, <4>1 DEF OvertakeInv, Waiting
        <4> QED BY <3>1, <4>2 DEF OvertakeInv
      <3> QED BY <3>3, <3>4
    <2> QED BY <2>2, <2>3
  <1>3. CASE SenderCheck
    <2>1. pc[Sender] = "check" /\ overtaken' = overtaken
      BY <1>3 DEF SenderCheck, sendVars
    <2> QED BY <2>1 DEF OvertakeInv
  <1>4. CASE SenderSelect
    <2>1. pc[Sender] = "select"
      BY <1>4 DEF SenderSelect
    <2>2. ~stop
      BY <1>0, <2>1 DEF Handshake
    <2>3. PICK ready \in Priorities : output[ready] # <<>> /\ Receive(ready)
      BY <1>4, <2>2 DEF SenderSelect, Closed
    <2> QED BY <1>0, <2>1, <2>3, ReceiveOvertakes
  <1>5. CASE SenderFrame
    <2>1. /\ UNCHANGED <<output, overtaken>> /\ pc[Sender] = "frame"
          /\ pc'[Sender] \in {"close", "top"}
      BY <1>0, <1>5 DEF SenderFrame, Goto, chanVars, sendVars, TypeOK
    <2> QED BY <2>1 DEF OvertakeInv, Waiting
  <1> QED BY <1>1, <1>2, <1>3, <1>4, <1>5 DEF SendLoop

LEMMA CloseStepOvertakes ==
  ASSUME ConnInv, OvertakeInv, NEW g \in Goroutines, CloseStep(g)
  PROVE  OvertakeInv'
  <1> USE Constants, BlockedStates
  <1>0. TypeOK /\ Queued /\ Handshake
    BY DEF ConnInv
  <1>1. overtaken' = overtaken
    BY DEF CloseStep, CloseBegin, CloseAwait, CloseStop, CloseSocket, CloseStreams,
           CloseOutputs, sendVars
  <1>2. CASE CloseBegin(g) \/ CloseAwait(g)
    <2>1. output' = output /\ poll' = poll
      BY <1>2 DEF CloseBegin, CloseAwait, chanVars, sendVars
    <2>2. \/ pc'[Sender] = pc[Sender]
          \/ pc[Sender] # "gone" /\ pc'[Sender] \notin {"poll", "check", "select"}
      BY <1>0, <1>2 DEF CloseBegin, CloseAwait, AfterClose, Goto, TypeOK
    <2> QED BY <1>1, <2>1, <2>2 DEF OvertakeInv, Waiting
  <1>3. ASSUME CloseStop(g) \/ CloseSocket(g) \/ CloseStreams(g) \/ CloseOutputs(g)
        PROVE  OvertakeInv'
    <2>1. pc[g] \in TornDown \cup {"stop"}
      BY <1>3 DEF CloseStop, CloseSocket, CloseStreams, CloseOutputs, TornDown
    <2>2. pc[Sender] = "gone" /\ g # Sender
      BY <1>0, <2>1 DEF Handshake, TornDown
    <2>3. pc'[Sender] = "gone"
      BY <1>3, <2>2, CloseStepSilent DEF CloseStep, Silent
    <2> QED BY <1>1, <2>3 DEF OvertakeInv
  <1> QED BY <1>2, <1>3 DEF CloseStep

\* A waiting frame sees at most one frame of a lower priority leave before
\* it, for any number of priorities and goroutines: each pass of the sender
\* starts at the highest (conn.go 846-889).
THEOREM OvertakenAtMostOnce == Spec => []OvertakenOnce
  <1>1. Init => OvertakeInv
    BY DEF Init, OvertakeInv
  <1>2. ConnInv /\ OvertakeInv /\ [Next]_vars => OvertakeInv'
    <2>1. CASE UNCHANGED vars
      BY <2>1 DEF OvertakeInv, Waiting, vars, connVars, chanVars, streamVars, sendVars
    <2>2. ASSUME ConnInv, OvertakeInv, Next PROVE OvertakeInv'
      <3>1. TypeOK /\ Queued
        BY <2>2 DEF ConnInv
      <3> QED BY <2>2, <3>1, AppAside, ReaderAside, AsideOvertakes, SendLoopOvertakes,
                 CloseStepOvertakes DEF Next, Step
    <2> QED BY <2>1, <2>2
  <1>3. OvertakeInv => OvertakenOnce
    BY DEF OvertakeInv, OvertakenOnce
  <1> QED BY <1>1, <1>2, <1>3, Invariance, PTL DEF Spec

-----------------------------------------------------------------------------
(* The life cycle.                                                         *)

\* The life cycle as Conn shows it.
Serving == pc[Sender] = "frame"
lifeBar == <<Phase, Closer, Serving>>

LEMMA ClosingStates ==
  /\ Closing = {"await", "stop", "socket", "streams", "headers", "outputs"}
  /\ \A b \in Blocked : Resume[b] \in Closing <=> b \in Closing
  /\ \A b \in Blocked : Resume[b] # "socket" /\ b # "socket"
  BY BlockedStates DEF Closing, Resume

\* A step that is not about closing: no one enters, leaves or goes on in
\* Close, and the mutex, if it changes hands, was and is another function's.
LEMMA Bystander ==
  ASSUME UNCHANGED <<sending, stop, closedOut>>, Serving' = Serving,
         \A h \in Goroutines : /\ pc'[h] \in Closing <=> pc[h] \in Closing
                               /\ pc'[h] = "socket" <=> pc[h] = "socket",
         \/ lock' = lock
         \/ /\ lock \in Goroutines => pc[lock] \notin Closing
            /\ lock' \in Goroutines => pc'[lock'] \notin Closing
  PROVE  lifeBar' = lifeBar
  <1>1. Closer' = Closer
    BY DEF Closer
  <1>2. Closer # NoOne => Closer \in Goroutines
    BY DEF Closer
  <1>3. Phase' = Phase
    BY <1>1, <1>2, Constants DEF Phase
  <1> QED BY <1>1, <1>3 DEF lifeBar

\* The same for one goroutine, not the sender, whose program counter moves.
LEMMA OneMoves ==
  ASSUME TypeOK, UNCHANGED <<sending, stop, closedOut>>,
         NEW g \in Goroutines, g # Sender, NEW at \in PCs,
         pc' = pc \/ pc' = [pc EXCEPT ![g] = at],
         pc[g] \in Closing <=> at \in Closing,
         pc[g] # "socket", at # "socket",
         \/ lock' = lock
         \/ lock = NoOne /\ lock' = g /\ pc[g] \notin Closing
         \/ lock = g /\ lock' = NoOne /\ pc[g] \notin Closing
  PROVE  lifeBar' = lifeBar
  <1> USE Constants
  <1>1. \A h \in Goroutines : pc'[h] = pc[h] \/ (h = g /\ pc'[h] = at)
    BY DEF TypeOK
  <1>2. Serving' = Serving
    BY <1>1 DEF Serving
  <1>3. \A h \in Goroutines : /\ pc'[h] \in Closing <=> pc[h] \in Closing
                              /\ pc'[h] = "socket" <=> pc[h] = "socket"
    BY <1>1
  <1> QED BY <1>2, <1>3, Bystander

LEMMA AppLife ==
  ASSUME ConnInv, NEW a \in Apps, AppCall(a) \/ AppStep(a)
  PROVE  lifeBar' = lifeBar
  <1> USE Constants, ClosingStates, BlockedStates
  <1>0. TypeOK /\ Holding /\ a \in Goroutines /\ a # Sender
    BY DEF ConnInv
  <1>1. CASE SetHeader(a)
    BY <1>0, <1>1, OneMoves DEF SetHeader, connVars, PCs
  <1>2. CASE Write(a) \/ CallClose(a)
    BY <1>0, <1>2, OneMoves DEF Write, CallClose, Goto, connVars, chanVars, PCs
  <1>3. CASE Ping(a) \/ Announce(a)
    BY <1>0, <1>3, OneMoves DEF Ping, Announce, CanLock, Offer, Goto, PCs
  <1>4. CASE Flush(a)
    BY <1>0, <1>4, OneMoves DEF Flush, Offer, Goto, connVars, chanVars, PCs
  <1>5. CASE Data(a)
    BY <1>0, <1>5, OneMoves DEF Data, Offer, Goto, connVars, chanVars, PCs
  <1>6. CASE SendBody(a)
    BY <1>0, <1>6, OneMoves DEF SendBody, Offer, Goto, connVars, PCs
  <1>7. CASE Announced(a) \/ Unlock(a)
    <2>1. pc[a] \in Locked
      BY <1>7 DEF Announced, Unlock, Locked
    <2>2. lock = a
      BY <1>0, <2>1 DEF Holding
    <2> QED BY <1>0, <1>7, <2>2, OneMoves
            DEF Announced, Unlock, Unlocked, Goto, chanVars, PCs
  <1>8. CASE Register(a)
    BY <1>0, <1>8, OneMoves DEF Register, Goto, connVars, PCs
  <1>9. CASE IDsExhausted(a)
    <2>1. /\ pc[a] = "running" /\ lock = NoOne /\ lock' = a
          /\ pc' = [pc EXCEPT ![a] = "exhausted"] /\ UNCHANGED <<sending, stop, closedOut>>
      BY <1>9 DEF IDsExhausted, CanLock, Goto, chanVars
    <2>2. "exhausted" \in PCs \ Closing /\ pc[a] \notin Closing \cup {"socket"}
      BY <2>1, ClosingStates DEF PCs
    <2>3. TypeOK /\ a \in Goroutines /\ a # Sender
      BY <1>0
    <2> QED BY <2>1, <2>2, <2>3, OneMoves, ZenonT(30)
  <1>10. CASE Exhausted(a)
    <2>1. /\ pc[a] = "exhausted" /\ lock' = NoOne
          /\ pc' = [pc EXCEPT ![a] = "running"] /\ UNCHANGED <<sending, stop, closedOut>>
      BY <1>10 DEF Exhausted, UnlockedFirst, Goto, chanVars
    <2>2. lock = a /\ "running" \in PCs \ Closing /\ pc[a] \notin Closing \cup {"socket"}
      BY <1>0, <2>1 DEF Holding, Locked, PCs
    <2>3. TypeOK /\ a \in Goroutines /\ a # Sender
      BY <1>0
    <2> QED BY <2>1, <2>2, <2>3, OneMoves, ZenonT(30)
  <1>11. CASE RunEnd(a) \/ \E from \in {"running", "respond"} : WriteResponse(a, from)
    BY <1>0, <1>11, OneMoves DEF RunEnd, WriteResponse, Goto, connVars, PCs
  <1> QED BY <1>1, <1>2, <1>3, <1>4, <1>5, <1>6, <1>7, <1>8, <1>9, <1>10, <1>11
          DEF AppCall, AppStep

LEMMA ReaderLife ==
  ASSUME ConnInv, ReaderFrame \/ ReaderStep
  PROVE  lifeBar' = lifeBar
  <1> USE Constants, ClosingStates, BlockedStates
  <1>0. TypeOK /\ Holding
    BY DEF ConnInv
  <1>1. CASE ReplyPing \/ LoopProtocolError
    BY <1>0, <1>1, OneMoves DEF ReplyPing, LoopProtocolError, Offer, Goto, connVars, PCs
  <1>2. CASE RefusePush \/ HandlerProtocolError
    BY <1>0, <1>2, OneMoves DEF RefusePush, HandlerProtocolError, CanLock, Offer, Goto, PCs
  <1>3. CASE ReadEnd
    <2>1. /\ pc' = [pc EXCEPT ![Reader] = "close"] /\ pc[Reader] = "running"
          /\ UNCHANGED <<lock, sending, stop, closedOut>>
      BY <1>3 DEF ReadEnd, Goto, connVars, chanVars
    <2>2. /\ Reader \in Goroutines /\ Reader # Sender
          /\ "close" \in PCs /\ "close" \notin Closing /\ "running" \notin Closing
      BY DEF PCs
    <2> QED BY <1>0, <2>1, <2>2, OneMoves
  <1>4. ASSUME NEW a \in Apps, OpenStream(a) PROVE lifeBar' = lifeBar
    BY <1>0, <1>4, OneMoves DEF OpenStream, connVars, chanVars, PCs
  <1>5. ASSUME NEW a \in Apps, ResetStream(a) PROVE lifeBar' = lifeBar
    <2>1. lock = NoOne /\ lock' \in {lock, Reader} /\ UNCHANGED <<sending, stop>>
          /\ pc[Reader] = "running"
      BY <1>5 DEF ResetStream, CanLock
    <2>2. /\ closedOut' = closedOut
          /\ \/ pc' = pc
             \/ pc' = [pc EXCEPT ![Reader] = "resetting"]
             \/ pc' = [pc EXCEPT ![Reader] = "running"]
      BY <1>5 DEF ResetStream, CloseStream, Offer, Goto, chanVars
    <2> QED BY <1>0, <2>1, <2>2, OneMoves DEF PCs
  <1>6. CASE StreamReset \/ Unlock(Reader)
    <2>1. pc[Reader] \in Locked
      BY <1>6 DEF StreamReset, Unlock, Locked
    <2>2. lock = Reader
      BY <1>0, <2>1 DEF Holding
    <2> QED BY <1>0, <1>6, <2>2, OneMoves DEF StreamReset, Unlock, Goto, chanVars, PCs
  <1> QED BY <1>1, <1>2, <1>3, <1>4, <1>5, <1>6 DEF ReaderFrame, ReaderStep

\* The sender takes a frame: a goroutine that Close has put in a queue is in
\* Close afterwards too, and no one else gets there.
LEMMA ReceiveLife ==
  ASSUME ConnInv, NEW p \in Priorities, output[p] # <<>>, Receive(p),
         pc[Sender] \in {"poll", "select"}, UNCHANGED <<connVars, closedOut>>
  PROVE  Life!Serve
  <1> USE Constants, ClosingStates, BlockedStates
  <1>0. TypeOK /\ Queued /\ Handshake
    BY DEF ConnInv
  <1>1. PICK g \in Goroutines :
          /\ g # Sender /\ pc[g] \in Blocked
          /\ pc' = [pc EXCEPT ![g] = Resume[pc[g]], ![Sender] = "frame"]
    BY <1>0, ReceiveTakes
  <1>2. /\ pc'[Sender] = "frame"
        /\ pc'[g] = Resume[pc[g]]
        /\ \A h \in Goroutines \ {g, Sender} : pc'[h] = pc[h]
    BY <1>0, <1>1 DEF TypeOK
  <1>3. \A h \in Goroutines : pc'[h] \in Closing <=> pc[h] \in Closing
    <2>1. Resume[pc[g]] \in Closing <=> pc[g] \in Closing
      BY <1>1, ClosingStates
    <2>2. pc'[Sender] \notin Closing /\ pc[Sender] \notin Closing
      BY <1>2, ClosingStates
    <2> QED BY <1>2, <2>1, <2>2
  <1>4. Closer' = Closer
    BY <1>3 DEF Closer, connVars
  <1>5. sending # "closed" /\ ~stop
    BY <1>0 DEF Handshake
  <1>6. Phase' = Phase /\ Phase \in {"open", "draining"}
    BY <1>0, <1>5 DEF Phase, connVars, TypeOK
  <1> QED BY <1>2, <1>4, <1>6 DEF Life!Serve

LEMMA SendLife ==
  ASSUME ConnInv, SendLoop
  PROVE  Life!Next \/ lifeBar' = lifeBar
  <1> USE Constants, ClosingStates, BlockedStates
  <1>0. TypeOK /\ Holding /\ Handshake
    BY DEF ConnInv
  <1>1. CASE SenderTop
    <2>1. PICK at \in {"close", "poll"} : pc' = [pc EXCEPT ![Sender] = at]
      BY <1>1 DEF SenderTop, Goto
    <2>2. \A h \in Goroutines : pc'[h] = pc[h] \/ (h = Sender /\ pc'[h] = at)
      BY <1>0, <2>1 DEF TypeOK
    <2> QED BY <1>1, <2>2, Bystander DEF SenderTop, Serving, connVars, chanVars
  <1>2. CASE SenderPoll
    <2>1. CASE output[poll] # <<>>
      <3>1. poll \in Priorities
        BY <1>0 DEF TypeOK
      <3> QED BY <1>2, <2>1, <3>1, ReceiveLife DEF SenderPoll, Life!Next
    <2>2. CASE output[poll] = <<>>
      <3>1. pc' = pc \/ pc' = [pc EXCEPT ![Sender] = "check"]
        BY <1>2, <2>2 DEF SenderPoll, Goto
      <3>2. \A h \in Goroutines : pc'[h] = pc[h] \/ (h = Sender /\ pc'[h] = "check")
        BY <1>0, <3>1 DEF TypeOK
      <3> QED BY <1>2, <3>2, Bystander DEF SenderPoll, Serving, connVars
    <2> QED BY <2>1, <2>2
  <1>3. CASE SenderCheck
    <2>1. CASE sending # "nil"
      <3>1. /\ pc[Sender] = "check" /\ sending' = "closed"
            /\ pc' = [pc EXCEPT ![Sender] = "gone"]
            /\ UNCHANGED <<lock, stop, closedOut>>
        BY <1>3, <2>1 DEF SenderCheck, DrainAsked, Goto, chanVars
      <3>2. sending = "open" /\ ~stop
        BY <1>0, <2>1, <3>1 DEF Handshake, TypeOK
      <3>3. lock \in Goroutines /\ pc[lock] = "await" /\ lock # Sender
        BY <1>0, <3>1, <3>2 DEF Handshake
      <3>4. pc'[lock] = "await" /\ pc'[Sender] = "gone"
        BY <1>0, <3>1, <3>3 DEF TypeOK
      <3>5. Closer' = Closer
        BY <3>1, <3>3, <3>4 DEF Closer
      <3>6. Phase = "draining" /\ Phase' = "drained"
        BY <3>1, <3>2 DEF Phase
      <3> QED BY <3>1, <3>4, <3>5, <3>6 DEF Life!Next, Life!Drain
    <2>2. CASE sending = "nil"
      <3>1. pc[Sender] = "check" /\ pc' = [pc EXCEPT ![Sender] = "select"]
        BY <1>3, <2>2 DEF SenderCheck, DrainAsked, Goto
      <3>2. \A h \in Goroutines : pc'[h] = pc[h] \/ (h = Sender /\ pc'[h] = "select")
        BY <1>0, <3>1 DEF TypeOK
      <3> QED BY <1>3, <2>2, <3>1, <3>2, Bystander DEF SenderCheck, DrainAsked, Serving, chanVars
    <2> QED BY <2>1, <2>2
  <1>4. CASE SenderSelect
    <2>1. \/ \E p \in Priorities : output[p] # <<>> /\ Receive(p)
          \/ pc' = [pc EXCEPT ![Sender] = "close"]
      <3>1. PICK ready \in {p \in Priorities : output[p] # <<>>}
                            \cup {p \in {NumPriorities} : Closed} :
              IF ready \in Priorities THEN Receive(ready)
              ELSE pc' = [pc EXCEPT ![Sender] = "close"]
        BY <1>4 DEF SenderSelect, Goto
      <3>2. NumPriorities \notin Priorities
        BY ConnAssumption DEF Priorities
      <3> QED BY <3>1, <3>2
    <2>2. CASE \E p \in Priorities : output[p] # <<>> /\ Receive(p)
      BY <1>4, <2>2, ReceiveLife DEF SenderSelect, Life!Next
    <2>3. CASE pc' = [pc EXCEPT ![Sender] = "close"]
      <3>1. \A h \in Goroutines : pc'[h] = pc[h] \/ (h = Sender /\ pc'[h] = "close")
        BY <1>0, <2>3 DEF TypeOK
      <3>2. pc'[Sender] = "close" /\ pc[Sender] = "select"
        BY <1>0, <1>4, <2>3 DEF TypeOK, SenderSelect
      <3> QED BY <1>4, <3>1, <3>2, Bystander DEF SenderSelect, Serving, connVars
    <2> QED BY <2>1, <2>2, <2>3
  <1>5. CASE SenderFrame
    <2>1. PICK at \in {"top", "close"} : pc' = [pc EXCEPT ![Sender] = at]
      BY <1>5 DEF SenderFrame, Goto
    <2>2. /\ pc[Sender] = "frame" /\ pc'[Sender] # "frame"
          /\ \A h \in Goroutines : pc'[h] \in Closing <=> pc[h] \in Closing
          /\ \A h \in Goroutines : pc'[h] = "socket" <=> pc[h] = "socket"
      BY <1>0, <1>5, <2>1 DEF SenderFrame, TypeOK
    <2>3. Closer' = Closer
      BY <1>5, <2>2 DEF SenderFrame, Closer, connVars
    <2>4. Phase' = Phase
      <3>1. ~stop
        BY <1>0, <2>2 DEF Handshake
      <3> QED BY <1>5, <3>1 DEF Phase, SenderFrame, connVars
    <2> QED BY <2>2, <2>3, <2>4 DEF Life!Next, Life!Served
  <1> QED BY <1>1, <1>2, <1>3, <1>4, <1>5 DEF SendLoop

LEMMA CloseLife ==
  ASSUME ConnInv, NEW g \in Goroutines, CloseStep(g)
  PROVE  Life!Next \/ lifeBar' = lifeBar
  <1> USE Constants, ClosingStates, BlockedStates
  <1>0. TypeOK /\ Queued /\ Holding /\ Handshake /\ OutputsLast
    BY DEF ConnInv
  <1>1. CASE CloseBegin(g)
    <2>1. pc[g] = "close" /\ lock = NoOne /\ UNCHANGED <<stop, closedOut>>
      BY <1>1 DEF CloseBegin, CanLock, chanVars
    <2>2. CASE stop
      <3>1. PICK at \in {"gone", "running", "returned"} : pc' = [pc EXCEPT ![g] = at]
        BY <1>0, <1>1, <2>2 DEF CloseBegin, Closed, AfterClose, Goto, TypeOK
      <3>2. \A h \in Goroutines : pc'[h] = pc[h] \/ (h = g /\ pc'[h] = at)
        BY <1>0, <3>1 DEF TypeOK
      <3>3. Serving' = Serving
        BY <2>1, <3>2 DEF Serving
      <3>4. UNCHANGED <<lock, sending>>
        BY <1>1, <2>2 DEF CloseBegin, Closed
      <3> QED BY <2>1, <3>2, <3>3, <3>4, Bystander
    <2>3. CASE ~stop
      <3>1. sending = "nil"
        BY <1>0, <2>1, <2>3 DEF Handshake, TypeOK
      <3>2. lock' = g /\ sending' = "open" /\ pc' = [pc EXCEPT ![g] = "await"]
        BY <1>1, <2>3, <3>1 DEF CloseBegin, Closed, Goto
      <3>3. /\ pc'[g] = "await"
            /\ \A h \in Goroutines : pc'[h] = pc[h] \/ (h = g /\ pc'[h] = "await")
        BY <1>0, <3>2 DEF TypeOK
      <3>4. Phase = "open" /\ Phase' = "draining"
        BY <2>1, <2>3, <3>1, <3>2 DEF Phase
      <3>5. Closer' = g
        BY <3>2, <3>3 DEF Closer
      <3>6. Serving' = Serving
        BY <2>1, <3>3 DEF Serving
      <3> QED BY <3>4, <3>5, <3>6 DEF Life!Next, Life!Begin, Serving
    <2> QED BY <2>2, <2>3
  <1> USE DEF Locked
  <1>2. CASE CloseAwait(g)
    <2>1. pc[g] = "await" /\ pc' = [pc EXCEPT ![g] = "stop"]
          /\ UNCHANGED <<lock, sending, stop, closedOut>>
      BY <1>2 DEF CloseAwait, Goto, connVars, chanVars
    <2>2. \A h \in Goroutines : pc'[h] = pc[h] \/ (h = g /\ pc'[h] = "stop")
      BY <1>0, <2>1 DEF TypeOK
    <2>3. Serving' = Serving
      BY <2>1, <2>2 DEF Serving
    <2> QED BY <2>1, <2>2, <2>3, Bystander
  <1>3. CASE CloseStop(g)
    <2>1. pc[g] = "stop" /\ pc' = [pc EXCEPT ![g] = "socket"] /\ stop'
          /\ UNCHANGED <<lock, sending, closedOut>>
      BY <1>3 DEF CloseStop, Goto, chanVars
    <2>2. lock = g /\ sending = "closed" /\ ~stop
      BY <1>0, <2>1 DEF Holding, Handshake
    <2>3. /\ pc'[g] = "socket"
          /\ \A h \in Goroutines : pc'[h] = pc[h] \/ (h = g /\ pc'[h] = "socket")
      BY <1>0, <2>1 DEF TypeOK
    <2>4. Closer = g /\ Closer' = g
      BY <2>1, <2>2, <2>3 DEF Closer
    <2>5. Phase = "drained" /\ Phase' = "stopped"
      BY <2>1, <2>2, <2>3, <2>4 DEF Phase
    <2>6. Serving' = Serving
      BY <2>1, <2>3 DEF Serving
    <2> QED BY <2>4, <2>5, <2>6 DEF Life!Next, Life!Advance, Serving
  <1>4. CASE CloseSocket(g)
    <2>1. pc[g] = "socket" /\ UNCHANGED <<sending, stop, closedOut>>
      BY <1>4 DEF CloseSocket, chanVars
    <2>2. lock = g /\ stop /\ closedOut = 0
      BY <1>0, <2>1 DEF Holding, Handshake, TornDown, OutputsLast, TypeOK
    <2>3. Closer = g /\ Phase = "stopped"
      BY <2>1, <2>2 DEF Closer, Phase
    <2>4. CASE Goto(g, "streams") /\ UNCHANGED lock
      <3>1. /\ pc'[g] = "streams"
            /\ \A h \in Goroutines : pc'[h] = pc[h] \/ (h = g /\ pc'[h] = "streams")
        BY <1>0, <2>4 DEF TypeOK, Goto
      <3>2. Closer' = g
        BY <2>2, <2>4, <3>1 DEF Closer
      <3>3. Phase' = "dismantling"
        BY <2>1, <2>2, <3>1, <3>2 DEF Phase
      <3>4. Serving' = Serving
        BY <2>1, <3>1 DEF Serving
      <3> QED BY <2>3, <3>2, <3>3, <3>4 DEF Life!Next, Life!Advance, Serving
    <2>5. CASE Goto(g, AfterClose(g)) /\ lock' = NoOne
      <3>1. PICK at \in {"gone", "running", "returned"} : pc' = [pc EXCEPT ![g] = at]
        BY <1>0, <2>5 DEF AfterClose, Goto, TypeOK
      <3>2. pc'[g] = at /\ \A h \in Goroutines : pc'[h] = pc[h] \/ (h = g /\ pc'[h] = at)
        BY <1>0, <3>1 DEF TypeOK
      <3>3. Closer' = NoOne
        BY <2>5 DEF Closer
      <3>4. NumPriorities # 0
        BY ConnAssumption
      <3>5. Phase' = "abandoned"
        BY <2>1, <2>2, <3>3, <3>4 DEF Phase
      <3>6. Serving' = Serving
        BY <2>1, <3>2 DEF Serving
      <3> QED BY <2>3, <3>3, <3>5, <3>6 DEF Life!Next, Life!Leave, Serving
    <2> QED BY <1>4, <2>4, <2>5 DEF CloseSocket
  <1>5. CASE CloseStreams(g)
    <2>1. pc[g] = "streams" /\ UNCHANGED <<lock, sending, stop>>
      BY <1>5 DEF CloseStreams, connVars
    <2>2. closedOut' = closedOut /\ \/ pc' = pc
                                    \/ \E at \in {"streams", "headers", "outputs"} :
                                         pc' = [pc EXCEPT ![g] = at]
      BY <1>5 DEF CloseStreams, CloseStream, Offer, Goto, chanVars
    <2>3. \A h \in Goroutines :
            pc'[h] = pc[h] \/ (h = g /\ pc'[h] \in {"streams", "headers", "outputs"})
      BY <1>0, <2>2 DEF TypeOK
    <2>4. Serving' = Serving
      BY <2>1, <2>3 DEF Serving
    <2> QED BY <2>1, <2>2, <2>3, <2>4, Bystander
  <1>6. CASE CloseOutputs(g)
    <2>1. pc[g] = "outputs" /\ lock = g /\ stop /\ UNCHANGED <<sending, stop>>
      BY <1>0, <1>6 DEF CloseOutputs, Holding, Handshake, TornDown
    <2>2. Closer = g /\ Phase = "dismantling"
      BY <2>1 DEF Closer, Phase
    <2>3. CASE ~(closedOut < NumPriorities)
      <3>1. pc' = [pc EXCEPT ![g] = "gone"] /\ lock' = NoOne /\ closedOut' = closedOut
        BY <1>6, <2>3 DEF CloseOutputs, Goto, chanVars
      <3>2. closedOut = NumPriorities
        BY <1>0, <2>3 DEF TypeOK
      <3>3. \A h \in Goroutines : pc'[h] = pc[h] \/ (h = g /\ pc'[h] = "gone")
        BY <1>0, <3>1 DEF TypeOK
      <3>4. Closer' = NoOne
        BY <3>1 DEF Closer
      <3>5. Phase' = "closed"
        BY <2>1, <3>1, <3>2, <3>4 DEF Phase
      <3>6. Serving' = Serving
        BY <2>1, <3>3 DEF Serving
      <3> QED BY <2>2, <3>4, <3>5, <3>6 DEF Life!Next, Life!Leave, Serving
    <2>4. CASE closedOut < NumPriorities
      <3>1. lock' = lock /\ \/ pc' = pc
                            \/ /\ output[closedOut] # <<>>
                               /\ pc' = [pc EXCEPT ![Head(output[closedOut])] = Resume[@]]
        BY <1>6, <2>4 DEF CloseOutputs
      <3>2. pc'[g] = "outputs" /\ Serving' = Serving
        <4>1. CASE pc' = pc
          BY <2>1, <4>1 DEF Serving
        <4>2. CASE /\ output[closedOut] # <<>>
                   /\ pc' = [pc EXCEPT ![Head(output[closedOut])] = Resume[@]]
          <5> DEFINE first == Head(output[closedOut])
          <5>1. closedOut \in Priorities
            BY <1>0, <2>4 DEF TypeOK
          <5>2. output[closedOut] \in Seq(Goroutines)
            BY <1>0, <5>1 DEF TypeOK
          <5>3. first \in Goroutines /\ first = output[closedOut][1]
                /\ 1 \in 1 .. Len(output[closedOut])
            BY <4>2, <5>2
          <5>4. pc[first] \in Blocked
            BY <1>0, <5>1, <5>3 DEF Queued
          <5>5. first # g
            BY <2>1, <5>4
          <5>6. first # Sender
            BY <1>0, <2>1, <5>4 DEF Handshake
          <5> HIDE DEF first
          <5>7. pc' = [pc EXCEPT ![first] = Resume[@]]
            BY <4>2 DEF first
          <5> QED BY <1>0, <2>1, <5>5, <5>6, <5>7 DEF TypeOK, Serving
        <4> QED BY <3>1, <4>1, <4>2
      <3>3. Closer' = g
        BY <2>1, <3>1, <3>2 DEF Closer
      <3>4. Phase' = "dismantling"
        BY <2>1, <3>2, <3>3 DEF Phase
      <3> QED BY <2>2, <3>2, <3>3, <3>4 DEF lifeBar
    <2> QED BY <2>3, <2>4
  <1> QED BY <1>1, <1>2, <1>3, <1>4, <1>5, <1>6 DEF CloseStep

\* Close keeps its promise: a connection's steps are steps of Lifecycle, for
\* any number of goroutines and priorities (conn.go 44-100 and 846-931).
THEOREM Implementation == Spec => FollowsLifecycle
  <1>1. Init => Life!Init
    <2> SUFFICES ASSUME Init PROVE Life!Init
      OBVIOUS
    <2>1. Closer = NoOne
      BY Constants DEF Init, Closer
    <2>2. Phase = "open"
      BY DEF Init, Phase
    <2>3. pc[Sender] # "frame"
      BY Constants DEF Init
    <2> QED BY <2>1, <2>2, <2>3 DEF Life!Init
  <1>2. ConnInv /\ [Next]_vars => [Life!Next]_lifeBar
    <2> SUFFICES ASSUME ConnInv, [Next]_vars PROVE [Life!Next]_lifeBar
      OBVIOUS
    <2>1. CASE UNCHANGED vars
      BY <2>1 DEF lifeBar, Phase, Closer, Serving, vars, connVars, chanVars
    <2>2. CASE Next
      BY <2>2, AppLife, ReaderLife, SendLife, CloseLife DEF Next, Step
    <2> QED BY <2>1, <2>2
  <1>3. ConnInv /\ [Next]_vars => [Life!Next]_(Life!life)
    <2> SUFFICES ASSUME ConnInv, [Next]_vars, ~ Life!Next PROVE UNCHANGED Life!life
      OBVIOUS
    <2>1. lifeBar' = lifeBar
      BY <1>2
    <2> QED BY <2>1 DEF lifeBar, Life!life, Serving
  <1> QED BY <1>1, <1>3, Invariance, PTL DEF Spec, FollowsLifecycle, Life!Spec
=============================================================================
