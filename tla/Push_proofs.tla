----------------------------- MODULE Push_proofs -----------------------------
(***************************************************************************)
(* Proofs about Push, for any number of pushers, of calls and of IDs, also *)
(* when the IDs run out and start again: pushes go out in order, each is   *)
(* refused once, and one that was closed is silent.                        *)
(***************************************************************************)
EXTENDS Push, TLAPS

-----------------------------------------------------------------------------
(* The IDs.                                                                *)

LEMMA ModSmall == ASSUME NEW m \in Nat, NEW n \in Nat, n < m PROVE n % m = n
  OBVIOUS

LEMMA ModSelf == ASSUME NEW m \in Nat \ {0} PROVE m % m = 0
  OBVIOUS

LEMMA Room ==
  ASSUME NEW m \in Nat, NEW n \in Nat, m % 2 = 0, n % 2 = 0, n < m
  PROVE  n + 2 <= m
  OBVIOUS

\* The next ID is two higher, or 0 again.
LEMMA NextIDs ==
  ASSUME NEW n \in StreamIDs, n % 2 = 0
  PROVE  NextID(n) \in StreamIDs /\ NextID(n) % 2 = 0 /\ (NextID(n) = n + 2 \/ NextID(n) = 0)
  <1>1. Modulus \in Nat /\ Modulus % 2 = 0 /\ Modulus > 2
    BY PushAssumption
  <1>2. n \in Nat /\ n < Modulus
    BY <1>1 DEF StreamIDs
  <1>3. n + 2 <= Modulus
    BY <1>1, <1>2, Room
  <1>4. CASE n + 2 = Modulus
    BY <1>1, <1>4, ModSelf DEF NextID, StreamIDs
  <1>5. CASE n + 2 < Modulus
    <2>1. (n + 2) % Modulus = n + 2
      BY <1>1, <1>2, <1>5, ModSmall
    <2>2. (n + 2) % 2 = 0
      BY <1>2
    <2> QED BY <1>1, <1>2, <1>5, <2>1, <2>2 DEF NextID, StreamIDs
  <1> QED BY <1>3, <1>1, <1>2, <1>4, <1>5

-----------------------------------------------------------------------------
(* The frames on their way.                                                *)

LEMMA AppendFacts ==
  ASSUME NEW S, NEW s \in Seq(S), NEW x \in S
  PROVE  /\ Append(s, x) \in Seq(S)
         /\ Len(s) \in Nat /\ DOMAIN s = 1 .. Len(s)
         /\ DOMAIN Append(s, x) = 1 .. Len(s) + 1
         /\ \A i \in 1 .. Len(s) : Append(s, x)[i] = s[i]
         /\ Append(s, x)[Len(s) + 1] = x
  OBVIOUS

LEMMA TailFacts ==
  ASSUME NEW S, NEW s \in Seq(S), s # <<>>
  PROVE  /\ Tail(s) \in Seq(S) /\ Head(s) \in S /\ Head(s) = s[1] /\ 1 \in DOMAIN s
         /\ DOMAIN s \subseteq Nat \ {0}
         /\ \A i \in DOMAIN Tail(s) : i \in Nat \ {0} /\ i + 1 \in DOMAIN s /\ Tail(s)[i] = s[i + 1]
  OBVIOUS

-----------------------------------------------------------------------------
(* Steps that push nothing, store nothing and refuse nothing.              *)

Early == {"idle", "sending", "storing"}
Late == {"ready", "checked", "flush", "data", "chunks", "close"}

\* What such a step may do to the pushes.
Steady ==
  /\ \A p \in Pushers :
       /\ pc'[p] \in Early <=> pc[p] \in Early
       /\ pc'[p] \in {"idle", "sending"} <=> pc[p] \in {"idle", "sending"}
       /\ pc'[p] = "sending" => pc[p] = "sending"
       /\ state'[p] = "absent" <=> state[p] = "absent"
       /\ state'[p] = "nil" => p \notin header'
       /\ Refused(p)' /\ conn' \in {"open", "failed"} => Refused(p)
  /\ closing' # NoOne => state'[closing'] # "absent"
  /\ conn' = conn \/ (conn' = "failed" /\ conn = "open")
     \/ conn' \in {"hung", "stopped", "stuck", "closed"}
  /\ origin' = "nil" \/ conn' = "closed" => cut'
  /\ UNCHANGED <<lock, lastPush, streams, id, wire, back, seen, benign>>

LEMMA Quiet ==
  ASSUME PushInv, Steady
  PROVE  IDsAscend' /\ Known'
  <1>1. Out' = Out
    BY DEF Out, Steady
  <1>2. IDsAscend'
    <2>1. conn' = "open" => conn = "open"
      BY DEF Steady
    <2> QED BY <1>1, <2>1 DEF PushInv, IDsAscend, Steady
  <1>3. Known'
    <2>1. \A p \in Pushers : Refused(p)' /\ conn' \in {"open", "failed"} =>
            Refused(p) /\ conn \in {"open", "failed"}
      BY DEF Steady
    <2>2. \A i \in StreamIDs : streams[i] \in Pushers \cup {NoOne}
      BY DEF PushInv, TypeOK
    <2> QED BY <2>1, <2>2 DEF PushInv, Known, Steady, Early
  <1> QED BY <1>2, <1>3

IInv == PushInv /\ PushesInOrder /\ PanicsExplained

LEMMA QuietInv ==
  ASSUME IInv, TypeOK', Steady, PanicsExplained'
  PROVE  IInv'
  BY Quiet DEF IInv, PushInv, PushesInOrder, Steady

LEMMA Begins ==
  ASSUME TypeOK, NEW p \in Pushers, Begun(p)
  PROVE  /\ sent' \in [Pushers -> 0 .. MaxSent]
         /\ \A q \in Pushers \ {p} : sent'[q] = sent[q]
  <1>1. sent[p] \in Nat /\ sent[p] + 1 \in 0 .. MaxSent /\ sent' = [sent EXCEPT ![p] = sent[p] + 1]
    BY PushAssumption DEF Begun, TypeOK
  <1> QED BY <1>1 DEF TypeOK

\* What a step of a writer may do besides: it goes on, or it panics because
\* something is closed.
Moves(p) ==
  \/ panicked' = panicked /\ \E at \in Late : pc' = [pc EXCEPT ![p] = at]
  \/ panicked' = panicked /\ pc' = pc
  \/ panicked' = "writer" /\ pc' = pc /\ (cut \/ \E q \in Pushers : state[q] = "nil")

LEMMA Sends ==
  ASSUME TypeOK, Known, NEW p \in Pushers, NEW at \in Late, Send(p, at)
  PROVE  /\ sent' \in [Pushers -> 0 .. MaxSent] /\ waits' \subseteq Pushers /\ Moves(p)
         /\ \A q \in Pushers \ {p} : sent'[q] = sent[q]
  <1>1. CASE conn = "closed"
    BY <1>1 DEF Send, sendVars, Moves, TypeOK, Known
  <1>2. CASE conn # "closed"
    <2>1. Begun(p) /\ waits' = waits \cup {p} /\ pc' = [pc EXCEPT ![p] = at] /\ panicked' = panicked
      BY <1>2 DEF Send, Goto
    <2> QED BY <2>1, Begins DEF Moves, TypeOK
  <1> QED BY <1>1, <1>2

LEMMA Flushes ==
  ASSUME TypeOK, Known, NEW p \in Pushers, NEW at \in Late, Flush(p, at)
  PROVE  /\ sent' \in [Pushers -> 0 .. MaxSent] /\ waits' \subseteq Pushers /\ Moves(p)
         /\ header' = header \ {p}
         /\ \A q \in Pushers \ {p} : sent'[q] = sent[q]
         /\ p \notin header => sent' = sent
  <1>1. header' = header \ {p}
    BY DEF Flush
  <1>2. CASE p \in header
    BY <1>1, <1>2, Sends DEF Flush
  <1>3. CASE p \notin header
    <2>1. pc' = [pc EXCEPT ![p] = at] /\ UNCHANGED <<sent, waits, panicked>>
      BY <1>3 DEF Flush, Goto, sendVars
    <2> QED BY <1>1, <1>3, <2>1 DEF Moves, TypeOK
  <1> QED BY <1>2, <1>3

\* A step of a writer that closes nothing keeps the invariant.
LEMMA Writes ==
  ASSUME IInv, panicked = "no", NEW p \in Pushers, pc[p] \notin Early, Moves(p),
         UNCHANGED <<lock, conn, lastPush, streams, late, id, state, closing, own, seen, benign,
                     origin, wire, back, calls, cut>>,
         header' \subseteq header \cup {p}, state[p] = "nil" => p \notin header',
         sent' \in [Pushers -> 0 .. MaxSent], waits' \subseteq Pushers
  PROVE  IInv'
  <1>1. TypeOK /\ Known
    BY DEF IInv, PushInv
  <1>2. /\ pc' \in [Pushers -> Early \cup Late]
        /\ \A q \in Pushers : /\ pc'[q] \in Early <=> pc[q] \in Early
                              /\ pc'[q] \in {"idle", "sending"} <=> pc[q] \in {"idle", "sending"}
                              /\ pc'[q] = "sending" => pc[q] = "sending"
    <2>1. pc \in [Pushers -> Early \cup Late]
      BY <1>1 DEF TypeOK, Early, Late
    <2>2. CASE pc' = pc
      BY <2>1, <2>2
    <2>3. ASSUME NEW at \in Late, pc' = [pc EXCEPT ![p] = at] PROVE <1>2!:
      <3>1. at \notin Early /\ at \notin {"idle", "sending"} /\ pc[p] \notin {"idle", "sending"}
        BY DEF Early, Late
      <3> QED BY <2>1, <2>3, <3>1
    <2> QED BY <2>2, <2>3 DEF Moves
  <1>3. TypeOK'
    <2>1. panicked' \in {"no", "Push", "writer", "reader"}
      BY <1>1 DEF Moves, TypeOK
    <2>2. header' \subseteq Pushers
      BY <1>1 DEF TypeOK
    <2>3. pc' \in [Pushers -> {"idle", "sending", "storing", "ready", "checked",
                               "flush", "data", "chunks", "close"}]
      BY <1>2 DEF Early, Late
    <2> QED BY <1>1, <2>1, <2>2, <2>3 DEF TypeOK
  <1>4. Steady
    <2>1. \A q \in Pushers : state'[q] = "nil" => q \notin header'
      BY <1>1 DEF Known
    <2>2. \A q \in Pushers : Refused(q)' => Refused(q)
      BY DEF Refused
    <2> QED BY <1>1, <1>2, <2>1, <2>2 DEF Steady, Known
  <1>5. PanicsExplained'
    BY DEF Moves, PanicsExplained
  <1> QED BY <1>3, <1>4, <1>5, QuietInv

LEMMA WriterSteps ==
  ASSUME IInv, panicked = "no", NEW p \in Pushers,
         \/ SetHeader(p) \/ WriteHeader(p) \/ WriteBegin(p) \/ WriteChecks(p)
         \/ WriteFlush(p) \/ WriteData(p) \/ WriteChunk(p) \/ CloseBegin(p)
         \/ Received(p) \/ OutputClosed(p)
  PROVE  IInv'
  <1>1. TypeOK /\ Known
    BY DEF IInv, PushInv
  <1>2. sent \in [Pushers -> 0 .. MaxSent] /\ waits \subseteq Pushers
        /\ (state[p] = "nil" => p \notin header)
    BY <1>1 DEF TypeOK, Known
  <1>3. CASE SetHeader(p)
    <2>1. /\ UNCHANGED <<lock, conn, lastPush, streams, late, id, state, closing, own, sent, waits,
                         seen, benign, origin, wire, back, calls, cut>>
          /\ pc[p] \notin Early /\ Moves(p)
          /\ header' \subseteq header \cup {p} /\ (state[p] = "nil" => p \notin header')
      BY <1>2, <1>3 DEF SetHeader, Moves, Early, connVars, sendVars, clientVars
    <2> QED BY <1>2, <2>1, Writes
  <1>4. CASE WriteHeader(p) \/ WriteFlush(p) \/ CloseBegin(p)
    <2>1. /\ UNCHANGED <<lock, conn, lastPush, streams, late, id, state, closing, own,
                         seen, benign, origin, wire, back, calls, cut>>
          /\ pc[p] \notin Early /\ \E at \in Late : Flush(p, at)
      BY <1>4 DEF WriteHeader, WriteFlush, CloseBegin, Early, Late, connVars, clientVars
    <2>2. /\ sent' \in [Pushers -> 0 .. MaxSent] /\ waits' \subseteq Pushers /\ Moves(p)
          /\ header' = header \ {p}
      BY <1>1, <2>1, Flushes
    <2> QED BY <1>2, <2>1, <2>2, Writes
  <1>5. CASE WriteBegin(p) \/ WriteChecks(p)
    <2>1. /\ UNCHANGED <<lock, conn, lastPush, streams, late, id, state, closing, own, sent, waits,
                         header, seen, benign, origin, wire, back, calls, cut>>
          /\ pc[p] \notin Early
      BY <1>5 DEF WriteBegin, WriteChecks, Early, connVars, closeVars, sendVars, clientVars
    <2>2. Moves(p)
      BY <1>1, <1>5 DEF WriteBegin, WriteChecks, Goto, Moves, Late, Known
    <2> QED BY <1>2, <2>1, <2>2, Writes
  <1>6. CASE WriteData(p) \/ WriteChunk(p)
    <2>1. /\ UNCHANGED <<lock, conn, lastPush, streams, late, id, state, closing, own, header,
                         seen, benign, origin, wire, back, calls, cut>>
          /\ pc[p] \notin Early
          /\ \/ \E at \in Late : Send(p, at)
             \/ Goto(p, "ready") /\ UNCHANGED <<sent, waits, panicked>>
      BY <1>6 DEF WriteData, WriteChunk, Early, Late, connVars, closeVars, sendVars, clientVars
    <2>2. sent' \in [Pushers -> 0 .. MaxSent] /\ waits' \subseteq Pushers /\ Moves(p)
      <3>1. CASE \E at \in Late : Send(p, at)
        BY <1>1, <3>1, Sends
      <3>2. CASE Goto(p, "ready") /\ UNCHANGED <<sent, waits, panicked>>
        BY <1>2, <3>2 DEF Goto, Moves, Late
      <3> QED BY <2>1, <3>1, <3>2
    <2> QED BY <1>2, <2>1, <2>2, Writes
  <1>7. CASE Received(p) \/ OutputClosed(p)
    <2>1. /\ UNCHANGED <<lock, conn, lastPush, streams, late, pc, id, state, closing, own, header,
                         sent, seen, benign, origin, wire, back, calls, cut>>
          /\ waits' = waits \ {p}
          /\ panicked' = panicked \/ (panicked' = "writer" /\ conn = "closed")
      BY <1>7 DEF Received, OutputClosed, connVars, closeVars, clientVars
    <2>2. TypeOK'
      BY <1>1, <2>1 DEF TypeOK
    <2>3. Steady
      <3>1. \A q \in Pushers : Refused(q)' => Refused(q)
        BY <2>1 DEF Refused
      <3> QED BY <1>1, <2>1, <3>1 DEF Steady, Known
    <2>4. PanicsExplained'
      BY <1>1, <2>1 DEF PanicsExplained, Known
    <2> QED BY <2>2, <2>3, <2>4, QuietInv
  <1> QED BY <1>3, <1>4, <1>5, <1>6, <1>7

-----------------------------------------------------------------------------
(* Steps that close.                                                       *)

LEMMA Closes ==
  ASSUME TypeOK, Known, NEW p \in Pushers, state[p] # "absent", CloseStream(p)
  PROVE  /\ header' \subseteq Pushers /\ state' \in [Pushers -> {"absent", "open", "nil"}]
         /\ \A q \in Pushers : /\ state'[q] = "absent" <=> state[q] = "absent"
                               /\ state'[q] = "nil" => q \notin header'
                               /\ q # p => state'[q] = state[q]
  <1>1. header' = header \ {p} /\ state' = [state EXCEPT ![p] = "nil"]
    BY DEF CloseStream
  <1> QED BY <1>1 DEF TypeOK, Known

LEMMA OwnCloseStep ==
  ASSUME IInv, panicked = "no", NEW p \in Pushers, CloseEnd(p)
  PROVE  IInv'
  <1>1. TypeOK /\ Known
    BY DEF IInv, PushInv
  <1>2. /\ UNCHANGED <<lock, conn, lastPush, streams, late, id, closing, sent, waits, seen, benign,
                       origin, wire, back, panicked, calls, cut>>
        /\ pc[p] = "close" /\ pc' = [pc EXCEPT ![p] = "ready"]
        /\ own' = own \cup {p} /\ CloseStream(p)
    BY DEF CloseEnd, Goto, connVars, sendVars, clientVars
  <1>3. state[p] # "absent"
    BY <1>1, <1>2 DEF Known
  <1>4. /\ header' \subseteq Pushers /\ state' \in [Pushers -> {"absent", "open", "nil"}]
        /\ \A q \in Pushers : /\ state'[q] = "absent" <=> state[q] = "absent"
                              /\ state'[q] = "nil" => q \notin header'
                              /\ q # p => state'[q] = state[q]
    BY <1>1, <1>2, <1>3, Closes
  <1>5. /\ pc' \in [Pushers -> {"idle", "sending", "storing", "ready", "checked",
                                "flush", "data", "chunks", "close"}]
        /\ \A q \in Pushers : pc'[q] = IF q = p THEN "ready" ELSE pc[q]
    BY <1>1, <1>2 DEF TypeOK
  <1>6. TypeOK'
    BY <1>1, <1>2, <1>4, <1>5 DEF TypeOK
  <1>7. Steady
    <2>1. \A q \in Pushers : Refused(q)' => Refused(q)
      BY <1>2, <1>4 DEF Refused
    <2>2. \A q \in Pushers : /\ pc'[q] \in Early <=> pc[q] \in Early
                             /\ pc'[q] \in {"idle", "sending"} <=> pc[q] \in {"idle", "sending"}
                             /\ pc'[q] = "sending" => pc[q] = "sending"
      BY <1>2, <1>5 DEF Early
    <2>3. closing # NoOne => closing \in Pushers
      BY <1>1 DEF TypeOK
    <2> QED BY <1>1, <1>2, <1>4, <2>1, <2>2, <2>3 DEF Steady, Known
  <1>8. PanicsExplained'
    BY <1>2 DEF PanicsExplained
  <1> QED BY <1>6, <1>7, <1>8, QuietInv

LEMMA ClosedStep ==
  ASSUME IInv, panicked = "no", StreamClosed
  PROVE  IInv'
  <1>1. TypeOK /\ Known
    BY DEF IInv, PushInv
  <1>2. /\ UNCHANGED <<lock, conn, lastPush, streams, late, pc, id, own, sent, waits, seen, benign,
                       origin, wire, back, panicked, calls, cut>>
        /\ closing # NoOne /\ closing' = NoOne /\ CloseStream(closing)
    BY DEF StreamClosed, connVars, sendVars, clientVars
  <1>3. closing \in Pushers /\ state[closing] # "absent"
    BY <1>1, <1>2 DEF Known, TypeOK
  <1>4. /\ header' \subseteq Pushers /\ state' \in [Pushers -> {"absent", "open", "nil"}]
        /\ \A q \in Pushers : /\ state'[q] = "absent" <=> state[q] = "absent"
                              /\ state'[q] = "nil" => q \notin header'
                              /\ q # closing => state'[q] = state[q]
    BY <1>1, <1>2, <1>3, Closes
  <1>5. TypeOK'
    BY <1>1, <1>2, <1>4 DEF TypeOK
  <1>6. Steady
    <2>1. \A q \in Pushers : Refused(q)' => Refused(q)
      BY <1>1, <1>2, <1>4, PushAssumption DEF Refused
    <2> QED BY <1>1, <1>2, <1>4, <2>1 DEF Steady, Known
  <1>7. PanicsExplained'
    BY <1>2 DEF PanicsExplained
  <1> QED BY <1>5, <1>6, <1>7, QuietInv

LEMMA CloseSteps ==
  ASSUME IInv, panicked = "no",
         \/ FinishOrigin \/ CloseOrigin \/ SenderFails \/ CloseHangs \/ CloseConn
         \/ CloseConnOrigin \/ CloseConnEnd
         \/ \E p \in Pushers : CloseConnStream(p)
  PROVE  IInv'
  <1>1. TypeOK /\ Known
    BY DEF IInv, PushInv
  <1>2. CASE \/ FinishOrigin \/ CloseOrigin \/ SenderFails \/ CloseHangs \/ CloseConn
             \/ CloseConnOrigin \/ CloseConnEnd
    <2>1. /\ UNCHANGED <<lock, lastPush, streams, late, pc, id, state, header, closing, own, sent,
                         waits, seen, benign, wire, back, panicked, calls>>
          /\ \/ conn' = conn
             \/ conn = "open" /\ conn' = "failed"
             \/ conn' \in {"hung", "stopped", "stuck", "closed"}
          /\ \/ UNCHANGED <<origin, cut>>
             \/ origin = "open" /\ origin' = "closedHere" /\ cut' = cut
             \/ origin' = "nil" /\ cut' = TRUE
          /\ conn' = "closed" => conn = "closed" \/ origin' = "nil"
      <3>1. CASE FinishOrigin \/ CloseOrigin
        BY <3>1 DEF FinishOrigin, CloseOrigin, ClosedHere, connVars, pushVars, closeVars, sendVars,
           clientVars
      <3>2. CASE SenderFails \/ CloseHangs \/ CloseConn
        BY <3>2 DEF SenderFails, CloseHangs, CloseConn, pushVars, closeVars, sendVars, clientVars
      <3>3. CASE CloseConnOrigin \/ CloseConnEnd
        BY <3>3 DEF CloseConnOrigin, CloseConnEnd, pushVars, closeVars, sendVars, clientVars
      <3> QED BY <1>2, <3>1, <3>2, <3>3
    <2>2. TypeOK'
      <3>1. conn' \in {"open", "failed", "hung", "stopped", "stuck", "closed"}
        BY <1>1, <2>1 DEF TypeOK
      <3>2. origin' \in {"open", "closedHere", "nil"}
        BY <1>1, <2>1 DEF TypeOK
      <3>3. cut' \in BOOLEAN
        BY <1>1, <2>1 DEF TypeOK
      <3> QED BY <1>1, <2>1, <3>1, <3>2, <3>3 DEF TypeOK
    <2>3. origin' = "nil" \/ conn' = "closed" => cut'
      BY <1>1, <2>1 DEF Known
    <2>4. Steady
      <3>1. \A q \in Pushers : Refused(q)' => Refused(q)
        BY <2>1 DEF Refused
      <3> QED BY <1>1, <2>1, <2>3, <3>1 DEF Known, Steady
    <2>5. PanicsExplained'
      BY <2>1 DEF PanicsExplained
    <2> QED BY <2>2, <2>4, <2>5, QuietInv
  <1>3. ASSUME NEW p \in Pushers, CloseConnStream(p) PROVE IInv'
    <2>1. /\ UNCHANGED <<lock, lastPush, streams, late, pc, id, own, waits, seen, benign, origin,
                         wire, back, panicked, calls, cut>>
          /\ conn = "stopped" /\ state[p] = "open"
          /\ \/ /\ conn' = "stuck" /\ state' = state
                /\ header' = header \ {p} /\ closing' = p /\ Begun(p)
             \/ /\ conn' = conn /\ CloseStream(p) /\ UNCHANGED <<closing, sent>>
      BY <1>3 DEF CloseConnStream, clientVars
    <2>2. /\ header' \subseteq Pushers /\ state' \in [Pushers -> {"absent", "open", "nil"}]
          /\ \A q \in Pushers : /\ state'[q] = "absent" <=> state[q] = "absent"
                                /\ state'[q] = "nil" => q \notin header'
      <3>1. CASE CloseStream(p)
        BY <1>1, <2>1, <3>1, Closes
      <3>2. CASE state' = state /\ header' = header \ {p}
        BY <1>1, <3>2 DEF TypeOK, Known
      <3> QED BY <2>1, <3>1, <3>2
    <2>3. sent' \in [Pushers -> 0 .. MaxSent] /\ closing' \in {closing, p}
      <3>1. CASE Begun(p) /\ closing' = p
        BY <1>1, <3>1, Begins
      <3>2. CASE UNCHANGED <<closing, sent>>
        BY <1>1, <3>2 DEF TypeOK
      <3> QED BY <2>1, <3>1, <3>2
    <2>4. TypeOK'
      BY <1>1, <2>1, <2>2, <2>3 DEF TypeOK
    <2>5. Steady
      <3>1. conn' \notin {"open", "failed"} /\ conn' # "closed"
        BY <2>1
      <3>2. closing' # NoOne => state'[closing'] # "absent"
        <4>1. closing' = p \/ closing' = closing
          BY <2>3
        <4>2. closing # NoOne => closing \in Pushers /\ state[closing] # "absent"
          BY <1>1 DEF TypeOK, Known
        <4> QED BY <2>1, <2>2, <4>1, <4>2
      <3> QED BY <1>1, <2>1, <2>2, <3>1, <3>2 DEF Known, Steady
    <2>6. PanicsExplained'
      BY <2>1 DEF PanicsExplained
    <2> QED BY <2>4, <2>5, <2>6, QuietInv
  <1> QED BY <1>2, <1>3

-----------------------------------------------------------------------------
(* Push.                                                                   *)

LEMMA Numbers ==
  ASSUME TypeOK
  PROVE  /\ StreamIDs \subseteq Nat /\ lastPush \in Nat /\ MaxStreamID \in Nat /\ seen \in Nat
         /\ Out \subseteq Nat /\ NoOne \notin Pushers
         /\ wire \in Seq(StreamIDs) /\ back \in Seq(Refusals)
         /\ \A i \in DOMAIN wire : wire[i] \in Nat
         /\ \A i \in DOMAIN back : back[i].id \in Nat
         /\ \A p \in Pushers : id[p] \in Nat
  <1>1. StreamIDs \subseteq Nat /\ MaxStreamID \in Nat /\ NoOne \notin Pushers
    BY PushAssumption DEF StreamIDs
  <1>2. lastPush \in Nat /\ seen \in Nat /\ \A p \in Pushers : id[p] \in Nat
    BY <1>1 DEF TypeOK
  <1>3. wire \in Seq(StreamIDs) /\ \A i \in DOMAIN wire : wire[i] \in Nat
    <2>1. wire \in Seq(StreamIDs)
      BY DEF TypeOK
    <2>2. \A i \in DOMAIN wire : wire[i] \in StreamIDs
      BY <2>1
    <2> QED BY <1>1, <2>1, <2>2
  <1>4. back \in Seq(Refusals) /\ \A i \in DOMAIN back : back[i].id \in Nat
    <2>1. \A f \in Refusals : f.id \in Nat
      BY <1>1 DEF Refusals
    <2> QED BY <2>1 DEF TypeOK
  <1>5. Out \subseteq Nat
    BY <1>2, <1>3, <1>4 DEF Out
  <1> QED BY <1>1, <1>2, <1>3, <1>4, <1>5

LEMMA PushStep ==
  ASSUME IInv, panicked = "no", NEW p \in Pushers, Push(p)
  PROVE  IInv'
  <1>1. TypeOK /\ IDsAscend /\ Known
    BY DEF IInv, PushInv
  <1>2. /\ pc[p] = "idle" /\ lock = NoOne /\ calls' = calls + 1 /\ calls < MaxCalls
        /\ lastPush' = NextID(lastPush)
        /\ \/ lastPush' > MaxStreamID /\ UNCHANGED <<lock, pc, id>>
           \/ /\ ~(lastPush' > MaxStreamID) /\ lock' = p
              /\ id' = [id EXCEPT ![p] = lastPush'] /\ pc' = [pc EXCEPT ![p] = "sending"]
        /\ UNCHANGED <<conn, streams, late, state, header, closing, own, sent, waits, seen, benign,
                       origin, wire, back, panicked, cut>>
    BY DEF Push, CanLock, Exhausted, GuardedBy, Goto, closeVars, sendVars, clientVars
  <1>3. lastPush' \in StreamIDs /\ lastPush' % 2 = 0 /\ (lastPush' = lastPush + 2 \/ lastPush' = 0)
    BY <1>1, <1>2, NextIDs DEF TypeOK, IDsAscend
  <1>4. TypeOK'
    <2>1. calls' \in 0 .. MaxCalls
      BY <1>1, <1>2, PushAssumption DEF TypeOK
    <2>2. lock' \in Pushers \cup {NoOne} /\ id' \in [Pushers -> StreamIDs]
      <3>1. CASE UNCHANGED <<lock, id>>
        BY <1>1, <3>1 DEF TypeOK
      <3>2. CASE lock' = p /\ id' = [id EXCEPT ![p] = lastPush']
        BY <1>1, <1>3, <3>2 DEF TypeOK
      <3> QED BY <1>2, <3>1, <3>2
    <2>3. pc' \in [Pushers -> {"idle", "sending", "storing", "ready", "checked",
                               "flush", "data", "chunks", "close"}]
      <3>1. CASE pc' = pc
        BY <1>1, <3>1 DEF TypeOK
      <3>2. CASE pc' = [pc EXCEPT ![p] = "sending"]
        BY <1>1, <3>2 DEF TypeOK
      <3> QED BY <1>2, <3>1, <3>2
    <2> QED BY <1>1, <1>2, <1>3, <2>1, <2>2, <2>3 DEF TypeOK
  <1>5. \A q \in Pushers : /\ q # p => pc'[q] = pc[q] /\ id'[q] = id[q]
                           /\ pc'[q] \in {"idle", "sending"} <=> pc[q] \in {"idle", "sending"}
                           /\ pc'[q] \in Early <=> pc[q] \in Early
                           /\ pc[q] # "sending"
    BY <1>1, <1>2, Numbers DEF TypeOK, Early, IDsAscend
  <1>6. state[p] = "absent"
    BY <1>1, <1>2 DEF Known
  <1>7. Out' = Out
    <2>1. \A q \in Pushers : pc[q] \notin {"idle", "sending"} => id'[q] = id[q]
      BY <1>2, <1>5
    <2> QED BY <1>2, <1>5, <2>1 DEF Out
  <1>8. IDsAscend'
    <2>2. \A q \in Pushers : pc'[q] = "sending" =>
            lock' = q /\ id'[q] = lastPush' /\ lastPush' <= MaxStreamID
      <3> SUFFICES ASSUME NEW q \in Pushers, pc'[q] = "sending"
                   PROVE  lock' = q /\ id'[q] = lastPush' /\ lastPush' <= MaxStreamID
        OBVIOUS
      <3>1. q = p /\ pc' # pc
        BY <1>5
      <3>2. lastPush' \in Nat /\ MaxStreamID \in Nat
        BY <1>1, <1>3, Numbers
      <3> QED BY <1>1, <1>2, <3>1, <3>2 DEF TypeOK
    <2>3. ASSUME conn = "open", lastPush' = 0 => lock' = NoOne
          PROVE  \A i \in Out : IF lock' = NoOne THEN i <= lastPush' ELSE i < lastPush'
      <3>1. lastPush' = lastPush + 2
        BY <1>1, <1>2, <1>3, <2>3, Numbers
      <3>2. \A i \in Out : i <= lastPush /\ i \in Nat
        BY <1>1, <1>2, <2>3, Numbers DEF IDsAscend
      <3>3. \A i \in Out : i <= lastPush' /\ i < lastPush'
        BY <1>1, <3>1, <3>2, Numbers
      <3> QED BY <3>3
    <2> QED BY <1>1, <1>2, <1>3, <1>7, <2>2, <2>3 DEF IDsAscend
  <1>9. Known'
    <2>1. \A i \in StreamIDs : streams[i] # NoOne => streams[i] # p /\ streams[i] \in Pushers
      BY <1>1, <1>6 DEF Known, TypeOK
    <2>2. \A i \in StreamIDs : streams[i] # NoOne => id'[streams[i]] = i /\ state[streams[i]] # "absent"
      BY <1>1, <1>5, <2>1 DEF Known
    <2>3. closing = NoOne
      BY DEF Push, CanLock
    <2>4. \A q \in Pushers : Refused(q)' => Refused(q) /\ q # p
      BY <1>2, <1>6, <2>3, Numbers, <1>1 DEF Refused
    <2> QED BY <1>1, <1>2, <1>5, <2>2, <2>3, <2>4 DEF Known, Early
  <1> QED BY <1>2, <1>4, <1>8, <1>9 DEF IInv, PushInv, PushesInOrder, PanicsExplained

LEMMA SentStep ==
  ASSUME IInv, panicked = "no", NEW p \in Pushers, Sent(p)
  PROVE  IInv'
  <1>1. TypeOK /\ IDsAscend /\ Known /\ pc[p] = "sending" /\ lock = p /\ id[p] = lastPush
    BY DEF IInv, PushInv, IDsAscend, Sent
  <1>2. UNCHANGED <<lastPush, streams, late, id, state, header, closing, own, sent, waits, seen,
                    benign, origin, back, calls, cut>>
    BY DEF Sent, closeVars, sendVars, clientVars
  <1>3. \A q \in Pushers : Refused(q)' => Refused(q)
    BY <1>2 DEF Refused
  <1>4. CASE conn = "closed"
    <2>1. panicked' = "Push" /\ UNCHANGED <<lock, conn, pc, wire>>
      BY <1>4 DEF Sent
    <2>2. TypeOK'
      BY <1>1, <1>2, <2>1 DEF TypeOK
    <2>3. Steady
      BY <1>1, <1>2, <1>3, <2>1 DEF Known, Steady
    <2>4. PanicsExplained'
      BY <1>4, <2>1 DEF PanicsExplained
    <2> QED BY <2>2, <2>3, <2>4, QuietInv
  <1>5. CASE conn # "closed"
    <2>1. /\ lock' = NoOne /\ pc' = [pc EXCEPT ![p] = "storing"] /\ panicked' = panicked
          /\ \/ id[p] = 0 /\ conn' = "failed" /\ wire' = wire
             \/ id[p] # 0 /\ wire' = Append(wire, lastPush) /\ conn' = conn
          /\ conn = "open"
      BY <1>1, <1>5 DEF Sent, Goto
    <2>2. \A q \in Pushers : /\ pc'[q] \in Early <=> pc[q] \in Early
                             /\ pc'[q] # "sending"
                             /\ pc'[q] \notin {"idle", "sending"} => q = p \/ pc[q] \notin {"idle", "sending"}
      BY <1>1, <2>1 DEF TypeOK, Early, IDsAscend
    <2>3. CASE id[p] = 0
      <3>1. conn' = "failed" /\ wire' = wire
        BY <2>1, <2>3
      <3>2. TypeOK'
        BY <1>1, <1>2, <2>1, <3>1, PushAssumption DEF TypeOK
      <3>3. IDsAscend'
        BY <1>1, <1>2, <2>1, <2>2, <3>1 DEF IDsAscend
      <3>4. Known'
        BY <1>1, <1>2, <1>3, <2>1, <2>2, <3>1 DEF Known, Early
      <3> QED BY <1>2, <2>1, <3>1, <3>2, <3>3, <3>4
             DEF IInv, PushInv, PushesInOrder, PanicsExplained
    <2>4. CASE id[p] # 0
      <3> DEFINE n == Len(wire) + 1
      <3>1. conn' = "open" /\ wire' = Append(wire, lastPush)
        BY <2>1, <2>4
      <3>2. lastPush \in StreamIDs /\ wire \in Seq(StreamIDs)
        BY <1>1 DEF TypeOK
      <3>3. /\ wire' \in Seq(StreamIDs) /\ DOMAIN wire = 1 .. Len(wire) /\ Len(wire) \in Nat
            /\ DOMAIN wire' = 1 .. n
            /\ \A i \in DOMAIN wire : wire'[i] = wire[i]
            /\ wire'[n] = lastPush
        BY <3>1, <3>2, AppendFacts
      <3>4. \A i \in DOMAIN wire' : i = n \/ (i \in DOMAIN wire /\ wire'[i] = wire[i])
        BY <3>3
      <3>5. TypeOK'
        BY <1>1, <1>2, <2>1, <3>1, <3>3, PushAssumption DEF TypeOK
      <3>6. /\ \A i \in Out : i < lastPush /\ i \in Nat
            /\ lastPush <= MaxStreamID /\ lastPush \in Nat
        BY <1>1, <2>1, <2>4, Numbers DEF IDsAscend
      <3>7. /\ \A i \in DOMAIN wire : wire[i] < lastPush
            /\ \A i \in DOMAIN back : back[i].id < lastPush
            /\ seen < lastPush
        BY <3>6 DEF Out
      <3>8. Out' \subseteq Out \cup {lastPush}
        <4> SUFFICES ASSUME NEW o \in Out' PROVE o \in Out \cup {lastPush}
          OBVIOUS
        <4>1. CASE \E i \in DOMAIN wire' : o = wire'[i]
          BY <3>3, <3>4, <4>1 DEF Out
        <4>2. CASE \E i \in DOMAIN back' : o = back'[i].id
          BY <1>2, <4>2 DEF Out
        <4>3. CASE o = seen'
          BY <1>2, <4>3 DEF Out
        <4>4. CASE \E q \in {r \in Pushers : pc'[r] \notin {"idle", "sending"}} : o = id'[q]
          <5>1. PICK q \in Pushers : pc'[q] \notin {"idle", "sending"} /\ o = id'[q]
            BY <4>4
          <5> QED BY <1>1, <1>2, <2>2, <5>1 DEF Out
        <4> QED BY <4>1, <4>2, <4>3, <4>4 DEF Out
      <3>9. IDsAscend'
        <4>1. \A i \in Out' : i <= lastPush
          BY <3>6, <3>8
        <4>2. \A i, j \in DOMAIN wire' : i < j => wire'[i] < wire'[j]
          <5> SUFFICES ASSUME NEW i \in DOMAIN wire', NEW j \in DOMAIN wire', i < j
                       PROVE  wire'[i] < wire'[j]
            OBVIOUS
          <5>1. i # n /\ i \in DOMAIN wire
            BY <3>3
          <5>2. CASE j = n
            BY <3>3, <3>7, <5>1, <5>2
          <5>3. CASE j # n
            BY <1>1, <3>4, <5>1, <5>3 DEF IDsAscend
          <5> QED BY <5>2, <5>3
        <4>3. \A i \in DOMAIN wire' : seen < wire'[i] /\ wire'[i] <= MaxStreamID
          BY <1>1, <3>3, <3>4, <3>6, <3>7 DEF IDsAscend
        <4>4. \A i \in DOMAIN back : \A j \in DOMAIN wire' : back[i].id < wire'[j]
          BY <1>1, <3>3, <3>4, <3>7 DEF IDsAscend
        <4> QED BY <1>1, <1>2, <2>1, <2>2, <4>1, <4>2, <4>3, <4>4 DEF IDsAscend
      <3>10. Known'
        <4>1. \A q \in Pushers : Refused(q) => id[q] < lastPush
          <5> SUFFICES ASSUME NEW q \in Pushers, Refused(q) PROVE id[q] \in Out
            BY <3>6
          <5>1. state[q] # "absent"
            BY <1>1, PushAssumption DEF Known, Refused
          <5>2. pc[q] \notin {"idle", "sending"}
            BY <1>1, <5>1 DEF Known
          <5> QED BY <5>2 DEF Out
        <4>2. \A q \in Pushers : Refused(q) => \A i \in DOMAIN wire' : id[q] < wire'[i]
          BY <1>1, <2>1, <3>3, <3>4, <4>1 DEF Known
        <4> QED BY <1>1, <1>2, <1>3, <2>1, <2>2, <3>1, <4>2 DEF Known, Early
      <3> QED BY <1>2, <2>1, <3>1, <3>5, <3>9, <3>10
             DEF IInv, PushInv, PushesInOrder, PanicsExplained
    <2> QED BY <2>3, <2>4
  <1> QED BY <1>4, <1>5

LEMMA StoreStep ==
  ASSUME IInv, panicked = "no", NEW p \in Pushers, Store(p)
  PROVE  IInv'
  <1>1. TypeOK /\ IDsAscend /\ Known /\ pc[p] = "storing" /\ state[p] = "absent"
    BY DEF IInv, PushInv, Known, Store
  <1>2. UNCHANGED <<lock, conn, lastPush, id, header, closing, own, sent, waits, seen, benign,
                    origin, wire, back, calls, cut>>
    BY DEF Store, sendVars, clientVars
  <1>3. CASE conn = "closed"
    <2>1. panicked' = "Push" /\ UNCHANGED <<streams, late, state, pc>>
      BY <1>3 DEF Store
    <2>2. TypeOK'
      BY <1>1, <1>2, <2>1 DEF TypeOK
    <2>3. Steady
      <3>1. \A q \in Pushers : Refused(q)' => Refused(q)
        BY <1>2, <2>1 DEF Refused
      <3> QED BY <1>1, <1>2, <2>1, <3>1 DEF Known, Steady
    <2>4. PanicsExplained'
      BY <1>2, <1>3, <2>1 DEF PanicsExplained
    <2> QED BY <2>2, <2>3, <2>4, QuietInv
  <1>4. CASE conn # "closed"
    <2>1. /\ streams' = [streams EXCEPT ![id[p]] = p] /\ late' \subseteq late \cup {p}
          /\ state' = [state EXCEPT ![p] = "open"] /\ pc' = [pc EXCEPT ![p] = "ready"]
          /\ panicked' = panicked
      BY <1>4 DEF Store, Goto
    <2>2. TypeOK'
      BY <1>1, <1>2, <2>1 DEF TypeOK
    <2>3. \A q \in Pushers :
            /\ pc'[q] = IF q = p THEN "ready" ELSE pc[q]
            /\ state'[q] = IF q = p THEN "open" ELSE state[q]
      BY <1>1, <2>1 DEF TypeOK
    <2>4. \A i \in StreamIDs : streams'[i] = IF i = id[p] THEN p ELSE streams[i]
      BY <1>1, <2>1 DEF TypeOK
    <2>5. Out' = Out
      <3>1. \A q \in Pushers : pc'[q] \in {"idle", "sending"} <=> pc[q] \in {"idle", "sending"}
        BY <1>1, <2>3
      <3> QED BY <1>2, <3>1 DEF Out
    <2>6. IDsAscend'
      BY <1>1, <1>2, <2>3, <2>5 DEF IDsAscend
    <2>7. Known'
      <3>1. \A i \in StreamIDs : streams[i] # NoOne => streams[i] \in Pushers
        BY <1>1 DEF TypeOK
      <3>2. \A i \in StreamIDs : streams'[i] # NoOne =>
              id[streams'[i]] = i /\ state'[streams'[i]] # "absent"
        BY <1>1, <2>3, <2>4, <3>1 DEF Known
      <3>3. \A q \in Pushers : Refused(q)' => Refused(q)
        BY <1>2, <2>3 DEF Refused
      <3>4. closing # NoOne => closing \in Pushers /\ state'[closing] # "absent"
        BY <1>1, <2>3 DEF TypeOK, Known
      <3> QED BY <1>1, <1>2, <2>3, <3>2, <3>3, <3>4 DEF Known
    <2> QED BY <1>2, <2>1, <2>2, <2>6, <2>7
           DEF IInv, PushInv, PushesInOrder, PanicsExplained
  <1> QED BY <1>3, <1>4

-----------------------------------------------------------------------------
(* The reader and the client.                                              *)

LEMMA InOut ==
  /\ \A i \in DOMAIN wire : wire[i] \in Out
  /\ \A i \in DOMAIN back : back[i].id \in Out
  /\ seen \in Out
  BY DEF Out

LEMMA OutShrinks ==
  ASSUME \A i \in DOMAIN wire' : wire'[i] \in Out,
         \A i \in DOMAIN back' : back'[i].id \in Out,
         seen' \in Out, UNCHANGED <<pc, id>>
  PROVE  Out' \subseteq Out
  <1> SUFFICES ASSUME NEW o \in Out' PROVE o \in Out
    OBVIOUS
  <1>1. CASE \E i \in DOMAIN wire' : o = wire'[i]
    BY <1>1
  <1>2. CASE \E i \in DOMAIN back' : o = back'[i].id
    BY <1>2
  <1>3. CASE o = seen'
    BY <1>3
  <1>4. CASE \E p \in {q \in Pushers : pc'[q] \notin {"idle", "sending"}} : o = id'[p]
    BY <1>4 DEF Out
  <1> QED BY <1>1, <1>2, <1>3, <1>4 DEF Out

LEMMA RefusalStep ==
  ASSUME IInv, panicked = "no", ReadRefusal
  PROVE  IInv'
  <1> DEFINE x == back[1].id
  <1>1. TypeOK /\ IDsAscend /\ Known
    BY DEF IInv, PushInv
  <1>2. /\ back # <<>> /\ back' = Tail(back) /\ conn \in {"open", "failed", "closed"}
        /\ closing = NoOne
        /\ UNCHANGED <<lock, conn, lastPush, streams, late, pc, id, own, waits, seen, benign, origin,
                       wire, calls, cut>>
    BY DEF ReadRefusal, CanLock, connVars, clientVars
  <1>3. /\ back' \in Seq(Refusals) /\ Head(back) = back[1] /\ back[1] \in Refusals
        /\ 1 \in DOMAIN back /\ DOMAIN back \subseteq Nat \ {0}
        /\ \A i \in DOMAIN back' : i \in Nat \ {0} /\ i + 1 \in DOMAIN back /\ back'[i] = back[i + 1]
    BY <1>1, <1>2, TailFacts, Numbers
  <1>4. x \in StreamIDs
    BY <1>3 DEF Refusals
  <1>5. \/ UNCHANGED <<state, header, closing, sent, panicked>>
        \/ \E p \in Pushers :
             /\ conn \in {"open", "failed"} /\ id[p] = x /\ state[p] # "absent"
             /\ \/ CloseStream(p) /\ UNCHANGED <<closing, sent, panicked>>
                \/ /\ Begun(p) /\ header' = header \ {p} /\ closing' = p
                   /\ UNCHANGED <<state, panicked>>
                \/ /\ panicked' = IF state[p] = "nil" THEN "reader" ELSE "no"
                   /\ UNCHANGED <<state, header, closing, sent>>
    <2> DEFINE p == IF conn = "closed" THEN NoOne ELSE streams[x]
    <2>1. CASE p = NoOne
      BY <1>3, <2>1 DEF ReadRefusal
    <2>2. CASE p # NoOne
      <3>1. /\ conn \in {"open", "failed"} /\ p = streams[x] /\ p \in Pushers
            /\ id[p] = x /\ state[p] # "absent"
        BY <1>1, <1>2, <1>4, <2>2 DEF TypeOK, Known
      <3>2. \/ CloseStream(p) /\ UNCHANGED <<closing, sent, panicked>>
            \/ /\ Begun(p) /\ header' = header \ {p} /\ closing' = p
               /\ UNCHANGED <<state, panicked>>
            \/ /\ panicked' = IF state[p] = "nil" THEN "reader" ELSE "no"
               /\ UNCHANGED <<state, header, closing, sent>>
        BY <1>3, <2>2 DEF ReadRefusal
      <3> QED BY <3>1, <3>2
    <2> QED BY <2>1, <2>2
  <1>6. /\ sent' \in [Pushers -> 0 .. MaxSent] /\ closing' \in Pushers \cup {NoOne}
        /\ header' \subseteq Pushers /\ state' \in [Pushers -> {"absent", "open", "nil"}]
        /\ \A q \in Pushers : /\ state'[q] = "absent" <=> state[q] = "absent"
                              /\ state'[q] = "nil" => q \notin header'
                              /\ Refused(q)' => Refused(q) \/ id[q] = x
        /\ closing' # NoOne => state'[closing'] # "absent"
        /\ panicked' = "no" \/ (panicked' = "reader" /\ own # {})
    <2>1. CASE UNCHANGED <<state, header, closing, sent, panicked>>
      BY <1>1, <1>2, <2>1 DEF TypeOK, Known, Refused
    <2>2. ASSUME NEW p \in Pushers, conn \in {"open", "failed"}, id[p] = x, state[p] # "absent",
                 CloseStream(p), UNCHANGED <<closing, sent, panicked>>
          PROVE  <1>6!:
      <3>1. /\ header' \subseteq Pushers /\ state' \in [Pushers -> {"absent", "open", "nil"}]
            /\ \A q \in Pushers : /\ state'[q] = "absent" <=> state[q] = "absent"
                                  /\ state'[q] = "nil" => q \notin header'
                                  /\ q # p => state'[q] = state[q]
        BY <1>1, <2>2, Closes
      <3>2. \A q \in Pushers : Refused(q)' => Refused(q) \/ q = p
        BY <1>2, <2>2, <3>1 DEF Refused
      <3> QED BY <1>1, <1>2, <2>2, <3>1, <3>2 DEF TypeOK
    <2>3. ASSUME NEW p \in Pushers, conn \in {"open", "failed"}, id[p] = x, state[p] # "absent",
                 Begun(p), header' = header \ {p}, closing' = p, UNCHANGED <<state, panicked>>
          PROVE  <1>6!:
      <3>1. sent' \in [Pushers -> 0 .. MaxSent]
        BY <1>1, <2>3, Begins
      <3>2. \A q \in Pushers : Refused(q)' => Refused(q) \/ q = p
        BY <1>2, <2>3 DEF Refused
      <3> QED BY <1>1, <2>3, <3>1, <3>2 DEF TypeOK, Known
    <2>4. ASSUME NEW p \in Pushers, conn \in {"open", "failed"}, id[p] = x,
                 panicked' = (IF state[p] = "nil" THEN "reader" ELSE "no"),
                 UNCHANGED <<state, header, closing, sent>>
          PROVE  <1>6!:
      <3>1. ~Refused(p)
        <4>1. SUFFICES ASSUME Refused(p) PROVE FALSE
          OBVIOUS
        <4>2. id[p] < back[1].id
          BY <1>1, <1>3, <2>4, <4>1 DEF Known
        <4>3. id[p] \in Nat
          BY <1>1, Numbers
        <4> QED BY <2>4, <4>2, <4>3
      <3>2. state[p] = "nil" => p \in own
        BY <3>1 DEF Refused
      <3> QED BY <1>1, <1>2, <2>4, <3>2 DEF TypeOK, Known, Refused
    <2> QED BY <1>5, <2>1, <2>2, <2>3, <2>4
  <1>7. TypeOK'
    BY <1>1, <1>2, <1>3, <1>6 DEF TypeOK
  <1>8. Out' \subseteq Out
    <2>1. \A i \in DOMAIN back' : back'[i].id \in Out
      BY <1>3, InOut
    <2> QED BY <1>2, <2>1, InOut, OutShrinks
  <1>9. IDsAscend'
    <2>1. \A i, j \in DOMAIN back' : i < j => back'[i].id < back'[j].id
      BY <1>1, <1>3 DEF IDsAscend
    <2>2. \A i \in DOMAIN back' : \A j \in DOMAIN wire : back'[i].id < wire[j]
      BY <1>1, <1>3 DEF IDsAscend
    <2> QED BY <1>1, <1>2, <1>8, <2>1, <2>2 DEF IDsAscend
  <1>10. Known'
    <2>1. ASSUME NEW q \in Pushers, Refused(q)', conn \in {"open", "failed"}
          PROVE  /\ \A i \in DOMAIN back' : id[q] < back'[i].id
                 /\ \A i \in DOMAIN wire : id[q] < wire[i]
      <3>1. CASE Refused(q)
        BY <1>1, <1>3, <2>1, <3>1 DEF Known
      <3>2. CASE id[q] = x
        <4>1. \A i \in DOMAIN back' : 1 < i + 1 /\ x < back[i + 1].id
          BY <1>1, <1>3 DEF IDsAscend
        <4>2. \A i \in DOMAIN wire : x < wire[i]
          BY <1>1, <1>3 DEF IDsAscend
        <4> QED BY <1>3, <3>2, <4>1, <4>2
      <3> QED BY <1>6, <2>1, <3>1, <3>2
    <2>2. \A i \in StreamIDs : streams[i] # NoOne => streams[i] \in Pushers
      BY <1>1 DEF TypeOK
    <2>3. \A i \in StreamIDs : streams[i] # NoOne => id[streams[i]] = i /\ state'[streams[i]] # "absent"
      BY <1>1, <1>6, <2>2 DEF Known
    <2> QED BY <1>1, <1>2, <1>6, <2>1, <2>3 DEF Known
  <1> QED BY <1>2, <1>6, <1>7, <1>9, <1>10
         DEF IInv, PushInv, PushesInOrder, PanicsExplained

\* The client takes a push off the wire.
LEMMA TakeStep ==
  ASSUME IInv, ClientStep
  PROVE  IInv'
  <1>1. TypeOK /\ IDsAscend /\ Known /\ ~benign
    BY DEF IInv, PushInv, PushesInOrder
  <1>2. /\ wire # <<>> /\ wire' = Tail(wire)
        /\ UNCHANGED <<lock, conn, lastPush, streams, late, pc, id, state, header, closing, own,
                       sent, waits, origin, panicked, calls, cut>>
    BY DEF ClientStep, TakePush, connVars, pushVars, closeVars, sendVars
  <1>3. /\ wire' \in Seq(StreamIDs) /\ Head(wire) = wire[1] /\ 1 \in DOMAIN wire
        /\ \A i \in DOMAIN wire' :
             i \in Nat /\ 1 < i + 1 /\ i + 1 \in DOMAIN wire /\ wire'[i] = wire[i + 1]
    BY <1>1, <1>2, TailFacts, Numbers
  <1>4. \A i, j \in DOMAIN wire' : i < j => wire'[i] < wire'[j]
    BY <1>1, <1>3 DEF IDsAscend
  <1>5. PanicsExplained'
    BY <1>2 DEF IInv, PanicsExplained
  <1>6. CASE UNCHANGED <<seen, benign, back>>
    <2>1. TypeOK'
      BY <1>1, <1>2, <1>3, <1>6 DEF TypeOK
    <2>2. Out' \subseteq Out
      BY <1>2, <1>3, <1>6, InOut, OutShrinks
    <2>3. IDsAscend'
      BY <1>1, <1>2, <1>3, <1>4, <1>6, <2>2 DEF IDsAscend
    <2>4. Known'
      <3>1. \A q \in Pushers : Refused(q) /\ conn \in {"open", "failed"} =>
              /\ \A i \in DOMAIN back : id[q] < back[i].id
              /\ \A i \in DOMAIN wire' : id[q] < wire'[i]
        BY <1>1, <1>3 DEF Known, Refused
      <3> QED BY <1>1, <1>2, <1>6, <3>1 DEF Known, Refused
    <2> QED BY <1>1, <1>5, <1>6, <2>1, <2>3, <2>4 DEF IInv, PushInv, PushesInOrder
  <1>7. ASSUME NEW wanted \in BOOLEAN, TakePush(wanted), ~UNCHANGED <<seen, benign, back>>
        PROVE  IInv'
    <2> DEFINE x == wire[1]
    <2>1. 1 \in DOMAIN wire
      BY <1>3
    <2>2. seen < x /\ x \in StreamIDs /\ x \in Nat /\ x \in Out
      BY <1>1, <1>3, <2>1, Numbers DEF IDsAscend, TypeOK, Out
    <2>3. \A i \in DOMAIN wire' : x < wire'[i]
      BY <1>1, <1>3, <2>1 DEF IDsAscend
    <2>4. benign' = benign
          /\ \/ seen' = x /\ back' = back
             \/ /\ seen' = seen
                /\ \E kind \in {"Error", "Data"} : back' = Append(back, [kind |-> kind, id |-> x])
      <3>1. ~(x <= seen)
        BY <1>1, <2>2, Numbers
      <3> QED BY <1>3, <1>7, <3>1 DEF TakePush
    <2>5. CASE seen' = x /\ back' = back
      <3>1. TypeOK'
        BY <1>1, <1>2, <1>3, <2>2, <2>4, <2>5 DEF TypeOK
      <3>2. Out' \subseteq Out
        BY <1>2, <1>3, <2>2, <2>5, InOut, OutShrinks
      <3>3. \A i \in DOMAIN wire' : seen' < wire'[i] /\ wire'[i] <= MaxStreamID
        BY <1>1, <1>3, <2>3, <2>5 DEF IDsAscend
      <3>4. \A i \in DOMAIN back : \A j \in DOMAIN wire' : back[i].id < wire'[j]
        BY <1>1, <1>3 DEF IDsAscend
      <3>5. IDsAscend'
        BY <1>1, <1>2, <1>4, <2>5, <3>2, <3>3, <3>4 DEF IDsAscend
      <3>6. Known'
        BY <1>1, <1>2, <1>3, <2>5 DEF Known, Refused
      <3> QED BY <1>1, <1>5, <2>4, <3>1, <3>5, <3>6 DEF IInv, PushInv, PushesInOrder
    <2>6. ASSUME NEW kind \in {"Error", "Data"}, seen' = seen,
                 back' = Append(back, [kind |-> kind, id |-> x])
          PROVE  IInv'
      <3> DEFINE r == [kind |-> kind, id |-> x]
                 n == Len(back) + 1
      <3>1. r \in Refusals /\ r.id = x
        BY <2>2 DEF Refusals
      <3> HIDE DEF r
      <3>2. back \in Seq(Refusals) /\ back' = Append(back, r)
        BY <1>1, <2>6, Numbers DEF r
      <3>3. /\ back' \in Seq(Refusals) /\ Len(back) \in Nat /\ DOMAIN back = 1 .. Len(back)
            /\ DOMAIN back' = 1 .. n
            /\ \A i \in DOMAIN back : back'[i] = back[i]
            /\ back'[n] = r
        BY <3>1, <3>2, AppendFacts
      <3>4. \A i \in DOMAIN back' : i = n \/ (i \in DOMAIN back /\ back'[i] = back[i])
        BY <3>3
      <3>5. TypeOK'
        <4>1. /\ UNCHANGED <<lock, conn, lastPush, streams, late, pc, id, state, header, closing, own,
                            sent, waits, origin, panicked, calls, cut, seen, benign>>
              /\ wire' \in Seq(StreamIDs) /\ back' \in Seq(Refusals)
          BY <1>2, <1>3, <2>4, <2>6, <3>3
        <4> QED BY <1>1, <4>1 DEF TypeOK
      <3>6. Out' \subseteq Out
        <4>1. \A i \in DOMAIN wire' : wire'[i] \in Out
          BY <1>3, InOut
        <4>2. \A i \in DOMAIN back' : back'[i].id \in Out
          BY <2>2, <3>1, <3>3, <3>4, InOut
        <4> QED BY <1>2, <2>6, <4>1, <4>2, InOut, OutShrinks
      <3>7. \A i \in DOMAIN back : back[i].id < x
        BY <1>1, <2>1 DEF IDsAscend
      <3>8. \A i, j \in DOMAIN back' : i < j => back'[i].id < back'[j].id
        <4> SUFFICES ASSUME NEW i \in DOMAIN back', NEW j \in DOMAIN back', i < j
                     PROVE  back'[i].id < back'[j].id
          OBVIOUS
        <4>1. i # n /\ i \in DOMAIN back
          BY <3>3
        <4>2. CASE j = n
          BY <3>1, <3>3, <3>7, <4>1, <4>2
        <4>3. CASE j # n
          BY <1>1, <3>4, <4>1, <4>3 DEF IDsAscend
        <4> QED BY <4>2, <4>3
      <3>9. \A i \in DOMAIN back' : \A j \in DOMAIN wire' : back'[i].id < wire'[j]
        <4>1. \A i \in DOMAIN back : \A j \in DOMAIN wire' : back[i].id < wire'[j]
          BY <1>1, <1>3 DEF IDsAscend
        <4> QED BY <2>3, <3>1, <3>3, <3>4, <4>1
      <3>10. \A i \in DOMAIN wire' : seen' < wire'[i] /\ wire'[i] <= MaxStreamID
        BY <1>1, <1>3, <2>6 DEF IDsAscend
      <3>11. IDsAscend'
        BY <1>1, <1>2, <1>4, <3>6, <3>8, <3>9, <3>10 DEF IDsAscend
      <3>12. Known'
        <4>1. ASSUME NEW q \in Pushers, Refused(q), conn \in {"open", "failed"}
              PROVE  /\ \A i \in DOMAIN back' : id[q] < back'[i].id
                     /\ \A i \in DOMAIN wire' : id[q] < wire'[i]
          <5>1. id[q] < x
            BY <1>1, <2>1, <4>1 DEF Known, Refused
          <5> QED BY <1>1, <1>3, <3>1, <3>3, <3>4, <4>1, <5>1 DEF Known, Refused
        <4> QED BY <1>1, <1>2, <4>1 DEF Known, Refused
      <3> QED BY <1>1, <1>5, <2>4, <3>5, <3>11, <3>12 DEF IInv, PushInv, PushesInOrder
    <2> QED BY <2>4, <2>5, <2>6
  <1> QED BY <1>6, <1>7 DEF ClientStep, clientVars

-----------------------------------------------------------------------------
(* Theorems.                                                               *)

LEMMA Initially == Init => IInv
  <1> SUFFICES ASSUME Init PROVE IInv
    OBVIOUS
  <1>1. StreamIDs \subseteq Nat /\ 0 \in StreamIDs /\ 0 \in 0 .. MaxCalls /\ 0 \in 0 .. MaxSent
    BY PushAssumption DEF StreamIDs
  <1>2. wire = <<>> /\ back = <<>> /\ wire \in Seq(StreamIDs) /\ back \in Seq(Refusals)
    BY DEF Init
  <1>3. TypeOK
    BY <1>1, <1>2 DEF Init, TypeOK
  <1>4. DOMAIN wire = {} /\ DOMAIN back = {}
    BY <1>2
  <1>5. Out = {0}
    BY <1>4 DEF Out, Init
  <1>6. IDsAscend
    BY <1>4, <1>5 DEF Init, IDsAscend
  <1>7. Known
    BY <1>4 DEF Init, Known, Refused
  <1> QED BY <1>3, <1>6, <1>7 DEF IInv, PushInv, PushesInOrder, PanicsExplained, Init

LEMMA Preserved == IInv /\ [Next]_vars => IInv'
  <1> SUFFICES ASSUME IInv, [Next]_vars PROVE IInv'
    OBVIOUS
  <1>1. CASE UNCHANGED vars
    BY <1>1 DEF vars, connVars, pushVars, closeVars, sendVars, clientVars, IInv, PushInv, TypeOK,
       IDsAscend, Known, Refused, Out, PushesInOrder, PanicsExplained
  <1>2. CASE panicked = "no" /\ ServerStep
    BY <1>2, WriterSteps, OwnCloseStep, ClosedStep, CloseSteps, PushStep, SentStep, StoreStep, RefusalStep
       DEF ServerStep, PusherStep, SendStep
  <1>3. CASE ClientStep
    BY <1>3, TakeStep
  <1> QED BY <1>1, <1>2, <1>3 DEF Next

LEMMA Always == Spec => []IInv
  BY Initially, Preserved, PTL DEF Spec

\* The facts on the IDs and the states of the pushes hold for every number of
\* pushers, calls and IDs: the inductive invariant of the two theorems below.
THEOREM Invariance == Spec => []PushInv
  <1>1. IInv => PushInv
    BY DEF IInv
  <1> QED BY <1>1, Always, PTL

\* However many handlers push, and however far beyond the limit of the IDs,
\* no push reaches the client out of order.
THEOREM PushesAreInOrder == Spec => []PushesInOrder
  <1>1. IInv => PushesInOrder
    BY DEF IInv
  <1> QED BY <1>1, Always, PTL

\* A goroutine of the server panics over a push only when something has been
\* closed under it, and the reader only when a handler has closed its push.
THEOREM PanicsHaveCause == Spec => []PanicsExplained
  <1>1. IInv => PanicsExplained
    BY DEF IInv
  <1> QED BY <1>1, Always, PTL

\* On a push that has been closed no send begins, wherever its handler stands.
THEOREM ClosedPushesAreSilent == Spec => ClosedPushesSilent
  <1> DEFINE A == \A p \in Pushers : state[p] = "nil" => state'[p] = "nil" /\ sent'[p] = sent[p]
  <1>1. IInv /\ [Next]_vars => [A]_vars
    <2> SUFFICES ASSUME IInv, Next, NEW q \in Pushers, state[q] = "nil"
                 PROVE  state'[q] = "nil" /\ sent'[q] = sent[q]
      OBVIOUS
    <2>1. TypeOK /\ Known /\ pc[q] \notin {"idle", "sending", "storing"} /\ q \notin header
      BY DEF IInv, PushInv, Known
    <2>2. ASSUME NEW p \in Pushers, Begun(p), p # q PROVE sent'[q] = sent[q]
      BY <2>1, <2>2, Begins
    <2>3. ASSUME NEW p \in Pushers, NEW at \in Late, Send(p, at), p # q PROVE sent'[q] = sent[q]
      BY <2>1, <2>3, Sends
    <2>4. ASSUME NEW p \in Pushers, NEW at \in Late, Flush(p, at) PROVE sent'[q] = sent[q]
      BY <2>1, <2>4, Flushes
    <2>5. ASSUME NEW p \in Pushers, CloseStream(p) PROVE state'[q] = "nil"
      BY <2>1, <2>5 DEF CloseStream, TypeOK
    <2>6. ASSUME NEW p \in Pushers, PusherStep(p)
          PROVE  state'[q] = "nil" /\ sent'[q] = sent[q]
      <3>1. CASE Push(p) \/ Sent(p) \/ SetHeader(p) \/ WriteBegin(p) \/ WriteChecks(p)
        BY <3>1 DEF Push, Sent, SetHeader, WriteBegin, WriteChecks, closeVars, sendVars
      <3>2. CASE Store(p)
        BY <2>1, <3>2 DEF Store, TypeOK, sendVars
      <3>3. CASE WriteHeader(p) \/ WriteFlush(p) \/ CloseBegin(p)
        <4>1. state' = state /\ \E at \in Late : Flush(p, at)
          BY <3>3 DEF WriteHeader, WriteFlush, CloseBegin, Late
        <4> QED BY <2>4, <4>1
      <3>4. CASE WriteData(p) \/ WriteChunk(p)
        <4>1. state' = state
          BY <3>4 DEF WriteData, WriteChunk, closeVars
        <4>2. sent' = sent \/ (HasOutput(p) /\ \E at \in Late : Send(p, at))
          BY <3>4 DEF WriteData, WriteChunk, Late, sendVars
        <4>3. HasOutput(p) => p # q
          BY DEF HasOutput
        <4> QED BY <2>3, <4>1, <4>2, <4>3
      <3>5. CASE CloseEnd(p)
        BY <2>5, <3>5 DEF CloseEnd, sendVars
      <3> QED BY <2>6, <3>1, <3>2, <3>3, <3>4, <3>5 DEF PusherStep
    <2>7. CASE ReadRefusal
      <3> DEFINE p == streams[Head(back).id]
      <3>1. back # <<>> /\ Head(back) \in Refusals
        BY <2>1, <2>7, TailFacts DEF ReadRefusal, TypeOK
      <3>2. Head(back).id \in StreamIDs
        BY <3>1 DEF Refusals
      <3>3. \/ UNCHANGED <<state, sent>>
            \/ p # NoOne /\ CloseStream(p) /\ sent' = sent
            \/ p # NoOne /\ p \in header /\ Begun(p) /\ state' = state
        BY <2>7 DEF ReadRefusal
      <3>4. p # NoOne => p \in Pushers
        BY <2>1, <3>2 DEF TypeOK
      <3> QED BY <2>1, <2>2, <2>5, <3>3, <3>4
    <2>8. CASE StreamClosed
      <3>1. closing \in Pushers
        BY <2>1, <2>8 DEF StreamClosed, TypeOK
      <3> QED BY <2>5, <2>8, <3>1 DEF StreamClosed, sendVars
    <2>9. CASE \/ FinishOrigin \/ CloseOrigin \/ SenderFails \/ CloseHangs \/ CloseConn
               \/ CloseConnOrigin \/ CloseConnEnd
      BY <2>9 DEF FinishOrigin, CloseOrigin, SenderFails, CloseHangs, CloseConn, CloseConnOrigin,
         CloseConnEnd, pushVars, closeVars, sendVars
    <2>10. ASSUME NEW p \in Pushers, CloseConnStream(p)
           PROVE  state'[q] = "nil" /\ sent'[q] = sent[q]
      <3>1. \/ p \in header /\ Begun(p) /\ state' = state
            \/ CloseStream(p) /\ sent' = sent
        BY <2>10 DEF CloseConnStream
      <3> QED BY <2>1, <2>2, <2>5, <3>1
    <2>11. ASSUME NEW p \in Pushers, SendStep(p)
           PROVE  state'[q] = "nil" /\ sent'[q] = sent[q]
      BY <2>11 DEF SendStep, Received, OutputClosed, closeVars
    <2>12. CASE ClientStep
      BY <2>12 DEF ClientStep, TakePush, pushVars, closeVars, sendVars
    <2> QED BY <2>6, <2>7, <2>8, <2>9, <2>10, <2>11, <2>12 DEF Next, ServerStep
  <1> QED BY <1>1, Always, PTL DEF Spec, ClosedPushesSilent
=============================================================================
