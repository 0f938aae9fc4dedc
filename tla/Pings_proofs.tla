---------------------------- MODULE Pings_proofs ----------------------------
(***************************************************************************)
(* Proofs about Pings: the inductive invariant by which the reader never   *)
(* panics over a ping's channel, for any number of calls and of ping IDs.  *)
(***************************************************************************)
EXTENDS Pings, TLAPS

\* The arithmetic of the IDs.
LEMMA ModSmall == ASSUME NEW m \in Nat, NEW n \in Nat, n < m PROVE n % m = n
  OBVIOUS

LEMMA ModSelf == ASSUME NEW m \in Nat \ {0} PROVE m % m = 0
  OBVIOUS

LEMMA EvenBelow ==
  ASSUME NEW m \in Nat, NEW n \in Nat, m % 2 = 0, n % 2 = 0, n < m
  PROVE  n + 2 <= m
  OBVIOUS

LEMMA NextIDs ==
  ASSUME NEW n \in PingIDs, n % 2 = 0, n # 0
  PROVE  /\ NextID(n) \in PingIDs /\ NextID(n) % 2 = 0 /\ NextID(n) # 0
         /\ NextID(n) # n /\ (NextID(n) > n => NextID(n) = n + 2)
  <1>1. Modulus \in Nat /\ Modulus % 2 = 0 /\ Modulus > 4
    BY PingsAssumption
  <1>2. n \in Nat /\ n < Modulus
    BY <1>1 DEF PingIDs
  <1>3. n + 2 <= Modulus
    BY <1>1, <1>2, EvenBelow
  <1>4. CASE n + 2 = Modulus
    BY <1>1, <1>2, <1>4, ModSelf DEF NextID, PingIDs
  <1>5. CASE n + 2 < Modulus
    <2>1. (n + 2) % Modulus = n + 2
      BY <1>1, <1>2, <1>5, ModSmall
    <2>2. (n + 2) % 2 = 0
      BY <1>2
    <2> QED BY <1>1, <1>2, <1>5, <2>1, <2>2 DEF NextID, PingIDs
  <1> QED BY <1>1, <1>2, <1>3, <1>4, <1>5

LEMMA IDFacts ==
  /\ PingIDs \subseteq Nat
  /\ 0 \in PingIDs /\ 2 \in PingIDs
  /\ NoOne \notin Calls
  BY PingsAssumption DEF PingIDs

-----------------------------------------------------------------------------
(* The steps that are not about the channels: nothing that Entries speaks  *)
(* of is touched, or only the program counter of a call that is not stored.*)

LEMMA Initially == Init => PingInv
  <1> SUFFICES ASSUME Init PROVE PingInv
    OBVIOUS
  <1>1. /\ lock = NoOne /\ closed = "no" /\ nextPingID = 2
        /\ pings = [id \in PingIDs |-> NoOne]
        /\ pc = [c \in Calls |-> "idle"] /\ pid = [c \in Calls |-> 0]
        /\ channel = [c \in Calls |-> "none"]
        /\ reader = "top" /\ frame = 0 /\ benign = 0 /\ crashed = FALSE
        /\ heard = {} /\ early = {} /\ wrapped = FALSE
    BY DEF Init
  <1>2. TypeOK
    <2>1. pings \in [PingIDs -> Calls \cup {NoOne}] /\ pid \in [Calls -> PingIDs]
      BY <1>1, IDFacts
    <2>2. /\ pc \in [Calls -> {"idle", "sending", "storing", "waiting", "refused"}]
          /\ channel \in [Calls -> {"none", "empty", "full", "closed", "failed"}]
      BY <1>1
    <2>3. benign \in 0 .. MaxBenignErrors + 2
      BY <1>1, PingsAssumption
    <2>4. heard \subseteq Calls /\ early \subseteq heard
      BY <1>1
    <2> QED BY <1>1, <2>1, <2>2, <2>3, <2>4, IDFacts DEF TypeOK, ReaderPCs
  <1>3. OwnIDs /\ Holding
    BY <1>1 DEF OwnIDs, Holding
  <1>4. Entries /\ OneFrameMore
    BY <1>1, PingsAssumption DEF Entries, InHand, OneFrameMore
  <1> QED BY <1>1, <1>2, <1>3, <1>4 DEF PingInv

LEMMA PingStep ==
  ASSUME PingInv, NEW c \in Calls, Ping(c)
  PROVE  PingInv'
  <1> USE IDFacts DEF PingInv
  <1>1. CASE closed # "no"
    <2>1. pc[c] = "idle" /\ pc' = [pc EXCEPT ![c] = "refused"]
          /\ UNCHANGED <<lock, nextPingID, pid, wrapped, readerVars, history, closed, pings,
                         channel, crashed>>
      BY <1>1 DEF Ping
    <2> QED BY <2>1
        DEF TypeOK, OwnIDs, Holding, Entries, InHand, OneFrameMore, readerVars, history
  <1>2. CASE closed = "no"
    <2>1. /\ pc[c] = "idle" /\ lock = NoOne /\ lock' = c
          /\ pid' = [pid EXCEPT ![c] = nextPingID]
          /\ nextPingID' = NextID(nextPingID)
          /\ wrapped' = (wrapped \/ nextPingID' < nextPingID)
          /\ pc' = [pc EXCEPT ![c] = "sending"]
          /\ UNCHANGED <<reader, frame, benign, heard, early, closed, pings, channel, crashed>>
      BY <1>2 DEF Ping, CanLock, readerVars, history
    <2>2. nextPingID' \in PingIDs /\ nextPingID' % 2 = 0 /\ nextPingID' # 0
      BY <2>1, NextIDs DEF TypeOK, OwnIDs
    <2>3. TypeOK'
      BY <2>1, <2>2 DEF TypeOK
    <2>4. OwnIDs'
      BY <2>1, <2>2 DEF TypeOK, OwnIDs
    <2>5. Holding'
      BY <2>1 DEF TypeOK, Holding
    <2>6. Entries'
      BY <2>1 DEF TypeOK, Entries, InHand
    <2>7. OneFrameMore'
      BY <2>1 DEF OneFrameMore
    <2> QED BY <2>1, <2>3, <2>4, <2>5, <2>6, <2>7
  <1> QED BY <1>1, <1>2

LEMMA StoreStep ==
  ASSUME PingInv, NEW c \in Calls, Sent(c) \/ Store(c)
  PROVE  PingInv'
  <1> USE IDFacts DEF PingInv
  <1>1. CASE Sent(c)
    BY <1>1 DEF Sent, TypeOK, OwnIDs, Holding, Entries, InHand, OneFrameMore, readerVars, history
  <1>2. CASE Store(c)
    <2>1. /\ pc[c] = "storing" /\ lock = c /\ lock' = NoOne
          /\ pings' = [pings EXCEPT ![pid[c]] = c]
          /\ channel' = [channel EXCEPT ![c] = "empty"]
          /\ pc' = [pc EXCEPT ![c] = "waiting"]
          /\ UNCHANGED <<nextPingID, pid, wrapped, reader, frame, benign, heard, early, closed,
                         crashed>>
      BY <1>2 DEF Store, Holding, readerVars, history
    <2>2. \A id \in PingIDs : pings[id] # c
      BY <2>1 DEF Entries
    <2>3. TypeOK'
      BY <2>1 DEF TypeOK
    <2>4. OwnIDs' /\ Holding'
      BY <2>1 DEF TypeOK, OwnIDs, Holding
    <2>5. Entries'
      BY <2>1, <2>2 DEF TypeOK, Entries, InHand
    <2>6. OneFrameMore'
      BY <2>1 DEF OneFrameMore
    <2> QED BY <2>1, <2>3, <2>4, <2>5, <2>6
  <1> QED BY <1>1, <1>2

LEMMA ReaderSteps ==
  ASSUME PingInv, ReaderStep \/ CloseConn \/ CloseEnd \/ MapRace
  PROVE  PingInv'
  <1> USE IDFacts DEF PingInv, readerVars, history, callVars
  <1>0. MaxBenignErrors \in Nat /\ benign \in 0 .. MaxBenignErrors + 2
    BY PingsAssumption DEF TypeOK
  <1>1. ASSUME NEW id \in PingIDs, ReadAnswer(id) PROVE PingInv'
    <2>1. /\ UNCHANGED <<lock, nextPingID, pc, pid, wrapped, closed, pings, channel, crashed>>
          /\ (reader = "top" /\ benign <= MaxBenignErrors) \/ reader = "over"
          /\ \/ pings[id] = NoOne /\ benign' = benign + 1 /\ reader' = "top" /\ frame' = frame
             \/ pings[id] # NoOne /\ reader' = "deliver" /\ frame' = id /\ benign' = benign
      BY <1>1 DEF ReadAnswer, Reading
    <2>2. heard' \subseteq Calls /\ early' \subseteq heard'
      BY <1>1 DEF ReadAnswer, TypeOK
    <2>3. benign' \in 0 .. MaxBenignErrors + 2 /\ OneFrameMore'
      BY <1>0, <2>1 DEF OneFrameMore
    <2>4. TypeOK'
      BY <2>1, <2>2, <2>3 DEF TypeOK, ReaderPCs, InHand
    <2> QED BY <2>1, <2>3, <2>4 DEF OwnIDs, Holding, Entries, InHand
  <1>2. ASSUME ReadOther \/ \E id \in PingIDs : ReadPing(id) PROVE PingInv'
    <2>1. /\ UNCHANGED <<lock, nextPingID, pc, pid, wrapped, heard, early, closed, pings, channel,
                         crashed>>
          /\ (reader = "top" /\ benign <= MaxBenignErrors) \/ reader = "over"
          /\ frame' \in PingIDs
          /\ \/ reader' = "top" /\ benign' \in {benign, benign + 1}
             \/ reader' = "replying" /\ benign' = benign
      BY <1>2 DEF ReadOther, ReadPing, Reading, TypeOK
    <2>2. benign' \in 0 .. MaxBenignErrors + 2 /\ OneFrameMore'
      BY <1>0, <2>1 DEF OneFrameMore
    <2>3. TypeOK'
      BY <2>1, <2>2 DEF TypeOK, ReaderPCs
    <2>4. Entries'
      BY <2>1 DEF Entries, InHand
    <2> QED BY <2>1, <2>2, <2>3, <2>4 DEF OwnIDs, Holding
  <1>3. CASE SendReceived \/ SendPanics \/ TooManyErrors \/ ReadEnd \/ ReaderCloses
    <2>1. /\ reader' \in {"top", "over", "erring", "failing", "ending", "gone", "sendPanic"}
          /\ closed' \in {"no", "done", "abandoned"} \cup {closed}
          /\ reader \notin InHand
          /\ UNCHANGED <<lock, nextPingID, pc, pid, wrapped, heard, early, pings, channel, frame,
                         benign, crashed>>
      BY <1>3 DEF SendReceived, SendPanics, Resume, TooManyErrors, ReadEnd, ReaderCloses, Reading,
         InHand
    <2>2. OneFrameMore'
      BY <1>0, <1>3 DEF OneFrameMore, SendReceived, SendPanics, Resume, TooManyErrors, ReadEnd,
         ReaderCloses, Reading, CanLock, TypeOK
    <2>3. TypeOK'
      BY <2>1 DEF TypeOK, ReaderPCs
    <2>4. Entries'
      BY <2>1 DEF Entries, InHand
    <2> QED BY <2>1, <2>2, <2>3, <2>4 DEF OwnIDs, Holding
  <1>4. CASE CloseConn \/ CloseEnd \/ MapRace
    <2>1. /\ closed' \in {closed, "stopped", "done", "abandoned"} /\ crashed' \in {crashed, TRUE}
          /\ \/ reader' = reader
             \/ /\ closed = "stopped"
                /\ \/ reader = "replying" /\ reader' = "top"
                   \/ reader = "erring" /\ reader' = "failing"
          /\ closed \in {"done", "abandoned"} => closed' = closed
          /\ UNCHANGED <<lock, nextPingID, pc, pid, wrapped, frame, benign, heard, early,
                         pings, channel>>
      <3>1. /\ DOMAIN Resume = {"replying", "erring"}
            /\ Resume["replying"] = "top" /\ Resume["erring"] = "failing"
        BY DEF Resume
      <3>2. CASE CloseEnd
        BY <3>1, <3>2 DEF CloseEnd
      <3>3. CASE CloseConn \/ MapRace
        BY <3>3 DEF CloseConn, MapRace
      <3> QED BY <1>4, <3>2, <3>3
    <2>2. OneFrameMore'
      BY <1>0, <2>1 DEF OneFrameMore
    <2>3. TypeOK'
      BY <2>1 DEF TypeOK, ReaderPCs
    <2>4. Entries'
      BY <2>1 DEF Entries, InHand
    <2> QED BY <2>1, <2>2, <2>3, <2>4 DEF OwnIDs, Holding
  <1>5. CASE Deliver
    <2>1. reader = "deliver" /\ pings[frame] \in Calls /\ channel[pings[frame]] = "empty"
      BY <1>5 DEF Deliver, Entries, InHand, TypeOK
    <2> DEFINE c == pings[frame]
    <2>2. channel' = [channel EXCEPT ![c] = "full"] /\ reader' = "close"
          /\ UNCHANGED <<lock, nextPingID, pc, pid, wrapped, heard, early, closed, pings, frame,
                         benign, crashed>>
      BY <1>5, <2>1 DEF Deliver
    <2>3. \A id \in PingIDs : pings[id] = c => id = frame
      BY <2>1 DEF Entries, TypeOK
    <2>4. TypeOK'
      BY <2>1, <2>2 DEF TypeOK, ReaderPCs, InHand
    <2>5. Entries'
      BY <2>1, <2>2, <2>3 DEF TypeOK, Entries, InHand
    <2> QED BY <2>1, <2>2, <2>4, <2>5 DEF OwnIDs, Holding, OneFrameMore
  <1>6. CASE CloseChannel
    <2>1. /\ reader = "close" /\ pings[frame] \in Calls
          /\ channel[pings[frame]] \in {"empty", "full"}
      BY <1>6 DEF CloseChannel, Entries, InHand, TypeOK
    <2> DEFINE c == pings[frame]
    <2>2. /\ \E s \in {"closed", "failed"} : channel' = [channel EXCEPT ![c] = s]
          /\ reader' = "delete"
          /\ UNCHANGED <<lock, nextPingID, pc, pid, wrapped, heard, early, closed, pings, frame,
                         benign, crashed>>
      BY <1>6, <2>1 DEF CloseChannel
    <2>3. \A id \in PingIDs : pings[id] = c => id = frame
      BY <2>1 DEF Entries, TypeOK
    <2>4. TypeOK'
      BY <2>1, <2>2 DEF TypeOK, ReaderPCs, InHand
    <2>5. Entries'
      BY <2>1, <2>2, <2>3 DEF TypeOK, Entries, InHand
    <2> QED BY <2>1, <2>2, <2>4, <2>5 DEF OwnIDs, Holding, OneFrameMore
  <1>7. CASE Delete
    <2>1. /\ reader = "delete" /\ reader' = "top"
          /\ pings' = [pings EXCEPT ![frame] = NoOne]
          /\ UNCHANGED <<lock, nextPingID, pc, pid, wrapped, heard, early, closed, channel, frame,
                         benign, crashed>>
      BY <1>7 DEF Delete, Deleted
    <2>2. TypeOK'
      BY <2>1 DEF TypeOK, ReaderPCs
    <2>3. Entries'
      BY <2>1 DEF TypeOK, Entries, InHand
    <2> QED BY <2>1, <2>2, <2>3 DEF OwnIDs, Holding, OneFrameMore
  <1> QED BY <1>1, <1>2, <1>3, <1>4, <1>5, <1>6, <1>7 DEF ReaderStep

LEMMA Preserved == PingInv /\ [Next]_vars => PingInv'
  <1> SUFFICES ASSUME PingInv, [Next]_vars PROVE PingInv'
    OBVIOUS
  <1>1. CASE Next
    BY <1>1, PingStep, StoreStep, ReaderSteps DEF Next, CallStep
  <1>2. CASE UNCHANGED vars
    BY <1>2 DEF vars, callVars, readerVars, history, PingInv, TypeOK, OwnIDs, Holding, Entries,
       OneFrameMore
  <1> QED BY <1>1, <1>2

\* The reader never panics over the channel of a ping (conn.go 784-804).
THEOREM ReaderIsSafe == Spec => []PingInv
  BY Initially, Preserved, PTL DEF Spec

-----------------------------------------------------------------------------
(* Answers.  Until the counter starts again no two calls have the same ID, *)
(* and a stored channel leaves the map only by the hands of the reader.    *)

HasID(c) == pc[c] \in {"sending", "storing", "waiting"}

\* IDs are given out in ascending order.
Distinct ==
  \A c \in Calls : HasID(c) =>
    /\ pid[c] < nextPingID
    /\ \A d \in Calls : HasID(d) /\ pid[d] = pid[c] => d = c

\* Only a ping that has been sent is heard, early if its channel is not stored.
Heard(c) ==
  /\ c \in heard => pc[c] \in {"storing", "waiting"}
  /\ c \in heard /\ pc[c] = "storing" => c \in early
  /\ channel[c] # "none" <=> pc[c] = "waiting"

\* What has become of a channel that is stored.
Stored(c) ==
  pc[c] = "waiting" =>
    \/ /\ channel[c] = "empty" /\ pings[pid[c]] = c
       /\ c \in heard \ early => reader = "deliver" /\ frame = pid[c]
    \/ channel[c] = "full" /\ reader = "close" /\ frame = pid[c]
    \/ channel[c] = "closed"

\* The reader closes what it has filled, and deletes what it has closed.
InTurn ==
  /\ reader = "close" => channel[pings[frame]] = "full"
  /\ reader = "delete" => channel[pings[frame]] = "closed"

Answers == ~wrapped => Distinct /\ InTurn /\ \A c \in Calls : Heard(c) /\ Stored(c)
AnswerInv == PingInv /\ Answers

LEMMA PingAnswers ==
  ASSUME AnswerInv, NEW c \in Calls, Ping(c)
  PROVE  Answers'
  <1> USE IDFacts DEF AnswerInv, PingInv
  <1> SUFFICES ASSUME ~wrapped' PROVE (Distinct /\ InTurn /\ \A d \in Calls : Heard(d) /\ Stored(d))'
    BY DEF Answers
  <1>1. CASE closed # "no"
    <2>1. pc[c] = "idle" /\ pc' = [pc EXCEPT ![c] = "refused"]
          /\ UNCHANGED <<nextPingID, pid, wrapped, reader, frame, heard, early, pings, channel>>
      BY <1>1 DEF Ping, readerVars, history
    <2>2. Distinct /\ InTurn /\ \A d \in Calls : Heard(d) /\ Stored(d)
      BY <2>1 DEF Answers
    <2>3. Distinct' /\ InTurn'
      BY <2>1, <2>2 DEF TypeOK, Distinct, HasID, InTurn
    <2>4. \A d \in Calls : Heard(d)' /\ Stored(d)'
      BY <2>1, <2>2 DEF TypeOK, Heard, Stored
    <2> QED BY <2>3, <2>4
  <1>2. CASE closed = "no"
    <2>1. /\ pc[c] = "idle" /\ pid' = [pid EXCEPT ![c] = nextPingID]
          /\ nextPingID' = NextID(nextPingID)
          /\ wrapped' = (wrapped \/ nextPingID' < nextPingID)
          /\ pc' = [pc EXCEPT ![c] = "sending"]
          /\ UNCHANGED <<reader, frame, heard, early, pings, channel>>
      BY <1>2 DEF Ping, readerVars, history
    <2>2. Distinct /\ InTurn /\ \A d \in Calls : Heard(d) /\ Stored(d)
      BY <2>1 DEF Answers
    <2>3. nextPingID \in Nat /\ nextPingID' \in Nat /\ nextPingID < nextPingID'
      <3>1. nextPingID \in PingIDs /\ nextPingID % 2 = 0 /\ nextPingID # 0
        BY DEF TypeOK, OwnIDs
      <3>2. nextPingID' \in PingIDs /\ nextPingID' # nextPingID
        BY <2>1, <3>1, NextIDs
      <3>3. ~(nextPingID' < nextPingID)
        BY <2>1
      <3> QED BY <3>1, <3>2, <3>3
    <2>4. Distinct'
      <3>1. \A d \in Calls \ {c} : /\ HasID(d)' <=> HasID(d)
                                   /\ pid'[d] = pid[d] /\ pid[d] \in Nat
        BY <2>1 DEF TypeOK, HasID
      <3>2. pid'[c] = nextPingID
        BY <2>1 DEF TypeOK
      <3> QED BY <2>2, <2>3, <3>1, <3>2 DEF Distinct
    <2>5. \A d \in Calls : Heard(d)' /\ Stored(d)'
      BY <2>1, <2>2 DEF TypeOK, Heard, Stored
    <2> QED BY <2>1, <2>2, <2>4, <2>5 DEF InTurn
  <1> QED BY <1>1, <1>2

LEMMA StoreAnswers ==
  ASSUME AnswerInv, NEW c \in Calls, Sent(c) \/ Store(c)
  PROVE  Answers'
  <1> USE IDFacts DEF AnswerInv, PingInv
  <1> SUFFICES ASSUME ~wrapped' PROVE (Distinct /\ InTurn /\ \A d \in Calls : Heard(d) /\ Stored(d))'
    BY DEF Answers
  <1>1. /\ UNCHANGED <<nextPingID, pid, wrapped, reader, frame, heard, early>>
        /\ \E at \in {"storing", "waiting"} : pc' = [pc EXCEPT ![c] = at]
        /\ HasID(c)
    BY DEF Sent, Store, readerVars, history, HasID
  <1>2. Distinct /\ InTurn /\ \A d \in Calls : Heard(d) /\ Stored(d)
    BY <1>1 DEF Answers
  <1>3. Distinct'
    <2>1. \A d \in Calls : HasID(d)' <=> HasID(d)
      BY <1>1 DEF HasID, TypeOK
    <2> QED BY <1>1, <1>2, <2>1 DEF Distinct
  <1>4. CASE Sent(c)
    <2>1. UNCHANGED <<pings, channel>> /\ pc[c] = "sending" /\ pc' = [pc EXCEPT ![c] = "storing"]
      BY <1>4 DEF Sent
    <2>2. \A d \in Calls : Heard(d)' /\ Stored(d)'
      BY <1>1, <1>2, <2>1 DEF TypeOK, Heard, Stored
    <2> QED BY <1>1, <1>2, <1>3, <2>1, <2>2 DEF InTurn
  <1>5. CASE Store(c)
    <2>1. /\ pc[c] = "storing" /\ pc' = [pc EXCEPT ![c] = "waiting"]
          /\ pings' = [pings EXCEPT ![pid[c]] = c]
          /\ channel' = [channel EXCEPT ![c] = "empty"]
      BY <1>5 DEF Store
    <2>2. pings[pid[c]] = NoOne
      <3> SUFFICES ASSUME pings[pid[c]] # NoOne PROVE FALSE
        OBVIOUS
      <3>1. pid[c] \in PingIDs /\ pings[pid[c]] \in Calls
        BY DEF TypeOK
      <3>2. pid[pings[pid[c]]] = pid[c] /\ pc[pings[pid[c]]] = "waiting"
        BY <3>1 DEF Entries
      <3> QED BY <1>1, <1>2, <2>1, <3>1, <3>2 DEF Distinct, HasID
    <2>3. reader \in InHand => frame # pid[c] /\ pings[frame] \in Calls \ {c} /\ pings'[frame] = pings[frame]
      BY <2>1, <2>2 DEF TypeOK, Entries
    <2>4. InTurn'
      BY <1>1, <1>2, <2>1, <2>3 DEF InTurn, TypeOK, InHand
    <2>5. Heard(c)' /\ Stored(c)'
      BY <1>1, <1>2, <2>1 DEF TypeOK, Heard, Stored
    <2>6. ASSUME NEW d \in Calls \ {c} PROVE Heard(d)' /\ Stored(d)'
      <3>1. pc'[d] = pc[d] /\ channel'[d] = channel[d]
        BY <2>1 DEF TypeOK
      <3>2. pc[d] = "waiting" => pings'[pid[d]] = pings[pid[d]]
        BY <1>2, <2>1 DEF TypeOK, Distinct, HasID
      <3> QED BY <1>1, <1>2, <3>1, <3>2 DEF Heard, Stored
    <2> QED BY <1>3, <2>4, <2>5, <2>6
  <1> QED BY <1>4, <1>5

LEMMA ReaderAnswers ==
  ASSUME AnswerInv, ReaderStep \/ CloseConn \/ CloseEnd \/ MapRace
  PROVE  Answers'
  <1> USE IDFacts DEF AnswerInv, PingInv
  <1> SUFFICES ASSUME ~wrapped' PROVE (Distinct /\ InTurn /\ \A d \in Calls : Heard(d) /\ Stored(d))'
    BY DEF Answers
  <1>1. UNCHANGED <<nextPingID, pc, pid, wrapped>>
    BY DEF ReaderStep, ReadAnswer, ReadPing, ReadOther, SendReceived, SendPanics, Deliver,
       CloseChannel, Delete, TooManyErrors, ReadEnd, ReaderCloses, CloseConn, CloseEnd, MapRace,
       callVars
  <1>2. Distinct /\ InTurn /\ \A d \in Calls : Heard(d) /\ Stored(d)
    BY <1>1 DEF Answers
  <1>3. Distinct'
    BY <1>1, <1>2 DEF Distinct, HasID
  <1>4. ASSUME NEW id \in PingIDs, ReadAnswer(id)
        PROVE  InTurn' /\ \A d \in Calls : Heard(d)' /\ Stored(d)'
    <2>1. /\ UNCHANGED <<pings, channel>> /\ reader \in {"top", "over"} /\ reader' \in {"top", "deliver"}
          /\ heard' = heard \cup {c \in Calls : pc[c] \in {"storing", "waiting"} /\ pid[c] = id}
          /\ early' = early \cup {c \in Calls : pc[c] = "storing" /\ pid[c] = id}
          /\ pings[id] # NoOne => reader' = "deliver" /\ frame' = id
      BY <1>4 DEF ReadAnswer, Reading
    <2>2. ASSUME NEW d \in Calls PROVE Heard(d)' /\ Stored(d)'
      BY <1>1, <1>2, <2>1 DEF Heard, Stored
    <2> QED BY <2>1, <2>2 DEF InTurn
  <1>5. ASSUME \/ ReadOther \/ SendReceived \/ SendPanics \/ TooManyErrors \/ ReadEnd
               \/ ReaderCloses \/ CloseConn \/ CloseEnd \/ MapRace \/ \E id \in PingIDs : ReadPing(id)
        PROVE  InTurn' /\ \A d \in Calls : Heard(d)' /\ Stored(d)'
    <2>1. /\ UNCHANGED <<pings, channel, heard, early>>
          /\ UNCHANGED <<reader, frame>> \/ (reader \notin InHand /\ reader' \notin InHand)
      BY <1>5 DEF ReadOther, SendReceived, SendPanics, TooManyErrors, ReadEnd, ReaderCloses,
         CloseConn, CloseEnd, MapRace, ReadPing, Reading, Resume, InHand, readerVars, history
    <2>2. InTurn'
      BY <1>2, <2>1 DEF InTurn, InHand
    <2>3. ASSUME NEW d \in Calls PROVE Heard(d)' /\ Stored(d)'
      BY <1>1, <1>2, <2>1 DEF Heard, Stored, InHand
    <2> QED BY <2>2, <2>3
  <1>6. ASSUME NEW c \in Calls, reader \in InHand, c = pings[frame], pid[c] = frame, pc[c] = "waiting",
               UNCHANGED <<frame, heard, early>>,
               \/ /\ reader = "deliver" /\ channel[c] = "empty"
                  /\ channel' = [channel EXCEPT ![c] = "full"] /\ reader' = "close" /\ pings' = pings
               \/ /\ reader = "close" /\ channel[c] = "full"
                  /\ channel' = [channel EXCEPT ![c] = "closed"] /\ reader' = "delete" /\ pings' = pings
               \/ /\ reader = "delete" /\ channel[c] = "closed"
                  /\ channel' = channel /\ reader' = "top"
                  /\ pings' = [pings EXCEPT ![frame] = NoOne]
        PROVE  InTurn' /\ \A d \in Calls : Heard(d)' /\ Stored(d)'
    <2>1. InTurn'
      BY <1>6 DEF InTurn, TypeOK
    <2>2. Heard(c)' /\ Stored(c)'
      BY <1>1, <1>2, <1>6 DEF Heard, Stored, TypeOK
    <2>3. ASSUME NEW d \in Calls \ {c} PROVE Heard(d)' /\ Stored(d)'
      <3>1. channel'[d] = channel[d]
        BY <1>6 DEF TypeOK
      <3>2. pc[d] = "waiting" => pid[d] # frame /\ pings'[pid[d]] = pings[pid[d]]
        BY <1>2, <1>6 DEF TypeOK, Distinct, HasID
      <3> QED BY <1>1, <1>2, <1>6, <3>1, <3>2 DEF Heard, Stored
    <2> QED BY <2>1, <2>2, <2>3
  <1>7. ASSUME Deliver \/ CloseChannel \/ Delete
        PROVE  InTurn' /\ \A d \in Calls : Heard(d)' /\ Stored(d)'
    <2> DEFINE c == pings[frame]
    <2>1. reader \in InHand /\ UNCHANGED <<frame, heard, early>>
      BY <1>7 DEF Deliver, CloseChannel, Delete, InHand, history
    <2>2. c \in Calls /\ pid[c] = frame /\ pc[c] = "waiting"
      BY <2>1 DEF Entries, TypeOK
    <2>3. /\ reader = "deliver" => channel[c] = "empty"
          /\ reader = "close" => channel[c] = "full"
          /\ reader = "delete" => channel[c] = "closed"
      BY <1>2, <2>1, <2>2 DEF Entries, TypeOK, InTurn
    <2>4. CASE Deliver
      BY <1>6, <2>1, <2>2, <2>3, <2>4 DEF Deliver
    <2>5. CASE CloseChannel
      <3>1. reader = "close" /\ channel[c] = "full" /\ channel[pings[frame]] \in {"empty", "full"}
        BY <2>3, <2>5 DEF CloseChannel
      <3>2. channel' = [channel EXCEPT ![c] = "closed"] /\ reader' = "delete" /\ pings' = pings
        BY <2>2, <2>5, <3>1 DEF CloseChannel, TypeOK
      <3> QED BY <1>6, <2>1, <2>2, <3>1, <3>2
    <2>6. CASE Delete
      BY <1>6, <2>1, <2>2, <2>3, <2>6 DEF Delete, Deleted
    <2> QED BY <1>7, <2>4, <2>5, <2>6
  <1> QED BY <1>3, <1>4, <1>5, <1>7 DEF ReaderStep

LEMMA AnswersPreserved == AnswerInv /\ [Next]_vars => AnswerInv'
  <1> SUFFICES ASSUME AnswerInv, [Next]_vars PROVE Answers'
    BY Preserved DEF AnswerInv
  <1>1. CASE Next
    BY <1>1, PingAnswers, StoreAnswers, ReaderAnswers DEF Next, CallStep
  <1>2. CASE UNCHANGED vars
    BY <1>2 DEF vars, callVars, readerVars, history, AnswerInv, Answers, Distinct, HasID, InTurn,
       Heard, Stored
  <1> QED BY <1>1, <1>2

LEMMA AnswersInitially == Init => AnswerInv
  BY Initially DEF Init, AnswerInv, Answers, Distinct, HasID, InTurn, Heard, Stored

\* A ping whose answer was read after its channel was stored has got it, as
\* long as the IDs have not started again (conn.go 124-126, 784-804).
THEOREM AnswersReachTheirCalls == Spec => []AnsweredUnlessEarly
  <1>1. AnswerInv => AnsweredUnlessEarly
    BY DEF AnswerInv, PingInv, TypeOK, Answers, Heard, Stored, InHand, AnsweredUnlessEarly
  <1> QED BY <1>1, AnswersInitially, AnswersPreserved, PTL DEF Spec
=============================================================================
