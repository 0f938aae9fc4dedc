------------------------------- MODULE Pings -------------------------------
(***************************************************************************)
(* The pings of one endpoint (conn.go 104-129 and 784-804): the calls of   *)
(* Ping, which store their response channel once the frame is sent, and    *)
(* the reader, which answers them without the mutex.                       *)
(*                                                                         *)
(* The peer is any peer: it may send a Ping with any ID, also one of ours. *)
(* That an endpoint built from this code cannot read a Ping at all is the  *)
(* subject of Frames.  Of Close only what a call of Ping and the reader    *)
(* can tell is kept: it sets conn.stop, and with the mutex held closes     *)
(* output 0 or is cut short by the socket (Conn); conn.pings is left alone.*)
(***************************************************************************)
EXTENDS Naturals

CONSTANTS
  Calls,            \* calls of Ping, each on a goroutine of its own
  NoOne,            \* nobody
  Modulus,          \* number of ping IDs (2^32 in the code)
  MaxBenignErrors   \* benign errors tolerated (10 in the code)

ASSUME PingsAssumption ==
  /\ NoOne \notin Calls
  /\ Modulus \in Nat /\ Modulus % 2 = 0 /\ Modulus > 4
  /\ MaxBenignErrors \in Nat

PingIDs == 0 .. Modulus - 1

VARIABLES
  lock,         \* holder of conn.Mutex, or NoOne
  closed,       \* Close: "no", "stopped" (conn.stop is closed), and at its
                \* end "done" (so is output 0) or "abandoned" (it is not)
  nextPingID,   \* conn.nextPingID
  pings,        \* conn.pings: the call whose channel is stored, or NoOne
  pc,           \* where each call is
  pid,          \* its ping ID, 0 before it has one
  channel,      \* its channel: "none", "empty", "full" (of the one Ping it
                \* holds), "closed" after that, or "failed": closed without
  reader,       \* where the reader is
  frame,        \* ID of the frame it is handling
  benign,       \* conn.numBenignErrors
  crashed       \* the runtime has found the map in two hands

(* Auxiliary variables: they record history and guard nothing.             *)
VARIABLES
  heard,        \* calls of whose ID a Ping has been read after theirs was sent
  early,        \* those whose channel was not stored by then
  wrapped       \* nextPingID has started again

callVars == <<lock, nextPingID, pc, pid, wrapped>>
readerVars == <<reader, frame, benign>>
history == <<heard, early>>
vars == <<callVars, readerVars, history, closed, pings, channel, crashed>>

InHand == {"deliver", "close", "delete"}
ReaderPCs == InHand \cup
  {"top", "over", "replying", "erring", "failing", "ending", "gone", "panic", "sendPanic"}

TypeOK ==
  /\ lock \in Calls \cup {NoOne}
  /\ closed \in {"no", "stopped", "abandoned", "done"}
  /\ nextPingID \in PingIDs
  /\ pings \in [PingIDs -> Calls \cup {NoOne}]
  /\ pc \in [Calls -> {"idle", "sending", "storing", "waiting", "refused"}]
  /\ pid \in [Calls -> PingIDs]
  /\ channel \in [Calls -> {"none", "empty", "full", "closed", "failed"}]
  /\ reader \in ReaderPCs
  /\ frame \in PingIDs
  /\ benign \in 0 .. MaxBenignErrors + 2
  /\ crashed \in BOOLEAN
  /\ heard \subseteq Calls /\ early \subseteq heard
  /\ wrapped \in BOOLEAN

Init ==
  /\ lock = NoOne /\ closed = "no"
  /\ nextPingID = 2
  /\ pings = [id \in PingIDs |-> NoOne]
  /\ pc = [c \in Calls |-> "idle"]
  /\ pid = [c \in Calls |-> 0]
  /\ channel = [c \in Calls |-> "none"]
  /\ reader = "top" /\ frame = 0 /\ benign = 0
  /\ crashed = FALSE
  /\ heard = {} /\ early = {} /\ wrapped = FALSE

-----------------------------------------------------------------------------
(* Helpers.  Those marked "fault" are seeded faults and used by no action. *)

CanLock == lock = NoOne /\ closed # "stopped"

SameID(id) == id                    \* fault: conn.nextPingID is not advanced
WrapToOther(id) ==                  \* fault: the wrap changes the parity
  IF (id + 2) % Modulus < id THEN IF id % 2 = 0 THEN 1 ELSE 2 ELSE id + 2

\* The ID after this one: uint32 arithmetic, and 0 is skipped.
NextID(id) ==
  IF (id + 2) % Modulus < id THEN IF id % 2 = 0 THEN 2 ELSE 1 ELSE id + 2

Ours(id) == id % 2 = nextPingID % 2

-----------------------------------------------------------------------------
(* Ping.                                                                   *)

\* Ping up to `conn.output[0] <- ping`, or to its error.
Ping(c) ==
  /\ pc[c] = "idle"
  /\ CanLock
  /\ IF closed # "no"
     THEN /\ pc' = [pc EXCEPT ![c] = "refused"]
          /\ UNCHANGED <<lock, nextPingID, pid, wrapped>>
     ELSE /\ lock' = c
          /\ pid' = [pid EXCEPT ![c] = nextPingID]
          /\ nextPingID' = NextID(nextPingID)
          /\ wrapped' = (wrapped \/ nextPingID' < nextPingID)
          /\ pc' = [pc EXCEPT ![c] = "sending"]
  /\ UNCHANGED <<readerVars, history, closed, pings, channel, crashed>>

\* The sender has taken the frame; the answer may come from here on.
Sent(c) ==
  /\ pc[c] = "sending"
  /\ pc' = [pc EXCEPT ![c] = "storing"]
  /\ UNCHANGED <<lock, nextPingID, pid, wrapped, readerVars, history, closed, pings, channel, crashed>>

\* conn.pings[pid] = c, and the deferred Unlock.
Store(c) ==
  /\ pc[c] = "storing"
  /\ pings' = [pings EXCEPT ![pid[c]] = c]
  /\ channel' = [channel EXCEPT ![c] = "empty"]
  /\ lock' = NoOne
  /\ pc' = [pc EXCEPT ![c] = "waiting"]
  /\ UNCHANGED <<nextPingID, pid, wrapped, readerVars, history, closed, crashed>>

-----------------------------------------------------------------------------
(* The reader.                                                             *)

\* At the top of its loop the reader looks at the benign errors; "over" is
\* behind that check, after a protocolError that has returned.
Reading == (reader = "top" /\ benign <= MaxBenignErrors) \/ reader = "over"

\* A Ping whose ID has the parity of ours is taken for an answer.
ReadAnswer(id) ==
  /\ Reading
  /\ Ours(id)
  /\ heard' = heard \cup {c \in Calls : pc[c] \in {"storing", "waiting"} /\ pid[c] = id}
  /\ early' = early \cup {c \in Calls : pc[c] = "storing" /\ pid[c] = id}
  /\ IF pings[id] = NoOne
     THEN benign' = benign + 1 /\ reader' = "top" /\ UNCHANGED frame
     ELSE reader' = "deliver" /\ frame' = id /\ UNCHANGED benign
  /\ UNCHANGED <<callVars, closed, pings, channel, crashed>>

\* Any other is sent back, unless it is marked as an answer itself.
ReadPing(id) ==
  /\ Reading
  /\ ~Ours(id)
  /\ reader' = "replying"
  /\ frame' = id
  /\ UNCHANGED <<callVars, history, closed, pings, channel, benign, crashed>>

\* A frame of any other type, which may count as a benign error too.
ReadOther ==
  /\ Reading
  /\ reader' = "top"
  /\ benign' \in {benign, benign + 1}
  /\ UNCHANGED <<callVars, history, closed, pings, channel, frame, crashed>>

\* The two frames the reader sends on output 0 with no mutex held, and where
\* it goes on when one is received.
Resume == [replying |-> "top", erring |-> "failing"]

SendReceived ==
  /\ reader \in DOMAIN Resume
  /\ closed = "no"
  /\ reader' = Resume[reader]
  /\ UNCHANGED <<callVars, history, closed, pings, channel, frame, benign, crashed>>

\* The channel has been closed: to send on it panics.
SendPanics ==
  /\ reader \in DOMAIN Resume
  /\ closed = "done"
  /\ reader' = "sendPanic"
  /\ UNCHANGED <<callVars, history, closed, pings, channel, frame, benign, crashed>>

\* conn.pings[frame.PingID] <- Ping{}: the channel has room for one.
Deliver ==
  /\ reader = "deliver"
  /\ IF pings[frame] # NoOne /\ channel[pings[frame]] = "empty"
     THEN channel' = [channel EXCEPT ![pings[frame]] = "full"] /\ reader' = "close"
     ELSE reader' = "panic" /\ UNCHANGED channel
  /\ UNCHANGED <<callVars, history, closed, pings, frame, benign, crashed>>

\* close(conn.pings[frame.PingID]): panics if there is none, or it is closed.
CloseChannel ==
  /\ reader = "close"
  /\ IF pings[frame] # NoOne /\ channel[pings[frame]] \in {"empty", "full"}
     THEN /\ channel' = [channel EXCEPT ![pings[frame]] =
                           IF @ = "full" THEN "closed" ELSE "failed"]
          /\ reader' = "delete"
     ELSE reader' = "panic" /\ UNCHANGED channel
  /\ UNCHANGED <<callVars, history, closed, pings, frame, benign, crashed>>

Deleted(id) == [pings EXCEPT ![id] = NoOne]           \* delete(conn.pings, id)

Delete ==
  /\ reader = "delete"
  /\ pings' = Deleted(frame)
  /\ reader' = "top"
  /\ UNCHANGED <<callVars, history, closed, channel, frame, benign, crashed>>

\* protocolError, when there have been too many benign errors ...
TooManyErrors ==
  /\ reader = "top" /\ benign > MaxBenignErrors
  /\ reader' = "erring"
  /\ UNCHANGED <<callVars, history, closed, pings, channel, frame, benign, crashed>>

\* ... and the end of the connection as the reader sees it.
ReadEnd ==
  /\ Reading
  /\ reader' = "ending"
  /\ UNCHANGED <<callVars, history, closed, pings, channel, frame, benign, crashed>>

\* Close, called by the reader.  If it returns, because the connection is
\* closed already or the socket cuts it short, protocolError's caller reads
\* one frame more before it looks at the benign errors again.
ReaderCloses ==
  /\ reader \in {"failing", "ending"}
  /\ CanLock
  /\ IF closed = "no" THEN closed' \in {"done", "abandoned"} ELSE UNCHANGED closed
  /\ reader' = IF reader = "failing" /\ (closed # "no" \/ closed' = "abandoned")
               THEN "over" ELSE "gone"
  /\ UNCHANGED <<callVars, history, pings, channel, frame, benign, crashed>>

-----------------------------------------------------------------------------
\* Close, called by anyone else.
CloseConn ==
  /\ CanLock /\ closed = "no"
  /\ closed' = "stopped"
  /\ UNCHANGED <<callVars, readerVars, history, pings, channel, crashed>>

\* Close receives and drops one frame, the reader's perhaps, before it
\* closes output 0; or the socket's error has made it return before that.
CloseEnd ==
  /\ closed = "stopped"
  /\ closed' \in {"done", "abandoned"}
  /\ \/ UNCHANGED reader
     \/ closed' = "done" /\ reader \in DOMAIN Resume /\ reader' = Resume[reader]
  /\ UNCHANGED <<callVars, frame, benign, history, pings, channel, crashed>>

\* Ping writes the map while the reader uses it.  If the two meet, the
\* runtime may end the process; if not, one comes before the other.
MapRace ==
  /\ \E c \in Calls : pc[c] = "storing"
  /\ Reading \/ reader \in InHand
  /\ crashed' = TRUE
  /\ UNCHANGED <<callVars, readerVars, history, closed, pings, channel>>

CallStep == \E c \in Calls : Ping(c) \/ Sent(c) \/ Store(c)

ReaderStep ==
  \/ \E id \in PingIDs : ReadAnswer(id) \/ ReadPing(id)
  \/ ReadOther \/ SendReceived \/ SendPanics \/ Deliver \/ CloseChannel \/ Delete
  \/ TooManyErrors \/ ReadEnd \/ ReaderCloses

Next ==
  /\ ~crashed /\ reader \notin {"panic", "sendPanic"}
  /\ CallStep \/ ReaderStep \/ CloseConn \/ CloseEnd \/ MapRace

Spec == Init /\ [][Next]_vars

-----------------------------------------------------------------------------
(* Properties.                                                             *)

\* Our pings keep the parity by which the reader knows their answers, past
\* the limit of 32 bits too, and none has the ID 0 (conn.go 112-122, 788).
OwnIDs ==
  /\ nextPingID % 2 = 0 /\ nextPingID # 0
  /\ \A c \in Calls :
       pc[c] \in {"sending", "storing", "waiting"} => pid[c] % 2 = 0 /\ pid[c] # 0

\* The mutex is held by the call that sends or stores.
Holding == \A c \in Calls : pc[c] \in {"sending", "storing"} => lock = c

\* A stored channel has not been used, but for the one the reader has in
\* hand, and the reader finds its channel each of the three times it looks.
Entries ==
  /\ \A id \in PingIDs : pings[id] # NoOne =>
       /\ pid[pings[id]] = id /\ pc[pings[id]] = "waiting"
       /\ \/ channel[pings[id]] = "empty"
          \/ reader = "close" /\ frame = id /\ channel[pings[id]] = "full"
          \/ reader = "delete" /\ frame = id
  /\ reader \in InHand => pings[frame] # NoOne

\* Once protocolError has returned, the check of the benign errors is passed
\* over for one frame and no more: the next protocolError does not get past
\* its send (conn.go 704-711, 724-727).
OneFrameMore ==
  /\ reader \in {"failing", "over"} => benign = MaxBenignErrors + 1
  /\ reader = "erring" => benign > MaxBenignErrors
  /\ reader = "over" \/ benign > MaxBenignErrors + 1 => closed \in {"done", "abandoned"}

\* The reader never sends on a ping's closed channel, closes one twice or
\* blocks on a full one, whatever the peer sends and however the calls of
\* Ping come between its three uses of the map (conn.go 789-797); with the
\* facts that make it so.  To answer the peer on an output that Close has closed (801)
\* is another matter: that panics, and is "sendPanic".
PingInv ==
  TypeOK /\ OwnIDs /\ Holding /\ Entries /\ OneFrameMore /\ reader # "panic"

\* As long as the IDs have not started again, a ping whose answer was read
\* has got it, once, and its channel is closed, unless the answer came in
\* the window between the send of the frame and the store of the channel
\* (conn.go 124-126): no answer is given to another call, or lost to one.
AnsweredUnlessEarly ==
  ~wrapped =>
    \A c \in Calls :
      /\ channel[c] # "failed"
      /\ c \in heard \ early /\ ~(reader \in InHand /\ frame = pid[c])
           => channel[c] = "closed"
=============================================================================
