----------------------------- MODULE Transport -----------------------------
(***************************************************************************)
(* Transport.RoundTrip for one host (transport.go 84-290): the slots of    *)
(* the connection limit, the pool of HTTP connections and the one WP       *)
(* connection, as concurrent callers use them under the mutex t.m.         *)
(*                                                                         *)
(* What a dial or an HTTP exchange comes to is the network's choice.  The  *)
(* request made over a WP connection is the subject of Client and Conn.    *)
(***************************************************************************)
EXTENDS Naturals, Sequences, FiniteSets

CONSTANTS
  Callers,   \* goroutines that call RoundTrip
  NoOne,     \* t.m is free
  MaxIdle,   \* MaxIdleConnsPerHost
  Scheme,    \* of the host's URLs
  MaxCalls   \* bound: calls made by one caller

ASSUME TransportAssumption ==
  /\ NoOne \notin Callers
  /\ IsFiniteSet(Callers)
  /\ MaxIdle \in Nat \ {0}
  /\ Scheme \in {"http", "https"}
  /\ MaxCalls \in Nat

VARIABLES
  lock,     \* the caller that holds t.m, or NoOne
  tokens,   \* number of values in the channel connLimit[host]
  pool,     \* the channel tcpConns[host]
  wp,       \* wpConns[host], 0 for none
  opened,   \* number of connections dialled so far; they are numbered from 1
  open,     \* connections that have not been closed
  pc,       \* where each caller is
  using,    \* the connection each caller has, 0 for none
  calls     \* calls each caller has made

vars == <<lock, tokens, pool, wp, opened, open, pc, using, calls>>

PCs == {"idle", "lock", "pool", "dial", "connect", "http", "put", "refund", "close",
        "wp", "body"}

TypeOK ==
  /\ lock \in Callers \cup {NoOne}
  /\ tokens \in 0 .. MaxIdle
  /\ pool \in Seq(1 .. opened) /\ Len(pool) <= MaxIdle
  /\ wp \in 0 .. opened
  /\ opened \in Nat
  /\ open \subseteq 1 .. opened
  /\ pc \in [Callers -> PCs]
  /\ using \in [Callers -> 0 .. opened]
  /\ calls \in [Callers -> 0 .. MaxCalls]

Init ==
  /\ lock = NoOne
  /\ tokens = MaxIdle
  /\ pool = <<>>
  /\ wp = 0
  /\ opened = 0
  /\ open = {}
  /\ pc = [c \in Callers |-> "idle"]
  /\ using = [c \in Callers |-> 0]
  /\ calls = [c \in Callers |-> 0]

-----------------------------------------------------------------------------
(* Helpers.  Those marked "fault" are seeded faults and used by no action. *)

Goto(c, at) == pc' = [pc EXCEPT ![c] = at]
Use(c, conn) == using' = [using EXCEPT ![c] = conn]

StillLocked(c) == c                        \* fault: t.m.Unlock left out
Unlocked(c) == NoOne                       \* t.m.Unlock()

NoWait == TRUE                             \* fault: dial does not wait
SlotFree == tokens > 0                     \* connLimit[u.Host] has a value

Unlimited(n) == n                          \* fault: dial takes no slot
SlotTaken(n) == n - 1                      \* <-t.connLimit[u.Host]

PoolKept(s) == s                           \* fault: the connection is not removed
PoolTaken(s) == Tail(s)                    \* <-connChan

WPForgotten == FALSE                       \* fault: wpConns is not looked at
HasWP == wp # 0 /\ Scheme # "http"         \* ok && u.Scheme != "http"

-----------------------------------------------------------------------------
(* RoundTrip, up to the choice of a connection.                            *)

RoundTrip(c) ==
  /\ pc[c] = "idle" /\ calls[c] < MaxCalls
  /\ calls' = [calls EXCEPT ![c] = @ + 1]
  /\ Goto(c, "lock")
  /\ UNCHANGED <<lock, tokens, pool, wp, opened, open, using>>

\* t.m.Lock(), and the host's maps and slots made by the first caller.
Lock(c) ==
  /\ pc[c] = "lock" /\ lock = NoOne
  /\ lock' = c
  /\ Goto(c, "pool")
  /\ UNCHANGED <<tokens, pool, wp, opened, open, using, calls>>

\* A pooled connection, or the WP connection, or a new one.
FromPool(c) ==
  /\ pc[c] = "pool" /\ pool # <<>>
  /\ pool' = PoolTaken(pool)
  /\ Use(c, Head(pool))
  /\ lock' = Unlocked(c)
  /\ Goto(c, "http")
  /\ UNCHANGED <<tokens, wp, opened, open, calls>>

FromWP(c) ==
  /\ pc[c] = "pool" /\ pool = <<>> /\ HasWP
  /\ Use(c, wp)
  /\ lock' = Unlocked(c)
  /\ Goto(c, "wp")
  /\ UNCHANGED <<tokens, pool, wp, opened, open, calls>>

FromNowhere(c) ==
  /\ pc[c] = "pool" /\ pool = <<>> /\ ~HasWP
  /\ Goto(c, "dial")
  /\ UNCHANGED <<lock, tokens, pool, wp, opened, open, using, calls>>

-----------------------------------------------------------------------------
(* dial and the handshake, with t.m held.                                  *)

\* dial: wait for a slot.
Dial(c) ==
  /\ pc[c] = "dial" /\ SlotFree
  /\ tokens' = SlotTaken(tokens)
  /\ Goto(c, "connect")
  /\ UNCHANGED <<lock, pool, wp, opened, open, using, calls>>

\* The dial fails.
DialFails(c) ==
  /\ pc[c] = "connect"
  /\ lock' = Unlocked(c)
  /\ Goto(c, "idle")
  /\ UNCHANGED <<tokens, pool, wp, opened, open, using, calls>>

\* The handshake, the host name or the protocol is refused: the connection
\* is left as it is.
HandshakeFails(c) ==
  /\ Scheme = "https"
  /\ pc[c] = "connect"
  /\ opened' = opened + 1
  /\ open' = open \cup {opened + 1}
  /\ lock' = Unlocked(c)
  /\ Goto(c, "idle")
  /\ UNCHANGED <<tokens, pool, wp, using, calls>>

\* An HTTP connection: no TLS, no protocol negotiated, or http/1.1.
ConnectHTTP(c) ==
  /\ pc[c] = "connect"
  /\ opened' = opened + 1
  /\ open' = open \cup {opened + 1}
  /\ Use(c, opened + 1)
  /\ lock' = Unlocked(c)
  /\ Goto(c, "http")
  /\ UNCHANGED <<tokens, pool, wp, calls>>

\* wp/2: the connection is stored and serves the requests from now on.
ConnectWP(c) ==
  /\ Scheme = "https"
  /\ pc[c] = "connect"
  /\ opened' = opened + 1
  /\ open' = open \cup {opened + 1}
  /\ wp' = opened + 1
  /\ Use(c, opened + 1)
  /\ lock' = Unlocked(c)
  /\ Goto(c, "wp")
  /\ UNCHANGED <<tokens, pool, calls>>

\* conn.Request and stream.Run.
RequestWP(c) ==
  /\ pc[c] = "wp"
  /\ Use(c, 0)
  /\ Goto(c, "idle")
  /\ UNCHANGED <<lock, tokens, pool, wp, opened, open, calls>>

\* The WP connection ends, by its Close or an error.  It stays in wpConns.
WPConnEnds ==
  /\ wp \in open
  /\ open' = open \ {wp}
  /\ UNCHANGED <<lock, tokens, pool, wp, opened, pc, using, calls>>

-----------------------------------------------------------------------------
(* doHTTP, without t.m.  Do returns when the response's header has come;   *)
(* its body is read from the connection by the caller, later.              *)

\* Do fails: the connection is neither closed nor pooled.
ExchangeFails(c) ==
  /\ pc[c] = "http"
  /\ Use(c, 0)
  /\ Goto(c, "idle")
  /\ UNCHANGED <<lock, tokens, pool, wp, opened, open, calls>>

\* Do returns a response: !res.Close, or not.
Exchange(c, keep) ==
  /\ pc[c] = "http"
  /\ Goto(c, IF keep THEN "put" ELSE "refund")
  /\ UNCHANGED <<lock, tokens, pool, wp, opened, open, using, calls>>

\* t.tcpConns[host] <- conn
Put(c) ==
  /\ pc[c] = "put" /\ Len(pool) < MaxIdle
  /\ pool' = Append(pool, using[c])
  /\ Goto(c, "body")
  /\ UNCHANGED <<lock, tokens, wp, opened, open, using, calls>>

\* t.connLimit[host] <- struct{}{}
Refund(c) ==
  /\ pc[c] = "refund" /\ tokens < MaxIdle
  /\ tokens' = tokens + 1
  /\ Goto(c, "close")
  /\ UNCHANGED <<lock, pool, wp, opened, open, using, calls>>

\* httpConn.Close()
CloseHTTP(c) ==
  /\ pc[c] = "close"
  /\ open' = open \ {using[c]}
  /\ Goto(c, "body")
  /\ UNCHANGED <<lock, tokens, pool, wp, opened, using, calls>>

\* The caller has read the response's body.
ReadBody(c) ==
  /\ pc[c] = "body"
  /\ Use(c, 0)
  /\ Goto(c, "idle")
  /\ UNCHANGED <<lock, tokens, pool, wp, opened, open, calls>>

-----------------------------------------------------------------------------
Connect(c) == DialFails(c) \/ HandshakeFails(c) \/ ConnectHTTP(c) \/ ConnectWP(c)

Step(c) ==
  \/ FromPool(c) \/ FromWP(c) \/ FromNowhere(c)
  \/ Dial(c) \/ Connect(c) \/ RequestWP(c)
  \/ ExchangeFails(c) \/ \E keep \in BOOLEAN : Exchange(c, keep)
  \/ Put(c) \/ Refund(c) \/ CloseHTTP(c) \/ ReadBody(c)

Next == WPConnEnds \/ \E c \in Callers : RoundTrip(c) \/ Lock(c) \/ Step(c)

Spec == Init /\ [][Next]_vars

\* Goroutines run, the network answers, and a mutex starves no one.
FairSpec ==
  /\ Spec
  /\ \A c \in Callers : WF_vars(Step(c)) /\ SF_vars(Lock(c))

-----------------------------------------------------------------------------
(* Properties.                                                             *)

\* Connections whose slot has been taken and not given back.
Slotted == {c \in Callers : pc[c] \in {"connect", "http", "put", "refund"}}

\* The slots that can be accounted for: the free ones, and those of pooled
\* connections, of the WP connection and of callers.
Slots == tokens + Len(pool) + Cardinality(Slotted) + (IF wp = 0 THEN 0 ELSE 1)

\* A slot is never in two hands: there are MaxIdle at the most.  The two
\* channels therefore never fill: a caller that gives a connection or a slot
\* back finds room (transport.go 119-124).
SlotsBounded ==
  /\ Slots <= MaxIdle
  /\ \A c \in Callers : /\ pc[c] = "put" => Len(pool) < MaxIdle
                        /\ pc[c] = "refund" => tokens < MaxIdle

\* No failed dial, handshake or exchange has lost its slot.
NoSlotLost == Slots = MaxIdle

\* The mutex is held from Lock to the choice or the making of a connection,
\* and only who has found no WP connection goes on to dial.
Choosing ==
  \A c \in Callers : pc[c] \in {"pool", "dial", "connect"} =>
    /\ lock = c
    /\ pc[c] # "pool" /\ Scheme = "https" => wp = 0

\* Every HTTP connection has one owner, the pool or the caller that has it in
\* doHTTP, and none of them is the WP connection.
Owned ==
  LET owners == {c \in Callers : pc[c] \in {"http", "put", "refund", "close"}}
  IN /\ \A i \in DOMAIN pool : pool[i] \in open \ {wp}
     /\ \A i, j \in DOMAIN pool : pool[i] = pool[j] => i = j
     /\ \A c \in owners :
          /\ using[c] \in (1 .. opened) \ {wp}
          /\ pc[c] # "close" => using[c] \in open
          /\ \A d \in owners : using[c] = using[d] => c = d
          /\ \A i \in DOMAIN pool : pool[i] # using[c]

\* The facts by which connections are exclusive, whatever fails or ends
\* meanwhile (transport.go 107-131, 150-260).
TransportInv == TypeOK /\ Choosing /\ Owned

\* An HTTP connection is with one caller or in the pool, until doHTTP
\* returns, and is open all that time: two exchanges never share it.
ExclusiveExchange ==
  LET exchanging == {c \in Callers : pc[c] \in {"http", "put", "refund"}}
  IN /\ \A c \in exchanging :
          /\ using[c] \in open
          /\ \A d \in exchanging : using[c] = using[d] => c = d
          /\ \A i \in DOMAIN pool : pool[i] # using[c]
     /\ \A i, j \in DOMAIN pool : pool[i] = pool[j] => i = j

\* One WP connection is made for the host and stays the one in use: callers
\* that dial at the same time do not make two (transport.go 188-253).
OneWPConn == [][wp # 0 => wp' = wp]_vars

\* Every RoundTrip ends, if there are as many slots as callers, the network
\* answers and no failure loses a slot: t.m is given up on every path, and
\* lost slots are the one reason to wait for ever (transport.go 95, 150-260).
RoundTripReturns == []NoSlotLost => \A c \in Callers : pc[c] = "lock" ~> pc[c] = "idle"

-----------------------------------------------------------------------------
(* What a comment says of the program and the program does not do.         *)

\* transport.go 94: "Wait for a connection slot to become available."  With
\* more callers than slots it is waited for in vain, with t.m held, though
\* no slot is lost.
SlotComes == []NoSlotLost => \A c \in Callers : pc[c] = "dial" ~> pc[c] # "dial"
=============================================================================
