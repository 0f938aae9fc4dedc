-------------------------- MODULE Transport_proofs --------------------------
(***************************************************************************)
(* Proofs about Transport, for any finite number of callers and any number *)
(* of slots: connections have one owner, one WP connection is made, and no *)
(* slot is in two hands.                                                   *)
(***************************************************************************)
EXTENDS Transport, FiniteSetTheorems, TLAPS

Owner == {"http", "put", "refund", "close"}
Taken == {"connect", "http", "put", "refund"}

\* What the helpers come to, with the faults left aside.
LEMMA Helpers ==
  /\ \A c : Unlocked(c) = NoOne
  /\ \A n : SlotTaken(n) = n - 1
  /\ \A s : PoolTaken(s) = Tail(s)
  /\ SlotFree <=> tokens > 0
  /\ HasWP <=> wp # 0 /\ Scheme # "http"
  BY DEF Unlocked, SlotTaken, PoolTaken, SlotFree, HasWP

LEMMA TailFacts ==
  ASSUME NEW S, NEW s \in Seq(S), s # <<>>
  PROVE  /\ Head(s) \in S /\ Head(s) = s[1] /\ 1 \in DOMAIN s
         /\ Tail(s) \in Seq(S) /\ Len(Tail(s)) = Len(s) - 1
         /\ \A i \in DOMAIN Tail(s) : i + 1 \in DOMAIN s /\ i + 1 # 1 /\ Tail(s)[i] = s[i + 1]
  OBVIOUS

LEMMA AppendFacts ==
  ASSUME NEW S, NEW s \in Seq(S), NEW x \in S
  PROVE  /\ Append(s, x) \in Seq(S) /\ Len(Append(s, x)) = Len(s) + 1
         /\ \A i \in DOMAIN Append(s, x) :
              (i \in DOMAIN s /\ Append(s, x)[i] = s[i]) \/ (i = Len(s) + 1 /\ Append(s, x)[i] = x)
  <1>1. Append(s, x) \in Seq(S) /\ Len(Append(s, x)) = Len(s) + 1
    OBVIOUS
  <1>2. ASSUME NEW i \in DOMAIN Append(s, x)
        PROVE  (i \in DOMAIN s /\ Append(s, x)[i] = s[i]) \/ (i = Len(s) + 1 /\ Append(s, x)[i] = x)
    <2>1. i \in 1 .. Len(s) + 1 /\ Len(s) \in Nat /\ DOMAIN s = 1 .. Len(s)
      BY <1>1
    <2>2. CASE i = Len(s) + 1
      BY <2>2
    <2>3. CASE i # Len(s) + 1
      BY <2>1, <2>3
    <2> QED BY <2>2, <2>3
  <1> QED BY <1>1, <1>2

-----------------------------------------------------------------------------
(* Owners of connections.                                                  *)

LEMMA Initially == Init => TransportInv
  <1> SUFFICES ASSUME Init PROVE TransportInv
    OBVIOUS
  <1>1. TypeOK
    BY TransportAssumption DEF Init, TypeOK, PCs
  <1>2. Choosing /\ Owned
    BY DEF Init, Choosing, Owned
  <1> QED BY <1>1, <1>2 DEF TransportInv

\* Steps that leave connections and the WP connection as they are, and make
\* no new owner.
LEMMA Quiet ==
  ASSUME TransportInv, NEW c \in Callers, NEW at \in PCs,
         pc' = [pc EXCEPT ![c] = at],
         at \in Owner => pc[c] \in Owner \ {"close"} /\ using' = using,
         using' = using \/ using' = [using EXCEPT ![c] = 0],
         UNCHANGED <<pool, wp, opened, open>>,
         lock' \in Callers \cup {NoOne}, tokens' \in 0 .. MaxIdle,
         calls' \in [Callers -> 0 .. MaxCalls]
  PROVE  TypeOK' /\ Owned'
  <1>1. TypeOK'
    <2>1. opened \in Nat /\ using \in [Callers -> 0 .. opened]
      BY DEF TransportInv, TypeOK
    <2>2. using' \in [Callers -> 0 .. opened]
      <3>1. 0 \in 0 .. opened
        BY <2>1
      <3> QED BY <2>1, <3>1
    <2> QED BY <2>2 DEF TransportInv, TypeOK
  <1>2. Owned'
    <2>1. \A d \in Callers : pc'[d] \in Owner =>
            pc[d] \in Owner /\ using'[d] = using[d] /\ (pc'[d] # "close" => pc[d] # "close")
      BY DEF TransportInv, TypeOK, Owner
    <2> QED BY <2>1 DEF TransportInv, Owned, Owner
  <1> QED BY <1>1, <1>2

\* Steps that end the choice, or are outside of it.
LEMMA Unchosen ==
  ASSUME TransportInv, NEW c \in Callers, NEW at \in PCs \ {"pool", "dial", "connect"},
         pc' = [pc EXCEPT ![c] = at],
         \/ lock' = NoOne /\ pc[c] \in {"pool", "dial", "connect"}
         \/ lock' = lock /\ wp' = wp
  PROVE  Choosing'
  BY DEF TransportInv, TypeOK, Choosing

LEMMA ChoiceSteps ==
  ASSUME TransportInv, NEW c \in Callers,
         RoundTrip(c) \/ Lock(c) \/ FromPool(c) \/ FromWP(c) \/ FromNowhere(c) \/ Dial(c)
  PROVE  TransportInv'
  <1> USE Helpers DEF Goto, Use
  <1>1. CASE RoundTrip(c)
    <2>1. calls' \in [Callers -> 0 .. MaxCalls]
      BY <1>1, TransportAssumption DEF RoundTrip, TransportInv, TypeOK
    <2>2. TypeOK' /\ Owned'
      BY <1>1, <2>1, Quiet DEF RoundTrip, PCs, Owner, TransportInv, TypeOK
    <2>3. Choosing'
      BY <1>1, Unchosen DEF RoundTrip, PCs
    <2> QED BY <2>2, <2>3 DEF TransportInv
  <1>2. CASE Lock(c)
    <2>1. TypeOK' /\ Owned'
      BY <1>2, Quiet DEF Lock, PCs, Owner, TransportInv, TypeOK
    <2>2. Choosing'
      BY <1>2, TransportAssumption DEF Lock, TransportInv, TypeOK, Choosing
    <2> QED BY <2>1, <2>2 DEF TransportInv
  <1>3. CASE FromPool(c)
    <2>1. pool # <<>> /\ pool \in Seq(1 .. opened) /\ opened \in Nat /\ wp \in 0 .. opened
      BY <1>3 DEF FromPool, TransportInv, TypeOK
    <2>2. /\ pc' = [pc EXCEPT ![c] = "http"] /\ using' = [using EXCEPT ![c] = Head(pool)]
          /\ lock' = NoOne /\ pool' = Tail(pool) /\ pc[c] = "pool"
          /\ UNCHANGED <<tokens, wp, opened, open, calls>>
      BY <1>3 DEF FromPool
    <2>3. /\ Head(pool) \in 1 .. opened /\ Head(pool) = pool[1] /\ 1 \in DOMAIN pool
          /\ Tail(pool) \in Seq(1 .. opened) /\ Len(Tail(pool)) = Len(pool) - 1
          /\ \A i \in DOMAIN Tail(pool) :
               i + 1 \in DOMAIN pool /\ i + 1 # 1 /\ Tail(pool)[i] = pool[i + 1]
      BY <2>1, TailFacts
    <2>4. TypeOK'
      BY <2>1, <2>2, <2>3, TransportAssumption DEF TransportInv, TypeOK, PCs
    <2>5. Owned'
      <3> DEFINE n == Head(pool)
      <3>1. n \in (1 .. opened) \ {wp} /\ n \in open
        BY <2>1, <2>3 DEF TransportInv, Owned
      <3>2. \A i \in DOMAIN pool' : pool'[i] \in open \ {wp} /\ pool'[i] # n
        BY <2>2, <2>3 DEF TransportInv, Owned
      <3>3. \A i, j \in DOMAIN pool' : pool'[i] = pool'[j] => i = j
        <4> SUFFICES ASSUME NEW i \in DOMAIN Tail(pool), NEW j \in DOMAIN Tail(pool),
                            Tail(pool)[i] = Tail(pool)[j]
                     PROVE  i = j
          BY <2>2
        <4>1. i + 1 = j + 1
          BY <2>3 DEF TransportInv, Owned
        <4> QED BY <4>1, <2>3
      <3>4. \A d \in Callers : pc[d] \in Owner => using[d] # n
        BY <2>3 DEF TransportInv, Owned, Owner
      <3>5. \A d \in Callers : pc[d] \in Owner =>
              \A i \in DOMAIN pool' : pool'[i] # using[d]
        BY <2>2, <2>3 DEF TransportInv, Owned, Owner
      <3> QED BY <2>2, <3>1, <3>2, <3>3, <3>4, <3>5 DEF TransportInv, TypeOK, Owned, Owner
    <2>6. Choosing'
      BY <2>2, Unchosen DEF PCs
    <2> QED BY <2>4, <2>5, <2>6 DEF TransportInv
  <1>4. CASE FromWP(c)
    <2>1. /\ pc' = [pc EXCEPT ![c] = "wp"] /\ using' = [using EXCEPT ![c] = wp]
          /\ lock' = NoOne /\ pc[c] = "pool"
          /\ UNCHANGED <<tokens, pool, wp, opened, open, calls>>
      BY <1>4 DEF FromWP
    <2>2. TypeOK'
      BY <2>1 DEF TransportInv, TypeOK, PCs
    <2>3. Owned'
      BY <2>1 DEF TransportInv, TypeOK, Owned
    <2>4. Choosing'
      BY <2>1, Unchosen DEF PCs
    <2> QED BY <2>2, <2>3, <2>4 DEF TransportInv
  <1>5. CASE FromNowhere(c)
    <2>1. TypeOK' /\ Owned'
      BY <1>5, Quiet DEF FromNowhere, PCs, Owner, TransportInv, TypeOK
    <2>2. Choosing'
      BY <1>5 DEF FromNowhere, TransportInv, TypeOK, Choosing
    <2> QED BY <2>1, <2>2 DEF TransportInv
  <1>6. CASE Dial(c)
    <2>1. tokens' \in 0 .. MaxIdle
      BY <1>6, TransportAssumption DEF Dial, TransportInv, TypeOK
    <2>2. TypeOK' /\ Owned'
      BY <1>6, <2>1, Quiet DEF Dial, PCs, Owner, TransportInv, TypeOK
    <2>3. Choosing'
      BY <1>6 DEF Dial, TransportInv, TypeOK, Choosing
    <2> QED BY <2>2, <2>3 DEF TransportInv
  <1> QED BY <1>1, <1>2, <1>3, <1>4, <1>5, <1>6

LEMMA ConnectSteps ==
  ASSUME TransportInv, NEW c \in Callers, Connect(c)
  PROVE  TransportInv'
  <1> USE Helpers DEF Goto, Use
  <1>1. /\ opened \in Nat /\ wp \in 0 .. opened /\ open \subseteq 1 .. opened
        /\ pool \in Seq(1 .. opened)
    BY DEF TransportInv, TypeOK
  <1>2. pool \in Seq(1 .. opened + 1) /\ using \in [Callers -> 0 .. opened + 1]
    BY <1>1 DEF TransportInv, TypeOK
  <1>3. CASE DialFails(c)
    <2>1. TypeOK' /\ Owned'
      BY <1>3, Quiet DEF DialFails, PCs, Owner, TransportInv, TypeOK
    <2>2. Choosing'
      BY <1>3, Unchosen DEF DialFails, PCs
    <2> QED BY <2>1, <2>2 DEF TransportInv
  <1>4. CASE HandshakeFails(c) \/ ConnectHTTP(c) \/ ConnectWP(c)
    <2>1. /\ pc[c] = "connect" /\ lock' = NoOne
          /\ opened' = opened + 1 /\ open' = open \cup {opened + 1}
          /\ UNCHANGED <<tokens, pool, calls>>
          /\ \/ /\ pc' = [pc EXCEPT ![c] = "idle"] /\ UNCHANGED <<wp, using>>
             \/ /\ pc' = [pc EXCEPT ![c] = "http"] /\ UNCHANGED wp
                /\ using' = [using EXCEPT ![c] = opened + 1]
             \/ /\ pc' = [pc EXCEPT ![c] = "wp"] /\ wp' = opened + 1
                /\ using' = [using EXCEPT ![c] = opened + 1]
      BY <1>4 DEF HandshakeFails, ConnectHTTP, ConnectWP
    <2>2. TypeOK'
      <3>1. opened' \in Nat /\ wp' \in 0 .. opened' /\ open' \subseteq 1 .. opened'
        BY <1>1, <2>1
      <3>2. pool' \in Seq(1 .. opened') /\ using' \in [Callers -> 0 .. opened']
        <4>1. using' = using \/ using' = [using EXCEPT ![c] = opened + 1]
          BY <2>1
        <4>2. using' \in [Callers -> 0 .. opened + 1]
          <5>1. opened + 1 \in 0 .. opened + 1
            BY <1>1
          <5> QED BY <1>2, <4>1, <5>1
        <4> QED BY <1>2, <2>1, <4>2
      <3>3. pc' \in [Callers -> PCs]
        BY <2>1 DEF TransportInv, TypeOK, PCs
      <3> QED BY <2>1, <3>1, <3>2, <3>3 DEF TransportInv, TypeOK
    <2>3. Owned'
      <3>1. opened + 1 \notin open /\ opened + 1 # wp
        BY <1>1
      <3>2. \A i \in DOMAIN pool : pool[i] \in 1 .. opened
        BY <1>1
      <3>3. \A d \in Callers : pc[d] \in Owner => using[d] \in 1 .. opened
        BY DEF TransportInv, Owned, Owner
      <3>4. \A i \in DOMAIN pool : pool[i] \in open' \ {wp'}
        BY <1>1, <2>1, <3>2 DEF TransportInv, Owned
      <3>5. \A d \in Callers : pc'[d] \in Owner =>
              /\ using'[d] \in (1 .. opened') \ {wp'}
              /\ pc'[d] # "close" => using'[d] \in open'
              /\ \A i \in DOMAIN pool : pool[i] # using'[d]
        <4> SUFFICES ASSUME NEW d \in Callers, pc'[d] \in Owner
                     PROVE  /\ using'[d] \in (1 .. opened') \ {wp'}
                            /\ pc'[d] # "close" => using'[d] \in open'
                            /\ \A i \in DOMAIN pool : pool[i] # using'[d]
          OBVIOUS
        <4>1. CASE d = c
          <5>1. using'[c] = opened + 1 /\ wp' = wp
            BY <2>1, <4>1 DEF TransportInv, TypeOK, Owner
          <5> QED BY <1>1, <2>1, <3>1, <3>2, <4>1, <5>1
        <4>2. CASE d # c
          <5>1. pc'[d] = pc[d] /\ using'[d] = using[d]
            BY <2>1, <4>2 DEF TransportInv, TypeOK
          <5>2. using[d] \in (1 .. opened) \ {wp} /\ (pc[d] # "close" => using[d] \in open)
                /\ \A i \in DOMAIN pool : pool[i] # using[d]
            BY <5>1 DEF TransportInv, Owned, Owner
          <5> QED BY <1>1, <2>1, <5>1, <5>2
        <4> QED BY <4>1, <4>2
      <3>6. \A d, e \in Callers :
              pc'[d] \in Owner /\ pc'[e] \in Owner /\ using'[d] = using'[e] => d = e
        <4> SUFFICES ASSUME NEW d \in Callers, NEW e \in Callers, pc'[d] \in Owner,
                            pc'[e] \in Owner, using'[d] = using'[e], d # e
                     PROVE  FALSE
          OBVIOUS
        <4>1. \A x \in Callers \ {c} : pc'[x] = pc[x] /\ using'[x] = using[x]
          BY <2>1 DEF TransportInv, TypeOK
        <4>2. pc'[c] \in Owner => using'[c] = opened + 1
          BY <2>1 DEF TransportInv, TypeOK, Owner
        <4>3. CASE d # c /\ e # c
          <5>1. pc[d] \in Owner /\ pc[e] \in Owner /\ using[d] = using[e]
            BY <4>1, <4>3
          <5> QED BY <5>1 DEF TransportInv, Owned, Owner
        <4>4. CASE d = c
          <5>1. using'[e] = using[e] /\ using[e] \in 1 .. opened
            BY <3>3, <4>1, <4>4
          <5>2. using'[d] = opened + 1
            BY <4>2, <4>4
          <5>3. opened + 1 \notin 1 .. opened
            BY <1>1
          <5> QED BY <5>1, <5>2, <5>3
        <4>5. CASE e = c
          <5>1. using'[d] = using[d] /\ using[d] \in 1 .. opened
            BY <3>3, <4>1, <4>5
          <5>2. using'[e] = opened + 1
            BY <4>2, <4>5
          <5>3. opened + 1 \notin 1 .. opened
            BY <1>1
          <5> QED BY <5>1, <5>2, <5>3
        <4> QED BY <4>3, <4>4, <4>5
      <3> QED BY <2>1, <3>4, <3>5, <3>6 DEF TransportInv, Owned, Owner
    <2>4. Choosing'
      BY <2>1, Unchosen DEF PCs
    <2> QED BY <2>2, <2>3, <2>4 DEF TransportInv
  <1> QED BY <1>3, <1>4 DEF Connect

LEMMA ExchangeSteps ==
  ASSUME TransportInv, NEW c \in Callers,
         \/ RequestWP(c) \/ ExchangeFails(c) \/ \E keep \in BOOLEAN : Exchange(c, keep)
         \/ Put(c) \/ Refund(c) \/ CloseHTTP(c) \/ ReadBody(c)
  PROVE  TransportInv'
  <1> USE DEF Goto, Use
  <1>1. CASE RequestWP(c) \/ ExchangeFails(c) \/ ReadBody(c)
    <2>1. /\ pc' = [pc EXCEPT ![c] = "idle"] /\ using' = [using EXCEPT ![c] = 0]
          /\ UNCHANGED <<lock, tokens, pool, wp, opened, open, calls>>
      BY <1>1 DEF RequestWP, ExchangeFails, ReadBody
    <2>3. lock' \in Callers \cup {NoOne} /\ tokens' \in 0 .. MaxIdle
          /\ calls' \in [Callers -> 0 .. MaxCalls]
      BY <2>1 DEF TransportInv, TypeOK
    <2>4. TypeOK' /\ Owned'
      BY <2>1, <2>3, Quiet DEF PCs, Owner
    <2>2. Choosing'
      BY <2>1, Unchosen DEF PCs
    <2> QED BY <2>4, <2>2 DEF TransportInv
  <1>2. ASSUME NEW keep \in BOOLEAN, Exchange(c, keep) PROVE TransportInv'
    <2>1. TypeOK' /\ Owned'
      BY <1>2, Quiet DEF Exchange, PCs, Owner, TransportInv, TypeOK
    <2>2. Choosing'
      BY <1>2, Unchosen DEF Exchange, PCs
    <2> QED BY <2>1, <2>2 DEF TransportInv
  <1>3. CASE Put(c)
    <2>1. /\ pc[c] = "put" /\ Len(pool) < MaxIdle
          /\ pc' = [pc EXCEPT ![c] = "body"] /\ pool' = Append(pool, using[c])
          /\ UNCHANGED <<lock, tokens, wp, opened, open, using, calls>>
      BY <1>3 DEF Put
    <2>2. /\ using[c] \in (1 .. opened) \ {wp} /\ using[c] \in open
          /\ \A i \in DOMAIN pool : pool[i] # using[c]
      BY <2>1 DEF TransportInv, Owned
    <2>3. pool \in Seq(1 .. opened) /\ Len(pool) \in Nat
      BY DEF TransportInv, TypeOK
    <2>4. /\ pool' \in Seq(1 .. opened) /\ Len(pool') = Len(pool) + 1
          /\ \A i \in DOMAIN pool' :
               (i \in DOMAIN pool /\ pool'[i] = pool[i]) \/ (i = Len(pool) + 1 /\ pool'[i] = using[c])
      BY <2>1, <2>2, <2>3, AppendFacts
    <2>5. TypeOK'
      BY <2>1, <2>3, <2>4, TransportAssumption DEF TransportInv, TypeOK, PCs
    <2>6. Owned'
      <3>1. \A i \in DOMAIN pool' : pool'[i] \in open \ {wp}
        BY <2>2, <2>4 DEF TransportInv, Owned
      <3>2. \A i, j \in DOMAIN pool' : pool'[i] = pool'[j] => i = j
        BY <2>2, <2>4 DEF TransportInv, Owned
      <3>3. \A d \in Callers : pc'[d] \in Owner => d # c /\ pc'[d] = pc[d]
        BY <2>1 DEF TransportInv, TypeOK, Owner
      <3>4. \A d \in Callers : pc'[d] \in Owner =>
              /\ using[d] # using[c]
              /\ \A i \in DOMAIN pool' : pool'[i] # using[d]
        BY <2>1, <2>4, <3>3 DEF TransportInv, Owned, Owner
      <3> QED BY <2>1, <3>1, <3>2, <3>3, <3>4 DEF TransportInv, Owned, Owner
    <2>7. Choosing'
      BY <2>1, Unchosen DEF PCs
    <2> QED BY <2>5, <2>6, <2>7 DEF TransportInv
  <1>4. CASE Refund(c)
    <2>1. tokens' \in 0 .. MaxIdle
      BY <1>4, TransportAssumption DEF Refund, TransportInv, TypeOK
    <2>2. TypeOK' /\ Owned'
      BY <1>4, <2>1, Quiet DEF Refund, PCs, Owner, TransportInv, TypeOK
    <2>3. Choosing'
      BY <1>4, Unchosen DEF Refund, PCs
    <2> QED BY <2>2, <2>3 DEF TransportInv
  <1>5. CASE CloseHTTP(c)
    <2>1. /\ pc[c] = "close" /\ pc' = [pc EXCEPT ![c] = "body"] /\ open' = open \ {using[c]}
          /\ UNCHANGED <<lock, tokens, pool, wp, opened, using, calls>>
      BY <1>5 DEF CloseHTTP
    <2>2. TypeOK'
      BY <2>1 DEF TransportInv, TypeOK, PCs
    <2>3. \A d \in Callers : pc'[d] \in Owner => d # c /\ pc'[d] = pc[d] /\ using[d] # using[c]
      BY <2>1 DEF TransportInv, TypeOK, Owned, Owner
    <2>4. Owned'
      BY <2>1, <2>3 DEF TransportInv, Owned, Owner
    <2>5. Choosing'
      BY <2>1, Unchosen DEF PCs
    <2> QED BY <2>2, <2>4, <2>5 DEF TransportInv
  <1> QED BY <1>1, <1>2, <1>3, <1>4, <1>5

LEMMA EndStep ==
  ASSUME TransportInv, WPConnEnds
  PROVE  TransportInv'
  <1>1. TypeOK' /\ Choosing'
    BY DEF WPConnEnds, TransportInv, TypeOK, Choosing
  <1>2. Owned'
    BY DEF WPConnEnds, TransportInv, TypeOK, Owned
  <1> QED BY <1>1, <1>2 DEF TransportInv

LEMMA Preserved == TransportInv /\ [Next]_vars => TransportInv'
  <1> SUFFICES ASSUME TransportInv, [Next]_vars PROVE TransportInv'
    OBVIOUS
  <1>1. CASE Next
    BY <1>1, ChoiceSteps, ConnectSteps, ExchangeSteps, EndStep DEF Next, Step
  <1>2. CASE UNCHANGED vars
    BY <1>2 DEF vars, TransportInv, TypeOK, Choosing, Owned
  <1> QED BY <1>1, <1>2

\* The facts that make connections exclusive hold for ever.
THEOREM Invariance == Spec => []TransportInv
  BY Initially, Preserved, PTL DEF Spec

\* Two HTTP exchanges never share a connection (transport.go 107-131,
\* 173-181), for any number of callers and slots.
THEOREM ExchangesAreExclusive == Spec => []ExclusiveExchange
  <1>1. TransportInv => ExclusiveExchange
    BY DEF TransportInv, Owned, ExclusiveExchange
  <1> QED BY <1>1, Invariance, PTL

\* Once there is a WP connection for the host it stays the one in use:
\* callers that dial at the same time never make two (transport.go 186-253).
THEOREM OneWPConnection == Spec => OneWPConn
  <1>1. ASSUME TransportInv, Next, wp # 0 PROVE wp' = wp
    <2>1. ASSUME NEW c \in Callers, ConnectWP(c) PROVE FALSE
      BY <1>1, <2>1 DEF ConnectWP, TransportInv, Choosing
    <2>2. ASSUME NEW c \in Callers, RoundTrip(c) \/ Lock(c) \/ Step(c) PROVE wp' = wp
      BY <2>1, <2>2 DEF RoundTrip, Lock, Step, FromPool, FromWP, FromNowhere, Dial, Connect,
         DialFails, HandshakeFails, ConnectHTTP, RequestWP, ExchangeFails, Exchange, Put, Refund,
         CloseHTTP, ReadBody
    <2> QED BY <1>1, <2>2 DEF Next, WPConnEnds
  <1>2. TransportInv /\ [Next]_vars => [wp # 0 => wp' = wp]_vars
    BY <1>1 DEF vars
  <1> QED BY <1>2, Invariance, PTL DEF Spec, OneWPConn

-----------------------------------------------------------------------------
(* Slots.  Every step moves one slot at most.                              *)

SlotInv == Slots <= MaxIdle

LEMMA Counts ==
  ASSUME TransportInv
  PROVE  /\ IsFiniteSet(Slotted) /\ Cardinality(Slotted) \in Nat
         /\ tokens \in Nat /\ Len(pool) \in Nat /\ MaxIdle \in Nat
  <1>1. Slotted \subseteq Callers /\ IsFiniteSet(Callers)
    BY TransportAssumption DEF Slotted
  <1>2. IsFiniteSet(Slotted) /\ Cardinality(Slotted) \in Nat
    BY <1>1, FS_Subset, FS_CardinalityType
  <1>3. tokens \in Nat /\ Len(pool) \in Nat /\ MaxIdle \in Nat
    BY TransportAssumption DEF TransportInv, TypeOK
  <1> QED BY <1>2, <1>3

\* A caller that goes on holds the same slots, one more or one less.
LEMMA Moves ==
  ASSUME TransportInv, NEW c \in Callers, NEW at \in PCs, pc' = [pc EXCEPT ![c] = at]
  PROVE  Cardinality(Slotted') =
           Cardinality(Slotted) + (IF at \in Taken THEN 1 ELSE 0)
                                - (IF pc[c] \in Taken THEN 1 ELSE 0)
  <1>1. pc \in [Callers -> PCs]
    BY DEF TransportInv, TypeOK
  <1>2. c \in Slotted <=> pc[c] \in Taken
    BY DEF Slotted, Taken
  <1>3. IsFiniteSet(Slotted) /\ Cardinality(Slotted) \in Nat
    BY Counts
  <1>4. CASE at \in Taken
    <2>1. Slotted' = Slotted \cup {c}
      BY <1>1, <1>4 DEF Slotted, Taken
    <2>2. Cardinality(Slotted') =
            IF c \in Slotted THEN Cardinality(Slotted) ELSE Cardinality(Slotted) + 1
      BY <1>3, <2>1, FS_AddElement
    <2> QED BY <1>2, <1>3, <1>4, <2>2
  <1>5. CASE at \notin Taken
    <2>1. Slotted' = Slotted \ {c}
      BY <1>1, <1>5 DEF Slotted, Taken
    <2>2. Cardinality(Slotted') =
            IF c \in Slotted THEN Cardinality(Slotted) - 1 ELSE Cardinality(Slotted)
      BY <1>3, <2>1, FS_RemoveElement
    <2> QED BY <1>2, <1>3, <1>5, <2>2
  <1> QED BY <1>4, <1>5

LEMMA SlotStep ==
  ASSUME TransportInv, SlotInv, NEW c \in Callers, RoundTrip(c) \/ Lock(c) \/ Step(c)
  PROVE  SlotInv'
  <1> DEFINE N == Cardinality(Slotted)
             W == IF wp = 0 THEN 0 ELSE 1
  <1> USE Helpers DEF Goto, Use
  <1>1. /\ N \in Nat /\ tokens \in Nat /\ Len(pool) \in Nat /\ MaxIdle \in Nat
        /\ tokens + Len(pool) + N + W <= MaxIdle
    BY Counts DEF SlotInv, Slots
  <1>0. ASSUME NEW at \in PCs, pc' = [pc EXCEPT ![c] = at]
        PROVE  /\ at \in Taken /\ pc[c] \notin Taken => N' = N + 1
               /\ at \notin Taken /\ pc[c] \in Taken => N' = N - 1
               /\ (at \in Taken <=> pc[c] \in Taken) => N' = N
    <2>1. N' = N + (IF at \in Taken THEN 1 ELSE 0) - (IF pc[c] \in Taken THEN 1 ELSE 0)
      BY <1>0, Moves
    <2> QED BY <1>1, <2>1
  <1>2. CASE RoundTrip(c) \/ Lock(c) \/ FromWP(c) \/ FromNowhere(c) \/ RequestWP(c)
             \/ CloseHTTP(c) \/ ReadBody(c)
    <2>1. N' = N
      BY <1>1, <1>2, <1>0
         DEF Taken, PCs, RoundTrip, Lock, FromWP, FromNowhere, RequestWP, CloseHTTP, ReadBody
    <2>2. UNCHANGED <<tokens, pool, wp>>
      BY <1>2 DEF RoundTrip, Lock, FromWP, FromNowhere, RequestWP, CloseHTTP, ReadBody
    <2> QED BY <1>1, <2>1, <2>2 DEF SlotInv, Slots
  <1>3. CASE FromPool(c)
    <2>1. pc[c] = "pool" /\ pc' = [pc EXCEPT ![c] = "http"] /\ pool # <<>> /\ pool' = Tail(pool)
          /\ UNCHANGED <<tokens, wp>>
      BY <1>3 DEF FromPool
    <2>2. N' = N + 1
      BY <1>1, <2>1, <1>0 DEF Taken, PCs
    <2>3. Len(pool') = Len(pool) - 1
      BY <2>1, TailFacts DEF TransportInv, TypeOK
    <2> QED BY <1>1, <2>1, <2>2, <2>3 DEF SlotInv, Slots
  <1>4. CASE Dial(c)
    <2>1. pc[c] = "dial" /\ pc' = [pc EXCEPT ![c] = "connect"] /\ tokens' = tokens - 1
          /\ UNCHANGED <<pool, wp>>
      BY <1>4 DEF Dial
    <2>2. N' = N + 1
      BY <1>1, <2>1, <1>0 DEF Taken, PCs
    <2> QED BY <1>1, <2>1, <2>2 DEF SlotInv, Slots
  <1>5. CASE DialFails(c) \/ HandshakeFails(c) \/ ExchangeFails(c)
    <2>1. N' = N - 1
      BY <1>1, <1>5, <1>0 DEF DialFails, HandshakeFails, ExchangeFails, Taken, PCs
    <2>2. UNCHANGED <<tokens, pool, wp>>
      BY <1>5 DEF DialFails, HandshakeFails, ExchangeFails
    <2> QED BY <1>1, <2>1, <2>2 DEF SlotInv, Slots
  <1>6. CASE ConnectHTTP(c)
    <2>1. N' = N /\ UNCHANGED <<tokens, pool, wp>>
      BY <1>1, <1>6, <1>0 DEF ConnectHTTP, Taken, PCs
    <2> QED BY <1>1, <2>1 DEF SlotInv, Slots
  <1>7. CASE ConnectWP(c)
    <2>1. pc[c] = "connect" /\ Scheme = "https" /\ pc' = [pc EXCEPT ![c] = "wp"]
          /\ UNCHANGED <<tokens, pool>>
      BY <1>7 DEF ConnectWP
    <2>2. N' = N - 1
      BY <1>1, <2>1, <1>0 DEF Taken, PCs
    <2>3. wp = 0
      BY <2>1 DEF TransportInv, Choosing
    <2> QED BY <1>1, <2>1, <2>2, <2>3 DEF SlotInv, Slots
  <1>8. ASSUME NEW keep \in BOOLEAN, Exchange(c, keep) PROVE SlotInv'
    <2>1. N' = N
      BY <1>1, <1>8, <1>0 DEF Exchange, Taken, PCs
    <2>2. UNCHANGED <<tokens, pool, wp>>
      BY <1>8 DEF Exchange
    <2> QED BY <1>1, <2>1, <2>2 DEF SlotInv, Slots
  <1>9. CASE Put(c)
    <2>1. /\ pc[c] = "put" /\ pc' = [pc EXCEPT ![c] = "body"]
          /\ pool' = Append(pool, using[c]) /\ UNCHANGED <<tokens, wp>>
      BY <1>9 DEF Put
    <2>2. N' = N - 1
      BY <1>1, <2>1, <1>0 DEF Taken, PCs
    <2>3. Len(pool') = Len(pool) + 1
      <3>1. pool \in Seq(1 .. opened) /\ using[c] \in 1 .. opened
        BY <2>1 DEF TransportInv, TypeOK, Owned
      <3> QED BY <2>1, <3>1, AppendFacts
    <2> QED BY <1>1, <2>1, <2>2, <2>3 DEF SlotInv, Slots
  <1>10. CASE Refund(c)
    <2>1. pc[c] = "refund" /\ pc' = [pc EXCEPT ![c] = "close"] /\ tokens' = tokens + 1
          /\ UNCHANGED <<pool, wp>>
      BY <1>10 DEF Refund
    <2>2. N' = N - 1
      BY <1>1, <2>1, <1>0 DEF Taken, PCs
    <2> QED BY <1>1, <2>1, <2>2 DEF SlotInv, Slots
  <1> QED BY <1>2, <1>3, <1>4, <1>5, <1>6, <1>7, <1>8, <1>9, <1>10 DEF Step, Connect

\* A slot is never in two hands, so a caller that gives back a connection or
\* a slot finds room for it (transport.go 94-95, 119-124).
THEOREM SlotsAreBounded == Spec => []SlotsBounded
  <1>1. Init => SlotInv
    <2> SUFFICES ASSUME Init PROVE SlotInv
      OBVIOUS
    <2>1. tokens = MaxIdle /\ pool = <<>> /\ wp = 0 /\ Slotted = {}
      BY DEF Init, Slotted
    <2> QED BY <2>1, FS_EmptySet, TransportAssumption DEF SlotInv, Slots
  <1>2. TransportInv /\ SlotInv /\ [Next]_vars => SlotInv'
    <2> SUFFICES ASSUME TransportInv, SlotInv, [Next]_vars PROVE SlotInv'
      OBVIOUS
    <2>1. CASE WPConnEnds
      BY <2>1 DEF WPConnEnds, SlotInv, Slots, Slotted
    <2>2. CASE UNCHANGED vars
      BY <2>2 DEF vars, SlotInv, Slots, Slotted
    <2> QED BY <2>1, <2>2, SlotStep DEF Next
  <1>3. TransportInv /\ SlotInv => SlotsBounded
    <2> SUFFICES ASSUME TransportInv, SlotInv, NEW c \in Callers, pc[c] \in {"put", "refund"}
                 PROVE  Len(pool) < MaxIdle /\ tokens < MaxIdle
      BY DEF SlotInv, SlotsBounded
    <2>1. c \in Slotted
      BY DEF Slotted
    <2>2. Cardinality(Slotted) \in Nat /\ Cardinality(Slotted) # 0
      BY <2>1, Counts, FS_EmptySet
    <2> QED BY <2>2, Counts DEF SlotInv, Slots
  <1> QED BY <1>1, <1>2, <1>3, Invariance, PTL DEF Spec
=============================================================================
