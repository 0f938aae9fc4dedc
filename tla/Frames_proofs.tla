---------------------------- MODULE Frames_proofs ----------------------------
(***************************************************************************)
(* Proofs about Frames: for any sizes, any length field that can say the   *)
(* fixed lengths and any number of frames, the peer receives what was      *)
(* written, Error frames as Data, unless a payload was too long for the    *)
(* length field.                                                           *)
(*                                                                         *)
(* The wire is a sequence of cells, and where on it the frames that have   *)
(* not been read begin is given by a function off: there is no recursion   *)
(* over the frames that are under way.                                     *)
(***************************************************************************)
EXTENDS Frames, SequenceTheorems, TLAPS

Cells == HeaderCells \cup {Byte}
Received == [kind : FrameTypes, id : IDs, assoc : IDs, finish : BOOLEAN, size : Nat]

\* The number of cells of a frame behind its header, and whether the length
\* field can say it.
Body(f) == Prefix[f.kind] + f.size
Fits(f) == Body(f) < LengthLimit
Fitting == (\A n \in 1 .. Len(sent) : Fits(sent[n])) /\ (current # <<>> => Fits(current[1]))

\* What is behind the last whole frame, from position e of the wire: nothing,
\* or a frame of which something is missing.
Rest(e) ==
  \/ e = Len(wire) + 1 /\ current = <<>>
  \/ \E f \in Sendable :
       /\ Writable(f)
       /\ e <= Len(wire) /\ wire[e] = HeaderCell(f)
       /\ \/ /\ current = <<f>> /\ f.size > 0 /\ Len(wire) - e < Body(f)
             /\ writer = "payload" => Len(wire) - e = Prefix[f.kind]
          \/ current = <<>> /\ writer = "closed" /\ Len(wire) - e < Prefix[f.kind]

\* Frame n begins at off[n], the first of them at the head of the wire.
Offsets == [Nat -> Nat]

Placed(off) ==
  /\ off[Len(received) + 1] = 1
  /\ \A n \in Len(received) + 1 .. Len(sent) :
       /\ wire[off[n]] = HeaderCell(sent[n])
       /\ off[n + 1] = off[n] + 1 + Body(sent[n])
       /\ \A m \in n + 1 .. Len(sent) + 1 : off[n] + 1 + Body(sent[n]) <= off[m]
  /\ Rest(off[Len(sent) + 1])

\* What a frame is received as: an Error frame, as one byte of Data.
Arrival(f) == IF f.kind = "Error" THEN [f EXCEPT !.kind = "Data", !.size = 1] ELSE f

Cause ==
  \/ writer = "closed" /\ Len(received) = Len(sent)
  \/ Len(received) < Len(sent) /\ sent[Len(received) + 1].kind = "Ping"

Whole ==
  /\ Len(received) <= Len(sent)
  /\ \A n \in 1 .. Len(received) : received[n] = Arrival(sent[n])
  /\ reader = "reading" => \E off \in Offsets : Placed(off)
  /\ reader = "ended" => Cause
  /\ reader # "astray"

AllWritable ==
  /\ \A n \in 1 .. Len(sent) : Writable(sent[n])
  /\ current # <<>> => Writable(current[1])

Room == writer = "payload" => Len(sent) < MaxFrames

Shape == TypeOK /\ Room /\ AllWritable

FrameInv == Shape /\ (Fitting => Whole)

-----------------------------------------------------------------------------
(* The format.                                                             *)

\* What the assumption gives of the constants, and that the lengths are numbers.
LEMMA Constants ==
  /\ LengthLimit \in Nat /\ LengthLimit > 6 /\ MaxFrames \in Nat
  /\ Kinds \subseteq FrameTypes /\ \A n \in Sizes \cup {0} : n \in Nat
  BY FramesAssumption

\* A kind's fixed part is at most four bytes, as the readers subtract it.
LEMMA PrefixType == \A k \in FrameTypes : Prefix[k] \in Nat /\ Prefix[k] <= 4
  BY DEF Prefix, FrameTypes

\* What is sent, and how it is said.
LEMMA SendableType ==
  ASSUME NEW f \in Sendable
  PROVE  /\ f \in [kind : FrameTypes, id : IDs, assoc : IDs, finish : BOOLEAN, size : Nat]
         /\ f.kind # "Push" => f.assoc = "zero"
         /\ f.kind \in {"Error", "Ping"} => f.size = 0
         /\ Prefix[f.kind] \in Nat /\ f.size \in Nat /\ Body(f) \in Nat
  <1>1. /\ f \in [kind : Kinds, id : IDs, assoc : IDs, finish : BOOLEAN, size : Sizes \cup {0}]
        /\ f.kind # "Push" => f.assoc = "zero"
        /\ f.kind \in {"Error", "Ping"} => f.size = 0
    BY DEF Sendable
  <1>2. f.kind \in FrameTypes /\ f.size \in Nat
    <2>1. f.kind \in Kinds /\ f.size \in Sizes \cup {0}
      BY <1>1
    <2> QED BY <2>1, Constants
  <1>3. f \in [kind : FrameTypes, id : IDs, assoc : IDs, finish : BOOLEAN, size : Nat]
    BY <1>1, <1>2
  <1> QED BY <1>1, <1>2, <1>3, PrefixType DEF Body

\* A remainder is below its divisor.
LEMMA ModType == ASSUME NEW n \in Nat, NEW m \in Nat \ {0} PROVE n % m \in 0 .. m - 1
  OBVIOUS

\* A number below the divisor is its own remainder.
LEMMA ModSmall == ASSUME NEW n \in Nat, NEW m \in Nat, n < m PROVE n % m = n
  OBVIOUS

\* The header a frame is written with is a cell.
LEMMA HeaderCellType ==
  ASSUME NEW f \in Sendable
  PROVE  HeaderCell(f) \in HeaderCells
  <1>1. WrittenLength(f) \in 0 .. LengthLimit - 1
    <2>1. LengthLimit \in Nat \ {0} /\ Prefix[f.kind] + f.size \in Nat
      BY SendableType, Constants
    <2>2. (Prefix[f.kind] + f.size) % LengthLimit \in 0 .. LengthLimit - 1
      BY <2>1, ModType
    <2>3. 6 % LengthLimit \in 0 .. LengthLimit - 1
      BY <2>1, ModType
    <2> QED BY <2>2, <2>3 DEF WrittenLength
  <1>2. WrittenType(f) \in FrameTypes
    BY SendableType DEF WrittenType, FrameTypes
  <1> QED BY <1>1, <1>2, SendableType DEF HeaderCell, HeaderCells

\* A payload of n cells has n of them.
LEMMA BytesType ==
  ASSUME NEW n \in Nat
  PROVE  Bytes(n) \in Seq(Cells) /\ Len(Bytes(n)) = n
  BY DEF Bytes, Cells

\* A frame that fits is read as it arrives, unless it is a Ping.
LEMMA Reads ==
  ASSUME NEW f \in Sendable, Writable(f), Fits(f)
  PROVE  /\ f.kind = "Ping" => ~Accepted(HeaderCell(f))
         /\ f.kind # "Ping" => /\ Accepted(HeaderCell(f))
                               /\ HeaderCell(f).length = Body(f)
                               /\ FrameRead(HeaderCell(f)) = Arrival(f)
         /\ HeaderCell(f).type # "byte"
  <1> DEFINE h == HeaderCell(f)
  <1>1. h.type = WrittenType(f) /\ h.length = WrittenLength(f) /\ h.id = f.id /\ h.assoc = f.assoc
        /\ h.finish = f.finish
    BY DEF HeaderCell
  <1>2. 6 % LengthLimit = 6 /\ Body(f) % LengthLimit = Body(f)
    BY Constants, SendableType, ModSmall DEF Fits
  <1>3. CASE f.kind = "Ping"
    <2>1. h.type = "Ping" /\ h.length = 6
      BY <1>1, <1>2, <1>3 DEF WrittenType, WrittenLength
    <2> QED BY <1>3, <2>1 DEF Accepted, LengthAccepted
  <1>4. CASE f.kind # "Ping"
    <2>1. h.length = Body(f)
      BY <1>1, <1>2, <1>4 DEF WrittenLength, Body
    <2>2. h.type \in FrameTypes /\ h.type # "byte" /\ h.type # "Ping" /\ h.type # "Error"
      BY <1>1, <1>4, SendableType DEF WrittenType, FrameTypes
    <2>3. f.kind # "Error" => h.type = f.kind
      BY <1>1 DEF WrittenType
    <2>4. Body(f) = Prefix[f.kind] + f.size /\ f.size \in Nat
      BY SendableType DEF Body
    <2>5. LengthAccepted(h)
      <3>1. h.type = "Response" => h.length >= 1
        BY <2>1, <2>3, <2>4, <1>1 DEF Prefix, WrittenType
      <3>2. h.type = "Push" => h.length >= 4
        BY <2>1, <2>3, <2>4, <1>1 DEF Prefix, WrittenType
      <3> HIDE DEF h
      <3> QED BY <2>2, <3>1, <3>2 DEF LengthAccepted
    <2>6. IDAccepted(h)
      BY <1>1, <1>4, <2>2, <2>3 DEF IDAccepted, Writable, WrittenType
    <2>7. FrameRead(h) = Arrival(f)
      <3>1. CASE f.kind = "Error"
        <4>1. h.type = "Data" /\ h.length = 1 /\ PayloadSize(h) = 1
          BY <1>1, <2>1, <2>4, <3>1, SendableType DEF WrittenType, Prefix, PayloadSize
        <4> QED BY <1>1, <3>1, <4>1, SendableType DEF FrameRead, Arrival
      <3>2. CASE f.kind # "Error"
        <4>1. h.type = f.kind /\ PayloadSize(h) = f.size
          BY <2>1, <2>3, <2>4, <3>2, SendableType DEF PayloadSize
        <4> QED BY <1>1, <3>2, <4>1, SendableType DEF FrameRead, Arrival
      <3> QED BY <3>1, <3>2
    <2> QED BY <1>4, <2>1, <2>2, <2>5, <2>6, <2>7 DEF Accepted
  <1> QED BY <1>3, <1>4

\* Of a frame that was cut short in the first write, the header is there at
\* the most, and fewer bytes than any length its ReadFrom accepts.
LEMMA CutShort ==
  ASSUME NEW f \in Sendable, NEW n \in Nat, n < Prefix[f.kind], Accepted(HeaderCell(f))
  PROVE  n < HeaderCell(f).length
  <1>1. f.kind \in {"Response", "Error", "Push"}
    BY SendableType DEF Prefix, FrameTypes
  <1>2. CASE f.kind = "Error"
    <2>1. HeaderCell(f).length = 1 /\ Prefix["Error"] = 1
      BY <1>2, SendableType, Constants, ModSmall DEF HeaderCell, WrittenLength, Prefix
    <2> QED BY <1>2, <2>1
  <1>3. CASE f.kind # "Error"
    <2>1. HeaderCell(f).type = f.kind /\ LengthAccepted(HeaderCell(f))
      BY <1>3 DEF HeaderCell, WrittenType, Accepted
    <2>2. HeaderCell(f).length >= Prefix[f.kind] /\ HeaderCell(f).length \in Nat
      BY <1>1, <1>3, <2>1, HeaderCellType DEF LengthAccepted, Prefix, HeaderCells
    <2> QED BY <2>2, SendableType
  <1> QED BY <1>2, <1>3

\* Two sequences behind each other.
LEMMA Joined ==
  ASSUME NEW S, NEW s \in Seq(S), NEW t \in Seq(S)
  PROVE  /\ s \o t \in Seq(S) /\ Len(s \o t) = Len(s) + Len(t)
         /\ \A n \in 1 .. Len(s) : (s \o t)[n] = s[n]
         /\ \A n \in 1 .. Len(t) : (s \o t)[Len(s) + n] = t[n]
  <1>1. Len(s) \in Nat /\ Len(t) \in Nat
    OBVIOUS
  <1>2. /\ s \o t \in Seq(S) /\ Len(s \o t) = Len(s) + Len(t)
        /\ \A i \in 1 .. Len(s) + Len(t) :
             (s \o t)[i] = IF i <= Len(s) THEN s[i] ELSE t[i - Len(s)]
    BY ConcatProperties
  <1>3. ASSUME NEW n \in 1 .. Len(s) PROVE (s \o t)[n] = s[n]
    <2>1. n \in 1 .. Len(s) + Len(t) /\ n <= Len(s)
      BY <1>1
    <2> QED BY <1>2, <2>1
  <1>4. ASSUME NEW n \in 1 .. Len(t) PROVE (s \o t)[Len(s) + n] = t[n]
    <2>1. Len(s) + n \in 1 .. Len(s) + Len(t) /\ ~(Len(s) + n <= Len(s)) /\ Len(s) + n - Len(s) = n
      BY <1>1
    <2> QED BY <1>2, <2>1
  <1> QED BY <1>2, <1>3, <1>4

\* What is left of a sequence.
LEMMA Dropped ==
  ASSUME NEW S, NEW s \in Seq(S), NEW k \in Nat, k <= Len(s)
  PROVE  /\ SubSeq(s, k + 1, Len(s)) \in Seq(S) /\ Len(SubSeq(s, k + 1, Len(s))) = Len(s) - k
         /\ \A n \in 1 .. Len(s) - k : SubSeq(s, k + 1, Len(s))[n] = s[k + n]
  <1>1. \A i \in k + 1 .. Len(s) : s[i] \in S
    OBVIOUS
  <1>2. k + 1 \in Int /\ Len(s) \in Int
    OBVIOUS
  <1> DEFINE d == SubSeq(s, k + 1, Len(s))
  <1>3. /\ d \in Seq(S) /\ Len(d) = (IF k + 1 <= Len(s) THEN Len(s) - (k + 1) + 1 ELSE 0)
        /\ \A i \in 1 .. Len(s) - (k + 1) + 1 : d[i] = s[(k + 1) + i - 1]
    BY <1>1, <1>2, SubSeqProperties
  <1> HIDE DEF d
  <1>4. Len(d) = Len(s) - k
    <2>1. Len(d) = (IF k + 1 <= Len(s) THEN Len(s) - (k + 1) + 1 ELSE 0)
      BY <1>3
    <2> QED BY <1>2, <2>1
  <1>5. ASSUME NEW n \in 1 .. Len(s) - k PROVE d[n] = s[k + n]
    <2>1. n \in 1 .. Len(s) - (k + 1) + 1 /\ (k + 1) + n - 1 = k + n
      BY <1>2
    <2> QED BY <1>3, <2>1
  <1> QED BY <1>3, <1>4, <1>5 DEF d

\* Oversized is Fitting's opposite.
LEMMA Sizing == ASSUME TypeOK PROVE Oversized <=> ~Fitting
  <1>1. sent \in Seq(Sendable) /\ (current = <<>> \/ \E f \in Sendable : current = <<f>>)
    BY DEF TypeOK
  <1>2. \A f \in Sendable : Prefix[f.kind] + f.size >= LengthLimit <=> ~Fits(f)
    BY SendableType, Constants DEF Fits, Body
  <1>3. CASE current = <<>>
    <2>1. sent \o current = sent
      BY <1>1, <1>3, ConcatEmptySeq
    <2>2. ToSet(sent \o current) = {sent[n] : n \in 1 .. Len(sent)}
      BY <1>1, <2>1 DEF ToSet
    <2>3. \A n \in 1 .. Len(sent) : sent[n] \in Sendable
      BY <1>1
    <2> QED BY <1>2, <1>3, <2>2, <2>3 DEF Oversized, Fitting
  <1>4. CASE current # <<>>
    <2>1. PICK f \in Sendable : current = <<f>>
      BY <1>1, <1>4
    <2>2. sent \o current = Append(sent, f) /\ current[1] = f
      BY <1>1, <2>1, AppendIsConcat
    <2>3. /\ Append(sent, f) \in Seq(Sendable) /\ Len(Append(sent, f)) = Len(sent) + 1
          /\ \A n \in 1 .. Len(sent) : Append(sent, f)[n] = sent[n]
          /\ Append(sent, f)[Len(sent) + 1] = f
      BY <1>1, AppendProperties
    <2>4. DOMAIN Append(sent, f) = 1 .. Len(sent) + 1
      BY <2>3
    <2>5. ToSet(sent \o current) = {sent[n] : n \in 1 .. Len(sent)} \cup {f}
      BY <1>1, <2>2, <2>3, <2>4 DEF ToSet
    <2>6. \A n \in 1 .. Len(sent) : sent[n] \in Sendable
      BY <1>1
    <2> QED BY <1>2, <1>4, <2>2, <2>5, <2>6 DEF Oversized, Fitting
  <1> QED BY <1>3, <1>4

-----------------------------------------------------------------------------
(* The wire.                                                               *)

\* The three sequences of the state, as TypeOK types them.
LEMMA SeqTypes ==
  ASSUME TypeOK
  PROVE  wire \in Seq(Cells) /\ sent \in Seq(Sendable) /\ received \in Seq(Received)
  BY DEF TypeOK, Cells, Received

\* Their lengths are numbers.
LEMMA Lengths ==
  ASSUME TypeOK
  PROVE  Len(wire) \in Nat /\ Len(sent) \in Nat /\ Len(received) \in Nat
  BY SeqTypes

\* Every frame sent is one that can be sent, and its body has a size.
LEMMA Sent ==
  ASSUME TypeOK
  PROVE  \A n \in 1 .. Len(sent) : sent[n] \in Sendable /\ Body(sent[n]) \in Nat
  <1>1. \A n \in 1 .. Len(sent) : sent[n] \in Sendable
    BY SeqTypes
  <1> QED BY <1>1, SendableType

\* An offset is a number.
LEMMA Offset == ASSUME NEW off \in Offsets, NEW n \in Nat PROVE off[n] \in Nat
  BY DEF Offsets

\* The frames that have not been read are on the wire, one behind the other.
LEMMA RestPlace ==
  ASSUME TypeOK, NEW e \in Nat, Rest(e)
  PROVE  e <= Len(wire) + 1
  <1>1. e = Len(wire) + 1 \/ e <= Len(wire)
    BY DEF Rest
  <1> QED BY <1>1, Lengths

\* Frames still on the wire lie in order: each ends before the next begins, and the last before the end.
LEMMA Order ==
  ASSUME TypeOK, NEW off \in Offsets, Placed(off), NEW n \in Len(received) + 1 .. Len(sent)
  PROVE  /\ n \in 1 .. Len(sent) /\ sent[n] \in Sendable /\ Body(sent[n]) \in Nat
         /\ off[n] \in Nat /\ off[n] >= 1
         /\ off[n] + 1 + Body(sent[n]) <= off[Len(sent) + 1]
         /\ \A m \in n + 1 .. Len(sent) + 1 : off[n] + 1 + Body(sent[n]) <= off[m]
  <1>1. n \in 1 .. Len(sent) /\ n \in Nat /\ Len(sent) + 1 \in n + 1 .. Len(sent) + 1
    BY Lengths
  <1>2. \A m \in n + 1 .. Len(sent) + 1 : off[n] + 1 + Body(sent[n]) <= off[m]
    BY DEF Placed
  <1>3. sent[n] \in Sendable /\ Body(sent[n]) \in Nat /\ off[n] \in Nat
    BY <1>1, Sent, Offset
  <1>4. off[n] >= 1
    <2> DEFINE h == Len(received) + 1
    <2>1. off[h] = 1 /\ h \in 1 .. Len(sent) /\ h \in Len(received) + 1 .. Len(sent)
      BY Lengths DEF Placed
    <2>2. CASE n = h
      BY <2>1, <2>2
    <2>3. CASE n # h
      <3>1. n \in h + 1 .. Len(sent) + 1
        BY <2>3, Lengths
      <3>2. off[h] + 1 + Body(sent[h]) <= off[n]
        BY <2>1, <3>1 DEF Placed
      <3>3. Body(sent[h]) \in Nat
        BY <2>1, Sent
      <3> HIDE DEF h
      <3> QED BY <1>3, <2>1, <3>2, <3>3
    <2> QED BY <2>2, <2>3
  <1> QED BY <1>1, <1>2, <1>3, <1>4

\* Every frame still to be read lies inside the wire.
LEMMA Bounds ==
  ASSUME TypeOK, Len(received) <= Len(sent), NEW off \in Offsets, Placed(off)
  PROVE  /\ off[Len(sent) + 1] \in Nat /\ off[Len(sent) + 1] >= 1
         /\ off[Len(sent) + 1] <= Len(wire) + 1
         /\ \A n \in Len(received) + 1 .. Len(sent) :
              off[n] \in 1 .. Len(wire) /\ off[n] + Body(sent[n]) <= Len(wire)
  <1> DEFINE e == off[Len(sent) + 1]
  <1>1. e \in Nat /\ e <= Len(wire) + 1
    <2>1. e \in Nat
      BY Lengths, Offset
    <2>2. Rest(e)
      BY DEF Placed
    <2> QED BY <2>1, <2>2, RestPlace
  <1>2. e >= 1
    <2>1. CASE Len(received) = Len(sent)
      BY <2>1 DEF Placed
    <2>2. CASE Len(received) < Len(sent)
      <3>1. Len(sent) \in Len(received) + 1 .. Len(sent)
        BY <2>2, Lengths
      <3>2. off[Len(sent)] \in Nat /\ Body(sent[Len(sent)]) \in Nat
            /\ off[Len(sent)] + 1 + Body(sent[Len(sent)]) <= e
        BY <3>1, Order
      <3> HIDE DEF e
      <3> QED BY <1>1, <3>2
    <2> QED BY <2>1, <2>2, Lengths
  <1> HIDE DEF e
  <1>3. ASSUME NEW n \in Len(received) + 1 .. Len(sent)
        PROVE  off[n] \in 1 .. Len(wire) /\ off[n] + Body(sent[n]) <= Len(wire)
    <2>1. off[n] \in Nat /\ off[n] >= 1 /\ Body(sent[n]) \in Nat /\ off[n] + 1 + Body(sent[n]) <= e
      BY <1>3, Order DEF e
    <2> QED BY <1>1, <2>1, Lengths
  <1> QED BY <1>1, <1>2, <1>3 DEF e

\* More cells at the end leave the frames where they are.
LEMMA Grows ==
  ASSUME TypeOK, Len(received) <= Len(sent), NEW off \in Offsets, Placed(off),
         NEW cells \in Seq(Cells), wire' = wire \o cells, UNCHANGED <<received, sent>>,
         Rest(off[Len(sent) + 1])'
  PROVE  Placed(off)'
  <1>1. \A n \in 1 .. Len(wire) : wire'[n] = wire[n]
    BY SeqTypes, Joined
  <1>2. ASSUME NEW n \in Len(received) + 1 .. Len(sent)
        PROVE  /\ wire'[off[n]] = HeaderCell(sent[n])
               /\ off[n + 1] = off[n] + 1 + Body(sent[n])
               /\ \A m \in n + 1 .. Len(sent) + 1 : off[n] + 1 + Body(sent[n]) <= off[m]
    <2>1. off[n] \in 1 .. Len(wire)
      BY <1>2, Bounds
    <2>2. wire[off[n]] = HeaderCell(sent[n])
      BY <1>2 DEF Placed
    <2>3. /\ off[n + 1] = off[n] + 1 + Body(sent[n])
          /\ \A m \in n + 1 .. Len(sent) + 1 : off[n] + 1 + Body(sent[n]) <= off[m]
      BY <1>2 DEF Placed
    <2> QED BY <1>1, <2>1, <2>2, <2>3
  <1>3. off[Len(received) + 1] = 1
    BY DEF Placed
  <1> QED BY <1>2, <1>3 DEF Placed

\* A frame comes to its end.
Ends(f, e, cells) ==
  /\ wire' = wire \o cells /\ sent' = Append(sent, f) /\ current' = <<>> /\ received' = received
  /\ wire'[e] = HeaderCell(f) /\ Len(wire') = e + Body(f)

\* A frame completed at the end of the wire keeps the frames placed.
LEMMA Completes ==
  ASSUME TypeOK, Len(received) <= Len(sent), NEW off \in Offsets, Placed(off),
         NEW cells \in Seq(Cells), NEW f \in Sendable, Ends(f, off[Len(sent) + 1], cells)
  PROVE  \E new \in Offsets : Placed(new)'
  <1>1. PICK last \in Nat, e \in Nat : last = Len(sent) + 1 /\ e = off[Len(sent) + 1]
    BY Lengths, Offset
  <1> DEFINE new == [n \in Nat |-> IF n = last + 1 THEN e + 1 + Body(f) ELSE off[n]]
  <1>2. /\ Len(sent') = last /\ sent'[last] = f
        /\ \A n \in 1 .. Len(sent) : sent'[n] = sent[n]
        /\ \A n \in 1 .. Len(wire) : wire'[n] = wire[n]
        /\ current' = <<>> /\ received' = received
        /\ wire'[e] = HeaderCell(f) /\ Len(wire') = e + Body(f)
    <2>1. /\ wire' = wire \o cells /\ sent' = Append(sent, f) /\ current' = <<>> /\ received' = received
          /\ wire'[e] = HeaderCell(f) /\ Len(wire') = e + Body(f)
      BY <1>1 DEF Ends
    <2>2. \A n \in 1 .. Len(wire) : wire'[n] = wire[n]
      BY <2>1, SeqTypes, Joined
    <2>3. /\ Len(sent') = Len(sent) + 1 /\ sent'[Len(sent) + 1] = f
          /\ \A n \in 1 .. Len(sent) : sent'[n] = sent[n]
      BY <2>1, SeqTypes, AppendProperties
    <2> QED BY <1>1, <2>1, <2>2, <2>3
  <1>3. Body(f) \in Nat
    BY SendableType
  <1>4. \A n \in Nat : off[n] \in Nat
    BY Offset
  <1>5. new \in [Nat -> Nat]
    BY <1>3, <1>4
  <1>6. new[last + 1] = e + 1 + Body(f) /\ \A n \in Nat : n # last + 1 => new[n] = off[n]
    BY <1>3
  <1> HIDE DEF new
  <1>7. new[Len(received') + 1] = 1
    <2>1. Len(received) + 1 \in Nat /\ Len(received) + 1 # last + 1
      BY <1>1, Lengths
    <2> QED BY <1>2, <1>6, <2>1 DEF Placed
  <1>8. Rest(new[Len(sent) + 1])'
    <2>1. new[Len(sent') + 1] = Len(wire') + 1
      BY <1>1, <1>2, <1>3, <1>6
    <2> QED BY <1>2, <2>1, Zenon DEF Rest
  <1>9. ASSUME NEW n \in Len(received) + 1 .. last
        PROVE  /\ wire'[new[n]] = HeaderCell(sent'[n])
               /\ new[n + 1] = new[n] + 1 + Body(sent'[n])
               /\ \A m \in n + 1 .. last + 1 : new[n] + 1 + Body(sent'[n]) <= new[m]
    <2>1. n \in Nat /\ n # last + 1
      BY <1>1, <1>9, Lengths
    <2>2. CASE n = last
      <3>1. new[n] = e /\ sent'[n] = f /\ new[n + 1] = e + 1 + Body(f)
        BY <1>1, <1>2, <1>6, <2>1, <2>2
      <3>2. \A m \in n + 1 .. last + 1 : m = n + 1
        BY <2>2
      <3>3. e + 1 + Body(f) <= e + 1 + Body(f)
        BY <1>3
      <3> QED BY <1>1, <1>2, <3>1, <3>2, <3>3
    <2>3. CASE n # last
      <3>1. n \in Len(received) + 1 .. Len(sent) /\ n + 1 \in Nat /\ n + 1 # last + 1
        BY <1>1, <1>9, <2>1, <2>3, Lengths
      <3>2. /\ n \in 1 .. Len(sent) /\ off[n] \in 1 .. Len(wire) /\ Body(sent[n]) \in Nat /\ off[n] \in Nat
            /\ off[n] + 1 + Body(sent[n]) <= e
            /\ \A m \in n + 1 .. last : off[n] + 1 + Body(sent[n]) <= off[m]
        BY <1>1, <3>1, Order, Bounds, Offset, <2>1
      <3>3. wire[off[n]] = HeaderCell(sent[n]) /\ off[n + 1] = off[n] + 1 + Body(sent[n])
        BY <3>1 DEF Placed
      <3>4. new[n] = off[n] /\ new[n + 1] = off[n + 1] /\ sent'[n] = sent[n]
        BY <1>2, <1>6, <2>1, <3>1, <3>2
      <3>5. ASSUME NEW m \in n + 1 .. last + 1 PROVE off[n] + 1 + Body(sent[n]) <= new[m]
        <4>1. CASE m = last + 1
          <5>1. off[n] + 1 + Body(sent[n]) <= e + 1 + Body(f)
            <6>1. PICK a \in Nat, b \in Nat, c \in Nat : a = off[n] /\ b = Body(sent[n]) /\ c = Body(f)
              BY <1>3, <3>2
            <6>2. a + 1 + b <= e
              BY <3>2, <6>1
            <6>3. a + 1 + b <= e + 1 + c
              BY <6>2
            <6> QED BY <6>1, <6>3
          <5> QED BY <1>6, <4>1, <5>1
        <4>2. CASE m # last + 1
          <5>1. m \in n + 1 .. last /\ m \in Nat
            BY <2>1, <3>5, <4>2
          <5>2. off[n] + 1 + Body(sent[n]) <= off[m] /\ new[m] = off[m]
            BY <1>6, <3>2, <4>2, <5>1, Zenon
          <5> QED BY <5>2
        <4> QED BY <4>1, <4>2
      <3> QED BY <1>2, <3>2, <3>3, <3>4, <3>5
    <2> QED BY <2>2, <2>3
  <1>10. Placed(new)'
    <2>1. Len(received') + 1 = Len(received) + 1
      BY <1>2
    <2> QED BY <1>2, <1>7, <1>8, <1>9, <2>1 DEF Placed
  <1> QED BY <1>5, <1>10 DEF Offsets

\* Places that move by len.
LEMMA Shifted ==
  ASSUME NEW a \in Nat, NEW len \in Nat, NEW w \in Nat, 1 + len <= a, a <= w
  PROVE  a - len \in 1 .. w - len /\ len + (a - len) = a
  OBVIOUS

\* Order survives the removal of what has been read.
LEMMA ShiftedOrder ==
  ASSUME NEW a \in Nat, NEW b \in Nat, NEW c \in Nat, NEW len \in Nat, a + 1 + b <= c
  PROVE  a - len + 1 + b <= c - len
  OBVIOUS

\* A frame is taken from the head of the wire.
Takes(len) ==
  /\ len = Body(sent[Len(received) + 1]) + 1
  /\ Len(received') = Len(received) + 1
  /\ Len(wire') = Len(wire) - len /\ \A n \in 1 .. Len(wire) - len : wire'[n] = wire[len + n]

\* When the reader takes a whole frame from the wire, the rest stays placed, moved to the front.
LEMMA Shifts ==
  ASSUME TypeOK, Len(received) < Len(sent), NEW off \in Offsets, Placed(off),
         NEW len \in Nat, Takes(len), UNCHANGED <<writer, current, sent>>
  PROVE  \E new \in Offsets : Placed(new)'
  <1>1. PICK first \in Nat, w \in Nat : first = Len(received) + 1 /\ w = Len(wire)
    BY Lengths
  <1>2. /\ first \in Len(received) + 1 .. Len(sent)
        /\ len = Body(sent[first]) + 1 /\ Body(sent[first]) \in Nat
        /\ off[first] = 1 /\ off[first + 1] = 1 + len
        /\ \A m \in first + 1 .. Len(sent) + 1 : 1 + len <= off[m]
    <2>1. first \in Len(received) + 1 .. Len(sent)
      BY <1>1, Lengths
    <2>2. off[first] = 1
      BY <1>1 DEF Placed
    <2>3. /\ off[first + 1] = off[first] + 1 + Body(sent[first])
          /\ \A m \in first + 1 .. Len(sent) + 1 : off[first] + 1 + Body(sent[first]) <= off[m]
      BY <2>1 DEF Placed
    <2>4. Body(sent[first]) + 1 = len /\ Body(sent[first]) \in Nat
      BY <1>1, <2>1, Order DEF Takes
    <2>5. off[first] + 1 + Body(sent[first]) = 1 + len
      BY <2>2, <2>4
    <2> QED BY <2>1, <2>2, <2>3, <2>4, <2>5
  <1>3. Len(received') = first
    BY <1>1 DEF Takes
  <1>4. len <= w
    <2>1. off[first] + Body(sent[first]) <= Len(wire)
      <3>1. Len(received) <= Len(sent)
        BY Lengths
      <3> QED BY <1>2, <3>1, Bounds
    <2> QED BY <1>1, <1>2, <2>1
  <1>5. Len(wire') = w - len /\ \A n \in 1 .. w - len : wire'[n] = wire[len + n]
    BY <1>1 DEF Takes
  <1> DEFINE new == [n \in Nat |-> IF n <= first THEN 0 ELSE IF off[n] >= len THEN off[n] - len ELSE 0]
  <1>6. new \in [Nat -> Nat]
    <2>1. \A n \in Nat : off[n] \in Nat
      BY Offset
    <2> QED BY <2>1
  <1>7. \A n \in first + 1 .. Len(sent) + 1 : off[n] \in Nat /\ new[n] = off[n] - len /\ n \in Nat
    <2> SUFFICES ASSUME NEW n \in first + 1 .. Len(sent) + 1
                 PROVE  off[n] \in Nat /\ new[n] = off[n] - len /\ n \in Nat
      OBVIOUS
    <2>1. n \in Nat /\ n > first
      BY Lengths
    <2>2. off[n] \in Nat /\ 1 + len <= off[n]
      BY <1>2, <2>1, Offset
    <2> QED BY <2>1, <2>2
  <1> HIDE DEF new
  <1>8. new[first + 1] = 1
    <2>1. first + 1 \in first + 1 .. Len(sent) + 1
      BY <1>1, Lengths
    <2> QED BY <1>2, <1>7, <2>1
  <1>9. ASSUME NEW n \in first + 1 .. Len(sent)
        PROVE  /\ wire'[new[n]] = HeaderCell(sent[n])
               /\ new[n + 1] = new[n] + 1 + Body(sent[n])
               /\ \A m \in n + 1 .. Len(sent) + 1 : new[n] + 1 + Body(sent[n]) <= new[m]
    <2>1. /\ n \in Len(received) + 1 .. Len(sent) /\ n \in first + 1 .. Len(sent) + 1
          /\ n + 1 \in first + 1 .. Len(sent) + 1
      BY <1>1, <1>9, Lengths
    <2>2. /\ wire[off[n]] = HeaderCell(sent[n]) /\ off[n + 1] = off[n] + 1 + Body(sent[n])
          /\ \A m \in n + 1 .. Len(sent) + 1 : off[n] + 1 + Body(sent[n]) <= off[m]
      BY <2>1 DEF Placed
    <2>3. /\ off[n] \in Nat /\ new[n] = off[n] - len /\ Body(sent[n]) \in Nat
          /\ off[n + 1] \in Nat /\ new[n + 1] = off[n + 1] - len
          /\ 1 + len <= off[n] /\ off[n] <= w
      <3>1. off[n] \in Nat /\ new[n] = off[n] - len /\ 1 + len <= off[n]
        BY <1>2, <1>7, <2>1
      <3>2. off[n + 1] \in Nat /\ new[n + 1] = off[n + 1] - len
        BY <1>7, <2>1
      <3>3. Body(sent[n]) \in Nat
        BY <2>1, Order
      <3>4. off[n] \in 1 .. Len(wire)
        BY <2>1, Bounds, Lengths
      <3>5. off[n] <= w
        BY <1>1, <3>4
      <3> QED BY <3>1, <3>2, <3>3, <3>5
    <2>4. new[n] \in 1 .. w - len /\ len + new[n] = off[n]
      <3>1. PICK a \in Nat : a = off[n]
        BY <2>3
      <3>2. new[n] = a - len /\ 1 + len <= a /\ a <= w
        BY <2>3, <3>1
      <3>3. a - len \in 1 .. w - len /\ len + (a - len) = a
        BY <3>2, Shifted
      <3> QED BY <3>1, <3>2, <3>3
    <2>5. wire'[new[n]] = HeaderCell(sent[n])
      BY <1>5, <2>2, <2>4
    <2>6. ASSUME NEW m \in n + 1 .. Len(sent) + 1 PROVE new[n] + 1 + Body(sent[n]) <= new[m]
      <3>1. m \in first + 1 .. Len(sent) + 1
        BY <2>1, <2>6, Lengths
      <3>2. off[m] \in Nat /\ new[m] = off[m] - len /\ off[n] + 1 + Body(sent[n]) <= off[m]
        BY <1>7, <2>2, <2>6, <3>1
      <3>3. off[n] - len + 1 + Body(sent[n]) <= off[m] - len
        BY <2>3, <3>2, ShiftedOrder, Zenon
      <3> QED BY <2>3, <3>2, <3>3, Zenon
    <2>7. new[n + 1] = new[n] + 1 + Body(sent[n])
      <3>1. PICK a \in Nat, b \in Nat, c \in Nat : a = off[n] /\ b = Body(sent[n]) /\ c = off[n + 1]
        BY <2>3
      <3>2. new[n] = a - len /\ new[n + 1] = c - len
        BY <2>3, <3>1
      <3>3. c = a + 1 + b
        BY <2>2, <3>1
      <3>4. c - len = a - len + 1 + b
        BY <3>3
      <3> QED BY <3>1, <3>2, <3>4
    <2> QED BY <2>5, <2>6, <2>7
  <1>10. Rest(new[Len(sent) + 1])'
    <2>1. PICK e \in Nat : e = off[Len(sent) + 1]
      BY Lengths, Offset
    <2>2. Rest(e) /\ 1 + len <= e /\ new[Len(sent) + 1] = e - len
      <3>1. Len(sent) + 1 \in first + 1 .. Len(sent) + 1
        BY <1>2, Lengths
      <3> QED BY <1>2, <1>7, <2>1, <3>1 DEF Placed
    <2>3. PICK p \in Nat : p = e - len
      BY <2>2
    <2>4. Rest(p)'
      <3>1. CASE e = Len(wire) + 1 /\ current = <<>>
        <4>1. p = Len(wire') + 1
          BY <1>1, <1>4, <1>5, <2>3, <3>1
        <4> QED BY <3>1, <4>1, Zenon DEF Rest
      <3>2. CASE ~(e = Len(wire) + 1 /\ current = <<>>)
        <4>1. PICK f \in Sendable :
                /\ Writable(f)
                /\ e <= Len(wire) /\ wire[e] = HeaderCell(f)
                /\ \/ /\ current = <<f>> /\ f.size > 0 /\ Len(wire) - e < Body(f)
                      /\ writer = "payload" => Len(wire) - e = Prefix[f.kind]
                   \/ current = <<>> /\ writer = "closed" /\ Len(wire) - e < Prefix[f.kind]
          BY <2>2, <3>2 DEF Rest
        <4>2. Len(wire') - p = Len(wire) - e /\ p <= Len(wire') /\ p \in 1 .. w - len /\ len + p = e
          BY <1>1, <1>4, <1>5, <2>2, <2>3, <4>1
        <4>3. wire'[p] = HeaderCell(f)
          BY <1>5, <4>1, <4>2
        <4> QED BY <4>1, <4>2, <4>3, Zenon DEF Rest
      <3> QED BY <3>1, <3>2
    <2> QED BY <2>2, <2>3, <2>4
  <1>11. Placed(new)'
    BY <1>3, <1>8, <1>9, <1>10, Zenon DEF Placed
  <1> QED BY <1>6, <1>11 DEF Offsets

-----------------------------------------------------------------------------
(* What is written, and what becomes of the types.                         *)

\* A header and its payload are one text, header first.
LEMMA FirstWrite ==
  ASSUME TypeOK, NEW f \in Sendable, NEW n \in Nat
  PROVE  \E c \in Seq(Cells) :
           wire \o <<HeaderCell(f)>> \o Bytes(n) = wire \o c /\ Len(c) = n + 1 /\ c[1] = HeaderCell(f)
  <1> DEFINE h == HeaderCell(f)
             c == <<h>> \o Bytes(n)
  <1>1. h \in Cells /\ Bytes(n) \in Seq(Cells) /\ Len(Bytes(n)) = n
    BY HeaderCellType, BytesType DEF Cells
  <1> HIDE DEF h
  <1>2. <<h>> \in Seq(Cells) /\ Len(<<h>>) = 1 /\ <<h>>[1] = h
    BY <1>1
  <1>3. c \in Seq(Cells) /\ Len(c) = Len(<<h>>) + Len(Bytes(n))
        /\ \A i \in 1 .. Len(<<h>>) : c[i] = <<h>>[i]
    BY <1>1, <1>2, Joined
  <1>4. Len(c) = n + 1 /\ c[1] = h
    <2>1. 1 \in 1 .. Len(<<h>>) /\ 1 + n = n + 1
      BY <1>2
    <2> QED BY <1>1, <1>2, <1>3, <2>1
  <1>5. wire \o <<h>> \o Bytes(n) = wire \o c
    BY <1>1, <1>2, SeqTypes, ConcatAssociative
  <1> QED BY <1>3, <1>4, <1>5 DEF h

\* Cells written at the end leave the wire a sequence of cells.
LEMMA CellsJoin == ASSUME TypeOK, NEW c \in Seq(Cells) PROVE wire \o c \in Seq(Cells)
  BY SeqTypes, Joined

\* Between its two writes the writer holds exactly one frame.
LEMMA CurrentType ==
  ASSUME TypeOK, writer = "payload"
  PROVE  \E f \in Sendable : current = <<f>> /\ current[1] = f /\ f.size \in Nat
  <1>1. PICK f \in Sendable : current = <<f>>
    BY DEF TypeOK
  <1>2. current[1] = f /\ f.size \in Nat
    BY <1>1, SendableType
  <1> QED BY <1>1, <1>2

\* Nothing has been written or read: the empty wire has its shape.
LEMMA ShapeInitially == Init => Shape
  BY Constants DEF Init, Shape, TypeOK, Room, AllWritable

\* The first write of a frame keeps the shape.
LEMMA HeaderShape ==
  ASSUME Shape, NEW f \in Sendable, WriteHeader(f)
  PROVE  Shape'
  <1>1. TypeOK /\ Prefix[f.kind] \in Nat
    BY SendableType DEF Shape
  <1>2. wire' \in Seq(Cells)
    BY <1>1, FirstWrite, CellsJoin DEF WriteHeader
  <1>3. UNCHANGED <<reader, received>> /\ Len(sent) < MaxFrames /\ Writable(f) /\ writer = "ready"
        /\ current = <<>>
    BY <1>1 DEF WriteHeader, TypeOK
  <1>4. CASE f.size = 0
    <2>1. sent' = Append(sent, f) /\ UNCHANGED <<writer, current>>
      BY <1>4 DEF WriteHeader
    <2>2. /\ sent' \in Seq(Sendable) /\ Len(sent') = Len(sent) + 1
          /\ \A n \in 1 .. Len(sent) : sent'[n] = sent[n]
          /\ sent'[Len(sent) + 1] = f
      BY <1>1, <2>1, SeqTypes, AppendProperties
    <2>3. Len(sent') <= MaxFrames
      BY <1>1, <1>3, <2>2, Lengths, Constants
    <2>4. TypeOK'
      BY <1>1, <1>2, <1>3, <2>1, <2>2, <2>3 DEF TypeOK, Cells
    <2>5. \A n \in 1 .. Len(sent') : n \in 1 .. Len(sent) \/ n = Len(sent) + 1
      BY <1>1, <2>2, Lengths
    <2>6. AllWritable'
      BY <1>3, <2>1, <2>2, <2>5 DEF Shape, AllWritable
    <2> QED BY <1>3, <2>1, <2>4, <2>6 DEF Shape, Room
  <1>5. CASE f.size # 0
    <2>1. writer' = "payload" /\ current' = <<f>> /\ sent' = sent
      BY <1>5 DEF WriteHeader
    <2>2. current' # <<>> /\ current'[1] = f
      BY <2>1
    <2>3. TypeOK'
      BY <1>1, <1>2, <1>3, <2>1, <2>2 DEF TypeOK, Cells
    <2>4. AllWritable'
      BY <1>3, <2>1, <2>2 DEF Shape, AllWritable
    <2> QED BY <1>3, <2>1, <2>3, <2>4 DEF Shape, Room
  <1> QED BY <1>4, <1>5

\* The second write of a frame keeps the shape.
LEMMA PayloadShape == ASSUME Shape, WritePayload PROVE Shape'
  <1>1. TypeOK /\ writer = "payload" /\ UNCHANGED <<reader, received>> /\ writer' = "ready"
        /\ current' = <<>> /\ sent' = sent \o current /\ wire' = wire \o Bytes(current[1].size)
        /\ Len(sent) < MaxFrames
    BY DEF Shape, WritePayload, Room
  <1>2. PICK f \in Sendable : current = <<f>> /\ current[1] = f /\ f.size \in Nat
    BY <1>1, CurrentType
  <1>3. wire' \in Seq(Cells)
    BY <1>1, <1>2, BytesType, CellsJoin
  <1>4. /\ sent' \in Seq(Sendable) /\ Len(sent') = Len(sent) + 1
        /\ \A n \in 1 .. Len(sent) : sent'[n] = sent[n]
        /\ sent'[Len(sent) + 1] = f
    <2>1. sent' = Append(sent, f)
      BY <1>1, <1>2, SeqTypes, AppendIsConcat
    <2> QED BY <1>1, <2>1, SeqTypes, AppendProperties
  <1>5. Len(sent') <= MaxFrames
    BY <1>1, <1>4, Lengths, Constants
  <1>6. TypeOK'
    BY <1>1, <1>3, <1>4, <1>5 DEF TypeOK, Cells
  <1>7. \A n \in 1 .. Len(sent') : n \in 1 .. Len(sent) \/ n = Len(sent) + 1
    BY <1>1, <1>4, Lengths
  <1>8. AllWritable'
    <2>1. current # <<>> /\ Writable(f)
      BY <1>2 DEF Shape, AllWritable
    <2> QED BY <1>1, <1>4, <1>7, <2>1 DEF Shape, AllWritable
  <1> QED BY <1>1, <1>6, <1>8 DEF Shape, Room

\* A write cut short keeps the shape: the stub ends the wire.
LEMMA CutShape == ASSUME Shape, HeaderCut \/ PayloadCut PROVE Shape'
  <1>1. TypeOK /\ writer' = "closed" /\ UNCHANGED <<current, sent, reader, received>>
    BY DEF Shape, HeaderCut, PayloadCut
  <1>2. wire' \in Seq(Cells)
    <2>1. CASE UNCHANGED wire
      BY <1>1, <2>1, SeqTypes
    <2>2. CASE \E f \in Sendable : \E n \in 0 .. Prefix[f.kind] - 1 :
                 wire' = wire \o <<HeaderCell(f)>> \o Bytes(n)
      <3>1. PICK f \in Sendable :
              \E n \in 0 .. Prefix[f.kind] - 1 : wire' = wire \o <<HeaderCell(f)>> \o Bytes(n)
        BY <2>2
      <3>2. \A n \in 0 .. Prefix[f.kind] - 1 : n \in Nat
        BY SendableType
      <3>3. PICK n \in Nat : wire' = wire \o <<HeaderCell(f)>> \o Bytes(n)
        BY <3>1, <3>2, Zenon
      <3> QED BY <1>1, <3>3, FirstWrite, CellsJoin
    <2>3. CASE PayloadCut
      <3>1. PICK f \in Sendable : current = <<f>> /\ current[1] = f /\ f.size \in Nat
        BY <1>1, <2>3, CurrentType DEF PayloadCut
      <3>2. PICK n \in Nat : wire' = wire \o Bytes(n)
        BY <2>3, <3>1 DEF PayloadCut
      <3> QED BY <1>1, <3>2, BytesType, CellsJoin
    <2> QED BY <2>1, <2>2, <2>3 DEF HeaderCut
  <1>3. TypeOK'
    BY <1>1, <1>2 DEF TypeOK, Cells
  <1> QED BY <1>1, <1>3 DEF Shape, AllWritable, Room

\* What readFrame makes of a cell that it accepts.
LEMMA FrameReadType ==
  ASSUME NEW h \in Cells, Accepted(h)
  PROVE  h.length \in Nat /\ FrameRead(h) \in Received
  <1>1. h \in HeaderCells
    BY DEF Cells, Accepted, Byte
  <1>2. h.type \in FrameTypes /\ h.length \in Nat /\ h.id \in IDs /\ h.assoc \in IDs /\ h.finish \in BOOLEAN
    BY <1>1, Constants DEF HeaderCells
  <1>3. PayloadSize(h) \in Nat
    <2>1. LengthAccepted(h)
      BY DEF Accepted
    <2>2. h.length >= Prefix[h.type]
      BY <1>2, <2>1 DEF LengthAccepted, Prefix, FrameTypes
    <2> QED BY <1>2, <2>2, PrefixType DEF PayloadSize
  <1> QED BY <1>2, <1>3 DEF FrameRead, Received

\* The wire's first element is a cell.
LEMMA HeadCell == ASSUME TypeOK, wire # <<>> PROVE Head(wire) = wire[1] /\ wire[1] \in Cells /\ Len(wire) >= 1
  BY SeqTypes

\* Reading a frame keeps the shape.
LEMMA ReadShape == ASSUME Shape, ReadFrame PROVE Shape'
  <1>1. TypeOK /\ UNCHANGED <<writer, current, sent, reader>> /\ wire # <<>>
    BY DEF Shape, ReadFrame
  <1> DEFINE h == Head(wire)
  <1>2. /\ h \in Cells /\ Accepted(h) /\ Complete(h)
        /\ wire' = SubSeq(wire, h.length + 2, Len(wire)) /\ received' = Append(received, FrameRead(h))
    BY <1>1, HeadCell DEF ReadFrame
  <1> HIDE DEF h
  <1>3. h.length \in Nat /\ FrameRead(h) \in Received
    BY <1>2, FrameReadType
  <1>4. received' \in Seq(Received)
    BY <1>1, <1>2, <1>3, SeqTypes, AppendProperties
  <1>5. wire' \in Seq(Cells)
    <2>1. h.length + 1 \in Nat /\ h.length + 1 <= Len(wire) /\ (h.length + 1) + 1 = h.length + 2
      BY <1>1, <1>2, <1>3, Lengths DEF Complete
    <2> QED BY <1>1, <1>2, <2>1, SeqTypes, Dropped
  <1>6. TypeOK'
    BY <1>1, <1>4, <1>5 DEF TypeOK, Cells, Received
  <1> QED BY <1>1, <1>6 DEF Shape, AllWritable, Room

\* The stops of the reader change neither the wire nor what it holds.
LEMMA StopShape == ASSUME Shape, ReadRefused \/ ReadAstray \/ ReadEnd \/ UNCHANGED vars PROVE Shape'
  <1>1. TypeOK /\ UNCHANGED <<wire, writer, current, sent, received>>
        /\ (reader' \in {"ended", "astray"} \/ reader' = reader)
    BY DEF Shape, ReadRefused, ReadAstray, ReadEnd, vars
  <1>2. TypeOK'
    BY <1>1 DEF TypeOK
  <1> QED BY <1>1, <1>2 DEF Shape, AllWritable, Room

\* A frame the writer refuses leaves the wire alone.
LEMMA RefusedShape == ASSUME Shape, NEW f \in Sendable, WriteRefused(f) PROVE Shape'
  <1>1. TypeOK /\ UNCHANGED <<wire, current, sent, reader, received>> /\ writer' = "closed"
    BY DEF Shape, WriteRefused
  <1>2. TypeOK'
    BY <1>1 DEF TypeOK
  <1> QED BY <1>1, <1>2 DEF Shape, AllWritable, Room

\* Every step keeps the shape.
LEMMA ShapePreserved == Shape /\ [Next]_vars => Shape'
  BY HeaderShape, RefusedShape, PayloadShape, CutShape, ReadShape, StopShape
     DEF Next, WriteStep, ReadStep

\* The types hold for every value of the constants: a frame that readFrame
\* returns has no negative size, whatever the length field said.
THEOREM TypeCorrect == Spec => []TypeOK
  <1>1. Spec => []Shape
    BY ShapeInitially, ShapePreserved, PTL DEF Spec
  <1>2. Shape => TypeOK
    BY DEF Shape
  <1> QED BY <1>1, <1>2, PTL

-----------------------------------------------------------------------------
(* What the reader finds at the head of the wire.                          *)

\* Where there is nothing left to be read, or a part of a frame.
LEMMA AtRest ==
  ASSUME TypeOK, Len(received) = Len(sent), NEW off \in Offsets, Placed(off)
  PROVE  Rest(1)
  BY DEF Placed

\* While every frame fits its length field, the next frame to read stands whole at the front.
LEMMA NextFrame ==
  ASSUME Shape, Fitting, Len(received) < Len(sent), NEW off \in Offsets, Placed(off)
  PROVE  LET f == sent[Len(received) + 1] IN
         /\ f \in Sendable /\ Writable(f) /\ Fits(f) /\ Body(f) \in Nat
         /\ wire # <<>> /\ wire[1] = HeaderCell(f) /\ Body(f) + 1 <= Len(wire)
  <1> DEFINE n == Len(received) + 1
  <1>1. TypeOK /\ n \in Len(received) + 1 .. Len(sent) /\ n \in 1 .. Len(sent)
    BY Lengths DEF Shape
  <1>2. off[n] = 1 /\ wire[off[n]] = HeaderCell(sent[n])
    BY <1>1 DEF Placed
  <1>3. off[n] + Body(sent[n]) <= Len(wire) /\ Body(sent[n]) \in Nat
    BY <1>1, Bounds, Order
  <1>4. 1 + Body(sent[n]) <= Len(wire)
    BY <1>2, <1>3
  <1>5. sent[n] \in Sendable /\ Writable(sent[n]) /\ Fits(sent[n])
    BY <1>1, Sent DEF Fitting, Shape, AllWritable
  <1> HIDE DEF n
  <1>6. Len(wire) \in Nat /\ Body(sent[n]) + 1 <= Len(wire)
    BY <1>1, <1>3, <1>4, Lengths
  <1>7. wire # <<>>
    BY <1>1, <1>3, <1>6, SeqTypes
  <1> QED BY <1>2, <1>3, <1>5, <1>6, <1>7 DEF n

\* Of a part of a frame the reader waits for the rest, or refuses it when
\* there will be no rest.
LEMMA PartOfFrame ==
  ASSUME Shape, Fitting, Rest(1), wire # <<>>
  PROVE  /\ wire[1].type # "byte"
         /\ Accepted(wire[1]) => ~Complete(wire[1])
         /\ ~Accepted(wire[1]) => writer = "closed"
  <1>1. TypeOK /\ Len(wire) \in Nat /\ Len(wire) >= 1
    BY Lengths, HeadCell DEF Shape
  <1>2. PICK f \in Sendable :
          /\ Writable(f)
          /\ wire[1] = HeaderCell(f)
          /\ \/ current = <<f>> /\ f.size > 0 /\ Len(wire) - 1 < Body(f)
             \/ current = <<>> /\ writer = "closed" /\ Len(wire) - 1 < Prefix[f.kind]
    BY <1>1 DEF Rest
  <1>3. wire[1].type # "byte"
    BY <1>2, HeaderCellType DEF HeaderCells, FrameTypes
  <1>4. CASE current = <<f>> /\ f.size > 0 /\ Len(wire) - 1 < Body(f)
    <2>1. f.kind # "Ping"
      BY <1>4, SendableType
    <2>2. Fits(f)
      <3>1. current # <<>> /\ current[1] = f
        BY <1>4
      <3> QED BY <3>1 DEF Fitting
    <2>3. Accepted(wire[1]) /\ wire[1].length = Body(f) /\ Body(f) \in Nat
      BY <1>2, <2>1, <2>2, Reads, SendableType
    <2>4. ~(Len(wire) > Body(f))
      BY <1>1, <1>4, <2>3
    <2> QED BY <1>3, <2>3, <2>4 DEF Complete
  <1>5. CASE current = <<>> /\ writer = "closed" /\ Len(wire) - 1 < Prefix[f.kind]
    <2>1. ASSUME Accepted(wire[1]) PROVE ~Complete(wire[1])
      <3>1. PICK n \in Nat : n = Len(wire) - 1
        BY <1>1
      <3>2. n < HeaderCell(f).length
        BY <1>2, <1>5, <2>1, <3>1, CutShort
      <3>3. wire[1].length \in Nat
        BY <1>2, HeaderCellType, Constants DEF HeaderCells
      <3> QED BY <1>1, <1>2, <3>1, <3>2, <3>3 DEF Complete
    <2> QED BY <1>3, <1>5, <2>1
  <1> QED BY <1>2, <1>4, <1>5

-----------------------------------------------------------------------------
(* The steps of the writer.                                                *)

\* The frames have been written to the end so far, and nothing behind them.
LEMMA AtEnd ==
  ASSUME Shape, writer = "ready", NEW off \in Offsets, Placed(off)
  PROVE  off[Len(sent) + 1] = Len(wire) + 1
  <1>1. current = <<>>
    BY DEF Shape, TypeOK
  <1>2. Rest(off[Len(sent) + 1])
    BY DEF Placed
  <1>3. \A f \in Sendable : current # <<f>>
    BY <1>1
  <1> QED BY <1>2, <1>3, Zenon DEF Rest

\* A frame that did not fit is not forgotten: what fits after a step fitted before it.
LEMMA FittingBack ==
  ASSUME Shape, [Next]_vars, Fitting'
  PROVE  Fitting
  <1>1. TypeOK
    BY DEF Shape
  <1>2. CASE sent' = sent /\ (current' = current \/ current = <<>>)
    BY <1>2 DEF Fitting
  <1>3. CASE \E f \in Sendable : WriteHeader(f) /\ f.size = 0
    <2>1. PICK f \in Sendable : sent' = Append(sent, f) /\ current' = current
      BY <1>3 DEF WriteHeader
    <2>2. Len(sent') = Len(sent) + 1 /\ \A n \in 1 .. Len(sent) : sent'[n] = sent[n]
      BY <1>1, <2>1, SeqTypes, AppendProperties
    <2>3. \A n \in 1 .. Len(sent) : n \in 1 .. Len(sent')
      BY <1>1, <2>2, Lengths
    <2> QED BY <2>1, <2>2, <2>3 DEF Fitting
  <1>4. CASE WritePayload
    <2>1. PICK f \in Sendable : current = <<f>> /\ current[1] = f
      BY <1>1, <1>4, CurrentType DEF WritePayload
    <2>2. sent' = Append(sent, f)
      BY <1>1, <1>4, <2>1, SeqTypes, AppendIsConcat DEF WritePayload
    <2>3. /\ Len(sent') = Len(sent) + 1 /\ \A n \in 1 .. Len(sent) : sent'[n] = sent[n]
          /\ sent'[Len(sent) + 1] = f
      BY <1>1, <2>2, SeqTypes, AppendProperties
    <2>4. (\A n \in 1 .. Len(sent) : n \in 1 .. Len(sent')) /\ Len(sent) + 1 \in 1 .. Len(sent')
      BY <1>1, <2>3, Lengths
    <2> QED BY <2>1, <2>3, <2>4 DEF Fitting
  <1>5. \/ sent' = sent /\ (current' = current \/ current = <<>>)
        \/ \E f \in Sendable : WriteHeader(f) /\ f.size = 0
        \/ WritePayload
    BY DEF Next, WriteStep, ReadStep, WriteHeader, WriteRefused, HeaderCut, PayloadCut, ReadFrame,
           ReadRefused, ReadAstray, ReadEnd, vars, Shape, TypeOK
  <1> QED BY <1>2, <1>3, <1>4, <1>5

\* What a step of the writer leaves as it was.
LEMMA WriterKeeps ==
  ASSUME Shape, Whole, writer # "closed", UNCHANGED <<reader, received>>,
         Len(sent') \in Nat, Len(sent') >= Len(sent), \A n \in 1 .. Len(sent) : sent'[n] = sent[n],
         \A off \in Offsets : Placed(off) => \E new \in Offsets : Placed(new)'
  PROVE  Whole'
  <1>1. Len(received) \in Nat /\ Len(sent) \in Nat /\ Len(received) <= Len(sent)
    BY Lengths DEF Shape, Whole
  <1>2. Len(received') <= Len(sent')
    BY <1>1
  <1>3. \A n \in 1 .. Len(received') : received'[n] = Arrival(sent'[n])
    <2>1. \A n \in 1 .. Len(received) : n \in 1 .. Len(sent)
      BY <1>1
    <2> QED BY <2>1 DEF Whole
  <1>4. reader' = "reading" => \E off \in Offsets : Placed(off)'
    BY DEF Whole
  <1>5. reader' = "ended" => Cause'
    <2>1. ASSUME reader = "ended"
          PROVE  Len(received) < Len(sent) /\ sent[Len(received) + 1].kind = "Ping"
      BY <2>1 DEF Whole, Cause
    <2>2. Len(received) < Len(sent) => Len(received) < Len(sent') /\ Len(received) + 1 \in 1 .. Len(sent)
      BY <1>1
    <2> QED BY <2>1, <2>2 DEF Cause
  <1> QED BY <1>2, <1>3, <1>4, <1>5 DEF Whole

\* The first write keeps the frames whole.
LEMMA HeaderWhole ==
  ASSUME Shape, Whole, NEW f \in Sendable, WriteHeader(f)
  PROVE  Whole'
  <1>1. /\ TypeOK /\ writer = "ready" /\ UNCHANGED <<reader, received>> /\ Writable(f)
        /\ Len(received) <= Len(sent) /\ current = <<>>
    BY DEF Shape, WriteHeader, Whole, TypeOK
  <1>2. PICK c \in Seq(Cells) : wire' = wire \o c /\ Len(c) = Prefix[f.kind] + 1 /\ c[1] = HeaderCell(f)
    BY <1>1, FirstWrite, SendableType DEF WriteHeader
  <1>3. Prefix[f.kind] \in Nat /\ f.size \in Nat /\ Body(f) = Prefix[f.kind] + f.size
    BY SendableType DEF Body
  <1>4. wire'[Len(wire) + 1] = HeaderCell(f) /\ Len(wire') = Len(wire) + 1 + Prefix[f.kind]
    <2>1. 1 \in 1 .. Len(c)
      BY <1>2, <1>3
    <2>2. Len(wire') = Len(wire) + Len(c) /\ wire'[Len(wire) + 1] = c[1]
      BY <1>1, <1>2, <2>1, SeqTypes, Joined
    <2>3. PICK w \in Nat, k \in Nat : w = Len(wire) /\ k = Prefix[f.kind]
      BY <1>1, <1>3, Lengths
    <2>4. w + (k + 1) = w + 1 + k
      OBVIOUS
    <2> QED BY <1>2, <2>2, <2>3, <2>4
  <1>5. CASE f.size = 0
    <2>1. sent' = Append(sent, f) /\ current' = <<>>
      BY <1>1, <1>5 DEF WriteHeader
    <2>2. Len(sent') = Len(sent) + 1 /\ \A n \in 1 .. Len(sent) : sent'[n] = sent[n]
      BY <1>1, <2>1, SeqTypes, AppendProperties
    <2>3. ASSUME NEW off \in Offsets, Placed(off)
          PROVE  \E new \in Offsets : Placed(new)'
      <3>1. off[Len(sent) + 1] = Len(wire) + 1
        BY <1>1, <2>3, AtEnd
      <3>2. Len(wire') = off[Len(sent) + 1] + Body(f)
        BY <1>1, <1>3, <1>4, <1>5, <3>1, Lengths
      <3>3. Ends(f, off[Len(sent) + 1], c)
        BY <1>1, <1>2, <1>4, <2>1, <3>1, <3>2 DEF Ends
      <3> QED BY <1>1, <2>3, <3>3, Completes
    <2>4. Len(sent') \in Nat /\ Len(sent') >= Len(sent)
      BY <1>1, <2>2, Lengths
    <2> QED BY <1>1, <2>2, <2>3, <2>4, WriterKeeps
  <1>6. CASE f.size # 0
    <2>1. sent' = sent /\ current' = <<f>> /\ writer' = "payload"
      BY <1>1, <1>6 DEF WriteHeader
    <2>2. ASSUME NEW off \in Offsets, Placed(off)
          PROVE  Placed(off)'
      <3>1. PICK e \in Nat : e = Len(wire) + 1
        BY <1>1, Lengths
      <3>2. off[Len(sent) + 1] = e
        BY <1>1, <2>2, <3>1, AtEnd
      <3>3. e <= Len(wire') /\ wire'[e] = HeaderCell(f) /\ Len(wire') - e = Prefix[f.kind]
            /\ Len(wire') - e < Body(f) /\ f.size > 0
        <4>1. PICK w \in Nat, k \in Nat, z \in Nat : w = Len(wire) /\ k = Prefix[f.kind] /\ z = f.size
          BY <1>1, <1>3, Lengths
        <4>2. Len(wire') = w + 1 + k /\ e = w + 1 /\ Body(f) = k + z /\ z # 0
          BY <1>3, <1>4, <1>6, <3>1, <4>1
        <4>3. e <= w + 1 + k /\ w + 1 + k - e = k /\ k < k + z /\ z > 0
          BY <4>2
        <4> QED BY <1>4, <3>1, <4>1, <4>2, <4>3
      <3>4. Rest(e)'
        BY <1>1, <2>1, <3>3, Zenon DEF Rest
      <3> QED BY <1>1, <1>2, <2>1, <2>2, <3>2, <3>4, Grows
    <2>3. Len(sent') \in Nat /\ Len(sent') >= Len(sent)
      BY <1>1, <2>1, Lengths
    <2> QED BY <1>1, <2>1, <2>2, <2>3, WriterKeeps
  <1> QED BY <1>5, <1>6

\* The frame under way, of which the header and the prefix are written.
LEMMA UnderWay ==
  ASSUME Shape, writer = "payload", Len(received) <= Len(sent), NEW off \in Offsets, Placed(off)
  PROVE  \E f \in Sendable, e \in Nat :
           /\ e = off[Len(sent) + 1]
           /\ current = <<f>> /\ current[1] = f /\ Writable(f) /\ f.size > 0
           /\ e <= Len(wire) /\ e >= 1 /\ wire[e] = HeaderCell(f) /\ Len(wire) - e = Prefix[f.kind]
  <1>1. TypeOK
    BY DEF Shape
  <1>2. PICK g \in Sendable : current = <<g>> /\ current[1] = g /\ g.size \in Nat
    BY <1>1, CurrentType
  <1>3. PICK e \in Nat : e = off[Len(sent) + 1]
    BY <1>1, Lengths, Offset
  <1>4. Rest(e)
    BY <1>3 DEF Placed
  <1>5. PICK f \in Sendable :
          /\ Writable(f) /\ e <= Len(wire) /\ wire[e] = HeaderCell(f)
          /\ current = <<f>> /\ f.size > 0 /\ Len(wire) - e = Prefix[f.kind]
    BY <1>2, <1>4 DEF Rest
  <1>6. current[1] = f
    BY <1>5
  <1>7. e >= 1
    BY <1>1, <1>3, Bounds
  <1> QED BY <1>3, <1>5, <1>6, <1>7

\* The second write keeps the frames whole.
LEMMA PayloadWhole == ASSUME Shape, Whole, WritePayload PROVE Whole'
  <1>1. /\ TypeOK /\ writer = "payload" /\ UNCHANGED <<reader, received>> /\ current' = <<>>
        /\ wire' = wire \o Bytes(current[1].size) /\ sent' = sent \o current
        /\ Len(received) <= Len(sent)
    BY DEF Shape, WritePayload, Whole
  <1>2. PICK f \in Sendable : current = <<f>> /\ current[1] = f /\ f.size \in Nat
    BY <1>1, CurrentType
  <1>3. sent' = Append(sent, f)
    BY <1>1, <1>2, SeqTypes, AppendIsConcat
  <1>4. Len(sent') = Len(sent) + 1 /\ \A n \in 1 .. Len(sent) : sent'[n] = sent[n]
    BY <1>1, <1>3, SeqTypes, AppendProperties
  <1>5. /\ Bytes(f.size) \in Seq(Cells) /\ wire' = wire \o Bytes(f.size)
        /\ Len(wire') = Len(wire) + f.size
        /\ \A n \in 1 .. Len(wire) : wire'[n] = wire[n]
    <2>1. PICK b \in Seq(Cells) : b = Bytes(f.size) /\ Len(b) = f.size
      BY <1>2, BytesType
    <2>2. wire' = wire \o b
      BY <1>1, <1>2, <2>1
    <2>3. Len(wire') = Len(wire) + Len(b) /\ \A n \in 1 .. Len(wire) : wire'[n] = wire[n]
      BY <1>1, <2>2, SeqTypes, Joined
    <2> QED BY <2>1, <2>2, <2>3
  <1>6. ASSUME NEW off \in Offsets, Placed(off)
        PROVE  \E new \in Offsets : Placed(new)'
    <2>1. PICK e \in Nat :
            /\ e = off[Len(sent) + 1] /\ e <= Len(wire) /\ e >= 1
            /\ wire[e] = HeaderCell(f) /\ Len(wire) - e = Prefix[f.kind]
      BY <1>1, <1>2, <1>6, UnderWay
    <2>2. e \in 1 .. Len(wire)
      BY <1>1, <2>1, Lengths
    <2>3. wire'[e] = HeaderCell(f)
      BY <1>5, <2>1, <2>2
    <2>4. Len(wire') = e + Body(f)
      BY <1>1, <1>2, <1>5, <2>1, Lengths, SendableType DEF Body
    <2>5. Ends(f, off[Len(sent) + 1], Bytes(f.size))
      BY <1>1, <1>3, <1>5, <2>1, <2>3, <2>4 DEF Ends
    <2> QED BY <1>1, <1>5, <1>6, <2>5, Completes
  <1>7. Len(sent') \in Nat /\ Len(sent') >= Len(sent)
    BY <1>1, <1>4, Lengths
  <1> QED BY <1>1, <1>4, <1>6, <1>7, WriterKeeps

\* A cut header keeps the frames before it whole.
LEMMA HeaderCutWhole == ASSUME Shape, Whole, HeaderCut PROVE Whole'
  <1>1. /\ TypeOK /\ writer = "ready" /\ UNCHANGED <<reader, received, sent, current>>
        /\ writer' = "closed" /\ Len(received) <= Len(sent) /\ current = <<>>
    BY DEF Shape, HeaderCut, Whole, TypeOK
  <1>2. ASSUME NEW off \in Offsets, Placed(off)
        PROVE  Placed(off)'
    <2>1. PICK e \in Nat : e = Len(wire) + 1 /\ e = off[Len(sent) + 1]
      BY <1>1, <1>2, AtEnd, Lengths
    <2>2. CASE wire' = wire
      BY <1>1, <1>2, <2>2 DEF Placed, Rest
    <2>3. CASE wire' # wire
      <3>1. PICK f \in Sendable : \E n \in 0 .. Prefix[f.kind] - 1 :
                   Writable(f) /\ wire' = wire \o <<HeaderCell(f)>> \o Bytes(n)
        BY <2>3 DEF HeaderCut
      <3>2. \A n \in 0 .. Prefix[f.kind] - 1 : n \in Nat /\ n < Prefix[f.kind]
        BY SendableType
      <3>3. PICK n \in Nat : n < Prefix[f.kind] /\ Writable(f) /\ wire' = wire \o <<HeaderCell(f)>> \o Bytes(n)
        BY <3>1, <3>2, Zenon
      <3>4. PICK c \in Seq(Cells) : wire' = wire \o c /\ Len(c) = n + 1 /\ c[1] = HeaderCell(f)
        BY <1>1, <3>3, FirstWrite
      <3>5. 1 \in 1 .. Len(c)
        BY <3>4
      <3>6. Len(wire') = Len(wire) + Len(c) /\ wire'[Len(wire) + 1] = c[1]
        BY <1>1, <3>4, <3>5, SeqTypes, Joined
      <3>7. e <= Len(wire') /\ wire'[e] = HeaderCell(f) /\ Len(wire') - e = n
        BY <1>1, <2>1, <3>4, <3>6, Lengths
      <3>8. Len(wire') - e < Prefix[f.kind]
        BY <3>3, <3>7
      <3>9. Rest(e)'
        BY <1>1, <3>3, <3>7, <3>8, Zenon DEF Rest
      <3> QED BY <1>1, <1>2, <2>1, <3>4, <3>9, Grows
    <2> QED BY <2>2, <2>3
  <1>3. Len(sent') \in Nat /\ Len(sent') >= Len(sent)
    BY <1>1, Lengths
  <1> QED BY <1>1, <1>2, <1>3, WriterKeeps

\* A cut payload keeps the frames before it whole.
LEMMA PayloadCutWhole == ASSUME Shape, Whole, PayloadCut PROVE Whole'
  <1>1. /\ TypeOK /\ writer = "payload" /\ UNCHANGED <<reader, received, sent, current>>
        /\ writer' = "closed" /\ Len(received) <= Len(sent)
    BY DEF Shape, PayloadCut, Whole
  <1>2. PICK f \in Sendable : current = <<f>> /\ current[1] = f /\ f.size \in Nat
    BY <1>1, CurrentType
  <1>3. PICK n \in Nat : n < f.size /\ wire' = wire \o Bytes(n)
    <2>1. PICK m \in 0 .. f.size - 1 : wire' = wire \o Bytes(m)
      BY <1>2, Zenon DEF PayloadCut
    <2>2. m \in Nat /\ m < f.size
      BY <1>2
    <2> QED BY <2>1, <2>2
  <1>4. /\ Bytes(n) \in Seq(Cells) /\ Len(wire') = Len(wire) + n
        /\ \A i \in 1 .. Len(wire) : wire'[i] = wire[i]
    <2>1. Bytes(n) \in Seq(Cells) /\ Len(Bytes(n)) = n
      BY BytesType
    <2> QED BY <1>1, <1>3, <2>1, SeqTypes, Joined
  <1>5. ASSUME NEW off \in Offsets, Placed(off)
        PROVE  Placed(off)'
    <2>1. PICK e \in Nat :
            /\ e = off[Len(sent) + 1] /\ e <= Len(wire) /\ e >= 1 /\ Writable(f) /\ f.size > 0
            /\ wire[e] = HeaderCell(f) /\ Len(wire) - e = Prefix[f.kind]
      BY <1>1, <1>2, <1>5, UnderWay
    <2>2. e \in 1 .. Len(wire)
      BY <1>1, <2>1, Lengths
    <2>3. wire'[e] = HeaderCell(f)
      BY <1>4, <2>1, <2>2
    <2>4. e <= Len(wire') /\ Len(wire') - e < Body(f)
      <3>1. PICK w \in Nat, p \in Nat : w = Len(wire) /\ p = Prefix[f.kind]
        BY <1>1, Lengths, SendableType
      <3>2. Len(wire') = w + n /\ e <= w /\ w - e = p /\ Body(f) = p + f.size
        BY <1>4, <2>1, <3>1 DEF Body
      <3>3. w + n - e < p + f.size /\ e <= w + n
        BY <1>2, <1>3, <3>2
      <3> QED BY <3>2, <3>3
    <2>5. Rest(e)'
      <3>1. current' = <<f>> /\ (writer' = "payload" => Len(wire') - e = Prefix[f.kind])
        BY <1>1, <1>2
      <3> QED BY <2>1, <2>3, <2>4, <3>1, Zenon DEF Rest
    <2> QED BY <1>1, <1>3, <1>4, <1>5, <2>1, <2>5, Grows
  <1>6. Len(sent') \in Nat /\ Len(sent') >= Len(sent)
    BY <1>1, Lengths
  <1> QED BY <1>1, <1>5, <1>6, WriterKeeps

\* A refused frame keeps the frames whole.
LEMMA RefusedWhole == ASSUME Shape, Whole, NEW f \in Sendable, WriteRefused(f) PROVE Whole'
  <1>1. /\ TypeOK /\ writer = "ready" /\ UNCHANGED <<wire, reader, received, sent, current>>
        /\ current = <<>>
    BY DEF Shape, WriteRefused, TypeOK
  <1>2. ASSUME NEW off \in Offsets, Placed(off)
        PROVE  Placed(off)'
    <2>1. off[Len(sent) + 1] = Len(wire) + 1
      BY <1>1, <1>2, AtEnd
    <2>2. Rest(off[Len(sent) + 1])'
      BY <1>1, <2>1, Zenon DEF Rest
    <2> QED BY <1>1, <1>2, <2>2 DEF Placed
  <1>3. Len(sent') \in Nat /\ Len(sent') >= Len(sent)
    BY <1>1, Lengths
  <1> QED BY <1>1, <1>2, <1>3, WriterKeeps

-----------------------------------------------------------------------------
(* The steps of the reader.                                                *)

\* A frame read is the next one sent.
LEMMA ReadWhole == ASSUME Shape, Whole, Fitting, ReadFrame PROVE Whole'
  <1>1. /\ TypeOK /\ reader = "reading" /\ wire # <<>> /\ UNCHANGED <<writer, current, sent, reader>>
        /\ Len(received) <= Len(sent)
    BY DEF Shape, Whole, ReadFrame
  <1>2. PICK off \in Offsets : Placed(off)
    BY <1>1 DEF Whole
  <1>3. /\ Head(wire) = wire[1] /\ Accepted(wire[1]) /\ Complete(wire[1])
        /\ wire' = SubSeq(wire, wire[1].length + 2, Len(wire))
        /\ received' = Append(received, FrameRead(wire[1]))
    BY <1>1, HeadCell DEF ReadFrame
  <1>4. Len(received) < Len(sent)
    <2>1. CASE Len(received) = Len(sent)
      BY <1>1, <1>2, <1>3, <2>1, AtRest, PartOfFrame
    <2> QED BY <1>1, <2>1, Lengths
  <1>5. PICK f \in Sendable :
          /\ f = sent[Len(received) + 1] /\ Writable(f) /\ Fits(f) /\ Body(f) \in Nat
          /\ wire[1] = HeaderCell(f) /\ Body(f) + 1 <= Len(wire)
    BY <1>2, <1>4, NextFrame
  <1>6. wire[1].length = Body(f) /\ FrameRead(wire[1]) = Arrival(f)
    BY <1>3, <1>5, Reads
  <1>7. /\ Len(received') = Len(received) + 1 /\ received'[Len(received) + 1] = Arrival(f)
        /\ \A n \in 1 .. Len(received) : received'[n] = received[n]
    <2>1. wire[1] \in Cells
      BY <1>5, HeaderCellType DEF Cells
    <2>2. FrameRead(wire[1]) \in Received
      BY <1>3, <2>1, FrameReadType
    <2> QED BY <1>1, <1>3, <1>6, <2>2, SeqTypes, AppendProperties
  <1>8. PICK len \in Nat : len = Body(f) + 1
    BY <1>5
  <1>9. Len(wire') = Len(wire) - len /\ \A n \in 1 .. Len(wire) - len : wire'[n] = wire[len + n]
    <2>1. len <= Len(wire) /\ wire[1].length + 2 = len + 1
      BY <1>5, <1>6, <1>8
    <2>2. wire' = SubSeq(wire, len + 1, Len(wire))
      BY <1>3, <2>1
    <2> QED BY <1>1, <2>1, <2>2, SeqTypes, Dropped
  <1>10. Takes(len)
    BY <1>5, <1>7, <1>8, <1>9 DEF Takes
  <1>11. \E new \in Offsets : Placed(new)'
    BY <1>1, <1>2, <1>4, <1>10, Shifts
  <1>12. \A n \in 1 .. Len(received') : received'[n] = Arrival(sent'[n])
    <2>1. \A n \in 1 .. Len(received') : n \in 1 .. Len(received) \/ n = Len(received) + 1
      BY <1>1, <1>7, Lengths
    <2> QED BY <1>1, <1>5, <1>7, <2>1 DEF Whole
  <1>13. Len(received') <= Len(sent')
    BY <1>1, <1>4, <1>7, Lengths
  <1> QED BY <1>1, <1>11, <1>12, <1>13 DEF Whole

\* The reader refuses only a frame cut short at the end of the wire, or a Ping.
LEMMA RefusalWhole == ASSUME Shape, Whole, Fitting, ReadRefused PROVE Whole'
  <1>1. /\ TypeOK /\ reader = "reading" /\ wire # <<>> /\ UNCHANGED <<wire, writer, current, sent, received>>
        /\ reader' = "ended" /\ Len(received) <= Len(sent)
    BY DEF Shape, Whole, ReadRefused
  <1>2. PICK off \in Offsets : Placed(off)
    BY <1>1 DEF Whole
  <1>3. ~Accepted(wire[1])
    BY <1>1, HeadCell DEF ReadRefused
  <1>4. Cause
    <2>1. CASE Len(received) = Len(sent)
      BY <1>1, <1>2, <1>3, <2>1, AtRest, PartOfFrame DEF Cause
    <2>2. CASE Len(received) < Len(sent)
      <3>1. PICK f \in Sendable :
              f = sent[Len(received) + 1] /\ Writable(f) /\ Fits(f) /\ wire[1] = HeaderCell(f)
        BY <1>2, <2>2, NextFrame
      <3>2. f.kind = "Ping"
        BY <1>3, <3>1, Reads
      <3> QED BY <2>2, <3>1, <3>2 DEF Cause
    <2> QED BY <1>1, <2>1, <2>2, Lengths
  <1> QED BY <1>1, <1>4 DEF Whole, Cause

\* With every frame fitting, the reader never meets payload where it expects a header.
LEMMA NotAstray == ASSUME Shape, Whole, Fitting, ReadAstray PROVE FALSE
  <1>1. TypeOK /\ reader = "reading" /\ wire # <<>> /\ wire[1].type = "byte" /\ Len(received) <= Len(sent)
    BY HeadCell DEF Shape, Whole, ReadAstray
  <1>2. PICK off \in Offsets : Placed(off)
    BY <1>1 DEF Whole
  <1>3. CASE Len(received) = Len(sent)
    BY <1>1, <1>2, <1>3, AtRest, PartOfFrame
  <1>4. CASE Len(received) < Len(sent)
    <2>1. PICK f \in Sendable : Writable(f) /\ Fits(f) /\ wire[1] = HeaderCell(f)
      BY <1>2, <1>4, NextFrame
    <2> QED BY <1>1, <2>1, Reads
  <1> QED BY <1>1, <1>3, <1>4, Lengths

\* The reader meets the end of the wire only when every frame sent has been received.
LEMMA EndWhole == ASSUME Shape, Whole, Fitting, ReadEnd PROVE Whole'
  <1>1. /\ TypeOK /\ reader = "reading" /\ writer = "closed" /\ reader' = "ended"
        /\ UNCHANGED <<wire, writer, current, sent, received>> /\ Len(received) <= Len(sent)
    BY DEF Shape, Whole, ReadEnd
  <1>2. PICK off \in Offsets : Placed(off)
    BY <1>1 DEF Whole
  <1>3. ~(Len(received) < Len(sent))
    <2> SUFFICES ASSUME Len(received) < Len(sent) PROVE FALSE
      OBVIOUS
    <2>1. PICK f \in Sendable :
            /\ Writable(f) /\ Fits(f) /\ Body(f) \in Nat
            /\ wire # <<>> /\ wire[1] = HeaderCell(f) /\ Body(f) + 1 <= Len(wire)
      BY <1>2, NextFrame
    <2>2. Accepted(wire[1]) /\ ~Complete(wire[1])
      BY <1>1, <2>1, HeadCell DEF ReadEnd
    <2>3. wire[1].length = Body(f)
      BY <2>1, <2>2, Reads
    <2>4. Len(wire) > Body(f)
      BY <1>1, <2>1, Lengths
    <2> QED BY <2>2, <2>3, <2>4 DEF Complete
  <1>4. Len(received) = Len(sent)
    BY <1>1, <1>3, Lengths
  <1> QED BY <1>1, <1>4 DEF Whole, Cause

-----------------------------------------------------------------------------
(* The theorems.                                                           *)

\* The invariant holds at the start,
LEMMA FrameInvInitially == Init => FrameInv
  <1> SUFFICES ASSUME Init PROVE FrameInv
    OBVIOUS
  <1>1. Shape /\ Len(received) = 0 /\ Len(sent) = 0 /\ Len(wire) = 0 /\ current = <<>>
    BY ShapeInitially DEF Init
  <1> DEFINE off == [n \in Nat |-> 1]
  <1>2. off \in Offsets /\ off[1] = 1
    BY DEF Offsets
  <1> HIDE DEF off
  <1>3. Rest(1)
    BY <1>1 DEF Rest
  <1>4. Placed(off)
    BY <1>1, <1>2, <1>3 DEF Placed
  <1> QED BY <1>1, <1>2, <1>4 DEF FrameInv, Whole, Init

\* every step keeps it,
LEMMA FrameInvPreserved == FrameInv /\ [Next]_vars => FrameInv'
  <1> SUFFICES ASSUME FrameInv, [Next]_vars PROVE FrameInv'
    OBVIOUS
  <1>1. Shape /\ Shape'
    BY ShapePreserved DEF FrameInv
  <1> SUFFICES ASSUME Fitting' PROVE Whole'
    BY <1>1 DEF FrameInv
  <1>2. Fitting /\ Whole
    BY <1>1, FittingBack DEF FrameInv
  <1>3. CASE WriteStep
    BY <1>1, <1>2, <1>3, HeaderWhole, RefusedWhole, PayloadWhole, HeaderCutWhole, PayloadCutWhole
       DEF WriteStep
  <1>4. CASE ReadStep
    BY <1>1, <1>2, <1>4, ReadWhole, RefusalWhole, NotAstray, EndWhole DEF ReadStep
  <1>5. CASE UNCHANGED vars
    BY <1>2, <1>5 DEF vars, Whole, Cause, Placed, Rest
  <1> QED BY <1>3, <1>4, <1>5 DEF Next

\* and so it always holds.
LEMMA FrameInvAlways == Spec => []FrameInv
  BY FrameInvInitially, FrameInvPreserved, PTL DEF Spec

\* The frames that were written to the end arrive in order, and each that is
\* no Error frame with the fields it was sent with, for every limit of the
\* length field and every size of the payloads below it, wherever a write is
\* cut short.
THEOREM FramesArrive == Spec => []FramesArriveWhole
  <1>1. FrameInv => FramesArriveWhole
    <2> SUFFICES ASSUME FrameInv, ~Oversized
                 PROVE  /\ Len(received) <= Len(sent)
                        /\ \A n \in DOMAIN received : sent[n].kind # "Error" => received[n] = sent[n]
      BY DEF FramesArriveWhole
    <2>1. TypeOK /\ Whole
      BY Sizing DEF FrameInv, Shape
    <2>2. DOMAIN received = 1 .. Len(received)
      BY <2>1, SeqTypes
    <2>3. \A n \in 1 .. Len(received) : received[n] = Arrival(sent[n])
      BY <2>1 DEF Whole
    <2>4. \A n \in DOMAIN received : sent[n].kind # "Error" => received[n] = sent[n]
      BY <2>2, <2>3 DEF Arrival
    <2> QED BY <2>1, <2>4 DEF Whole
  <1> QED BY <1>1, FrameInvAlways, PTL

\* The reader stops only at the end of the stream, or on a Ping, as long as
\* the lengths can be said.
THEOREM StopsAreExplained == Spec => []StopsExplained
  <1>1. FrameInv => StopsExplained
    <2> SUFFICES ASSUME FrameInv PROVE StopsExplained
      OBVIOUS
    <2>1. TypeOK /\ (~Oversized => Whole)
      BY Sizing DEF FrameInv, Shape
    <2>2. reader = "astray" => Oversized
      BY <2>1 DEF Whole
    <2>3. ASSUME reader = "ended", ~Oversized, ~(writer = "closed" /\ Len(received) = Len(sent))
          PROVE  \E n \in DOMAIN sent : n = Len(received) + 1 /\ sent[n].kind = "Ping"
      <3>1. Len(received) < Len(sent) /\ sent[Len(received) + 1].kind = "Ping"
        BY <2>1, <2>3 DEF Whole, Cause
      <3>2. Len(received) + 1 \in 1 .. Len(sent) /\ DOMAIN sent = 1 .. Len(sent)
        BY <2>1, <3>1, Lengths, SeqTypes
      <3> QED BY <3>1, <3>2
    <2> QED BY <2>2, <2>3 DEF StopsExplained
  <1> QED BY <1>1, FrameInvAlways, PTL
=============================================================================
