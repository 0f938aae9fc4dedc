------------------------------- MODULE Frames -------------------------------
(***************************************************************************)
(* The frame codec over a byte stream (frames.go): what the WriteTo of an  *)
(* endpoint's send loop puts on the wire and what the ReadFrom of the peer *)
(* makes of it.                                                            *)
(*                                                                         *)
(* A frame's 8-byte header is one cell of the wire and every byte after it *)
(* is another, so that a length which is not the number of bytes written   *)
(* leads the reader astray.  The bytes of a payload, and the priority and  *)
(* status fields, are copied and not modelled; stream IDs are classes.     *)
(***************************************************************************)
EXTENDS Integers, SequencesExt

CONSTANTS
  Kinds,        \* bound: types of the frames sent
  Sizes,        \* bound: sizes of raw headers and of data, in bytes
  LengthLimit,  \* values of the length field (2^16 in the code)
  MaxFrames     \* bound: frames sent

FrameTypes == {"Request", "Response", "Data", "Error", "Headers", "Push", "Ping"}
IDs == {"zero", "good", "large"}

ASSUME FramesAssumption ==
  /\ Kinds \subseteq FrameTypes
  /\ Sizes \subseteq Nat
  /\ LengthLimit \in Nat /\ LengthLimit > 6   \* the fixed lengths can be said
  /\ MaxFrames \in Nat

\* Bytes that follow the header and are not raw header or data: a status
\* code, or the associated stream ID of a Push.
Prefix == [Request |-> 0, Response |-> 1, Data |-> 0, Error |-> 1,
           Headers |-> 0, Push |-> 4, Ping |-> 0]

\* Only a Push has an associated stream, and it may be zero; frames of
\* fixed length have no payload; Flags are not written for an Error, whose
\* stream may be any, 0 when the error is none of a stream's (conn.go 726).
Sendable ==
  {f \in [kind : Kinds, id : IDs, assoc : IDs, finish : BOOLEAN, size : Sizes \cup {0}] :
     /\ f.kind # "Push" => f.assoc = "zero"
     /\ f.kind \in {"Error", "Ping"} => f.size = 0
     /\ f.kind = "Ping" => f.id = "good"
     /\ f.kind = "Error" => ~f.finish}

VARIABLES
  wire,      \* the cells written and not yet read
  writer,    \* "ready", "payload" or "closed"
  current,   \* the frame whose payload is to be written, or was cut short
  sent,      \* the frames written to the end
  reader,    \* "reading", "ended" by an error, or "astray" in a payload
  received   \* the frames that readFrame returned

vars == <<wire, writer, current, sent, reader, received>>

Byte == [type |-> "byte"]
HeaderCells ==
  [type : FrameTypes, length : 0 .. LengthLimit - 1, id : IDs, assoc : IDs, finish : BOOLEAN]

TypeOK ==
  /\ wire \in Seq(HeaderCells \cup {Byte})
  /\ writer \in {"ready", "payload", "closed"}
  /\ current \in {<<>>} \cup {<<f>> : f \in Sendable}
  /\ writer = "payload" => current # <<>>
  /\ writer = "ready" => current = <<>>
  /\ sent \in Seq(Sendable) /\ Len(sent) <= MaxFrames
  /\ reader \in {"reading", "ended", "astray"}
  /\ received \in Seq([kind : FrameTypes, id : IDs, assoc : IDs, finish : BOOLEAN, size : Nat])

Init ==
  /\ wire = <<>> /\ writer = "ready" /\ current = <<>> /\ sent = <<>>
  /\ reader = "reading" /\ received = <<>>

-----------------------------------------------------------------------------
(* The format.  Operators marked "fault" are seeded faults, not used here. *)

WrittenType(f) == IF f.kind = "Error" THEN "Data" ELSE f.kind

PayloadOnly(f) == f.size % LengthLimit     \* fault: the prefix is not counted
WrittenLength(f) ==
  IF f.kind = "Ping" THEN 6 % LengthLimit ELSE (Prefix[f.kind] + f.size) % LengthLimit

\* The checks of WriteTo, which Error and Ping do not make.
ZeroWritten(f) == f.id # "large"           \* fault: a zero ID is written
Writable(f) ==
  f.kind \notin {"Error", "Ping"} => f.id = "good" /\ f.assoc # "large"

HeaderCell(f) ==
  [type |-> WrittenType(f), length |-> WrittenLength(f), id |-> f.id, assoc |-> f.assoc,
   finish |-> f.finish]

Bytes(n) == [i \in 1 .. n |-> Byte]

\* The length that each ReadFrom asks for.
LengthAccepted(h) ==
  CASE h.type = "Response" -> h.length >= 1
    [] h.type = "Push" -> h.length >= 4
    [] h.type = "Error" -> h.length = 1
    [] h.type = "Ping" -> h.length = 0
    [] OTHER -> TRUE

IDAccepted(h) ==
  h.type \in {"Request", "Response", "Headers", "Push"} => h.id = "good" /\ h.assoc # "large"

Accepted(h) == h.type # "byte" /\ LengthAccepted(h) /\ IDAccepted(h)

HeaderCounted(h) == h.length - 8           \* fault: the length is the whole frame's
PayloadSize(h) == h.length - Prefix[h.type]

OneMore(h) == Len(wire) > h.length + 1     \* fault: read waits for a byte too many
Complete(h) == Len(wire) > h.length

FrameRead(h) ==
  [kind |-> h.type, id |-> h.id, assoc |-> h.assoc, finish |-> h.finish,
   size |-> PayloadSize(h)]

-----------------------------------------------------------------------------
(* The send loop's calls of WriteTo.  Any error closes the connection.     *)

\* The header and the prefix: the first write, and the only one if there is
\* no payload (write makes no call for no bytes).
WriteHeader(f) ==
  /\ writer = "ready" /\ Len(sent) < MaxFrames
  /\ Writable(f)
  /\ wire' = wire \o <<HeaderCell(f)>> \o Bytes(Prefix[f.kind])
  /\ IF f.size = 0
     THEN sent' = Append(sent, f) /\ UNCHANGED <<writer, current>>
     ELSE writer' = "payload" /\ current' = <<f>> /\ UNCHANGED sent
  /\ UNCHANGED <<reader, received>>

WriteRefused(f) ==
  /\ writer = "ready" /\ Len(sent) < MaxFrames
  /\ ~Writable(f)
  /\ writer' = "closed"
  /\ UNCHANGED <<wire, current, sent, reader, received>>

\* The raw header or the data: the second write.
WritePayload ==
  /\ writer = "payload"
  /\ wire' = wire \o Bytes(current[1].size)
  /\ sent' = sent \o current
  /\ writer' = "ready" /\ current' = <<>>
  /\ UNCHANGED <<reader, received>>

\* A write error, or a Close of the connection, in the middle of the first
\* write: the header may be there without all of its prefix, or not at all.
HeaderCut ==
  /\ writer = "ready"
  /\ \/ UNCHANGED wire
     \/ \E f \in Sendable : \E n \in 0 .. Prefix[f.kind] - 1 :
          Writable(f) /\ wire' = wire \o <<HeaderCell(f)>> \o Bytes(n)
  /\ writer' = "closed"
  /\ UNCHANGED <<current, sent, reader, received>>

\* The same in the middle of the second.
PayloadCut ==
  /\ writer = "payload"
  /\ \E n \in 0 .. current[1].size - 1 : wire' = wire \o Bytes(n)
  /\ writer' = "closed"
  /\ UNCHANGED <<current, sent, reader, received>>

-----------------------------------------------------------------------------
(* The peer's readFrame.                                                   *)

\* A frame that is all there.
ReadFrame ==
  /\ reader = "reading" /\ wire # <<>>
  /\ LET h == Head(wire)
     IN /\ Accepted(h)
        /\ Complete(h)
        /\ wire' = SubSeq(wire, h.length + 2, Len(wire))
        /\ received' = Append(received, FrameRead(h))
  /\ UNCHANGED <<writer, current, sent, reader>>

\* A frame that its ReadFrom refuses.
ReadRefused ==
  /\ reader = "reading" /\ wire # <<>>
  /\ Head(wire).type # "byte" /\ ~Accepted(Head(wire))
  /\ reader' = "ended"
  /\ UNCHANGED <<wire, writer, current, sent, received>>

\* The reader takes bytes of a payload for a header.
ReadAstray ==
  /\ reader = "reading" /\ wire # <<>>
  /\ Head(wire).type = "byte"
  /\ reader' = "astray"
  /\ UNCHANGED <<wire, writer, current, sent, received>>

\* The stream ends, between two frames or inside one.
ReadEnd ==
  /\ reader = "reading" /\ writer = "closed"
  /\ wire # <<>> => Accepted(Head(wire)) /\ ~Complete(Head(wire))
  /\ reader' = "ended"
  /\ UNCHANGED <<wire, writer, current, sent, received>>

-----------------------------------------------------------------------------
WriteStep ==
  \/ \E f \in Sendable : WriteHeader(f) \/ WriteRefused(f)
  \/ WritePayload \/ HeaderCut \/ PayloadCut
ReadStep == ReadFrame \/ ReadRefused \/ ReadAstray \/ ReadEnd

Next == WriteStep \/ ReadStep

Spec == Init /\ [][Next]_vars

\* The peer reads what there is to be read.
FairSpec == Spec /\ WF_vars(ReadStep)

-----------------------------------------------------------------------------
(* Properties.                                                             *)

\* A payload that the length field cannot say has been sent.
Oversized == \E f \in ToSet(sent \o current) : Prefix[f.kind] + f.size >= LengthLimit

\* The peer receives the frames that were written to the end, in order, and
\* each with the type, IDs, flag and size it was sent with, if it is not an
\* Error frame and as long as the length field can say all sizes; a frame cut
\* short is not received.  For an Error frame that would not be true: its
\* WriteTo gives the type DATA (frames.go 497), against its own ReadFrom, which
\* asks for ERROR (457-459), and String, which says 3 (484).
FramesArriveWhole ==
  ~Oversized =>
    /\ Len(received) <= Len(sent)
    /\ \A n \in DOMAIN received : sent[n].kind # "Error" => received[n] = sent[n]

\* The peer's readFrame fails before the stream ends only on a Ping, whose
\* length its ReadFrom refuses, and takes payload for a header only behind a
\* payload that is longer than the length field can say.  (An Error frame is
\* taken, by the ReadFrom of Data; its own would refuse its type.)
StopsExplained ==
  /\ reader = "ended" /\ ~Oversized =>
       \/ writer = "closed" /\ Len(received) = Len(sent)
       \/ \E n \in DOMAIN sent : n = Len(received) + 1 /\ sent[n].kind = "Ping"
  /\ reader = "astray" => Oversized

\* Every frame written to the end is received, unless the reader has
\* stopped for one of the reasons that StopsExplained gives.
FramesAllArrive ==
  \A n \in 1 .. MaxFrames : Len(sent) >= n ~> Len(received) >= n \/ reader # "reading"
=============================================================================
