------------------------------- MODULE Headers -------------------------------
(***************************************************************************)
(* The header blocks of one direction of a connection (compression.go):    *)
(* the Compress of the endpoint that sends, the Decompress of the one that *)
(* reads, and the zlib stream that carries all the blocks.                 *)
(*                                                                         *)
(* What zlib makes of the bytes is left out, but for when it hands them    *)
(* over: a Read gives what there is up to the next full window, and fails, *)
(* for good, where the block ends, also if it asks for nothing.  Bytes are *)
(* numbers below Base; a name is mapped to lower case and back by Lower    *)
(* and Canonical.  Integers are those of a 64-bit build.                   *)
(*                                                                         *)
(* Two things are assumed of the headers that compression.go does not      *)
(* check: no name and no value has a NUL, which would be read as a         *)
(* separator, and names are ASCII, so that strings.ToLower keeps their     *)
(* length (Compress takes the length of the name as it was, 159-170).      *)
(***************************************************************************)
EXTENDS Naturals, SequencesExt

CONSTANTS
  HeaderMaps,  \* bound: the headers of the frames sent, from names to values
  HopByHop,    \* names that Compress deletes: Connection and three more
  Base,        \* number of values of a byte (256 in the code)
  Window,      \* bytes that zlib has ready at most (2^15)
  FirstRun,    \* the same at first, when the dictionary is in the window
  Bounds,      \* most bytes of names and values (MAX_FRAME_SIZE - 12)
  MaxBlocks    \* bound: blocks sent

LowerA == 1    \* a letter in lower case ...
UpperA == 2    \* ... and in upper case; the other bytes have no case
NUL == 0

LowerByte(b) == IF b = UpperA THEN LowerA ELSE b
UpperByte(b) == IF b = LowerA THEN UpperA ELSE b
Lower(n) == [i \in DOMAIN n |-> LowerByte(n[i])]          \* strings.ToLower
Canonical(n) ==                                           \* headers.Add
  [i \in DOMAIN n |-> IF i = 1 THEN UpperByte(n[i]) ELSE LowerByte(n[i])]

Word == Base * Base * Base * Base                         \* 2^32
Kept(h) == DOMAIN h \ HopByHop

\* Names and values have no NUL, none is longer than 32 bits can say, and no
\* two names of a map differ only in case (http.Header has canonical keys).
ASSUME HeadersAssumption ==
  /\ Base \in Nat /\ Base > UpperA
  /\ Window \in Nat \ {0} /\ FirstRun \in 1 .. Window
  /\ Bounds \in 0 .. Word - 2
  /\ MaxBlocks \in Nat
  /\ \A h \in HeaderMaps :
       /\ IsFiniteSet(DOMAIN h) /\ Cardinality(DOMAIN h) < Word
       /\ \A name \in DOMAIN h :
            /\ name \in Seq(1 .. Base - 1) /\ Len(name) \in 1 .. Word - 1
            /\ h[name] \in Seq(Seq(1 .. Base - 1))
            /\ \A i \in DOMAIN h[name] : Len(h[name][i]) < Word
       /\ \A m, n \in Kept(h) : Canonical(m) = Canonical(n) => m = n

VARIABLES
  sent,      \* the headers sent
  sender,    \* "up", or "panicked" in Compress
  stream,    \* the bytes of all blocks so far
  ends,      \* where in the stream each block ends
  at,        \* the reader's statement; "ended" by an error, "panicked", or
             \* "astray" in the stream
  pos,       \* bytes it has read
  chunk,     \* the four bytes into which it reads its integers
  pairs,     \* pairs that are left in the block
  bounds,    \* bytes that the rest of the block may have
  name,      \* name of the pair in hand
  got,       \* headers of the block so far
  received,  \* the headers received
  cutShort   \* history: the window has cut a Read short

senderVars == <<sent, sender, stream, ends>>
vars == <<senderVars, at, pos, chunk, pairs, bounds, name, got, received, cutShort>>

Bytes == 0 .. Base - 1
None == [n \in {} |-> <<>>]

TypeOK ==
  /\ sent \in Seq(HeaderMaps) /\ Len(sent) <= MaxBlocks
  /\ sender \in {"up", "panicked"}
  /\ stream \in Seq(Bytes)
  /\ ends \in Seq(0 .. Len(stream)) /\ Len(ends) = Len(sent)
  /\ at \in {"idle", "count", "pair", "name", "valueLength", "value", "ended", "panicked",
            "astray"}
  /\ pos \in 0 .. Len(stream)
  /\ chunk \in [1 .. 4 -> Bytes]
  /\ pairs \in 0 .. Word - 1
  /\ bounds \in 0 .. Bounds
  /\ name \in Seq(Bytes)
  /\ DOMAIN got \subseteq Seq(Bytes)
  /\ Len(received) <= Len(sent)
  /\ cutShort \in BOOLEAN

Init ==
  /\ sent = <<>> /\ sender = "up" /\ stream = <<>> /\ ends = <<>>
  /\ at = "idle" /\ pos = 0 /\ chunk = <<0, 0, 0, 0>> /\ pairs = 0 /\ bounds = 0
  /\ name = <<>> /\ got = None /\ received = <<>> /\ cutShort = FALSE

-----------------------------------------------------------------------------
(* Conversions.  Those marked "fault" are seeded faults, not used here.    *)

Shift(n) == n \div Base                                   \* n >> 8
Int32(n) ==
  <<Shift(Shift(Shift(n))) % Base, Shift(Shift(n)) % Base, Shift(n) % Base, n % Base>>
Value32(c) == ((c[1] * Base + c[2]) * Base + c[3]) * Base + c[4]

Split(values) ==                                          \* bytes.Split
  FoldLeft(LAMBDA vs, b : IF b = NUL THEN Append(vs, <<>>)
                          ELSE [vs EXCEPT ![Len(vs)] = Append(@, b)], <<<<>>>>, values)

-----------------------------------------------------------------------------
(* Compress.                                                               *)

ValueBytes(values) == FoldLeft(LAMBDA n, v : n + Len(v), 0, values)

\* lens[name]: the separators are counted, from -1 if there is no value.
LengthPerValue(values) == ValueBytes(values) + Len(values)         \* fault
LengthOfValues(values) ==
  (Word + Len(values) - 1 + ValueBytes(values)) % Word

Pair(n, values) ==
  Int32(Len(n)) \o Lower(n) \o Int32(LengthOfValues(values))
    \o FoldLeft(LAMBDA vs, i : (IF i = 1 THEN vs ELSE Append(vs, NUL)) \o values[i],
                <<>>, [i \in DOMAIN values |-> i])

\* The block, with its pairs in some order of the map.
Block(h, order) ==
  Int32(Len(order)) \o FlattenSeq([i \in DOMAIN order |-> Pair(order[i], h[order[i]])])

\* The separators are not counted in the length of the block, so that its
\* last bytes do not fit.
Overflows(h) == \E n \in Kept(h) : Len(h[n]) > 1

Compress(h) ==
  /\ sender = "up" /\ Len(sent) < MaxBlocks
  /\ IF Overflows(h)
     THEN sender' = "panicked" /\ UNCHANGED <<sent, stream, ends>>
     ELSE \E order \in SetToSeqs(Kept(h)) :
            /\ stream' = stream \o Block(h, order)
            /\ ends' = Append(ends, Len(stream'))
            /\ sent' = Append(sent, h)
            /\ UNCHANGED sender
  /\ UNCHANGED <<at, pos, chunk, pairs, bounds, name, got, received, cutShort>>

-----------------------------------------------------------------------------
(* Decompress.                                                             *)

\* Where the bytes end that zlib has ready: the window is full, or the
\* block that is being read is at its end.
RunEnd == FirstRun + ((pos + Window - FirstRun) \div Window) * Window
BlockEnd == ends[Len(received) + 1]
Ready == IF RunEnd < BlockEnd THEN RunEnd - pos ELSE BlockEnd - pos
Failed == Ready = 0

\* d.out.Read into a buffer: it is filled as far as there are bytes ready.
Given(size) == IF size < Ready THEN size ELSE Ready
Filled(buffer) ==
  SubSeq(stream, pos + 1, pos + Given(Len(buffer)))
    \o SubSeq(buffer, Given(Len(buffer)) + 1, Len(buffer))
Read(size) ==
  /\ pos' = pos + Given(size)
  /\ cutShort' = (cutShort \/ (Given(size) < size /\ RunEnd < BlockEnd))

SpentBounds == bounds             \* fault: the limit is for all blocks together
FreshBounds == Bounds             \* bounds := MAX_FRAME_SIZE - 12

AnyLength(n) == FALSE             \* fault: the lengths are not checked
TooLong(n) == n > bounds          \* nameLength > bounds, valueLength > bounds

Zeros(n) == [i \in 1 .. n |-> 0]

Decompress ==
  /\ at = "idle" /\ Len(received) < Len(sent)
  /\ at' = "count"
  /\ chunk' = Zeros(4) /\ bounds' = FreshBounds /\ got' = None
  /\ UNCHANGED <<senderVars, pos, pairs, name, received, cutShort>>

ReadCount ==
  /\ at = "count" /\ ~Failed
  /\ Read(4) /\ chunk' = Filled(chunk)
  /\ pairs' = Value32(chunk')
  /\ at' = "pair"
  /\ UNCHANGED <<senderVars, bounds, name, got, received>>

\* The length of a name or of values, and a buffer for them.
ReadLength(from, to) ==
  /\ at = from /\ ~Failed
  /\ Read(4) /\ chunk' = Filled(chunk)
  /\ IF TooLong(Value32(chunk'))
     THEN at' = "ended" /\ UNCHANGED bounds
     ELSE at' = to /\ bounds' = bounds - Value32(chunk')

ReadNameLength ==
  /\ pairs > 0
  /\ ReadLength("pair", "name")
  /\ UNCHANGED <<senderVars, pairs, name, got, received>>

ReadName ==
  /\ at = "name" /\ ~Failed
  /\ name' = Filled(Zeros(Value32(chunk))) /\ Read(Len(name'))
  /\ at' = "valueLength"
  /\ UNCHANGED <<senderVars, chunk, pairs, bounds, got, received>>

ReadValueLength ==
  /\ ReadLength("valueLength", "value")
  /\ UNCHANGED <<senderVars, pairs, name, got, received>>

\* headers.Add, of each of the values.
Added(headers, key, values) ==
  [k \in DOMAIN headers \cup {key} |->
     (IF k \in DOMAIN headers THEN headers[k] ELSE <<>>) \o (IF k = key THEN values ELSE <<>>)]

ReadValue ==
  /\ at = "value" /\ ~Failed
  /\ LET buffer == Zeros(Value32(chunk))
     IN /\ Read(Len(buffer))
        /\ got' = Added(got, Canonical(name), Split(Filled(buffer)))
  /\ pairs' = pairs - 1
  /\ at' = "pair"
  /\ UNCHANGED <<senderVars, chunk, bounds, name, received>>

\* A Read fails: readFrames ends the connection, or the process panics.
ReadFails ==
  /\ at \in {"count", "pair", "name", "valueLength", "value"}
  /\ at = "pair" => pairs > 0
  /\ Failed
  /\ at' = IF at \in {"name", "valueLength"} THEN "panicked" ELSE "ended"
  /\ UNCHANGED <<senderVars, pos, chunk, pairs, bounds, name, got, received, cutShort>>

\* The headers are complete.  What comes of the next block if there are
\* bytes of this one left is not modelled.
Decompressed ==
  /\ at = "pair" /\ pairs = 0
  /\ received' = Append(received, got)
  /\ at' = IF pos = BlockEnd THEN "idle" ELSE "astray"
  /\ UNCHANGED <<senderVars, pos, chunk, pairs, bounds, name, got, cutShort>>

-----------------------------------------------------------------------------
Next ==
  \/ \E h \in HeaderMaps : Compress(h)
  \/ Decompress \/ ReadCount \/ ReadNameLength \/ ReadName
  \/ ReadValueLength \/ ReadValue \/ ReadFails \/ Decompressed

Spec == Init /\ [][Next]_vars

-----------------------------------------------------------------------------
(* Properties.                                                             *)

\* What a header map arrives as: without the names that are for one hop,
\* and under canonical names.
Arrival(h) ==
  [n \in {Canonical(m) : m \in Kept(h)} |->
     h[CHOOSE m \in Kept(h) : Canonical(m) = n]]

\* The headers of each frame arrive as they were sent, block after block of
\* the one stream, as long as zlib's window cuts no Read short: the
\* lengths of the names and the values agree with what is written, whatever
\* the order of the map (compression.go 55-92, 144-194).  It says nothing of
\* separators: none is ever written, because a name that has two values makes
\* Compress panic (138-150).
HeadersArrive ==
  ~cutShort => IsPrefix(received, [i \in DOMAIN sent |-> Arrival(sent[i])])

\* The bytes of the names that are sent and of their values.
HeaderSize(h) == FoldSet(LAMBDA m, n : Len(m) + ValueBytes(h[m]) + n, 0, Kept(h))

\* Unless the window has cut a Read short, the reader gives up a block only if
\* it has a name without a value, or with an empty one, or if its headers are
\* larger than a frame, and it never panics or loses its place (compression.go
\* 55-92).  A panic of the sender, over several values, is not excluded.
StopsExplained ==
  ~cutShort =>
    /\ at \notin {"panicked", "astray"}
    /\ at = "ended" =>
         LET h == sent[Len(received) + 1]
         IN \/ \E n \in Kept(h) : h[n] \in {<<>>, <<<<>>>>}
            \/ HeaderSize(h) > Bounds
=============================================================================
