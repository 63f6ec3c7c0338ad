---------------------------- MODULE StreamDecoder ----------------------------
(***************************************************************************)
(* The incremental decoder of a logical command stream.  A command starts  *)
(* at a byte with its high bit set and ends before the next one.  feed()   *)
(* takes the stream in chunks cut anywhere, remembers how far it has       *)
(* looked, and emits a record for every frame whose end it has seen;       *)
(* finish() emits the rest.                                                *)
(*                                                                         *)
(* Against it stands logical_frames(), which splits a whole stream at      *)
(* once.  Positions count bytes and start at 0; the byte after position i  *)
(* is buffer[i + 1].  Records are kept as a set: their offsets order them. *)
(***************************************************************************)
EXTENDS Integers, Sequences, FiniteSets

CONSTANTS
  Byte,        \* the byte values
  Start,       \* those that start a command
  Command,     \* the frames for which exactly one registry entry fits
  MaxChunk,    \* bound: bytes of one chunk
  MaxStream    \* bound: bytes of the stream

ASSUME BytesAssumption == Start \subseteq Byte /\ Command \subseteq Seq(Byte)
ASSUME LimitsAssumption == MaxChunk \in Nat /\ MaxStream \in Nat

VARIABLES
  buffer,      \* the bytes not yet emitted
  offset,      \* the stream position of the buffer
  scanIndex,   \* _scan_index
  records,     \* the records returned so far
  issues,      \* the offsets of the issues noted so far
  stream,      \* history: every byte fed
  ends         \* history: the positions at which the stream was finished

vars == <<buffer, offset, scanIndex, records, issues, stream, ends>>

IsStart(bytes, i) == bytes[i + 1] \in Start

\* The neighbours in a set of positions: where frames begin and end.
Frames(cuts) ==
  {f \in cuts \X cuts : f[1] < f[2] /\ ~\E c \in cuts : f[1] < c /\ c < f[2]}

\* decode_frame: the record of one frame; a frame that is no command is kept.
Decoded(from, raw) ==
  [offset |-> from, raw |-> raw,
   known |-> raw[1] \in Start /\ raw \in Command]

Init ==
  /\ buffer = <<>> /\ offset = 0 /\ scanIndex = 0
  /\ records = {} /\ issues = {}
  /\ stream = <<>> /\ ends = {}

\* Mutant: a command start at the first new byte is taken for looked at.
SkipsOne(bytes, final) ==
  {i \in 1..(Len(bytes) - 1) : i > scanIndex /\ IsStart(bytes, i)}
    \cup (IF final THEN {Len(bytes)} ELSE {})

\* The positions where feed() ends a frame: the command starts it has not yet
\* looked at, and the end of the input when it is final.
Boundaries(bytes, final) ==
  {i \in 1..(Len(bytes) - 1) : i >= scanIndex /\ IsStart(bytes, i)}
    \cup (IF final THEN {Len(bytes)} ELSE {})

\* Mutant: the command start that ended the last frame is removed with it.
RemovesTheStart(cuts) ==
  LET last == CHOOSE c \in cuts : \A d \in cuts : d <= c
  IN  IF last = 0 THEN 0 ELSE last + 1

\* How much of the input is done with: all up to the last boundary.
Consumed(cuts) == CHOOSE c \in cuts : \A d \in cuts : d <= c

\* _scan_index afterwards, in the shortened buffer.
Scanned(bytes, done) == Len(bytes) - done

\* feed(data, final); finish() is feed(b"", final=True).
Feed(data, final) ==
  LET bytes == buffer \o data
      cuts  == {0} \cup Boundaries(bytes, final)
      done  == Consumed(cuts)
      new   == {Decoded(offset + f[1], SubSeq(bytes, f[1] + 1, f[2])) :
                  f \in Frames(cuts)}
  IN  /\ Len(stream) + Len(data) <= MaxStream
      /\ stream' = stream \o data
      /\ IF bytes = <<>>
           THEN UNCHANGED <<buffer, offset, scanIndex, records, issues, ends>>
           ELSE /\ records' = records \cup new
                /\ issues' = issues \cup {r.offset : r \in {n \in new : ~n.known}}
                /\ buffer' = SubSeq(bytes, done + 1, Len(bytes))
                /\ offset' = offset + done
                /\ scanIndex' = Scanned(bytes, done)
                /\ ends' = IF final THEN ends \cup {offset + done} ELSE ends

Chunk == UNION {[1..n -> Byte] : n \in 0..MaxChunk}

Next == \E data \in Chunk, final \in BOOLEAN : Feed(data, final)

Spec == Init /\ [][Next]_vars

-----------------------------------------------------------------------------
(* Properties.                                                             *)

Record == [offset : Nat, raw : Seq(Byte), known : BOOLEAN]

\* Every variable stays in its range.
TypeOK ==
  /\ buffer \in Seq(Byte) /\ stream \in Seq(Byte)
  /\ offset \in Nat /\ scanIndex \in Nat
  /\ \A r \in records : r \in Record
  /\ issues \subseteq Nat /\ ends \subseteq Nat

\* The decoder holds exactly the part of the stream it has not emitted, at the
\* position it says, and has looked at all of it: the bytes it will skip hold no
\* command start.
BufferIsTheRest ==
  /\ offset <= Len(stream)
  /\ buffer = SubSeq(stream, offset + 1, Len(stream))
  /\ scanIndex = Len(buffer)
  /\ \A i \in 1..(Len(buffer) - 1) : ~IsStart(buffer, i)

\* logical_frames of the whole stream, cut also where it was finished.
StreamCuts ==
  {0} \cup {i \in 1..(Len(stream) - 1) : IsStart(stream, i)} \cup ends

StreamRecords ==
  {Decoded(f[1], SubSeq(stream, f[1] + 1, f[2])) :
     f \in Frames({c \in StreamCuts : c <= offset})}

\* How the stream was cut into chunks does not show: the records are those of
\* the stream decoded as a whole, up to the frame still in the buffer.
ChunkingInvisible == offset \in StreamCuts /\ records = StreamRecords

\* Every byte before the buffer is in exactly one record, at its place.
EveryByteOnce ==
  \A p \in 0..(offset - 1) :
    \E r \in records :
      /\ r.offset <= p /\ p < r.offset + Len(r.raw)
      /\ r.raw[p - r.offset + 1] = stream[p + 1]
      /\ \A q \in records :
           (q.offset <= p /\ p < q.offset + Len(q.raw)) => q = r

=============================================================================
