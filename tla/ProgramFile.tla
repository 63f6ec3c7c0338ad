----------------------------- MODULE ProgramFile -----------------------------
(***************************************************************************)
(* Programs (program.py, api.py): a stream that is read from a file, or    *)
(* fed to a StreamDecoder in chunks, edited, passed on as JSON, and        *)
(* written again, by readers and writers whose registries may differ.      *)
(*                                                                         *)
(* A program is read once in a behaviour and stands for all that share its *)
(* records: replace(), with which the API changes its container, copies no *)
(* record.                                                                 *)
(***************************************************************************)
EXTENDS RuidaCodec, StreamDecoder

CONSTANTS
  Registries,    \* the command tables of readers and writers
  Magics,
  Files,         \* the files there are to read: [container, context, bytes]
  Streams,       \* the logical streams that are fed to a StreamDecoder
  Edits,         \* values callers give to fields
  Additions,     \* [name, values] or [raw]: records callers add
  MaxEdits,      \* bound: edits and additions of a behaviour
  NoProgram, NoOutput

ASSUME ProgramAssumption ==
  /\ Byte = 0..(Bytes - 1) /\ Start = Base..(Bytes - 1)
  /\ \A r \in Registries : RegistryIsValid(r)
  /\ Magics \subseteq Byte

\* The packages: one knows every command, and a checksum is one plain number.
ASSUME RegistriesAssumption ==
  /\ \E r \in Registries : \A s \in Registries : s \subseteq r
  /\ \A r \in Registries : \A s \in r :
       s.name = "file_checksum" =>
         \A k \in DOMAIN s.fields :
           s.fields[k].kind = "unsigned" /\ s.fields[k].scale = 1

\* DATAGRAM_CONTEXTS, and CONTAINERS.
Contexts == {"job", "request", "reply"}
Containers == {"rd", "udp", "logical"}

\* What there is to read and what callers pass.
ASSUME InputsAssumption ==
  /\ \A f \in Files :
       /\ f.container \in Containers /\ f.context \in Contexts
       /\ f.bytes \in Seq(Byte)
  /\ Streams \subseteq Seq(Byte) /\ Edits \subseteq Value
  /\ \A a \in Additions :
       IF "raw" \in DOMAIN a THEN a.raw \in Seq(Byte)
                             ELSE "name" \in DOMAIN a /\ a.values \in Seq(Value)

\* RawSpan, KnownCommand and Program.
Span == [kind : {"raw"}, raw : Seq(Byte)]

Known ==
  [kind : {"command"}, name : {s.name : s \in UNION Registries},
   opcode : Seq(Byte), values : Seq(Value), raw : Seq(Byte) \cup {NoRaw},
   baseline : Seq(Value) \cup {NoBaseline}]

Program ==
  [magic : Byte, context : Contexts, container : Containers,
   header : Seq(Byte), records : Seq(Span \cup Known), registry : Registries]

\* None is none of what it stands for.
ASSUME NothingAssumption ==
  NoRaw \notin Seq(Byte) /\ NoBaseline \notin Seq(Value) /\ NoProgram \notin Program

VARIABLES
  program,    \* [magic, context, container, header, records, registry]
  source,     \* history: what was read, [bytes, container, records]
  edits,      \* history: how many edits were made
  output      \* what the last call of encode returned

programvars == <<vars, program, source, edits, output>>

\* The registry of the StreamDecoder is that of its codec.
Reading == CHOOSE r \in Registries : \A s \in Registries : s \subseteq r

-----------------------------------------------------------------------------
(* Records.                                                                *)

Without(record) == IF record.kind = "raw" THEN record
                   ELSE [record EXCEPT !.baseline = NoBaseline]

\* Mutant: the bytes that were read are written if they fit the command.
StillFits(record, spec) ==
  record.raw # NoRaw /\ Fits(spec, record.raw)

\* KnownCommand.encode with a specification: the bytes that were read are
\* written again if they still mean the values.
StillMeans(record, spec) ==
  /\ record.raw # NoRaw /\ Fits(spec, record.raw)
  /\ DecodedValues(spec, record.raw) = record.values

\* Mutant: values are always encoded the way this writer would.
Canonical(record, spec) == EncodedValues(spec, record.values)

KnownBytes(record, spec) ==
  IF StillMeans(record, spec) THEN record.raw
                              ELSE EncodedValues(spec, record.values)

\* KnownCommand.encode without one.
CanRepeat(record) ==
  /\ record.raw # NoRaw
  /\ SubSeq(record.raw, 1, Len(record.opcode)) = record.opcode
  /\ record.baseline \in {NoBaseline, record.values}

CanEncode(record, registry) ==
  record.kind = "command" =>
    IF HasName(registry, record.name)
      THEN LET spec == Named(registry, record.name)
           IN  record.opcode = spec.opcode /\ ValuesFit(spec, record.values)
      ELSE CanRepeat(record)

RecordBytes(record, registry) ==
  IF record.kind = "command" /\ HasName(registry, record.name)
    THEN KnownBytes(record, Named(registry, record.name))
    ELSE record.raw

\* Encoding without a specification remembers the values it first saw.
Baseline(record, registry) ==
  IF record.kind = "command" /\ ~HasName(registry, record.name)
    THEN [record EXCEPT !.baseline = IF @ = NoBaseline THEN record.values
                                                       ELSE @]
    ELSE record

\* The records after they were encoded one after the other, up to the first
\* that is refused.
Encoding(list, registry) ==
  [i \in DOMAIN list |->
     IF \A j \in 1..i : CanEncode(list[j], registry)
       THEN Baseline(list[i], registry) ELSE list[i]]

AllEncode(list, registry) == \A i \in DOMAIN list : CanEncode(list[i], registry)

-----------------------------------------------------------------------------
(* Program.encode.                                                         *)

IsChecksum(record) == record.kind = "command" /\ record.name = "file_checksum"

Checksums(list) == {i \in DOMAIN list : IsChecksum(list[i])}

Plain(list, registry) ==
  [i \in DOMAIN list |-> RecordBytes(list[i], registry)]

\* Mutant: the checksum that was read counts too.
WholeBasis(list, parts) == Total(Concatenated(parts))

\* The sum of everything but checksums.
Basis(list, parts) ==
  Total(Concatenated(
    [i \in DOMAIN list |-> IF IsChecksum(list[i]) THEN <<>> ELSE parts[i]]))

Recomputed(list, registry) ==
  LET parts == Plain(list, registry)
      sum   == [number |-> Basis(list, parts)]
  IN  [i \in DOMAIN list |->
         IF IsChecksum(list[i])
           THEN EncodedValues(Named(registry, "file_checksum"), <<sum>>)
           ELSE parts[i]]

CanRecompute(list, registry) ==
  /\ Cardinality(Checksums(list)) <= 1
  /\ Checksums(list) # {} =>
       /\ HasName(registry, "file_checksum")
       /\ ValuesFit(Named(registry, "file_checksum"),
            <<[number |-> Basis(list, Plain(list, registry))]>>)

Parts(list, registry, policy) ==
  IF policy = "recompute" THEN Recomputed(list, registry)
                          ELSE Plain(list, registry)

\* _validate_metadata.
HeaderFits(p, container) == container # "rd" => p.header = <<>>

CanWrite(p, registry, policy, container) ==
  /\ HeaderFits(p, container) /\ AllEncode(p.records, registry)
  /\ policy = "recompute" => CanRecompute(p.records, registry)

-----------------------------------------------------------------------------
(* Reading.                                                                *)

ProgramInit ==
  /\ Init
  /\ program = NoProgram /\ source = NoProgram
  /\ edits = 0 /\ output = NoOutput

NewProgram(p, bytes) ==
  /\ program' = p
  /\ source' = [bytes |-> bytes, container |-> p.container,
                records |-> p.records]
  /\ UNCHANGED <<edits, output>>

\* decode, decode_path and RuidaCodec.decode; a datagram with another checksum
\* is refused.
Decode(file, magic, registry) ==
  /\ program = NoProgram /\ stream = <<>>
  /\ file.container = "udp" => DatagramDecodes(file.bytes, file.context)
  /\ LET data == StreamOf(file.bytes, file.container, file.context, magic)
     IN  NewProgram([magic |-> magic, context |-> file.context,
                     container |-> file.container,
                     header |-> IF file.container = "rd"
                                  THEN HeaderOf(file.bytes) ELSE <<>>,
                     records |-> DecodedRecords(data, registry),
                     registry |-> registry], file.bytes)
  /\ UNCHANGED vars

\* The chunks the streams are cut into.
Pieces ==
  {<<>>} \cup
    UNION {{SubSeq(s, i, j) : i \in DOMAIN s, j \in DOMAIN s} : s \in Streams}

Continues(s, data) ==
  LET size == Len(stream) + Len(data)
  IN  size <= Len(s) /\ SubSeq(s, 1, size) = stream \o data

\* A stream arrives in chunks.
FeedPiece(data, final) ==
  /\ program = NoProgram /\ Len(data) <= MaxChunk
  /\ \E s \in Streams : Continues(s, data)
  /\ Feed(data, final)
  /\ UNCHANGED <<program, source, edits, output>>

\* The records of the decoder, in the order of their offsets.
InOrder ==
  [n \in 1..Cardinality(records) |->
     CHOOSE r \in records :
       Cardinality({q \in records : q.offset < r.offset}) = n - 1]

\* RuidaCodec.program of the records fed so far; the decoder is let go.
Assemble ==
  /\ program = NoProgram /\ records # {} /\ buffer = <<>>
  /\ \E magic \in Magics :
       NewProgram([magic |-> magic, context |-> "job", container |-> "logical",
                   header |-> <<>>,
                   records |-> [n \in DOMAIN InOrder |->
                                  IF InOrder[n].known
                                    THEN FrameRecord(InOrder[n].raw, Reading)
                                    ELSE RawSpan(InOrder[n].raw)],
                   registry |-> Reading], stream)
  /\ buffer' = <<>> /\ offset' = 0 /\ scanIndex' = 0
  /\ records' = {} /\ issues' = {} /\ stream' = <<>> /\ ends' = {}

-----------------------------------------------------------------------------
(* Editing and writing.                                                    *)

Edited(list) ==
  /\ program' = [program EXCEPT !.records = list]
  /\ edits' = edits + 1 /\ output' = NoOutput
  /\ UNCHANGED <<vars, source>>

Edit(i, k, value) ==
  /\ program # NoProgram /\ edits < MaxEdits
  /\ i \in DOMAIN program.records /\ program.records[i].kind = "command"
  /\ k \in DOMAIN program.records[i].values
  /\ program.records[i].values[k] # value
  /\ Edited([program.records EXCEPT ![i].values[k] = value])

\* RuidaCodec.command, which encodes the values once, and RuidaCodec.opaque.
NewRecord(a, registry) ==
  IF "raw" \in DOMAIN a
    THEN RawSpan(a.raw)
    ELSE KnownCommand(Named(registry, a.name), a.values, NoRaw)

Add(a) ==
  /\ program # NoProgram /\ edits < MaxEdits
  /\ "name" \in DOMAIN a =>
       /\ HasName(program.registry, a.name)
       /\ ValuesFit(Named(program.registry, a.name), a.values)
  /\ Edited(Append(program.records, NewRecord(a, program.registry)))

\* Program.encode and RuidaCodec.encode, whose caller may want a bare stream.
Write(registry, policy, container) ==
  /\ output = NoOutput
  /\ program' = IF HeaderFits(program, container)
                  THEN [program EXCEPT !.records = Encoding(@, registry)]
                  ELSE program
  /\ LET parts == Parts(program.records, registry, policy)
     IN  output' =
           IF CanWrite(program, registry, policy, container)
             THEN [container |-> container, policy |-> policy,
                   registry |-> registry, ok |-> TRUE, parts |-> parts,
                   bytes |-> Contained(Concatenated(parts), container,
                                       program.context, program.magic,
                                       program.header)]
             ELSE [container |-> container, policy |-> policy,
                   registry |-> registry, ok |-> FALSE]
  /\ UNCHANGED <<vars, source, edits>>

\* The caller is done with what encode returned.
Forget ==
  /\ output # NoOutput /\ output' = NoOutput
  /\ UNCHANGED <<vars, program, source, edits>>

\* from_dict validates with its registry, and so remembers the values of the
\* commands it does not know.
Loaded(list, registry) ==
  [i \in DOMAIN list |-> Baseline(Without(list[i]), registry)]

\* to_json by the program's registry, from_json by another one.
Reload(registry) ==
  /\ program # NoProgram /\ output = NoOutput
  /\ AllEncode(program.records, program.registry)
  /\ AllEncode([i \in DOMAIN program.records |->
                  Without(program.records[i])], registry)
  /\ program' = [program EXCEPT !.records = Loaded(@, registry),
                                !.registry = registry]
  /\ UNCHANGED <<vars, source, edits, output>>

ProgramNext ==
  \/ \E f \in Files, m \in Magics, r \in Registries : Decode(f, m, r)
  \/ \E data \in Pieces, final \in BOOLEAN : FeedPiece(data, final)
  \/ Assemble
  \/ \E i \in 1..4, k \in 1..2, v \in Edits : Edit(i, k, v)
  \/ \E a \in Additions : Add(a)
  \/ \E r \in Registries, p \in {"preserve", "recompute"} :
       program # NoProgram /\ \E c \in {program.container, "logical"} :
         Write(r, p, c)
  \/ Forget
  \/ \E r \in Registries : Reload(r)

-----------------------------------------------------------------------------
(* Properties.                                                             *)

Unedited ==
  [i \in DOMAIN program.records |-> Without(program.records[i])]
    = source.records

KnowsAll(registry) ==
  \A i \in DOMAIN program.records :
    LET r == program.records[i]
    IN  r.kind = "command" => HasName(registry, r.name)

\* A program whose values are those that were read is written byte for byte as
\* it was read, whichever encoding of a value the file used and whatever
\* registry reads, writes and reloads it, and also after an edit was taken back
\* if the writer knows the command (one that does not compares with the values
\* it saw first, program.py:127, and refuses).
UneditedIsLossless ==
  /\ output # NoOutput /\ output.policy = "preserve"
  /\ output.container = source.container
  /\ Unedited /\ (edits = 0 \/ KnowsAll(output.registry))
  => output.ok /\ output.bytes = source.bytes

\* Written means as edited: the bytes of a command whose specification the
\* writer has decode to the values it was given, to the nearest wire value.
Written(spec, part, values) ==
  /\ Fits(spec, part)
  /\ EncodedValues(spec, DecodedValues(spec, part))
       = EncodedValues(spec, values)

\* What was edited is what is written, and what is not a command, or not one
\* the writer knows, is written as it was read.
EditsAreWritten ==
  (output # NoOutput /\ output.ok) =>
    \A i \in DOMAIN program.records :
      LET r == program.records[i]
      IN  IF r.kind = "command" /\ HasName(output.registry, r.name)
            THEN \/ output.policy = "recompute" /\ IsChecksum(r)
                 \/ Written(Named(output.registry, r.name),
                            output.parts[i], r.values)
            ELSE output.parts[i] = r.raw

\* No edit is lost: a writer that does not know a command its editor knew
\* writes what it was edited to, or refuses it.
NoEditIsLost ==
  (output # NoOutput /\ output.ok /\ output.policy = "preserve") =>
    \A i \in DOMAIN program.records :
      LET r == program.records[i]
      IN  (r.kind = "command" /\ HasName(program.registry, r.name)) =>
            LET spec == Named(program.registry, r.name)
            IN  ValuesFit(spec, r.values)
                  /\ Written(spec, output.parts[i], r.values)

\* A recomputed checksum is the sum of every byte of the stream but its own.
ChecksumIsTrue ==
  (output # NoOutput /\ output.ok /\ output.policy = "recompute") =>
    \A i \in Checksums(program.records) :
      LET spec == Named(output.registry, "file_checksum")
          others == [output.parts EXCEPT ![i] = <<>>]
      IN  /\ Fits(spec, output.parts[i])
          /\ DecodedValues(spec, output.parts[i])
               = <<[number |-> Total(Concatenated(others))]>>

=============================================================================
