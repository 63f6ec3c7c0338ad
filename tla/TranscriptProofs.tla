-------------------------- MODULE TranscriptProofs --------------------------
(***************************************************************************)
(* Theorems about programs and transcripts, for every set of registries,   *)
(* files, streams, edits and events: what was read is written as it was    *)
(* read, what was edited as it was edited, and a transcript tells what was *)
(* on the wire.                                                            *)
(*                                                                         *)
(* ProgramInv is inductive for the steps of a program.  Origin ties the    *)
(* program to the stream it was read from and FreshUntilEdited says that   *)
(* what its records remember is what they say; both outlive the call of    *)
(* encode that UneditedIsLossless is about.                                *)
(*                                                                         *)
(* TranscriptInv is inductive with it.  A record of a datagram is of its   *)
(* frame (Notes): the values a package without the specification remembers *)
(* mean the frame, so a datagram that reproduces its bytes tells what they *)
(* mean, since a stream has one framing only (FramesFound).                *)
(***************************************************************************)
EXTENDS Transcript, RuidaCodecProofs

-----------------------------------------------------------------------------
(* Registries.                                                             *)

\* A command that a package knows is one of its own.
IsOwn(registry, spec) ==
  /\ spec \in registry /\ HasName(registry, spec.name)
  /\ Named(registry, spec.name) = spec

\* A specification is found by its own name.
LEMMA OwnSpec ==
  ASSUME NEW registry \in Registries, NEW spec \in registry
  PROVE  IsOwn(registry, spec)
<1>1. \A s, t \in registry : s.name = t.name => s = t
  BY ProgramAssumption DEF RegistryIsValid
<1> QED
  BY <1>1 DEF IsOwn, HasName, Named

\* What is found by a name has the name.
LEMMA NamedSpec ==
  ASSUME NEW registry \in Registries, NEW name, HasName(registry, name)
  PROVE  /\ Named(registry, name) \in registry
         /\ Named(registry, name).name = name
BY DEF HasName, Named

\* The reader knows every command, and by the same specification.
LEMMA ReadingKnows ==
  /\ Reading \in Registries
  /\ \A r \in Registries : r \subseteq Reading
BY RegistriesAssumption DEF Reading

\* Every package finds the same specification as the one that knows them all.
LEMMA SameSpec ==
  ASSUME NEW registry \in Registries, NEW name, HasName(registry, name)
  PROVE  HasName(Reading, name) /\ Named(Reading, name) = Named(registry, name)
<1>1. PICK spec : spec = Named(registry, name) /\ spec \in registry /\ spec.name = name
  BY NamedSpec
<1>2. spec \in Reading
  BY <1>1, ReadingKnows
<1>3. IsOwn(Reading, spec)
  BY <1>2, ReadingKnows, OwnSpec
<1> QED
  BY <1>1, <1>3 DEF IsOwn

\* Specifications of registries are well-formed, and their opcode begins a frame.
LEMMA SpecTypes ==
  ASSUME NEW registry \in Registries, NEW spec \in registry
  PROVE  /\ IsSpec(spec)
         /\ spec.opcode # <<>> /\ spec.opcode[1] >= Base /\ IsDigits(Tail(spec.opcode))
<1>1. /\ SpecIsValid(spec)
      /\ spec.opcode # <<>> /\ spec.opcode[1] >= Base /\ IsDigits(Tail(spec.opcode))
  BY ProgramAssumption DEF RegistryIsValid
<1>2. PICK F : F = {spec.fields[k] : k \in DOMAIN spec.fields}
  OBVIOUS
<1>3. spec.fields \in Seq(F)
  BY <1>1, <1>2 DEF SpecIsValid
<1>4. Len(spec.fields) \in Nat /\ DOMAIN spec.fields = 1..Len(spec.fields)
  BY <1>3, LenProperties
<1> QED
  BY <1>1, <1>4 DEF IsSpec, SpecIsValid

\* What a command is encoded to is a frame that begins it.
LEMMA SpecFrames ==
  ASSUME NEW registry \in Registries, NEW spec \in registry, NEW values,
         IsValues(values), ValuesFit(spec, values), NEW bytes,
         bytes = EncodedValues(spec, values)
  PROVE  IsFrame(bytes) /\ bytes[1] >= Base
<1>1. PICK opcode \in Seq(0..(Bytes - 1)) :
        /\ opcode = spec.opcode /\ opcode # <<>> /\ opcode[1] >= Base
        /\ IsDigits(Tail(opcode))
  BY SpecTypes DEF IsSpec
<1>2. PICK n \in Nat : values \in [1..n -> Value]
  BY DEF IsValues
<1>3. ASSUME NEW k \in 1..n
      PROVE  FieldBytes(spec.fields[k], values[k]) \in Seq(Digit)
  <2>1. k \in DOMAIN values /\ values[k] \in Value
    BY <1>2
  <2>2. ValueFits(spec.fields[k], values[k]) /\ DOMAIN values = DOMAIN spec.fields
    BY <2>1 DEF ValuesFit
  <2>3. FieldIsValid(spec.fields[k])
    BY <2>1, <2>2, SpecTypes DEF IsSpec
  <2> QED
    BY <2>1, <2>2, <2>3, FieldWritten
<1>4. PICK parts : parts = FieldParts(spec, values)
  OBVIOUS
<1>5. parts \in [1..n -> Seq(Digit)]
  BY <1>2, <1>3, <1>4 DEF FieldParts
<1>6. PICK rest \in Seq(Digit) : rest = Concatenated(parts)
  BY <1>5, JoinedTypes
<1>7. bytes = opcode \o rest
  BY <1>1, <1>4, <1>6 DEF EncodedValues, FieldParts
<1>8. rest \in Seq(0..(Bytes - 1)) /\ Base \in Nat
  BY <1>6, DigitIsByte, SeqMonotonic
<1>9. Len(opcode) \in Nat \ {0} /\ Len(rest) \in Nat
  BY <1>1, <1>8, LenProperties, EmptySeq
<1>10. /\ Len(bytes) = Len(opcode) + Len(rest)
       /\ \A i \in 1..Len(bytes) :
            bytes[i] = IF i <= Len(opcode) THEN opcode[i] ELSE rest[i - Len(opcode)]
  BY <1>1, <1>7, <1>8, ConcatProperties
<1>11. \A i \in 2..Len(opcode) : ~(opcode[i] >= Base)
  <2>1. /\ Tail(opcode) \in [1..(Len(opcode) - 1) -> 0..(Bytes - 1)]
        /\ \A i \in 1..(Len(opcode) - 1) : Tail(opcode)[i] = opcode[i + 1]
    <3>1. PICK B : B = 0..(Bytes - 1)
      OBVIOUS
    <3>2. opcode \in Seq(B) /\ opcode # <<>>
      BY <1>1, <3>1
    <3>3. /\ Tail(opcode) \in Seq(B) /\ Len(Tail(opcode)) = Len(opcode) - 1
          /\ \A i \in 1..Len(Tail(opcode)) : Tail(opcode)[i] = opcode[i + 1]
      BY <3>2, HeadTailProperties
    <3> QED
      BY <1>9, <3>1, <3>3, LenProperties
  <2>2. ASSUME NEW i \in 2..Len(opcode)
        PROVE  ~(opcode[i] >= Base)
    <3>1. PICK j : j = i - 1 /\ j \in 1..(Len(opcode) - 1) /\ j + 1 = i
      BY <1>9
    <3>2. PICK b : b = Tail(opcode)[j] /\ b = opcode[i]
      BY <2>1, <3>1
    <3>3. b < Base /\ b \in 0..(Bytes - 1)
      BY <1>1, <2>1, <3>1, <3>2 DEF IsDigits
    <3>4. b \in Nat /\ Base \in Nat
      BY <3>3, DigitIsByte
    <3>5. ~(b >= Base)
      BY <3>3, <3>4
    <3> QED
      BY <3>2, <3>5
  <2> QED
    BY <2>2
<1>12. \A i \in 1..Len(rest) : ~(rest[i] >= Base)
  <2>1. \A i \in 1..Len(rest) : rest[i] \in Digit
    BY <1>6
  <2> QED
    BY <1>8, <2>1 DEF Digit
<1>13. ASSUME NEW i \in 2..Len(bytes)
       PROVE  ~(bytes[i] >= Base)
  <2>1. i \in 1..Len(bytes)
    BY <1>9, <1>10
  <2>2. CASE i <= Len(opcode)
    BY <1>9, <1>10, <1>11, <2>1, <2>2
  <2>3. CASE ~(i <= Len(opcode))
    <3>1. i - Len(opcode) \in 1..Len(rest)
      BY <1>9, <1>10, <2>3
    <3> QED
      BY <1>10, <1>12, <2>1, <2>3, <3>1
  <2> QED
    BY <2>2, <2>3
<1>14. 1 \in 1..Len(bytes) /\ 1 <= Len(opcode)
  BY <1>9, <1>10
<1>15. bytes[1] = opcode[1]
  BY <1>10, <1>14
<1>16. bytes # <<>>
  BY <1>14, EmptySeq
<1> QED
  BY <1>1, <1>13, <1>15, <1>16 DEF IsFrame

-----------------------------------------------------------------------------
(* Records.                                                                *)

AnyRecord == Span \cup Known

\* The record of a frame that was read.
IsFor(record, spec) ==
  /\ record.name = spec.name /\ record.opcode = spec.opcode
  /\ Fits(spec, record.raw) /\ record.values = DecodedValues(spec, record.raw)
  /\ record.baseline = NoBaseline

AsRead(record, registry) ==
  /\ record \in AnyRecord /\ record.raw \in Seq(Byte)
  /\ record.kind = "command" => \E spec \in registry : IsFor(record, spec)

\* A record is a command or a raw span.
LEMMA RecordKinds ==
  ASSUME NEW record \in AnyRecord
  PROVE  /\ record.kind = "command" => record \in Known
         /\ record.kind # "command" => record \in Span /\ record.raw \in Seq(Byte)
BY DEF AnyRecord, Span, Known

\* A raw span is of its bytes.
LEMMA SpanRead ==
  ASSUME NEW data \in Seq(Byte), NEW registry
  PROVE  AsRead(RawSpan(data), registry) /\ RawSpan(data).raw = data
BY DEF AsRead, AnyRecord, Span, RawSpan

\* Values in a row are a sequence of values.
LEMMA ValuesAre ==
  ASSUME NEW n \in Nat, NEW values \in [1..n -> Value]
  PROVE  values \in Seq(Value) /\ IsValues(values)
<1>1. values \in Seq(Value)
  BY SeqDef
<1> QED
  BY <1>1 DEF IsValues

\* A sequence of values is values in a row.
LEMMA SeqIsValues ==
  ASSUME NEW values \in Seq(Value)
  PROVE  IsValues(values)
<1>1. Len(values) \in Nat /\ values \in [1..Len(values) -> Value]
  BY LenProperties
<1> QED
  BY <1>1 DEF IsValues

\* A command made of a specification is a command.
LEMMA KnownTypes ==
  ASSUME NEW registry \in Registries, NEW spec \in registry,
         NEW values \in Seq(Value), NEW raw \in Seq(Byte) \cup {NoRaw}
  PROVE  KnownCommand(spec, values, raw) \in Known
<1>1. spec.opcode \in Seq(Byte)
  BY SpecTypes, ProgramAssumption DEF IsSpec
<1>2. spec.name \in {s.name : s \in UNION Registries}
  OBVIOUS
<1> QED
  BY <1>1, <1>2 DEF KnownCommand, Known

\* The record of a frame is of the frame and a specification that fits it.
LEMMA FrameRead ==
  ASSUME NEW registry \in Registries, NEW frame \in Seq(Byte)
  PROVE  /\ AsRead(FrameRecord(frame, registry), registry)
         /\ FrameRecord(frame, registry).raw = frame
<1>1. CASE IsCommand(frame, registry)
  <2>1. Fitting(frame, registry) # {}
    <3>1. Cardinality({}) = 0
      BY FS_EmptySet
    <3> QED
      BY <1>1, <3>1 DEF IsCommand
  <2>2. PICK spec : spec = CHOOSE s \in Fitting(frame, registry) : TRUE
    OBVIOUS
  <2>3. spec \in registry /\ Fits(spec, frame)
    BY <2>1, <2>2 DEF Fitting
  <2>4. PICK values : values = DecodedValues(spec, frame)
    OBVIOUS
  <2>5. IsSpec(spec) /\ Len(spec.fields) \in Nat
    BY <2>3, SpecTypes DEF IsSpec
  <2>6. frame \in Seq(0..(Bytes - 1))
    BY ProgramAssumption
  <2>7. values \in [1..Len(spec.fields) -> Value]
    BY <2>3, <2>4, <2>5, <2>6, SpecRead
  <2>8. values \in Seq(Value)
    BY <2>5, <2>7, ValuesAre
  <2>9. PICK record : record = KnownCommand(spec, values, frame)
    OBVIOUS
  <2>10. FrameRecord(frame, registry) = record
    BY <1>1, <2>2, <2>4, <2>9 DEF FrameRecord
  <2>11. record \in AnyRecord
    BY <2>3, <2>8, <2>9, KnownTypes DEF AnyRecord
  <2>12. record.raw = frame /\ IsFor(record, spec)
    BY <2>3, <2>4, <2>9 DEF KnownCommand, IsFor
  <2> QED
    BY <2>3, <2>10, <2>11, <2>12 DEF AsRead
<1>2. CASE ~IsCommand(frame, registry)
  BY <1>2, SpanRead DEF FrameRecord
<1> QED
  BY <1>1, <1>2

\* The records of a stream.
LEMMA StreamRead ==
  ASSUME NEW registry \in Registries, NEW data \in Seq(Byte), NEW list,
         list = DecodedRecords(data, registry),
         NEW frames, frames = LogicalFrames(data)
  PROVE  /\ frames \in Seq(Seq(Byte)) /\ IsFraming(frames)
         /\ Concatenated(frames) = data
         /\ list \in Seq(AnyRecord) /\ Len(list) = Len(frames)
         /\ \A n \in 1..Len(frames) :
              AsRead(list[n], registry) /\ list[n].raw = frames[n]
<1>1. /\ frames \in Seq(Seq(Byte)) /\ IsFraming(frames)
      /\ Concatenated(frames) = data
  BY FramesMakeUp DEF IsMadeUp
<1>2. PICK n \in Nat : n = Len(frames) /\ DOMAIN frames = 1..n
  BY <1>1, LenProperties
<1>3. \A k \in 1..n : frames[k] \in Seq(Byte)
  BY <1>1, <1>2, LenProperties
<1>4. list = [k \in 1..n |-> FrameRecord(frames[k], registry)]
  BY <1>2 DEF DecodedRecords
<1>5. ASSUME NEW k \in 1..n
      PROVE  /\ AsRead(list[k], registry) /\ list[k].raw = frames[k]
             /\ list[k] \in AnyRecord
  <2>1. list[k] = FrameRecord(frames[k], registry) /\ frames[k] \in Seq(Byte)
    BY <1>3, <1>4
  <2>2. AsRead(list[k], registry) /\ list[k].raw = frames[k]
    BY <2>1, FrameRead
  <2> QED
    BY <2>2 DEF AsRead
<1>6. list \in [1..n -> AnyRecord]
  BY <1>4, <1>5
<1>7. list \in Seq(AnyRecord) /\ Len(list) = n
  BY <1>6, SeqDef, LenProperties
<1> QED
  BY <1>1, <1>2, <1>5, <1>7

-----------------------------------------------------------------------------
(* Writing.                                                                *)

\* The bytes a known command is written as mean its values.
LEMMA KnownWritten ==
  ASSUME NEW registry \in Registries, NEW spec \in registry,
         NEW record \in Known, ValuesFit(spec, record.values),
         NEW bytes, bytes = KnownBytes(record, spec)
  PROVE  bytes \in Seq(Byte) /\ Written(spec, bytes, record.values)
<1>1. CASE StillMeans(record, spec)
  <2>1. bytes = record.raw /\ record.raw \in Seq(Byte)
    BY <1>1 DEF StillMeans, KnownBytes, Known
  <2>2. Fits(spec, bytes) /\ DecodedValues(spec, bytes) = record.values
    BY <1>1, <2>1 DEF StillMeans
  <2> QED
    BY <2>1, <2>2 DEF Written
<1>2. CASE ~StillMeans(record, spec)
  <2>1. PICK values : values = record.values
    OBVIOUS
  <2>2. bytes = EncodedValues(spec, values) /\ ValuesFit(spec, values)
    BY <1>2, <2>1 DEF KnownBytes
  <2>3. values \in Seq(Value)
    BY <2>1 DEF Known
  <2>4. IsValues(values) /\ IsSpec(spec)
    BY <2>3, SeqIsValues, SpecTypes
  <2>5. /\ bytes \in Seq(0..(Bytes - 1)) /\ Fits(spec, bytes)
        /\ EncodedValues(spec, DecodedValues(spec, bytes)) = bytes
    BY <2>2, <2>4, SpecWritten
  <2> QED
    BY <2>1, <2>2, <2>5, ProgramAssumption DEF Written
<1> QED
  BY <1>1, <1>2

\* What a record that can be encoded is written as.
LEMMA RecordWritten ==
  ASSUME NEW registry \in Registries, NEW record \in AnyRecord,
         CanEncode(record, registry), NEW bytes, bytes = RecordBytes(record, registry)
  PROVE  /\ bytes \in Seq(Byte)
         /\ IF record.kind = "command" /\ HasName(registry, record.name)
              THEN /\ Written(Named(registry, record.name), bytes, record.values)
                   /\ record.opcode = Named(registry, record.name).opcode
              ELSE bytes = record.raw
         /\ record.kind = "command" /\ ~HasName(registry, record.name)
              => CanRepeat(record)
<1>1. CASE record.kind = "command" /\ HasName(registry, record.name)
  <2>1. PICK spec : spec = Named(registry, record.name)
    OBVIOUS
  <2>2. spec \in registry /\ record \in Known
    BY <1>1, <2>1, NamedSpec, RecordKinds
  <2>3. ValuesFit(spec, record.values) /\ record.opcode = spec.opcode
    BY <1>1, <2>1 DEF CanEncode
  <2>4. bytes = KnownBytes(record, spec)
    BY <1>1, <2>1 DEF RecordBytes
  <2>5. bytes \in Seq(Byte) /\ Written(spec, bytes, record.values)
    BY <2>2, <2>3, <2>4, KnownWritten
  <2> QED
    BY <1>1, <2>1, <2>3, <2>5
<1>2. CASE record.kind = "command" /\ ~HasName(registry, record.name)
  <2>1. CanRepeat(record) /\ bytes = record.raw /\ record \in Known
    BY <1>2, RecordKinds DEF CanEncode, RecordBytes
  <2>2. record.raw \in Seq(Byte)
    BY <2>1 DEF CanRepeat, Known
  <2> QED
    BY <1>2, <2>1, <2>2
<1>3. CASE record.kind # "command"
  BY <1>3, RecordKinds DEF RecordBytes
<1> QED
  BY <1>1, <1>2, <1>3

\* What a list of records encodes to, record by record.
LEMMA PlainIs ==
  ASSUME NEW registry \in Registries, NEW list \in Seq(AnyRecord),
         AllEncode(list, registry), NEW parts, parts = Plain(list, registry)
  PROVE  /\ parts \in Seq(Seq(Byte)) /\ Len(parts) = Len(list)
         /\ parts \in [1..Len(list) -> Seq(Byte)] /\ Len(list) \in Nat
         /\ \A i \in 1..Len(list) : parts[i] = RecordBytes(list[i], registry)
<1>1. PICK n \in Nat : n = Len(list) /\ DOMAIN list = 1..n
  BY LenProperties
<1>2. parts = [i \in 1..n |-> RecordBytes(list[i], registry)]
  BY <1>1 DEF Plain
<1>3. ASSUME NEW i \in 1..n
      PROVE  RecordBytes(list[i], registry) \in Seq(Byte)
  <2>1. CanEncode(list[i], registry) /\ list[i] \in AnyRecord
    BY <1>1, LenProperties DEF AllEncode
  <2> QED
    BY <2>1, RecordWritten
<1>4. parts \in [1..n -> Seq(Byte)]
  BY <1>2, <1>3
<1>5. parts \in Seq(Seq(Byte)) /\ Len(parts) = n
  BY <1>4, SeqDef, LenProperties
<1> QED
  BY <1>1, <1>2, <1>4, <1>5

\* Encoding leaves of a record all but the values it remembers.
IsKept(new, old) ==
  /\ new.kind = old.kind /\ new.raw = old.raw /\ Without(new) = Without(old)
  /\ old.kind = "command" =>
       /\ new.name = old.name /\ new.opcode = old.opcode /\ new.values = old.values
       /\ \/ new.baseline = old.baseline
          \/ old.baseline = NoBaseline /\ new.baseline = old.values

\* Encoding a record keeps all of it but what it remembers.
LEMMA BaselineIs ==
  ASSUME NEW record \in AnyRecord, NEW registry, NEW new,
         new = Baseline(record, registry)
  PROVE  /\ new \in AnyRecord /\ IsKept(new, record)
         /\ record.kind = "command" =>
              IF HasName(registry, record.name) THEN new = record
              ELSE new.baseline # NoBaseline
<1>1. CASE record.kind = "command" /\ ~HasName(registry, record.name)
  <2>1. record \in Known
    BY <1>1, RecordKinds
  <2>2. PICK b : b = IF record.baseline = NoBaseline THEN record.values
                                                     ELSE record.baseline
    OBVIOUS
  <2>3. new = [record EXCEPT !.baseline = b]
    BY <1>1, <2>2 DEF Baseline
  <2>4. b \in Seq(Value)
    BY <2>1, <2>2 DEF Known
  <2>5. new \in Known /\ new.baseline = b
    BY <2>1, <2>3, <2>4 DEF Known
  <2>6. b # NoBaseline
    BY <2>4, NothingAssumption
  <2>7. /\ new.kind = record.kind /\ new.raw = record.raw /\ new.name = record.name
        /\ new.opcode = record.opcode /\ new.values = record.values
    BY <2>1, <2>3 DEF Known
  <2>8. Without(new) = Without(record)
    BY <1>1, <2>1, <2>3 DEF Without, Known
  <2>9. IsKept(new, record)
    BY <2>2, <2>5, <2>7, <2>8 DEF IsKept
  <2> QED
    BY <1>1, <2>5, <2>6, <2>9 DEF AnyRecord
<1>2. CASE ~(record.kind = "command" /\ ~HasName(registry, record.name))
  <2>1. new = record
    BY <1>2 DEF Baseline
  <2> QED
    BY <1>2, <2>1 DEF IsKept
<1> QED
  BY <1>1, <1>2

\* Encoding a list keeps all of its records but what they remember.
LEMMA EncodingIs ==
  ASSUME NEW registry, NEW list \in Seq(AnyRecord), NEW new,
         new = Encoding(list, registry)
  PROVE  /\ new \in Seq(AnyRecord) /\ Len(new) = Len(list)
         /\ \A i \in 1..Len(list) :
              /\ IsKept(new[i], list[i])
              /\ AllEncode(list, registry) =>
                   new[i] = Baseline(list[i], registry)
<1>1. PICK n \in Nat : n = Len(list) /\ DOMAIN list = 1..n
  BY LenProperties
<1>2. new = [i \in 1..n |-> IF \A j \in 1..i : CanEncode(list[j], registry)
                              THEN Baseline(list[i], registry) ELSE list[i]]
  BY <1>1 DEF Encoding
<1>3. ASSUME NEW i \in 1..n
      PROVE  /\ new[i] \in AnyRecord /\ IsKept(new[i], list[i])
             /\ AllEncode(list, registry) => new[i] = Baseline(list[i], registry)
  <2>1. list[i] \in AnyRecord
    BY <1>1, LenProperties
  <2>2. PICK b : b = Baseline(list[i], registry)
    OBVIOUS
  <2>3. b \in AnyRecord /\ IsKept(b, list[i])
    BY <2>1, <2>2, BaselineIs
  <2>4. new[i] = b \/ new[i] = list[i]
    BY <1>2, <2>2
  <2>5. IsKept(list[i], list[i])
    BY DEF IsKept
  <2>6. AllEncode(list, registry) => \A j \in 1..i : CanEncode(list[j], registry)
    BY <1>1 DEF AllEncode
  <2> QED
    BY <1>2, <2>1, <2>2, <2>3, <2>4, <2>5, <2>6
<1>4. new \in [1..n -> AnyRecord]
  BY <1>2, <1>3
<1>5. new \in Seq(AnyRecord) /\ Len(new) = n
  BY <1>4, SeqDef, LenProperties
<1> QED
  BY <1>1, <1>3, <1>5

\* What a policy writes for a record.
IsEdited(record, part, registry, policy) ==
  IF record.kind = "command" /\ HasName(registry, record.name)
    THEN \/ policy = "recompute" /\ IsChecksum(record)
         \/ Written(Named(registry, record.name), part, record.values)
    ELSE part = record.raw

\* What is written is what the records say, whichever the policy.
LEMMA PartsAreEdited ==
  ASSUME NEW registry \in Registries, NEW list \in Seq(AnyRecord),
         AllEncode(list, registry), NEW policy,
         policy = "recompute" => CanRecompute(list, registry),
         NEW parts, parts = Parts(list, registry, policy)
  PROVE  \A i \in 1..Len(list) : IsEdited(list[i], parts[i], registry, policy)
<1>1. PICK plain : plain = Plain(list, registry)
  OBVIOUS
<1>2. PICK n \in Nat : n = Len(list) /\ DOMAIN list = 1..n
  BY LenProperties
<1>3. ASSUME NEW i \in 1..n
      PROVE  IsEdited(list[i], plain[i], registry, "preserve")
  <2>1. list[i] \in AnyRecord /\ CanEncode(list[i], registry)
    BY <1>2, LenProperties DEF AllEncode
  <2>2. plain[i] = RecordBytes(list[i], registry)
    BY <1>1, <1>2, PlainIs
  <2> QED
    BY <2>1, <2>2, RecordWritten DEF IsEdited
<1>4. CASE policy # "recompute"
  <2>1. parts = plain
    BY <1>1, <1>4 DEF Parts
  <2> QED
    BY <1>2, <1>3, <1>4, <2>1 DEF IsEdited
<1>5. CASE policy = "recompute"
  <2>1. PICK b : b = EncodedValues(Named(registry, "file_checksum"),
                        <<[number |-> Basis(list, plain)]>>)
    OBVIOUS
  <2>2. parts = [i \in 1..n |-> IF IsChecksum(list[i]) THEN b ELSE plain[i]]
    BY <1>1, <1>2, <1>5, <2>1 DEF Parts, Recomputed
  <2>3. ASSUME NEW i \in 1..n
        PROVE  IsEdited(list[i], parts[i], registry, policy)
    <3>1. CASE IsChecksum(list[i])
      <4>1. i \in Checksums(list)
        BY <1>2, <3>1 DEF Checksums
      <4>2. HasName(registry, "file_checksum")
        BY <1>5, <4>1 DEF CanRecompute
      <4> QED
        BY <1>5, <3>1, <4>2 DEF IsEdited, IsChecksum
    <3>2. CASE ~IsChecksum(list[i])
      <4>1. parts[i] = plain[i]
        BY <2>2, <3>2
      <4> QED
        BY <1>3, <4>1 DEF IsEdited
    <3> QED
      BY <3>1, <3>2
  <2> QED
    BY <1>2, <2>3
<1> QED
  BY <1>4, <1>5

\* A recomputed checksum is the sum of the other parts.
IsTrue(i, parts, registry) ==
  LET spec == Named(registry, "file_checksum")
  IN  /\ Fits(spec, parts[i])
      /\ DecodedValues(spec, parts[i])
           = <<[number |-> Total(Concatenated([parts EXCEPT ![i] = <<>>]))]>>

\* At most one means the same one.
LEMMA OneChecksum ==
  ASSUME NEW S, IsFiniteSet(S), Cardinality(S) <= 1, NEW i \in S, NEW j \in S
  PROVE  i = j
<1>1. IsFiniteSet({i}) /\ Cardinality({i}) = 1
  BY FS_Singleton
<1>2. Cardinality({i}) <= Cardinality(S) /\ (Cardinality(S) = Cardinality({i}) => S = {i})
  <2>1. {i} \in SUBSET S
    OBVIOUS
  <2> QED
    BY <2>1, FS_Subset
<1>3. Cardinality(S) \in Nat
  BY FS_CardinalityType
<1>4. S = {i}
  BY <1>1, <1>2, <1>3
<1> QED
  BY <1>4

\* A recomputed checksum is the sum of all the other parts.
LEMMA ChecksumsAreTrue ==
  ASSUME NEW registry \in Registries, NEW list \in Seq(AnyRecord),
         AllEncode(list, registry), CanRecompute(list, registry),
         NEW parts, parts = Recomputed(list, registry)
  PROVE  \A i \in Checksums(list) : IsTrue(i, parts, registry)
<1>1. PICK n \in Nat : n = Len(list) /\ DOMAIN list = 1..n
  BY LenProperties
<1>2. PICK plain : plain = Plain(list, registry) /\ plain \in [1..n -> Seq(Byte)]
  BY <1>1, PlainIs
<1> SUFFICES ASSUME NEW i \in Checksums(list)
             PROVE  IsTrue(i, parts, registry)
  OBVIOUS
<1>3. i \in 1..n /\ IsChecksum(list[i])
  BY <1>1 DEF Checksums
<1>4. PICK others : others = [k \in 1..n |-> IF IsChecksum(list[k]) THEN <<>> ELSE plain[k]]
  OBVIOUS
<1>5. others \in [1..n -> Seq(Byte)]
  <2>1. <<>> \in Seq(Byte)
    BY EmptySeq
  <2> QED
    BY <1>2, <1>4, <2>1
<1>6. PICK sum \in Nat : sum = Total(Concatenated(others))
  <2>1. Concatenated(others) \in Seq(Byte)
    BY <1>5, JoinedTypes
  <2>2. Byte \subseteq Nat
    BY DigitIsByte, ProgramAssumption
  <2>3. Concatenated(others) \in Seq(Nat)
    BY <2>1, <2>2, SeqMonotonic
  <2> QED
    BY <2>3, TotalTypes
<1>7. Basis(list, plain) = sum
  BY <1>1, <1>4, <1>6 DEF Basis
<1>8. PICK spec : spec = Named(registry, "file_checksum")
  OBVIOUS
<1>9. PICK values : values = <<[number |-> sum]>>
  OBVIOUS
<1>10. /\ Cardinality(Checksums(list)) <= 1 /\ HasName(registry, "file_checksum")
       /\ ValuesFit(spec, values)
  BY <1>2, <1>7, <1>8, <1>9 DEF CanRecompute
<1>11. spec \in registry /\ spec.name = "file_checksum"
  BY <1>8, <1>10, NamedSpec
<1>12. IsSpec(spec) /\ \A k \in DOMAIN spec.fields :
                         spec.fields[k].kind = "unsigned" /\ spec.fields[k].scale = 1
  BY <1>11, SpecTypes, RegistriesAssumption
<1>13. IsValues(values)
  <2>1. [number |-> sum] \in Value
    <3>1. sum \in Int
      OBVIOUS
    <3> QED
      BY <3>1 DEF Value
  <2>2. values \in [1..1 -> Value] /\ 1 \in Nat
    BY <1>9, <2>1
  <2> QED
    BY <2>2 DEF IsValues
<1>14. PICK b : b = EncodedValues(spec, values)
  OBVIOUS
<1>15. Fits(spec, b) /\ DecodedValues(spec, b) = values
  BY <1>10, <1>12, <1>13, <1>14, SpecWritten
<1>16. parts = [k \in 1..n |-> IF IsChecksum(list[k]) THEN b ELSE plain[k]]
  BY <1>1, <1>2, <1>7, <1>8, <1>9, <1>14 DEF Recomputed
<1>17. [parts EXCEPT ![i] = <<>>] = others
  <2>1. IsFiniteSet(Checksums(list))
    <3>1. IsFiniteSet(1..n)
      BY 1 \in Int, n \in Int, FS_Interval
    <3>2. Checksums(list) \in SUBSET (1..n)
      BY <1>1 DEF Checksums
    <3> QED
      BY <3>1, <3>2, FS_Subset
  <2>2. ASSUME NEW k \in 1..n, IsChecksum(list[k])
        PROVE  k = i
    <3>1. k \in Checksums(list)
      BY <1>1, <2>2 DEF Checksums
    <3> QED
      BY <1>10, <2>1, <3>1, OneChecksum
  <2>3. \A k \in 1..n : [parts EXCEPT ![i] = <<>>][k] = others[k]
    BY <1>3, <1>4, <1>16, <2>2
  <2>4. [parts EXCEPT ![i] = <<>>] = [k \in 1..n |-> [parts EXCEPT ![i] = <<>>][k]]
    BY <1>16
  <2>5. others = [k \in 1..n |-> others[k]]
    BY <1>4
  <2> QED
    BY <2>3, <2>4, <2>5
<1>18. parts[i] = b
  BY <1>3, <1>16
<1> QED
  BY <1>6, <1>8, <1>9, <1>15, <1>17, <1>18 DEF IsTrue

\* A record whose values are those that were read is written as it was read.
Fresh(record) == record.kind = "command" => record.baseline \in {NoBaseline, record.values}

IsKnownTo(record, registry) == record.kind = "command" => HasName(registry, record.name)

\* A record with the values that were read is written as it was read.
LEMMA RecordLossless ==
  ASSUME NEW registry \in Registries, NEW record \in AnyRecord, NEW old,
         AsRead(old, Reading), Without(record) = old,
         Fresh(record) \/ IsKnownTo(record, registry)
  PROVE  CanEncode(record, registry) /\ RecordBytes(record, registry) = old.raw
<1>1. CASE record.kind # "command"
  <2>1. record.kind = "raw"
    BY <1>1, RecordKinds DEF Span
  <2>2. old = record
    BY <2>1 DEF Without
  <2> QED
    BY <1>1, <2>2 DEF CanEncode, RecordBytes
<1>2. CASE record.kind = "command"
  <2>1. record \in Known
    BY <1>2, RecordKinds
  <2>2. old = [record EXCEPT !.baseline = NoBaseline]
    BY <1>2 DEF Without
  <2>3. /\ old.kind = "command" /\ old.name = record.name /\ old.raw = record.raw
        /\ old.opcode = record.opcode /\ old.values = record.values
    BY <1>2, <2>1, <2>2 DEF Known
  <2>4. PICK spec \in Reading : IsFor(old, spec)
    BY <2>3 DEF AsRead
  <2>5. old.raw \in Seq(Byte) /\ old.raw # NoRaw
    BY NothingAssumption DEF AsRead
  <2>6. /\ record.name = spec.name /\ record.opcode = spec.opcode
        /\ Fits(spec, record.raw) /\ DecodedValues(spec, record.raw) = record.values
    BY <2>3, <2>4 DEF IsFor
  <2>7. CASE HasName(registry, record.name)
    <3>1. Named(registry, record.name) = spec
      <4>1. Named(Reading, spec.name) = spec
        BY ReadingKnows, OwnSpec DEF IsOwn
      <4> QED
        BY <2>6, <2>7, <4>1, SameSpec
    <3>2. IsSpec(spec) /\ record.raw \in Seq(0..(Bytes - 1))
      BY <2>3, <2>5, ReadingKnows, SpecTypes, ProgramAssumption
    <3>3. ValuesFit(spec, record.values)
      BY <2>6, <3>2, SpecRead
    <3>4. CanEncode(record, registry)
      BY <2>6, <2>7, <3>1, <3>3 DEF CanEncode
    <3>5. StillMeans(record, spec)
      BY <2>3, <2>5, <2>6 DEF StillMeans
    <3>6. RecordBytes(record, registry) = record.raw
      BY <1>2, <2>7, <3>1, <3>5 DEF RecordBytes, KnownBytes
    <3> QED
      BY <2>3, <3>4, <3>6
  <2>8. CASE ~HasName(registry, record.name)
    <3>1. record.baseline \in {NoBaseline, record.values}
      BY <1>2, <2>8 DEF Fresh, IsKnownTo
    <3>2. SubSeq(record.raw, 1, Len(record.opcode)) = record.opcode
      BY <2>6 DEF Fits, HasOpcode
    <3>3. CanRepeat(record)
      BY <2>3, <2>5, <3>1, <3>2 DEF CanRepeat
    <3> QED
      BY <2>3, <2>8, <3>3 DEF CanEncode, RecordBytes
  <2> QED
    BY <2>7, <2>8
<1> QED
  BY <1>1, <1>2

Raws(list) == [i \in DOMAIN list |-> list[i].raw]

\* A list of such records is written as it was read.
LEMMA ListLossless ==
  ASSUME NEW registry \in Registries, NEW list \in Seq(AnyRecord), NEW old,
         [i \in DOMAIN list |-> Without(list[i])] = old,
         \A i \in DOMAIN old : AsRead(old[i], Reading),
         \/ \A i \in DOMAIN list : Fresh(list[i])
         \/ \A i \in DOMAIN list : IsKnownTo(list[i], registry)
  PROVE  AllEncode(list, registry) /\ Plain(list, registry) = Raws(old)
<1>1. DOMAIN old = DOMAIN list /\ \A i \in DOMAIN list : list[i] \in AnyRecord
  BY LenProperties
<1>2. ASSUME NEW i \in DOMAIN list
      PROVE  CanEncode(list[i], registry) /\ RecordBytes(list[i], registry) = old[i].raw
  <2>1. Without(list[i]) = old[i] /\ AsRead(old[i], Reading)
    BY <1>1
  <2>2. Fresh(list[i]) \/ IsKnownTo(list[i], registry)
    OBVIOUS
  <2> QED
    BY <1>1, <2>1, <2>2, RecordLossless
<1> QED
  BY <1>1, <1>2 DEF AllEncode, Plain, Raws

-----------------------------------------------------------------------------
(* The records of the decoder in order.                                    *)

\* A list of positions, in order.
Ascends(list, n, C) ==
  /\ list \in [1..n -> Nat] /\ C = {list[i] : i \in 1..n}
  /\ \A i, j \in 1..n : i < j => list[i] < list[j]

\* A finite set of positions can be listed in order.
LEMMA Ascending ==
  ASSUME NEW size \in Nat, NEW cuts, cuts \subseteq 0..(size - 1)
  PROVE  \E n \in Nat : \E list : Ascends(list, n, cuts)
<1> DEFINE T == {k \in Nat : \A C \in SUBSET (0..(k - 1)) :
                               \E n \in Nat : \E list : Ascends(list, n, C)}
<1>1. 0 \in T
  <2>1. ASSUME NEW C \in SUBSET (0..(0 - 1))
        PROVE  \E n \in Nat : \E list : Ascends(list, n, C)
    <3>1. C = {}
      OBVIOUS
    <3>2. Ascends([i \in 1..0 |-> 0], 0, C)
      BY <3>1 DEF Ascends
    <3> QED
      BY <3>2
  <2> QED
    BY <2>1
<1>2. ASSUME NEW k \in Nat, k \in T
      PROVE  k + 1 \in T
  <2>1. ASSUME NEW C \in SUBSET (0..((k + 1) - 1))
        PROVE  \E n \in Nat : \E list : Ascends(list, n, C)
    <3>1. PICK D : D = C \ {k}
      OBVIOUS
    <3>2. D \in SUBSET (0..(k - 1))
      BY <3>1
    <3>3. PICK n \in Nat : \E l : Ascends(l, n, D)
      BY <1>2, <3>2
    <3>4. PICK list : Ascends(list, n, D)
      BY <3>3
    <3>5. CASE k \notin C
      <4>1. C = D
        BY <3>1, <3>5
      <4> QED
        BY <3>4, <4>1
    <3>6. CASE k \in C
      <4>1. PICK more : more = [i \in 1..(n + 1) |-> IF i = n + 1 THEN k ELSE list[i]]
        OBVIOUS
      <4>2. more[n + 1] = k /\ \A i \in 1..n : more[i] = list[i]
        BY <4>1
      <4>3. \A i \in 1..n : list[i] \in Nat /\ list[i] \in D /\ list[i] < k
        BY <3>2, <3>4 DEF Ascends
      <4>4. more \in [1..(n + 1) -> Nat]
        BY <4>1, <4>3
      <4>5. \A i, j \in 1..(n + 1) : i < j => more[i] < more[j]
        <5>1. ASSUME NEW i \in 1..(n + 1), NEW j \in 1..(n + 1), i < j
              PROVE  more[i] < more[j]
          <6>1. i \in 1..n
            BY <5>1
          <6>2. CASE j = n + 1
            BY <4>2, <4>3, <6>1, <6>2
          <6>3. CASE j # n + 1
            <7>1. j \in 1..n
              BY <6>3
            <7> QED
              BY <3>4, <4>2, <5>1, <6>1, <7>1 DEF Ascends
          <6> QED
            BY <6>2, <6>3
        <5> QED
          BY <5>1
      <4>6. C = {more[i] : i \in 1..(n + 1)}
        <5>1. C = D \cup {k}
          BY <3>1, <3>6
        <5>2. D = {list[i] : i \in 1..n}
          BY <3>4 DEF Ascends
        <5>3. ASSUME NEW c \in C PROVE c \in {more[i] : i \in 1..(n + 1)}
          <6>1. CASE c = k
            BY <4>2, <6>1, n + 1 \in 1..(n + 1)
          <6>2. CASE c \in D
            <7>1. PICK i \in 1..n : c = list[i]
              BY <5>2, <6>2
            <7>2. i \in 1..(n + 1) /\ c = more[i]
              BY <4>2, <7>1
            <7> QED
              BY <7>2
          <6> QED
            BY <5>1, <6>1, <6>2
        <5>4. ASSUME NEW i \in 1..(n + 1) PROVE more[i] \in C
          <6>1. CASE i = n + 1
            BY <4>2, <5>1, <6>1
          <6>2. CASE i # n + 1
            <7>1. i \in 1..n
              BY <6>2
            <7> QED
              BY <4>2, <4>3, <5>1, <7>1
          <6> QED
            BY <6>1, <6>2
        <5> QED
          BY <5>3, <5>4
      <4>7. Ascends(more, n + 1, C) /\ n + 1 \in Nat
        BY <4>4, <4>5, <4>6 DEF Ascends
      <4> QED
        BY <4>7
    <3> QED
      BY <3>5, <3>6
  <2> QED
    BY <2>1
<1>3. Nat \subseteq T
  <2> HIDE DEF T
  <2> QED
    BY <1>1, <1>2, Inductive
<1> QED
  BY <1>3

\* Frames lie between neighbours.
LEMMA FramesBetween ==
  ASSUME NEW n \in Nat, NEW list, NEW C, Ascends(list, n, C)
  PROVE  Frames(C) = {<<list[k], list[k + 1]>> : k \in 1..(n - 1)}
<1>1. ASSUME NEW k \in 1..(n - 1)
      PROVE  <<list[k], list[k + 1]>> \in Frames(C)
  <2>1. k \in 1..n /\ k + 1 \in 1..n /\ k < k + 1
    OBVIOUS
  <2>2. list[k] < list[k + 1] /\ list[k] \in C /\ list[k + 1] \in C
    BY <2>1 DEF Ascends
  <2>3. ASSUME NEW c \in C, list[k] < c, c < list[k + 1]
        PROVE  FALSE
    <3>1. PICK i \in 1..n : c = list[i]
      BY DEF Ascends
    <3>2. list[k] \in Nat /\ list[k + 1] \in Nat /\ c \in Nat
      BY <2>1, <3>1 DEF Ascends
    <3>3. CASE i <= k
      <4>1. list[i] <= list[k]
        <5>1. i = k \/ i < k
          BY <3>3
        <5> QED
          BY <2>1, <3>1, <3>2, <5>1 DEF Ascends
      <4> QED
        BY <2>3, <3>1, <3>2, <4>1
    <3>4. CASE i > k
      <4>1. list[k + 1] <= list[i]
        <5>1. i = k + 1 \/ k + 1 < i
          BY <3>4
        <5> QED
          BY <2>1, <3>1, <3>2, <5>1 DEF Ascends
      <4> QED
        BY <2>3, <3>1, <3>2, <4>1
    <3> QED
      BY <3>3, <3>4
  <2> QED
    BY <2>2, <2>3 DEF Frames
<1>2. ASSUME NEW f \in Frames(C)
      PROVE  f \in {<<list[k], list[k + 1]>> : k \in 1..(n - 1)}
  <2>1. /\ f[1] \in C /\ f[2] \in C /\ f = <<f[1], f[2]>> /\ f[1] < f[2]
        /\ ~\E c \in C : f[1] < c /\ c < f[2]
    BY <1>2 DEF Frames
  <2>2. PICK i \in 1..n, j \in 1..n : f[1] = list[i] /\ f[2] = list[j]
    BY <2>1 DEF Ascends
  <2>3. list[i] \in Nat /\ list[j] \in Nat /\ list[i] < list[j]
    BY <2>1, <2>2 DEF Ascends
  <2>4. i < j
    <3>1. CASE j < i
      BY <2>3, <3>1 DEF Ascends
    <3>2. i = j \/ i < j \/ j < i
      OBVIOUS
    <3> QED
      BY <2>3, <3>1, <3>2
  <2>5. i + 1 = j
    <3>1. CASE i + 1 < j
      <4>1. i + 1 \in 1..n /\ i < i + 1
        BY <2>4
      <4>2. list[i] < list[i + 1] /\ list[i + 1] < list[j] /\ list[i + 1] \in C
        BY <3>1, <4>1 DEF Ascends
      <4> QED
        BY <2>1, <2>2, <4>2
    <3> QED
      BY <2>4, <3>1
  <2>6. i \in 1..(n - 1)
    BY <2>4
  <2> QED
    BY <2>1, <2>2, <2>5, <2>6
<1> QED
  BY <1>1, <1>2

\* Counting what a list holds.
Held(list, k) == {list[j] : j \in 1..k}

Distinct(list, n) == \A i, j \in 1..n : i < j => list[i] # list[j]

\* The first k of distinct records are k.
LEMMA Counted ==
  ASSUME NEW n \in Nat, NEW list, Distinct(list, n)
  PROVE  \A k \in 0..n : IsFiniteSet(Held(list, k)) /\ Cardinality(Held(list, k)) = k
<1> DEFINE T == {k \in 0..n : /\ IsFiniteSet(Held(list, k))
                              /\ Cardinality(Held(list, k)) = k}
<1>1. 0 \in T
  <2>1. Held(list, 0) = {}
    BY DEF Held
  <2>2. 0 \in 0..n
    OBVIOUS
  <2> QED
    BY <2>1, <2>2, FS_EmptySet
<1>2. ASSUME NEW k \in 1..n, k - 1 \in T
      PROVE  k \in T
  <2>1. PICK H : H = Held(list, k - 1)
    OBVIOUS
  <2>2. IsFiniteSet(H) /\ Cardinality(H) = k - 1
    BY <1>2, <2>1
  <2>3. Held(list, k) = H \cup {list[k]}
    BY <2>1 DEF Held
  <2>4. list[k] \notin H
    BY <2>1 DEF Held, Distinct
  <2>5. IsFiniteSet(Held(list, k)) /\ Cardinality(Held(list, k)) = (k - 1) + 1
    BY <2>2, <2>3, <2>4, FS_AddElement
  <2> QED
    BY <2>5
<1>3. \A k \in 0..n : k \in T
  <2> HIDE DEF T
  <2> QED
    BY <1>1, <1>2, Along
<1> QED
  BY <1>3

\* The records in the order of their offsets.
Earlier(R, r) == {q \in R : q.offset < r.offset}

Nth(R, k) == CHOOSE r \in R : Cardinality(Earlier(R, r)) = k - 1

\* A record is the k-th if k - 1 begin before it.
LEMMA Ordered ==
  ASSUME NEW n \in Nat, NEW list, NEW at, NEW C, Ascends(at, n, C),
         \A k \in 1..n : list[k].offset = at[k],
         NEW R, R = Held(list, n)
  PROVE  Cardinality(R) = n /\ \A k \in 1..n : Nth(R, k) = list[k]
<1>1. Distinct(list, n)
  <2>1. \A i \in 1..n : at[i] \in Nat
    BY DEF Ascends
  <2>2. \A i, j \in 1..n : i < j => at[i] < at[j]
    BY DEF Ascends
  <2> QED
    BY <2>1, <2>2 DEF Distinct
<1>2. \A k \in 0..n : Cardinality(Held(list, k)) = k
  BY <1>1, Counted
<1>3. ASSUME NEW k \in 1..n
      PROVE  Cardinality(Earlier(R, list[k])) = k - 1
  <2>1. Earlier(R, list[k]) = Held(list, k - 1)
    <3>1. ASSUME NEW j \in 1..n
          PROVE  at[j] < at[k] <=> j < k
      <4>1. at[j] \in Nat /\ at[k] \in Nat
        BY DEF Ascends
      <4>2. j < k \/ j = k \/ k < j
        OBVIOUS
      <4> QED
        BY <4>1, <4>2 DEF Ascends
    <3>2. ASSUME NEW j \in 1..n
          PROVE  list[j].offset < list[k].offset <=> j \in 1..(k - 1)
      BY <3>1
    <3> QED
      BY <3>2 DEF Held, Earlier
  <2>2. k - 1 \in 0..n
    OBVIOUS
  <2> QED
    BY <1>2, <2>1, <2>2
<1>4. ASSUME NEW k \in 1..n
      PROVE  Nth(R, k) = list[k]
  <2>1. list[k] \in R
    BY DEF Held
  <2>2. ASSUME NEW r \in R, Cardinality(Earlier(R, r)) = k - 1
        PROVE  r = list[k]
    <3>1. PICK j \in 1..n : r = list[j]
      BY DEF Held
    <3>2. j - 1 = k - 1
      BY <1>3, <2>2, <3>1
    <3> QED
      BY <3>1, <3>2
  <2> QED
    BY <1>3, <2>1, <2>2 DEF Nth
<1>5. Cardinality(R) = n
  BY <1>2, n \in 0..n
<1> QED
  BY <1>4, <1>5

\* A stream that was fed as a whole is in the records of the decoder.
LEMMA AssembledStream ==
  ASSUME DecoderInv, buffer = <<>>
  PROVE  \E n \in Nat :
           /\ DOMAIN InOrder = 1..n
           /\ \A k \in 1..n : InOrder[k].raw \in Seq(Byte)
           /\ Concatenated([k \in 1..n |-> InOrder[k].raw]) = stream
<1>1. PICK size \in Nat : size = Len(stream)
  BY LenProperties DEF DecoderInv, TypeOK
<1>2. stream \in Seq(Byte) /\ offset \in Nat
  BY DEF DecoderInv, TypeOK
<1>3. offset = size
  <2>1. offset <= size /\ buffer = SubSeq(stream, offset + 1, size)
    BY <1>1 DEF DecoderInv, BufferIsTheRest
  <2>2. Len(SubSeq(stream, offset + 1, size)) = size - offset
    BY <1>1, <1>2, <2>1, Part
  <2>3. Len(<<>>) = 0
    OBVIOUS
  <2> QED
    BY <1>2, <2>1, <2>2, <2>3
<1>4. PICK cuts : cuts = {c \in StreamCuts : c <= size}
  OBVIOUS
<1>5. /\ size \in cuts /\ 0 \in cuts
      /\ records = {Decoded(f[1], SubSeq(stream, f[1] + 1, f[2])) : f \in Frames(cuts)}
  BY <1>1, <1>3, <1>4 DEF DecoderInv, ChunkingInvisible, StreamRecords, StreamCuts
<1>6. cuts \subseteq 0..size
  <2>1. ends \subseteq 0..size
    BY <1>3 DEF DecoderInv
  <2>2. StreamCuts \subseteq 0..size
    <3>1. 1..(size - 1) \subseteq 0..size /\ 0 \in 0..size
      OBVIOUS
    <3> QED
      BY <1>1, <2>1, <3>1 DEF StreamCuts
  <2> QED
    BY <1>4, <2>2
<1>7. PICK m \in Nat : \E l : Ascends(l, m, cuts)
  <2>1. size + 1 \in Nat /\ cuts \subseteq 0..((size + 1) - 1)
    BY <1>6
  <2> QED
    BY <2>1, Ascending
<1>8. PICK at : Ascends(at, m, cuts)
  BY <1>7
<1>9. /\ \A i \in 1..m : at[i] \in Nat /\ at[i] \in 0..size
      /\ \A i, j \in 1..m : i < j => at[i] < at[j]
      /\ m # 0 /\ at[1] = 0 /\ at[m] = size
  <2>1. /\ \A i \in 1..m : at[i] \in Nat /\ at[i] \in 0..size
        /\ \A i, j \in 1..m : i < j => at[i] < at[j]
    BY <1>6, <1>8 DEF Ascends
  <2>2. PICK i \in 1..m, j \in 1..m : at[i] = 0 /\ at[j] = size
    BY <1>5, <1>8 DEF Ascends
  <2>3. 1 \in 1..m /\ m \in 1..m /\ m # 0
    BY <2>2
  <2>4. i = 1
    BY <2>1, <2>2, <2>3
  <2>5. j = m
    BY <2>1, <2>2, <2>3
  <2> QED
    BY <2>1, <2>2, <2>3, <2>4, <2>5
<1>10. PICK n \in Nat : n = m - 1
  BY <1>9
<1>11. ASSUME NEW k \in 1..n
       PROVE  /\ k \in 1..m /\ k + 1 \in 1..m /\ at[k] \in Nat /\ at[k + 1] \in Nat
              /\ at[k] < at[k + 1] /\ at[k + 1] <= size
  <2>1. k \in 1..m /\ k + 1 \in 1..m
    BY <1>10
  <2> QED
    BY <1>9, <2>1
<1>12. PICK parts : parts = [k \in 1..n |-> SubSeq(stream, at[k] + 1, at[k + 1])]
  OBVIOUS
<1>13. parts \in [1..n -> Seq(Byte)]
  <2>1. \A k \in 1..n : SubSeq(stream, at[k] + 1, at[k + 1]) \in Seq(Byte)
    BY <1>1, <1>2, <1>11, Part
  <2> QED
    BY <1>12, <2>1
<1>14. PICK list : list = [k \in 1..n |-> Decoded(at[k], parts[k])]
  OBVIOUS
<1>15. records = Held(list, n)
  <2>1. Frames(cuts) = {<<at[k], at[k + 1]>> : k \in 1..n}
    BY <1>8, <1>10, FramesBetween
  <2>2. ASSUME NEW f \in Frames(cuts)
        PROVE  \E k \in 1..n : Decoded(f[1], SubSeq(stream, f[1] + 1, f[2])) = list[k]
    <3>1. PICK k \in 1..n : f = <<at[k], at[k + 1]>>
      BY <2>1
    <3>2. f[1] = at[k] /\ f[2] = at[k + 1]
      BY <3>1
    <3> QED
      BY <1>12, <1>14, <3>2
  <2>3. ASSUME NEW k \in 1..n
        PROVE  \E f \in Frames(cuts) :
                 Decoded(f[1], SubSeq(stream, f[1] + 1, f[2])) = list[k]
    <3>1. PICK f : f = <<at[k], at[k + 1]>>
      OBVIOUS
    <3>2. f \in Frames(cuts) /\ f[1] = at[k] /\ f[2] = at[k + 1]
      BY <2>1, <3>1
    <3> QED
      BY <1>12, <1>14, <3>2
  <2> QED
    BY <1>5, <2>2, <2>3 DEF Held
<1>16. \A k \in 1..n : list[k].offset = at[k] /\ list[k].raw = parts[k]
  BY <1>14 DEF Decoded
<1>17. PICK first : first = [k \in 1..n |-> at[k]]
  OBVIOUS
<1>18. Ascends(first, n, {first[k] : k \in 1..n})
  <2>1. first \in [1..n -> Nat]
    BY <1>11, <1>17
  <2>2. ASSUME NEW i \in 1..n, NEW j \in 1..n, i < j
        PROVE  first[i] < first[j]
    BY <1>9, <1>11, <1>17, <2>2
  <2> QED
    BY <2>1, <2>2 DEF Ascends
<1>19. Cardinality(records) = n /\ \A k \in 1..n : Nth(records, k) = list[k]
  <2>1. \A k \in 1..n : list[k].offset = first[k]
    BY <1>16, <1>17
  <2>2. PICK C : C = {first[k] : k \in 1..n}
    OBVIOUS
  <2>3. Ascends(first, n, C)
    BY <1>18, <2>2
  <2>4. PICK R : R = records
    OBVIOUS
  <2>5. R = Held(list, n)
    BY <1>15, <2>4
  <2>6. Cardinality(R) = n /\ \A k \in 1..n : Nth(R, k) = list[k]
    BY <2>1, <2>3, <2>5, Ordered
  <2> QED
    BY <2>4, <2>6
<1>20. DOMAIN InOrder = 1..n /\ \A k \in 1..n : InOrder[k] = list[k]
  BY <1>19 DEF InOrder, Nth, Earlier
<1>21. [k \in 1..n |-> InOrder[k].raw] = parts
  <2>1. parts = [k \in 1..n |-> parts[k]]
    BY <1>13
  <2> QED
    BY <1>16, <1>20, <2>1
<1>22. PICK run : run = [k \in 0..n |-> SubSeq(stream, 1, at[k + 1])]
  OBVIOUS
<1>23. IsJoining(run, parts)
  <2>1. Len(parts) = n /\ DOMAIN run = 0..n
    BY <1>13, <1>22, LenProperties, SeqDef
  <2>2. run[0] = <<>>
    <3>1. run[0] = SubSeq(stream, 1, 0)
      BY <1>9, <1>22
    <3> QED
      BY <3>1, SubSeqEmpty
  <2>3. ASSUME NEW k \in 1..n
        PROVE  run[k] = run[k - 1] \o parts[k]
    <3>1. run[k] = SubSeq(stream, 1, at[k + 1]) /\ run[k - 1] = SubSeq(stream, 1, at[k])
      <4>1. k \in 0..n /\ k - 1 \in 0..n /\ (k - 1) + 1 = k
        OBVIOUS
      <4> QED
        BY <1>22, <4>1
    <3>2. parts[k] = SubSeq(stream, at[k] + 1, at[k + 1])
      BY <1>12
    <3>3. /\ 1 \in 1..(Len(stream) + 1) /\ at[k] \in (1 - 1)..Len(stream)
          /\ at[k + 1] \in at[k]..Len(stream)
      BY <1>1, <1>11
    <3>4. SubSeq(stream, 1, at[k]) \o SubSeq(stream, at[k] + 1, at[k + 1])
            = SubSeq(stream, 1, at[k + 1])
      BY <1>2, <3>3, ConcatAdjacentSubSeq
    <3> QED
      BY <3>1, <3>2, <3>4
  <2> QED
    BY <2>1, <2>2, <2>3 DEF IsJoining
<1>24. Concatenated(parts) = stream
  <2>1. Concatenated(parts) = run[n]
    BY <1>13, <1>23, JoiningIs
  <2>2. run[n] = SubSeq(stream, 1, size)
    BY <1>9, <1>10, <1>22
  <2> QED
    BY <1>1, <1>2, <2>1, <2>2, SubSeqFull
<1>25. \A k \in 1..n : InOrder[k].raw \in Seq(Byte)
  BY <1>13, <1>16, <1>20
<1> QED
  BY <1>20, <1>21, <1>24, <1>25

-----------------------------------------------------------------------------
(* Reading.                                                                *)

\* A file is what its stream is put in again.
LEMMA ContainerInverts ==
  ASSUME NEW bytes \in Seq(Byte), NEW container \in Containers, NEW context,
         NEW magic \in Byte,
         container = "udp" => DatagramDecodes(bytes, context),
         NEW data, data = StreamOf(bytes, container, context, magic),
         NEW header, header = IF container = "rd" THEN HeaderOf(bytes) ELSE <<>>
  PROVE  /\ data \in Seq(Byte) /\ header \in Seq(Byte)
         /\ Contained(data, container, context, magic, header) = bytes
<1>1. PICK B : B = 0..(Bytes - 1) /\ B = Byte
  BY ProgramAssumption
<1>2. magic \in Nat /\ bytes \in Seq(B)
  BY <1>1, DigitIsByte
<1>3. \A s \in Seq(B) : /\ Swizzle(s, magic) \in Seq(B) /\ Unswizzle(s, magic) \in Seq(B)
                        /\ Swizzle(Unswizzle(s, magic), magic) = s
  BY <1>1, <1>2, ScrambleInverts
<1>4. <<>> \in Seq(B)
  BY EmptySeq
<1>5. CASE container = "logical"
  BY <1>1, <1>4, <1>5 DEF StreamOf, Contained
<1>6. CASE container = "udp"
  <2>1. data = DecodeDatagram(bytes, context, magic) /\ header = <<>>
    BY <1>6 DEF StreamOf
  <2>2. Contained(data, container, context, magic, header)
          = EncodeDatagram(data, context, magic)
    BY <1>6 DEF Contained
  <2>3. CASE context = "reply"
    BY <1>1, <1>2, <1>3, <1>4, <2>1, <2>2, <2>3 DEF DecodeDatagram, EncodeDatagram
  <2>4. CASE context # "reply"
    <3>1. PICK payload : payload = SubSeq(bytes, 3, Len(bytes))
      OBVIOUS
    <3>2. Len(bytes) >= 2 /\ bytes = Frame(payload)
      BY <1>6, <2>4, <3>1 DEF DatagramDecodes, IsFramed
    <3>3. payload \in Seq(B)
      <4>1. Len(bytes) \in Nat
        BY <1>2, LenProperties
      <4>2. 3 \in 1..(Len(bytes) + 1) /\ Len(bytes) \in (3 - 1)..Len(bytes)
        BY <3>2, <4>1
      <4> QED
        BY <1>2, <3>1, <4>2, CutTypes
    <3>4. data = Unswizzle(payload, magic)
      BY <2>1, <2>4, <3>1 DEF DecodeDatagram
    <3>5. EncodeDatagram(data, context, magic) = Frame(Swizzle(data, magic))
      BY <2>4 DEF EncodeDatagram
    <3> QED
      BY <1>1, <1>3, <1>4, <2>1, <2>2, <3>2, <3>3, <3>4, <3>5
  <2> QED
    BY <2>3, <2>4
<1>7. CASE container = "rd"
  <2>1. PICK body : body = BodyOf(bytes)
    OBVIOUS
  <2>2. header = HeaderOf(bytes) /\ data = Unswizzle(body, magic)
    BY <1>7, <2>1 DEF StreamOf
  <2>3. Contained(data, container, context, magic, header)
          = header \o Swizzle(data, magic)
    BY <1>7 DEF Contained
  <2>4. header \in Seq(B) /\ body \in Seq(B) /\ header \o body = bytes
    <3>1. CASE IsWrapped(bytes)
      <4>1. Len(bytes) \in Nat /\ HeaderSize \in Nat /\ HeaderSize <= Len(bytes)
        BY <1>2, <3>1, CodecAssumption, LenProperties DEF IsWrapped
      <4>2. header = SubSeq(bytes, 1, HeaderSize)
            /\ body = SubSeq(bytes, HeaderSize + 1, Len(bytes))
        BY <2>1, <2>2, <3>1 DEF HeaderOf, BodyOf
      <4>3. /\ 1 \in 1..(Len(bytes) + 1) /\ HeaderSize \in (1 - 1)..Len(bytes)
            /\ HeaderSize + 1 \in 1..(Len(bytes) + 1)
            /\ Len(bytes) \in ((HeaderSize + 1) - 1)..Len(bytes)
            /\ Len(bytes) \in HeaderSize..Len(bytes)
        BY <4>1
      <4>4. header \in Seq(B) /\ body \in Seq(B)
        BY <1>2, <4>2, <4>3, CutTypes
      <4>5. header \o body = SubSeq(bytes, 1, Len(bytes))
        BY <1>2, <4>2, <4>3, ConcatAdjacentSubSeq
      <4> QED
        BY <1>2, <4>4, <4>5, SubSeqFull
    <3>2. CASE ~IsWrapped(bytes)
      <4>1. header = <<>> /\ body = bytes
        BY <2>1, <2>2, <3>2 DEF HeaderOf, BodyOf
      <4> QED
        BY <1>2, <1>4, <4>1, ConcatEmptySeq
    <3> QED
      BY <3>1, <3>2
  <2>5. Swizzle(data, magic) = body /\ data \in Seq(B)
    BY <1>3, <2>2, <2>4
  <2> QED
    BY <1>1, <2>3, <2>4, <2>5
<1> QED
  BY <1>5, <1>6, <1>7 DEF Containers

-----------------------------------------------------------------------------
(* Invariants of programs.                                                 *)

TypedProgram ==
  /\ edits \in Nat
  /\ program = NoProgram \/ program \in Program
  /\ output # NoOutput => program # NoProgram

\* What was read is the stream the records of the source make up.
IsOrigin(p, read) ==
  /\ read.container = p.container
  /\ p.container # "rd" => p.header = <<>>
  /\ read.records \in Seq(AnyRecord)
  /\ \A i \in DOMAIN read.records : AsRead(read.records[i], Reading)
  /\ read.bytes = Contained(Concatenated(Raws(read.records)), p.container,
                            p.context, p.magic, p.header)

Origin == program # NoProgram => IsOrigin(program, source)

AllFresh(list) == \A i \in DOMAIN list : Fresh(list[i])

FreshUntilEdited == program # NoProgram /\ edits = 0 => AllFresh(program.records)

ProgramInv ==
  /\ DecoderInv /\ TypedProgram /\ Origin /\ FreshUntilEdited
  /\ UneditedIsLossless /\ EditsAreWritten /\ ChecksumIsTrue

\* Nothing is said of a program that was not written.
LEMMA NothingWritten ==
  ASSUME output = NoOutput
  PROVE  UneditedIsLossless /\ EditsAreWritten /\ ChecksumIsTrue
BY DEF UneditedIsLossless, EditsAreWritten, ChecksumIsTrue

\* The fields of a program.
LEMMA ProgramFields ==
  ASSUME NEW p \in Program
  PROVE  /\ p.magic \in Byte /\ p.context \in Contexts /\ p.container \in Containers
         /\ p.header \in Seq(Byte) /\ p.records \in Seq(AnyRecord)
         /\ p.registry \in Registries /\ p # NoProgram
BY NothingAssumption DEF Program, AnyRecord

\* A record that was read remembers no values.
LEMMA ReadIsFresh ==
  ASSUME NEW list, \A i \in DOMAIN list : AsRead(list[i], Reading)
  PROVE  AllFresh(list)
BY DEF AllFresh, Fresh, AsRead, IsFor

\* A new program.
LEMMA NewIsRead ==
  ASSUME TypedProgram, program = NoProgram, NEW p \in Program, NEW bytes,
         \A i \in DOMAIN p.records : AsRead(p.records[i], Reading),
         p.container # "rd" => p.header = <<>>,
         bytes = Contained(Concatenated(Raws(p.records)), p.container, p.context,
                           p.magic, p.header),
         NewProgram(p, bytes)
  PROVE  /\ TypedProgram' /\ Origin' /\ FreshUntilEdited'
         /\ UneditedIsLossless' /\ EditsAreWritten' /\ ChecksumIsTrue'
<1>1. /\ program' = p /\ edits' = edits /\ output' = output
      /\ source' = [bytes |-> bytes, container |-> p.container, records |-> p.records]
  BY DEF NewProgram
<1>2. output = NoOutput
  BY DEF TypedProgram
<1>3. p.records \in Seq(AnyRecord) /\ p # NoProgram
  BY ProgramFields
<1>4. TypedProgram'
  BY <1>1, <1>2 DEF TypedProgram
<1>5. PICK read : read = source' /\ read = [bytes |-> bytes, container |-> p.container,
                                            records |-> p.records]
  BY <1>1
<1>6. IsOrigin(p, read)
  BY <1>3, <1>5 DEF IsOrigin
<1>7. Origin'
  BY <1>1, <1>5, <1>6 DEF Origin
<1>8. AllFresh(p.records)
  BY ReadIsFresh
<1>9. FreshUntilEdited'
  BY <1>1, <1>8 DEF FreshUntilEdited
<1>10. (output = NoOutput)'
  BY <1>1, <1>2
<1>11. UneditedIsLossless' /\ EditsAreWritten' /\ ChecksumIsTrue'
  <2>1. (output = NoOutput => UneditedIsLossless /\ EditsAreWritten /\ ChecksumIsTrue)'
    BY NothingWritten, PTL
  <2> QED
    BY <1>10, <2>1
<1> QED
  BY <1>4, <1>7, <1>9, <1>11

\* Decode keeps the invariant.
LEMMA DecodeReads ==
  ASSUME ProgramInv, NEW file \in Files, NEW magic \in Magics, NEW registry \in Registries,
         Decode(file, magic, registry)
  PROVE  ProgramInv'
<1>1. /\ file.container \in Containers /\ file.context \in Contexts
      /\ file.bytes \in Seq(Byte) /\ magic \in Byte
  BY InputsAssumption, ProgramAssumption
<1>2. PICK data : data = StreamOf(file.bytes, file.container, file.context, magic)
  OBVIOUS
<1>3. PICK header : header = IF file.container = "rd" THEN HeaderOf(file.bytes) ELSE <<>>
  OBVIOUS
<1>4. PICK list : list = DecodedRecords(data, registry)
  OBVIOUS
<1>5. PICK p : p = [magic |-> magic, context |-> file.context,
                    container |-> file.container, header |-> header,
                    records |-> list, registry |-> registry]
  OBVIOUS
<1>6. /\ program = NoProgram /\ NewProgram(p, file.bytes) /\ UNCHANGED vars
      /\ file.container = "udp" => DatagramDecodes(file.bytes, file.context)
  BY <1>2, <1>3, <1>4, <1>5 DEF Decode
<1>7. /\ data \in Seq(Byte) /\ header \in Seq(Byte)
      /\ Contained(data, file.container, file.context, magic, header) = file.bytes
  BY <1>1, <1>2, <1>3, <1>6, ContainerInverts
<1>8. PICK frames : frames = LogicalFrames(data)
  OBVIOUS
<1>9. /\ frames \in Seq(Seq(Byte)) /\ Concatenated(frames) = data
      /\ list \in Seq(AnyRecord) /\ Len(list) = Len(frames)
      /\ \A n \in 1..Len(frames) : AsRead(list[n], registry) /\ list[n].raw = frames[n]
  BY <1>4, <1>7, <1>8, StreamRead
<1>10. /\ DOMAIN list = 1..Len(frames) /\ Len(frames) \in Nat
       /\ DOMAIN frames = 1..Len(frames)
  BY <1>9, LenProperties
<1>11. p \in Program
  BY <1>1, <1>5, <1>7, <1>9 DEF Program, AnyRecord
<1>12. Raws(list) = frames
  <2>1. Raws(list) = [n \in 1..Len(frames) |-> frames[n]]
    BY <1>9, <1>10 DEF Raws
  <2>2. frames = [n \in 1..Len(frames) |-> frames[n]]
    BY <1>9, LenProperties
  <2> QED
    BY <2>1, <2>2
<1>13. \A i \in DOMAIN list : AsRead(list[i], Reading)
  BY <1>9, <1>10, ReadingKnows DEF AsRead
<1>14. DecoderInv'
  BY <1>6, Unchanged DEF ProgramInv
<1>15. /\ p.records = list /\ p.container = file.container /\ p.context = file.context
       /\ p.magic = magic /\ p.header = header
  BY <1>5
<1>16. p.container # "rd" => p.header = <<>>
  BY <1>3, <1>15
<1>17. file.bytes = Contained(Concatenated(Raws(p.records)), p.container, p.context,
                              p.magic, p.header)
  BY <1>7, <1>9, <1>12, <1>15
<1>18. TypedProgram
  BY DEF ProgramInv
<1>19. /\ TypedProgram' /\ Origin' /\ FreshUntilEdited'
       /\ UneditedIsLossless' /\ EditsAreWritten' /\ ChecksumIsTrue'
  BY <1>6, <1>11, <1>13, <1>15, <1>16, <1>17, <1>18, NewIsRead
<1> QED
  BY <1>14, <1>19 DEF ProgramInv

\* FeedPiece keeps the invariant.
LEMMA FeedPieceKeeps ==
  ASSUME ProgramInv, NEW data \in Pieces, NEW final \in BOOLEAN, FeedPiece(data, final)
  PROVE  ProgramInv'
<1>1. Feed(data, final) /\ Len(data) <= MaxChunk /\ UNCHANGED <<program, source, edits, output>>
  BY DEF FeedPiece
<1>2. data \in Seq(Byte)
  <2>1. CASE data = <<>>
    BY <2>1, EmptySeq
  <2>2. CASE data # <<>>
    <3>5. PICK s \in Streams : data \in {SubSeq(s, i, j) : i \in DOMAIN s, j \in DOMAIN s}
      BY <2>2 DEF Pieces
    <3>1. PICK i \in DOMAIN s, j \in DOMAIN s : data = SubSeq(s, i, j)
      BY <3>5
    <3>2. s \in Seq(Byte) /\ Len(s) \in Nat /\ DOMAIN s = 1..Len(s)
      BY InputsAssumption, LenProperties
    <3>3. CASE j < i
      <4>1. i \in Int /\ j \in Int
        BY <3>2
      <4> QED
        BY <2>2, <3>1, <3>3, <4>1, SubSeqEmpty
    <3>4. CASE ~(j < i)
      <4>1. i \in 1..(Len(s) + 1) /\ j \in (i - 1)..Len(s)
        BY <3>2, <3>4
      <4> QED
        BY <3>1, <3>2, <4>1, CutTypes
    <3> QED
      BY <3>3, <3>4
  <2> QED
    BY <2>1, <2>2
<1>3. data \in Chunk
  <2>1. Len(data) \in Nat /\ data \in [1..Len(data) -> Byte]
    BY <1>2, LenProperties
  <2>2. Len(data) \in 0..MaxChunk
    BY <1>1, <2>1, LimitsAssumption
  <2> QED
    BY <2>1, <2>2 DEF Chunk
<1>4. DecoderInv'
  <2>1. Next
    BY <1>1, <1>3 DEF Next
  <2> QED
    BY <2>1, NextDecoder DEF ProgramInv
<1>5. TypedProgram' /\ Origin' /\ FreshUntilEdited'
  BY <1>1 DEF ProgramInv, TypedProgram, Origin, FreshUntilEdited
<1>6. UneditedIsLossless' /\ EditsAreWritten' /\ ChecksumIsTrue'
  BY <1>1 DEF ProgramInv, UneditedIsLossless, EditsAreWritten, ChecksumIsTrue,
              Unedited, KnowsAll, Checksums
<1> QED
  BY <1>4, <1>5, <1>6 DEF ProgramInv

\* Assemble keeps the invariant.
LEMMA AssembleReads ==
  ASSUME ProgramInv, Assemble
  PROVE  ProgramInv'
<1>1. PICK magic \in Magics :
        NewProgram([magic |-> magic, context |-> "job", container |-> "logical",
                    header |-> <<>>,
                    records |-> [n \in DOMAIN InOrder |->
                                   IF InOrder[n].known
                                     THEN FrameRecord(InOrder[n].raw, Reading)
                                     ELSE RawSpan(InOrder[n].raw)],
                    registry |-> Reading], stream)
  BY DEF Assemble
<1>2. DecoderInv /\ TypedProgram /\ program = NoProgram /\ buffer = <<>>
  BY DEF Assemble, ProgramInv
<1>3. PICK n \in Nat :
        /\ DOMAIN InOrder = 1..n
        /\ \A k \in 1..n : InOrder[k].raw \in Seq(Byte)
        /\ Concatenated([k \in 1..n |-> InOrder[k].raw]) = stream
  BY <1>2, AssembledStream
<1>4. PICK list : list = [k \in 1..n |-> IF InOrder[k].known
                                            THEN FrameRecord(InOrder[k].raw, Reading)
                                            ELSE RawSpan(InOrder[k].raw)]
  OBVIOUS
<1>5. ASSUME NEW k \in 1..n
      PROVE  AsRead(list[k], Reading) /\ list[k].raw = InOrder[k].raw
  BY <1>3, <1>4, FrameRead, SpanRead, ReadingKnows
<1>6. list \in Seq(AnyRecord) /\ DOMAIN list = 1..n
  <2>1. list \in [1..n -> AnyRecord]
    <3>1. \A k \in 1..n : list[k] \in AnyRecord
      BY <1>5 DEF AsRead
    <3> QED
      BY <1>4, <3>1
  <2> QED
    BY <2>1, SeqDef
<1>7. Raws(list) = [k \in 1..n |-> InOrder[k].raw]
  BY <1>5, <1>6 DEF Raws
<1>8. PICK p : p = [magic |-> magic, context |-> "job", container |-> "logical",
                    header |-> <<>>, records |-> list, registry |-> Reading]
  OBVIOUS
<1>9. NewProgram(p, stream)
  BY <1>1, <1>3, <1>4, <1>8
<1>10. p \in Program
  <2>1. magic \in Byte /\ <<>> \in Seq(Byte) /\ Reading \in Registries
    BY ProgramAssumption, EmptySeq, ReadingKnows
  <2> QED
    BY <1>6, <1>8, <2>1 DEF Program, AnyRecord, Contexts, Containers
<1>11. p.records = list /\ p.container = "logical" /\ p.header = <<>>
  BY <1>8
<1>12. stream = Contained(Concatenated(Raws(p.records)), p.container, p.context,
                          p.magic, p.header)
  BY <1>3, <1>7, <1>11 DEF Contained
<1>13. \A i \in DOMAIN p.records : AsRead(p.records[i], Reading)
  BY <1>5, <1>6, <1>11
<1>14. /\ TypedProgram' /\ Origin' /\ FreshUntilEdited'
       /\ UneditedIsLossless' /\ EditsAreWritten' /\ ChecksumIsTrue'
  BY <1>2, <1>9, <1>10, <1>11, <1>12, <1>13, NewIsRead
<1>15. DecoderInv'
  <2>1. Init'
    BY DEF Assemble, Init
  <2>2. (Init => DecoderInv)'
    BY InitDecoder, PTL
  <2> QED
    BY <2>1, <2>2
<1> QED
  BY <1>14, <1>15 DEF ProgramInv

-----------------------------------------------------------------------------
(* Editing.                                                                *)

\* A value of a command is changed and nothing else.
IsChanged(new, old, k, value) ==
  /\ new.kind = "command" /\ new.name = old.name /\ new.opcode = old.opcode
  /\ new.raw = old.raw /\ new.baseline = old.baseline
  /\ new.values = [old.values EXCEPT ![k] = value]

\* An edit changes one value of one command.
LEMMA EditIs ==
  ASSUME NEW list \in Seq(AnyRecord), NEW i \in DOMAIN list, list[i].kind = "command",
         NEW k \in DOMAIN list[i].values, NEW value \in Edits,
         NEW new, new = [list EXCEPT ![i].values[k] = value]
  PROVE  /\ new \in Seq(AnyRecord) /\ DOMAIN new = DOMAIN list
         /\ IsChanged(new[i], list[i], k, value)
         /\ \A j \in DOMAIN list : j # i => new[j] = list[j]
<1>1. Len(list) \in Nat /\ DOMAIN list = 1..Len(list) /\ \A j \in DOMAIN list : list[j] \in AnyRecord
  BY LenProperties
<1>2. PICK old : old = list[i]
  OBVIOUS
<1>3. old \in Known
  BY <1>1, <1>2, RecordKinds
<1>4. PICK values : values = [old.values EXCEPT ![k] = value]
  OBVIOUS
<1>5. values \in Seq(Value)
  <2>1. old.values \in Seq(Value) /\ k \in DOMAIN old.values /\ value \in Value
    BY <1>2, <1>3, InputsAssumption DEF Known
  <2>2. k \in 1..Len(old.values)
    BY <2>1, LenProperties
  <2> QED
    BY <1>4, <2>1, <2>2, ExceptSeq
<1>6. PICK changed : changed = [old EXCEPT !.values = values]
  OBVIOUS
<1>7. changed \in Known /\ IsChanged(changed, old, k, value)
  BY <1>2, <1>3, <1>4, <1>5, <1>6 DEF Known, IsChanged
<1>8. new = [list EXCEPT ![i] = changed]
  BY <1>2, <1>4, <1>6
<1>9. new \in Seq(AnyRecord)
  <2>1. changed \in AnyRecord /\ i \in 1..Len(list)
    BY <1>1, <1>7 DEF AnyRecord
  <2> QED
    BY <1>8, <2>1, ExceptSeq
<1> QED
  BY <1>1, <1>2, <1>7, <1>8, <1>9

\* A changed list of records keeps the invariant.
LEMMA EditedKeeps ==
  ASSUME ProgramInv, program # NoProgram, NEW list \in Seq(AnyRecord), Edited(list)
  PROVE  ProgramInv'
<1>1. PICK p \in Program : p = program
  BY DEF ProgramInv, TypedProgram
<1>2. PICK new : new = [p EXCEPT !.records = list]
  OBVIOUS
<1>3. /\ program' = new /\ edits' = edits + 1 /\ output' = NoOutput
      /\ UNCHANGED vars /\ source' = source
  BY <1>1, <1>2 DEF Edited
<1>4. new \in Program
  BY <1>2 DEF Program, AnyRecord
<1>5. new # NoProgram
  BY <1>4, ProgramFields
<1>6. TypedProgram'
  BY <1>3, <1>4, <1>5 DEF ProgramInv, TypedProgram
<1>7. /\ new.container = p.container /\ new.header = p.header
      /\ new.context = p.context /\ new.magic = p.magic
  BY <1>2 DEF Program
<1>8. IsOrigin(new, source)
  BY <1>1, <1>7 DEF ProgramInv, Origin, IsOrigin
<1>9. Origin'
  BY <1>3, <1>8 DEF Origin
<1>10. FreshUntilEdited'
  BY <1>3 DEF ProgramInv, TypedProgram, FreshUntilEdited
<1>11. DecoderInv'
  BY <1>3, Unchanged DEF ProgramInv
<1>12. UneditedIsLossless' /\ EditsAreWritten' /\ ChecksumIsTrue'
  <2>1. (output = NoOutput => UneditedIsLossless /\ EditsAreWritten /\ ChecksumIsTrue)'
    BY NothingWritten, PTL
  <2>2. (output = NoOutput)'
    BY <1>3
  <2> QED
    BY <2>1, <2>2
<1> QED
  BY <1>6, <1>9, <1>10, <1>11, <1>12 DEF ProgramInv

\* Edit keeps the invariant.
LEMMA EditKeeps ==
  ASSUME ProgramInv, NEW i, NEW k, NEW value \in Edits, Edit(i, k, value)
  PROVE  ProgramInv'
<1>1. PICK list : list = program.records
  OBVIOUS
<1>2. list \in Seq(AnyRecord)
  BY <1>1, ProgramFields DEF Edit, ProgramInv, TypedProgram
<1>3. PICK new : new = [list EXCEPT ![i].values[k] = value]
  OBVIOUS
<1>4. new \in Seq(AnyRecord)
  BY <1>1, <1>2, <1>3, EditIs DEF Edit
<1> QED
  BY <1>1, <1>3, <1>4, EditedKeeps DEF Edit

\* Add keeps the invariant.
LEMMA AddKeeps ==
  ASSUME ProgramInv, NEW a \in Additions, Add(a)
  PROVE  ProgramInv'
<1>1. PICK list, registry : list = program.records /\ registry = program.registry
  OBVIOUS
<1>2. list \in Seq(AnyRecord) /\ registry \in Registries
  BY <1>1, ProgramFields DEF Add, ProgramInv, TypedProgram
<1>3. PICK record : record = NewRecord(a, registry)
  OBVIOUS
<1>4. record \in AnyRecord
  <2>1. CASE "raw" \in DOMAIN a
    <3>1. a.raw \in Seq(Byte)
      BY <2>1, InputsAssumption
    <3> QED
      BY <1>3, <2>1, <3>1, SpanRead DEF NewRecord, AsRead
  <2>2. CASE "raw" \notin DOMAIN a
    <3>1. "name" \in DOMAIN a /\ a.values \in Seq(Value)
      BY <2>2, InputsAssumption
    <3>2. HasName(registry, a.name)
      BY <1>1, <3>1 DEF Add
    <3>3. Named(registry, a.name) \in registry
      BY <1>2, <3>2, NamedSpec
    <3>4. record \in Known
      BY <1>2, <1>3, <2>2, <3>1, <3>3, KnownTypes DEF NewRecord
    <3> QED
      BY <3>4 DEF AnyRecord
  <2> QED
    BY <2>1, <2>2
<1>5. PICK new : new = Append(list, record)
  OBVIOUS
<1>6. new \in Seq(AnyRecord)
  BY <1>2, <1>4, <1>5, AppendProperties
<1>7. program # NoProgram /\ Edited(new)
  BY <1>1, <1>3, <1>5 DEF Add
<1> QED
  BY <1>6, <1>7, EditedKeeps

-----------------------------------------------------------------------------
(* Writing.                                                                *)

Outcome(p, registry, policy, container) ==
  IF CanWrite(p, registry, policy, container)
    THEN [container |-> container, policy |-> policy, registry |-> registry,
          ok |-> TRUE, parts |-> Parts(p.records, registry, policy),
          bytes |-> Contained(Concatenated(Parts(p.records, registry, policy)),
                              container, p.context, p.magic, p.header)]
    ELSE [container |-> container, policy |-> policy, registry |-> registry,
          ok |-> FALSE]

\* What a call of encode returns.
LEMMA OutcomeIs ==
  ASSUME NEW p, NEW registry, NEW policy, NEW container, NEW o,
         o = Outcome(p, registry, policy, container)
  PROVE  /\ o.container = container /\ o.policy = policy /\ o.registry = registry
         /\ CanWrite(p, registry, policy, container) =>
              /\ o.ok /\ o.parts = Parts(p.records, registry, policy)
              /\ o.bytes = Contained(Concatenated(o.parts), container, p.context,
                                     p.magic, p.header)
         /\ ~CanWrite(p, registry, policy, container) => ~o.ok
<1>1. CASE CanWrite(p, registry, policy, container)
  BY <1>1 DEF Outcome
<1>2. CASE ~CanWrite(p, registry, policy, container)
  BY <1>2 DEF Outcome
<1> QED
  BY <1>1, <1>2

\* Programs that were written: only what their records remember has changed.
WasWritten(new, old) ==
  /\ new \in Program /\ new # NoProgram
  /\ new.container = old.container /\ new.context = old.context
  /\ new.magic = old.magic /\ new.header = old.header
  /\ DOMAIN new.records = DOMAIN old.records
  /\ \A i \in DOMAIN old.records : IsKept(new.records[i], old.records[i])

\* A call of encode keeps all of the program but what its records remember.
LEMMA WriteIs ==
  ASSUME NEW p \in Program, NEW registry, NEW container, NEW new,
         new = IF HeaderFits(p, container)
                 THEN [p EXCEPT !.records = Encoding(p.records, registry)] ELSE p
  PROVE  WasWritten(new, p)
<1>1. CASE HeaderFits(p, container)
  <2>1. PICK list : list = Encoding(p.records, registry)
    OBVIOUS
  <2>2. p.records \in Seq(AnyRecord)
    BY ProgramFields
  <2>3. /\ list \in Seq(AnyRecord) /\ Len(list) = Len(p.records)
        /\ \A i \in 1..Len(p.records) : IsKept(list[i], p.records[i])
    BY <2>1, <2>2, EncodingIs
  <2>4. DOMAIN list = 1..Len(p.records) /\ DOMAIN p.records = 1..Len(p.records)
    BY <2>2, <2>3, LenProperties
  <2>5. new = [p EXCEPT !.records = list]
    BY <1>1, <2>1
  <2>6. new \in Program
    BY <2>3, <2>5 DEF Program, AnyRecord
  <2>7. /\ new.container = p.container /\ new.context = p.context
        /\ new.magic = p.magic /\ new.header = p.header /\ new.records = list
    BY <2>5 DEF Program
  <2>8. new # NoProgram
    BY <2>6, ProgramFields
  <2> QED
    BY <2>3, <2>4, <2>6, <2>7, <2>8 DEF WasWritten
<1>2. CASE ~HeaderFits(p, container)
  <2>1. new = p /\ p # NoProgram
    BY <1>2, ProgramFields
  <2> QED
    BY <2>1 DEF WasWritten, IsKept
<1> QED
  BY <1>1, <1>2

\* Values that are remembered for the first time are the ones there are.
LEMMA KeptIsFresh ==
  ASSUME NEW new, NEW old, IsKept(new, old), Fresh(old)
  PROVE  Fresh(new)
BY DEF IsKept, Fresh

\* One call of encode.
IsCall(registry, policy, container, p, new, o) ==
  /\ registry \in Registries /\ p \in Program /\ container \in {p.container, "logical"}
  /\ WasWritten(new, p) /\ o = Outcome(p, registry, policy, container)

\* A call that writes what was read returns what was read.
LEMMA CallIsLossless ==
  ASSUME NEW registry, NEW container, NEW p, NEW new, NEW o, NEW read,
         IsCall(registry, "preserve", container, p, new, o), IsOrigin(p, read),
         container = read.container,
         [i \in DOMAIN new.records |-> Without(new.records[i])] = read.records,
         AllFresh(p.records) \/ \A i \in DOMAIN new.records :
                                  IsKnownTo(new.records[i], registry)
  PROVE  o.ok /\ o.bytes = read.bytes
<1>1. registry \in Registries /\ p \in Program /\ WasWritten(new, p)
      /\ o = Outcome(p, registry, "preserve", container)
  BY DEF IsCall
<1>2. PICK list : list = p.records /\ list \in Seq(AnyRecord)
  BY <1>1, ProgramFields
<1>3. DOMAIN new.records = DOMAIN list /\ \A i \in DOMAIN list : IsKept(new.records[i], list[i])
  BY <1>1, <1>2 DEF WasWritten
<1>4. PICK old : old = read.records
  OBVIOUS
<1>5. [i \in DOMAIN list |-> Without(list[i])] = old
  <2>1. \A i \in DOMAIN list : Without(new.records[i]) = Without(list[i])
    BY <1>3 DEF IsKept
  <2> QED
    BY <1>3, <1>4, <2>1
<1>6. \A i \in DOMAIN old : AsRead(old[i], Reading)
  BY <1>4 DEF IsOrigin
<1>7. \/ \A i \in DOMAIN list : Fresh(list[i])
      \/ \A i \in DOMAIN list : IsKnownTo(list[i], registry)
  <2>1. CASE AllFresh(p.records)
    BY <1>2, <2>1 DEF AllFresh
  <2>2. CASE \A i \in DOMAIN new.records : IsKnownTo(new.records[i], registry)
    <3>1. ASSUME NEW i \in DOMAIN list
          PROVE  IsKnownTo(list[i], registry)
      <4>1. IsKept(new.records[i], list[i]) /\ IsKnownTo(new.records[i], registry)
        BY <1>3, <2>2
      <4> QED
        BY <4>1 DEF IsKept, IsKnownTo
    <3> QED
      BY <3>1
  <2> QED
    BY <2>1, <2>2
<1>8. AllEncode(list, registry) /\ Plain(list, registry) = Raws(old)
  BY <1>1, <1>2, <1>5, <1>6, <1>7, ListLossless
<1>9. container = p.container /\ HeaderFits(p, container)
  BY DEF IsOrigin, HeaderFits
<1>10. CanWrite(p, registry, "preserve", container)
  BY <1>2, <1>8, <1>9 DEF CanWrite
<1>11. Parts(list, registry, "preserve") = Raws(old)
  BY <1>8 DEF Parts
<1>12. o.ok /\ o.bytes = Contained(Concatenated(Raws(old)), container, p.context, p.magic,
                                   p.header)
  BY <1>1, <1>2, <1>10, <1>11, OutcomeIs
<1> QED
  BY <1>4, <1>9, <1>12 DEF IsOrigin

\* A call that succeeds writes what the records say.
LEMMA CallIsAsEdited ==
  ASSUME NEW registry, NEW policy, NEW container, NEW p, NEW new, NEW o,
         IsCall(registry, policy, container, p, new, o), o.ok
  PROVE  \A i \in DOMAIN new.records : IsEdited(new.records[i], o.parts[i], registry, policy)
<1>1. registry \in Registries /\ p \in Program /\ WasWritten(new, p)
      /\ o = Outcome(p, registry, policy, container)
  BY DEF IsCall
<1>2. CanWrite(p, registry, policy, container)
  BY <1>1, OutcomeIs
<1>3. PICK list : list = p.records /\ list \in Seq(AnyRecord)
  BY <1>1, ProgramFields
<1>4. PICK parts : parts = o.parts /\ parts = Parts(list, registry, policy)
  BY <1>1, <1>2, <1>3, OutcomeIs
<1>5. AllEncode(list, registry) /\ (policy = "recompute" => CanRecompute(list, registry))
  BY <1>2, <1>3 DEF CanWrite
<1>6. \A i \in 1..Len(list) : IsEdited(list[i], parts[i], registry, policy)
  BY <1>1, <1>3, <1>4, <1>5, PartsAreEdited
<1>7. DOMAIN list = 1..Len(list)
  BY <1>3, LenProperties
<1>8. ASSUME NEW i \in DOMAIN new.records
      PROVE  IsEdited(new.records[i], parts[i], registry, policy)
  <2>1. i \in 1..Len(list) /\ IsKept(new.records[i], list[i])
    BY <1>1, <1>3, <1>7 DEF WasWritten
  <2>2. IsEdited(list[i], parts[i], registry, policy)
    BY <1>6, <2>1
  <2> QED
    BY <2>1, <2>2 DEF IsEdited, IsKept, IsChecksum
<1> QED
  BY <1>4, <1>8

\* A call that recomputes the checksum writes the true sum.
LEMMA CallIsTrue ==
  ASSUME NEW registry, NEW container, NEW p, NEW new, NEW o,
         IsCall(registry, "recompute", container, p, new, o), o.ok
  PROVE  \A i \in Checksums(new.records) : IsTrue(i, o.parts, registry)
<1>1. registry \in Registries /\ p \in Program /\ WasWritten(new, p)
      /\ o = Outcome(p, registry, "recompute", container)
  BY DEF IsCall
<1>2. CanWrite(p, registry, "recompute", container)
  BY <1>1, OutcomeIs
<1>3. PICK list : list = p.records /\ list \in Seq(AnyRecord)
  BY <1>1, ProgramFields
<1>4. PICK parts : parts = o.parts /\ parts = Recomputed(list, registry)
  BY <1>1, <1>2, <1>3, OutcomeIs DEF Parts
<1>5. AllEncode(list, registry) /\ CanRecompute(list, registry)
  BY <1>2, <1>3 DEF CanWrite
<1>6. \A i \in Checksums(list) : IsTrue(i, parts, registry)
  BY <1>1, <1>3, <1>4, <1>5, ChecksumsAreTrue
<1>7. Checksums(new.records) = Checksums(list)
  <2>1. ASSUME NEW i \in DOMAIN list
        PROVE  IsChecksum(new.records[i]) <=> IsChecksum(list[i])
    <3>1. IsKept(new.records[i], list[i])
      BY <1>1, <1>3 DEF WasWritten
    <3> QED
      BY <3>1 DEF IsKept, IsChecksum
  <2>2. DOMAIN new.records = DOMAIN list
    BY <1>1, <1>3 DEF WasWritten
  <2> QED
    BY <2>1, <2>2 DEF Checksums
<1> QED
  BY <1>4, <1>6, <1>7

\* Write keeps the invariant.
LEMMA WriteKeeps ==
  ASSUME ProgramInv, program # NoProgram, NEW registry \in Registries,
         NEW policy \in {"preserve", "recompute"},
         NEW container \in {program.container, "logical"},
         Write(registry, policy, container)
  PROVE  ProgramInv'
<1>1. PICK p \in Program : p = program
  BY DEF ProgramInv, TypedProgram
<1>2. PICK new : new = IF HeaderFits(p, container)
                         THEN [p EXCEPT !.records = Encoding(p.records, registry)] ELSE p
  OBVIOUS
<1>3. PICK o : o = Outcome(p, registry, policy, container)
  OBVIOUS
<1>4. program' = new
  BY <1>1, <1>2 DEF Write
<1>5. output' = o
  BY <1>1, <1>3 DEF Write, Outcome
<1>6. UNCHANGED vars /\ source' = source /\ edits' = edits
  BY DEF Write
<1>7. WasWritten(new, p)
  BY <1>1, <1>2, WriteIs
<1>8. IsCall(registry, policy, container, p, new, o)
  BY <1>1, <1>3, <1>7 DEF IsCall
<1>9. TypedProgram'
  BY <1>4, <1>6, <1>7 DEF WasWritten, ProgramInv, TypedProgram
<1>10. IsOrigin(p, source) /\ IsOrigin(new, source)
  BY <1>1, <1>7 DEF ProgramInv, Origin, IsOrigin, WasWritten
<1>11. Origin'
  BY <1>4, <1>6, <1>10 DEF Origin
<1>12. edits = 0 => AllFresh(p.records) /\ AllFresh(new.records)
  <2>1. edits = 0 => AllFresh(p.records)
    BY <1>1 DEF ProgramInv, FreshUntilEdited
  <2>2. ASSUME AllFresh(p.records), NEW i \in DOMAIN new.records
        PROVE  Fresh(new.records[i])
    BY <1>7, <2>2, KeptIsFresh DEF WasWritten, AllFresh
  <2> QED
    BY <2>1, <2>2 DEF AllFresh
<1>13. FreshUntilEdited'
  BY <1>4, <1>6, <1>12 DEF FreshUntilEdited
<1>14. DecoderInv'
  BY <1>6, Unchanged DEF ProgramInv
<1>15. o.registry = registry /\ o.policy = policy /\ o.container = container
  BY <1>3, OutcomeIs
<1>16. UneditedIsLossless'
  <2>1. ASSUME policy = "preserve", container = source.container,
               [i \in DOMAIN new.records |-> Without(new.records[i])] = source.records,
               edits = 0 \/ \A i \in DOMAIN new.records :
                              IsKnownTo(new.records[i], registry)
        PROVE  o.ok /\ o.bytes = source.bytes
    <3>1. PICK read : read = source
      OBVIOUS
    <3>2. \/ AllFresh(p.records)
          \/ \A i \in DOMAIN new.records : IsKnownTo(new.records[i], registry)
      BY <1>12, <2>1
    <3> QED
      BY <1>8, <1>10, <2>1, <3>1, <3>2, CallIsLossless
  <2>2. Unedited' <=>
          [i \in DOMAIN new.records |-> Without(new.records[i])] = source.records
    BY <1>4, <1>6 DEF Unedited
  <2>3. KnowsAll(output.registry)' <=>
          \A i \in DOMAIN new.records : IsKnownTo(new.records[i], registry)
    BY <1>4, <1>5, <1>15 DEF KnowsAll, IsKnownTo
  <2> QED
    BY <1>5, <1>6, <1>15, <2>1, <2>2, <2>3 DEF UneditedIsLossless
<1>17. EditsAreWritten'
  <2>1. ASSUME o.ok
        PROVE  \A i \in DOMAIN new.records :
                 IsEdited(new.records[i], o.parts[i], registry, policy)
    BY <1>8, <2>1, CallIsAsEdited
  <2> QED
    BY <1>4, <1>5, <1>15, <2>1 DEF EditsAreWritten, IsEdited
<1>18. ChecksumIsTrue'
  <2>1. ASSUME o.ok, policy = "recompute"
        PROVE  \A i \in Checksums(new.records) : IsTrue(i, o.parts, registry)
    BY <1>8, <2>1, CallIsTrue
  <2> QED
    BY <1>4, <1>5, <1>15, <2>1 DEF ChecksumIsTrue, IsTrue
<1> QED
  BY <1>9, <1>11, <1>13, <1>14, <1>16, <1>17, <1>18 DEF ProgramInv

\* Forget keeps the invariant.
LEMMA ForgetKeeps ==
  ASSUME ProgramInv, Forget
  PROVE  ProgramInv'
<1>1. UNCHANGED <<vars, program, source, edits>> /\ (output = NoOutput)'
  BY DEF Forget
<1>2. DecoderInv'
  BY <1>1, Unchanged DEF ProgramInv
<1>3. TypedProgram' /\ Origin' /\ FreshUntilEdited'
  BY <1>1 DEF ProgramInv, TypedProgram, Origin, FreshUntilEdited
<1>4. UneditedIsLossless' /\ EditsAreWritten' /\ ChecksumIsTrue'
  <2>1. (output = NoOutput => UneditedIsLossless /\ EditsAreWritten /\ ChecksumIsTrue)'
    BY NothingWritten, PTL
  <2> QED
    BY <1>1, <2>1
<1> QED
  BY <1>2, <1>3, <1>4 DEF ProgramInv

\* A record without what it remembers.
LEMMA WithoutIs ==
  ASSUME NEW record \in AnyRecord, NEW new, new = Without(record)
  PROVE  /\ new \in AnyRecord \/ record.kind = "command"
         /\ new.kind = record.kind /\ new.raw = record.raw
         /\ record.kind # "command" => new = record
         /\ record.kind = "command" =>
              /\ new.name = record.name /\ new.opcode = record.opcode
              /\ new.values = record.values /\ new.baseline = NoBaseline
              /\ new \in Known
<1>1. CASE record.kind = "command"
  <2>1. record \in Known
    BY <1>1, RecordKinds
  <2>2. new = [record EXCEPT !.baseline = NoBaseline]
    BY <1>1 DEF Without
  <2> QED
    BY <1>1, <2>1, <2>2 DEF Known
<1>2. CASE record.kind # "command"
  <2>1. record.kind = "raw"
    BY <1>2, RecordKinds DEF Span
  <2> QED
    BY <1>2, <2>1 DEF Without
<1> QED
  BY <1>1, <1>2

\* Reload keeps the invariant.
LEMMA ReloadKeeps ==
  ASSUME ProgramInv, NEW registry \in Registries, Reload(registry)
  PROVE  ProgramInv'
<1>1. PICK p \in Program : p = program
  BY DEF ProgramInv, TypedProgram, Reload
<1>2. PICK old : old = p.records /\ old \in Seq(AnyRecord)
  BY ProgramFields
<1>3. PICK list : list = Loaded(old, registry)
  OBVIOUS
<1>4. PICK n \in Nat : DOMAIN old = 1..n /\ \A i \in 1..n : old[i] \in AnyRecord
  BY <1>2, LenProperties
<1>5. ASSUME NEW i \in 1..n
      PROVE  list[i] \in AnyRecord /\ Fresh(list[i])
  <2>1. PICK bare : bare = Without(old[i])
    OBVIOUS
  <2>2. list[i] = Baseline(bare, registry)
    BY <1>3, <1>4, <2>1 DEF Loaded
  <2>3. bare \in AnyRecord /\ (bare.kind = "command" => bare.baseline = NoBaseline)
    BY <1>4, <2>1, WithoutIs DEF AnyRecord
  <2>4. list[i] \in AnyRecord /\ IsKept(list[i], bare)
    BY <2>2, <2>3, BaselineIs
  <2> QED
    BY <2>3, <2>4 DEF IsKept, Fresh
<1>6. list \in Seq(AnyRecord) /\ DOMAIN list = 1..n
  <2>1. DOMAIN list = 1..n /\ list = [i \in 1..n |-> list[i]]
    BY <1>3, <1>4 DEF Loaded
  <2>2. list \in [1..n -> AnyRecord]
    BY <1>5, <2>1
  <2> QED
    BY <2>1, <2>2, SeqDef
<1>7. PICK new : new = [p EXCEPT !.records = list, !.registry = registry]
  OBVIOUS
<1>8. program' = new /\ UNCHANGED <<vars, source, edits, output>>
  BY <1>1, <1>2, <1>3, <1>7 DEF Reload
<1>9. /\ new \in Program /\ new.container = p.container /\ new.header = p.header
      /\ new.context = p.context /\ new.magic = p.magic /\ new.records = list
  BY <1>6, <1>7 DEF Program, AnyRecord
<1>10. new # NoProgram
  BY <1>9, ProgramFields
<1>11. TypedProgram'
  BY <1>8, <1>9, <1>10 DEF ProgramInv, TypedProgram
<1>12. p # NoProgram
  BY ProgramFields
<1>13. IsOrigin(new, source)
  BY <1>1, <1>9, <1>12 DEF ProgramInv, Origin, IsOrigin
<1>14. Origin'
  BY <1>8, <1>13 DEF Origin
<1>15. FreshUntilEdited'
  BY <1>5, <1>6, <1>8, <1>9 DEF FreshUntilEdited, AllFresh
<1>16. DecoderInv'
  BY <1>8, Unchanged DEF ProgramInv
<1>17. UneditedIsLossless' /\ EditsAreWritten' /\ ChecksumIsTrue'
  <2>1. (output = NoOutput => UneditedIsLossless /\ EditsAreWritten /\ ChecksumIsTrue)'
    BY NothingWritten, PTL
  <2>2. (output = NoOutput)'
    BY <1>8 DEF Reload
  <2> QED
    BY <2>1, <2>2
<1> QED
  BY <1>11, <1>14, <1>15, <1>16, <1>17 DEF ProgramInv

\* The invariant of programs holds at first.
LEMMA ProgramInitially == ProgramInit => ProgramInv
<1> SUFFICES ASSUME ProgramInit
             PROVE  ProgramInv
  OBVIOUS
<1>1. DecoderInv
  BY InitDecoder DEF ProgramInit
<1>2. TypedProgram /\ Origin /\ FreshUntilEdited
  BY DEF ProgramInit, TypedProgram, Origin, FreshUntilEdited
<1>3. UneditedIsLossless /\ EditsAreWritten /\ ChecksumIsTrue
  BY NothingWritten DEF ProgramInit
<1> QED
  BY <1>1, <1>2, <1>3 DEF ProgramInv

\* Every step of a program keeps it.
LEMMA ProgramNextKeeps == ProgramInv /\ ProgramNext => ProgramInv'
<1> SUFFICES ASSUME ProgramInv, ProgramNext
             PROVE  ProgramInv'
  OBVIOUS
<1>1. ASSUME NEW f \in Files, NEW m \in Magics, NEW r \in Registries, Decode(f, m, r)
      PROVE  ProgramInv'
  BY <1>1, DecodeReads
<1>2. ASSUME NEW data \in Pieces, NEW final \in BOOLEAN, FeedPiece(data, final)
      PROVE  ProgramInv'
  BY <1>2, FeedPieceKeeps
<1>3. ASSUME Assemble
      PROVE  ProgramInv'
  BY <1>3, AssembleReads
<1>4. ASSUME NEW i \in 1..4, NEW k \in 1..2, NEW v \in Edits, Edit(i, k, v)
      PROVE  ProgramInv'
  BY <1>4, EditKeeps
<1>5. ASSUME NEW a \in Additions, Add(a)
      PROVE  ProgramInv'
  BY <1>5, AddKeeps
<1>6. ASSUME NEW r \in Registries, NEW p \in {"preserve", "recompute"},
             program # NoProgram, NEW c \in {program.container, "logical"},
             Write(r, p, c)
      PROVE  ProgramInv'
  BY <1>6, WriteKeeps
<1>7. ASSUME Forget
      PROVE  ProgramInv'
  BY <1>7, ForgetKeeps
<1>8. ASSUME NEW r \in Registries, Reload(r)
      PROVE  ProgramInv'
  BY <1>8, ReloadKeeps
<1> QED
  BY <1>1, <1>2, <1>3, <1>4, <1>5, <1>6, <1>7, <1>8 DEF ProgramNext

-----------------------------------------------------------------------------
(* Datagrams.                                                              *)

Datagram ==
  [direction : {"outbound", "inbound"}, context : Contexts, raw : Seq(Byte),
   program : Program \cup {NoProgram}]

\* What the values a command was given mean for a frame.
Means(record, frame, values) ==
  HasName(Reading, record.name) => Written(Named(Reading, record.name), frame, values)

\* A record of a datagram is of its frame; a package that does not know the
\* command remembers values that mean the frame.
Notes(record, frame, registry) ==
  /\ record.raw = frame
  /\ record.kind = "command" =>
       /\ record.baseline = NoBaseline => HasName(registry, record.name)
       /\ record.baseline # NoBaseline => Means(record, frame, record.baseline)

\* Before it is validated, its values may be all it has.
Opens(record, frame, registry) ==
  /\ record.raw = frame
  /\ record.kind = "command" =>
       /\ record.baseline = NoBaseline =>
            HasName(registry, record.name) \/ Means(record, frame, record.values)
       /\ record.baseline # NoBaseline => Means(record, frame, record.baseline)

FramesOf(p, raw) == LogicalFrames(DecodeDatagram(raw, p.context, p.magic))

Describes(p, raw) ==
  /\ DOMAIN p.records = DOMAIN FramesOf(p, raw)
  /\ \A k \in DOMAIN p.records : Notes(p.records[k], FramesOf(p, raw)[k], p.registry)

Proposes(p, raw) ==
  /\ DOMAIN p.records = DOMAIN FramesOf(p, raw)
  /\ \A k \in DOMAIN p.records : Opens(p.records[k], FramesOf(p, raw)[k], p.registry)

IsHeard(d, raw) ==
  /\ d \in Datagram /\ d.raw = raw
  /\ d.program # NoProgram => Describes(d.program, raw)

\* The programs of a datagram tell what its bytes mean.
TellsAll(p, raw) ==
  /\ Len(p.records) = Len(FramesOf(p, raw))
  /\ \A k \in DOMAIN FramesOf(p, raw) : Tells(p.records[k], FramesOf(p, raw)[k])

IsTold(d, raw) ==
  d.raw = raw /\ (d.program # NoProgram => TellsAll(d.program, raw))

\* The fields of a datagram.
LEMMA DatagramFields ==
  ASSUME NEW d \in Datagram
  PROVE  /\ d.raw \in Seq(Byte) /\ d.context \in Contexts
         /\ d.program # NoProgram => d.program \in Program
BY DEF Datagram

\* What an observer records.
LEMMA RecordedIs ==
  ASSUME NEW raw \in Seq(Byte), NEW direction \in {"outbound", "inbound"},
         NEW context \in Contexts, NEW d, d = Recorded(raw, direction, context)
  PROVE  IsHeard(d, raw)
<1>1. CASE ~DatagramDecodes(raw, context)
  <2>1. d = [direction |-> direction, context |-> context, raw |-> raw,
             program |-> NoProgram]
    BY <1>1 DEF Recorded
  <2>2. d \in Datagram /\ d.raw = raw /\ d.program = NoProgram
    BY <2>1 DEF Datagram
  <2> QED
    BY <2>2 DEF IsHeard
<1>2. CASE DatagramDecodes(raw, context)
  <2>1. PICK data : data = DecodeDatagram(raw, context, ObserverMagic)
    OBVIOUS
  <2>2. PICK registry \in Registries : registry = Default[context]
    BY TranscriptAssumption
  <2>3. PICK list : list = DecodedRecords(data, registry)
    OBVIOUS
  <2>4. PICK p : p = [magic |-> ObserverMagic, context |-> context, container |-> "udp",
                      header |-> <<>>, registry |-> registry, records |-> list]
    OBVIOUS
  <2>5. d = [direction |-> direction, context |-> context, raw |-> raw, program |-> p]
    BY <1>2, <2>1, <2>2, <2>3, <2>4 DEF Recorded
  <2>6. data \in Seq(Byte)
    <3>1. data = StreamOf(raw, "udp", context, ObserverMagic)
      BY <2>1 DEF StreamOf
    <3>2. "udp" \in Containers /\ ObserverMagic \in Byte
      BY TranscriptAssumption DEF Containers
    <3> QED
      BY <1>2, <3>1, <3>2, ContainerInverts
  <2>7. PICK frames : frames = LogicalFrames(data)
    OBVIOUS
  <2>8. /\ frames \in Seq(Seq(Byte)) /\ list \in Seq(AnyRecord) /\ Len(list) = Len(frames)
        /\ \A n \in 1..Len(frames) : AsRead(list[n], registry) /\ list[n].raw = frames[n]
    BY <2>3, <2>6, <2>7, StreamRead
  <2>9. DOMAIN list = 1..Len(frames) /\ DOMAIN frames = 1..Len(frames)
    BY <2>8, LenProperties
  <2>10. p \in Program
    <3>1. ObserverMagic \in Byte /\ "udp" \in Containers /\ <<>> \in Seq(Byte)
      BY TranscriptAssumption, EmptySeq DEF Containers
    <3> QED
      BY <2>4, <2>8, <3>1 DEF Program, AnyRecord
  <2>11. ASSUME NEW n \in 1..Len(frames)
         PROVE  Notes(list[n], frames[n], registry)
    <3>1. AsRead(list[n], registry) /\ list[n].raw = frames[n]
      BY <2>8
    <3> QED
      BY <3>1 DEF AsRead, IsFor, Notes, HasName
  <2>12. p.records = list /\ p.registry = registry /\ FramesOf(p, raw) = frames
    BY <2>1, <2>4, <2>7 DEF FramesOf
  <2>13. Describes(p, raw)
    BY <2>9, <2>11, <2>12 DEF Describes
  <2>14. d \in Datagram /\ d.raw = raw /\ d.program = p
    BY <2>5, <2>10 DEF Datagram
  <2> QED
    BY <2>13, <2>14 DEF IsHeard
<1> QED
  BY <1>1, <1>2

\* An edited datagram.
LEMMA EditedDatagramIs ==
  ASSUME NEW d, NEW raw, IsHeard(d, raw), d.program # NoProgram,
         NEW k \in DOMAIN d.program.records, d.program.records[k].kind = "command",
         NEW j \in DOMAIN d.program.records[k].values, NEW value \in Edits,
         NEW new, new = [d EXCEPT !.program.records[k].values[j] = value]
  PROVE  IsHeard(new, raw)
<1>1. PICK p \in Program : p = d.program
  BY DatagramFields DEF IsHeard
<1>2. PICK list : list = p.records /\ list \in Seq(AnyRecord)
  BY ProgramFields
<1>3. PICK changed : changed = [list EXCEPT ![k].values[j] = value]
  OBVIOUS
<1>4. /\ changed \in Seq(AnyRecord) /\ DOMAIN changed = DOMAIN list
      /\ IsChanged(changed[k], list[k], j, value)
      /\ \A i \in DOMAIN list : i # k => changed[i] = list[i]
  <2>1. k \in DOMAIN list /\ list[k].kind = "command" /\ j \in DOMAIN list[k].values
    BY <1>1, <1>2
  <2> QED
    BY <1>2, <1>3, <2>1, EditIs, ZenonT(40)
<1>5. PICK q : q = [p EXCEPT !.records = changed]
  OBVIOUS
<1>6. /\ q \in Program /\ q.records = changed /\ q.registry = p.registry
      /\ q.context = p.context /\ q.magic = p.magic
  BY <1>4, <1>5 DEF Program, AnyRecord
<1>7. new = [d EXCEPT !.program = q]
  <2>1. d \in Datagram
    BY DEF IsHeard
  <2> QED
    BY <1>1, <1>2, <1>3, <1>5, <2>1 DEF Datagram
<1>8. new \in Datagram /\ new.raw = raw /\ new.program = q
  BY <1>6, <1>7 DEF IsHeard, Datagram
<1>9. PICK frames : frames = FramesOf(p, raw)
  OBVIOUS
<1>10. FramesOf(q, raw) = frames
  BY <1>6, <1>9 DEF FramesOf
<1>11. DOMAIN list = DOMAIN frames
       /\ \A i \in DOMAIN list : Notes(list[i], frames[i], p.registry)
  BY <1>1, <1>2, <1>9 DEF IsHeard, Describes
<1>12. ASSUME NEW i \in DOMAIN list
       PROVE  Notes(changed[i], frames[i], p.registry)
  <2>1. CASE i = k
    <3>1. Notes(list[k], frames[k], p.registry) /\ list[k].kind = "command"
      BY <1>1, <1>2, <1>11, <2>1
    <3> QED
      BY <1>4, <2>1, <3>1 DEF IsChanged, Notes, Means
  <2>2. CASE i # k
    BY <1>4, <1>11, <2>2
  <2> QED
    BY <2>1, <2>2
<1>13. Describes(q, raw)
  BY <1>4, <1>6, <1>10, <1>11, <1>12 DEF Describes
<1> QED
  BY <1>8, <1>13 DEF IsHeard

\* Validating a record.
LEMMA BaselineNotes ==
  ASSUME NEW record \in AnyRecord, NEW frame, NEW registry,
         Opens(record, frame, registry), NEW new, new = Baseline(record, registry)
  PROVE  Notes(new, frame, registry)
<1>1. IsKept(new, record)
  BY BaselineIs
<1>2. CASE record.kind # "command"
  BY <1>1, <1>2 DEF IsKept, Notes, Opens
<1>3. CASE record.kind = "command" /\ HasName(registry, record.name)
  <2>1. new = record
    BY <1>3, BaselineIs
  <2> QED
    BY <1>3, <2>1 DEF Notes, Opens
<1>4. CASE record.kind = "command" /\ ~HasName(registry, record.name)
  <2>1. new.baseline # NoBaseline
    BY <1>4, BaselineIs
  <2>2. \/ new.baseline = record.baseline
        \/ record.baseline = NoBaseline /\ new.baseline = record.values
    BY <1>1, <1>4 DEF IsKept
  <2>3. Means(record, frame, new.baseline)
    BY <1>4, <2>1, <2>2 DEF Opens
  <2> QED
    BY <1>1, <1>4, <2>1, <2>3 DEF Notes, Opens, IsKept, Means
<1> QED
  BY <1>2, <1>3, <1>4

\* A datagram that reproduces its bytes is one of the wire once it is validated.
LEMMA ValidatedIs ==
  ASSUME NEW d \in Datagram, d.program # NoProgram => Proposes(d.program, d.raw),
         Reproduces(d), NEW new, new = Validated(d)
  PROVE  IsHeard(new, d.raw)
<1>1. CASE d.program = NoProgram
  BY <1>1 DEF Validated, IsHeard
<1>2. CASE d.program # NoProgram
  <2>1. PICK p \in Program : p = d.program
    BY <1>2, DatagramFields
  <2>2. PICK list, registry, raw, frames :
          /\ list = p.records /\ list \in Seq(AnyRecord) /\ registry = p.registry
          /\ raw = d.raw /\ frames = FramesOf(p, raw)
    BY ProgramFields
  <2>3. AllEncode(list, registry)
    BY <1>2, <2>1, <2>2 DEF Reproduces, CanWrite
  <2>4. PICK more : more = Encoding(list, registry)
    OBVIOUS
  <2>5. /\ more \in Seq(AnyRecord) /\ Len(more) = Len(list)
        /\ \A i \in 1..Len(list) : more[i] = Baseline(list[i], registry)
    BY <2>2, <2>3, <2>4, EncodingIs
  <2>6. DOMAIN list = 1..Len(list) /\ DOMAIN more = 1..Len(list)
    BY <2>2, <2>5, LenProperties
  <2>7. /\ DOMAIN list = DOMAIN frames
        /\ \A k \in DOMAIN list : Opens(list[k], frames[k], registry)
    BY <1>2, <2>1, <2>2 DEF Proposes
  <2>8. ASSUME NEW k \in DOMAIN list
        PROVE  Notes(more[k], frames[k], registry)
    <3>1. list[k] \in AnyRecord /\ more[k] = Baseline(list[k], registry)
      BY <2>2, <2>5, <2>6, LenProperties
    <3> QED
      BY <2>7, <3>1, BaselineNotes
  <2>9. PICK q : q = [p EXCEPT !.records = more]
    OBVIOUS
  <2>10. /\ q \in Program /\ q.records = more /\ q.registry = registry
         /\ q.context = p.context /\ q.magic = p.magic
    BY <2>2, <2>5, <2>9 DEF Program, AnyRecord
  <2>11. FramesOf(q, raw) = frames
    BY <2>2, <2>10 DEF FramesOf
  <2>12. Describes(q, raw)
    BY <2>6, <2>7, <2>8, <2>10, <2>11 DEF Describes
  <2>13. new = [d EXCEPT !.program = q]
    BY <1>2, <2>1, <2>2, <2>4, <2>9 DEF Validated, Datagram
  <2>14. new \in Datagram /\ new.raw = raw /\ new.program = q
    BY <2>2, <2>10, <2>13 DEF Datagram
  <2> QED
    BY <2>2, <2>12, <2>14 DEF IsHeard
<1> QED
  BY <1>1, <1>2

\* A datagram of the wire can be validated.
LEMMA HeardProposes ==
  ASSUME NEW d, NEW raw, IsHeard(d, raw)
  PROVE  /\ d \in Datagram /\ d.raw = raw
         /\ d.program # NoProgram => Proposes(d.program, d.raw)
BY DEF IsHeard, Describes, Proposes, Notes, Opens

-----------------------------------------------------------------------------
(* What a datagram's program encodes to.                                   *)

\* A record of a frame is written as a frame that begins where the frame did.
LEMMA FrameWritten ==
  ASSUME NEW registry \in Registries, NEW record \in AnyRecord,
         CanEncode(record, registry), NEW bytes, bytes = RecordBytes(record, registry)
  PROVE  bytes = record.raw \/ (IsFrame(bytes) /\ bytes[1] >= Base)
<1>1. CASE record.kind = "command" /\ HasName(registry, record.name)
  <2>1. PICK spec : spec = Named(registry, record.name)
    OBVIOUS
  <2>2. spec \in registry
    BY <1>1, <2>1, NamedSpec
  <2>3. ValuesFit(spec, record.values)
    BY <1>1, <2>1, Zenon DEF CanEncode
  <2>4. record.values \in Seq(Value)
    BY <1>1, RecordKinds DEF Known
  <2>5. IsValues(record.values)
    BY <2>4, SeqIsValues
  <2>6. bytes = record.raw \/ bytes = EncodedValues(spec, record.values)
    BY <1>1, <2>1, Zenon DEF RecordBytes, KnownBytes
  <2>7. CASE bytes = EncodedValues(spec, record.values)
    BY <2>2, <2>3, <2>5, <2>7, SpecFrames
  <2> QED
    BY <2>6, <2>7
<1>2. CASE ~(record.kind = "command" /\ HasName(registry, record.name))
  BY <1>2 DEF RecordBytes
<1> QED
  BY <1>1, <1>2

\* A record that is written as the frame it is of tells what the frame means.
LEMMA WrittenTells ==
  ASSUME NEW registry \in Registries, NEW record \in AnyRecord, NEW frame,
         CanEncode(record, registry), RecordBytes(record, registry) = frame,
         Notes(record, frame, registry)
  PROVE  Tells(record, frame)
<1>1. CASE record.kind = "command" /\ HasName(registry, record.name)
  <2>1. Written(Named(registry, record.name), frame, record.values)
    BY <1>1, RecordWritten, Zenon
  <2>2. HasName(Reading, record.name)
        /\ Named(Reading, record.name) = Named(registry, record.name)
    BY <1>1, SameSpec
  <2> QED
    BY <1>1, <2>1, <2>2, Zenon DEF Tells
<1>2. CASE record.kind = "command" /\ ~HasName(registry, record.name)
  <2>1. record.baseline # NoBaseline /\ Means(record, frame, record.baseline)
    BY <1>2 DEF Notes
  <2>2. CanRepeat(record)
    BY <1>2, RecordWritten, Zenon
  <2>3. record.baseline = record.values
    BY <2>1, <2>2 DEF CanRepeat
  <2>4. record.raw = frame
    BY DEF Notes
  <2> QED
    BY <2>1, <2>3, <2>4, Zenon DEF Tells, Means
<1>3. CASE record.kind # "command"
  <2>1. record.raw = frame
    BY DEF Notes
  <2> QED
    BY <1>3, <2>1, Zenon DEF Tells
<1> QED
  BY <1>1, <1>2, <1>3

\* A datagram that reproduces its bytes tells what they mean: its program is
\* written as a framing of the bytes, and there is only one.
LEMMA ReproducedTells ==
  ASSUME NEW d, NEW raw, IsHeard(d, raw), Reproduces(d)
  PROVE  IsTold(d, raw)
<1>1. d \in Datagram /\ d.raw = raw
  BY DEF IsHeard
<1>2. CASE d.program = NoProgram
  BY <1>1, <1>2 DEF IsTold
<1>3. CASE d.program # NoProgram
  <2>1. PICK p \in Program : p = d.program
    BY <1>1, <1>3, DatagramFields
  <2>2. PICK list, registry :
          /\ list = p.records /\ list \in Seq(AnyRecord)
          /\ registry = p.registry /\ registry \in Registries
    BY ProgramFields
  <2>3. p.magic \in Byte /\ p.magic \in Nat
    BY ProgramFields, ProgramAssumption, BaseAssumption DEF Program
  <2>4. AllEncode(list, registry)
    BY <1>3, <2>1, <2>2 DEF Reproduces, CanWrite
  <2>5. PICK parts : parts = Plain(list, registry)
    OBVIOUS
  <2>6. PICK n \in Nat :
          /\ n = Len(list) /\ DOMAIN list = 1..n /\ DOMAIN parts = 1..n
          /\ Len(parts) = n /\ parts \in Seq(Seq(Byte)) /\ parts \in [1..n -> Seq(Byte)]
    BY <2>2, <2>4, <2>5, PlainIs, LenProperties
  <2>7. \A k \in 1..n : parts[k] = RecordBytes(list[k], registry)
    BY <2>2, <2>4, <2>5, <2>6, PlainIs
  <2>8. PICK whole : whole = Concatenated(parts)
    OBVIOUS
  <2>9. whole \in Seq(Byte)
    BY <2>6, <2>8, JoinedTypes
  <2>10. raw = EncodeDatagram(whole, p.context, p.magic)
    BY <1>1, <1>3, <2>1, <2>2, <2>5, <2>8 DEF Reproduces
  <2>11. DecodeDatagram(raw, p.context, p.magic) = whole
    <3>1. whole \in Seq(0..(Bytes - 1))
      BY <2>9, ProgramAssumption
    <3> QED
      BY <2>3, <2>10, <3>1, DatagramInverts
  <2>12. PICK frames : frames = LogicalFrames(whole)
    OBVIOUS
  <2>13. FramesOf(p, raw) = frames
    BY <2>11, <2>12 DEF FramesOf
  <2>14. frames \in Seq(Seq(Byte)) /\ IsFraming(frames)
    BY <2>9, <2>12, FramesMakeUp DEF IsMadeUp
  <2>15. DOMAIN frames = 1..n /\ Len(frames) = n
         /\ \A k \in 1..n : Notes(list[k], frames[k], registry)
    <3>1. Describes(p, raw)
      BY <1>3, <2>1 DEF IsHeard
    <3>2. DOMAIN frames = 1..n
          /\ \A k \in 1..n : Notes(list[k], frames[k], registry)
      BY <2>2, <2>6, <2>13, <3>1 DEF Describes
    <3> QED
      BY <2>6, <2>14, <3>2, LenProperties
  <2>16. ASSUME NEW k \in 1..n
         PROVE  list[k] \in AnyRecord /\ CanEncode(list[k], registry)
    BY <2>2, <2>4, <2>6, LenProperties DEF AllEncode
  <2>17. IsFraming(parts)
    <3>1. ASSUME NEW k \in 1..n
          PROVE  IsFrame(parts[k]) /\ (k # 1 => parts[k][1] >= Base)
      <4>1. parts[k] = list[k].raw \/ (IsFrame(parts[k]) /\ parts[k][1] >= Base)
        BY <2>2, <2>7, <2>16, FrameWritten
      <4>2. list[k].raw = frames[k]
        BY <2>15 DEF Notes
      <4>3. IsFrame(frames[k]) /\ (k # 1 => frames[k][1] >= Base)
        BY <2>14, <2>15 DEF IsFraming
      <4> QED
        BY <4>1, <4>2, <4>3
    <3> QED
      BY <2>6, <3>1 DEF IsFraming
  <2>18. frames = parts
    BY <2>6, <2>8, <2>12, <2>17, FramesFound
  <2>19. ASSUME NEW k \in 1..n
         PROVE  Tells(list[k], frames[k])
    BY <2>2, <2>7, <2>15, <2>16, <2>18, WrittenTells
  <2>20. TellsAll(p, raw)
    BY <2>2, <2>6, <2>13, <2>15, <2>19 DEF TellsAll
  <2> QED
    BY <1>1, <2>1, <2>20 DEF IsTold
<1> QED
  BY <1>2, <1>3

\* A saved datagram, read again.
LEMMA ReopenedIs ==
  ASSUME NEW d, NEW raw, IsHeard(d, raw), IsTold(d, raw),
         NEW registry \in Registries, NEW new, new = Reopened(d, registry)
  PROVE  /\ new \in Datagram /\ new.raw = raw
         /\ new.program # NoProgram => Proposes(new.program, new.raw)
<1>1. d \in Datagram /\ d.raw = raw
  BY DEF IsHeard
<1>2. CASE d.program = NoProgram
  BY <1>1, <1>2 DEF Reopened
<1>3. CASE d.program # NoProgram
  <2>1. PICK p \in Program : p = d.program
    BY <1>1, <1>3, DatagramFields
  <2>2. PICK list, frames :
          list = p.records /\ list \in Seq(AnyRecord) /\ frames = FramesOf(p, raw)
    BY ProgramFields
  <2>3. PICK n \in Nat : n = Len(list) /\ DOMAIN list = 1..n
    BY <2>2, LenProperties
  <2>4. PICK bare : bare = [k \in DOMAIN list |-> Without(list[k])]
    OBVIOUS
  <2>5. PICK q : q = [p EXCEPT !.registry = registry, !.records = bare]
    OBVIOUS
  <2>6. \A k \in 1..n : list[k] \in AnyRecord
    BY <2>2, <2>3, LenProperties
  <2>7. /\ DOMAIN bare = 1..n
        /\ \A k \in 1..n : bare[k] = Without(list[k])
    BY <2>3, <2>4
  <2>8. bare \in Seq(AnyRecord)
    <3>1. \A k \in 1..n : Without(list[k]) \in AnyRecord
      <4>1. TAKE k \in 1..n
      <4>2. PICK record \in AnyRecord : record = list[k]
        BY <2>6
      <4>3. Without(record) \in AnyRecord \/ Without(record) \in Known
        BY WithoutIs
      <4> QED
        BY <4>2, <4>3 DEF AnyRecord
    <3>2. bare \in [1..n -> AnyRecord]
      BY <2>3, <2>4, <3>1
    <3> QED
      BY <3>2, SeqDef
  <2>9. /\ q \in Program /\ q.records = bare /\ q.registry = registry
        /\ q.context = p.context /\ q.magic = p.magic
    BY <2>5, <2>8 DEF Program, AnyRecord
  <2>10. FramesOf(q, raw) = frames
    BY <2>2, <2>9 DEF FramesOf
  <2>11. DOMAIN frames = 1..n /\ \A k \in 1..n : Notes(list[k], frames[k], p.registry)
    BY <1>3, <2>1, <2>2, <2>3 DEF IsHeard, Describes
  <2>12. \A k \in 1..n : Tells(list[k], frames[k])
    BY <1>3, <2>1, <2>2, <2>11 DEF IsTold, TellsAll
  <2>13. ASSUME NEW k \in 1..n
         PROVE  Opens(bare[k], frames[k], registry)
    <3>1. list[k].raw = frames[k] /\ Tells(list[k], frames[k]) /\ list[k] \in AnyRecord
      BY <2>6, <2>11, <2>12 DEF Notes
    <3>2. CASE list[k].kind # "command"
      <4>1. bare[k] = list[k]
        BY <2>6, <2>7, <3>2, RecordKinds DEF Without, Span
      <4> QED
        BY <3>1, <3>2, <4>1 DEF Opens
    <3>3. CASE list[k].kind = "command"
      <4>1. list[k] \in Known
        BY <3>1, <3>3, RecordKinds
      <4>2. bare[k] = [list[k] EXCEPT !.baseline = NoBaseline]
        BY <2>7, <3>3 DEF Without
      <4>3. /\ bare[k].raw = frames[k] /\ bare[k].baseline = NoBaseline
            /\ bare[k].name = list[k].name /\ bare[k].values = list[k].values
        BY <3>1, <4>1, <4>2 DEF Known
      <4>4. Means(list[k], frames[k], list[k].values)
        BY <3>1, <3>3, Zenon DEF Tells, Means
      <4>5. Means(bare[k], frames[k], bare[k].values)
        BY <4>3, <4>4 DEF Means
      <4> QED
        BY <4>3, <4>5 DEF Opens
    <3> QED
      BY <3>2, <3>3
  <2>14. Proposes(q, raw)
    BY <2>7, <2>9, <2>10, <2>11, <2>13 DEF Proposes
  <2>15. new = [d EXCEPT !.program = q]
    BY <1>1, <1>3, <2>1, <2>2, <2>4, <2>5 DEF Reopened, Datagram
  <2>16. new \in Datagram /\ new.raw = raw /\ new.program = q
    BY <1>1, <2>9, <2>15 DEF Datagram
  <2> QED
    BY <2>14, <2>16
<1> QED
  BY <1>2, <1>3

-----------------------------------------------------------------------------
(* The invariant of transcripts.                                           *)

\* The events of the program's datagrams.
DatagramEvent == [link : {"udp"}, direction : {"send"}, context : Contexts, raw : Seq(Byte)]

PendingInv == pending \in Seq(DatagramEvent)

\* A transcript of what was on the wire.
IsRecord(list, wire) ==
  /\ list \in Seq(Datagram) /\ wire \in Seq(Seq(Byte)) /\ Len(list) = Len(wire)
  /\ \A i \in 1..Len(wire) : IsHeard(list[i], wire[i])

HeardInv == IsRecord(transcript, captured)

\* A transcript that was written, of the first bytes of the wire.
IsSaved(list, wire) ==
  /\ list \in Seq(Datagram) /\ Len(list) <= Len(wire)
  /\ \A i \in 1..Len(list) : IsHeard(list[i], wire[i]) /\ IsTold(list[i], wire[i])

DumpedInv == dumped # NoTranscript => IsSaved(dumped, captured)

SentInv ==
  sent # NoProgram =>
    sent.logical \in Seq(Byte) /\ sent.magic \in Byte /\ sent.context \in Contexts

Unpacked(raws, context, magic) ==
  [n \in DOMAIN raws |-> DecodeDatagram(raws[n], context, magic)]

FlowInv ==
  flow # NoFlow =>
    /\ flow.records = DecodedRecords(
         Concatenated(Unpacked(flow.raws, flow.context, flow.magic)),
         Default[flow.context])
    /\ sent # NoProgram

TranscriptInv ==
  ProgramInv /\ PendingInv /\ HeardInv /\ DumpedInv /\ SentInv /\ FlowInv

-----------------------------------------------------------------------------
(* Recording keeps it.                                                     *)

\* An empty transcript is of an empty wire.
LEMMA EmptyRecord == IsRecord(<<>>, <<>>)
<1>1. <<>> \in Seq(Datagram) /\ <<>> \in Seq(Seq(Byte)) /\ Len(<<>>) = 0
  BY EmptySeq
<1> QED
  BY <1>1 DEF IsRecord

\* One more datagram on the wire is one more in the transcript.
LEMMA RecordGrows ==
  ASSUME NEW list, NEW wire, IsRecord(list, wire), NEW d, NEW raw \in Seq(Byte),
         IsHeard(d, raw)
  PROVE  IsRecord(Append(list, d), Append(wire, raw))
<1>1. PICK n \in Nat : n = Len(wire) /\ n = Len(list)
  BY LenProperties DEF IsRecord
<1>2. PICK B : B = Seq(Byte)
  OBVIOUS
<1>3. PICK more, wires : more = Append(list, d) /\ wires = Append(wire, raw)
  OBVIOUS
<1>4. list \in Seq(Datagram) /\ wire \in Seq(B) /\ d \in Datagram /\ raw \in B
  BY <1>2 DEF IsRecord, IsHeard
<1>5. /\ more \in Seq(Datagram) /\ Len(more) = n + 1 /\ more[n + 1] = d
      /\ \A i \in 1..n : more[i] = list[i]
  BY <1>1, <1>3, <1>4, AppendProperties
<1>6. /\ wires \in Seq(B) /\ Len(wires) = n + 1 /\ wires[n + 1] = raw
      /\ \A i \in 1..n : wires[i] = wire[i]
  <2>1. /\ Append(wire, raw) \in Seq(B) /\ Len(Append(wire, raw)) = Len(wire) + 1
        /\ Append(wire, raw)[Len(wire) + 1] = raw
        /\ \A i \in 1..Len(wire) : Append(wire, raw)[i] = wire[i]
    BY <1>4, AppendProperties
  <2> QED
    BY <1>1, <1>3, <2>1
<1>7. ASSUME NEW i \in 1..(n + 1)
      PROVE  IsHeard(more[i], wires[i])
  <2>1. i \in 1..n \/ i = n + 1
    OBVIOUS
  <2>2. \A k \in 1..n : IsHeard(list[k], wire[k])
    BY <1>1 DEF IsRecord
  <2> QED
    BY <1>5, <1>6, <2>1, <2>2
<1> QED
  BY <1>2, <1>3, <1>5, <1>6, <1>7 DEF IsRecord

\* A saved transcript stays one while the wire goes on.
LEMMA SavedStays ==
  ASSUME NEW list, NEW wire, NEW other, IsSaved(list, wire), IsRecord(other, wire),
         NEW raw \in Seq(Byte)
  PROVE  IsSaved(list, Append(wire, raw))
<1>1. PICK n \in Nat, m \in Nat : n = Len(wire) /\ m = Len(list) /\ m <= n
  <2>1. Len(wire) \in Nat /\ Len(list) \in Nat /\ Len(list) <= Len(wire)
    BY LenProperties DEF IsRecord, IsSaved
  <2> QED
    BY <2>1
<1>2. PICK B : B = Seq(Byte)
  OBVIOUS
<1>3. PICK wires : wires = Append(wire, raw)
  OBVIOUS
<1>4. wire \in Seq(B) /\ raw \in B
  BY <1>2 DEF IsRecord
<1>5. Len(wires) = n + 1 /\ \A i \in 1..n : wires[i] = wire[i]
  BY <1>1, <1>3, <1>4, AppendProperties
<1>6. m <= n + 1 /\ \A i \in 1..m : i \in 1..n
  BY <1>1
<1>7. \A i \in 1..m : wires[i] = wire[i]
  BY <1>5, <1>6
<1> QED
  BY <1>1, <1>3, <1>5, <1>6, <1>7 DEF IsSaved

\* What the observer does with an event.
LEMMA ObserveKeeps ==
  ASSUME HeardInv, DumpedInv, NEW event, event.context \in Contexts,
         event.raw \in Seq(Byte), Observe(event), dumped' = dumped
  PROVE  HeardInv' /\ DumpedInv'
<1>1. PICK known \in BOOLEAN : known = (event.link = "udp" /\ IsMapped(event))
  OBVIOUS
<1>2. CASE ~known
  <2>1. transcript' = transcript /\ captured' = captured
    BY <1>1, <1>2 DEF Observe
  <2> QED
    BY <2>1 DEF HeardInv, DumpedInv
<1>3. CASE known
  <2>1. IsMapped(event)
    BY <1>1, <1>3
  <2>2. Mapping[event.direction] \in {"outbound", "inbound"}
    BY <2>1 DEF IsMapped, Mapping
  <2>3. PICK direction \in {"outbound", "inbound"} : direction = Mapping[event.direction]
    BY <2>2
  <2>4. PICK d : d = Recorded(event.raw, direction, event.context)
    OBVIOUS
  <2>5. IsHeard(d, event.raw)
    BY <2>4, RecordedIs
  <2>6. transcript' = Append(transcript, d)
    BY <1>1, <1>3, <2>3, <2>4 DEF Observe
  <2>7. captured' = Append(captured, event.raw)
    BY <1>1, <1>3 DEF Observe
  <2>8. IsRecord(Append(transcript, d), Append(captured, event.raw))
    BY <2>5, RecordGrows DEF HeardInv
  <2>9. dumped # NoTranscript => IsSaved(dumped, Append(captured, event.raw))
    BY SavedStays DEF HeardInv, DumpedInv
  <2> QED
    BY <2>6, <2>7, <2>8, <2>9 DEF HeardInv, DumpedInv
<1> QED
  BY <1>2, <1>3

\* Deliver keeps the invariant.
LEMMA DeliverKeeps ==
  ASSUME TranscriptInv, Deliver
  PROVE  PendingInv' /\ HeardInv' /\ DumpedInv'
<1>1. pending \in Seq(DatagramEvent) /\ pending # <<>>
  BY DEF TranscriptInv, PendingInv, Deliver
<1>2. Head(pending) \in DatagramEvent /\ Tail(pending) \in Seq(DatagramEvent)
  BY <1>1, HeadTailProperties
<1>3. PICK event \in DatagramEvent : event = Head(pending)
  BY <1>2
<1>4. event.context \in Contexts /\ event.raw \in Seq(Byte)
  BY DEF DatagramEvent
<1>5. Observe(event) /\ dumped' = dumped /\ pending' = Tail(pending)
  BY <1>3 DEF Deliver
<1>6. HeardInv' /\ DumpedInv'
  BY <1>4, <1>5, ObserveKeeps DEF TranscriptInv
<1> QED
  BY <1>2, <1>5, <1>6 DEF PendingInv

\* Overhear keeps the invariant.
LEMMA OverhearKeeps ==
  ASSUME TranscriptInv, NEW e \in Events, Overhear(e)
  PROVE  PendingInv' /\ HeardInv' /\ DumpedInv'
<1>1. e.context \in Contexts /\ e.raw \in Seq(Byte)
  BY TranscriptAssumption
<1>2. Observe(e) /\ dumped' = dumped /\ pending' = pending
  BY DEF Overhear
<1>3. HeardInv' /\ DumpedInv'
  BY <1>1, <1>2, ObserveKeeps DEF TranscriptInv
<1> QED
  BY <1>2, <1>3 DEF TranscriptInv, PendingInv

-----------------------------------------------------------------------------
(* Sending keeps it.                                                       *)

\* Send keeps the invariant.
LEMMA SendKeeps ==
  ASSUME TranscriptInv, NEW limit \in Limits, Send(limit)
  PROVE  PendingInv' /\ SentInv' /\ ProgramInv'
<1>1. PICK p \in Program : p = program
  BY DEF TranscriptInv, ProgramInv, TypedProgram, Send
<1>2. PICK list, registry :
        /\ list = p.records /\ list \in Seq(AnyRecord)
        /\ registry = p.registry /\ registry \in Registries
  BY ProgramFields
<1>3. p.magic \in Byte /\ p.magic \in Nat /\ p.context \in Contexts
  BY ProgramFields, ProgramAssumption, BaseAssumption DEF Program
<1>4. AllEncode(list, registry)
  BY <1>1, <1>2 DEF Send, CanWrite
<1>5. PICK logical : logical = Concatenated(Plain(list, registry))
  OBVIOUS
<1>6. logical \in Seq(Byte)
  <2>1. Len(list) \in Nat /\ Plain(list, registry) \in [1..Len(list) -> Seq(Byte)]
    BY <1>2, <1>4, PlainIs
  <2> QED
    BY <1>5, <2>1, JoinedTypes
<1>7. PICK chunks : chunks = Chunks(logical, limit)
  OBVIOUS
<1>8. PICK n \in Nat : chunks \in [1..n -> Seq(Byte)]
  <2>1. limit \in Nat \ {0}
    BY TranscriptAssumption
  <2> QED
    BY <1>6, <1>7, <2>1, ChunksJoin
<1>9. PICK wire : wire = [k \in DOMAIN chunks |->
                    [link |-> "udp", direction |-> "send", context |-> p.context,
                     raw |-> EncodeDatagram(chunks[k], p.context, p.magic)]]
  OBVIOUS
<1>10. pending' = wire
  BY <1>1, <1>2, <1>5, <1>7, <1>9 DEF Send
<1>11. wire \in Seq(DatagramEvent)
  <2>1. ASSUME NEW k \in 1..n
        PROVE  EncodeDatagram(chunks[k], p.context, p.magic) \in Seq(Byte)
    <3>1. chunks[k] \in Seq(0..(Bytes - 1))
      BY <1>8, ProgramAssumption
    <3>2. EncodeDatagram(chunks[k], p.context, p.magic) \in Seq(0..(Bytes - 1))
      BY <1>3, <3>1, DatagramInverts
    <3> QED
      BY <3>2, ProgramAssumption
  <2>2. DOMAIN chunks = 1..n
    BY <1>8
  <2>3. wire \in [1..n -> DatagramEvent]
    BY <1>3, <1>9, <2>1, <2>2 DEF DatagramEvent
  <2> QED
    BY <2>3, SeqDef
<1>12. sent' = [logical |-> logical, magic |-> p.magic, context |-> p.context]
  BY <1>1, <1>2, <1>5 DEF Send
<1>13. SentInv'
  BY <1>3, <1>6, <1>12 DEF SentInv
<1>14. /\ UNCHANGED vars /\ edits' = edits /\ (output = NoOutput)'
       /\ (program = NoProgram)'
  BY DEF Send
<1>15. DecoderInv'
  BY <1>14, Unchanged DEF TranscriptInv, ProgramInv
<1>16. TypedProgram' /\ Origin' /\ FreshUntilEdited'
  BY <1>14 DEF TranscriptInv, ProgramInv, TypedProgram, Origin, FreshUntilEdited
<1>17. UneditedIsLossless' /\ EditsAreWritten' /\ ChecksumIsTrue'
  <2>1. (output = NoOutput => UneditedIsLossless /\ EditsAreWritten /\ ChecksumIsTrue)'
    BY NothingWritten, PTL
  <2> QED
    BY <1>14, <2>1
<1> QED
  BY <1>10, <1>11, <1>13, <1>15, <1>16, <1>17 DEF PendingInv, ProgramInv

-----------------------------------------------------------------------------
(* Editing, writing and reading keep it.                                   *)

\* A list of datagrams of the wire is a transcript of it.
LEMMA RecordMade ==
  ASSUME NEW list, NEW wire \in Seq(Seq(Byte)), DOMAIN list = 1..Len(wire),
         list = [i \in DOMAIN list |-> list[i]],
         \A i \in 1..Len(wire) : IsHeard(list[i], wire[i])
  PROVE  IsRecord(list, wire)
<1>1. PICK n \in Nat : n = Len(wire)
  BY LenProperties
<1>2. \A i \in 1..n : list[i] \in Datagram
  BY <1>1 DEF IsHeard
<1>3. list \in [1..n -> Datagram]
  BY <1>1, <1>2
<1>4. list \in Seq(Datagram) /\ Len(list) = n
  BY <1>3, SeqDef, LenProperties
<1> QED
  BY <1>1, <1>4 DEF IsRecord

\* EditDatagram keeps the invariant.
LEMMA EditDatagramKeeps ==
  ASSUME TranscriptInv, NEW i, NEW k, NEW j, NEW value \in Edits,
         EditDatagram(i, k, j, value)
  PROVE  HeardInv' /\ ProgramInv'
<1>1. PICK n \in Nat : n = Len(captured) /\ DOMAIN transcript = 1..n
  BY LenProperties DEF TranscriptInv, HeardInv, IsRecord
<1>2. i \in 1..n /\ i \in DOMAIN transcript
  BY <1>1 DEF EditDatagram
<1>3. PICK d, raw : d = transcript[i] /\ raw = captured[i]
  OBVIOUS
<1>4. IsHeard(d, raw)
  BY <1>1, <1>2, <1>3 DEF TranscriptInv, HeardInv, IsRecord
<1>5. /\ d.program # NoProgram /\ k \in DOMAIN d.program.records
      /\ d.program.records[k].kind = "command"
      /\ j \in DOMAIN d.program.records[k].values
  BY <1>3 DEF EditDatagram
<1>6. PICK new : new = [d EXCEPT !.program.records[k].values[j] = value]
  OBVIOUS
<1>7. IsHeard(new, raw)
  BY <1>4, <1>5, <1>6, EditedDatagramIs
<1>8. transcript' = [transcript EXCEPT ![i] = new]
  BY <1>3, <1>6 DEF EditDatagram
<1>9. captured' = captured /\ captured \in Seq(Seq(Byte))
  BY DEF EditDatagram, TranscriptInv, HeardInv, IsRecord
<1>10. HeardInv'
  <2>1. PICK list : list = [transcript EXCEPT ![i] = new]
    OBVIOUS
  <2>2. DOMAIN list = 1..n /\ list = [h \in DOMAIN list |-> list[h]]
    BY <1>1, <2>1
  <2>3. ASSUME NEW h \in 1..n
        PROVE  IsHeard(list[h], captured[h])
    <3>1. CASE h = i
      BY <1>1, <1>2, <1>3, <1>7, <2>1, <3>1
    <3>2. CASE h # i
      <4>1. list[h] = transcript[h]
        BY <1>1, <2>1, <3>2
      <4> QED
        BY <1>1, <4>1 DEF TranscriptInv, HeardInv, IsRecord
    <3> QED
      BY <3>1, <3>2
  <2>4. IsRecord(list, captured)
    BY <1>1, <1>9, <2>2, <2>3, RecordMade
  <2> QED
    BY <1>8, <1>9, <2>1, <2>4 DEF HeardInv
<1>11. /\ UNCHANGED vars /\ edits' = edits + 1 /\ program' = program
       /\ source' = source /\ output' = output
  BY DEF EditDatagram
<1>12. DecoderInv'
  BY <1>11, Unchanged DEF TranscriptInv, ProgramInv
<1>13. edits \in Nat /\ edits + 1 \in Nat /\ edits + 1 # 0
  BY DEF TranscriptInv, ProgramInv, TypedProgram
<1>14. TypedProgram' /\ Origin' /\ FreshUntilEdited'
  BY <1>11, <1>13 DEF TranscriptInv, ProgramInv, TypedProgram, Origin, FreshUntilEdited
<1>15. EditsAreWritten' /\ ChecksumIsTrue'
  BY <1>11 DEF TranscriptInv, ProgramInv, EditsAreWritten, ChecksumIsTrue, Checksums
<1>16. UneditedIsLossless'
  BY <1>11, <1>13 DEF TranscriptInv, ProgramInv, UneditedIsLossless, Unedited, KnowsAll
<1> QED
  BY <1>10, <1>12, <1>14, <1>15, <1>16 DEF ProgramInv

\* Dump keeps the invariant.
LEMMA DumpKeeps ==
  ASSUME TranscriptInv, Dump
  PROVE  HeardInv' /\ DumpedInv'
<1>1. PICK n \in Nat : n = Len(captured) /\ Len(transcript) = n /\ DOMAIN transcript = 1..n
  BY LenProperties DEF TranscriptInv, HeardInv, IsRecord
<1>2. \A i \in 1..n : IsHeard(transcript[i], captured[i])
  BY <1>1 DEF TranscriptInv, HeardInv, IsRecord
<1>3. \A i \in 1..n : Reproduces(transcript[i])
  BY <1>1 DEF Dump
<1>4. captured' = captured /\ captured \in Seq(Seq(Byte)) /\ dumped' = transcript
  BY DEF Dump, TranscriptInv, HeardInv, IsRecord
<1>5. PICK list : list = [i \in DOMAIN transcript |-> Validated(transcript[i])]
  OBVIOUS
<1>6. transcript' = list
  BY <1>5 DEF Dump
<1>7. DOMAIN list = 1..n /\ list = [i \in DOMAIN list |-> list[i]]
      /\ \A i \in 1..n : list[i] = Validated(transcript[i])
  BY <1>1, <1>5
<1>8. ASSUME NEW i \in 1..n
      PROVE  IsHeard(list[i], captured[i]) /\ IsTold(transcript[i], captured[i])
  <2>1. PICK d, raw : d = transcript[i] /\ raw = captured[i]
    OBVIOUS
  <2>2. IsHeard(d, raw) /\ Reproduces(d)
    BY <1>2, <1>3, <2>1
  <2>3. d.raw = raw /\ (d.program # NoProgram => Proposes(d.program, d.raw))
        /\ d \in Datagram
    BY <2>2, HeardProposes
  <2>4. IsHeard(Validated(d), raw)
    BY <2>2, <2>3, ValidatedIs
  <2>5. IsTold(d, raw)
    BY <2>2, ReproducedTells
  <2> QED
    BY <1>7, <2>1, <2>4, <2>5
<1>9. IsRecord(list, captured)
  BY <1>1, <1>4, <1>7, <1>8, RecordMade
<1>10. IsSaved(transcript, captured)
  <2>1. transcript \in Seq(Datagram)
    BY DEF TranscriptInv, HeardInv, IsRecord
  <2>2. \A i \in 1..n : IsHeard(transcript[i], captured[i])
                      /\ IsTold(transcript[i], captured[i])
    BY <1>2, <1>8
  <2>3. Len(transcript) <= Len(captured)
    BY <1>1
  <2> QED
    BY <1>1, <2>1, <2>2, <2>3 DEF IsSaved
<1> QED
  BY <1>4, <1>6, <1>9, <1>10 DEF HeardInv, DumpedInv

\* Load keeps the invariant.
LEMMA LoadKeeps ==
  ASSUME TranscriptInv, NEW registry \in Registries, Load(registry)
  PROVE  HeardInv'
<1>1. dumped # NoTranscript /\ Len(dumped) = Len(captured) /\ captured' = captured
  BY DEF Load
<1>2. IsSaved(dumped, captured) /\ captured \in Seq(Seq(Byte))
  BY <1>1 DEF TranscriptInv, DumpedInv, HeardInv, IsRecord
<1>3. PICK n \in Nat : n = Len(captured) /\ DOMAIN dumped = 1..n
  BY <1>1, <1>2, LenProperties DEF IsSaved
<1>4. PICK read : read = [i \in DOMAIN dumped |-> Reopened(dumped[i], registry)]
  OBVIOUS
<1>5. PICK list : list = [i \in DOMAIN read |-> Validated(read[i])]
  OBVIOUS
<1>6. transcript' = list /\ \A i \in DOMAIN read : Reproduces(read[i])
  BY <1>4, <1>5 DEF Load
<1>7. DOMAIN read = 1..n /\ \A i \in 1..n : read[i] = Reopened(dumped[i], registry)
  BY <1>3, <1>4
<1>8. DOMAIN list = 1..n /\ list = [i \in DOMAIN list |-> list[i]]
      /\ \A i \in 1..n : list[i] = Validated(read[i])
  BY <1>5, <1>7
<1>9. ASSUME NEW i \in 1..n
      PROVE  IsHeard(list[i], captured[i])
  <2>1. PICK d, raw : d = dumped[i] /\ raw = captured[i]
    OBVIOUS
  <2>2. IsHeard(d, raw) /\ IsTold(d, raw)
    BY <1>1, <1>2, <1>3, <2>1 DEF IsSaved
  <2>3. PICK again : again = Reopened(d, registry)
    OBVIOUS
  <2>4. /\ again.raw = raw
        /\ again.program # NoProgram => Proposes(again.program, again.raw)
        /\ again \in Datagram
    BY <2>2, <2>3, ReopenedIs
  <2>5. Reproduces(again) /\ list[i] = Validated(again)
    BY <1>6, <1>7, <1>8, <2>1, <2>3
  <2>6. IsHeard(list[i], again.raw)
    BY <2>4, <2>5, ValidatedIs
  <2> QED
    BY <2>1, <2>4, <2>6
<1>10. IsRecord(list, captured)
  BY <1>2, <1>3, <1>8, <1>9, RecordMade
<1> QED
  BY <1>1, <1>6, <1>10 DEF HeardInv

\* Flow keeps the invariant.
LEMMA FlowKeeps ==
  ASSUME NEW direction, NEW context, NEW start, NEW magic,
         Flow(direction, context, start, magic)
  PROVE  FlowInv'
<1>1. PICK selected :
        selected = SelectSeq(SubSeq(transcript, start, Len(transcript)),
                     LAMBDA d : d.direction = direction /\ d.context = context)
  OBVIOUS
<1>2. PICK logical :
        logical = Concatenated([n \in DOMAIN selected |->
                    DecodeDatagram(selected[n].raw, context, magic)])
  OBVIOUS
<1>3. PICK raws : raws = [n \in DOMAIN selected |-> selected[n].raw]
  OBVIOUS
<1>4. flow' = [magic |-> magic, context |-> context, raws |-> raws,
               records |-> FlowRecords(logical, selected, context, magic)]
  BY <1>1, <1>2, <1>3, Zenon DEF Flow
<1>5. sent # NoProgram /\ sent' = sent
  BY DEF Flow
<1>6. FlowRecords(logical, selected, context, magic)
        = DecodedRecords(logical, Default[context])
  BY DEF FlowRecords
<1>7. [n \in DOMAIN selected |-> DecodeDatagram(selected[n].raw, context, magic)]
        = Unpacked(raws, context, magic)
  BY <1>3 DEF Unpacked
<1>8. logical = Concatenated(Unpacked(raws, context, magic))
  BY <1>2, <1>7
<1>9. /\ (flow.raws = raws)' /\ (flow.context = context)' /\ (flow.magic = magic)'
      /\ (flow.records = DecodedRecords(logical, Default[context]))'
  BY <1>4, <1>6
<1> QED
  BY <1>5, <1>8, <1>9 DEF FlowInv

-----------------------------------------------------------------------------
(* The theorems.                                                           *)

\* The invariant of transcripts holds at first.
LEMMA TranscriptInitially == TranscriptInit => TranscriptInv
<1> SUFFICES ASSUME TranscriptInit
             PROVE  TranscriptInv
  OBVIOUS
<1>1. ProgramInv
  BY ProgramInitially DEF TranscriptInit
<1>2. PendingInv
  BY EmptySeq DEF TranscriptInit, PendingInv
<1>3. HeardInv
  BY EmptyRecord DEF TranscriptInit, HeardInv
<1>4. DumpedInv /\ SentInv /\ FlowInv
  BY DEF TranscriptInit, DumpedInv, SentInv, FlowInv
<1> QED
  BY <1>1, <1>2, <1>3, <1>4 DEF TranscriptInv

\* What a step leaves alone stays as it was.
LEMMA TranscriptStays ==
  ASSUME TranscriptInv
  PROVE  /\ UNCHANGED pending => PendingInv'
         /\ UNCHANGED <<transcript, captured>> => HeardInv'
         /\ UNCHANGED <<dumped, captured>> => DumpedInv'
         /\ UNCHANGED sent => SentInv'
         /\ flow = NoFlow /\ UNCHANGED flow => FlowInv'
         /\ UNCHANGED <<flow, sent>> => FlowInv'
         /\ UNCHANGED programvars => ProgramInv'
<1>1. UNCHANGED pending => PendingInv'
  BY DEF TranscriptInv, PendingInv
<1>2. UNCHANGED <<transcript, captured>> => HeardInv'
  BY DEF TranscriptInv, HeardInv
<1>3. UNCHANGED <<dumped, captured>> => DumpedInv'
  BY DEF TranscriptInv, DumpedInv
<1>4. UNCHANGED sent => SentInv'
  BY DEF TranscriptInv, SentInv
<1>5. flow = NoFlow /\ UNCHANGED flow => FlowInv'
  BY DEF FlowInv
<1>6. UNCHANGED <<flow, sent>> => FlowInv'
  BY DEF TranscriptInv, FlowInv
<1>7. ASSUME UNCHANGED programvars
      PROVE  ProgramInv'
  <2>1. UNCHANGED vars /\ program' = program /\ source' = source
        /\ edits' = edits /\ output' = output
    BY <1>7 DEF programvars
  <2>2. DecoderInv'
    BY <2>1, Unchanged DEF TranscriptInv, ProgramInv
  <2>3. TypedProgram' /\ Origin' /\ FreshUntilEdited'
    BY <2>1 DEF TranscriptInv, ProgramInv, TypedProgram, Origin, FreshUntilEdited
  <2>4. EditsAreWritten' /\ ChecksumIsTrue'
    BY <2>1 DEF TranscriptInv, ProgramInv, EditsAreWritten, ChecksumIsTrue, Checksums
  <2>5. UneditedIsLossless'
    BY <2>1 DEF TranscriptInv, ProgramInv, UneditedIsLossless, Unedited, KnowsAll
  <2> QED
    BY <2>2, <2>3, <2>4, <2>5 DEF ProgramInv
<1> QED
  BY <1>1, <1>2, <1>3, <1>4, <1>5, <1>6, <1>7

\* Every step of a transcript keeps it.
LEMMA TranscriptStepKeeps ==
  ASSUME TranscriptInv, flow = NoFlow, TranscriptStep
  PROVE  TranscriptInv'
<1>1. ASSUME NEW limit \in Limits, Send(limit)
      PROVE  TranscriptInv'
  <2>1. UNCHANGED <<transcript, dumped, flow, captured>>
    BY <1>1 DEF Send
  <2> QED
    BY <1>1, <2>1, SendKeeps, TranscriptStays DEF TranscriptInv
<1>2. ASSUME Deliver
      PROVE  TranscriptInv'
  <2>1. UNCHANGED <<programvars, flow, sent>>
    BY <1>2 DEF Deliver
  <2> QED
    BY <1>2, <2>1, DeliverKeeps, TranscriptStays DEF TranscriptInv
<1>3. ASSUME NEW e \in Events, Overhear(e)
      PROVE  TranscriptInv'
  <2>1. UNCHANGED <<programvars, flow, sent>>
    BY <1>3 DEF Overhear
  <2> QED
    BY <1>3, <2>1, OverhearKeeps, TranscriptStays DEF TranscriptInv
<1>4. ASSUME NEW i, NEW k, NEW j, NEW v \in Edits, EditDatagram(i, k, j, v)
      PROVE  TranscriptInv'
  <2>1. UNCHANGED <<pending, dumped, flow, sent, captured>>
    BY <1>4, Zenon DEF EditDatagram
  <2> QED
    BY <1>4, <2>1, EditDatagramKeeps, TranscriptStays DEF TranscriptInv
<1>5. ASSUME Dump
      PROVE  TranscriptInv'
  <2>1. UNCHANGED <<programvars, pending, flow, sent>>
    BY <1>5 DEF Dump
  <2> QED
    BY <1>5, <2>1, DumpKeeps, TranscriptStays DEF TranscriptInv
<1>6. ASSUME NEW r \in Registries, Load(r)
      PROVE  TranscriptInv'
  <2>1. UNCHANGED <<programvars, pending, dumped, flow, sent, captured>>
    BY <1>6 DEF Load
  <2> QED
    BY <1>6, <2>1, LoadKeeps, TranscriptStays DEF TranscriptInv
<1>7. ASSUME NEW d, NEW c, NEW start, NEW m, Flow(d, c, start, m)
      PROVE  TranscriptInv'
  <2>1. UNCHANGED <<programvars, transcript, pending, dumped, sent, captured>>
    BY <1>7 DEF Flow
  <2> QED
    BY <1>7, <2>1, FlowKeeps, TranscriptStays DEF TranscriptInv
<1> QED
  BY <1>1, <1>2, <1>3, <1>4, <1>5, <1>6, <1>7 DEF TranscriptStep

\* Every step keeps it.
LEMMA TranscriptNextKeeps ==
  TranscriptInv /\ [TranscriptNext]_<<programvars, transcriptvars>> => TranscriptInv'
<1> SUFFICES ASSUME TranscriptInv, [TranscriptNext]_<<programvars, transcriptvars>>
             PROVE  TranscriptInv'
  OBVIOUS
<1>1. CASE ProgramNext /\ UNCHANGED transcriptvars
  <2>1. ProgramInv'
    BY <1>1, ProgramNextKeeps DEF TranscriptInv
  <2>2. UNCHANGED <<transcript, pending, dumped, flow, sent, captured>>
    BY <1>1 DEF transcriptvars
  <2> QED
    BY <2>1, <2>2, TranscriptStays DEF TranscriptInv
<1>2. CASE flow = NoFlow /\ TranscriptStep
  BY <1>2, TranscriptStepKeeps
<1>3. CASE UNCHANGED <<programvars, transcriptvars>>
  <2>1. UNCHANGED <<transcript, pending, dumped, flow, sent, captured>>
        /\ UNCHANGED programvars
    BY <1>3 DEF transcriptvars
  <2> QED
    BY <2>1, TranscriptStays DEF TranscriptInv
<1> QED
  BY <1>1, <1>2, <1>3 DEF TranscriptNext

\* A flow of the chunks of what was sent is what was sent.
LEMMA FlowIsDecoded ==
  ASSUME SentInv, FlowInv
  PROVE  FlowIsTheStream
<1> SUFFICES ASSUME flow # NoFlow, flow.context = sent.context,
                    flow.magic = sent.magic, NEW limit \in Limits,
                    flow.raws = [n \in DOMAIN Chunks(sent.logical, limit) |->
                       EncodeDatagram(Chunks(sent.logical, limit)[n],
                                      sent.context, sent.magic)]
             PROVE  flow.records = DecodedRecords(sent.logical, Default[sent.context])
  BY DEF FlowIsTheStream
<1>1. PICK logical \in Seq(Byte) : logical = sent.logical
  BY DEF SentInv, FlowInv
<1>2. PICK magic \in Byte, context \in Contexts :
        magic = sent.magic /\ context = sent.context
  BY DEF SentInv, FlowInv
<1>3. magic \in Nat
  BY ProgramAssumption, BaseAssumption
<1>4. PICK chunks : chunks = Chunks(logical, limit)
  OBVIOUS
<1>5. /\ \E n \in Nat : chunks \in [1..n -> Seq(Byte)]
      /\ Concatenated(chunks) = logical
  <2>1. limit \in Nat \ {0}
    BY TranscriptAssumption
  <2> QED
    BY <1>4, <2>1, ChunksJoin
<1>6. PICK n \in Nat : chunks \in [1..n -> Seq(Byte)]
  BY <1>5
<1>7. PICK raws : raws = [k \in DOMAIN chunks |-> EncodeDatagram(chunks[k], context, magic)]
  OBVIOUS
<1>8. flow.raws = raws
  BY <1>1, <1>2, <1>4, <1>7
<1>9. ASSUME NEW k \in 1..n
      PROVE  DecodeDatagram(raws[k], context, magic) = chunks[k]
  <2>1. chunks[k] \in Seq(0..(Bytes - 1))
    BY <1>6, ProgramAssumption
  <2>2. raws[k] = EncodeDatagram(chunks[k], context, magic)
    BY <1>6, <1>7
  <2> QED
    BY <1>3, <2>1, <2>2, DatagramInverts
<1>10. Unpacked(raws, context, magic) = chunks
  <2>1. DOMAIN raws = 1..n
    BY <1>6, <1>7
  <2> QED
    BY <1>6, <1>9, <2>1 DEF Unpacked
<1>11. flow.records = DecodedRecords(Concatenated(Unpacked(flow.raws, flow.context,
                        flow.magic)), Default[flow.context])
  BY DEF FlowInv
<1> QED
  BY <1>1, <1>2, <1>5, <1>8, <1>10, <1>11

\* A transcript of what was on the wire is exact.
LEMMA DumpedIsExact ==
  ASSUME DumpedInv
  PROVE  TranscriptIsExact
<1> SUFFICES ASSUME dumped # NoTranscript
             PROVE  TranscriptIsExact
  BY DEF TranscriptIsExact
<1>1. IsSaved(dumped, captured)
  BY DEF DumpedInv
<1>2. PICK n \in Nat : n = Len(dumped) /\ DOMAIN dumped = 1..n
  BY <1>1, LenProperties DEF IsSaved
<1>3. \A i \in 1..n : IsTold(dumped[i], captured[i])
  BY <1>1, <1>2 DEF IsSaved
<1>4. ASSUME NEW i \in 1..n, dumped[i].program # NoProgram
      PROVE  TellsAll(dumped[i].program, captured[i])
  BY <1>3, <1>4 DEF IsTold
<1> QED
  BY <1>2, <1>3, <1>4 DEF TranscriptIsExact, IsTold, TellsAll, FramesOf

\* The inductive invariant, of the program and of its transcript.
THEOREM TranscriptsKeepIt == TranscriptSpec => []TranscriptInv
<1>1. TranscriptInit => TranscriptInv
  BY TranscriptInitially
<1>2. TranscriptInv /\ [TranscriptNext]_<<programvars, transcriptvars>> => TranscriptInv'
  BY TranscriptNextKeeps
<1> QED
  BY <1>1, <1>2, PTL DEF TranscriptSpec

\* For every registry, stream and number of edits: a program with the values it
\* was read with is written byte for byte as it was read, by Program.encode.
THEOREM UneditedProgramsAreLossless == TranscriptSpec => []UneditedIsLossless
<1>1. TranscriptInv => UneditedIsLossless
  BY DEF TranscriptInv, ProgramInv
<1> QED
  BY <1>1, TranscriptsKeepIt, PTL

\* For every specification and value: the bytes KnownCommand.encode writes mean
\* the values of the record, and what the writer does not know is repeated.
THEOREM ProgramsAreWrittenAsEdited == TranscriptSpec => []EditsAreWritten
<1>1. TranscriptInv => EditsAreWritten
  BY DEF TranscriptInv, ProgramInv
<1> QED
  BY <1>1, TranscriptsKeepIt, PTL

\* For every program: the checksum Program.encode recomputes is the sum of all
\* bytes but its own.
THEOREM RecomputedChecksumsAreTrue == TranscriptSpec => []ChecksumIsTrue
<1>1. TranscriptInv => ChecksumIsTrue
  BY DEF TranscriptInv, ProgramInv
<1> QED
  BY <1>1, TranscriptsKeepIt, PTL

\* For every wire and every edit, save and load: what Transcript.to_json wrote
\* keeps the bytes of the wire, and its programs tell what those bytes mean.
THEOREM TranscriptsAreExact == TranscriptSpec => []TranscriptIsExact
<1>1. TranscriptInv => TranscriptIsExact
  BY DumpedIsExact DEF TranscriptInv
<1> QED
  BY <1>1, TranscriptsKeepIt, PTL

\* For every limit of a datagram: decode_flow puts the datagrams of a program
\* together to the stream that was sent.
THEOREM FlowsAreTheStream == TranscriptSpec => []FlowIsTheStream
<1>1. TranscriptInv => FlowIsTheStream
  BY FlowIsDecoded DEF TranscriptInv
<1> QED
  BY <1>1, TranscriptsKeepIt, PTL

\* StreamDecoder does not show its chunks when its records become programs,
\* either.
THEOREM ProgramsDecodeAlike == TranscriptSpec => []ChunkingInvisible
<1>1. TranscriptInv => ChunkingInvisible
  BY DEF TranscriptInv, ProgramInv, DecoderInv
<1> QED
  BY <1>1, TranscriptsKeepIt, PTL

\* Nor does it lose or repeat a byte there.
THEOREM ProgramsLoseNoByte == TranscriptSpec => []EveryByteOnce
<1>1. TranscriptInv => EveryByteOnce
  BY ByteInOneRecord DEF TranscriptInv, ProgramInv
<1> QED
  BY <1>1, TranscriptsKeepIt, PTL

=============================================================================
