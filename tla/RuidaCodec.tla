----------------------------- MODULE RuidaCodec ------------------------------
(***************************************************************************)
(* The bytes of Ruida streams: their scrambling (codec.py), the fields of  *)
(* commands (fields.py), the table of commands (specs.py), frames          *)
(* (syntax.py, program.py) and datagrams (transport.py, api.py).           *)
(*                                                                         *)
(* A byte of Base or more starts a command, the others are digits.  Base   *)
(* is 128; every definition holds for any power of two.  A value is        *)
(* [number |-> n] or [bytes |-> s]; the values of a command are listed in  *)
(* the order of its fields.                                                *)
(***************************************************************************)
EXTENDS Integers, Sequences, FiniteSets

CONSTANTS
  Base,          \* COMMAND_START
  Padding,       \* what the bits of a five-digit group above the 32nd can hold
  Channel,       \* values of one colour channel
  Wrapper,       \* the bytes a file header starts with: RDWORKV
  HeaderSize,    \* its length, version digits included
  NoRaw,         \* raw is None
  NoBaseline     \* _raw_fallback_values is None

ASSUME CodecAssumption ==
  /\ Base \in Nat \ {0, 1} /\ Padding \in Nat \ {0, 1} /\ Channel \in Nat \ {0}
  /\ HeaderSize \in Nat /\ Len(Wrapper) <= HeaderSize

\* Base is a power of two: what divides it is even, or one.
ASSUME BaseAssumption ==
  \A n \in 1..Base : Base % n = 0 => n = 1 \/ n % 2 = 0

Bytes == 2 * Base

-----------------------------------------------------------------------------
(* codec.py: scrambling.                                                   *)

\* The three shifted exclusive ors of swizzle_byte exchange the first bit and
\* the last one.
SwapEnds(b) ==
  LET first == b \div Base
      last  == b % 2
  IN  b - first * Base - last + last * Base + first

Bit == {n \in 1..Base : Base % n = 0}

ExclusiveOr(a, b) ==
  LET differ(n) == (a \div n) % 2 # (b \div n) % 2
      upTo[n \in Bit] == (IF differ(n) THEN n ELSE 0)
                           + (IF n = 1 THEN 0 ELSE upTo[n \div 2])
  IN  upTo[Base]

SwizzleByte(b, magic) == (ExclusiveOr(SwapEnds(b), magic) + 1) % Bytes

UnswizzleByte(b, magic) == SwapEnds(ExclusiveOr((b - 1) % Bytes, magic))

Swizzle(data, magic) == [i \in DOMAIN data |-> SwizzleByte(data[i], magic)]

Unswizzle(data, magic) == [i \in DOMAIN data |-> UnswizzleByte(data[i], magic)]

-----------------------------------------------------------------------------
(* codec.py and fields.py: numbers in digits.                              *)

IsDigits(s) == \A i \in DOMAIN s : s[i] < Base

\* How many numbers of so many digits there are.
Power(width) ==
  LET first[k \in 0..width] == IF k = 0 THEN 1 ELSE Base * first[k - 1]
  IN  first[width]

\* _encode_base128 and _decode_base128.
Digits(n, width) == [i \in 1..width |-> (n \div Power(width - i)) % Base]

Number(digits) ==
  LET first[k \in 0..Len(digits)] ==
        IF k = 0 THEN 0 ELSE first[k - 1] * Base + digits[k]
  IN  first[Len(digits)]

\* A field is [kind, width, scale]: a value is scale times its wire number, and
\* scale is 1 for a field of integers.
Size(f) == Power(f.width)

\* A narrow number is signed and leaves the padding bits above it.
Low(f) == Size(f) \div Padding

Signed(n, size) == IF n >= size \div 2 THEN n - size ELSE n

\* decode_s32 and PackedBytes8Field refuse the other paddings.
NumberIsValid(f, n) ==
  LET padding == n \div Low(f)
  IN  CASE f.kind = "narrow" ->
             \/ padding = 0
             \/ padding = Padding - 1 /\ n % Low(f) >= Low(f) \div 2
        [] f.kind = "packed" -> padding = 0
        [] OTHER -> TRUE

\* The channels of a colour change places.
Reversed(c) ==
  (c % Channel) * Channel * Channel + ((c \div Channel) % Channel) * Channel
    + ((c \div (Channel * Channel)) % Channel)

\* What a wire number means; a colour drops what is above its channels.
NumberValue(f, n) ==
  CASE f.kind = "signed" -> f.scale * Signed(n, Size(f))
    [] f.kind = "narrow" -> f.scale * Signed(n % Low(f), Low(f))
    [] f.kind = "colour" -> Reversed(n)
    [] OTHER             -> f.scale * n

\* Python's round(), and int(x + 0.5) of a power.
HalfEven(v, scale) ==
  LET down == v \div scale
      rest == 2 * (v % scale)
  IN  IF rest > scale \/ (rest = scale /\ down % 2 = 1) THEN down + 1 ELSE down

HalfUp(v, scale) == (2 * v + scale) \div (2 * scale)

Rounded(f, v) == IF f.kind = "power" THEN HalfUp(v, f.scale)
                                     ELSE HalfEven(v, f.scale)

\* The values a field takes.
NumberFits(f, v) ==
  LET n == Rounded(f, v)
      within(size) == -(size \div 2) <= n /\ n < size \div 2
  IN  CASE f.kind = "signed" -> within(Size(f))
        [] f.kind = "narrow" -> within(Low(f))
        [] f.kind = "colour" -> v \in 0..(Channel * Channel * Channel - 1)
        [] f.kind = "packed" -> n \in 0..(Low(f) - 1)
        [] f.kind = "power"  -> v \in 0..(f.scale * (Size(f) - 1))
        [] OTHER             -> n \in 0..(Size(f) - 1)

NumberDigits(f, v) ==
  LET n == Rounded(f, v)
  IN  CASE f.kind = "signed" -> Digits(n % Size(f), f.width)
        [] f.kind = "narrow" -> Digits(n % Low(f), f.width)
        [] f.kind = "colour" -> Digits(Reversed(v), f.width)
        [] OTHER             -> Digits(n, f.width)

-----------------------------------------------------------------------------
(* fields.py: fields in a frame.                                           *)

IsText(f) == f.kind \in {"bytes", "string"}

\* The fields there are.
FieldIsValid(f) ==
  /\ f.kind \in {"unsigned", "signed", "power", "narrow", "packed", "colour",
                 "bytes", "string"}
  /\ f.width \in Nat /\ f.scale \in Nat \ {0}
  /\ ~IsText(f) => f.width # 0
  /\ f.kind \in {"narrow", "packed"} => Low(f) # 0
  /\ f.kind = "narrow" => Low(f) % 2 = 0
  /\ f.kind = "colour" => Channel * Channel * Channel <= Size(f)

\* Field.take and Field.take_groups.
Taken(data, at, size) ==
  at + size - 1 <= Len(data) /\ IsDigits(SubSeq(data, at, at + size - 1))

\* Where the zero byte of a string is, or 0.
Terminator(data, at) ==
  LET Z == {i \in at..Len(data) : data[i] = 0}
  IN  IF Z = {} THEN 0 ELSE CHOOSE i \in Z : \A j \in Z : i <= j

\* The position after the field, or 0 if the field cannot be decoded.
FieldEnd(f, data, at) ==
  IF f.kind = "string"
    THEN LET end == Terminator(data, at)
         IN  IF end # 0 /\ Taken(data, at, end - at) THEN end + 1 ELSE 0
  ELSE IF /\ Taken(data, at, f.width)
          /\ f.kind # "bytes" =>
               NumberIsValid(f, Number(SubSeq(data, at, at + f.width - 1)))
    THEN at + f.width
  ELSE 0

FieldValue(f, data, at) ==
  CASE f.kind = "string" ->
         [bytes |-> SubSeq(data, at, Terminator(data, at) - 1)]
    [] f.kind = "bytes" -> [bytes |-> SubSeq(data, at, at + f.width - 1)]
    [] OTHER ->
         [number |-> NumberValue(f, Number(SubSeq(data, at, at + f.width - 1)))]

Value == [number : Int] \cup [bytes : Seq(0..(Bytes - 1))]

\* What normalize_json and encode accept.
ValueFits(f, value) ==
  IF IsText(f)
    THEN /\ DOMAIN value = {"bytes"} /\ IsDigits(value.bytes)
         /\ f.kind = "bytes" => Len(value.bytes) = f.width
         /\ f.kind = "string" =>
              \A i \in DOMAIN value.bytes : value.bytes[i] # 0
    ELSE DOMAIN value = {"number"} /\ NumberFits(f, value.number)

FieldBytes(f, value) ==
  CASE f.kind = "string" -> Append(value.bytes, 0)
    [] f.kind = "bytes"  -> value.bytes
    [] OTHER             -> NumberDigits(f, value.number)

-----------------------------------------------------------------------------
(* specs.py.  A registry is a set of [name, opcode, fields].               *)

\* CommandSpec: an opcode and fields.
SpecIsValid(spec) ==
  /\ spec.opcode \in Seq(0..(Bytes - 1))
  /\ spec.fields \in Seq({spec.fields[k] : k \in DOMAIN spec.fields})
  /\ \A k \in DOMAIN spec.fields : FieldIsValid(spec.fields[k])

\* What CommandRegistry.__init__ refuses, as far as bytes depend on it.
RegistryIsValid(registry) ==
  /\ \A s \in registry :
       /\ SpecIsValid(s)
       /\ s.opcode # <<>> /\ s.opcode[1] >= Base
       /\ IsDigits(Tail(s.opcode))
  /\ \A s, t \in registry : s.name = t.name => s = t

HasName(registry, name) == \E s \in registry : s.name = name

Named(registry, name) == CHOOSE s \in registry : s.name = name

HasOpcode(spec, data) ==
  /\ Len(spec.opcode) <= Len(data)
  /\ SubSeq(data, 1, Len(spec.opcode)) = spec.opcode

\* CommandSpec.decode: where the fields end, from 0, the opcode, on.
Ends(spec, data) ==
  LET end[k \in 0..Len(spec.fields)] ==
        IF k = 0 THEN Len(spec.opcode) + 1
        ELSE IF end[k - 1] = 0 THEN 0
        ELSE FieldEnd(spec.fields[k], data, end[k - 1])
  IN  end

\* The spec decodes the whole frame.
Fits(spec, data) ==
  /\ HasOpcode(spec, data)
  /\ Ends(spec, data)[Len(spec.fields)] = Len(data) + 1

DecodedValues(spec, data) ==
  LET end == Ends(spec, data)
  IN  [k \in DOMAIN spec.fields |->
         FieldValue(spec.fields[k], data, end[k - 1])]

\* CommandSpec.normalize_values and encode.
ValuesFit(spec, values) ==
  /\ DOMAIN values = DOMAIN spec.fields
  /\ \A k \in DOMAIN values : ValueFits(spec.fields[k], values[k])

Concatenated(parts) ==
  LET first[k \in 0..Len(parts)] ==
        IF k = 0 THEN <<>> ELSE first[k - 1] \o parts[k]
  IN  first[Len(parts)]

EncodedValues(spec, values) ==
  spec.opcode \o
    Concatenated([k \in DOMAIN values |->
                    FieldBytes(spec.fields[k], values[k])])

-----------------------------------------------------------------------------
(* program.py: records.                                                    *)

\* decode_frame finds the specs whose opcode matches and that fit the frame.
Fitting(frame, registry) == {s \in registry : Fits(s, frame)}

IsCommand(frame, registry) ==
  frame[1] >= Base /\ Cardinality(Fitting(frame, registry)) = 1

KnownCommand(spec, values, raw) ==
  [kind |-> "command", name |-> spec.name, opcode |-> spec.opcode,
   values |-> values, raw |-> raw, baseline |-> NoBaseline]

RawSpan(data) == [kind |-> "raw", raw |-> data]

\* decode_frame: a frame that no spec fits, or several, is kept as it is.
FrameRecord(frame, registry) ==
  IF IsCommand(frame, registry)
    THEN LET spec == CHOOSE s \in Fitting(frame, registry) : TRUE
         IN  KnownCommand(spec, DecodedValues(spec, frame), frame)
    ELSE RawSpan(frame)

\* logical_frames: a byte that starts a command begins a frame, every other one
\* continues the last.
LogicalFrames(data) ==
  LET first[k \in 0..Len(data)] ==
        IF k = 0 THEN <<>>
        ELSE IF k = 1 \/ data[k] >= Base THEN Append(first[k - 1], <<data[k]>>)
        ELSE [first[k - 1] EXCEPT ![Len(first[k - 1])] = Append(@, data[k])]
  IN  first[Len(data)]

DecodedRecords(data, registry) ==
  LET frames == LogicalFrames(data)
  IN  [n \in DOMAIN frames |-> FrameRecord(frames[n], registry)]

-----------------------------------------------------------------------------
(* transport.py and program.py: datagrams and files.                       *)

Total(data) ==
  LET first[k \in 0..Len(data)] ==
        IF k = 0 THEN 0 ELSE first[k - 1] + data[k]
  IN  first[Len(data)]

Checksum(payload) == Total(payload) % (Bytes * Bytes)

Frame(payload) ==
  <<Checksum(payload) \div Bytes, Checksum(payload) % Bytes>> \o payload

\* unframe raises no ChecksumError.
IsFramed(packet) ==
  Len(packet) >= 2 /\ packet = Frame(SubSeq(packet, 3, Len(packet)))

EncodeDatagram(logical, context, magic) ==
  IF context = "reply" THEN Swizzle(logical, magic)
                       ELSE Frame(Swizzle(logical, magic))

DatagramDecodes(raw, context) == context = "reply" \/ IsFramed(raw)

DecodeDatagram(raw, context, magic) ==
  IF context = "reply" THEN Unswizzle(raw, magic)
                       ELSE Unswizzle(SubSeq(raw, 3, Len(raw)), magic)

\* payload_chunks.
Chunks(data, limit) ==
  LET count == (Len(data) + limit - 1) \div limit
      end(n) == IF n * limit < Len(data) THEN n * limit ELSE Len(data)
  IN  [n \in 1..count |-> SubSeq(data, (n - 1) * limit + 1, end(n))]

IsWrapped(raw) ==
  Len(raw) >= HeaderSize /\ SubSeq(raw, 1, Len(Wrapper)) = Wrapper

\* split_wrapper.
HeaderOf(raw) == IF IsWrapped(raw) THEN SubSeq(raw, 1, HeaderSize) ELSE <<>>

BodyOf(raw) ==
  IF IsWrapped(raw) THEN SubSeq(raw, HeaderSize + 1, Len(raw)) ELSE raw

\* The logical stream of a file, and a file of a logical stream.
StreamOf(raw, container, context, magic) ==
  CASE container = "rd"      -> Unswizzle(BodyOf(raw), magic)
    [] container = "udp"     -> DecodeDatagram(raw, context, magic)
    [] container = "logical" -> raw

Contained(stream, container, context, magic, header) ==
  CASE container = "rd"      -> header \o Swizzle(stream, magic)
    [] container = "udp"     -> EncodeDatagram(stream, context, magic)
    [] container = "logical" -> stream

=============================================================================
