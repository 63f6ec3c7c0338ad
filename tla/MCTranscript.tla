--------------------------- MODULE MCTranscript ------------------------------
(***************************************************************************)
(* Bytes of three bits: four digits, four command starts.  The registry    *)
(* has every kind of field, two commands whose frames may be the same, one *)
(* whose opcode begins another's, and a checksum; the older registry lacks *)
(* two of the commands.                                                    *)
(***************************************************************************)
EXTENDS Transcript

F(kind, width, scale) == [kind |-> kind, width |-> width, scale |-> scale]

Entry(name, opcode, fields) ==
  [name |-> name, opcode |-> opcode, fields |-> fields]

Older ==
  {Entry("move", <<4>>, <<F("signed", 1, 2)>>),
   Entry("label", <<6>>, <<F("string", 0, 1)>>),
   Entry("file_checksum", <<7, 1>>, <<F("unsigned", 2, 1)>>)}

Newer ==
  Older \cup
  {Entry("size", <<5>>, <<F("narrow", 2, 1)>>),
   Entry("power", <<6>>, <<F("unsigned", 1, 1), F("power", 1, 2)>>),
   Entry("colour", <<7>>, <<F("colour", 2, 1)>>),
   Entry("block", <<5, 0>>, <<F("bytes", 1, 1), F("packed", 1, 1)>>)}

MCRegistries == {Older, Newer}

\* Two commands each: moves, one size in both encodings, powers, labels of
\* which one could be a power, a colour with bits above its channels, a block,
\* checksums that are right and wrong; and frames no command fits.
MCStreams ==
  {<<4, 3, 5, 0, 3>>, <<4, 3, 5, 3, 3>>, <<5, 1, 0, 4, 4>>, <<5, 3, 3, 7>>,
   <<6, 1, 3, 7, 3, 1>>, <<6, 2, 0, 6, 0>>, <<5, 0, 2, 1, 7, 1, 2, 0>>,
   <<4, 3, 7, 1, 1, 3>>, <<7, 1, 0, 0, 7, 1, 0, 0>>, <<1, 2, 4, 3>>}

FileOf(s, container, context, header) ==
  [container |-> container, context |-> context,
   bytes |-> Contained(s, container, context, 5, header)]

\* Files of the first magic, which a reader may take for files of the other.
MCFiles ==
  {FileOf(s, "rd", "job", <<>>) : s \in MCStreams}
  \cup {FileOf(<<4, 3>>, "rd", "job", <<2, 1>>),
        FileOf(<<6, 0, 4, 1>>, "logical", "job", <<>>),
        FileOf(<<5, 3, 3>>, "udp", "job", <<>>),
        FileOf(<<5, 0, 3>>, "udp", "reply", <<>>),
        [container |-> "udp", context |-> "job", bytes |-> <<0, 1, 4>>]}

MCEdits == {[number |-> -3], [number |-> 5], [bytes |-> <<0>>]}

MCAdditions ==
  {[name |-> "size", values |-> <<[number |-> -1]>>],
   [name |-> "file_checksum", values |-> <<[number |-> 0]>>],
   [raw |-> <<2>>]}

MCWrapper == <<2>>

MCByte == 0..7

\* The commands of all that may be cut out of a stream.
MCCommand == {f \in Pieces \ {<<>>} : IsCommand(f, Reading)}

MCDefault == [job |-> Newer, request |-> Newer, reply |-> Older]

\* A reply with two commands, a request, a datagram of another magic, one with a
\* wrong checksum, and one of a serial link.
MCEvents ==
  {[link |-> "udp", direction |-> "receive", context |-> "reply",
    raw |-> Swizzle(<<4, 1, 6, 0>>, 5)],
   [link |-> "udp", direction |-> "send", context |-> "job",
    raw |-> <<1, 0, 3, 3>>],
   [link |-> "serial", direction |-> "send", context |-> "job",
    raw |-> <<4, 1>>]}

=============================================================================
