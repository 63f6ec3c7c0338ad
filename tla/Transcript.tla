----------------------------- MODULE Transcript ------------------------------
(***************************************************************************)
(* Transcripts (transcript.py) and the observer that records them          *)
(* (diagnostics.py): a program goes out in datagrams (api.py), each of     *)
(* them and whatever else is on the wire is recorded, and the record is    *)
(* edited, written as JSON, read again by a package of another version,    *)
(* and put together to one stream.                                         *)
(*                                                                         *)
(* A datagram is [direction, context, raw, program]; the program is        *)
(* NoProgram, with an issue instead, where it could not be decoded.        *)
(***************************************************************************)
EXTENDS ProgramFile

CONSTANTS
  Default,        \* the package's registry for each context
  ObserverMagic,  \* the magic the observer decodes with
  Limits,         \* how many bytes of a program go into one datagram
  Events,         \* other wire events: [link, direction, context, raw]
  MaxDatagrams,   \* bound: datagrams of a transcript
  MaxDatagramEdits,  \* bound: edits of a transcript
  NoTranscript, NoFlow

ASSUME TranscriptAssumption ==
  /\ Default \in [Contexts -> Registries] /\ ObserverMagic \in Byte
  /\ Limits \subseteq Nat \ {0}
  /\ \A e \in Events : e.context \in Contexts /\ e.raw \in Seq(Byte)

VARIABLES
  transcript,   \* its datagrams
  pending,      \* events of the program's datagrams still to be sent
  dumped,       \* what to_json last returned
  flow,         \* what decode_flow last returned
  sent,         \* history: the program sent, [logical, magic, context]
  captured      \* history: what was on the wire, in order

transcriptvars == <<transcript, pending, dumped, flow, sent, captured>>

TranscriptInit ==
  /\ ProgramInit
  /\ transcript = <<>> /\ pending = <<>> /\ dumped = NoTranscript
  /\ flow = NoFlow /\ sent = NoProgram /\ captured = <<>>

-----------------------------------------------------------------------------
(* Recording.                                                              *)

\* Datagram.from_bytes.
Recorded(raw, direction, context) ==
  [direction |-> direction, context |-> context, raw |-> raw,
   program |->
     IF DatagramDecodes(raw, context)
       THEN [magic |-> ObserverMagic, context |-> context, container |-> "udp",
             header |-> <<>>, registry |-> Default[context],
             records |-> DecodedRecords(
               DecodeDatagram(raw, context, ObserverMagic), Default[context])]
       ELSE NoProgram]

\* _wire_mapping: the events that are not refused.
IsMapped(event) ==
  \/ event.direction = "send" /\ event.context \in {"job", "request"}
  \/ event.direction = "receive" /\ event.context = "reply"

Mapping == [send |-> "outbound", receive |-> "inbound"]

\* TranscriptObserver.capture: an event of another link, or without a mapping,
\* is refused or ignored.
Observe(event) ==
  LET known == event.link = "udp" /\ IsMapped(event)
      datagram == Recorded(event.raw, Mapping[event.direction], event.context)
  IN  /\ Len(captured) < MaxDatagrams
      /\ transcript' = IF known THEN Append(transcript, datagram)
                                ELSE transcript
      /\ captured' = IF known THEN Append(captured, event.raw) ELSE captured

\* encode_datagrams; the program is let go.  Bound: only programs of files that
\* were not edited are sent.
Send(limit) ==
  /\ program # NoProgram /\ output = NoOutput /\ edits = 0
  /\ program.container = "rd" /\ program.context # "reply"
  /\ CanWrite(program, program.registry, "preserve", "logical")
  /\ LET logical == Concatenated(Plain(program.records, program.registry))
         chunks == Chunks(logical, limit)
     IN  /\ Len(chunks) <= MaxDatagrams
         /\ pending' =
              [n \in DOMAIN chunks |->
                 [link |-> "udp", direction |-> "send",
                  context |-> program.context,
                  raw |-> EncodeDatagram(chunks[n], program.context,
                                         program.magic)]]
         /\ sent' = [logical |-> logical, magic |-> program.magic,
                     context |-> program.context]
  /\ program' = NoProgram /\ source' = NoProgram
  /\ UNCHANGED <<vars, edits, output, transcript, dumped, flow, captured>>

\* One datagram of the program is sent, and the observer sees it.
Deliver ==
  /\ pending # <<>> /\ Observe(Head(pending))
  /\ pending' = Tail(pending)
  /\ UNCHANGED <<programvars, dumped, flow, sent>>

\* Something else is on the wire.
Overhear(event) ==
  /\ sent # NoProgram /\ Observe(event)
  /\ UNCHANGED <<programvars, pending, dumped, flow, sent>>

-----------------------------------------------------------------------------
(* Editing, saving and loading.                                            *)

EditDatagram(i, k, j, value) ==
  /\ edits < MaxDatagramEdits /\ pending = <<>>
  /\ i \in DOMAIN transcript /\ transcript[i].program # NoProgram
  /\ k \in DOMAIN transcript[i].program.records
  /\ LET r == transcript[i].program.records[k]
     IN  r.kind = "command" /\ j \in DOMAIN r.values /\ r.values[j] # value
  /\ transcript' =
       [transcript EXCEPT ![i].program.records[k].values[j] = value]
  /\ edits' = edits + 1
  /\ UNCHANGED <<vars, program, source, output,
                 pending, dumped, flow, sent, captured>>

\* Mutant: the program of a datagram is asked to encode, but not to what.
Encodes(d) ==
  d.program # NoProgram =>
    CanWrite(d.program, d.program.registry, "preserve", "udp")

\* _validate_program: a datagram's program still encodes to its bytes.
Reproduces(d) ==
  d.program # NoProgram =>
    LET p == d.program
    IN  /\ p.context = d.context
        /\ CanWrite(p, p.registry, "preserve", "udp")
        /\ d.raw = EncodeDatagram(Concatenated(Plain(p.records, p.registry)),
                                  p.context, p.magic)

\* Validating encodes every program, which may remember values.
Validated(d) ==
  IF d.program = NoProgram THEN d
  ELSE [d EXCEPT !.program.records = Encoding(@, d.program.registry)]

\* Transcript.to_json, which raises if one datagram is not valid.
Dump ==
  /\ pending = <<>> /\ transcript # <<>>
  /\ \A i \in DOMAIN transcript : Reproduces(transcript[i])
  /\ transcript' = [i \in DOMAIN transcript |-> Validated(transcript[i])]
  /\ dumped' = transcript
  /\ UNCHANGED <<programvars, pending, flow, sent, captured>>

\* What a reader with this registry makes of a saved datagram.
Reopened(d, registry) ==
  IF d.program = NoProgram THEN d
  ELSE [d EXCEPT !.program.registry = registry,
                 !.program.records =
                   [k \in DOMAIN @ |-> Without(@[k])]]

\* Transcript.from_json.
Load(registry) ==
  LET read == [i \in DOMAIN dumped |-> Reopened(dumped[i], registry)]
  IN  /\ dumped # NoTranscript /\ Len(dumped) = Len(captured)
      /\ \A i \in DOMAIN read : Reproduces(read[i])
      /\ transcript' = [i \in DOMAIN read |-> Validated(read[i])]
      /\ UNCHANGED <<programvars, pending, dumped, flow, sent, captured>>

-----------------------------------------------------------------------------
(* Reassembly.                                                             *)

\* Mutant: every datagram is decoded on its own.
EachAlone(data, selected, context, magic) ==
  Concatenated([n \in DOMAIN selected |->
    DecodedRecords(DecodeDatagram(selected[n].raw, context, magic),
                   Default[context])])

FlowRecords(data, selected, context, magic) ==
  DecodedRecords(data, Default[context])

\* decode_flow, and decode_datagrams of what it selects.
Flow(direction, context, start, magic) ==
  LET selected == SelectSeq(SubSeq(transcript, start, Len(transcript)),
                    LAMBDA d : d.direction = direction /\ d.context = context)
      logical == Concatenated([n \in DOMAIN selected |->
                   DecodeDatagram(selected[n].raw, context, magic)])
  IN  /\ pending = <<>> /\ sent # NoProgram
      /\ selected # <<>>
      /\ \A n \in DOMAIN selected : DatagramDecodes(selected[n].raw, context)
      /\ flow' = [magic |-> magic, context |-> context,
                  raws |-> [n \in DOMAIN selected |-> selected[n].raw],
                  records |-> FlowRecords(logical, selected, context, magic)]
      /\ UNCHANGED <<programvars, transcript, pending, dumped, sent, captured>>

TranscriptStep ==
  \/ \E limit \in Limits : Send(limit)
  \/ Deliver
  \/ \E e \in Events : Overhear(e)
  \/ \E i \in 1..MaxDatagrams, k \in 1..4, j \in 1..2, v \in Edits :
       EditDatagram(i, k, j, v)
  \/ Dump
  \/ \E r \in Registries : Load(r)
  \/ \E d \in {"outbound", "inbound"}, c \in DOMAIN Default,
        start \in 1..2, m \in Magics :
       Flow(d, c, start, m)

\* A flow changes nothing but itself and is looked at last.
TranscriptNext ==
  \/ /\ sent = NoProgram /\ ProgramNext
     /\ UNCHANGED transcriptvars
  \/ flow = NoFlow /\ TranscriptStep

TranscriptSpec ==
  TranscriptInit /\ [][TranscriptNext]_<<programvars, transcriptvars>>

-----------------------------------------------------------------------------
(* Properties.                                                             *)

\* What a program says of a frame is what the frame means.
Tells(record, frame) ==
  IF record.kind = "command" /\ HasName(Reading, record.name)
    THEN Written(Named(Reading, record.name), frame, record.values)
    ELSE record.raw = frame

\* A transcript that was written keeps every datagram of the wire, in order and
\* byte for byte, and the programs in it tell what those bytes mean: whatever
\* was edited, reopened by a package that knows fewer commands, and edited
\* again.
TranscriptIsExact ==
  dumped # NoTranscript =>
    /\ \A i \in DOMAIN dumped : dumped[i].raw = captured[i]
    /\ \A i \in DOMAIN dumped :
         LET p == dumped[i].program
         IN  p # NoProgram =>
               LET frames == LogicalFrames(
                     DecodeDatagram(captured[i], p.context, p.magic))
               IN  /\ Len(p.records) = Len(frames)
                   /\ \A k \in DOMAIN frames : Tells(p.records[k], frames[k])

\* Where a stream was cut into datagrams does not show in the flow put together
\* from them, with other traffic in between.
FlowIsTheStream ==
  (flow # NoFlow /\ flow.context = sent.context /\ flow.magic = sent.magic
     /\ \E limit \in Limits :
          flow.raws = [n \in DOMAIN Chunks(sent.logical, limit) |->
                         EncodeDatagram(Chunks(sent.logical, limit)[n],
                                        sent.context, sent.magic)])
    => flow.records = DecodedRecords(sent.logical, Default[sent.context])

=============================================================================
