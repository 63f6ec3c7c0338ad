# Verification of ruida-re

TLA+ models, TLC runs and TLAPS proofs for `ruida_re`, a Python library that
reads and writes the command streams of Ruida laser controllers, compiles jobs
for them and drives them over UDP or a serial port. All paths below are
relative to the repository root; the implementation is in `src/ruida_re/`.

## 1. Inventory

### 1.1 Components

| component | files | state | operations | modelled by |
|---|---|---|---|---|
| controller session | `controller.py` | session state, buffered events, the progress of one exchange | `open`, `close`, `recover`, `keep_alive`, `send_job`, `send_no_reply_request`, `request` and their wrappers | `ControllerSession`, `SessionPairing`, `ExchangeContract`, `ControllerSessionContract` |
| session ownership | `controller.py` | `_lock`, `_operation_active` | entering and leaving an operation, observer and predicate callbacks | `SessionOwnership` |
| wire links | `links.py`, `transport.py` | none (two constants per link kind) | packetize, send, receive, decode | `ControllerSession` (which answers a link gives), `RuidaCodec` (framing, checksum, chunks) |
| transports | `transports.py` | the socket or serial port, its timeout | open, close, send, receive, drain | `Transports` |
| stream decoder | `stream.py`, `syntax.py` | a byte buffer, stream offset, scan index | `feed`, `finish` | `StreamDecoder` |
| codec | `codec.py`, `fields.py`, `specs.py`, `registry.py` | none: pure functions, a constant table | scramble, encode and decode fields, commands and frames | `RuidaCodec` |
| programs | `program.py`, `resources.py`, `api.py` | the records of a program, with the bytes they were read from | read, edit, add, encode, to and from JSON | `ProgramFile` |
| transcripts | `transcript.py`, `diagnostics.py` | a list of datagrams under a lock | capture, edit, dump, load, put together | `Transcript` |
| job compiler | `job.py` | the settings in force while a plan is lowered | analyse, check features, lower | `JobCompiler`, `LaserMachine`, `LaserJob` |
| output files | `cli_io.py` | the target and a temporary file | atomic write with or without replacement | `OutputFile` |
| controller command line | `controller_cli.py` | one prepared operation, its outcome | probe, request, send-job, transcript, exit status | `ControllerCli` |
| focus planning | `focus.py` | none | arithmetic on Z offsets | no |
| experiments | `experiment.py` | none | validation of evidence records | no |
| facade | `api.py`, `__init__.py` | none | delegation | what decides anything, with programs and transcripts |
| catalog, conformance, diff, verify | `catalog.py`, `conformance.py`, `diff.py`, `verify.py` | none | comparison of finished data | no |
| JSON input | `jsonio.py` | none | strict parsing | no |
| fixture and profile generators | `fixture.py`, `matrix.py`, `advanced.py`, `raster_fixture.py`, `capability_fixture.py`, `lightburn_*.py` | none | straight-line generation of files | no |
| file command lines | `decode_cli.py`, `encode_cli.py`, `spec_cli.py` | none | read, convert, write | no |

Components marked "no" are pure conversions or comparisons of finished data
without steps, failures or state of their own: a model of one would restate it.
The registry is a table of 1,100 lines whose content is evidence, not logic; the
runs use a small table with a field of every kind.

### 1.2 How they interact

A caller (application thread, command line) calls a method of
`ControllerClient`. The method takes the client's re-entrant lock and sets
`_operation_active`; then it drives a `RuidaLink`, which scrambles and frames
bytes over a `ControllerTransport`. After every successful link call the client
calls the observer (usually a `TranscriptObserver`) on the same thread and under
the same lock; a reply policy's completion predicate is also called there. The
controller answers over the same link, asynchronously, without sequence numbers
or transaction identifiers. The command line opens one session, performs one
operation, closes the session, writes the transcript through `cli_io` and
reports one outcome.

Before that, a job is made: a caller's plan is compiled to a program
(`job.py`), or a program is read from a file, and its bytes are cut into the
payloads of packets. Programs, and transcripts of datagrams, also travel as JSON
between packages of different versions, which know different commands.

### 1.3 What is hard

* **Correlation without identifiers.** A response is matched to a packet only
  by when it arrives. Late, lost, duplicated or unsolicited responses can be
  taken for the answer to something else.
* **Non-idempotent packets.** A packet is machine motion; resending one whose
  acknowledgement was lost repeats it.
* **Failure at every link call**, by an `OSError`, an interrupt, or a callback,
  with the transport closed by the failure or left open.
* **Partial progress.** A job is many packets; the controller may have acted on
  any prefix when the exchange fails.
* **Two completion regimes.** Replies end at a declared length or at an idle
  gap; acknowledgements come as controls, or in one dialect as data.
* **Re-entrancy.** The thread that owns the lock runs the application's code in
  the middle of an exchange.
* **Bounded waiting.** Every loop that reads must end although the controller
  keeps sending.
* **Settings that persist.** A controller keeps powers, modulation, air, speed
  and Z until told otherwise, and moves from where it is: what a compiled mark
  does depends on every record before it.
* **Two sources of truth.** A command keeps the bytes it was read from next to
  the values decoded from them, and a datagram keeps bytes next to a program;
  either may be edited, by a package that knows the command or by one that does
  not.

### 1.4 What makes each component correct

* *Session*: receipts and delivery certainty never claim more than what
  happened; nothing is executed twice or out of order; a session that may have
  an answer outstanding is not usable; replies belong to their requests; a
  fault lasts until the link is closed; every operation ends.
* *Ownership*: at most one operation runs; its wire steps are contiguous;
  refusing a nested call does not disturb the running one; every call returns.
* *Stream decoder*: any split of a stream gives the records and issues of the
  whole; no byte is lost.
* *Output files*: a reader sees the old file or the complete new one; without
  `force` an existing file is never replaced; no temporary file survives a
  handled failure.
* *Command line*: an operation that completed is never reported as one that did
  not, whatever fails afterwards; the exit status tells the cases apart.
* *Transports*: no resource leaks on a failed open; a failed receive leaves the
  timeout as it was and loses nothing unnoticed.
* *Codec and programs*: what nobody edited is written byte for byte, what
  somebody edited is written as edited, and a recomputed checksum is true.
* *Transcripts*: a saved transcript is what was on the wire, and how a stream was
  cut into datagrams does not show.
* *Job compiler*: an accepted plan compiles; the settings in force at each stroke
  are the planned ones; the beam stays inside the declared limits.

`PROJECT.json` lists the individual hazards with their source lines and the
properties that cover them.

## 2. Plan

Written, in this order:

1. `ControllerSession`: the exchange state machine with the wire, since every
   physical effect of the library goes through it.
2. `ExchangeContract` and `ControllerSessionContract`: what the session promises,
   and the refinement.
3. `SessionOwnership`: who may drive a session.
4. The session's theorems, the first part of `SessionPairingProofs`, and
   `SessionOwnershipProofs`.
5. `StreamDecoder` with a reference framing of the whole stream, and the first
   part of `RuidaCodecProofs`.
6. `OutputFile`: the atomic write, with several writers, other programs and a
   crash, and `OutputFileProofs`.
7. `ControllerCli`, which composes processes of the command line with
   `OutputFile`, where their transcripts meet.
8. `JobCompiler`, which composes the compiler with a controller that executes its
   records (`LaserMachine`), and the abstract `LaserJob` that it implements.
9. `RuidaCodec`, the operators on bytes; `ProgramFile`, which composes them with
   `StreamDecoder`; `Transcript`, which composes programs with a wire.
10. `Transports`: every call to the operating system, each of which may fail.
11. `Setups`: a session chooses its client and world at the start, so that one
    run covers several kinds of them.

12. `SessionPairing`, what is in flight in each phase of an operation, and
    its part of `SessionPairingProofs`: why answers can be paired with packets, for every
    number of packets, retries and exchanges, and the step simulation behind
    `ImplementsContract`.
13. `TransportsProofs`, and `ControllerCliProofs` on top of `OutputFileProofs`.
14. `JobCompilerProofs`: what the analysis guarantees the lowering, for every set
    of layers, events, profiles and limits, and, with the orders of a plan
    numbered, that each step of the lowering is one of `LaserJob`'s.

15. The rest of `RuidaCodecProofs`, from bits to datagrams, and `TranscriptProofs`
    on top of it, for programs and transcripts.

A run answers all questions that one instance can answer, so that new components
add runs and old ones do not multiply.

## 3. Modules

### 3.1 `ControllerSession`

One public operation at a time over one link. An action is one link call
(`open`, `send`, `receive`, `close`) together with everything the client does
until the next one; `pc` names the link call that is due:

| `pc` | code |
|---|---|
| `idle` | no operation |
| `linkOpen`, `drain`, `openCleanup` | `_open_locked`, `_drain_locked`, and the handler that cleans up |
| `preflight` | `_require_empty_buffers` |
| `send`, `handshake` | `_transmit`, `_wait_for_handshake` |
| `settle` | `_require_quiet_link` |
| `reply`, `replySettle` | `_collect_reply`, `_finish_explicit_reply` |
| `decode` | `_request_locked` after the exchange |

`state`, `linkOpen`, `inbound`, `replyBuffer` are the client's fields;
`packets`, `completed`, `transmissions` are `_ExchangeProgress`; `attempt`,
`reads`, `expired`, `units` are locals of the loops. `result` and `certainty` are
what the caller learns from the last operation: how it ended and the delivery
certainty attached to its error.

The other half is the world: `toController` and `toHost` are sets of packets and
responses in flight, `received` is the socket's receive queue. Over UDP
(`Acknowledged`) anything in flight may be lost, overtaken, and delivered
`MaxDuplicates` times more; over a serial line order is kept. The controller
accepts a packet and answers `CC` (or `CE` to a keep-alive), refuses it with `CF`
or `CD`, replies to a request completely, undecodably or not at all, and may
send `CE` on its own. A dialect in which data acknowledges (`DataAcknowledges`)
sends data in place of `CC`. The controller sends no more than one reply to a
packet it receives.

Packets and responses carry the exchange, packet and attempt that caused them.
The wire has no such fields and no guard of the client reads them; they let the
properties say which packet an answer belongs to. `accepted` and `onWire` are
history.

Time is `Tick`: the deadline of the current wait passes. A read with time left
may still return nothing only when the deadline has passed (handshake), or at
any time when the queue is empty (the per-read timeouts of a reply). A
zero-timeout poll returns nothing exactly when the queue is empty.

Data are abstracted to what the guards tell apart: a response is a control of
one of four classes or data; a reply is a number of units that decode to the
declared reply, or one that does not; bytes and chunk limits are one limit on
units. Logging, error texts and the observer's events are left out.

Faults: `SendFault`, `ReceiveFault`, `PreflightFault` and `OpenFault` are an
`OSError` or interrupt at a link call, with the packet sent or not and the link
closed by it or not. `ReceiveInterrupted` is an interrupt between
`_inbound.append` and `popleft`. `OpenCleanup` and `CloseCall` include a close
that raises. A preflight that finds something in the two buffers cannot be
reached from these steps: then no preflight action would be enabled and the
runs, which check for deadlock, would report it.

What the client was made with, and the world it is put in, is a record of
`Setups`, chosen by `Init` and kept in `setup`: the kind of link, the handshake
profile, the limits and the reply policy, the operations its callers use, and the
bounds. `SetupsAssumption` is what the constructors of `ControllerClient`,
`HandshakeProfile` and `ReplyPolicy` accept. `Acknowledged`, `MaxRetries` and the
other names are its fields.

`QuiescentReopen` is the duty that `docs/integration.md:602-605` puts on the
application: it reopens an endpoint only once nothing of the earlier session is
in flight. Without it, or when datagrams are duplicated, or when `CE` comes
unasked in a session that sends keep-alives, answers cannot be told apart
whatever the client does. The properties that speak of pairing
(`CompletedWasAccepted`, `AcceptedOnceInOrder`, `ReadyMeansQuiet`,
`ConfirmedWasAccepted`, `RejectionLeavesNothing`, `ReplyBelongsToRequest`,
`PairedAnswersStay`) are stated for the other setups (`CanBePaired`); all other
properties hold of all.

`SessionPairing` says why they can be paired there. `Pairing` has a part for
what was sent and accepted (`SentInv`, `CountedInv`), for the link and its input
(`LinkInv`, `LivenessInv`), for the phases in which nothing may be in flight
(`QuietInv`), for the two phases that wait (`HandshakeInv`: the packet is in
flight, or its answers are, or nothing is; `ReplyInv`: the same of a request and
the units of its reply), and for what was reported (`ReportInv`).

### 3.2 `ExchangeContract` and `ControllerSessionContract`

The contract knows an exchange only as a number of packets, of which the
controller executed some and the client counted some. It allows execution of the
next packet while the exchange is active, or afterwards only when the verdict
was "unknown", and then of one packet at most. `ControllerSessionContract` maps
the session to it: the executed packets are those of the current exchange among
`accepted`.

### 3.3 `SessionOwnership`

Every public operation is a frame on the stack of its thread and goes through
`acquire`, `begin`, `body`, `callback`, `end`, `release`, the stages of
`with self._lock: self._begin_operation(); try: ... finally: ...`. A thread in a
callback may call the client again, which pushes a frame: the lock is
re-entrant, so only `_operation_active` stops that call. `recover()` checks the
guard in the same place and then always refuses, without ever becoming the
active operation: it is `RefuseReentry` or `RefuseRecovery`.

### 3.4 `StreamDecoder`

`Feed(data, final)` is the whole of `feed()`, and `finish()` is
`Feed(<<>>, TRUE)`. The state is the decoder's: `buffer`, `offset`, `scanIndex`;
`records` and `issues` gather what all calls returned and noted, `stream` and
`ends` remember what was fed and where the stream was finished. The scan loop is
the set of positions where it ends a frame (`Boundaries`): those from
`scanIndex` on that hold a command start, and the end of the input when it is
final. A frame lies between neighbours (`Frames`). `StreamRecords` applies the
same definition of a frame to the whole stream at once, as `logical_frames`
does. What a frame means is abstract: `Command` is the set of frames that
exactly one registry entry fits.

### 3.5 `OutputFile`

`atomic_write_bytes` for several calls with the same path. `stage` is the
statement a call has reached: before `mkstemp` (`idle`), in the `with` block
(`writing`), after `flush` (`written`), after `fsync` (`synced`), between
`os.link` and the first `unlink` (`linked`), in the finally clause (`cleanup`).
A failure can come at each of them and before `try` (`CreateInterrupted`), and
`outcome` is the exception that leaves the call, or none.

A file has three contents: nothing, a part, all. `target` is the file at the
path, `temporary` the temporary names still in the directory. `Crash` models a
file system that keeps what was synced, may lose anything else of a file, and
may undo the last changes of a directory, which the code does not sync: the path
is then any file it was since the start, and `earlier` holds those. Other
programs create and remove the file at any time (`ForeignStep`); they do not
write to a temporary file, whose name is random.

### 3.6 `ControllerCli`

Processes that run `main` of `controller_cli.py`, each on a controller of its
own. `phase` is where a process is between preparing its arguments and its exit;
the session is reduced to what `main` sees of it: `open()` and the operation
return or raise, `close()` may leave the link open. `completed`,
`operationError` and `cleanupError` are the locals of `_operate` and the fields of
the `_OperationOutcome` made of them. The transcript is written by a call of
`OutputFile` (`File!WriterWorks`, `File!WriterFails`) with the process as its
writer, so that processes meet at one path. `FirstError` and `Verdict` are the
chain of conditions at the end of `main`.

An interrupt (`KeyboardInterrupt`) can be raised by the interpreter inside a call
or right after it, before what it returned is stored: CPython handles signals
between bytecodes, after a call too. Two such places matter, because the value
lost says whether the machine moved: after `client.send_job` and before
`completed = True` (`InterruptedBeforeRecord`), and as `_operate` returns to `main`
(`OutcomeLost`). `overtaken` remembers them.

### 3.7 `Transports`

One call of `UdpTransport` or `SerialTransport` at a time (the session's lock
sees to that); which of the two is chosen at the start. `pc` is the call to the
operating system that is due, and each of them succeeds or fails: create, bind,
connect, close, set and restore a timeout, write, read. `isOpen` is what the
system holds open and `handle` what the transport keeps; `timeout` is "own" or
"given" by a receive. `Drain` is the loop of `_bounded_drain`, one receive after
the other and one more after `limit` of them. Datagrams and bytes are numbered
as they arrive, so that losing, repeating and exchanging them shows. A serial
port can also be closed by somebody else between calls (`Detach`), which
`is_open` notices.

### 3.8 `RuidaCodec`, `ProgramFile` and `Transcript`

`RuidaCodec` has the pure functions: the scrambling of bytes (`codec.py`), fields
and what they accept (`fields.py`), specifications, opcodes and registries
(`specs.py`), frames and their records (`program.py`), datagrams, checksums and
chunks (`transport.py`), and file wrappers. A byte is a number below
`2 * Base`; `Base` is 128 in the code and any power of two here, and the widths of
the fields, the padding above a 32-bit number and the channels of a colour are
parameters too, so that carries, signs and rounding happen with small numbers.
`Rounded` is Python's `round` (halves to even) or the half-up rounding of powers.
What loops in the code, over bytes, digits, fields or frames, is a recursive
function over positions here (`LogicalFrames`, `Total`, `Power`), so that theorems
can be stated about it.

The constants have the assumptions the code's tables and types justify.
`CodecAssumption` and `BaseAssumption` are about the sizes of numbers.
`FieldIsValid`, `SpecIsValid` and `RegistryIsValid` say what fields, commands and
registries there are, as `fields.py` defines and `CommandRegistry.__init__` checks
them. `RegistriesAssumption` says that the packages are versions of one registry,
of which one knows every command, and that a checksum is made of unsigned numbers
without scale, as it is in `registry.py:397`. `InputsAssumption`, `NothingAssumption` and
`TranscriptAssumption` give the inputs their types and say that none of the values
for "nothing" is something.

`ProgramFile` is the life of a program: `Decode` reads a file of one of three
containers, `FeedPiece` and `Assemble` read a stream through `StreamDecoder`,
`Edit` and `Add` change the records, `Write` is `Program.encode` with one of the
checksum policies by a registry that need not be the reader's, and `Reload` is
`to_json` and `from_json` by another package. A record keeps `raw`, the bytes it
was read from, and `baseline`, the values a package without the command saw at
its first encode (`_raw_fallback_values`): encoding changes it, so a write is also
a step of the records (`Encoding`).

`Transcript` sends a program in datagrams (`Send`, `Deliver`), lets an observer
record them and what else is on the wire (`Observe`, `Overhear`), edits, saves
and loads the transcript (`EditDatagram`, `Dump`, `Load`), and puts the datagrams
of one flow together (`Flow`). `to_json` raises unless each datagram's program
still encodes to its bytes; `Reproduces` is that check.

The world is closed by order, not by atomicity: a flow is looked at last, and a
program is not edited after it was sent, since the two would only multiply.

### 3.9 `JobCompiler`, `LaserMachine` and `LaserJob`

The plan is chosen event by event while it is analysed: `Open`, `Add`,
`NextSection` and `CloseLayer` are the iterations of `_analyze`, `scan` is its
locals, and a refusal ends in "rejected". `Accept` is
`_validate_profile_features` for one of the profiles, `Metadata` the records
before the layers, and then one action lowers one event, or one chunk of a mark
of a raster (`BeginSection`, `LowerModulation`, `LowerStationary`, `LowerMotion`,
`LowerChunk`, `EndSection`); `lower` is the locals of `_layer_program` and
`_layer_section_program`.

`machine` is a controller that has executed the records lowered so far.
`LaserMachine` takes from `docs/protocol.md` that settings stay in force until a
record changes them. Whether selecting a layer loads the powers of its metadata
is not known of real controllers; `loads` is chosen freely, and the properties
hold for both.

`LaserJob` is what a plan promises, without records: the head carries out the
orders one after the other, each in its own regime of powers, air, speed and Z,
and a mark may take several strokes on its line. `ImplementsPlan` maps the
compiler to it: a job is accepted when the profile's checks are passed, its orders
are those the plan's events stand for (`PlannedPower` and `PlannedModulation` look
back over the events, not over the records), and a stroke is what the controller
did last.

Coordinates are the integers `_coordinates` rounds lengths to. Powers have twice
the resolution of the wire, so that two of them are one wire value (`Wire`).

### 3.10 `MCControllerSession`, `MCTranscript`, `MCJobCompiler`

The instances. The setups of `MCControllerSession` are `Udp`; `Unsettled` (nobody
waits for quiescence, datagrams are duplicated), `IdleGap` (data acknowledges, an
idle gap ends a reply, `CE` comes unasked, no keep-alives), `Serial` and
`Talkative` (a controller that sends `CE` without end); and the small ones of
the two counterexamples, `Probing` and `KeepAliveThenJob`.
`MCTranscript` has two registries, of three commands and of seven, with a field
of every kind, a frame that two commands fit, and an opcode that begins
another's. `MCJobCompiler` has ten layers, six profiles like the shipped ones,
and one with everything a compiler for vectors can be made with.

## 4. Runs

| run | question | bounds |
|---|---|---|
| `session_udp` | type correctness, truthful receipts, no repeated or reordered execution, replies that belong to their requests, refinement of `ExchangeContract` | 2 exchanges of up to 2 packets, 1 retry, 2-unit replies, loss, reordering, all faults |
| `session_links` | for four more kinds of clients and worlds: pairing and certainty, faults that last, silence outside a ready session; every operation ends | 2 exchanges (1 with the talkative controller) of up to 2 packets, 2-unit replies, 1 retry, 1 duplicate |
| `ownership` | mutual exclusion, contiguity, termination | 2 threads, 4 calls, 2 wire steps each |
| `transports` | no leaks, no send with a receive's timeout, nothing read is lost unnoticed | 4 sockets or ports, 3 datagrams or bytes, 2 failures anywhere, a drain limit of 2 |
| `transcript` | chunks and datagrams do not show, files and edits survive, checksums and transcripts are true | `Base` 4; streams of up to 8 bytes in chunks of up to 3, 15 files, 2 edits, 3 datagrams |
| `job_compiler` | accepted plans compile and are carried out; limits and metadata | 10 layers, 4 events (5 in a raster), 7 profiles, 15 events to choose from |
| `output_file` | the path shows whole files, nothing is replaced without force, outcomes are true, no temporary file is left | 3 writers, one with force, all failures, 1 crash |
| `controller_cli` | reports and exit statuses are true whatever fails; transcripts of two processes | 2 processes with a transcript, a job that may fail anywhere and a probe that does not |
| `probe_timeout` | a documented rule that the code breaks (section 6) | 1 exchange |
| `keep_alive_answer` | a documented rule that the code breaks (section 6) | 2 exchanges |
| `completed_unreported` | a documented rule that the code breaks (section 6) | 1 process |
| `lost_edit` | a documented rule that the code breaks (section 6) | as `transcript` |

Why the bounds are enough: what can go wrong in pairing is that something left
by one packet reaches another. Two packets in an exchange and two exchanges give
every kind of "earlier" and "later": same exchange, next exchange, next
session. One retry separates first, last permitted and forbidden attempts. A
reply of two units can be cut in the middle. Event and drain limits of one or
two are reached. Each further exchange or packet adds only repetitions.

A stream of eight bytes in chunks of three has frames that end inside a chunk, at
its end and in the next one, empty chunks, bytes before the first command, and a
finish in the middle. The files of `transcript` hold two commands each, enough
for a checksum with something before and after it, and one command is cut by the
limit of a datagram; the third datagram is foreign traffic between the two. With
`Base` 4, a two-digit number has a sign bit, padding and a carry.

Two failures in `transports` are a failure and the failure of its clean-up; with
four resources a socket can be opened again after one leaked. A third item comes
after the last read a drain permits.

Four events in `job_compiler` are a travel, a mark with other powers, a mark that
must restore them and one relative move, or the change of a layer in between;
a raster needs a fifth for the modulation. A span of 5 is the first that does
not fit a relative move, and a mark of that length takes two chunks.

Two writers without force are enough for a race for the path, and the third
brings a replacement into it. Each writer is in the file once, so that more
writers only lengthen the queue of those who find the path taken. In
`controller_cli` one process goes through every combination of failures
(`Failing`), while the other takes or loses the path at any moment of it; the
reports do not depend on each other in any other way.

Deadlock is checked in the runs of the session. It is not checked in `ownership`,
`transports`, `transcript`, `lost_edit`, `job_compiler`, `output_file`,
`controller_cli` and `completed_unreported`, where the calls, items, edits, plans
and processes of the instance come to an end.

### Fairness

`session_links` assumes `WF(Progress)`, that the interpreter goes on with the
operation it is in, and `WF(Tick)`, that time passes. Nothing is assumed of the
network or the controller, and none of the faults is fair. `ownership` assumes
weak fairness of every thread; a thread waiting for the lock is enabled only
while the lock is free, and no fairness among waiting threads is assumed.

## 5. Proofs

`SessionPairingProofs` proves in its first part, for every set of setups allowed by
`SetupsAssumption` (which restates the checks of `ControllerClient.__init__`,
`HandshakeProfile` and `ReplyPolicy`):

* `TypeCorrect`: `Spec => []TypeOK`. `TypeOK` is inductive. There is a lemma for
  each group of actions (`Caller`, `Opening`, `Sending`, `Replying`, `Fault`,
  `Environment`), with a step for each action.
* `PhasesAgree`: `Spec => []SessionInv`. `SessionInv` says what each phase may
  rely on: opening never runs in a faulted session and drains an open link, an
  exchange runs only in a ready session over an open link, and inside an
  exchange the transmissions counted are those sent and fewer packets are
  completed than there are while one is being sent. It is inductive relative to
  `TypeOK`. Neither `ReceiptMatchesWire` nor the action properties below are
  inductive without it: that a failed send leaves the certainty "unknown" needs
  the packet being sent not to be completed, and that only a closed link ends a
  fault needs the drain and the exchange to be unreachable in a faulted session.
* `ReceiptsMatchTheWire`: `Spec => []ReceiptMatchesWire`, from `SessionInv`.
* `FaultsAreSticky` and `NothingSentUnlessReady`: the action properties
  `FaultIsSticky` and `SilentUnlessReady`, from `SessionInv`.

They need none of the environment's restrictions: they hold for any loss,
duplication and reordering, without quiescence, and for every kind of link.

It proves in its second part, for every such set of setups, with any number of
packets, retries, exchanges and units:

* `PairingHolds`: `Spec => []PairingInv`, that is, `Pairing` (section 3.1) holds
  in the setups of `CanBePaired`. Nothing less is inductive. That a packet
  counted was accepted (`CountedInv`) needs that the answer read was caused by
  it (`HandshakeInv`), which needs that nothing was in flight when it was sent
  (`QuietInv`), which needs that the previous exchange ended with everything
  answered, settled or lost, which is `HandshakeInv` and `ReplyInv` again. TLC
  checked the conjunction on five setups before it was proved. The proof has a
  lemma for every part and says first what the steps do to the packets
  (`SentFrame`) and to the answers in flight (`OutstandingIs`).
* `CompletedPacketsWereAccepted`, `PacketsAcceptedOnceInOrder`,
  `ReadySessionsAreQuiet`, `ConfirmedPacketsWereAccepted`,
  `RejectionsLeaveNothing`, `RepliesBelongToRequests` and the action property
  `AnswersArePaired` follow from it, each stating a property of the runs.

* `SessionImplementsContract`: over an acknowledging link whose answers can be
  told apart, `Spec` implies `ImplementsContract`. The mapping counts the
  executed packets of the current exchange; `ExecutedIs` shows that these are the
  packets counted and at most the one due. Besides `Pairing` it needs `DueInv`,
  that a packet in flight is not counted and its exchange runs or ended in
  doubt, so that an execution after the verdict is one the contract allows.
  Every group of actions is a step of the contract or a stutter.

`TransportsProofs` proves, for any number of resources, items and failures, and
any limits:

* `TransportsLeakNothing`: `NothingLeaks`. `ResourceInv` is inductive with the
  types: a call that opens holds one resource more, only at some labels, and
  whatever else is open the system has refused to close.
* `SendsMayAlwaysWait`: `SendsMayWait`, from `TimeoutInv`: a timeout is not the
  resource's own only inside a receive that will restore it, or after an error
  said that it could not.
* `ReadsLoseNothing`: `ReadsAreWhole`, from `ReadInv`: what was taken from the
  system is returned, held by the call or declared gone, in the order of arrival
  and without repetition, and a read that found nothing has seen all there was.

`SessionOwnershipProofs` proves, for every set of threads, every number of calls
and every number of wire steps:

* `OwnershipTypeCorrect`, `OneOperationAtATime`, `LockIsBalanced` and
  `WireIsNeverShared`: `TypeOK`, `OneOperationRuns`, `LockMatchesCalls` and
  `ExchangesDoNotInterleave` are invariants. None of them is inductive. The
  inductive invariant is `TypeOK /\ OwnershipInv`: a thread's stack is empty, one
  call, or one call in its callback with a nested call that will be refused
  (`OwnerInv`, which gives the lock's depth); the flag is set exactly while the
  owner's first call runs (`ActiveInv`); calls have distinct numbers
  (`NumbersInv`), and the wire steps of a running call are the last on the wire
  (`StepsInv`). The proof goes stack change by stack change: what `Goto`,
  `Call`, a wire step and `Pop` do to each frame, then each action.

`RuidaCodecProofs` proves in its first part, for every alphabet, set of commands,
chunk size and stream:

* `DecoderTypeCorrect`, `BufferHoldsTheRest`, `ChunksDoNotShow` and
  `NoByteLostOrRepeated`: `TypeOK`, `BufferIsTheRest`, `ChunkingInvisible` and
  `EveryByteOnce` are invariants. The first three and `ends \subseteq 0..offset`
  together are inductive (`DecoderInv`); the fourth follows from them. None of
  them is inductive alone: that the frames of a chunk continue those of the
  stream needs that the buffer is the rest of the stream and that nothing in it
  is a command start, or `feed()` would skip one. The argument is about sets of
  positions: the new cuts of the stream are those of the input, moved to its
  place (`CutsMeet`), and two sets of positions that meet in one point have the
  frames of both (`FramesMeet`). That a set of positions has a last one
  (`LastOf`) is proved from the well-foundedness of the strict subset ordering.

In its second part it proves, for every size of a byte, every width of the fields
and every magic, what programs and transcripts need of the operators:

* `ScrambleInverts`: unscrambling inverts scrambling and scrambling inverts
  unscrambling, for every byte and magic. Both exchange two bits, add one and
  take an exclusive or, which is proved to be its own inverse from the digits of
  a number to the base two; that is what `BaseAssumption` is for.
* `ChunksJoin`: the chunks `send` cuts a program into are the program again when
  put together, whatever the limit.
* `DatagramInverts`: what is packed as a datagram of any context is accepted and
  unpacked to what it was, its checksum included.
* `SpecWritten`: the bytes written for the values of a command fit its
  specification and read back as values that are written with the same bytes,
  and as the same values where every field is an unsigned number without scale.
  There is a lemma for each kind of field; that reading keeps what rounding,
  channels and padding lose is where `FieldIsValid` is needed.
* `FramesFound`: if every part is a byte and then bytes that start no command, and
  every part but the first begins with one that does, `LogicalFrames` of the parts
  put together are the parts. So a stream has one framing only.

A function defined by recursion is known here as the only run of its step: each
has a lemma by which a sequence of intermediate results that starts and goes on
as the definition does is the one the definition gives (`JoiningIs`,
`FrameRunIs`). What holds along such a run is proved by an induction about a set
of numbers (`Inductive`).

`TranscriptProofs` proves, for every set of registries that are versions of one
another, and all files, streams, additions, edits, limits and traffic on the wire:

* `UneditedProgramsAreLossless`, `ProgramsAreWrittenAsEdited` and
  `RecomputedChecksumsAreTrue`: `UneditedIsLossless`, `EditsAreWritten` and
  `ChecksumIsTrue`. `ProgramInv` is these three with the decoder's invariant, the
  types (`TypedProgram`), `Origin` and `FreshUntilEdited`. `Origin` says that what
  was read is what the records of the source make up, each of which is a frame
  its specification fits or a raw span; for a stream, that the records of
  `StreamDecoder` in the order of their offsets cover it (`AssembledStream`).
  `FreshUntilEdited` says that before the first edit a
  record remembers its own values or none. None of the three is inductive
  alone: a write does not look at the source, and a writer that does not know a
  command repeats the bytes because of what its record remembers.
* `TranscriptsAreExact` and `FlowsAreTheStream`: `TranscriptIsExact` and
  `FlowIsTheStream`. The inductive invariant is `TranscriptInv`: `ProgramInv`, the
  types of what is on its way (`PendingInv`, `SentInv`), `HeardInv`, `DumpedInv`
  and `FlowInv`. `HeardInv` says that each datagram of a transcript has the bytes
  that were on the wire, and that each record of its program still has the raw
  bytes of its frame, and remembers only values that mean that frame, if it
  remembers any (`Notes`). `EditDatagram` may change the values at will; so
  `DumpedInv`, that a saved program tells what the bytes mean, follows from
  `Reproduces` alone: the parts written for the records are frames, they make up
  the bytes, and by `FramesFound` they are its frames (`ReproducedTells`). A load
  forgets what the records remembered, and validates the program before anything
  else encodes it (`Opens`, `ValidatedIs`). `FlowsAreTheStream` is
  `DatagramInverts` for each datagram and `ChunksJoin` for all of them.
* `ProgramsDecodeAlike` and `ProgramsLoseNoByte`: `ChunkingInvisible` and
  `EveryByteOnce` also hold of the decoder whose records become programs.
* `TranscriptsKeepIt`: `TranscriptSpec => []TranscriptInv`.

TLC checked every part of `TranscriptInv` on the instance of `transcript` before it
was proved. `ProgramsAreWrittenAsEdited` and the finding of `lost_edit` (section 6)
agree: of a command the writer does not know the theorem says that its bytes are
repeated, and the finding that they are even if the command was edited before.

`OutputFileProofs` proves, for every set of writers, with and without force, and
every set of failures:

* `FileTypeCorrect`, `TargetAlwaysWhole`, `OutcomesAreTrue`,
  `TemporariesAreRemoved`, `NothingIsClobbered` and `AtMostOneWins`: `TypeOK`,
  `TargetIsWhole`, `OutcomeIsTrue`, `NoTemporaryLeft`, the action property
  `NoClobber`, and `OneWinner`. The inductive invariant `FileInv` is
  `TypeOK /\ ContentInv /\ PublishInv /\ NoTemporaryLeft`: what the stage of a call
  says of its file (`ContentInv`: a synced file is whole and durable, and
  whatever is, or a crash may bring back, at the path is synced), and of the
  path (`PublishInv`: who was published, and by which outcome it shows).
  `TargetIsWhole` is not inductive, because a crash takes contents away and
  brings earlier targets back. `OneWinner` needs, besides, that as long as nobody
  removed the file the path is taken once anybody was published.

`ControllerCliProofs` proves, for every set of processes:

* `TranscriptsAreOutputFiles`: the processes implement `OutputFile`, whose
  theorems are then theorems about transcripts: every step is one of a call of
  `atomic_write_bytes` or of another program, or leaves the path alone.
  `NoTranscriptIsLost` (`TranscriptsSurvive`) is `NothingIsClobbered` seen through
  it.
* `CompletedIsAlwaysTold`, `StatusesAreTrue` and `FailuresAreAlwaysReported`:
  `CompletedIsTold`, `StatusIsTrue` and `FailuresAreReported`. `CliInv` says for
  each phase what `_operate` has recorded of an operation that returned
  (`OperationInv`), of an open link (`LinkInv`) and of the transcript
  (`TranscriptInv`), and what a report says (`TrueReport`). It is inductive
  relative to `FileInv`, by which a named transcript is in the file. That the
  loser of two processes says so is `OneWinner`.

`JobCompilerProofs` proves, for every set of layers, events, profiles, declared
bounds and limits of the encodings, and for plans of any length:

* `LocalsAlwaysTrue`, `AcceptedPlansAlwaysCompile` and `MotionAlwaysInside`:
  `LocalsAreTrue`, `AcceptedPlansCompile` and `MotionInsideMetadata` are
  invariants.
* `CompiledAlwaysWhole`: so is `CompiledIsWhole`.
* `BeamAlwaysInside`: so is `BeamInsideLimits`, if every profile enables some head
  for the layers that name no channels (`EnablesAHead`). `RuidaJobProfile` does
  not check its `laser_enable_value`, and with a profile that enables none a mark
  would have no power at all; the shipped profiles have 1 (`job.py:388`).
* `CompilerImplementsPlan`: the compiler implements `LaserJob`
  (`ImplementsPlan`), if the head a profile enables for layers without channels is
  that of the laser index it supports (`EnablesItsLaser`). `RuidaJobProfile` does
  not check that either, and with a profile that supports the indices 1 and 2 a
  layer of the second laser would be marked by the first; the shipped profiles
  support 1 and enable 1.

Their inductive invariant is `CompilerInv` (`InvAlways`). The compiler looks at a
plan twice: the analysis checks each event against what it remembers of the
section, and the lowering later relies on that without checking again. So
`PlanInv` says of each section of an accepted plan that it has a trace, a sequence
of what was remembered after each event in which every event was valid, and
`LowerInv` says that there is a trace with which the compiler's locals and the
controller agree before the event that is due (`Agrees`: where the head is, the
powers and the modulation in force, layer, air, speed, Z). A step of the lowering
follows the trace by one event, or stays at it for a chunk of a mark. `StageInv`
and `MetadataInv` carry what each stage has checked and told to the next;
`MotionInv`, that the head is between points of the plan, gives the bounds.
`LocalsAreTrue` alone is not inductive: that the powers are restored after a mark
with its own needs to know which were in force, that is, the trace. TLC checked
the parts on the instance of `job_compiler` before they were proved.

For the refinement the orders are numbered: `Due` is how many come before a place
of the plan, an event of a section of a layer, and `DoneInv` says that so many
have been carried out when the lowering is there (`DoneAlways`). The lowering of
an event then has to be the order with the next number (`StrokeIsOrdered`): where
it strokes is known of the motion (`IsStroke`), and the powers and the modulation
it strokes with, which the controller has from its records and the order from
looking back over the events, are both those of the trace (`PowersAsPlanned`,
`ModulationAsPlanned`). A chunk that does not reach the end of its mark is a
stroke on the way of the same order (`ChunkGoesOn`), and the records before the
layers and around a section carry out nothing (`LoweringStutters`).

Sequences of records and of events are recursive data here. `ExecuteAll`,
`Concatenation` and the traces are given by functions over their positions, and
what is said of all positions is proved from the well-foundedness of the naturals
(`Inductive`, about a set of numbers, since the provers cannot instantiate the
library's theorem about a predicate).

`SessionInv`, `PairingInv`, `CompilerInv`, `TranscriptInv`, `LockMatchesCalls`,
`BufferIsTheRest`, `OneWinner` and the type invariants but the session's are proved
and not checked by a run of their own: each is a part of an invariant whose
consequences the runs check, or, in the case of `OneWinner`, what the code's
callers care for beyond them.

Only model-checked: liveness. The proof system used here cannot prove liveness
under fairness, nor reason about `ENABLED`: `OperationEnds` and `CallsReturn` stay
with TLC. The safety invariants and the refinements of the passing runs all have
theorems. Neither can it instantiate the induction theorems of its library, which
take a predicate; whatever is said above of sequences, digits and frames of any
length is proved by the inductions about sets described there, one for each fact.

## 6. Findings

1. *A probe that times out leaves no fault behind* (`probe_timeout`). The
   exchange inside `open()` sets the session to `DESYNCHRONIZED`, but the handler
   of `_open_locked` closes the link and sets `CLOSED`, which also clears the
   fault reason. The next `open()` on the same endpoint is accepted without a
   `close()`, although the delayed acknowledgement of the probe may still
   arrive. `docs/integration.md:599-602` and `docs/protocol.md:171-173` say that
   an acknowledgement timeout leaves the session desynchronized and that it
   rejects later operations.
2. *A keep-alive can be acknowledged by a `CE` nobody asked for*
   (`keep_alive_answer`). Its own `CC` may then arrive after the settle poll and
   the preflight poll of the next exchange and acknowledge the first packet of a
   job, which may have been lost. `docs/integration.md:854-855` promises that
   controls stay associated with the request that caused them. The property
   holds when no keep-alive is sent (`PairedAnswersStay`, in `session_links`).
3. *An interrupt can hide that a job ran* (`completed_unreported`). An interrupt
   that is raised as `send_job()` returns, before `completed` is set, or as
   `_operate()` returns, makes `main` report `operation_completed` false, with
   neither receipt nor delivery certainty, of an operation that returned
   successfully; an error of `close()` is then lost too.
   `docs/integration.md:563-564` and `:569-570` say that the field is true when
   the operation returned successfully and that the receipt and the certainty
   serve when it is false. `CompletedIsTold` says that it holds in every
   other case (`controller_cli`).

4. *An edit of a command the writer does not know can be lost* (`lost_edit`).
   `KnownCommand.encode` without a specification remembers the values of its first
   call (`program.py:127-134`) and repeats the raw bytes while they stay the same.
   If a package that knows a command read and edited it, and a registry without
   it then encodes it, that first call comes after the edit, and the old bytes
   are written without an error. `program.py:131` raises "Cannot edit unknown
   command" for an edit after that call, and `docs/integration.md:977-980` says
   that an older consumer does not claim to edit what it does not understand.
   Reading, editing and writing by one package, and editing after a load, are
   not concerned (`EditsAreWritten`, `UneditedIsLossless`).

## 7. Not modelled

Components: focus planning (arithmetic on logical Z offsets, without state),
experiment records, the evidence catalog and conformance checks, JSON input, the
fixture and profile generators, and the file command lines, for the reasons in
section 1.1.

Of the modelled components:

* *Session*: the bytes of packets; the wrappers that build one command and call
  `request` or `send_no_reply_request`; error texts; the observer's event records
  (an observer of datagrams is in `Transcript`).
* *Links*: the limits of a payload and of the MTU.
* *Transports*: interrupts between two statements, and the texts of errors. The
  address of the route is whatever the system gives.
* *Codec and programs*: the schema of the JSON and the texts of issues; evidence
  labels, reply contracts and resource tables of specifications, which no byte
  depends on; strings are digits of the wire, not characters.
* *Transcripts*: timestamps, notes and endpoints.
* *Job compiler*: the declared bounds of a layer, the job metric, colours, delays
  and element names. Lengths are integers, so that the rounding of a float to a
  micron happens before the model; frequencies, pulse widths and the envelopes
  of the metadata other than powers and bounds are accepted or refused but not
  executed.
* *Command line*: the parsing of arguments and the building of a job from a
  file.
* What callbacks do besides calling the client, and the controller's own
  behaviour beyond what `docs/protocol.md` says of it.
