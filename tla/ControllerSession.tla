-------------------------- MODULE ControllerSession --------------------------
(***************************************************************************)
(* The exchange state machine of ControllerClient (controller.py) over one *)
(* link, together with the controller and the wire at its other end.       *)
(*                                                                         *)
(* One public operation runs at a time: SessionOwnership models the lock   *)
(* and the re-entrancy guard that make it so.  Each action below is one    *)
(* call of the link (send, receive, open, close) with every state change   *)
(* the client makes until the next such call.                              *)
(*                                                                         *)
(* Packets and responses carry history fields (exchange, packet, attempt)  *)
(* that the wire does not have: Ruida UDP has no sequence number, so no    *)
(* guard of the client reads them.  They only let properties say which     *)
(* transmission caused a response.                                         *)
(***************************************************************************)
EXTENDS Integers, Sequences, FiniteSets

CONSTANT
  Setups    \* the clients there are, each with the world it is put in

SessionState == {"closed", "ready", "desynchronized"}
DeliveryCertainty == {"none", "confirmed", "rejected", "unknown"}
PublicOperation ==
  {"open", "probe", "close", "keepAlive", "noReply", "request"}

\* What ControllerClient.__init__ was given, as far as __init__,
\* HandshakeProfile and ReplyPolicy accept it, and the bounds of the world.
Setup ==
  [acknowledged : BOOLEAN,       \* link.acknowledgement_required and
                                 \* control_datagrams: TRUE for UdpLink,
                                 \* FALSE for SerialLink
   dataAcknowledges : BOOLEAN,   \* handshake_profile.data_acknowledges
   retries : Nat,                \* handshake_profile.max_retries
   events : Nat \ {0},           \* handshake_event_limit
   drain : Nat \ {0},            \* drain_limit
   explicit : BOOLEAN,           \* reply policy declares an expected count
   units : Nat \ {0},            \* wire units of one complete reply
   chunks : Nat \ {0},           \* reply policy max_chunks
   operations : SUBSET PublicOperation,  \* what callers use
   quiescent : BOOLEAN,          \* callers open only a quiescent link
   unsolicited : BOOLEAN,        \* the controller sends CE on its own
   packets : Nat \ {0},          \* bound: packets of one exchange
   exchanges : Nat \ {0},        \* bound: exchanges begun in a behaviour
   duplicates : Nat]             \* bound: datagrams delivered twice

\* has_stream_completion is required of a serial link, and ReplyPolicy refuses
\* to expect more than it allows.
ASSUME SetupsAssumption ==
  /\ Setups \subseteq Setup
  /\ \A s \in Setups :
       /\ ~s.acknowledged => s.explicit
       /\ s.explicit => s.units <= s.chunks

VARIABLES
  setup,          \* the client's setup, chosen when it is made
  (* The session: ControllerClient's fields and its link.                  *)
  state,          \* SessionState
  linkOpen,       \* link.is_open
  inbound,        \* _inbound: an event read but not yet handed out
  replyBuffer,    \* _reply_buffer: data that acknowledged a packet
  (* The operation in progress.                                            *)
  pc,             \* the link call the operation is about to make
  op,             \* which public operation it is
  openedHere,     \* _open_locked's opened_here
  (* Its exchange: _ExchangeProgress and the locals of the wait loops.     *)
  exch,           \* number of exchanges begun
  packets,        \* len(packets)
  completed,      \* progress.completed_packets
  transmissions,  \* progress.transmissions
  attempt,        \* attempt of the current packet, retries + 1
  reads,          \* reads made by the current drain or handshake
  expired,        \* the deadline of the current wait has passed
  units,          \* reply units collected
  (* What callers learn: how the last operation ended, and the delivery    *)
  (* certainty attached to the error of the last exchange.                 *)
  result, certainty,
  (* The wire: packets and responses in flight, the host's receive queue.  *)
  toController, toHost, received, duplicates,
  (* History.                                                              *)
  accepted,       \* transmissions the controller accepted
  onWire          \* sends of the current exchange that reached the wire

session  == <<setup, state, linkOpen, inbound, replyBuffer>>
call     == <<pc, op, openedHere>>
progress == <<exch, packets, completed, transmissions, attempt>>
wait     == <<reads, expired, units>>
report   == <<result, certainty>>
network  == <<toController, toHost, received, duplicates>>
history  == <<accepted, onWire>>
vars == <<session, call, progress, wait, report, network, history>>

-----------------------------------------------------------------------------
(* The setup.                                                              *)

Acknowledged        == setup.acknowledged
DataAcknowledges    == setup.dataAcknowledges
MaxRetries          == setup.retries
HandshakeEventLimit == setup.events
DrainLimit          == setup.drain
ExplicitCompletion  == setup.explicit
ReplyUnits          == setup.units
MaxChunks           == setup.chunks
Operations          == setup.operations
QuiescentReopen     == setup.quiescent
UnsolicitedLiveness == setup.unsolicited
MaxPackets          == setup.packets
MaxExchanges        == setup.exchanges
MaxDuplicates       == setup.duplicates

-----------------------------------------------------------------------------
(* Messages.                                                               *)

Transmission == [ex : Nat, pkt : Nat, att : Nat,
                 kind : {"keepAlive", "command", "request"}]

Unit == [kind : {"ack", "nak", "err", "alive", "data"},
         ex : Nat, pkt : Nat, att : Nat]

Control(code, t) == [kind |-> code, ex |-> t.ex, pkt |-> t.pkt, att |-> t.att]

\* Unit i of the controller's reply; unit 0 does not decode or does not match.
Datum(t, i) == [kind |-> "data", ex |-> t.ex, pkt |-> i, att |-> 0]

LivenessUnit == [kind |-> "alive", ex |-> 0, pkt |-> 0, att |-> 0]
StaleAck == [kind |-> "ack", ex |-> 0, pkt |-> 1, att |-> 1]

-----------------------------------------------------------------------------
(* Helpers of the exchange.                                                *)

InExchange == pc \in {"preflight", "send", "handshake", "settle", "reply",
                      "replySettle", "decode"}
HasReply == op = "request"
IsKeepAlive == op \in {"probe", "keepAlive"}
BuffersEmpty == inbound = <<>> /\ replyBuffer = <<>>

\* The control codes that acknowledge a packet: CC, or CC and CE for a
\* keep-alive.
Accepts(m) == m.kind = "ack" \/ (IsKeepAlive /\ m.kind = "alive")

\* _reply_complete with an expected count; without one only the idle gap ends
\* a reply.
ReplyComplete(us) == ExplicitCompletion /\ Len(us) = ReplyUnits

\* The reply decodes to one known command that matches its request.
\* Mutant: a decodable beginning of it will do.
PartialReply(us) == \A i \in 1..Len(us) : us[i].pkt = i
DeclaredReply(us) ==
  /\ Len(us) = ReplyUnits
  /\ \A i \in 1..Len(us) : us[i].pkt = i

\* The receive loops look at the clock before every read but the first.
\* Mutant: the reply loop relies on the timeout of each read.
NoTotalDeadline == FALSE
HandshakeDeadlinePassed == reads > 0 /\ expired
ReplyDeadlinePassed == expired

\* Where a failed exchange leaves the session.  Mutants: it stays usable;
\* a rejection forgets the packets accepted before it.
StaysUsable(open) == "ready"
PrefixForgotten(done) == IF ~BuffersEmpty THEN "desynchronized" ELSE state
StateAfterFailure(open) == IF open THEN "desynchronized" ELSE "closed"

StateAfterRejection(done) ==
  IF done > 0 \/ ~BuffersEmpty THEN "desynchronized" ELSE state

\* _attach_progress and _fault_completed_exchange.  Mutant: a link without
\* acknowledgements confirms what it has written.
WrittenIsConfirmed(res, done) ==
  CASE res = "rejected" -> "rejected"
    [] res # "rejected" /\ done = packets -> "confirmed"
    [] OTHER -> "unknown"
CertaintyAfter(res, done) ==
  CASE res = "rejected" -> "rejected"
    [] res # "rejected" /\ Acknowledged /\ done = packets -> "confirmed"
    [] OTHER -> "unknown"

\* The exchange raises: report it, and let open() clean up if it was a probe.
Raise(res, done) ==
  /\ result' = res
  /\ certainty' = CertaintyAfter(res, done)
  /\ completed' = done
  /\ pc' = IF op = "probe" THEN "openCleanup" ELSE "idle"
  /\ UNCHANGED <<op, openedHere, exch, packets, transmissions, attempt>>

\* Every failure but a rejection, on a link that stays open.
Fail(res, done) ==
  /\ Raise(res, done)
  /\ state' = StateAfterFailure(linkOpen)
  /\ UNCHANGED <<setup, linkOpen>>

Reject ==
  /\ Raise("rejected", completed)
  /\ state' = StateAfterRejection(completed)
  /\ UNCHANGED <<setup, linkOpen, inbound, replyBuffer>>

\* The operation returns to its caller.
Succeed ==
  /\ result' = "ok"
  /\ pc' = "idle"
  /\ UNCHANGED <<certainty, op, openedHere, progress, session>>

\* _next_event hands out the head of the receive queue.
Input == Head(received)
Read ==
  /\ received # <<>>
  /\ received' = Tail(received)
  /\ UNCHANGED <<toController, toHost, duplicates>>

\* A zero-timeout receive returns None.  Mutant: its result is not looked at.
IgnoredPoll == TRUE
LinkQuiet == received = <<>>

\* Attempts are counted from 1.  Mutant: from 0.
ZeroAttempt == 0
FirstAttempt == 1

\* Every send is one transmission.  Mutant: retries are not counted.
FirstTransmissionsOnly ==
  IF attempt = FirstAttempt THEN transmissions + 1 ELSE transmissions
CountTransmission == transmissions + 1

\* The locals of an exchange of n packets, at its preflight poll.
EnterExchange(n) ==
  /\ exch' = exch + 1
  /\ packets' = n
  /\ completed' = 0
  /\ transmissions' = 0
  /\ attempt' = FirstAttempt
  /\ onWire' = 0
  /\ reads' = 0
  /\ expired' = FALSE
  /\ units' = <<>>
  /\ certainty' = "none"
  /\ pc' = "preflight"
  /\ UNCHANGED accepted

\* The packet counts as delivered: _transmit returns.  What follows is the
\* settle poll, the reply, or the next packet of a stream write.
CompletePacket(buffered) ==
  /\ completed' = completed + 1
  /\ attempt' = FirstAttempt
  /\ expired' = FALSE
  /\ units' = buffered
  /\ pc' = CASE ~HasReply -> "settle"
             [] HasReply /\ completed + 1 < packets -> "send"
             [] HasReply /\ completed + 1 >= packets ->
                  IF ReplyComplete(buffered) THEN "replySettle" ELSE "reply"
  /\ UNCHANGED <<op, openedHere, exch, packets, setup, state, linkOpen,
                 inbound, replyBuffer, report>>

-----------------------------------------------------------------------------
(* Opening and closing.                                                    *)

\* What an application must establish before it opens the endpoint again:
\* nothing sent by or to an earlier session is still in flight.
Quiescent == toController = {} /\ toHost \subseteq {LivenessUnit}

\* A desynchronized session refuses to open.  Mutant: it recovers in place.
RecoverInPlace == TRUE
Openable == state # "desynchronized"

\* open(): link.open() is next.
OpenCall(o) ==
  /\ pc = "idle" /\ o \in Operations \cap {"open", "probe"}
  /\ Openable
  /\ QuiescentReopen => Quiescent
  /\ exch < MaxExchanges
  /\ op' = o
  /\ openedHere' = ~linkOpen
  /\ pc' = "linkOpen"
  /\ UNCHANGED <<session, progress, wait, report, network, history>>

\* link.open() returns; _drain_locked clears the buffers and starts to read.
OpenLink ==
  /\ pc = "linkOpen"
  /\ linkOpen' = TRUE
  /\ inbound' = <<>>
  /\ replyBuffer' = <<>>
  /\ reads' = 0
  /\ pc' = "drain"
  /\ UNCHANGED <<setup, state, op, openedHere, progress, expired, units,
                 report, network, history>>

DrainUnit ==
  /\ pc = "drain"
  /\ Read
  /\ reads < DrainLimit
  /\ reads' = reads + 1
  /\ UNCHANGED <<session, call, progress, expired, units, report, history>>

\* DrainLimitError: one more unit than the limit was waiting.
DrainOverflow ==
  /\ pc = "drain"
  /\ Read
  /\ reads = DrainLimit
  /\ result' = "limit"
  /\ pc' = "openCleanup"
  /\ UNCHANGED <<certainty, session, op, openedHere, progress, wait, history>>

\* The drain found the queue empty: _set_ready, and open() returns unless it
\* probes an acknowledging link.
DrainDone ==
  /\ pc = "drain"
  /\ LinkQuiet
  /\ state' = "ready"
  /\ UNCHANGED <<setup, linkOpen, inbound, replyBuffer, op, openedHere,
                 network>>
  /\ IF op = "probe" /\ Acknowledged
       THEN EnterExchange(1) /\ UNCHANGED result
       ELSE /\ pc' = "idle"
            /\ result' = "ok"
            /\ UNCHANGED <<certainty, progress, wait, history>>

\* _open_locked's handler: close the link it opened itself, which may fail.
OpenCleanup ==
  /\ pc = "openCleanup"
  /\ linkOpen' \in IF openedHere THEN {FALSE, linkOpen} ELSE {linkOpen}
  /\ state' = CASE openedHere -> StateAfterFailure(linkOpen')
                [] ~openedHere /\ linkOpen -> "desynchronized"
                [] ~openedHere /\ ~linkOpen -> state
  /\ inbound' = IF state' = "closed" THEN <<>> ELSE inbound
  /\ replyBuffer' = IF state' = "closed" THEN <<>> ELSE replyBuffer
  /\ received' = IF linkOpen' THEN received ELSE <<>>
  /\ pc' = "idle"
  /\ UNCHANGED <<setup, op, openedHere, progress, wait, report, toController,
                 toHost, duplicates, history>>

\* close(): the transport's close returns, or raises with the link open or not.
CloseCall ==
  /\ pc = "idle" /\ "close" \in Operations
  /\ op' = "close"
  /\ \E stillOpen \in {FALSE, linkOpen} :
       /\ linkOpen' = stillOpen
       /\ result' \in IF stillOpen THEN {"fault"} ELSE {"ok", "fault"}
       /\ state' = StateAfterFailure(stillOpen)
       /\ received' = IF stillOpen THEN received ELSE <<>>
       /\ inbound' = IF stillOpen THEN inbound ELSE <<>>
       /\ replyBuffer' = IF stillOpen THEN replyBuffer ELSE <<>>
  /\ UNCHANGED <<setup, certainty, pc, openedHere, progress, wait,
                 toController, toHost, duplicates, history>>

-----------------------------------------------------------------------------
(* Starting an exchange.                                                   *)

\* _require_ready.  Mutant: an open link is enough.
OpenIsEnough == linkOpen
Ready == state = "ready" /\ linkOpen

\* Operations the client turns down without touching the link: any but close
\* while desynchronized, an exchange without an open and initialised session,
\* recover() always, an empty program, a split reply-producing request.
Refuse ==
  /\ pc = "idle"
  /\ result' = "refused"
  /\ UNCHANGED <<certainty, session, call, progress, wait, network, history>>

StartExchange(o, n) ==
  /\ pc = "idle"
  /\ o \in Operations \cap {"keepAlive", "noReply", "request"}
  /\ Ready
  /\ exch < MaxExchanges
  /\ o = "keepAlive" => n = 1
  /\ (o = "request" /\ Acknowledged) => n = 1
  /\ op' = o
  /\ EnterExchange(n)
  /\ UNCHANGED <<session, openedHere, result, network>>

\* _require_empty_buffers: nothing buffered and the zero-timeout poll is empty.
PreflightClean ==
  /\ pc = "preflight"
  /\ BuffersEmpty /\ LinkQuiet
  /\ pc' = "send"
  /\ UNCHANGED <<session, op, openedHere, progress, wait, report, network,
                 history>>

\* Stale input: the session is faulted and nothing was sent.
PreflightStale ==
  /\ pc = "preflight"
  /\ Read
  /\ result' = "unexpected"
  /\ state' = "desynchronized"
  /\ pc' = IF op = "probe" THEN "openCleanup" ELSE "idle"
  /\ UNCHANGED <<setup, certainty, linkOpen, inbound, replyBuffer, op,
                 openedHere, progress, wait, history>>

-----------------------------------------------------------------------------
(* Sending a packet and waiting for its handshake.                         *)

CurrentPacket ==
  [ex |-> exch, pkt |-> completed + 1, att |-> attempt,
   kind |-> CASE IsKeepAlive -> "keepAlive"
              [] HasReply /\ completed + 1 = packets -> "request"
              [] OTHER -> "command"]

Transmit ==
  /\ pc = "send"
  /\ toController' = toController \cup {CurrentPacket}
  /\ transmissions' = CountTransmission
  /\ onWire' = onWire + 1
  /\ reads' = 0
  /\ IF Acknowledged
       THEN /\ pc' = "handshake"
            /\ expired' = FALSE
            /\ UNCHANGED <<session, op, openedHere, exch, packets, completed,
                           attempt, units, report>>
       ELSE CompletePacket(<<>>)
  /\ UNCHANGED <<toHost, received, duplicates, accepted>>

\* One read of _wait_for_handshake returns, within its event limit.
HandshakeEvent ==
  /\ pc = "handshake"
  /\ ~HandshakeDeadlinePassed
  /\ Read
  /\ reads < HandshakeEventLimit
  /\ reads' = reads + 1
  /\ UNCHANGED <<transmissions, history>>

HandshakeAccept ==
  /\ HandshakeEvent
  /\ Accepts(Input)
  /\ CompletePacket(<<>>)

\* CF: send the identical packet again, or reject it once the retries are spent.
HandshakeRetry ==
  /\ HandshakeEvent
  /\ Input.kind = "nak"
  /\ attempt <= MaxRetries
  /\ attempt' = attempt + 1
  /\ pc' = "send"
  /\ UNCHANGED <<session, op, openedHere, exch, packets, completed, expired,
                 units, report>>

HandshakeReject ==
  /\ HandshakeEvent
  /\ \/ Input.kind = "err"
     \/ Input.kind = "nak" /\ attempt > MaxRetries
  /\ Reject
  /\ UNCHANGED <<expired, units>>

\* A liveness code is not an answer: keep waiting on the same deadline.
HandshakeLiveness ==
  /\ HandshakeEvent
  /\ Input.kind = "alive" /\ ~Accepts(Input)
  /\ UNCHANGED <<session, call, exch, packets, completed, attempt, expired,
                 units, report>>

\* Data before the acknowledgement acknowledges only under a profile that says
\* so, and then only in an exchange that expects data.
HandshakeData ==
  /\ HandshakeEvent
  /\ Input.kind = "data"
  /\ DataAcknowledges /\ HasReply
  /\ CompletePacket(<<Input>>)

HandshakeUnexpected ==
  /\ HandshakeEvent
  /\ Input.kind = "data"
  /\ ~(DataAcknowledges /\ HasReply)
  /\ replyBuffer' = IF DataAcknowledges THEN <<Input>> ELSE replyBuffer
  /\ Fail("unexpected", IF DataAcknowledges THEN completed + 1
                                            ELSE completed)
  /\ UNCHANGED <<inbound, expired, units>>

HandshakeOverflow ==
  /\ pc = "handshake"
  /\ ~HandshakeDeadlinePassed
  /\ Read
  /\ reads = HandshakeEventLimit
  /\ Fail("limit", completed)
  /\ UNCHANGED <<inbound, replyBuffer, wait, history>>

\* Mutant: a timeout sends the packet again.
BlindResend ==
  /\ pc = "handshake"
  /\ expired /\ (HandshakeDeadlinePassed \/ received = <<>>)
  /\ attempt <= MaxRetries
  /\ attempt' = attempt + 1
  /\ pc' = "send"
  /\ UNCHANGED <<session, op, openedHere, exch, packets, completed,
                 transmissions, wait, report, network, history>>

\* No input within the deadline, or the deadline passed between two reads.
HandshakeTimeout ==
  /\ pc = "handshake"
  /\ expired /\ (HandshakeDeadlinePassed \/ received = <<>>)
  /\ Fail("timeout", completed)
  /\ UNCHANGED <<inbound, replyBuffer, wait, network, history>>

-----------------------------------------------------------------------------
(* Settling a packet of a no-reply exchange, and collecting a reply.       *)

SettleQuiet ==
  /\ pc = "settle"
  /\ LinkQuiet
  /\ IF completed = packets
       THEN Succeed
       ELSE /\ pc' = "send"
            /\ UNCHANGED <<session, op, openedHere, progress, report>>
  /\ UNCHANGED <<wait, network, history>>

SettleUnexpected ==
  /\ pc = "settle"
  /\ Read
  /\ Fail("unexpected", completed)
  /\ UNCHANGED <<inbound, replyBuffer, wait, history>>

\* One read of _collect_reply returns before the total deadline.
ReplyEvent ==
  /\ pc = "reply"
  /\ ~ReplyDeadlinePassed
  /\ Read
  /\ UNCHANGED <<transmissions, reads, expired, history>>

ReplyLiveness ==
  /\ ReplyEvent
  /\ Input.kind = "alive"
  /\ UNCHANGED <<session, call, exch, packets, completed, attempt, units,
                 report>>

ReplyData ==
  /\ ReplyEvent
  /\ Input.kind = "data"
  /\ Len(units) < MaxChunks
  /\ units' = Append(units, Input)
  /\ pc' = IF ReplyComplete(units') THEN "replySettle" ELSE "reply"
  /\ UNCHANGED <<session, op, openedHere, exch, packets, completed, attempt,
                 report>>

\* A control inside the reply, or more chunks than the policy allows.
ReplyUnexpected ==
  /\ ReplyEvent
  /\ Input.kind # "alive"
  /\ Input.kind = "data" => Len(units) >= MaxChunks
  /\ Fail(IF Input.kind = "data" THEN "limit" ELSE "unexpected", completed)
  /\ UNCHANGED <<inbound, replyBuffer, units>>

\* The idle gap ends a reply that has no declared length.
ReplyIdleGap ==
  /\ pc = "reply"
  /\ ~ReplyDeadlinePassed /\ received = <<>>
  /\ units # <<>> /\ ~ExplicitCompletion
  /\ pc' = "decode"
  /\ UNCHANGED <<session, op, openedHere, progress, wait, report, network,
                 history>>

ReplyTimeout ==
  /\ pc = "reply"
  /\ \/ ReplyDeadlinePassed
     \/ received = <<>> /\ (units = <<>> \/ ExplicitCompletion)
  /\ Fail("timeout", completed)
  /\ UNCHANGED <<inbound, replyBuffer, wait, network, history>>

ReplySettleQuiet ==
  /\ pc = "replySettle"
  /\ LinkQuiet
  /\ pc' = "decode"
  /\ UNCHANGED <<session, op, openedHere, progress, wait, report, network,
                 history>>

ReplySettleExcess ==
  /\ pc = "replySettle"
  /\ Read
  /\ Fail("unexpected", completed)
  /\ UNCHANGED <<inbound, replyBuffer, wait, history>>

Decode ==
  /\ pc = "decode"
  /\ DeclaredReply(units)
  /\ Succeed
  /\ UNCHANGED <<wait, network, history>>

DecodeMismatch ==
  /\ pc = "decode"
  /\ ~DeclaredReply(units)
  /\ Fail("unexpected", completed)
  /\ UNCHANGED <<inbound, replyBuffer, wait, network, history>>

-----------------------------------------------------------------------------
(* Faults: an OSError of the transport or an interrupt (BaseException), in  *)
(* or next to a link call.  The transport may close under the error.        *)

\* The exchange handler's view of a fault: what was buffered goes with the
\* link.
LinkFault ==
  /\ Raise("fault", completed)
  /\ linkOpen' \in BOOLEAN
  /\ state' = StateAfterFailure(linkOpen')
  /\ replyBuffer' = IF linkOpen' THEN replyBuffer ELSE <<>>
  /\ UNCHANGED setup

\* link.send raises, or is interrupted before the transmission is counted:
\* the packet may be on the wire all the same.
SendFault ==
  /\ pc = "send"
  /\ LinkFault
  /\ \/ toController' = toController /\ onWire' = onWire
     \/ toController' = toController \cup {CurrentPacket}
        /\ onWire' = onWire + 1
  /\ inbound' = IF linkOpen' THEN inbound ELSE <<>>
  /\ received' = IF linkOpen' THEN received ELSE <<>>
  /\ UNCHANGED <<wait, toHost, duplicates, accepted>>

\* A receive, its observer or the decoding of the reply raises.
ReceiveFault ==
  /\ pc \in {"handshake", "settle", "reply", "replySettle", "decode"}
  /\ LinkFault
  /\ inbound' = IF linkOpen' THEN inbound ELSE <<>>
  /\ received' = IF linkOpen' THEN received ELSE <<>>
  /\ UNCHANGED <<wait, toController, toHost, duplicates, history>>

\* An interrupt inside _next_event, after the event is queued in _inbound.
ReceiveInterrupted ==
  /\ pc \in {"preflight", "handshake", "settle", "reply", "replySettle"}
  /\ Read /\ inbound' = <<Input>>
  /\ Fail("fault", completed)
  /\ UNCHANGED <<replyBuffer, wait, history>>

\* _require_empty_buffers faults the session whether or not the link survived.
PreflightFault ==
  /\ pc = "preflight"
  /\ Raise("fault", completed)
  /\ state' = "desynchronized"
  /\ linkOpen' \in BOOLEAN
  /\ received' = IF linkOpen' THEN received ELSE <<>>
  /\ UNCHANGED <<setup, inbound, replyBuffer, wait, toController, toHost,
                 duplicates, history>>

\* open() fails in link.open or in the drain.
OpenFault ==
  /\ pc \in {"linkOpen", "drain"}
  /\ result' = "fault"
  /\ pc' = "openCleanup"
  /\ linkOpen' \in IF pc = "linkOpen" THEN {linkOpen, TRUE} ELSE BOOLEAN
  /\ received' = IF linkOpen' THEN received ELSE <<>>
  /\ UNCHANGED <<setup, certainty, state, inbound, replyBuffer, op, openedHere,
                 progress, wait, toController, toHost, duplicates, history>>

Fault == \/ SendFault \/ ReceiveFault \/ ReceiveInterrupted
         \/ PreflightFault \/ OpenFault

-----------------------------------------------------------------------------
(* Time, the network and the controller.                                   *)

\* The deadline of the current wait passes.
Tick ==
  /\ pc \in {"handshake", "reply"}
  /\ ~expired
  /\ expired' = TRUE
  /\ UNCHANGED <<session, call, progress, reads, units, report, network,
                 history>>

\* The message leaves the network, or the network will deliver it once more.
TakeFrom(inFlight, m) ==
  \/ inFlight' = inFlight \ {m} /\ UNCHANGED duplicates
  \/ /\ Acknowledged /\ duplicates < MaxDuplicates
     /\ duplicates' = duplicates + 1
     /\ UNCHANGED inFlight

\* A serial line keeps the order of its bytes; datagrams may overtake.
InOrder(m, inFlight) ==
  Acknowledged \/ \A n \in inFlight :
                    m.ex < n.ex \/ (m.ex = n.ex /\ m.pkt <= n.pkt)

client == <<session, call, progress, wait, report, onWire>>

\* A unit reaches the host, which drops it while no socket is open.
Arrive(m) ==
  /\ m \in toHost /\ InOrder(m, toHost)
  /\ TakeFrom(toHost, m)
  /\ received' = IF linkOpen THEN Append(received, m) ELSE received
  /\ UNCHANGED <<client, toController, accepted>>

LoseUnit(m) ==
  /\ Acknowledged /\ m \in toHost
  /\ toHost' = toHost \ {m}
  /\ UNCHANGED <<client, toController, received, duplicates, accepted>>

LosePacket(t) ==
  /\ Acknowledged /\ t \in toController
  /\ toController' = toController \ {t}
  /\ UNCHANGED <<client, toHost, received, duplicates, accepted>>

\* The reply to a request: complete, undecodable, or none.
Replies(t) ==
  IF t.kind = "request"
    THEN {{}, {Datum(t, 0)}, {Datum(t, i) : i \in 1..ReplyUnits}}
    ELSE {{}}

\* The control that acknowledges t: CC, CE for a keep-alive, and none on a
\* serial line or in a dialect whose data acknowledges.
Acknowledgements(t, reply) ==
  IF ~Acknowledged \/ (DataAcknowledges /\ reply # {})
    THEN {{}}
    ELSE {{Control("ack", t)}} \cup
         (IF t.kind = "keepAlive" THEN {{Control("alive", t)}} ELSE {})

ControllerAccepts(t) ==
  /\ t \in toController /\ InOrder(t, toController)
  /\ TakeFrom(toController, t)
  /\ accepted' = accepted \cup {t}
  /\ \E reply \in Replies(t) : \E answer \in Acknowledgements(t, reply) :
       toHost' = toHost \cup reply \cup answer
  /\ UNCHANGED <<client, received>>

\* CF or CD: the controller answers and does not act on the packet.
ControllerRefuses(t) ==
  /\ Acknowledged /\ t \in toController
  /\ TakeFrom(toController, t)
  /\ \E code \in {"nak", "err"} : toHost' = toHost \cup {Control(code, t)}
  /\ UNCHANGED <<client, received, accepted>>

\* CE that answers nothing; at most one is unread at a time.
ControllerAlive ==
  /\ Acknowledged /\ UnsolicitedLiveness
  /\ LivenessUnit \notin toHost
  /\ \A i \in 1..Len(received) : received[i] # LivenessUnit
  /\ toHost' = toHost \cup {LivenessUnit}
  /\ UNCHANGED <<client, toController, received, duplicates, accepted>>

Environment ==
  \/ Tick \/ ControllerAlive
  \/ \E m \in toHost : Arrive(m) \/ LoseUnit(m)
  \/ \E t \in toController :
       LosePacket(t) \/ ControllerAccepts(t) \/ ControllerRefuses(t)

-----------------------------------------------------------------------------
(* The specification.                                                      *)

\* A client is built over a closed link, over an open one that may hold stale
\* input, or (assume_synchronized) over an open one declared to be in step.
Init ==
  /\ setup \in Setups
  /\ linkOpen \in BOOLEAN
  /\ state \in IF linkOpen THEN {"closed", "ready"} ELSE {"closed"}
  /\ received \in IF linkOpen /\ state = "closed" /\ Acknowledged
                    THEN {<<>>, <<StaleAck>>} ELSE {<<>>}
  /\ inbound = <<>> /\ replyBuffer = <<>>
  /\ pc = "idle" /\ op = "close" /\ openedHere = FALSE
  /\ exch = 0 /\ packets = 0 /\ completed = 0
  /\ transmissions = 0 /\ attempt = 1
  /\ reads = 0 /\ expired = FALSE /\ units = <<>>
  /\ result = "none" /\ certainty = "none"
  /\ toController = {} /\ toHost = {} /\ duplicates = 0
  /\ accepted = {} /\ onWire = 0

Caller ==
  \/ \E o \in Operations : OpenCall(o)
  \/ \E o \in Operations, n \in 1..MaxPackets : StartExchange(o, n)
  \/ CloseCall
  \/ Refuse

Opening == OpenLink \/ DrainUnit \/ DrainOverflow \/ DrainDone \/ OpenCleanup

Sending ==
  \/ PreflightClean \/ PreflightStale \/ Transmit
  \/ HandshakeAccept \/ HandshakeRetry \/ HandshakeReject
  \/ HandshakeLiveness \/ HandshakeData \/ HandshakeUnexpected
  \/ HandshakeOverflow \/ HandshakeTimeout
  \/ SettleQuiet \/ SettleUnexpected

Replying ==
  \/ ReplyLiveness \/ ReplyData \/ ReplyUnexpected \/ ReplyIdleGap
  \/ ReplyTimeout \/ ReplySettleQuiet \/ ReplySettleExcess
  \/ Decode \/ DecodeMismatch

\* The client's own progress through the operation it has begun.
Progress == Opening \/ Sending \/ Replying

Next == Caller \/ Progress \/ Fault \/ Environment

Spec == Init /\ [][Next]_vars

\* The interpreter keeps running the operation it is in, and time passes.
FairSpec == Spec /\ WF_vars(Progress) /\ WF_vars(Tick)

-----------------------------------------------------------------------------
(* Properties.                                                             *)

Phase == {"idle", "linkOpen", "drain", "openCleanup", "preflight", "send",
          "handshake", "settle", "reply", "replySettle", "decode"}

Result == {"none", "ok", "refused", "rejected", "timeout", "limit",
           "unexpected", "fault"}

FlagsTypeOK ==
  /\ setup \in Setups
  /\ linkOpen \in BOOLEAN /\ openedHere \in BOOLEAN /\ expired \in BOOLEAN

SessionTypeOK ==
  /\ state \in SessionState
  /\ inbound \in Seq(Unit) /\ replyBuffer \in Seq(Unit)
  /\ pc \in Phase /\ op \in PublicOperation
  /\ result \in Result /\ certainty \in DeliveryCertainty

ProgressTypeOK ==
  /\ exch \in Nat /\ packets \in Nat /\ completed \in Nat
  /\ transmissions \in Nat /\ attempt \in Nat \ {0}
  /\ reads \in Nat /\ units \in Seq(Unit)

WireTypeOK ==
  /\ toController \subseteq Transmission /\ toHost \subseteq Unit
  /\ received \in Seq(Unit) /\ duplicates \in Nat
  /\ accepted \subseteq Transmission /\ onWire \in Nat

\* Every variable stays in its range.
TypeOK == FlagsTypeOK /\ SessionTypeOK /\ ProgressTypeOK /\ WireTypeOK

\* Answers can be told apart only if nobody opens a link with traffic in flight,
\* no datagram arrives twice, and no CE comes unasked in a session whose
\* keep-alives take it for theirs.
CanBePaired ==
  /\ QuiescentReopen
  /\ MaxDuplicates = 0
  /\ UnsolicitedLiveness => Operations \cap {"probe", "keepAlive"} = {}

\* A packet the client counts as completed was accepted by the controller:
\* receipts and "confirmed" never claim more than what happened, whatever was
\* lost, late or retried.
CompletedWasAccepted ==
  (Acknowledged /\ CanBePaired) =>
    \A p \in 1..completed : \E t \in accepted : t.ex = exch /\ t.pkt = p

\* The controller never acts twice on a packet of one exchange, and never on a
\* packet before all its predecessors: no timeout or negative acknowledgement
\* makes the client repeat or reorder a job.
AcceptedOnceInOrder ==
  CanBePaired =>
    /\ \A t, u \in accepted : t.ex = u.ex /\ t.pkt = u.pkt => t = u
    /\ \A t \in accepted : \A p \in 1..(t.pkt - 1) :
         \E u \in accepted : u.ex = t.ex /\ u.pkt = p

\* Answer units (everything but unsolicited liveness) not yet consumed.
Outstanding ==
  (toHost \cup {received[i] : i \in 1..Len(received)}) \ {LivenessUnit}

\* A session that accepts new exchanges has nothing outstanding that a later
\* exchange could take for its own: no packet, no answer, no buffered event.
ReadyMeansQuiet ==
  (Acknowledged /\ CanBePaired /\ pc = "idle" /\ state = "ready")
    => toController = {} /\ Outstanding = {} /\ BuffersEmpty

\* "confirmed" is said only of exchanges whose every packet was accepted: on a
\* serial line, which proves nothing, it is never said.
ConfirmedWasAccepted ==
  (CanBePaired /\ certainty = "confirmed") =>
    \A p \in 1..packets : \E t \in accepted : t.ex = exch /\ t.pkt = p

\* A rejection that leaves the session usable left nothing behind: the
\* controller acted on no packet of that exchange.
RejectionLeavesNothing ==
  (CanBePaired /\ pc = "idle" /\ result = "rejected" /\ state = "ready")
    => \A t \in accepted : t.ex # exch

\* The reply handed to the caller consists of answers to that very request.
ReplyBelongsToRequest ==
  (CanBePaired /\ pc = "idle" /\ op = "request" /\ result = "ok")
    => \A i \in 1..Len(units) : units[i].ex = exch

\* receipt.transmissions never overstates what went out, and understates it by
\* at most the one send that failed or was interrupted; a receipt returned by a
\* successful exchange is exact.
ReceiptMatchesWire ==
  /\ transmissions <= onWire
  /\ onWire <= transmissions + 1
  /\ onWire > transmissions => certainty = "unknown"

\* What each phase of an operation may rely on, which makes ReceiptMatchesWire
\* inductive and rules out that an exchange runs, or a session is initialised,
\* in a session that an earlier failure has faulted.
OpeningIsNotFaulted ==
  /\ pc \in {"linkOpen", "drain"} => state # "desynchronized"
  /\ pc = "drain" => linkOpen
ExchangeIsReady == InExchange => state = "ready" /\ linkOpen
ExchangeIsCounted ==
  /\ completed <= packets
  /\ pc \in {"preflight", "send", "handshake"} => completed < packets
  /\ InExchange => transmissions = onWire /\ certainty = "none"

\* The phases of an operation agree with the session's state and its counts.
SessionInv ==
  /\ OpeningIsNotFaulted
  /\ ExchangeIsReady
  /\ ExchangeIsCounted
  /\ ReceiptMatchesWire

FaultSticks ==
  state = "desynchronized" /\ state' # "desynchronized" => ~linkOpen'

\* A desynchronized session becomes usable only through a closed link.
FaultIsSticky == [][FaultSticks]_vars

StaysSilent == state # "ready" => toController' \subseteq toController

\* Nothing is sent unless the session is ready.
SilentUnlessReady == [][StaysSilent]_vars

AnswerStays ==
  (HandshakeEvent /\ Input.kind # "data" /\ Input # LivenessUnit)
    => /\ Input.ex = exch /\ Input.pkt = completed + 1
       /\ Input.att = attempt

\* Every control the handshake takes was caused by the transmission it is taken
\* for ("keeps ACKs and replies associated with the request that caused them").
AnswersStayWithTheirPacket == [][AnswerStays]_vars

\* The same of the setups where answers can be paired.
PairedAnswersStay == [][CanBePaired => AnswerStays]_vars

\* An acknowledgement or reply timeout leaves the session desynchronized.
TimeoutFaultsSession ==
  (pc = "idle" /\ result = "timeout") => state = "desynchronized"

\* An operation that has begun ends, however long the controller keeps talking.
OperationEnds == (pc # "idle") ~> (pc = "idle")

=============================================================================
