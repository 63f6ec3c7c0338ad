--------------------------- MODULE SessionPairing ---------------------------
(***************************************************************************)
(* Why ControllerSession can pair answers with packets although the wire   *)
(* has no identifiers: what is in flight in each phase of an operation.    *)
(***************************************************************************)
EXTENDS ControllerSessionContract

\* Transmissions of the packet that is due.
Answered(t) == t.ex = exch /\ t.pkt = completed + 1

\* Transmissions that are in flight or were accepted.
Sent == toController \cup accepted

\* Every packet is sent at most once more than it is lost or refused, after all
\* its predecessors, and accepted at most once.
SentInv ==
  /\ \A t, u \in Sent : t.ex = u.ex /\ t.pkt = u.pkt => t = u
  /\ toController \cap accepted = {}
  /\ \A t \in Sent : t.pkt >= 1 /\ t.ex <= exch
                     /\ (t.ex = exch => t.pkt <= completed + 1)
  /\ \A t \in toController : \A p \in 1..(t.pkt - 1) :
       \E u \in Sent : u.ex = t.ex /\ u.pkt = p
  /\ \A t \in accepted : \A p \in 1..(t.pkt - 1) :
       \E u \in accepted : u.ex = t.ex /\ u.pkt = p
  /\ \A t \in toController, u \in accepted : t.ex = u.ex => u.pkt < t.pkt

\* Over an acknowledging link only the current packet is in flight, and those
\* counted were accepted; a serial line loses nothing.
CountedInv ==
  /\ Acknowledged => \A t \in toController : Answered(t)
  /\ \A p \in 1..completed :
       \E u \in (IF Acknowledged THEN accepted ELSE Sent) :
         u.ex = exch /\ u.pkt = p
  /\ pc \in {"preflight", "send", "settle", "reply", "replySettle", "decode"} =>
       \A t \in Sent : ~Answered(t)

\* What the session's fields say of the link and the operation.
LinkInv ==
  /\ ~linkOpen => received = <<>>
  /\ (state = "ready" \/ pc = "drain") => BuffersEmpty
  /\ pc # "idle" => op \in Operations
  /\ pc \in {"linkOpen", "drain", "openCleanup"} => op \in {"open", "probe"}
  /\ InExchange => exch >= 1
  /\ pc = "handshake" => Acknowledged
  /\ (InExchange /\ HasReply /\ Acknowledged) => packets = 1
  /\ pc = "settle" => ~HasReply

\* CE comes unasked only where the setup says so.
LivenessInv ==
  ~(Acknowledged /\ UnsolicitedLiveness) =>
    /\ LivenessUnit \notin toHost
    /\ \A i \in 1..Len(received) : received[i] # LivenessUnit

\* Nothing is in flight that a later read could take for an answer.
QuietWire ==
  /\ Outstanding = {}
  /\ \A t \in toController : t.kind # "request"
  /\ Acknowledged => toController = {}

QuietInv ==
  /\ pc \in {"preflight", "send", "settle"} => QuietWire
  /\ (pc = "idle" /\ state = "ready") => QuietWire
  /\ pc \in {"linkOpen", "drain"} => Quiescent
  /\ (pc = "openCleanup" /\ state = "ready" /\ ~linkOpen) => Quiescent

\* No answer is in flight twice.
UnitsOnce ==
  \A i \in 1..Len(received) : received[i] # LivenessUnit =>
    /\ received[i] \notin toHost
    /\ \A j \in 1..Len(received) : received[i] = received[j] => i = j

\* The units of the reply to the current request.
ReplyUnit(i) == [kind |-> "data", ex |-> exch, pkt |-> i, att |-> 0]
ReplyUnitOf(m) == \E i \in 0..ReplyUnits : m = ReplyUnit(i)

\* An undecodable reply is one unit.
OneReply(m, n) == (m.pkt = 0) <=> (n.pkt = 0)

\* While a packet waits for its handshake it is in flight, or its answers are, or
\* nothing is; a refused packet was not accepted, and any other answer proves
\* that it was.
HandshakeInv ==
  pc = "handshake" =>
    /\ UnitsOnce
    /\ toController \subseteq {CurrentPacket}
    /\ toController # {} => Outstanding = {}
    /\ \A m \in Outstanding :
         \/ /\ m.kind = "data" /\ ReplyUnitOf(m) /\ HasReply
            /\ \E t \in accepted : Answered(t)
         \/ /\ m.kind # "data"
            /\ m.ex = exch /\ m.pkt = completed + 1 /\ m.att = attempt
            /\ \/ m.kind \in {"nak", "err"} /\ ~ \E t \in accepted : Answered(t)
               \/ m.kind \in {"ack", "alive"} /\ \E t \in accepted : Answered(t)
    /\ \A m, n \in Outstanding :
         /\ m.kind # "data" /\ n.kind # "data" => m = n
         /\ m.kind = "data" /\ n.kind = "data" => OneReply(m, n)
         /\ m.kind = "data" /\ DataAcknowledges => n.kind = "data"

\* While a reply is collected, its request is in flight, or the rest of it is.
ReplyInv ==
  pc \in {"reply", "replySettle", "decode"} =>
    /\ HasReply /\ completed = packets
    /\ UnitsOnce
    /\ Acknowledged => toController = {}
    /\ \A t \in toController : t.kind = "request" =>
         t.ex = exch /\ t.pkt = packets /\ Outstanding = {} /\ units = <<>>
    /\ \A m \in Outstanding : ReplyUnitOf(m)
    /\ \A i \in 1..Len(units) : ReplyUnitOf(units[i]) /\ units[i] \notin Outstanding
    /\ \A m, n \in Outstanding : OneReply(m, n)
    /\ \A m \in Outstanding, i \in 1..Len(units) : OneReply(m, units[i])

\* What was reported of the last operation.
ReportInv ==
  /\ result = "rejected" => Acknowledged
  /\ (pc \in {"idle", "openCleanup"} /\ result = "rejected" /\ state = "ready")
       => (\A t \in Sent : t.ex # exch)
  /\ certainty = "confirmed" => Acknowledged /\ completed = packets
  /\ (pc = "idle" /\ op = "request" /\ result = "ok") =>
       \A i \in 1..Len(units) : units[i].ex = exch

\* All of it, which holds together or not at all.
Pairing ==
  /\ SentInv /\ CountedInv /\ LinkInv /\ LivenessInv /\ QuietInv
  /\ HandshakeInv /\ ReplyInv /\ ReportInv

\* Every answer in flight belongs to the packet or the request that waits for it,
\* or no operation can take it for one.
PairingInv == CanBePaired => Pairing

=============================================================================
