------------------------ MODULE SessionPairingProofs ------------------------
(***************************************************************************)
(* Theorems about the session for every setup of the client and its world, *)
(* and about which answer belongs to which packet for those in which that  *)
(* can be told (CanBePaired).                                              *)
(*                                                                         *)
(* TypeCorrect needs nothing but the assumption on setups.  The theorems   *)
(* about ControllerSession rest on PhaseInv, which says in which state of  *)
(* the session each phase of an operation can be.                          *)
(*                                                                         *)
(* PairingInv is inductive with TypeOK and SessionInv.  Its parts lean on  *)
(* each other: what a read hands out is known from HandshakeInv and        *)
(* ReplyInv, which need a quiet wire at each send (QuietInv), which needs  *)
(* that each packet was sent once (SentInv, CountedInv).                   *)
(*                                                                         *)
(* The last part proves that the session then implements ExchangeContract  *)
(* over an acknowledging link: each step of the session is one step of the *)
(* contract, or none.                                                      *)
(***************************************************************************)
EXTENDS SessionPairing, FiniteSetTheorems, TLAPS

-----------------------------------------------------------------------------
(* Type correctness.                                                       *)

\* What the proofs use of a setup.
LEMMA SetupTyped ==
  ASSUME FlagsTypeOK
  PROVE  /\ ReplyUnits \in Nat \ {0}
         /\ MaxPackets \in Nat \ {0}
         /\ Operations \subseteq PublicOperation
<1>1. setup \in Setup
  BY SetupsAssumption DEF FlagsTypeOK, SetupsAssumption
<1> QED
  BY <1>1 DEF Setup, ReplyUnits, MaxPackets, Operations

\* The unit a read hands out, and the queue it leaves, keep their types.
LEMMA ReadTyped ==
  ASSUME received \in Seq(Unit), received # <<>>
  PROVE  Head(received) \in Unit /\ Tail(received) \in Seq(Unit)
OBVIOUS

\* A packet that is sent is a transmission.
LEMMA CurrentPacketTyped ==
  ASSUME ProgressTypeOK
  PROVE  CurrentPacket \in Transmission
BY DEF ProgressTypeOK, CurrentPacket, Transmission

\* Everything the controller sends is a unit.
LEMMA ControllerUnitsTyped ==
  ASSUME FlagsTypeOK, NEW t \in Transmission
  PROVE  /\ \A code \in {"ack", "nak", "err", "alive"} :
              Control(code, t) \in Unit
         /\ \A reply \in Replies(t) : reply \subseteq Unit
         /\ \A reply \in Replies(t) : \A answer \in Acknowledgements(t, reply) :
              answer \subseteq Unit
         /\ LivenessUnit \in Unit
<1>1. \A i \in 0..ReplyUnits : Datum(t, i) \in Unit
  BY SetupTyped DEF Transmission, Unit, Datum
<1>2. \A code \in {"ack", "nak", "err", "alive"} : Control(code, t) \in Unit
  BY DEF Transmission, Unit, Control
<1>3. \A reply \in Replies(t) : reply \subseteq Unit
  BY <1>1, SetupTyped DEF Replies
<1>4. \A reply \in Replies(t) : \A answer \in Acknowledgements(t, reply) :
        answer \subseteq Unit
  BY <1>2 DEF Acknowledgements
<1>5. LivenessUnit \in Unit
  BY DEF LivenessUnit, Unit
<1> QED
  BY <1>2, <1>3, <1>4, <1>5

\* The initial states have their types.
LEMMA InitTyped == Init => TypeOK
<1> SUFFICES ASSUME Init PROVE TypeOK
  OBVIOUS
<1>0. FlagsTypeOK
  BY Zenon DEF Init, FlagsTypeOK
<1>1. SessionTypeOK
  BY DEF Init, SessionTypeOK, SessionState, Phase, PublicOperation, Result,
         DeliveryCertainty
<1>2. ProgressTypeOK
  BY DEF Init, ProgressTypeOK
<1>3. WireTypeOK
  <2>1. StaleAck \in Unit
    BY DEF StaleAck, Unit
  <2>2. received = <<>> \/ received = <<StaleAck>>
    BY DEF Init
  <2>3. received \in Seq(Unit)
    <3>1. <<StaleAck>> \in Seq(Unit)
      BY <2>1
    <3>2. <<>> \in Seq(Unit)
      OBVIOUS
    <3> QED
      BY <2>2, <3>1, <3>2
  <2>4. /\ toController = {} /\ toHost = {} /\ duplicates = 0
        /\ accepted = {} /\ onWire = 0
    BY DEF Init
  <2> QED
    BY <2>3, <2>4 DEF WireTypeOK
<1> QED
  BY <1>0, <1>1, <1>2, <1>3 DEF TypeOK

\* Calls of public operations keep the types.
LEMMA CallerTyped == TypeOK /\ Caller => TypeOK'
<1> SUFFICES ASSUME TypeOK, Caller PROVE TypeOK'
  OBVIOUS
<1> USE DEF TypeOK, FlagsTypeOK, SessionTypeOK, ProgressTypeOK, WireTypeOK,
            SessionState, Phase, PublicOperation, Result, DeliveryCertainty,
            session, call, progress, wait, report, network, history
<1>1. ASSUME NEW o \in Operations, OpenCall(o) PROVE TypeOK'
  BY <1>1, SetupTyped DEF OpenCall
<1>2. ASSUME NEW o \in Operations, NEW n \in 1..MaxPackets, StartExchange(o, n)
      PROVE  TypeOK'
  <2>1. FlagsTypeOK'
    BY <1>2, Zenon DEF StartExchange, EnterExchange
  <2>2. SessionTypeOK' /\ WireTypeOK'
    BY <1>2, SetupTyped DEF StartExchange, EnterExchange
  <2>3. ProgressTypeOK'
    BY <1>2, SetupTyped DEF StartExchange, EnterExchange, FirstAttempt
  <2> QED
    BY <2>1, <2>2, <2>3 DEF TypeOK
<1>3. CASE CloseCall
  <2>1. FlagsTypeOK'
    BY <1>3 DEF CloseCall
  <2>2. SessionTypeOK'
    BY <1>3 DEF CloseCall, StateAfterFailure
  <2>3. ProgressTypeOK' /\ WireTypeOK'
    BY <1>3 DEF CloseCall
  <2> QED
    BY <2>1, <2>2, <2>3 DEF TypeOK
<1>4. CASE Refuse
  BY <1>4 DEF Refuse
<1> QED
  BY <1>1, <1>2, <1>3, <1>4 DEF Caller

\* Opening a session keeps the types.
LEMMA OpeningTyped == TypeOK /\ Opening => TypeOK'
<1> SUFFICES ASSUME TypeOK, Opening PROVE TypeOK'
  OBVIOUS
<1> USE DEF TypeOK, FlagsTypeOK, SessionTypeOK, ProgressTypeOK, WireTypeOK,
            SessionState, Phase, PublicOperation, Result, DeliveryCertainty,
            session, call, progress, wait, report, network, history
<1>1. CASE OpenLink
  BY <1>1 DEF OpenLink
<1>2. CASE DrainUnit
  BY <1>2, ReadTyped DEF DrainUnit, Read
<1>3. CASE DrainOverflow
  BY <1>3, ReadTyped DEF DrainOverflow, Read
<1>4. CASE DrainDone
  <2>1. CASE op = "probe" /\ Acknowledged
    <3>1. EnterExchange(1) /\ state' = "ready"
          /\ UNCHANGED <<setup, linkOpen, inbound, replyBuffer, op, openedHere,
                         network, result>>
      BY <1>4, <2>1 DEF DrainDone
    <3>2. FlagsTypeOK'
      BY <3>1, Zenon DEF EnterExchange
    <3>3. SessionTypeOK' /\ WireTypeOK'
      BY <3>1 DEF EnterExchange
    <3>4. ProgressTypeOK'
      BY <3>1 DEF EnterExchange, FirstAttempt
    <3> QED
      BY <3>2, <3>3, <3>4 DEF TypeOK
  <2>2. CASE ~(op = "probe" /\ Acknowledged)
    <3>1. state' = "ready" /\ pc' = "idle" /\ result' = "ok"
          /\ UNCHANGED <<setup, linkOpen, inbound, replyBuffer, op, openedHere,
                         network, certainty, progress, wait, history>>
      BY <1>4, <2>2 DEF DrainDone
    <3> QED
      BY <3>1
  <2> QED
    BY <2>1, <2>2
<1>5. CASE OpenCleanup
  <2>1. FlagsTypeOK'
    BY <1>5 DEF OpenCleanup
  <2>2. SessionTypeOK'
    BY <1>5 DEF OpenCleanup, StateAfterFailure
  <2>3. ProgressTypeOK' /\ WireTypeOK'
    BY <1>5 DEF OpenCleanup
  <2> QED
    BY <2>1, <2>2, <2>3 DEF TypeOK
<1> QED
  BY <1>1, <1>2, <1>3, <1>4, <1>5 DEF Opening

\* Completing a packet keeps the types, with or without a buffered reply unit.
LEMMA CompletePacketTyped ==
  ASSUME TypeOK, NEW buffered \in Seq(Unit), CompletePacket(buffered),
         WireTypeOK', reads' \in Nat, transmissions' \in Nat
  PROVE  TypeOK'
<1> USE DEF TypeOK, FlagsTypeOK, SessionTypeOK, ProgressTypeOK, CompletePacket,
            report
<1>1. FlagsTypeOK'
  OBVIOUS
<1>2. pc' \in {"settle", "send", "replySettle", "reply"}
  OBVIOUS
<1>3. SessionTypeOK'
  BY <1>2 DEF Phase
<1>4. ProgressTypeOK'
  BY DEF FirstAttempt
<1> QED
  BY <1>1, <1>3, <1>4

\* Sending a packet keeps the types.
LEMMA TransmitTyped == TypeOK /\ Transmit => TypeOK'
<1> SUFFICES ASSUME TypeOK, Transmit PROVE TypeOK'
  OBVIOUS
<1>1. toController' \subseteq Transmission
  BY CurrentPacketTyped DEF Transmit, TypeOK, WireTypeOK
<1>2. WireTypeOK' /\ transmissions' \in Nat /\ reads' \in Nat
  BY <1>1 DEF Transmit, CountTransmission, TypeOK, WireTypeOK, ProgressTypeOK
<1>3. CASE Acknowledged
  <2>1. /\ pc' = "handshake" /\ expired' = FALSE
        /\ UNCHANGED <<session, op, openedHere, exch, packets, completed,
                       attempt, units, report>>
    BY <1>3 DEF Transmit
  <2>2. FlagsTypeOK'
    BY <2>1, Zenon DEF TypeOK, FlagsTypeOK, session
  <2>3. SessionTypeOK' /\ ProgressTypeOK'
    BY <1>2, <2>1
    DEF TypeOK, SessionTypeOK, ProgressTypeOK, Phase, session, report
  <2> QED
    BY <1>2, <2>2, <2>3 DEF TypeOK
<1>4. CASE ~Acknowledged
  <2>1. CompletePacket(<<>>)
    BY <1>4 DEF Transmit
  <2>2. <<>> \in Seq(Unit)
    OBVIOUS
  <2>3. \E buffered \in Seq(Unit) : CompletePacket(buffered)
    BY <2>1, <2>2
  <2> QED
    BY <1>2, <2>3, CompletePacketTyped
<1> QED
  BY <1>3, <1>4

\* An acknowledgement, by a control or by data, keeps the types.
LEMMA AcknowledgementTyped ==
  ASSUME TypeOK, HandshakeEvent,
         CompletePacket(<<>>) \/ CompletePacket(<<Input>>)
  PROVE  TypeOK'
<1>1. <<Input>> \in Seq(Unit) /\ received' \in Seq(Unit)
  BY ReadTyped DEF TypeOK, WireTypeOK, HandshakeEvent, Read, Input
<1>2. WireTypeOK' /\ reads' \in Nat /\ transmissions' \in Nat
  BY <1>1
  DEF TypeOK, WireTypeOK, ProgressTypeOK, HandshakeEvent, Read, history
<1>3. \E buffered \in Seq(Unit) : CompletePacket(buffered)
  <2>1. <<>> \in Seq(Unit)
    OBVIOUS
  <2> QED
    BY <1>1, <2>1
<1> QED
  BY <1>2, <1>3, CompletePacketTyped

\* Input that a no-reply exchange does not expect keeps the types.
LEMMA HandshakeUnexpectedTyped == TypeOK /\ HandshakeUnexpected => TypeOK'
<1> SUFFICES ASSUME TypeOK, HandshakeUnexpected PROVE TypeOK'
  OBVIOUS
<1> DEFINE done == IF DataAcknowledges THEN completed + 1 ELSE completed
<1>1. <<Input>> \in Seq(Unit) /\ received' \in Seq(Unit)
  BY ReadTyped
  DEF TypeOK, WireTypeOK, HandshakeUnexpected, HandshakeEvent, Read, Input
<1>2. /\ Fail("unexpected", done)
      /\ replyBuffer' = IF DataAcknowledges THEN <<Input>> ELSE replyBuffer
      /\ UNCHANGED <<inbound, expired, units>>
  BY DEF HandshakeUnexpected
<1>3. done \in Nat
  BY DEF TypeOK, ProgressTypeOK
<1> HIDE DEF done
<1>4. FlagsTypeOK'
  BY <1>2 DEF TypeOK, FlagsTypeOK, Fail, Raise
<1>5. SessionTypeOK'
  BY <1>1, <1>2
  DEF TypeOK, SessionTypeOK, SessionState, Phase, Result, DeliveryCertainty,
      Fail, Raise, CertaintyAfter, StateAfterFailure
<1>6. ProgressTypeOK'
  BY <1>2, <1>3
  DEF TypeOK, ProgressTypeOK, HandshakeUnexpected, HandshakeEvent, Fail, Raise
<1>7. WireTypeOK'
  BY <1>1
  DEF TypeOK, WireTypeOK, HandshakeUnexpected, HandshakeEvent, Read, history
<1> QED
  BY <1>4, <1>5, <1>6, <1>7 DEF TypeOK

\* Sending packets and waiting for their handshakes keeps the types.
LEMMA SendingTyped == TypeOK /\ Sending => TypeOK'
<1> SUFFICES ASSUME TypeOK, Sending PROVE TypeOK'
  OBVIOUS
<1> USE DEF TypeOK, FlagsTypeOK, SessionTypeOK, ProgressTypeOK, WireTypeOK,
            SessionState, Phase, PublicOperation, Result, DeliveryCertainty,
            session, call, progress, wait, report, network, history,
            Raise, CertaintyAfter, StateAfterFailure, Read, HandshakeEvent
<1>1. CASE PreflightClean
  BY <1>1 DEF PreflightClean
<1>2. CASE PreflightStale
  BY <1>2, ReadTyped DEF PreflightStale
<1>3. CASE Transmit
  BY <1>3, TransmitTyped
<1>4. CASE HandshakeAccept
  BY <1>4, AcknowledgementTyped DEF HandshakeAccept
<1>5. CASE HandshakeRetry
  BY <1>5, ReadTyped DEF HandshakeRetry
<1>6. CASE HandshakeReject
  BY SMTT(40), <1>6, ReadTyped DEF HandshakeReject, Reject, StateAfterRejection
<1>7. CASE HandshakeLiveness
  BY <1>7, ReadTyped DEF HandshakeLiveness
<1>8. CASE HandshakeData
  BY <1>8, AcknowledgementTyped DEF HandshakeData
<1>9. CASE HandshakeUnexpected
  BY <1>9, HandshakeUnexpectedTyped
<1>10. CASE HandshakeOverflow
  BY <1>10, ReadTyped DEF HandshakeOverflow, Fail
<1>11. CASE HandshakeTimeout
  BY <1>11 DEF HandshakeTimeout, Fail
<1>12. CASE SettleQuiet
  BY <1>12 DEF SettleQuiet, Succeed
<1>13. CASE SettleUnexpected
  BY <1>13, ReadTyped DEF SettleUnexpected, Fail
<1> QED
  BY <1>1, <1>2, <1>3, <1>4, <1>5, <1>6, <1>7, <1>8, <1>9, <1>10, <1>11,
     <1>12, <1>13
  DEF Sending

\* Collecting and decoding a reply keeps the types.
LEMMA ReplyingTyped == TypeOK /\ Replying => TypeOK'
<1> SUFFICES ASSUME TypeOK, Replying PROVE TypeOK'
  OBVIOUS
<1> USE DEF TypeOK, FlagsTypeOK, SessionTypeOK, ProgressTypeOK, WireTypeOK,
            SessionState, Phase, PublicOperation, Result, DeliveryCertainty,
            session, call, progress, wait, report, network, history,
            Fail, Raise, CertaintyAfter, StateAfterFailure, Read, ReplyEvent
<1>1. CASE ReplyLiveness
  BY <1>1, ReadTyped DEF ReplyLiveness
<1>2. CASE ReplyData
  BY <1>2, ReadTyped DEF ReplyData, Input
<1>3. CASE ReplyUnexpected
  BY <1>3, ReadTyped DEF ReplyUnexpected
<1>4. CASE ReplyIdleGap
  BY <1>4 DEF ReplyIdleGap
<1>5. CASE ReplyTimeout
  BY <1>5 DEF ReplyTimeout
<1>6. CASE ReplySettleQuiet
  BY <1>6 DEF ReplySettleQuiet
<1>7. CASE ReplySettleExcess
  BY <1>7, ReadTyped DEF ReplySettleExcess
<1>8. CASE Decode
  BY <1>8 DEF Decode, Succeed
<1>9. CASE DecodeMismatch
  BY <1>9 DEF DecodeMismatch
<1> QED
  BY <1>1, <1>2, <1>3, <1>4, <1>5, <1>6, <1>7, <1>8, <1>9 DEF Replying

\* Faults and interrupts keep the types.
LEMMA FaultTyped == TypeOK /\ Fault => TypeOK'
<1> SUFFICES ASSUME TypeOK, Fault PROVE TypeOK'
  OBVIOUS
<1> USE DEF TypeOK, FlagsTypeOK, SessionTypeOK, ProgressTypeOK, WireTypeOK,
            SessionState, Phase, PublicOperation, Result, DeliveryCertainty,
            session, call, progress, wait, report, network, history,
            Raise, CertaintyAfter, StateAfterFailure
<1>1. CASE SendFault
  BY <1>1, CurrentPacketTyped DEF SendFault, LinkFault
<1>2. CASE ReceiveFault
  BY <1>2 DEF ReceiveFault, LinkFault
<1>3. CASE ReceiveInterrupted
  BY <1>3, ReadTyped DEF ReceiveInterrupted, Read, Input, Fail
<1>4. CASE PreflightFault
  BY <1>4 DEF PreflightFault
<1>5. CASE OpenFault
  <2>1. FlagsTypeOK'
    BY <1>5 DEF OpenFault
  <2>2. SessionTypeOK' /\ ProgressTypeOK' /\ WireTypeOK'
    BY <1>5 DEF OpenFault
  <2> QED
    BY <2>1, <2>2 DEF TypeOK
<1> QED
  BY <1>1, <1>2, <1>3, <1>4, <1>5 DEF Fault

\* Time, the network and the controller keep the types.
LEMMA EnvironmentTyped == TypeOK /\ Environment => TypeOK'
<1> SUFFICES ASSUME TypeOK, Environment PROVE TypeOK'
  OBVIOUS
<1> USE DEF TypeOK, FlagsTypeOK, SessionTypeOK, ProgressTypeOK, WireTypeOK,
            session, call, progress, wait, report, network, history, client
<1>1. CASE Tick
  BY <1>1 DEF Tick
<1>2. CASE ControllerAlive
  <2>1. LivenessUnit \in Unit
    BY DEF LivenessUnit, Unit
  <2> QED
    BY <1>2, <2>1 DEF ControllerAlive
<1>3. ASSUME NEW m \in toHost, Arrive(m) PROVE TypeOK'
  BY <1>3 DEF Arrive, TakeFrom
<1>4. ASSUME NEW m \in toHost, LoseUnit(m) PROVE TypeOK'
  BY <1>4 DEF LoseUnit
<1>5. ASSUME NEW t \in toController, LosePacket(t) PROVE TypeOK'
  BY <1>5 DEF LosePacket
<1>6. ASSUME NEW t \in toController, ControllerAccepts(t) PROVE TypeOK'
  <2>1. t \in Transmission
    OBVIOUS
  <2>2. toHost' \subseteq Unit
    BY <1>6, <2>1, ControllerUnitsTyped DEF ControllerAccepts
  <2>3. accepted' \subseteq Transmission
    BY <1>6, <2>1 DEF ControllerAccepts
  <2>4. duplicates' \in Nat /\ toController' \subseteq Transmission
    BY <1>6, <2>1 DEF ControllerAccepts, TakeFrom
  <2>5. UNCHANGED <<client, received>>
    BY <1>6 DEF ControllerAccepts
  <2> QED
    BY <2>2, <2>3, <2>4, <2>5
<1>7. ASSUME NEW t \in toController, ControllerRefuses(t) PROVE TypeOK'
  <2>1. t \in Transmission
    OBVIOUS
  <2>2. toHost' \subseteq Unit
    BY <1>7, <2>1, ControllerUnitsTyped DEF ControllerRefuses
  <2>3. duplicates' \in Nat /\ toController' \subseteq Transmission
    BY <1>7, <2>1 DEF ControllerRefuses, TakeFrom
  <2>4. UNCHANGED <<client, received, accepted>>
    BY <1>7 DEF ControllerRefuses
  <2> QED
    BY <2>2, <2>3, <2>4
<1> QED
  BY <1>1, <1>2, <1>3, <1>4, <1>5, <1>6, <1>7 DEF Environment

\* In every behaviour every variable stays in its range, whatever the limits,
\* the reply policy, the handshake profile and the operations called.
THEOREM TypeCorrect == Spec => []TypeOK
<1>1. TypeOK /\ [Next]_vars => TypeOK'
  <2> SUFFICES ASSUME TypeOK, [Next]_vars PROVE TypeOK'
    OBVIOUS
  <2>1. CASE UNCHANGED vars
    BY <2>1
    DEF TypeOK, FlagsTypeOK, SessionTypeOK, ProgressTypeOK, WireTypeOK, vars,
        session, call, progress, wait, report, network, history
  <2> QED
    BY <2>1, CallerTyped, OpeningTyped, SendingTyped, ReplyingTyped,
       FaultTyped, EnvironmentTyped
    DEF Next, Progress
<1> QED
  BY InitTyped, <1>1, PTL DEF Spec

-----------------------------------------------------------------------------
(* The phases of an operation.                                             *)

\* The counts of an exchange are natural numbers.
LEMMA CountsTyped ==
  ASSUME TypeOK
  PROVE  /\ packets \in Nat /\ completed \in Nat
         /\ transmissions \in Nat /\ onWire \in Nat
BY DEF TypeOK, ProgressTypeOK, WireTypeOK

\* Calls of public operations preserve SessionInv.
LEMMA CallerKeepsInv == TypeOK /\ SessionInv /\ Caller => SessionInv'
<1> SUFFICES ASSUME TypeOK, SessionInv, Caller PROVE SessionInv'
  OBVIOUS
<1> USE CountsTyped DEF SessionInv, OpeningIsNotFaulted, ExchangeIsReady,
    ExchangeIsCounted, ReceiptMatchesWire, InExchange,
    session, call, progress, report, history
<1>1. ASSUME NEW o \in Operations, OpenCall(o) PROVE SessionInv'
  BY <1>1 DEF OpenCall, Openable
<1>2. ASSUME NEW o \in Operations, NEW n \in 1..MaxPackets, StartExchange(o, n)
      PROVE  SessionInv'
  BY <1>2, SetupTyped DEF TypeOK, StartExchange, EnterExchange, Ready
<1>3. CASE CloseCall
  BY <1>3 DEF CloseCall
<1>4. CASE Refuse
  BY <1>4 DEF Refuse
<1> QED
  BY <1>1, <1>2, <1>3, <1>4 DEF Caller

\* Opening a session preserves SessionInv.
LEMMA OpeningKeepsInv == TypeOK /\ SessionInv /\ Opening => SessionInv'
<1> SUFFICES ASSUME TypeOK, SessionInv, Opening PROVE SessionInv'
  OBVIOUS
<1> USE CountsTyped DEF SessionInv, OpeningIsNotFaulted, ExchangeIsReady,
    ExchangeIsCounted, ReceiptMatchesWire, InExchange,
    session, call, progress, report, history
<1>1. CASE OpenLink
  BY <1>1 DEF OpenLink
<1>2. CASE DrainUnit
  BY <1>2 DEF DrainUnit
<1>3. CASE DrainOverflow
  BY <1>3 DEF DrainOverflow
<1>4. CASE DrainDone
  BY <1>4 DEF DrainDone, EnterExchange
<1>5. CASE OpenCleanup
  BY <1>5 DEF OpenCleanup
<1> QED
  BY <1>1, <1>2, <1>3, <1>4, <1>5 DEF Opening

\* Sending packets and waiting for their handshakes preserves SessionInv.
LEMMA SendingKeepsInv == TypeOK /\ SessionInv /\ Sending => SessionInv'
<1> SUFFICES ASSUME TypeOK, SessionInv, Sending PROVE SessionInv'
  OBVIOUS
<1> USE CountsTyped DEF SessionInv, OpeningIsNotFaulted, ExchangeIsReady,
    ExchangeIsCounted, ReceiptMatchesWire, InExchange,
    session, call, progress, report, history, 
    Raise, CertaintyAfter, StateAfterFailure, HandshakeEvent
<1>1. CASE PreflightClean
  BY <1>1 DEF PreflightClean
<1>2. CASE PreflightStale
  BY <1>2 DEF PreflightStale
<1>3. CASE Transmit
  <2>1. /\ pc = "send" /\ transmissions' = transmissions + 1
        /\ onWire' = onWire + 1
    BY <1>3 DEF Transmit, CountTransmission
  <2>2. CASE Acknowledged
    BY <1>3, <2>1, <2>2 DEF Transmit
  <2>3. CASE ~Acknowledged
    <3>1. CompletePacket(<<>>)
      BY <1>3, <2>3 DEF Transmit
    <3> QED
      BY <2>1, <3>1 DEF CompletePacket
  <2> QED
    BY <2>2, <2>3
<1>4. CASE HandshakeAccept
  BY <1>4 DEF HandshakeAccept, CompletePacket
<1>5. CASE HandshakeRetry
  BY <1>5 DEF HandshakeRetry
<1>6. CASE HandshakeReject
  BY <1>6 DEF HandshakeReject, Reject, StateAfterRejection
<1>7. CASE HandshakeLiveness
  BY <1>7 DEF HandshakeLiveness
<1>8. CASE HandshakeData
  BY <1>8 DEF HandshakeData, CompletePacket
<1>9. CASE HandshakeUnexpected
  BY <1>9 DEF HandshakeUnexpected, Fail
<1>10. CASE HandshakeOverflow
  BY <1>10 DEF HandshakeOverflow, Fail
<1>11. CASE HandshakeTimeout
  BY <1>11 DEF HandshakeTimeout, Fail
<1>12. CASE SettleQuiet
  <2>1. CASE completed = packets
    BY <1>12, <2>1 DEF SettleQuiet, Succeed
  <2>2. CASE completed # packets
    <3>1. /\ pc = "settle" /\ pc' = "send"
          /\ UNCHANGED <<session, op, openedHere, progress, report, history>>
      BY <1>12, <2>2 DEF SettleQuiet
    <3> QED
      BY <2>2, <3>1
  <2> QED
    BY <2>1, <2>2
<1>13. CASE SettleUnexpected
  BY <1>13 DEF SettleUnexpected, Fail
<1> QED
  BY <1>1, <1>2, <1>3, <1>4, <1>5, <1>6, <1>7, <1>8, <1>9, <1>10, <1>11,
     <1>12, <1>13
  DEF Sending

\* Collecting and decoding a reply preserves SessionInv.
LEMMA ReplyingKeepsInv == TypeOK /\ SessionInv /\ Replying => SessionInv'
<1> SUFFICES ASSUME TypeOK, SessionInv, Replying PROVE SessionInv'
  OBVIOUS
<1> USE CountsTyped DEF SessionInv, OpeningIsNotFaulted, ExchangeIsReady,
    ExchangeIsCounted, ReceiptMatchesWire, InExchange,
    session, call, progress, report, history, 
    Raise, CertaintyAfter, StateAfterFailure, Fail, ReplyEvent
<1>1. CASE ReplyLiveness
  BY <1>1 DEF ReplyLiveness
<1>2. CASE ReplyData
  BY <1>2 DEF ReplyData
<1>3. CASE ReplyUnexpected
  BY <1>3 DEF ReplyUnexpected
<1>4. CASE ReplyIdleGap
  BY <1>4 DEF ReplyIdleGap
<1>5. CASE ReplyTimeout
  BY <1>5 DEF ReplyTimeout
<1>6. CASE ReplySettleQuiet
  BY <1>6 DEF ReplySettleQuiet
<1>7. CASE ReplySettleExcess
  BY <1>7 DEF ReplySettleExcess
<1>8. CASE Decode
  BY <1>8 DEF Decode, Succeed
<1>9. CASE DecodeMismatch
  BY <1>9 DEF DecodeMismatch
<1> QED
  BY <1>1, <1>2, <1>3, <1>4, <1>5, <1>6, <1>7, <1>8, <1>9
  DEF Replying

\* Faults and interrupts preserve SessionInv.
LEMMA FaultKeepsInv == TypeOK /\ SessionInv /\ Fault => SessionInv'
<1> SUFFICES ASSUME TypeOK, SessionInv, Fault PROVE SessionInv'
  OBVIOUS
<1> USE CountsTyped DEF SessionInv, OpeningIsNotFaulted, ExchangeIsReady,
    ExchangeIsCounted, ReceiptMatchesWire, InExchange,
    session, call, progress, report, history, 
    Raise, CertaintyAfter, StateAfterFailure
<1>1. CASE SendFault
  BY <1>1 DEF SendFault, LinkFault
<1>2. CASE ReceiveFault
  BY <1>2 DEF ReceiveFault, LinkFault
<1>3. CASE ReceiveInterrupted
  BY <1>3 DEF ReceiveInterrupted, Fail
<1>4. CASE PreflightFault
  BY <1>4 DEF PreflightFault
<1>5. CASE OpenFault
  BY <1>5 DEF OpenFault
<1> QED
  BY <1>1, <1>2, <1>3, <1>4, <1>5
  DEF Fault

\* Time, the network and the controller preserve SessionInv: they leave alone
\* everything it speaks of.
LEMMA EnvironmentKeepsInv == SessionInv /\ Environment => SessionInv'
<1> SUFFICES ASSUME SessionInv, Environment PROVE SessionInv'
  OBVIOUS
<1>1. UNCHANGED <<session, call, progress, report, onWire>>
  <2> USE DEF client, history
  <2>1. CASE Tick
    BY <2>1 DEF Tick
  <2>2. CASE ControllerAlive
    BY <2>2 DEF ControllerAlive
  <2>3. CASE \E m \in toHost : Arrive(m) \/ LoseUnit(m)
    BY <2>3 DEF Arrive, LoseUnit
  <2>4. CASE \E t \in toController :
               LosePacket(t) \/ ControllerAccepts(t) \/ ControllerRefuses(t)
    BY <2>4 DEF LosePacket, ControllerAccepts, ControllerRefuses
  <2> QED
    BY <2>1, <2>2, <2>3, <2>4 DEF Environment
<1> QED
  BY <1>1
  DEF SessionInv, OpeningIsNotFaulted, ExchangeIsReady, ExchangeIsCounted,
      ReceiptMatchesWire, InExchange, session, call, progress, report

\* In every reachable state the phase of the operation agrees with the
\* session's state and with what its exchange has counted.
THEOREM PhasesAgree == Spec => []SessionInv
<1>1. Init => SessionInv
  BY DEF Init, SessionInv, OpeningIsNotFaulted, ExchangeIsReady,
         ExchangeIsCounted, ReceiptMatchesWire, InExchange
<1>2. TypeOK /\ SessionInv /\ [Next]_vars => SessionInv'
  <2> SUFFICES ASSUME TypeOK, SessionInv, [Next]_vars PROVE SessionInv'
    OBVIOUS
  <2>1. CASE UNCHANGED vars
    BY <2>1
    DEF SessionInv, OpeningIsNotFaulted, ExchangeIsReady, ExchangeIsCounted,
        ReceiptMatchesWire, InExchange, vars, session, call, progress, report,
        history
  <2> QED
    BY <2>1, CallerKeepsInv, OpeningKeepsInv, SendingKeepsInv,
       ReplyingKeepsInv, FaultKeepsInv, EnvironmentKeepsInv
    DEF Next, Progress
<1> QED
  BY TypeCorrect, <1>1, <1>2, PTL DEF Spec

\* receipt.transmissions counts every packet that reached the wire but for at
\* most one whose send failed, and then the delivery is called unknown.
THEOREM ReceiptsMatchTheWire == Spec => []ReceiptMatchesWire
<1>1. SessionInv => ReceiptMatchesWire
  BY DEF SessionInv
<1> QED
  BY PhasesAgree, <1>1, PTL

-----------------------------------------------------------------------------
(* What a step may never do.                                               *)

\* The client's steps belong to the phases of an operation.
LEMMA StepsHavePhases ==
  /\ Sending \/ Replying => InExchange
  /\ Fault => InExchange \/ pc \in {"linkOpen", "drain"}
<1> USE DEF InExchange
<1>1. Sending => InExchange
  BY DEF Sending, PreflightClean, PreflightStale, Transmit, HandshakeEvent,
         HandshakeAccept, HandshakeRetry, HandshakeReject, HandshakeLiveness,
         HandshakeData, HandshakeUnexpected, HandshakeOverflow,
         HandshakeTimeout, SettleQuiet, SettleUnexpected
<1>2. Replying => InExchange
  BY DEF Replying, ReplyEvent, ReplyLiveness, ReplyData, ReplyUnexpected,
         ReplyIdleGap, ReplyTimeout, ReplySettleQuiet, ReplySettleExcess,
         Decode, DecodeMismatch
<1>3. Fault => InExchange \/ pc \in {"linkOpen", "drain"}
  BY DEF Fault, SendFault, ReceiveFault, ReceiveInterrupted, PreflightFault,
         OpenFault
<1> QED
  BY <1>1, <1>2, <1>3

\* The environment changes nothing of the session, and sends nothing for it.
LEMMA EnvironmentIsOutside ==
  Environment => UNCHANGED session /\ toController' \subseteq toController
<1> USE DEF client, network
<1>1. CASE Tick
  BY <1>1 DEF Tick
<1>2. CASE ControllerAlive
  BY <1>2 DEF ControllerAlive
<1>3. CASE \E m \in toHost : Arrive(m) \/ LoseUnit(m)
  BY <1>3 DEF Arrive, LoseUnit
<1>4. CASE \E t \in toController :
             LosePacket(t) \/ ControllerAccepts(t) \/ ControllerRefuses(t)
  BY <1>4 DEF LosePacket, ControllerAccepts, ControllerRefuses, TakeFrom
<1> QED
  BY <1>1, <1>2, <1>3, <1>4 DEF Environment

\* A step that leads out of "desynchronized" leaves the link closed.
LEMMA FaultIsStickyStep ==
  ASSUME SessionInv, Next, state = "desynchronized", state' # "desynchronized"
  PROVE  ~linkOpen'
<1>1. ~(Sending \/ Replying \/ Fault) /\ pc \notin {"linkOpen", "drain"}
  BY StepsHavePhases DEF SessionInv, OpeningIsNotFaulted, ExchangeIsReady
<1>2. CASE Environment
  BY <1>2, EnvironmentIsOutside DEF session
<1>3. CASE Caller
  <2> USE DEF session
  <2>1. CASE \E o \in Operations : OpenCall(o)
    BY <2>1 DEF OpenCall
  <2>2. CASE \E o \in Operations, n \in 1..MaxPackets : StartExchange(o, n)
    BY <2>2 DEF StartExchange
  <2>3. CASE CloseCall
    BY <2>3 DEF CloseCall, StateAfterFailure
  <2>4. CASE Refuse
    BY <2>4 DEF Refuse
  <2> QED
    BY <1>3, <2>1, <2>2, <2>3, <2>4 DEF Caller
<1>4. CASE Opening
  <2>1. OpenCleanup
    BY <1>1, <1>4 DEF Opening, OpenLink, DrainUnit, DrainOverflow, DrainDone
  <2> QED
    BY <2>1 DEF OpenCleanup, StateAfterFailure
<1> QED
  BY <1>1, <1>2, <1>3, <1>4 DEF Next, Progress

\* No step, no fault and no call takes a desynchronized session back into use
\* while its link is open.
THEOREM FaultsAreSticky == Spec => FaultIsSticky
<1>1. SessionInv /\ [Next]_vars => [FaultSticks]_vars
  BY FaultIsStickyStep DEF FaultSticks
<1> QED
  BY PhasesAgree, <1>1, PTL DEF Spec, FaultIsSticky

\* A step of a session that is not ready sends nothing.
LEMMA SilentStep ==
  ASSUME SessionInv, Next, state # "ready"
  PROVE  toController' \subseteq toController
<1>1. ~(Sending \/ Replying) /\ ~InExchange
  BY StepsHavePhases DEF SessionInv, ExchangeIsReady
<1>2. CASE Environment
  BY <1>2, EnvironmentIsOutside
<1>3. CASE Caller
  BY <1>3 DEF Caller, OpenCall, StartExchange, CloseCall, Refuse, network
<1>4. CASE Opening
  BY <1>4 DEF Opening, OpenLink, DrainUnit, DrainOverflow, DrainDone,
              OpenCleanup, Read, network
<1>5. CASE Fault
  <2>1. OpenFault
    BY <1>1, <1>5
    DEF Fault, SendFault, ReceiveFault, ReceiveInterrupted, PreflightFault,
        InExchange
  <2> QED
    BY <2>1 DEF OpenFault
<1> QED
  BY <1>1, <1>2, <1>3, <1>4, <1>5 DEF Next, Progress

\* Nothing is sent in a session that is closed or desynchronized, not even by
\* a step that faults it.
THEOREM NothingSentUnlessReady == Spec => SilentUnlessReady
<1>1. SessionInv /\ [Next]_vars => [StaysSilent]_vars
  BY SilentStep DEF StaysSilent
<1> QED
  BY PhasesAgree, <1>1, PTL DEF Spec, SilentUnlessReady

-----------------------------------------------------------------------------
(* Which answer belongs to which packet.                                   *)

\* Phases in which the packet that is due was not sent, or was counted.
Unsent == {"preflight", "send", "settle", "reply", "replySettle", "decode"}

\* The steps that change what was sent, accepted or counted.
LEMMA SentFrame ==
  ASSUME TypeOK, Next
  PROVE  \/ /\ UNCHANGED <<toController, accepted, exch, completed>>
            /\ pc' \in Unsent => pc \in Unsent
         \/ HandshakeRetry \/ HandshakeAccept \/ HandshakeData
         \/ HandshakeUnexpected
         \/ /\ \E n : EnterExchange(n)
            /\ UNCHANGED toController
            /\ (pc = "idle" /\ state = "ready") \/ pc = "drain"
         \/ Transmit \/ SendFault
         \/ \E t \in toController :
              LosePacket(t) \/ ControllerAccepts(t) \/ ControllerRefuses(t)
<1> USE DEF session, call, progress, wait, report, network, history, client,
            Unsent
<1>1. CASE Caller
  BY <1>1 DEF Caller, OpenCall, StartExchange, CloseCall, Refuse, Ready
<1>2. CASE Opening
  BY <1>2 DEF Opening, OpenLink, DrainUnit, DrainOverflow, DrainDone,
              OpenCleanup, Read
<1>3. CASE Sending
  <2> USE DEF HandshakeEvent, Read, Fail, Raise, CompletePacket
  <2>1. CASE PreflightClean \/ PreflightStale
    BY <2>1 DEF PreflightClean, PreflightStale
  <2>3. CASE HandshakeReject \/ HandshakeLiveness
    BY <2>3 DEF HandshakeReject, HandshakeLiveness, Reject
  <2>4. CASE HandshakeOverflow \/ HandshakeTimeout
    BY <2>4 DEF HandshakeOverflow, HandshakeTimeout
  <2>5. CASE SettleQuiet \/ SettleUnexpected
    BY <2>5 DEF SettleQuiet, SettleUnexpected, Succeed
  <2> QED
    BY <1>3, <2>1, <2>3, <2>4, <2>5 DEF Sending
<1>4. CASE Replying
  <2> USE DEF ReplyEvent, Read, Fail, Raise
  <2>1. CASE ReplyLiveness \/ ReplyData \/ ReplyUnexpected
    BY <2>1 DEF ReplyLiveness, ReplyData, ReplyUnexpected
  <2>2. CASE ReplyIdleGap \/ ReplyTimeout \/ ReplySettleQuiet \/ ReplySettleExcess
    BY <2>2 DEF ReplyIdleGap, ReplyTimeout, ReplySettleQuiet, ReplySettleExcess
  <2>3. CASE Decode \/ DecodeMismatch
    BY <2>3 DEF Decode, DecodeMismatch, Succeed
  <2> QED
    BY <1>4, <2>1, <2>2, <2>3 DEF Replying
<1>5. CASE Fault
  BY <1>5 DEF Fault, ReceiveFault, ReceiveInterrupted, PreflightFault,
              OpenFault, LinkFault, Fail, Raise, Read
<1>6. CASE Environment
  BY <1>6 DEF Environment, Tick, ControllerAlive, Arrive, LoseUnit
<1> QED
  BY <1>1, <1>2, <1>3, <1>4, <1>5, <1>6 DEF Next, Progress

\* A client keeps its setup.
LEMMA SetupKept == Next => setup' = setup
<1> USE DEF session, call, progress, wait, report, network, history, client
<1>1. Caller => setup' = setup
  BY DEF Caller, OpenCall, StartExchange, CloseCall, Refuse
<1>2. Opening => setup' = setup
  BY DEF Opening, OpenLink, DrainUnit, DrainOverflow, DrainDone, OpenCleanup
<1>3. Sending => setup' = setup
  BY DEF Sending, PreflightClean, PreflightStale, Transmit, HandshakeAccept,
         HandshakeRetry, HandshakeReject, HandshakeLiveness, HandshakeData,
         HandshakeUnexpected, HandshakeOverflow, HandshakeTimeout, SettleQuiet,
         SettleUnexpected, CompletePacket, Fail, Reject, Succeed
<1>4. Replying => setup' = setup
  BY DEF Replying, ReplyLiveness, ReplyData, ReplyUnexpected, ReplyIdleGap,
         ReplyTimeout, ReplySettleQuiet, ReplySettleExcess, Decode,
         DecodeMismatch, Fail, Succeed
<1>5. Fault => setup' = setup
  BY DEF Fault, SendFault, ReceiveFault, ReceiveInterrupted, PreflightFault,
         OpenFault, LinkFault, Fail
<1>6. Environment => setup' = setup
  BY DEF Environment, Tick, ControllerAlive, Arrive, LoseUnit, LosePacket,
         ControllerAccepts, ControllerRefuses
<1> QED
  BY <1>1, <1>2, <1>3, <1>4, <1>5, <1>6 DEF Next, Progress

\* With no datagram delivered twice, what is delivered leaves the network.
LEMMA Delivered ==
  ASSUME TypeOK, CanBePaired, NEW m, TakeFrom(toHost, m)
  PROVE  toHost' = toHost \ {m} /\ UNCHANGED duplicates
BY DEF CanBePaired, TakeFrom, TypeOK, WireTypeOK

\* The same of what the controller takes.
LEMMA Taken ==
  ASSUME TypeOK, CanBePaired, NEW t, TakeFrom(toController, t)
  PROVE  toController' = toController \ {t} /\ UNCHANGED duplicates
BY DEF CanBePaired, TakeFrom, TypeOK, WireTypeOK

\* A new transmission of the current packet keeps SentInv.
LEMMA NewTransmission ==
  ASSUME TypeOK, Pairing, pc = "send",
         UNCHANGED <<accepted, exch>>,
         completed' \in {completed, completed + 1},
         toController' = toController \cup {CurrentPacket}
  PROVE  SentInv'
<1> DEFINE T == CurrentPacket
<1>1. T \in Transmission /\ T.ex = exch /\ T.pkt = completed + 1
  BY CurrentPacketTyped DEF CurrentPacket, TypeOK
<1>2. completed \in Nat /\ exch \in Nat /\ Sent \subseteq Transmission
  BY DEF TypeOK, ProgressTypeOK, WireTypeOK, Sent
<1>3. Sent' = Sent \cup {T}
  BY DEF Sent
<1>4. \A t \in Sent : ~(t.ex = exch /\ t.pkt = completed + 1)
  BY DEF Pairing, CountedInv, Answered
<1>5. \A p \in 1..completed : \E u \in Sent : u.ex = exch /\ u.pkt = p
  BY DEF Pairing, CountedInv, Sent
<1>6. SentInv
  BY DEF Pairing
<1> HIDE DEF T
<1>7. \A t, u \in Sent' : t.ex = u.ex /\ t.pkt = u.pkt => t = u
  BY <1>1, <1>3, <1>4, <1>6 DEF SentInv
<1>8. (toController \cap accepted)' = {}
  BY <1>1, <1>3, <1>4, <1>6 DEF SentInv, Sent, T
<1>9. \A t \in Sent' : t.pkt >= 1 /\ t.ex <= exch'
                       /\ (t.ex = exch' => t.pkt <= completed' + 1)
  BY <1>1, <1>2, <1>3, <1>6 DEF SentInv, Transmission
<1>10. \A t \in toController' : \A p \in 1..(t.pkt - 1) :
         \E u \in Sent' : u.ex = t.ex /\ u.pkt = p
  <2>1. \A p \in 1..(T.pkt - 1) : \E u \in Sent : u.ex = T.ex /\ u.pkt = p
    BY <1>1, <1>2, <1>5
  <2> QED
    BY <2>1, <1>3, <1>6 DEF SentInv, T
<1>11. \A t \in accepted' : \A p \in 1..(t.pkt - 1) :
         \E u \in accepted' : u.ex = t.ex /\ u.pkt = p
  BY <1>6 DEF SentInv
<1>12. \A t \in toController', u \in accepted' : t.ex = u.ex => u.pkt < t.pkt
  <2>1. \A u \in accepted : u.ex = exch => u.pkt < completed + 1
    BY <1>2, <1>4, <1>6 DEF SentInv, Sent, Transmission
  <2> QED
    BY <2>1, <1>1, <1>6 DEF SentInv, T
<1> QED
  BY <1>7, <1>8, <1>9, <1>10, <1>11, <1>12 DEF SentInv

\* Whatever happens, packets are sent and accepted in order, each once.
LEMMA SentKept ==
  ASSUME TypeOK, SessionInv, CanBePaired, Pairing, Next
  PROVE  SentInv'
<1>1. completed \in Nat /\ exch \in Nat /\ Sent \subseteq Transmission
  BY DEF TypeOK, ProgressTypeOK, WireTypeOK, Sent
<1>2. SentInv
  BY DEF Pairing
<1>3. ASSUME UNCHANGED <<toController, accepted, exch>>,
             completed' \in {completed, completed + 1}
      PROVE  SentInv'
  BY <1>1, <1>2, <1>3 DEF SentInv, Sent, Transmission
<1>4. ASSUME NEW n, EnterExchange(n), UNCHANGED toController
      PROVE  SentInv'
  BY <1>1, <1>2, <1>4 DEF SentInv, Sent, Transmission, EnterExchange
<1>5. CASE Transmit
  BY <1>5, NewTransmission
  DEF Transmit, CompletePacket
<1>6. CASE SendFault
  <2>1. pc = "send" /\ UNCHANGED <<accepted, exch, completed>>
    BY <1>6 DEF SendFault, LinkFault, Raise
  <2> QED
    BY <1>3, <1>6, <2>1, NewTransmission DEF SendFault
<1>7. ASSUME NEW t \in toController, Acknowledged,
             toController' = toController \ {t},
             UNCHANGED <<accepted, exch, completed>>
      PROVE  SentInv'
  <2>1. toController = {t}
    BY <1>2, <1>7 DEF Pairing, CountedInv, Answered, SentInv, Sent
  <2> QED
    BY <1>1, <1>2, <1>7, <2>1 DEF SentInv, Sent
<1>8. ASSUME NEW t \in toController, ControllerAccepts(t)
      PROVE  SentInv'
  <2>1. /\ toController' = toController \ {t} /\ accepted' = accepted \cup {t}
        /\ UNCHANGED <<exch, completed>>
    BY <1>8, Taken DEF ControllerAccepts, client, progress
  <2>2. Sent' = Sent
    BY <2>1 DEF Sent
  <2>3. \A n \in toController \ {t} : t.ex = n.ex => t.pkt < n.pkt
    <3> SUFFICES ASSUME NEW n \in toController \ {t}, t.ex = n.ex
                 PROVE  t.pkt < n.pkt
      OBVIOUS
    <3>1. t.pkt # n.pkt
      BY <1>2 DEF SentInv, Sent
    <3>2. ~Acknowledged
      BY <3>1 DEF Pairing, CountedInv, Answered
    <3>3. t.ex < n.ex \/ t.pkt <= n.pkt
      BY <1>8, <3>2 DEF ControllerAccepts, InOrder
    <3> QED
      BY <1>1, <3>1, <3>3 DEF Sent, Transmission
  <2>4. \A p \in 1..(t.pkt - 1) : \E u \in accepted : u.ex = t.ex /\ u.pkt = p
    <3> SUFFICES ASSUME NEW p \in 1..(t.pkt - 1)
                 PROVE  \E u \in accepted : u.ex = t.ex /\ u.pkt = p
      OBVIOUS
    <3>1. PICK u \in Sent : u.ex = t.ex /\ u.pkt = p
      BY <1>2 DEF SentInv
    <3>2. u \notin toController
      BY <1>1, <2>3, <3>1 DEF Sent, Transmission
    <3> QED
      BY <3>1, <3>2 DEF Sent
  <2>5. \A v, u \in Sent' : v.ex = u.ex /\ v.pkt = u.pkt => v = u
    BY <1>2, <2>2 DEF SentInv
  <2>6. (toController \cap accepted)' = {}
    BY <1>2, <2>1 DEF SentInv
  <2>7. \A v \in Sent' : v.pkt >= 1 /\ v.ex <= exch'
                         /\ (v.ex = exch' => v.pkt <= completed' + 1)
    BY <1>2, <2>1, <2>2 DEF SentInv
  <2>8. \A v \in toController' : \A p \in 1..(v.pkt - 1) :
          \E u \in Sent' : u.ex = v.ex /\ u.pkt = p
    BY <1>2, <2>1, <2>2 DEF SentInv
  <2>9. \A v \in accepted' : \A p \in 1..(v.pkt - 1) :
          \E u \in accepted' : u.ex = v.ex /\ u.pkt = p
    BY <1>2, <2>1, <2>4 DEF SentInv
  <2>10. \A v \in toController', u \in accepted' : v.ex = u.ex => u.pkt < v.pkt
    BY <1>2, <2>1, <2>3 DEF SentInv
  <2> QED
    BY <2>5, <2>6, <2>7, <2>8, <2>9, <2>10 DEF SentInv
<1>9. ASSUME NEW t \in toController, LosePacket(t) \/ ControllerRefuses(t)
      PROVE  SentInv'
  BY <1>7, <1>9, Taken DEF LosePacket, ControllerRefuses, client, progress
<1>10. CASE \/ HandshakeRetry \/ HandshakeAccept \/ HandshakeData
            \/ HandshakeUnexpected
  BY <1>3, <1>10
  DEF HandshakeRetry, HandshakeAccept, HandshakeData, HandshakeUnexpected,
      HandshakeEvent, Read, CompletePacket, Fail, Raise, history
<1> QED
  BY <1>3, <1>4, <1>5, <1>6, <1>8, <1>9, <1>10, SentFrame

-----------------------------------------------------------------------------
(* Reading an answer.                                                      *)

\* What a read hands out was outstanding, unless it is unsolicited liveness.
LEMMA ReadOutstanding ==
  ASSUME TypeOK, Read
  PROVE  /\ Input \in Unit
         /\ Outstanding' \subseteq Outstanding
         /\ Outstanding \subseteq Outstanding' \cup {Input}
         /\ Input # LivenessUnit => Input \in Outstanding
         /\ UnitsOnce => UnitsOnce'
         /\ (UnitsOnce /\ Input # LivenessUnit) => Input \notin Outstanding'
<1>1. /\ received \in Seq(Unit) /\ received # <<>> /\ received' = Tail(received)
      /\ toHost' = toHost
  BY DEF TypeOK, WireTypeOK, Read
<1>2. /\ Input = received[1] /\ Input \in Unit /\ Len(received) \in Nat \ {0}
      /\ Len(received') = Len(received) - 1
      /\ \A i \in 1..Len(received') : received'[i] = received[i + 1]
  BY <1>1 DEF Input
<1>3. \A i \in 1..Len(received) :
        i = 1 \/ (i - 1 \in 1..Len(received') /\ received[i] = received'[i - 1])
  BY <1>1, <1>2
<1>4. \A m : m \in Outstanding <=>
        m # LivenessUnit /\ (m \in toHost \/ \E i \in 1..Len(received) : received[i] = m)
  BY DEF Outstanding
<1>5. \A m : m \in Outstanding' <=>
        m # LivenessUnit /\ (m \in toHost \/ \E i \in 1..Len(received') : received'[i] = m)
  BY <1>1 DEF Outstanding, LivenessUnit
<1>6. Outstanding' \subseteq Outstanding
  BY <1>2, <1>4, <1>5
<1>7. Outstanding \subseteq Outstanding' \cup {Input}
  BY <1>2, <1>3, <1>4, <1>5
<1>8. Input # LivenessUnit => Input \in Outstanding
  BY <1>2, <1>4
<1>9. UnitsOnce => UnitsOnce'
  BY <1>1, <1>2, <1>3 DEF UnitsOnce, LivenessUnit
<1>10. (UnitsOnce /\ Input # LivenessUnit) => Input \notin Outstanding'
  BY <1>1, <1>2, <1>5 DEF UnitsOnce
<1> QED
  BY <1>2, <1>6, <1>7, <1>8, <1>9, <1>10

\* An unsolicited CE is never the acknowledgement of a keep-alive.
LEMMA LivenessIsNoAnswer ==
  ASSUME TypeOK, CanBePaired, Pairing, InExchange, received # <<>>,
         Input = LivenessUnit
  PROVE  ~Accepts(Input)
<1>1. UnsolicitedLiveness
  BY DEF Pairing, LivenessInv, Input, TypeOK, WireTypeOK
<1>2. op \in Operations
  BY DEF Pairing, LinkInv, InExchange
<1>3. ~IsKeepAlive
  BY <1>1, <1>2 DEF CanBePaired, IsKeepAlive
<1> QED
  BY <1>3 DEF Accepts, LivenessUnit

\* What the handshake learns from an answer.
LEMMA HandshakeInput ==
  ASSUME TypeOK, CanBePaired, Pairing, HandshakeEvent, Input # LivenessUnit
  PROVE  /\ toController = {}
         /\ Input.kind \in {"nak", "err"} =>
              Outstanding' = {} /\ \A t \in Sent : ~Answered(t)
         /\ Input.kind \in {"ack", "alive", "data"} =>
              \E t \in accepted : Answered(t)
<1>1. Read /\ HandshakeInv /\ pc = "handshake"
  BY DEF HandshakeEvent, Pairing
<1>2. Input \in Outstanding /\ Input \notin Outstanding'
      /\ Outstanding' \subseteq Outstanding
  BY <1>1, ReadOutstanding DEF HandshakeInv
<1>3. toController = {}
  BY <1>1, <1>2 DEF HandshakeInv
<1>4. ASSUME Input.kind \in {"nak", "err"}
      PROVE  Outstanding' = {} /\ \A t \in Sent : ~Answered(t)
  <2>1. ~ \E t \in accepted : Answered(t)
    BY <1>1, <1>2, <1>4 DEF HandshakeInv
  <2>2. \A m \in Outstanding : m = Input
    BY <1>1, <1>2, <1>4, <2>1 DEF HandshakeInv
  <2> QED
    BY <1>2, <1>3, <2>1, <2>2 DEF Sent
<1>5. ASSUME Input.kind \in {"ack", "alive", "data"}
      PROVE  \E t \in accepted : Answered(t)
  BY <1>1, <1>2, <1>5 DEF HandshakeInv
<1> QED
  BY <1>3, <1>4, <1>5

-----------------------------------------------------------------------------
(* What each step keeps of the parts of Pairing.                           *)

\* A packet that the handshake counts was accepted, and nothing is in flight.
LEMMA HandshakeCounts ==
  ASSUME TypeOK, CanBePaired, Pairing,
         HandshakeAccept \/ HandshakeData \/ HandshakeUnexpected
  PROVE  toController = {} /\ \E t \in accepted : Answered(t)
<1>1. HandshakeEvent /\ InExchange /\ received # <<>>
  BY DEF HandshakeAccept, HandshakeData, HandshakeUnexpected, HandshakeEvent,
         InExchange, Read
<1>2. Input.kind \in {"ack", "alive", "data"}
  BY DEF HandshakeAccept, HandshakeData, HandshakeUnexpected, Accepts
<1>3. Input # LivenessUnit
  BY <1>1, LivenessIsNoAnswer
  DEF HandshakeAccept, HandshakeData, HandshakeUnexpected, LivenessUnit
<1> QED
  BY <1>1, <1>2, <1>3, HandshakeInput

\* What the client counts was accepted; what is due was not yet sent.
LEMMA CountedKept ==
  ASSUME TypeOK, SessionInv, CanBePaired, Pairing, Next
  PROVE  CountedInv'
<1>1. completed \in Nat /\ exch \in Nat /\ Sent \subseteq Transmission
  BY DEF TypeOK, ProgressTypeOK, WireTypeOK, Sent
<1>2. SentInv /\ CountedInv
  BY DEF Pairing
<1>3. Acknowledged' = Acknowledged
  BY SetupKept DEF Acknowledged
<1>4. CASE /\ UNCHANGED <<toController, accepted, exch, completed>>
           /\ pc' \in Unsent => pc \in Unsent
  BY <1>2, <1>3, <1>4 DEF CountedInv, Answered, Sent, Unsent
<1>5. CASE HandshakeRetry
  <2>1. HandshakeEvent /\ Input.kind = "nak"
        /\ UNCHANGED <<toController, accepted, exch, completed>>
    BY <1>5 DEF HandshakeRetry, HandshakeEvent, Read, history
  <2>2. toController = {} /\ \A t \in Sent : ~Answered(t)
    BY <2>1, HandshakeInput DEF LivenessUnit
  <2> QED
    BY <1>2, <1>3, <2>1, <2>2 DEF CountedInv, Answered, Sent
<1>6. CASE HandshakeAccept \/ HandshakeData \/ HandshakeUnexpected
  <2>1. /\ UNCHANGED <<toController, accepted, exch>>
        /\ \/ completed' = completed + 1
           \/ completed' = completed /\ pc' \notin Unsent
    BY <1>6 DEF HandshakeAccept, HandshakeData, HandshakeUnexpected, history,
                HandshakeEvent, Read, CompletePacket, Fail, Raise, Unsent
  <2>2. toController = {} /\ \E t \in accepted : Answered(t)
    BY <1>6, HandshakeCounts
  <2>3. Acknowledged
    BY <1>6 DEF HandshakeAccept, HandshakeData, HandshakeUnexpected,
                HandshakeEvent, Pairing, LinkInv
  <2>4. \A p \in 1..completed' : \E u \in accepted : u.ex = exch /\ u.pkt = p
    BY <1>1, <1>2, <2>1, <2>2, <2>3 DEF CountedInv, Answered
  <2>5. pc' \in Unsent => \A t \in Sent : t.ex = exch => t.pkt # completed' + 1
    BY <1>1, <1>2, <2>1 DEF SentInv, Transmission
  <2> QED
    BY <1>3, <2>1, <2>2, <2>3, <2>4, <2>5 DEF CountedInv, Answered, Sent, Unsent
<1>7. CASE /\ \E n : EnterExchange(n)
           /\ UNCHANGED toController
           /\ (pc = "idle" /\ state = "ready") \/ pc = "drain"
  <2>1. Acknowledged => toController = {}
    BY <1>7 DEF Pairing, QuietInv, QuietWire, Quiescent
  <2>2. exch' = exch + 1 /\ completed' = 0 /\ accepted' = accepted
    BY <1>7 DEF EnterExchange
  <2>3. \A t \in Sent' : t.ex # exch'
    BY <1>1, <1>2, <1>7, <2>2 DEF SentInv, Sent, Transmission
  <2> QED
    BY <1>3, <1>7, <2>1, <2>2, <2>3 DEF CountedInv, Answered
<1>8. CASE Transmit
  <2>1. /\ pc = "send" /\ UNCHANGED <<exch, accepted>>
        /\ toController' = toController \cup {CurrentPacket}
    BY <1>8 DEF Transmit, CompletePacket
  <2>2. CurrentPacket.ex = exch /\ CurrentPacket.pkt = completed + 1
    BY DEF CurrentPacket
  <2>3. CASE Acknowledged
    <3>1. toController = {} /\ pc' = "handshake" /\ completed' = completed
      BY <1>2, <1>8, <2>1, <2>3 DEF CountedInv, Sent, Transmit
    <3> QED
      BY <1>2, <1>3, <2>1, <2>2, <2>3, <3>1 DEF CountedInv, Answered
  <2>4. CASE ~Acknowledged
    <3>1. completed' = completed + 1
      BY <1>8, <2>4 DEF Transmit, CompletePacket
    <3>2. Sent' = Sent \cup {CurrentPacket}
      BY <2>1 DEF Sent
    <3>3. \A p \in 1..completed' : \E u \in Sent' : u.ex = exch /\ u.pkt = p
      BY <1>1, <1>2, <2>2, <2>4, <3>1, <3>2 DEF CountedInv
    <3>4. \A t \in Sent' : t.ex = exch => t.pkt # completed' + 1
      BY <1>1, <1>2, <2>2, <3>1, <3>2 DEF SentInv, Transmission
    <3> QED
      BY <1>3, <2>1, <2>4, <3>3, <3>4 DEF CountedInv, Answered
  <2> QED
    BY <2>3, <2>4
<1>9. CASE SendFault
  <2>1. /\ pc = "send" /\ pc' \notin Unsent /\ UNCHANGED <<exch, completed>>
        /\ accepted' = accepted
        /\ \/ toController' = toController
           \/ toController' = toController \cup {CurrentPacket}
    BY <1>9 DEF SendFault, LinkFault, Raise, Unsent
  <2>2. CurrentPacket.ex = exch /\ CurrentPacket.pkt = completed + 1
    BY DEF CurrentPacket
  <2> QED
    BY <1>2, <1>3, <2>1, <2>2 DEF CountedInv, Answered, Sent, Unsent
<1>10. ASSUME NEW t \in toController, LosePacket(t) \/ ControllerRefuses(t)
       PROVE  CountedInv'
  <2>1. /\ Acknowledged /\ toController' = toController \ {t}
        /\ UNCHANGED <<accepted, exch, completed, pc>>
    BY <1>10, Taken DEF LosePacket, ControllerRefuses, client, progress, call
  <2> QED
    BY <1>2, <1>3, <2>1 DEF CountedInv, Answered, Sent
<1>11. ASSUME NEW t \in toController, ControllerAccepts(t)
       PROVE  CountedInv'
  <2>1. /\ toController' = toController \ {t} /\ accepted' = accepted \cup {t}
        /\ UNCHANGED <<exch, completed, pc>>
    BY <1>11, Taken DEF ControllerAccepts, client, progress, call
  <2>2. Sent' = Sent
    BY <2>1 DEF Sent
  <2> QED
    BY <1>2, <1>3, <2>1, <2>2 DEF CountedInv, Answered
<1> QED
  BY <1>4, <1>5, <1>6, <1>7, <1>8, <1>9, <1>10, <1>11, SentFrame

\* The session's fields keep agreeing with the link and the operation.
LEMMA LinkKept ==
  ASSUME TypeOK, SessionInv, CanBePaired, Pairing, Next
  PROVE  LinkInv'
<1> USE DEF LinkInv, InExchange, HasReply, BuffersEmpty, Acknowledged,
            Operations, session, call, progress, wait, report, network,
            history, client
<1>0. /\ LinkInv /\ exch \in Nat /\ setup' = setup /\ SessionInv
      /\ completed \in Nat /\ packets \in Nat /\ linkOpen \in BOOLEAN
  BY SetupKept DEF Pairing, TypeOK, ProgressTypeOK, FlagsTypeOK
<1>1. CASE Caller
  <2>1. ASSUME NEW o \in Operations, OpenCall(o) PROVE LinkInv'
    BY <1>0, <2>1 DEF OpenCall
  <2>2. ASSUME NEW o \in Operations, NEW n \in 1..MaxPackets, StartExchange(o, n)
        PROVE  LinkInv'
    BY <1>0, <2>2 DEF StartExchange, EnterExchange, Ready
  <2>3. CASE CloseCall
    BY <1>0, <2>3 DEF CloseCall, StateAfterFailure
  <2>4. CASE Refuse
    BY <1>0, <2>4 DEF Refuse
  <2> QED
    BY <1>1, <2>1, <2>2, <2>3, <2>4 DEF Caller
<1>2. CASE Opening
  <2>1. CASE OpenLink
    BY <1>0, <2>1 DEF OpenLink
  <2>2. CASE DrainUnit \/ DrainOverflow
    BY <1>0, <2>2 DEF DrainUnit, DrainOverflow, Read, SessionInv,
                      OpeningIsNotFaulted
  <2>3. CASE DrainDone
    BY <1>0, <2>3 DEF DrainDone, EnterExchange
  <2>4. CASE OpenCleanup
    <3>1. ~linkOpen' => received' = <<>>
      BY <2>4 DEF OpenCleanup
    <3>2. state' = "ready" => state = "ready" /\ UNCHANGED <<inbound, replyBuffer>>
      BY <1>0, <2>4 DEF OpenCleanup, StateAfterFailure
    <3>3. pc' = "idle"
      BY <2>4 DEF OpenCleanup
    <3> QED
      BY <1>0, <3>1, <3>2, <3>3
  <2> QED
    BY <1>2, <2>1, <2>2, <2>3, <2>4 DEF Opening
<1>3. CASE Sending
  <2> USE DEF HandshakeEvent, Read, Fail, Raise, SessionInv, ExchangeIsReady,
              StateAfterFailure
  <2>1. CASE PreflightClean \/ PreflightStale
    BY <1>0, <2>1 DEF PreflightClean, PreflightStale
  <2>2. CASE Transmit
    <3>1. CASE Acknowledged
      BY <1>0, <2>2, <3>1 DEF Transmit
    <3>2. CASE ~Acknowledged
      BY <1>0, <2>2, <3>2 DEF Transmit, CompletePacket
    <3> QED
      BY <3>1, <3>2
  <2>3. CASE HandshakeAccept \/ HandshakeData
    BY <1>0, <2>3 DEF HandshakeAccept, HandshakeData, CompletePacket
  <2>4. CASE HandshakeRetry \/ HandshakeReject \/ HandshakeLiveness
    BY <1>0, <2>4 DEF HandshakeRetry, HandshakeReject, HandshakeLiveness, Reject
  <2>5. CASE HandshakeUnexpected \/ HandshakeOverflow \/ HandshakeTimeout
    BY <1>0, <2>5 DEF HandshakeUnexpected, HandshakeOverflow, HandshakeTimeout
  <2>6. CASE SettleQuiet \/ SettleUnexpected
    BY <1>0, <2>6 DEF SettleQuiet, SettleUnexpected, Succeed
  <2> QED
    BY <1>3, <2>1, <2>2, <2>3, <2>4, <2>5, <2>6 DEF Sending
<1>4. CASE Replying
  <2> USE DEF ReplyEvent, Read, Fail, Raise, SessionInv, ExchangeIsReady,
              StateAfterFailure
  <2>1. CASE ReplyLiveness \/ ReplyData \/ ReplyUnexpected
    BY <1>0, <2>1 DEF ReplyLiveness, ReplyData, ReplyUnexpected
  <2>2. CASE ReplyIdleGap \/ ReplyTimeout \/ ReplySettleQuiet \/ ReplySettleExcess
    BY <1>0, <2>2
    DEF ReplyIdleGap, ReplyTimeout, ReplySettleQuiet, ReplySettleExcess
  <2>3. CASE Decode \/ DecodeMismatch
    BY <1>0, <2>3 DEF Decode, DecodeMismatch, Succeed
  <2> QED
    BY <1>4, <2>1, <2>2, <2>3 DEF Replying
<1>5. CASE Fault
  <2> USE DEF LinkFault, Fail, Raise, Read, SessionInv, ExchangeIsReady,
              StateAfterFailure
  <2>1. CASE SendFault
    BY <1>0, <2>1 DEF SendFault
  <2>2. CASE ReceiveFault
    BY <1>0, <2>2 DEF ReceiveFault
  <2>3. CASE ReceiveInterrupted \/ PreflightFault
    BY <1>0, <2>3 DEF ReceiveInterrupted, PreflightFault
  <2>4. CASE OpenFault
    BY <1>0, <2>4 DEF OpenFault
  <2> QED
    BY <1>5, <2>1, <2>2, <2>3, <2>4 DEF Fault
<1>6. CASE Environment
  BY <1>0, <1>6
  DEF Environment, Tick, ControllerAlive, Arrive, LoseUnit, LosePacket,
      ControllerAccepts, ControllerRefuses
<1> QED
  BY <1>1, <1>2, <1>3, <1>4, <1>5, <1>6 DEF Next, Progress

\* What the client's steps and the environment's leave of the wire.
LEMMA WireFrame ==
  ASSUME TypeOK, CanBePaired, Pairing, Next
  PROVE  \/ UNCHANGED <<toHost, received>>
         \/ Read
         \/ toHost' = toHost /\ received' = <<>>
         \/ \E m \in toHost : Arrive(m) \/ LoseUnit(m)
         \/ ControllerAlive
         \/ \E t \in toController : ControllerAccepts(t) \/ ControllerRefuses(t)
<1> USE DEF session, call, progress, wait, report, network, history, client
<1>1. CASE Caller
  BY <1>1 DEF Caller, OpenCall, StartExchange, CloseCall, Refuse
<1>2. CASE Opening
  BY <1>2 DEF Opening, OpenLink, DrainUnit, DrainOverflow, DrainDone,
              OpenCleanup
<1>3. CASE Sending
  BY <1>3
  DEF Sending, PreflightClean, PreflightStale, Transmit, HandshakeEvent,
      HandshakeAccept, HandshakeRetry, HandshakeReject, HandshakeLiveness,
      HandshakeData, HandshakeUnexpected, HandshakeOverflow,
      HandshakeTimeout, SettleQuiet, SettleUnexpected
<1>4. CASE Replying
  BY <1>4
  DEF Replying, ReplyEvent, ReplyLiveness, ReplyData, ReplyUnexpected,
      ReplyIdleGap, ReplyTimeout, ReplySettleQuiet, ReplySettleExcess,
      Decode, DecodeMismatch
<1>5. CASE Fault
  BY <1>5 DEF Fault, SendFault, ReceiveFault, ReceiveInterrupted,
              PreflightFault, OpenFault
<1>6. CASE Environment
  BY <1>6 DEF Environment, Tick, LosePacket
<1> QED
  BY <1>1, <1>2, <1>3, <1>4, <1>5, <1>6 DEF Next, Progress

\* A unit that arrives joins the end of the queue of an open link.
LEMMA ArriveFrame ==
  ASSUME TypeOK, CanBePaired, NEW m \in toHost, Arrive(m)
  PROVE  /\ toHost' = toHost \ {m}
         /\ UNCHANGED <<client, toController, accepted>>
         /\ \/ received' = received
            \/ /\ Len(received') = Len(received) + 1
               /\ Len(received) \in Nat
               /\ received'[Len(received) + 1] = m
               /\ \A i \in 1..Len(received) : received'[i] = received[i]
<1>1. received \in Seq(Unit) /\ m \in Unit
  BY DEF TypeOK, WireTypeOK
<1> QED
  BY <1>1, Delivered DEF Arrive

\* Only the controller's own liveness brings a unit that answers nothing.
LEMMA LivenessKept ==
  ASSUME TypeOK, SessionInv, CanBePaired, Pairing, Next
  PROVE  LivenessInv'
<1>1. /\ LivenessInv /\ SentInv /\ setup' = setup
      /\ received \in Seq(Unit) /\ toController \subseteq Transmission
  BY SetupKept DEF Pairing, TypeOK, WireTypeOK
<1>2. LivenessUnit' = LivenessUnit
  BY DEF LivenessUnit
<1> USE DEF LivenessInv, Acknowledged, UnsolicitedLiveness
<1>3. CASE UNCHANGED <<toHost, received>>
  BY <1>1, <1>2, <1>3
<1>4. CASE Read
  BY <1>1, <1>2, <1>4 DEF Read
<1>5. CASE toHost' = toHost /\ received' = <<>>
  BY <1>1, <1>2, <1>5
<1>6. ASSUME NEW m \in toHost, Arrive(m) PROVE LivenessInv'
  BY <1>1, <1>2, <1>6, ArriveFrame
<1>7. ASSUME NEW m \in toHost, LoseUnit(m) PROVE LivenessInv'
  BY <1>1, <1>2, <1>7 DEF LoseUnit
<1>8. CASE ControllerAlive
  BY <1>1, <1>8 DEF ControllerAlive
<1>9. ASSUME NEW t \in toController, ControllerAccepts(t) PROVE LivenessInv'
  <2>1. t.pkt >= 1 /\ t.pkt # 0
    BY <1>1 DEF SentInv, Sent, Transmission
  <2>2. \A i : Datum(t, i) # LivenessUnit
    BY DEF Datum, LivenessUnit
  <2>3. \A code : Control(code, t) # LivenessUnit
    BY <2>1 DEF Control, LivenessUnit
  <2> QED
    BY <1>1, <1>2, <1>9, <2>2, <2>3
    DEF ControllerAccepts, Replies, Acknowledgements
<1>10. ASSUME NEW t \in toController, ControllerRefuses(t) PROVE LivenessInv'
  <2>1. Control("nak", t) # LivenessUnit /\ Control("err", t) # LivenessUnit
    BY DEF Control, LivenessUnit
  <2> QED
    BY <1>1, <1>2, <1>10, <2>1 DEF ControllerRefuses
<1> QED
  BY <1>3, <1>4, <1>5, <1>6, <1>7, <1>8, <1>9, <1>10, WireFrame

-----------------------------------------------------------------------------
(* Answers in flight.                                                      *)

\* Membership in Outstanding, before and after a step.
LEMMA OutstandingIs ==
  /\ \A m : m \in Outstanding <=>
       /\ m # LivenessUnit
       /\ m \in toHost \/ \E i \in 1..Len(received) : received[i] = m
  /\ \A m : m \in Outstanding' <=>
       /\ m # LivenessUnit
       /\ m \in toHost' \/ \E i \in 1..Len(received') : received'[i] = m
BY DEF Outstanding, LivenessUnit

\* An arrival moves a unit from the network to the queue.
LEMMA ArriveOutstanding ==
  ASSUME TypeOK, CanBePaired, NEW m \in toHost, Arrive(m)
  PROVE  Outstanding' \subseteq Outstanding /\ (UnitsOnce => UnitsOnce')
<1>1. toHost' = toHost \ {m}
  BY ArriveFrame
<1>2. CASE received' = received
  BY <1>1, <1>2, OutstandingIs DEF UnitsOnce, LivenessUnit
<1>3. CASE /\ Len(received') = Len(received) + 1
           /\ Len(received) \in Nat
           /\ received'[Len(received) + 1] = m
           /\ \A i \in 1..Len(received) : received'[i] = received[i]
  <2>1. \A i \in 1..Len(received') :
          i \in 1..Len(received) \/ (i = Len(received) + 1 /\ received'[i] = m)
    BY <1>3
  <2>2. Outstanding' \subseteq Outstanding
    BY <1>1, <1>3, <2>1, OutstandingIs
  <2>3. UnitsOnce => UnitsOnce'
    BY <1>1, <1>3, <2>1 DEF UnitsOnce, LivenessUnit
  <2> QED
    BY <2>2, <2>3
<1> QED
  BY <1>2, <1>3, ArriveFrame

\* A loss or unsolicited liveness adds no answer.
LEMMA LossOutstanding ==
  ASSUME ControllerAlive \/ \E m \in toHost : LoseUnit(m)
  PROVE  Outstanding' \subseteq Outstanding /\ (UnitsOnce => UnitsOnce')
<1>1. CASE ControllerAlive
  BY <1>1, OutstandingIs DEF ControllerAlive, UnitsOnce, LivenessUnit
<1>2. CASE \E m \in toHost : LoseUnit(m)
  BY <1>2, OutstandingIs DEF LoseUnit, UnitsOnce, LivenessUnit
<1> QED
  BY <1>1, <1>2

\* While no answer is outstanding, none is in flight twice.
LEMMA NothingTwice == Outstanding = {} => UnitsOnce
BY OutstandingIs DEF UnitsOnce

\* A decoded reply took every unit of the reply.
LEMMA WholeReply ==
  ASSUME TypeOK, ReplyInv, pc = "decode", DeclaredReply(units)
  PROVE  Outstanding = {} /\ \A t \in toController : t.kind # "request"
<1>1. ReplyUnits \in Nat \ {0} /\ Len(units) = ReplyUnits /\ units # <<>>
  BY SetupTyped DEF TypeOK, DeclaredReply
<1>2. \A t \in toController : t.kind # "request"
  BY <1>1 DEF ReplyInv
<1>3. ASSUME NEW m \in Outstanding PROVE FALSE
  <2>1. PICK i \in 0..ReplyUnits : m = ReplyUnit(i)
    BY DEF ReplyInv, ReplyUnitOf
  <2>2. 1 \in 1..Len(units) /\ units[1].pkt = 1
    BY <1>1 DEF DeclaredReply
  <2>3. m.pkt # 0
    BY <2>2 DEF ReplyInv, OneReply
  <2>4. i \in 1..Len(units)
    BY <1>1, <2>1, <2>3 DEF ReplyUnit
  <2>5. units[i].pkt = i /\ units[i] \notin Outstanding
    BY <2>4 DEF ReplyInv, DeclaredReply
  <2>6. PICK j \in 0..ReplyUnits : units[i] = ReplyUnit(j)
    BY <2>4 DEF ReplyInv, ReplyUnitOf
  <2>7. i = j
    BY <2>5, <2>6 DEF ReplyUnit
  <2> QED
    BY <2>1, <2>5, <2>6, <2>7
<1> QED
  BY <1>2, <1>3

\* What an accepted packet leaves in flight, and what it cannot.
LEMMA AcceptOutstanding ==
  ASSUME TypeOK, CanBePaired, NEW t \in toController, ControllerAccepts(t)
  PROVE  /\ toController' = toController \ {t}
         /\ accepted' = accepted \cup {t}
         /\ UNCHANGED <<client, received>>
         /\ \E reply \in Replies(t) : \E answer \in Acknowledgements(t, reply) :
              /\ toHost' = toHost \cup reply \cup answer
              /\ Outstanding' \subseteq Outstanding \cup reply \cup answer
BY Taken, OutstandingIs DEF ControllerAccepts

\* A serial line answers nothing but a request.
LEMMA SerialAccepts ==
  ASSUME TypeOK, CanBePaired, NEW t \in toController, ControllerAccepts(t),
         ~Acknowledged, t.kind # "request"
  PROVE  Outstanding' \subseteq Outstanding
<1>1. Replies(t) = {{}} /\ \A reply : Acknowledgements(t, reply) = {{}}
  BY DEF Replies, Acknowledgements
<1> QED
  BY <1>1, AcceptOutstanding

\* A step of the environment keeps a quiet wire quiet.
LEMMA EnvironmentQuiet ==
  ASSUME TypeOK, CanBePaired, Environment
  PROVE  /\ UNCHANGED <<pc, state, linkOpen, setup>>
         /\ QuietWire => QuietWire'
         /\ Quiescent => Quiescent'
<1>0. Acknowledged' = Acknowledged /\ LivenessUnit' = LivenessUnit
      /\ UNCHANGED <<pc, state, linkOpen, setup>>
  BY DEF Environment, Tick, ControllerAlive, Arrive, LoseUnit, LosePacket,
         ControllerAccepts, ControllerRefuses, client, session, call,
         Acknowledged, LivenessUnit
<1> USE DEF QuietWire, Quiescent
<1>1. CASE Tick
  BY <1>0, <1>1, OutstandingIs DEF Tick, network
<1>2. CASE ControllerAlive
  BY <1>0, <1>2, LossOutstanding DEF ControllerAlive
<1>3. ASSUME NEW m \in toHost, Arrive(m)
      PROVE (QuietWire => QuietWire') /\ (Quiescent => Quiescent')
  BY <1>0, <1>3, ArriveOutstanding, ArriveFrame
<1>4. ASSUME NEW m \in toHost, LoseUnit(m)
      PROVE (QuietWire => QuietWire') /\ (Quiescent => Quiescent')
  BY <1>0, <1>4, LossOutstanding DEF LoseUnit
<1>5. ASSUME NEW t \in toController, LosePacket(t)
      PROVE (QuietWire => QuietWire') /\ (Quiescent => Quiescent')
  BY <1>0, <1>5, OutstandingIs DEF LosePacket
<1>6. ASSUME NEW t \in toController, ControllerAccepts(t)
      PROVE (QuietWire => QuietWire') /\ (Quiescent => Quiescent')
  BY <1>0, <1>6, SerialAccepts, AcceptOutstanding
<1>7. ASSUME NEW t \in toController, ControllerRefuses(t)
      PROVE (QuietWire => QuietWire') /\ (Quiescent => Quiescent')
  BY <1>0, <1>7 DEF ControllerRefuses
<1> QED
  BY <1>0, <1>1, <1>2, <1>3, <1>4, <1>5, <1>6, <1>7 DEF Environment

\* The answers that a handshake leaves behind it.
LEMMA HandshakeLeaves ==
  ASSUME TypeOK, CanBePaired, Pairing, HandshakeEvent, Input # LivenessUnit,
         Input.kind = "data" => DataAcknowledges
  PROVE  /\ \A m \in Outstanding' : m.kind = "data" /\ HasReply
         /\ Input.kind \in {"nak", "err"} => Outstanding' = {}
<1>1. Read /\ HandshakeInv /\ pc = "handshake"
  BY DEF HandshakeEvent, Pairing
<1>2. Input \in Outstanding /\ Input \notin Outstanding'
      /\ Outstanding' \subseteq Outstanding
  BY <1>1, ReadOutstanding DEF HandshakeInv
<1>3. \A m \in Outstanding' : m.kind = "data"
  BY <1>1, <1>2 DEF HandshakeInv
<1> QED
  BY <1>1, <1>2, <1>3, HandshakeInput DEF HandshakeInv

-----------------------------------------------------------------------------
(* What the phases of an operation rely on.                                *)

\* No step leaves an answer in flight where a later read could take it for
\* one of its own.
LEMMA QuietKept ==
  ASSUME TypeOK, SessionInv, CanBePaired, Pairing, Next
  PROVE  QuietInv'
<1> USE DEF QuietInv, Acknowledged, session, call, progress, wait, report,
            network, history
<1>0. /\ QuietInv /\ LinkInv /\ setup' = setup
      /\ linkOpen \in BOOLEAN /\ completed \in Nat /\ packets \in Nat
  BY SetupKept DEF Pairing, TypeOK, FlagsTypeOK, ProgressTypeOK
<1>1. ASSUME UNCHANGED <<toController, toHost, received>>
      PROVE  (QuietWire => QuietWire') /\ (Quiescent => Quiescent')
  BY <1>0, <1>1, OutstandingIs DEF QuietWire, Quiescent, LivenessUnit
<1>2. ASSUME UNCHANGED <<toController, toHost>> PROVE Quiescent => Quiescent'
  BY <1>2 DEF Quiescent, LivenessUnit
<1>3. CASE Caller
  <2>1. ASSUME NEW o \in Operations, OpenCall(o) PROVE QuietInv'
    BY <1>1, <2>1 DEF OpenCall, CanBePaired
  <2>2. ASSUME NEW o \in Operations, NEW n \in 1..MaxPackets, StartExchange(o, n)
        PROVE  QuietInv'
    BY <1>0, <1>1, <2>2 DEF StartExchange, EnterExchange, Ready
  <2>3. CASE CloseCall
    BY <1>0, <2>3 DEF CloseCall, StateAfterFailure
  <2>4. CASE Refuse
    BY <1>0, <1>1, <2>4 DEF Refuse
  <2> QED
    BY <1>3, <2>1, <2>2, <2>3, <2>4 DEF Caller
<1>4. CASE Opening
  <2>1. CASE OpenLink \/ DrainUnit
    BY <1>0, <1>2, <2>1 DEF OpenLink, DrainUnit, Read
  <2>2. CASE DrainOverflow
    BY <2>2 DEF DrainOverflow, SessionInv, OpeningIsNotFaulted
  <2>3. CASE DrainDone
    <3>1. Quiescent /\ received = <<>>
      BY <1>0, <2>3 DEF DrainDone, LinkQuiet
    <3>2. QuietWire
      BY <3>1, OutstandingIs DEF Quiescent, QuietWire
    <3> QED
      BY <1>1, <2>3, <3>2 DEF DrainDone, EnterExchange
  <2>4. CASE OpenCleanup
    <3>1. pc = "openCleanup" /\ pc' = "idle" /\ UNCHANGED <<toController, toHost>>
      BY <2>4 DEF OpenCleanup
    <3>2. ASSUME state' = "ready" PROVE QuietWire'
      <4>1. state = "ready" /\ ~linkOpen /\ received' = <<>>
        BY <1>0, <2>4, <3>2 DEF OpenCleanup, StateAfterFailure
      <4> QED
        BY <1>0, <3>1, <4>1, OutstandingIs DEF Quiescent, QuietWire
    <3> QED
      BY <3>1, <3>2
  <2> QED
    BY <1>4, <2>1, <2>2, <2>3, <2>4 DEF Opening
<1>5. CASE Sending
  <2>0. linkOpen /\ state = "ready"
    BY <1>5, StepsHavePhases DEF SessionInv, ExchangeIsReady
  <2>1. CASE PreflightClean \/ PreflightStale
    BY <1>0, <1>1, <2>1 DEF PreflightClean, PreflightStale
  <2>2. CASE Transmit
    <3>1. pc = "send" /\ UNCHANGED <<toHost, received>> /\ QuietWire
          /\ toController' = toController \cup {CurrentPacket}
      BY <1>0, <2>2 DEF Transmit
    <3>2. CASE Acknowledged
      BY <2>2, <3>2 DEF Transmit
    <3>3. CASE ~Acknowledged
      <4>1. /\ pc' = CASE ~HasReply -> "settle"
                       [] HasReply /\ completed + 1 < packets -> "send"
                       [] HasReply /\ completed + 1 >= packets ->
                            IF ReplyComplete(<<>>) THEN "replySettle"
                                                   ELSE "reply"
        BY <2>2, <3>3 DEF Transmit, CompletePacket
      <4>2. pc' \in {"send", "settle"} => CurrentPacket.kind # "request"
        BY <1>0, <4>1 DEF CurrentPacket, HasReply, IsKeepAlive
      <4>3. Outstanding' = {} /\ (QuietWire => \A t \in toController : t.kind # "request")
        BY <3>1, OutstandingIs DEF QuietWire
      <4>4. pc' \in {"settle", "send", "reply", "replySettle"}
        BY <1>0, <4>1
      <4> QED
        BY <1>0, <3>1, <3>3, <4>2, <4>3, <4>4 DEF QuietWire
    <3> QED
      BY <3>2, <3>3
  <2>3. CASE HandshakeAccept
    <3>1. HandshakeEvent /\ InExchange /\ received # <<>> /\ Acknowledged
      BY <1>0, <2>3 DEF HandshakeAccept, HandshakeEvent, InExchange, Read, LinkInv
    <3>2. Input # LivenessUnit /\ Input.kind # "data"
      BY <2>3, <3>1, LivenessIsNoAnswer DEF HandshakeAccept, Accepts
    <3>3. toController = {} /\ \A m \in Outstanding' : HasReply
      BY <3>1, <3>2, HandshakeInput, HandshakeLeaves
    <3>4. /\ toController' = toController
          /\ pc' = CASE ~HasReply -> "settle"
                     [] HasReply /\ completed + 1 < packets -> "send"
                     [] HasReply /\ completed + 1 >= packets ->
                          IF ReplyComplete(<<>>) THEN "replySettle"
                                                 ELSE "reply"
      BY <2>3 DEF HandshakeAccept, HandshakeEvent, Read, CompletePacket
    <3>5. HasReply => pc' \in {"reply", "replySettle"}
      BY <1>0, <3>1, <3>4 DEF LinkInv
    <3>6. ~HasReply => pc' = "settle"
      BY <3>4
    <3> QED
      BY <3>3, <3>4, <3>5, <3>6 DEF QuietWire
  <2>4. CASE HandshakeRetry
    <3>1. HandshakeEvent /\ Input.kind = "nak" /\ toController' = toController
          /\ pc' = "send"
      BY <2>4 DEF HandshakeRetry, HandshakeEvent, Read
    <3>2. toController = {} /\ Outstanding' = {}
      BY <3>1, HandshakeInput DEF LivenessUnit
    <3> QED
      BY <3>1, <3>2 DEF QuietWire
  <2>5. CASE HandshakeReject
    <3>1. HandshakeEvent /\ Input.kind \in {"nak", "err"}
          /\ toController' = toController /\ linkOpen' = linkOpen
          /\ pc' \in {"idle", "openCleanup"}
      BY <2>5 DEF HandshakeReject, Reject, Raise, HandshakeEvent, Read
    <3>2. toController = {} /\ Outstanding' = {}
      BY <3>1, HandshakeInput DEF LivenessUnit
    <3> QED
      BY <2>0, <3>1, <3>2 DEF QuietWire
  <2>6. CASE HandshakeLiveness
    BY <2>6 DEF HandshakeLiveness, HandshakeEvent
  <2>7. CASE HandshakeData
    <3>1. pc' = CASE ~HasReply -> "settle"
                  [] HasReply /\ completed + 1 < packets -> "send"
                  [] HasReply /\ completed + 1 >= packets ->
                       IF ReplyComplete(<<Input>>) THEN "replySettle"
                                                   ELSE "reply"
      BY <2>7 DEF HandshakeData, CompletePacket
    <3>2. HasReply /\ pc = "handshake" /\ InExchange
      BY <2>7 DEF HandshakeData, HandshakeEvent, InExchange
    <3>3. pc' \in {"reply", "replySettle"}
      BY <1>0, <3>1, <3>2 DEF LinkInv
    <3> QED
      BY <3>3
  <2>8. CASE HandshakeUnexpected \/ HandshakeOverflow \/ HandshakeTimeout
    BY <2>0, <2>8 DEF HandshakeUnexpected, HandshakeOverflow, HandshakeTimeout,
                      Fail, Raise, StateAfterFailure
  <2>9. CASE SettleQuiet
    BY <1>0, <1>1, <2>9 DEF SettleQuiet, Succeed
  <2>10. CASE SettleUnexpected
    BY <2>0, <2>10 DEF SettleUnexpected, Fail, Raise, StateAfterFailure
  <2> QED
    BY <1>5, <2>1, <2>2, <2>3, <2>4, <2>5, <2>6, <2>7, <2>8, <2>9, <2>10
    DEF Sending
<1>6. CASE Replying
  <2>0. linkOpen /\ state = "ready"
    BY <1>6, StepsHavePhases DEF SessionInv, ExchangeIsReady
  <2> USE DEF ReplyEvent, Fail, Raise, StateAfterFailure
  <2>1. CASE ReplyLiveness \/ ReplyData \/ ReplyUnexpected
    BY <2>0, <2>1 DEF ReplyLiveness, ReplyData, ReplyUnexpected
  <2>2. CASE ReplyIdleGap \/ ReplyTimeout \/ ReplySettleQuiet \/ ReplySettleExcess
    BY <2>0, <2>2
    DEF ReplyIdleGap, ReplyTimeout, ReplySettleQuiet, ReplySettleExcess
  <2>3. CASE Decode
    <3>1. pc = "decode" /\ DeclaredReply(units) /\ ReplyInv
          /\ UNCHANGED <<toController, toHost, received>> /\ pc' = "idle"
      BY <2>3 DEF Decode, Succeed, Pairing
    <3>2. QuietWire
      BY <3>1, WholeReply DEF QuietWire, ReplyInv
    <3> QED
      BY <1>1, <3>1, <3>2
  <2>4. CASE DecodeMismatch
    BY <2>0, <2>4 DEF DecodeMismatch
  <2> QED
    BY <1>6, <2>1, <2>2, <2>3, <2>4 DEF Replying
<1>7. CASE Fault
  <2>1. CASE OpenFault
    BY <1>0, <1>2, <2>1 DEF OpenFault
  <2>2. CASE ~OpenFault
    BY <1>7, <2>2
    DEF Fault, SendFault, ReceiveFault, ReceiveInterrupted, PreflightFault,
        LinkFault, Fail, Raise, StateAfterFailure
  <2> QED
    BY <2>1, <2>2
<1>8. CASE Environment
  BY <1>0, <1>8, EnvironmentQuiet
<1> QED
  BY <1>3, <1>4, <1>5, <1>6, <1>7, <1>8 DEF Next, Progress

\* Fewer answers and fewer packets in flight keep HandshakeInv.
LEMMA HandshakeMonotone ==
  ASSUME HandshakeInv, pc = "handshake", UnitsOnce => UnitsOnce',
         Outstanding' \subseteq Outstanding,
         toController' \subseteq toController,
         UNCHANGED <<setup, op, exch, packets, completed, attempt, accepted>>
  PROVE  HandshakeInv'
<1>1. CurrentPacket' = CurrentPacket
  BY DEF CurrentPacket, IsKeepAlive, HasReply
<1>2. /\ UnitsOnce'
      /\ toController' \subseteq {CurrentPacket}
      /\ toController' # {} => Outstanding' = {}
  BY DEF HandshakeInv
<1>3. \A m \in Outstanding' :
        \/ /\ m.kind = "data" /\ ReplyUnitOf(m)' /\ HasReply'
           /\ \E t \in accepted' : Answered(t)'
        \/ /\ m.kind # "data"
           /\ m.ex = exch' /\ m.pkt = completed' + 1 /\ m.att = attempt'
           /\ \/ m.kind \in {"nak", "err"} /\ ~ \E t \in accepted' : Answered(t)'
              \/ m.kind \in {"ack", "alive"} /\ \E t \in accepted' : Answered(t)'
  BY DEF HandshakeInv, ReplyUnitOf, ReplyUnit, ReplyUnits, HasReply, Answered
<1>4. \A m, n \in Outstanding' :
        /\ m.kind # "data" /\ n.kind # "data" => m = n
        /\ m.kind = "data" /\ n.kind = "data" => OneReply(m, n)
        /\ m.kind = "data" /\ DataAcknowledges' => n.kind = "data"
  BY DEF HandshakeInv, DataAcknowledges, OneReply
<1> QED
  BY <1>1, <1>2, <1>3, <1>4 DEF HandshakeInv, OneReply

\* The controller's answer to the packet that waits for its handshake.
LEMMA HandshakeAnswered ==
  ASSUME TypeOK, CanBePaired, Pairing, pc = "handshake",
         NEW t \in toController, ControllerAccepts(t)
  PROVE  HandshakeInv'
<1> USE DEF client, session, call, progress, wait, report
<1>1. /\ HandshakeInv /\ Acknowledged
      /\ t \in Transmission /\ t.pkt >= 1 /\ t.kind = CurrentPacket.kind
      /\ t.ex = exch /\ t.pkt = completed + 1 /\ t.att = attempt
      /\ toController = {t} /\ Outstanding = {}
  BY DEF Pairing, LinkInv, HandshakeInv, CurrentPacket, SentInv, Sent, TypeOK,
         WireTypeOK
<1>2. /\ toController' = {} /\ accepted' = accepted \cup {t}
      /\ UNCHANGED <<setup, op, exch, packets, completed, attempt, received>>
  BY <1>1, AcceptOutstanding
<1>a. PICK reply \in Replies(t) : \E answer \in Acknowledgements(t, reply) :
        /\ toHost' = toHost \cup reply \cup answer
        /\ Outstanding' \subseteq reply \cup answer
  BY <1>1, AcceptOutstanding
<1>3. PICK answer \in Acknowledgements(t, reply) :
        /\ toHost' = toHost \cup reply \cup answer
        /\ Outstanding' \subseteq reply \cup answer
  BY <1>a
<1>4. /\ \A m \in reply : m.kind = "data" /\ m # LivenessUnit
      /\ \A m \in answer : m.kind \in {"ack", "alive"} /\ m # LivenessUnit
  BY <1>1 DEF Replies, Acknowledgements, Datum, Control, LivenessUnit
<1>5. UnitsOnce'
  <2>1. \A i \in 1..Len(received') : received'[i] = LivenessUnit
    BY <1>1, <1>2, OutstandingIs
  <2> QED
    BY <2>1 DEF UnitsOnce, LivenessUnit
<1>6. reply # {} => t.kind = "request" /\ HasReply
  BY <1>1 DEF Replies, CurrentPacket
<1>7. \A m \in reply : ReplyUnitOf(m)'
  <2>1. ReplyUnits \in Nat \ {0}
    BY SetupTyped DEF TypeOK
  <2>2. \A m \in reply : \E i \in 0..ReplyUnits : m = Datum(t, i)
    BY <2>1 DEF Replies
  <2>3. \A i : Datum(t, i) = ReplyUnit(i)
    BY <1>1 DEF Datum, ReplyUnit
  <2>4. \A m \in reply : ReplyUnitOf(m)
    BY <2>2, <2>3 DEF ReplyUnitOf
  <2> QED
    BY <1>2, <2>4 DEF ReplyUnitOf, ReplyUnit, ReplyUnits
<1>8. \A m, n \in reply : OneReply(m, n)
  BY SetupTyped DEF Replies, OneReply, Datum, TypeOK
<1>9. \A m, n \in answer : m = n
  BY DEF Acknowledgements
<1>10. \A m \in answer : m.ex = exch /\ m.pkt = completed + 1 /\ m.att = attempt
  BY <1>1 DEF Acknowledgements, Control
<1>11. reply # {} /\ DataAcknowledges => answer = {}
  BY <1>1 DEF Acknowledgements
<1>12. \E u \in accepted' : Answered(u)'
  BY <1>1, <1>2 DEF Answered
<1>13. \A m \in Outstanding' :
         \/ /\ m.kind = "data" /\ ReplyUnitOf(m)' /\ HasReply'
            /\ \E u \in accepted' : Answered(u)'
         \/ /\ m.kind # "data"
            /\ m.ex = exch' /\ m.pkt = completed' + 1 /\ m.att = attempt'
            /\ \/ m.kind \in {"nak", "err"} /\ ~ \E u \in accepted' : Answered(u)'
               \/ m.kind \in {"ack", "alive"} /\ \E u \in accepted' : Answered(u)'
  BY <1>2, <1>3, <1>4, <1>6, <1>7, <1>10, <1>12 DEF HasReply
<1>14. \A m, n \in Outstanding' :
         /\ m.kind # "data" /\ n.kind # "data" => m = n
         /\ m.kind = "data" /\ n.kind = "data" => OneReply(m, n)
         /\ m.kind = "data" /\ DataAcknowledges' => n.kind = "data"
  BY <1>2, <1>3, <1>4, <1>8, <1>9, <1>11 DEF DataAcknowledges
<1> QED
  BY <1>2, <1>5, <1>13, <1>14 DEF HandshakeInv, OneReply

\* So is its refusal.
LEMMA HandshakeRefused ==
  ASSUME TypeOK, CanBePaired, Pairing, pc = "handshake",
         NEW t \in toController, ControllerRefuses(t)
  PROVE  HandshakeInv'
<1> USE DEF client, session, call, progress, wait, report
<1>1. /\ HandshakeInv
      /\ t \in Transmission /\ t.ex = exch /\ t.pkt = completed + 1
      /\ t.att = attempt /\ toController = {t} /\ Outstanding = {}
  BY DEF Pairing, HandshakeInv, CurrentPacket, TypeOK, WireTypeOK
<1>2. /\ toController' = {}
      /\ UNCHANGED <<setup, op, exch, packets, completed, attempt, received,
                     accepted>>
  BY <1>1, Taken DEF ControllerRefuses
<1>3. PICK code \in {"nak", "err"} : toHost' = toHost \cup {Control(code, t)}
  BY DEF ControllerRefuses
<1> DEFINE c == Control(code, t)
<1>4. /\ c.kind = code /\ c.ex = exch /\ c.pkt = completed + 1
      /\ c.att = attempt /\ c # LivenessUnit
  BY <1>1 DEF Control, LivenessUnit
<1>5. toHost' = toHost \cup {c}
  BY <1>3
<1> HIDE DEF c
<1>6. Outstanding' \subseteq {c}
  BY <1>1, <1>2, <1>5, OutstandingIs
<1>7. UnitsOnce'
  <2>1. \A i \in 1..Len(received') : received'[i] = LivenessUnit
    BY <1>1, <1>2, OutstandingIs
  <2> QED
    BY <2>1 DEF UnitsOnce, LivenessUnit
<1>8. \A u \in accepted : ~Answered(u)
  <2> SUFFICES ASSUME NEW u \in accepted, Answered(u) PROVE FALSE
    OBVIOUS
  <2>1. u.ex = t.ex /\ u.pkt = t.pkt /\ u \in Sent /\ t \in Sent
    BY <1>1 DEF Answered, Sent
  <2> QED
    BY <2>1 DEF Pairing, SentInv
<1>9. ~ \E u \in accepted' : Answered(u)'
  BY <1>2, <1>8 DEF Answered
<1>10. \A m \in Outstanding' :
         /\ m.kind # "data" /\ m.kind \in {"nak", "err"}
         /\ m.ex = exch' /\ m.pkt = completed' + 1 /\ m.att = attempt'
         /\ \A n \in Outstanding' : m = n
  BY <1>2, <1>3, <1>4, <1>6
<1> QED
  BY <1>2, <1>7, <1>9, <1>10 DEF HandshakeInv

\* What follows a packet that counts.
LEMMA CompletedPhase ==
  ASSUME TypeOK, NEW b, CompletePacket(b)
  PROVE  /\ ~HasReply => pc' = "settle"
         /\ (HasReply /\ completed + 1 < packets) => pc' = "send"
         /\ (HasReply /\ completed + 1 >= packets) =>
              pc' = IF ReplyComplete(b) THEN "replySettle" ELSE "reply"
         /\ pc' # "handshake"
<1>1. pc' = CASE ~HasReply -> "settle"
              [] HasReply /\ completed + 1 < packets -> "send"
              [] HasReply /\ completed + 1 >= packets ->
                   IF ReplyComplete(b) THEN "replySettle" ELSE "reply"
  BY DEF CompletePacket
<1>2. completed \in Nat /\ packets \in Nat
  BY DEF TypeOK, ProgressTypeOK
<1> QED
  BY <1>1, <1>2

\* A packet waits for its own answers only.
LEMMA HandshakeKept ==
  ASSUME TypeOK, SessionInv, CanBePaired, Pairing, Next
  PROVE  HandshakeInv'
<1> USE DEF session, call, progress, wait, report, network, history, client
<1>0. HandshakeInv /\ QuietInv /\ SentInv /\ CountedInv /\ setup' = setup
  BY SetupKept DEF Pairing
<1>1. CASE pc' # "handshake"
  BY <1>1 DEF HandshakeInv
<1>2. CASE Transmit /\ pc' = "handshake"
  <2>1. /\ pc = "send" /\ Acknowledged
        /\ UNCHANGED <<exch, packets, completed, attempt, op, toHost, received>>
        /\ toController' = toController \cup {CurrentPacket}
    <3>1. ~CompletePacket(<<>>)
      BY <1>2, CompletedPhase
    <3> QED
      BY <1>2, <3>1 DEF Transmit
  <2>2. toController = {} /\ Outstanding = {}
    BY <1>0, <2>1 DEF QuietInv, QuietWire
  <2>3. CurrentPacket' = CurrentPacket
    BY <2>1 DEF CurrentPacket, IsKeepAlive, HasReply
  <2>4. Outstanding' = {}
    BY <2>1, <2>2, OutstandingIs
  <2>5. UnitsOnce'
    BY <2>1, <2>2, NothingTwice DEF UnitsOnce, LivenessUnit
  <2> QED
    BY <2>1, <2>2, <2>3, <2>4, <2>5 DEF HandshakeInv
<1>3. CASE HandshakeLiveness
  <2>1. /\ Read /\ pc = "handshake"
        /\ UNCHANGED <<setup, op, exch, packets, completed, attempt, accepted,
                       toController>>
    BY <1>3 DEF HandshakeLiveness, HandshakeEvent, Read
  <2> QED
    BY <1>0, <2>1, ReadOutstanding, HandshakeMonotone
<1>4. CASE Environment
  <2> HIDE DEF client
  <2>1. /\ UNCHANGED <<setup, op, exch, packets, completed, attempt, pc>>
    BY <1>4 DEF Environment, Tick, ControllerAlive, Arrive, LoseUnit,
                LosePacket, ControllerAccepts, ControllerRefuses, client
  <2> SUFFICES ASSUME pc = "handshake" PROVE HandshakeInv'
    BY <1>1, <2>1
  <2>2. CASE Tick
    <3>1. Outstanding' = Outstanding /\ (UnitsOnce => UnitsOnce')
          /\ UNCHANGED <<accepted, toController>>
      BY <2>2, OutstandingIs DEF Tick, UnitsOnce, LivenessUnit
    <3> QED
      BY <1>0, <2>1, <3>1, HandshakeMonotone
  <2>3. CASE ControllerAlive \/ \E m \in toHost : LoseUnit(m)
    <3>1. UNCHANGED <<accepted, toController>>
      BY <2>3 DEF ControllerAlive, LoseUnit
    <3> QED
      BY <1>0, <2>1, <2>3, <3>1, LossOutstanding, HandshakeMonotone
  <2>4. ASSUME NEW m \in toHost, Arrive(m) PROVE HandshakeInv'
    BY <1>0, <2>1, <2>4, ArriveOutstanding, ArriveFrame, HandshakeMonotone
  <2>5. ASSUME NEW t \in toController, LosePacket(t) PROVE HandshakeInv'
    <3>1. /\ UNCHANGED <<accepted, toHost, received>>
          /\ toController' \subseteq toController
      BY <2>5 DEF LosePacket
    <3>2. Outstanding' = Outstanding /\ (UnitsOnce => UnitsOnce')
      BY <3>1, OutstandingIs DEF UnitsOnce, LivenessUnit
    <3> QED
      BY <1>0, <2>1, <3>1, <3>2, HandshakeMonotone
  <2> QED
    BY <1>4, <2>2, <2>3, <2>4, <2>5, HandshakeAnswered, HandshakeRefused
    DEF Environment
<1>5. CASE pc' = "handshake" /\ ~Environment
  <2>1. ~Caller \/ UNCHANGED pc
    BY <1>5 DEF Caller, OpenCall, StartExchange, EnterExchange, CloseCall, Refuse
  <2>2. Caller => pc = "idle"
    BY DEF Caller, OpenCall, StartExchange, CloseCall, Refuse
  <2>3. ~Opening
    BY <1>5 DEF Opening, OpenLink, DrainUnit, DrainOverflow, DrainDone,
                OpenCleanup, EnterExchange
  <2>4. Sending => Transmit \/ HandshakeLiveness
    <3>1. ~(HandshakeAccept \/ HandshakeData)
      BY <1>5, CompletedPhase DEF HandshakeAccept, HandshakeData
    <3> QED
      BY <1>5, <3>1
      DEF Sending, PreflightClean, PreflightStale, HandshakeRetry, HandshakeReject,
          HandshakeUnexpected, HandshakeOverflow, HandshakeTimeout, SettleQuiet,
          SettleUnexpected, Fail, Reject, Raise, Succeed
  <2>5. ~Replying
    BY <1>5
    DEF Replying, ReplyEvent, ReplyLiveness, ReplyData, ReplyUnexpected,
        ReplyIdleGap, ReplyTimeout, ReplySettleQuiet, ReplySettleExcess,
        Decode, DecodeMismatch, Fail, Raise, Succeed
  <2>6. ~Fault
    BY <1>5 DEF Fault, SendFault, ReceiveFault, ReceiveInterrupted,
                PreflightFault, OpenFault, LinkFault, Fail, Raise
  <2> QED
    BY <1>2, <1>3, <1>5, <2>1, <2>2, <2>3, <2>4, <2>5, <2>6 DEF Next, Progress
<1> QED
  BY <1>1, <1>4, <1>5

\* Fewer answers and fewer packets in flight keep ReplyInv.
LEMMA ReplyMonotone ==
  ASSUME ReplyInv, pc \in {"reply", "replySettle", "decode"},
         UnitsOnce => UnitsOnce', Outstanding' \subseteq Outstanding,
         toController' \subseteq toController,
         UNCHANGED <<setup, op, exch, packets, completed, units>>
  PROVE  ReplyInv'
<1>1. /\ HasReply' /\ completed' = packets' /\ UnitsOnce'
      /\ Acknowledged' => toController' = {}
  BY DEF ReplyInv, HasReply, Acknowledged
<1>2. \A t \in toController' : t.kind = "request" =>
        t.ex = exch' /\ t.pkt = packets' /\ Outstanding' = {} /\ units' = <<>>
  BY DEF ReplyInv
<1>3. \A m : ReplyUnitOf(m)' <=> ReplyUnitOf(m)
  BY DEF ReplyUnitOf, ReplyUnit, ReplyUnits
<1>4. /\ \A m \in Outstanding' : ReplyUnitOf(m)'
      /\ \A i \in 1..Len(units') :
           ReplyUnitOf(units[i])' /\ units'[i] \notin Outstanding'
  <2>1. \A m \in Outstanding' : ReplyUnitOf(m)'
    BY <1>3 DEF ReplyInv
  <2>2. \A i \in 1..Len(units) : ReplyUnitOf(units[i])
    BY DEF ReplyInv
  <2>3. \A i \in 1..Len(units') : ReplyUnitOf(units[i])'
    BY <2>2 DEF ReplyUnitOf, ReplyUnit, ReplyUnits
  <2>4. \A i \in 1..Len(units') : units'[i] \notin Outstanding'
    BY DEF ReplyInv
  <2> QED
    BY <2>1, <2>3, <2>4
<1>5. /\ \A m, n \in Outstanding' : OneReply(m, n)
      /\ \A m \in Outstanding', i \in 1..Len(units') : OneReply(m, units'[i])
  BY DEF ReplyInv
<1> QED
  BY <1>1, <1>2, <1>3, <1>4, <1>5 DEF ReplyInv, OneReply

\* A step of the environment keeps the reply whole.
LEMMA EnvironmentReply ==
  ASSUME TypeOK, CanBePaired, Pairing, Environment,
         pc \in {"reply", "replySettle", "decode"}
  PROVE  ReplyInv'
<1>1. ReplyInv /\ SentInv
  BY DEF Pairing
<1>2. UNCHANGED <<setup, op, exch, packets, completed, units, pc>>
  BY DEF Environment, Tick, ControllerAlive, Arrive, LoseUnit, LosePacket,
         ControllerAccepts, ControllerRefuses, client, session, call, progress,
         wait
<1>3. CASE Tick
  <2>1. Outstanding' = Outstanding /\ (UnitsOnce => UnitsOnce')
        /\ toController' = toController
    BY <1>3, OutstandingIs DEF Tick, UnitsOnce, LivenessUnit, network
  <2> QED
    BY <1>1, <1>2, <2>1, ReplyMonotone
<1>4. CASE ControllerAlive \/ \E m \in toHost : LoseUnit(m)
  <2>1. toController' = toController
    BY <1>4 DEF ControllerAlive, LoseUnit
  <2> QED
    BY <1>1, <1>2, <1>4, <2>1, LossOutstanding, ReplyMonotone
<1>5. ASSUME NEW m \in toHost, Arrive(m) PROVE ReplyInv'
  BY <1>1, <1>2, <1>5, ArriveOutstanding, ArriveFrame, ReplyMonotone
<1>6. ASSUME NEW t \in toController, LosePacket(t) \/ ControllerRefuses(t)
      PROVE  ReplyInv'
  BY <1>1, <1>6 DEF LosePacket, ControllerRefuses, ReplyInv
<1>7. ASSUME NEW t \in toController, ControllerAccepts(t) PROVE ReplyInv'
  <2>1. /\ toController' = toController \ {t} /\ received' = received
        /\ ~Acknowledged
    BY <1>1, <1>7, AcceptOutstanding DEF ReplyInv
  <2>2. CASE t.kind # "request"
    <3>1. Replies(t) = {{}} /\ \A reply : Acknowledgements(t, reply) = {{}}
      BY <2>1, <2>2 DEF Replies, Acknowledgements
    <3>2. toHost' = toHost
      <4>1. PICK reply \in Replies(t) : \E answer \in Acknowledgements(t, reply) :
              toHost' = toHost \cup reply \cup answer
        BY <1>7, AcceptOutstanding
      <4> QED
        BY <3>1, <4>1
    <3>3. Outstanding' \subseteq Outstanding /\ (UnitsOnce => UnitsOnce')
      BY <2>1, <3>2, OutstandingIs DEF UnitsOnce, LivenessUnit
    <3> QED
      BY <1>1, <1>2, <2>1, <3>3, ReplyMonotone
  <2>3. CASE t.kind = "request"
    <3>1. t.ex = exch /\ t.pkt = packets /\ Outstanding = {} /\ units = <<>>
          /\ HasReply /\ completed = packets
      BY <1>1, <2>3 DEF ReplyInv
    <3>2. \A u \in toController' : u.kind # "request"
      BY <1>1, <2>1, <3>1 DEF ReplyInv, SentInv, Sent
    <3>3. PICK reply \in Replies(t) : \E answer \in Acknowledgements(t, reply) :
            /\ toHost' = toHost \cup reply \cup answer
            /\ Outstanding' \subseteq Outstanding \cup reply \cup answer
      BY <1>7, AcceptOutstanding
    <3>4. Outstanding' \subseteq reply
      BY <2>1, <3>1, <3>3 DEF Acknowledgements
    <3>5. UnitsOnce'
      <4>1. \A i \in 1..Len(received') : received'[i] = LivenessUnit
        BY <2>1, <3>1, OutstandingIs
      <4> QED
        BY <4>1 DEF UnitsOnce, LivenessUnit
    <3>6. ReplyUnits \in Nat \ {0}
      BY SetupTyped DEF TypeOK
    <3>7. \A m \in reply : ReplyUnitOf(m)
      <4>1. \A m \in reply : \E i \in 0..ReplyUnits : m = Datum(t, i)
        BY <3>6 DEF Replies
      <4>2. \A i : Datum(t, i) = ReplyUnit(i)
        BY <3>1 DEF Datum, ReplyUnit
      <4> QED
        BY <4>1, <4>2 DEF ReplyUnitOf
    <3>8. \A m \in Outstanding' : ReplyUnitOf(m)'
      BY <1>2, <3>4, <3>7 DEF ReplyUnitOf, ReplyUnit, ReplyUnits
    <3>9. \A m, n \in Outstanding' : OneReply(m, n)
      BY <3>4, <3>6 DEF Replies, OneReply, Datum
    <3>10. HasReply' /\ completed' = packets' /\ ~Acknowledged' /\ Len(units') = 0
      BY <1>2, <2>1, <3>1 DEF HasReply, Acknowledged
    <3> QED
      BY <3>2, <3>5, <3>8, <3>9, <3>10 DEF ReplyInv, OneReply
  <2> QED
    BY <2>2, <2>3
<1> QED
  BY <1>3, <1>4, <1>5, <1>6, <1>7 DEF Environment

\* The handshake hands over to the reply with nothing but reply in flight.
LEMMA HandshakeReplies ==
  ASSUME TypeOK, SessionInv, CanBePaired, Pairing,
         HandshakeAccept \/ HandshakeData,
         pc' \in {"reply", "replySettle", "decode"}
  PROVE  ReplyInv'
<1>1. /\ HandshakeEvent /\ Read /\ pc = "handshake" /\ InExchange
      /\ received # <<>> /\ HandshakeInv
  BY DEF HandshakeAccept, HandshakeData, HandshakeEvent, Read, Pairing, InExchange
<1>2. PICK b : CompletePacket(b) /\ b \in {<<>>, <<Input>>}
               /\ (b = <<Input>> => Input.kind = "data" /\ DataAcknowledges)
               /\ (Input.kind = "data" => DataAcknowledges)
  BY DEF HandshakeAccept, HandshakeData, Accepts
<1>3. Input # LivenessUnit
  BY <1>1, LivenessIsNoAnswer DEF HandshakeAccept, HandshakeData, LivenessUnit
<1>4. HasReply
  BY <1>2, CompletedPhase
<1>5. /\ toController' = {} /\ toController = {}
      /\ UNCHANGED <<setup, op, exch, packets>> /\ units' = b
      /\ completed' = completed + 1
  BY <1>1, <1>2, HandshakeCounts DEF CompletePacket, Read
<1>6. completed' = packets' /\ HasReply'
  BY <1>1, <1>4, <1>5
  DEF SessionInv, ExchangeIsCounted, Pairing, LinkInv, CountedInv, HasReply,
      TypeOK, ProgressTypeOK
<1>7. /\ Input \in Outstanding /\ Input \notin Outstanding'
      /\ Outstanding' \subseteq Outstanding /\ UnitsOnce'
  BY <1>1, <1>3, ReadOutstanding DEF HandshakeInv
<1>8. \A m \in Outstanding' : m \in Outstanding /\ m.kind = "data"
  BY <1>1, <1>2, <1>3, <1>7, HandshakeLeaves
<1>9. \A m : ReplyUnitOf(m)' <=> ReplyUnitOf(m)
  BY <1>5 DEF ReplyUnitOf, ReplyUnit, ReplyUnits
<1>10. \A m \in Outstanding' : ReplyUnitOf(m)'
  BY <1>1, <1>8, <1>9 DEF HandshakeInv
<1>11. \A m, n \in Outstanding' : OneReply(m, n)
  BY <1>1, <1>8 DEF HandshakeInv
<1>12. ASSUME b = <<Input>>
       PROVE  /\ Len(b) = 1 /\ b[1] = Input /\ ReplyUnitOf(Input)
              /\ \A m \in Outstanding' : OneReply(m, Input)
  <2>1. Len(b) = 1 /\ b[1] = Input /\ Input.kind = "data"
    BY <1>2, <1>12
  <2> QED
    BY <1>1, <1>7, <1>8, <2>1 DEF HandshakeInv
<1>13. /\ \A i \in 1..Len(units') :
            ReplyUnitOf(units'[i]) /\ units'[i] \notin Outstanding'
       /\ \A m \in Outstanding', i \in 1..Len(units') : OneReply(m, units'[i])
  <2>1. CASE b = <<>>
    BY <1>5, <2>1
  <2>2. CASE b = <<Input>>
    BY <1>5, <1>7, <1>12, <2>2
  <2> QED
    BY <1>2, <2>1, <2>2
<1>14. \A i \in 1..Len(units') : ReplyUnitOf(units[i])'
  BY <1>5, <1>13 DEF ReplyUnitOf, ReplyUnit, ReplyUnits
<1> QED
  BY <1>5, <1>6, <1>7, <1>10, <1>11, <1>13, <1>14 DEF ReplyInv, OneReply

\* A unit of the reply joins those collected.
LEMMA ReplyGrows ==
  ASSUME TypeOK, Pairing, ReplyData
  PROVE  ReplyInv'
<1> USE DEF session, report, history
<1>1. /\ pc = "reply" /\ Read /\ Input.kind = "data" /\ ReplyInv
      /\ units' = Append(units, Input) /\ units \in Seq(Unit)
      /\ UNCHANGED <<setup, op, exch, packets, completed, toController>>
  BY DEF ReplyData, ReplyEvent, Pairing, Read, TypeOK, ProgressTypeOK
<1>2. /\ Input \in Outstanding /\ Input \notin Outstanding'
      /\ Outstanding' \subseteq Outstanding /\ UnitsOnce' /\ Input \in Unit
  BY <1>1, ReadOutstanding DEF LivenessUnit, ReplyInv
<1>3. /\ HasReply' /\ completed' = packets'
      /\ Acknowledged' => toController' = {}
      /\ \A t \in toController' : t.kind # "request"
  BY <1>1, <1>2 DEF ReplyInv, HasReply, Acknowledged
<1>4. \A m : ReplyUnitOf(m)' <=> ReplyUnitOf(m)
  BY <1>1 DEF ReplyUnitOf, ReplyUnit, ReplyUnits
<1>5. \A i \in 1..Len(units') :
        \/ i \in 1..Len(units) /\ units'[i] = units[i]
        \/ units'[i] = Input
  BY <1>1, <1>2
<1>6. \A m \in Outstanding' : ReplyUnitOf(m)'
  BY <1>1, <1>2, <1>4 DEF ReplyInv
<1>7. \A i \in 1..Len(units') :
        ReplyUnitOf(units'[i]) /\ units'[i] \notin Outstanding'
  BY <1>1, <1>2, <1>5 DEF ReplyInv
<1>8. /\ \A m, n \in Outstanding' : OneReply(m, n)
      /\ \A m \in Outstanding', i \in 1..Len(units') : OneReply(m, units'[i])
  BY <1>1, <1>2, <1>5 DEF ReplyInv
<1>9. \A i \in 1..Len(units') : ReplyUnitOf(units[i])'
  BY <1>1, <1>7 DEF ReplyUnitOf, ReplyUnit, ReplyUnits
<1> QED
  BY <1>2, <1>3, <1>6, <1>7, <1>8, <1>9 DEF ReplyInv, OneReply

\* A reply is collected from the answers to its own request.
LEMMA ReplyKept ==
  ASSUME TypeOK, SessionInv, CanBePaired, Pairing, Next
  PROVE  ReplyInv'
<1> USE DEF session, call, progress, wait, report, network, history
<1>0. ReplyInv /\ QuietInv /\ setup' = setup
  BY SetupKept DEF Pairing
<1> SUFFICES ASSUME pc' \in {"reply", "replySettle", "decode"} PROVE ReplyInv'
  BY DEF ReplyInv
<1>1. CASE Caller
  BY <1>1 DEF Caller, OpenCall, StartExchange, EnterExchange, CloseCall, Refuse,
              Pairing, ReplyInv
<1>2. CASE Opening
  BY <1>2 DEF Opening, OpenLink, DrainUnit, DrainOverflow, DrainDone,
              OpenCleanup, EnterExchange
<1>3. CASE Transmit
  <2>1. ~Acknowledged /\ CompletePacket(<<>>)
    BY <1>3 DEF Transmit
  <2>2. /\ pc = "send" /\ UNCHANGED <<toHost, received, exch, packets, op>>
        /\ toController' = toController \cup {CurrentPacket}
        /\ units' = <<>> /\ completed' = completed + 1
    BY <1>3, <2>1 DEF Transmit, CompletePacket
  <2>3. HasReply /\ completed + 1 >= packets
    BY <2>1, CompletedPhase DEF TypeOK, ProgressTypeOK
  <2>4. completed' = packets' /\ HasReply'
    BY <2>2, <2>3 DEF SessionInv, ExchangeIsCounted, HasReply, TypeOK,
                      ProgressTypeOK
  <2>5. Outstanding = {} /\ \A t \in toController : t.kind # "request"
    BY <1>0, <2>2 DEF QuietInv, QuietWire
  <2>6. Outstanding' = {}
    BY <2>2, <2>5, OutstandingIs
  <2>7. UnitsOnce'
    BY <2>2, <2>5, NothingTwice DEF UnitsOnce, LivenessUnit
  <2>8. CurrentPacket.ex = exch /\ CurrentPacket.pkt = completed + 1
    BY DEF CurrentPacket
  <2>9. ~Acknowledged' /\ Len(units') = 0
    BY <1>0, <2>1, <2>2 DEF Acknowledged
  <2> QED
    BY <2>2, <2>4, <2>5, <2>6, <2>7, <2>8, <2>9 DEF ReplyInv
<1>4. CASE Sending /\ ~Transmit
  <2>1. HandshakeAccept \/ HandshakeData
    BY <1>4
    DEF Sending, PreflightClean, PreflightStale, HandshakeRetry,
        HandshakeReject, HandshakeLiveness, HandshakeEvent,
        HandshakeUnexpected, HandshakeOverflow, HandshakeTimeout, SettleQuiet,
        SettleUnexpected, Fail, Reject, Raise, Succeed
  <2> QED
    BY <2>1, HandshakeReplies
<1>5. CASE Replying
  <2>1. CASE ReplyLiveness
    <3>1. /\ Read /\ pc = "reply"
          /\ UNCHANGED <<setup, op, exch, packets, completed, units, toController>>
      BY <2>1 DEF ReplyLiveness, ReplyEvent, Read
    <3> QED
      BY <1>0, <3>1, ReadOutstanding, ReplyMonotone
  <2>2. CASE ReplyIdleGap \/ ReplySettleQuiet
    <3>1. /\ pc \in {"reply", "replySettle"}
          /\ UNCHANGED <<setup, op, exch, packets, completed, units,
                         toController, toHost, received>>
      BY <2>2 DEF ReplyIdleGap, ReplySettleQuiet
    <3>2. Outstanding' = Outstanding /\ (UnitsOnce => UnitsOnce')
      BY <3>1, OutstandingIs DEF UnitsOnce, LivenessUnit
    <3> QED
      BY <1>0, <3>1, <3>2, ReplyMonotone
  <2> QED
    BY <1>5, <2>1, <2>2, ReplyGrows
    DEF Replying, ReplyUnexpected, ReplyTimeout, ReplySettleExcess, Decode,
        DecodeMismatch, Fail, Raise, Succeed
<1>6. CASE Fault
  BY <1>6 DEF Fault, SendFault, ReceiveFault, ReceiveInterrupted,
              PreflightFault, OpenFault, LinkFault, Fail, Raise
<1>7. CASE Environment
  <2>1. pc' = pc
    BY <1>7, EnvironmentQuiet
  <2> QED
    BY <1>7, <2>1, EnvironmentReply
<1> QED
  BY <1>1, <1>2, <1>3, <1>4, <1>5, <1>6, <1>7 DEF Next, Progress

\* A rejection in an unused session: nothing of its exchange was accepted.
LEMMA RejectedUnused ==
  ASSUME TypeOK, CanBePaired, Pairing, HandshakeReject, state' = "ready"
  PROVE  \A t \in Sent : t.ex # exch
<1>1. HandshakeEvent /\ Input.kind \in {"nak", "err"}
  BY DEF HandshakeReject
<1>2. \A t \in Sent : ~Answered(t)
  BY <1>1, HandshakeInput DEF LivenessUnit
<1>3. completed \in Nat /\ Sent \subseteq Transmission
  BY DEF TypeOK, ProgressTypeOK, WireTypeOK, Sent
<1>4. completed = 0
  BY <1>3 DEF HandshakeReject, Reject, StateAfterRejection
<1> QED
  BY <1>2, <1>3, <1>4 DEF Pairing, SentInv, Answered, Transmission

\* The verdict of a failed exchange.
LEMMA RaiseReports ==
  ASSUME NEW res, NEW done, Raise(res, done), Acknowledged' = Acknowledged
  PROVE  /\ result' = res
         /\ certainty' = "confirmed" => Acknowledged' /\ completed' = packets'
BY DEF Raise, CertaintyAfter

\* What is reported of an operation stays true.
LEMMA ReportKept ==
  ASSUME TypeOK, SessionInv, CanBePaired, Pairing, Next
  PROVE  ReportInv'
<1> USE DEF ReportInv, session, call, progress, wait, report, network, history
<1>0. ReportInv /\ LinkInv /\ ReplyInv /\ setup' = setup
      /\ Acknowledged' = Acknowledged
  BY SetupKept DEF Pairing, Acknowledged
<1>1. CASE Caller
  BY <1>0, <1>1 DEF Caller, OpenCall, StartExchange, EnterExchange, CloseCall,
                    Refuse, Sent
<1>2. CASE Opening
  <2>1. CASE OpenLink \/ DrainUnit \/ DrainOverflow
    BY <1>0, <2>1 DEF OpenLink, DrainUnit, DrainOverflow
  <2>2. CASE DrainDone
    <3>1. op' # "request"
      BY <1>0, <2>2 DEF DrainDone, LinkInv
    <3> QED
      BY <1>0, <2>2, <3>1 DEF DrainDone, EnterExchange
  <2>3. CASE OpenCleanup
    <3>1. op' # "request" /\ pc = "openCleanup"
          /\ UNCHANGED <<result, certainty, completed, packets, exch,
                         toController, accepted>>
      BY <1>0, <2>3 DEF OpenCleanup, LinkInv
    <3>2. state' = "ready" => state = "ready"
      BY <2>3 DEF OpenCleanup, StateAfterFailure
    <3> QED
      BY <1>0, <3>1, <3>2 DEF Sent
  <2> QED
    BY <1>2, <2>1, <2>2, <2>3 DEF Opening
<1>3. CASE Sending
  <2>0. state = "ready" /\ linkOpen /\ certainty = "none"
    BY <1>3, StepsHavePhases DEF SessionInv, ExchangeIsReady, ExchangeIsCounted
  <2>1. CASE PreflightClean \/ PreflightStale
    BY <1>0, <2>0, <2>1 DEF PreflightClean, PreflightStale
  <2>2. CASE Transmit \/ HandshakeAccept \/ HandshakeData
    <3>1. pc' \notin {"idle", "openCleanup"} /\ UNCHANGED <<result, certainty>>
      <4>1. ASSUME NEW b, CompletePacket(b)
            PROVE  pc' \notin {"idle", "openCleanup"}
        BY <4>1, CompletedPhase DEF TypeOK, ProgressTypeOK
      <4>2. CASE Transmit
        BY <2>2, <4>1, <4>2 DEF Transmit, CompletePacket
      <4>3. CASE HandshakeAccept \/ HandshakeData
        BY <4>1, <4>3 DEF HandshakeAccept, HandshakeData, CompletePacket
      <4> QED
        BY <2>2, <4>2, <4>3
    <3> QED
      BY <1>0, <2>0, <3>1
  <2>3. CASE HandshakeRetry \/ HandshakeLiveness
    BY <1>0, <2>0, <2>3 DEF HandshakeRetry, HandshakeLiveness, HandshakeEvent
  <2>4. CASE HandshakeReject
    <3>1. Acknowledged
      BY <1>0, <2>4 DEF HandshakeReject, HandshakeEvent, LinkInv
    <3>2. result' = "rejected" /\ certainty' = "rejected"
          /\ UNCHANGED <<toController, accepted, exch>>
      BY <2>4 DEF HandshakeReject, HandshakeEvent, Read, Reject, Raise,
                  CertaintyAfter
    <3>3. state' = "ready" => \A t \in Sent' : t.ex # exch'
      BY <2>4, <3>2, RejectedUnused DEF Sent
    <3> QED
      BY <1>0, <3>1, <3>2, <3>3
  <2>5. CASE HandshakeUnexpected \/ HandshakeOverflow \/ HandshakeTimeout
             \/ SettleUnexpected
    <3>1. PICK res \in Result \ {"rejected", "ok"} : \E done : Raise(res, done)
      BY <2>5 DEF HandshakeUnexpected, HandshakeOverflow, HandshakeTimeout,
                  SettleUnexpected, Fail, Result
    <3> QED
      BY <1>0, <3>1, RaiseReports
  <2>6. CASE SettleQuiet
    <3>1. ~HasReply /\ certainty' = certainty /\ op' = op
      BY <1>0, <2>6 DEF SettleQuiet, LinkInv, Succeed
    <3>2. pc' = "idle" => result' = "ok"
      BY <2>6 DEF SettleQuiet, Succeed
    <3>3. pc' = "idle" \/ (pc' = "send" /\ result' = result)
      BY <2>6 DEF SettleQuiet, Succeed
    <3> QED
      BY <1>0, <2>0, <3>1, <3>2, <3>3 DEF HasReply
  <2> QED
    BY <1>3, <2>1, <2>2, <2>3, <2>4, <2>5, <2>6 DEF Sending
<1>4. CASE Replying
  <2>0. certainty = "none"
    BY <1>4, StepsHavePhases DEF SessionInv, ExchangeIsCounted
  <2>1. CASE ReplyLiveness \/ ReplyData \/ ReplyIdleGap \/ ReplySettleQuiet
    BY <1>0, <2>0, <2>1
    DEF ReplyLiveness, ReplyData, ReplyEvent, ReplyIdleGap, ReplySettleQuiet
  <2>2. CASE ReplyUnexpected \/ ReplyTimeout \/ ReplySettleExcess
             \/ DecodeMismatch
    <3>1. PICK res \in Result \ {"rejected", "ok"} : \E done : Raise(res, done)
      BY <2>2 DEF ReplyUnexpected, ReplyTimeout, ReplySettleExcess,
                  DecodeMismatch, Fail, Result
    <3> QED
      BY <1>0, <3>1, RaiseReports
  <2>3. CASE Decode
    <3>1. \A i \in 1..Len(units) : units[i].ex = exch
      <4>1. \A i \in 1..Len(units) : ReplyUnitOf(units[i])
        BY <1>0, <2>3 DEF Decode, ReplyInv
      <4>2. \A k : ReplyUnit(k).ex = exch
        BY DEF ReplyUnit
      <4> QED
        BY <4>1, <4>2 DEF ReplyUnitOf
    <3> QED
      BY <1>0, <2>0, <2>3, <3>1 DEF Decode, Succeed
  <2> QED
    BY <1>4, <2>1, <2>2, <2>3 DEF Replying
<1>5. CASE Fault
  <2>1. CASE OpenFault
    BY <1>0, <2>1 DEF OpenFault
  <2>2. CASE ~OpenFault
    <3>1. \E done : Raise("fault", done)
      BY <1>5, <2>2 DEF Fault, SendFault, ReceiveFault, ReceiveInterrupted,
                        PreflightFault, LinkFault, Fail
    <3> QED
      BY <1>0, <3>1, RaiseReports
  <2> QED
    BY <2>1, <2>2
<1>6. CASE Environment
  <2>1. UNCHANGED <<setup, state, pc, op, exch, packets, completed, units,
                    result, certainty>>
    BY <1>6 DEF Environment, Tick, ControllerAlive, Arrive, LoseUnit, LosePacket,
                ControllerAccepts, ControllerRefuses, client
  <2>2. Sent' \subseteq Sent
    BY <1>6 DEF Environment, Tick, ControllerAlive, Arrive, LoseUnit, LosePacket,
                ControllerAccepts, ControllerRefuses, TakeFrom, Sent, client
  <2> QED
    BY <1>0, <2>1, <2>2
<1> QED
  BY <1>1, <1>2, <1>3, <1>4, <1>5, <1>6 DEF Next, Progress

-----------------------------------------------------------------------------
(* Theorems.                                                               *)

\* Before the first operation nothing is in flight.
LEMMA InitPairing == Init /\ CanBePaired => Pairing
<1> SUFFICES ASSUME Init, CanBePaired PROVE Pairing
  OBVIOUS
<1> USE DEF Init
<1>1. SentInv /\ CountedInv
  BY DEF SentInv, CountedInv, Sent, Answered
<1>2. received \in {<<>>, <<StaleAck>>} /\ StaleAck # LivenessUnit
  BY DEF StaleAck, LivenessUnit
<1>3. LinkInv
  BY DEF LinkInv, BuffersEmpty, InExchange
<1>4. LivenessInv
  <2>1. \A i \in 1..Len(received) : received[i] # LivenessUnit
    BY <1>2
  <2> QED
    BY <2>1 DEF LivenessInv
<1>5. QuietInv
  <2>1. ASSUME state = "ready" PROVE QuietWire
    <3>1. received = <<>>
      BY <2>1
    <3> QED
      BY <3>1, OutstandingIs DEF QuietWire
  <2> QED
    BY <2>1 DEF QuietInv
<1>6. HandshakeInv /\ ReplyInv
  BY DEF HandshakeInv, ReplyInv
<1>7. ReportInv
  BY DEF ReportInv
<1> QED
  BY <1>1, <1>3, <1>4, <1>5, <1>6, <1>7 DEF Pairing

\* A step that changes nothing keeps it.
LEMMA PairingStutters == PairingInv /\ UNCHANGED vars => PairingInv'
<1> SUFFICES ASSUME PairingInv, UNCHANGED vars PROVE PairingInv'
  OBVIOUS
<1> USE DEF vars, session, call, progress, wait, report, network, history
<1>1. CanBePaired' = CanBePaired
  BY DEF CanBePaired, QuiescentReopen, MaxDuplicates, UnsolicitedLiveness,
         Operations
<1>2. Outstanding' = Outstanding /\ Sent' = Sent
  BY DEF Outstanding, Sent, LivenessUnit
<1>3. SentInv => SentInv'
  BY <1>2 DEF SentInv
<1>4. CountedInv => CountedInv'
  BY <1>2 DEF CountedInv, Answered, Acknowledged
<1>5. LinkInv => LinkInv'
  BY DEF LinkInv, BuffersEmpty, Operations, InExchange, Acknowledged, HasReply
<1>6. LivenessInv => LivenessInv'
  BY DEF LivenessInv, Acknowledged, UnsolicitedLiveness, LivenessUnit
<1>7. QuietInv => QuietInv'
  BY <1>2 DEF QuietInv, QuietWire, Quiescent, Acknowledged, LivenessUnit
<1>8. UnitsOnce => UnitsOnce'
  BY DEF UnitsOnce, LivenessUnit
<1>9. HandshakeInv => HandshakeInv'
  BY <1>2, <1>8, HandshakeMonotone DEF HandshakeInv
<1>10. ReplyInv => ReplyInv'
  BY <1>2, <1>8, ReplyMonotone DEF ReplyInv
<1>11. ReportInv => ReportInv'
  BY <1>2 DEF ReportInv, Acknowledged
<1> QED
  BY <1>1, <1>3, <1>4, <1>5, <1>6, <1>7, <1>9, <1>10, <1>11
  DEF PairingInv, Pairing

\* In every setup whose answers can be told apart, each is paired with the
\* transmission that caused it, through every order of loss, refusal, retry,
\* timeout, fault, close and reopening.
THEOREM PairingHolds == Spec => []PairingInv
<1>1. Init => PairingInv
  BY InitPairing DEF PairingInv
<1>2. TypeOK /\ SessionInv /\ PairingInv /\ [Next]_vars => PairingInv'
  <2> SUFFICES ASSUME TypeOK, SessionInv, PairingInv, Next PROVE PairingInv'
    BY PairingStutters
  <2> SUFFICES ASSUME CanBePaired' PROVE Pairing'
    BY DEF PairingInv
  <2>1. CanBePaired
    BY SetupKept DEF CanBePaired, QuiescentReopen, MaxDuplicates,
                     UnsolicitedLiveness, Operations
  <2>2. Pairing
    BY <2>1 DEF PairingInv
  <2> QED
    BY <2>1, <2>2, SentKept, CountedKept, LinkKept, LivenessKept, QuietKept,
       HandshakeKept, ReplyKept, ReportKept
    DEF Pairing
<1> QED
  BY TypeCorrect, PhasesAgree, <1>1, <1>2, PTL DEF Spec

\* A packet counted as completed over an acknowledging link was accepted by the
\* controller.
THEOREM CompletedPacketsWereAccepted == Spec => []CompletedWasAccepted
<1>1. PairingInv => CompletedWasAccepted
  BY DEF PairingInv, Pairing, CountedInv, CompletedWasAccepted
<1> QED
  BY PairingHolds, <1>1, PTL

\* The controller acts on the packets of an exchange in order, on each once.
THEOREM PacketsAcceptedOnceInOrder == Spec => []AcceptedOnceInOrder
<1>1. PairingInv => AcceptedOnceInOrder
  BY DEF PairingInv, Pairing, SentInv, Sent, AcceptedOnceInOrder
<1> QED
  BY PairingHolds, <1>1, PTL

\* A session that is ready for an exchange has nothing of an earlier one in
\* flight or buffered.
THEOREM ReadySessionsAreQuiet == Spec => []ReadyMeansQuiet
<1>1. PairingInv => ReadyMeansQuiet
  BY DEF PairingInv, Pairing, QuietInv, QuietWire, LinkInv, ReadyMeansQuiet
<1> QED
  BY PairingHolds, <1>1, PTL

\* "confirmed" is said only of exchanges whose every packet was accepted.
THEOREM ConfirmedPacketsWereAccepted == Spec => []ConfirmedWasAccepted
<1>1. PairingInv => ConfirmedWasAccepted
  BY DEF PairingInv, Pairing, ReportInv, CountedInv, ConfirmedWasAccepted
<1> QED
  BY PairingHolds, <1>1, PTL

\* A rejection that leaves the session usable left nothing behind.
THEOREM RejectionsLeaveNothing == Spec => []RejectionLeavesNothing
<1>1. PairingInv => RejectionLeavesNothing
  BY DEF PairingInv, Pairing, ReportInv, Sent, RejectionLeavesNothing
<1> QED
  BY PairingHolds, <1>1, PTL

\* The reply a caller receives consists of answers to that very request.
THEOREM RepliesBelongToRequests == Spec => []ReplyBelongsToRequest
<1>1. PairingInv => ReplyBelongsToRequest
  BY DEF PairingInv, Pairing, ReportInv, ReplyBelongsToRequest
<1> QED
  BY PairingHolds, <1>1, PTL

\* The control a handshake takes was caused by the transmission it waits on.
LEMMA AnswerStaysStep ==
  ASSUME TypeOK, PairingInv, CanBePaired PROVE AnswerStays
<1> SUFFICES ASSUME HandshakeEvent, Input.kind # "data", Input # LivenessUnit
             PROVE  /\ Input.ex = exch /\ Input.pkt = completed + 1
                    /\ Input.att = attempt
  BY DEF AnswerStays
<1>1. HandshakeInv /\ Read /\ pc = "handshake"
  BY DEF PairingInv, Pairing, HandshakeEvent
<1>2. Input \in Outstanding
  BY <1>1, ReadOutstanding
<1> QED
  BY <1>1, <1>2 DEF HandshakeInv

\* No step takes an answer for another packet's, whatever came late or was sent
\* again.
THEOREM AnswersArePaired == Spec => PairedAnswersStay
<1>1. TypeOK /\ PairingInv /\ [Next]_vars => [CanBePaired => AnswerStays]_vars
  BY AnswerStaysStep
<1> QED
  BY TypeCorrect, PairingHolds, <1>1, PTL DEF Spec, PairedAnswersStay

-----------------------------------------------------------------------------
(* ExchangeContract: what the mapping needs besides Pairing.               *)

\* A packet still in flight was not counted, and its exchange has not ended or
\* is reported in doubt; an exchange that polls has sent nothing.
DueInv ==
  /\ toController # {} =>
       completed < packets /\ (InExchange \/ certainty = "unknown")
  /\ pc = "preflight" => completed = 0

Refinable ==
  TypeOK /\ SessionInv /\ Pairing /\ Acknowledged /\ CanBePaired /\ DueInv

\* The controller executed the packets counted, and perhaps the one due.
LEMMA ExecutedIs ==
  ASSUME TypeOK, Acknowledged, Pairing
  PROVE  /\ (\E t \in accepted : Answered(t))
              => Cardinality(ExecutedPackets) = completed + 1
         /\ ~(\E t \in accepted : Answered(t))
              => Cardinality(ExecutedPackets) = completed
         /\ IsFiniteSet(ExecutedPackets)
<1>1. completed \in Nat /\ accepted \subseteq Transmission
  BY DEF TypeOK, ProgressTypeOK, WireTypeOK
<1>2. \A p \in 1..completed : \E t \in accepted : t.ex = exch /\ t.pkt = p
  BY DEF Pairing, CountedInv
<1>3. \A t \in accepted : t.ex = exch => t.pkt \in 1..(completed + 1)
  BY <1>1 DEF Pairing, SentInv, Sent, Transmission
<1>4. \A p : p \in ExecutedPackets <=> \E t \in accepted : t.ex = exch /\ t.pkt = p
  BY DEF ExecutedPackets
<1>5. \A n \in Nat : Cardinality(1..n) = n /\ IsFiniteSet(1..n)
  BY FS_Interval
<1>6. ASSUME \E t \in accepted : Answered(t)
      PROVE  ExecutedPackets = 1..(completed + 1)
  <2>1. \A p \in 1..(completed + 1) : p \in 1..completed \/ p = completed + 1
    BY <1>1
  <2>2. \A p \in 1..(completed + 1) : p \in ExecutedPackets
    BY <1>2, <1>4, <1>6, <2>1 DEF Answered
  <2> QED
    BY <1>3, <1>4, <2>2
<1>7. ASSUME ~ \E t \in accepted : Answered(t)
      PROVE  ExecutedPackets = 1..completed
  <2>1. \A t \in accepted : t.ex = exch => t.pkt # completed + 1
    BY <1>7 DEF Answered
  <2>2. \A t \in accepted : t.ex = exch => t.pkt \in 1..completed
    BY <1>1, <1>3, <2>1
  <2> QED
    BY <1>2, <1>4, <2>2
<1> QED
  BY <1>1, <1>5, <1>6, <1>7

\* What no acceptance and no new exchange changes.
LEMMA ExecutedFrame ==
  UNCHANGED <<accepted, exch>> => UNCHANGED Cardinality(ExecutedPackets)
BY DEF ExecutedPackets

\* A packet in flight is always accounted for.
LEMMA DueKept ==
  ASSUME Refinable, Next
  PROVE  DueInv'
<1> USE DEF DueInv, session, call, progress, wait, report, network, history
<1>0. /\ TypeOK /\ SessionInv /\ Pairing /\ Acknowledged /\ CanBePaired /\ DueInv
      /\ QuietInv /\ completed \in Nat /\ packets \in Nat
  BY DEF Refinable, Pairing, TypeOK, ProgressTypeOK
<1>1. CASE Caller
  <2>1. ASSUME NEW o \in Operations, NEW n \in 1..MaxPackets, StartExchange(o, n)
        PROVE  DueInv'
    BY <1>0, <2>1 DEF StartExchange, EnterExchange, Ready, QuietInv, QuietWire
  <2>2. CASE (\E o \in Operations : OpenCall(o)) \/ CloseCall \/ Refuse
    BY <1>0, <2>2 DEF OpenCall, CloseCall, Refuse, InExchange
  <2> QED
    BY <1>1, <2>1, <2>2 DEF Caller
<1>2. CASE Opening
  <2>1. CASE OpenLink \/ DrainUnit \/ DrainOverflow \/ OpenCleanup
    BY <1>0, <2>1 DEF OpenLink, DrainUnit, DrainOverflow, OpenCleanup,
                      InExchange, Read
  <2>2. CASE DrainDone
    BY <1>0, <2>2 DEF DrainDone, EnterExchange, QuietInv, Quiescent
  <2> QED
    BY <1>2, <2>1, <2>2 DEF Opening
<1>3. CASE Sending
  <2>1. CASE PreflightClean \/ PreflightStale \/ SettleQuiet \/ SettleUnexpected
    BY <1>0, <2>1 DEF PreflightClean, PreflightStale, SettleQuiet,
                      SettleUnexpected, QuietInv, QuietWire, Succeed, Read,
                      Fail, Raise
  <2>2. CASE Transmit
    BY <1>0, <2>2 DEF Transmit, SessionInv, ExchangeIsCounted, InExchange
  <2>3. CASE HandshakeAccept \/ HandshakeData \/ HandshakeUnexpected
    <3>1. toController = {} /\ toController' = toController
      BY <1>0, <2>3, HandshakeCounts DEF HandshakeAccept, HandshakeData,
         HandshakeUnexpected, HandshakeEvent, Read
    <3>2. pc' # "preflight"
      BY <1>0, <2>3, CompletedPhase
      DEF HandshakeAccept, HandshakeData, HandshakeUnexpected, Fail, Raise
    <3> QED
      BY <3>1, <3>2
  <2>4. CASE HandshakeRetry \/ HandshakeReject
    <3>1. toController = {} /\ toController' = toController
      BY <1>0, <2>4, HandshakeInput DEF HandshakeRetry, HandshakeReject,
         HandshakeEvent, Read, LivenessUnit
    <3>2. pc' # "preflight"
      BY <2>4 DEF HandshakeRetry, HandshakeReject, Reject, Raise
    <3> QED
      BY <3>1, <3>2
  <2>5. CASE HandshakeLiveness
    BY <1>0, <2>5 DEF HandshakeLiveness, HandshakeEvent, Read, InExchange
  <2>6. CASE HandshakeOverflow \/ HandshakeTimeout
    <3>1. /\ pc = "handshake" /\ UNCHANGED <<toController, packets, completed>>
          /\ certainty' = CertaintyAfter("limit", completed)
             \/ certainty' = CertaintyAfter("timeout", completed)
          /\ pc' # "preflight"
      BY <2>6 DEF HandshakeOverflow, HandshakeTimeout, Fail, Raise, Read
    <3>2. completed < packets
      BY <1>0, <3>1 DEF SessionInv, ExchangeIsCounted
    <3>3. certainty' = "unknown"
      BY <1>0, <3>1, <3>2 DEF CertaintyAfter
    <3> QED
      BY <3>1, <3>2, <3>3
  <2> QED
    BY <1>3, <2>1, <2>2, <2>3, <2>4, <2>5, <2>6 DEF Sending
<1>4. CASE Replying
  <2>1. toController = {}
    BY <1>0, <1>4
    DEF Pairing, ReplyInv, Replying, ReplyEvent, ReplyLiveness, ReplyData,
        ReplyUnexpected, ReplyIdleGap, ReplyTimeout, ReplySettleQuiet,
        ReplySettleExcess, Decode, DecodeMismatch
  <2>2. toController' = toController /\ pc' # "preflight"
    BY <1>4
    DEF Replying, ReplyEvent, ReplyLiveness, ReplyData, ReplyUnexpected,
        ReplyIdleGap, ReplyTimeout, ReplySettleQuiet, ReplySettleExcess,
        Decode, DecodeMismatch, Read, Fail, Raise, Succeed
  <2> QED
    BY <2>1, <2>2
<1>5. CASE Fault
  <2>1. CASE OpenFault
    BY <1>0, <2>1 DEF OpenFault, QuietInv, Quiescent
  <2>2. CASE ~OpenFault
    <3>1. /\ Raise("fault", completed) /\ InExchange
          /\ pc = "send" \/ toController' = toController
      BY <1>5, <2>2 DEF Fault, SendFault, ReceiveFault, ReceiveInterrupted,
                        PreflightFault, LinkFault, Fail, Read, InExchange
    <3>2. pc \in {"send", "handshake"} \/ toController = {}
      BY <1>0, <3>1 DEF QuietInv, QuietWire, Pairing, ReplyInv, InExchange
    <3>3. pc \in {"send", "handshake"} => certainty' = "unknown" /\ completed < packets
      BY <1>0, <3>1 DEF SessionInv, ExchangeIsCounted, Raise, CertaintyAfter
    <3> QED
      BY <3>1, <3>2, <3>3 DEF Raise
  <2> QED
    BY <2>1, <2>2
<1>6. CASE Environment
  <2>1. UNCHANGED <<pc, completed, packets, certainty>>
    BY <1>6 DEF Environment, Tick, ControllerAlive, Arrive, LoseUnit, LosePacket,
                ControllerAccepts, ControllerRefuses, client
  <2> QED
    BY <1>0, <1>6, <2>1, EnvironmentIsOutside DEF InExchange
<1> QED
  BY <1>1, <1>2, <1>3, <1>4, <1>5, <1>6 DEF Next, Progress

-----------------------------------------------------------------------------
(* Each step of the session is one step of the contract, or none.          *)

Executed == Cardinality(ExecutedPackets)

contractVars == <<state, InExchange, packets, Executed, completed, certainty>>

ContractStep == Contract!Next \/ UNCHANGED contractVars

\* A failed exchange that leaves its packets as they are is a Fail.
LEMMA FailIsFail ==
  ASSUME Refinable, InExchange, UNCHANGED <<accepted, exch>>,
         NEW res, NEW done, Raise(res, done), res # "rejected",
         done = completed \/ (done = completed + 1
                              /\ \E t \in accepted : Answered(t)),
         state' \in {"closed", "desynchronized"}, Acknowledged' = Acknowledged
  PROVE  ContractStep
<1>1. /\ TypeOK /\ Acknowledged /\ Pairing /\ completed \in Nat
  BY DEF Refinable, TypeOK, ProgressTypeOK
<1>2. Executed' = Executed /\ Executed \in {completed, completed + 1}
      /\ ((\E t \in accepted : Answered(t)) => Executed = completed + 1)
  BY <1>1, ExecutedIs, ExecutedFrame DEF Executed
<1>3. ~InExchange'
  BY DEF Raise, InExchange
<1>4. completed' \in {completed, completed + 1} /\ completed' <= Executed
      /\ packets' = packets
  BY <1>1, <1>2 DEF Raise
<1>5. certainty' = IF completed' = packets THEN "confirmed" ELSE "unknown"
  BY <1>1 DEF Raise, CertaintyAfter
<1>6. Contract!Fail
  BY <1>2, <1>3, <1>4, <1>5 DEF Contract!Fail, Executed
<1> QED
  BY <1>6 DEF ContractStep, Contract!Next

\* An exchange begins.
LEMMA EnterIsBegin ==
  ASSUME Refinable, NEW n \in Nat \ {0}, EnterExchange(n),
         ~InExchange, state \in {"ready", "closed"}, state' = "ready"
  PROVE  ContractStep
<1>1. /\ InExchange' /\ packets' = n /\ completed' = 0 /\ certainty' = "none"
      /\ pc' = "preflight"
  BY DEF EnterExchange, InExchange
<1>2. Executed' = 0
  <2>1. \A t \in accepted : t.ex <= exch /\ exch \in Nat /\ t.ex \in Nat
    BY DEF Refinable, Pairing, SentInv, Sent, TypeOK, ProgressTypeOK, WireTypeOK,
           Transmission
  <2>2. accepted' = accepted /\ exch' = exch + 1
    BY DEF EnterExchange
  <2>3. ExecutedPackets' = {}
    BY <2>1, <2>2 DEF ExecutedPackets
  <2> QED
    BY <2>3, FS_EmptySet DEF Executed
<1>3. Contract!Begin
  BY <1>1, <1>2 DEF Contract!Begin, Executed
<1> QED
  BY <1>3 DEF ContractStep, Contract!Next

\* Opening and closing between exchanges.
LEMMA ResetIsReset ==
  ASSUME ~InExchange, ~InExchange',
         UNCHANGED <<accepted, exch, packets, completed, certainty>>,
         state' \in {"closed", "ready", "desynchronized"},
         state = "desynchronized" => state' # "ready"
  PROVE  ContractStep
<1>1. Executed' = Executed
  BY ExecutedFrame DEF Executed
<1>2. InExchange' = InExchange
  BY DEF InExchange
<1>3. state' \in IF state = "desynchronized"
                   THEN {"closed", "desynchronized"}
                   ELSE {"closed", "ready", "desynchronized"}
  OBVIOUS
<1>4. Contract!Reset
  BY <1>1, <1>2, <1>3 DEF Contract!Reset, Executed
<1> QED
  BY <1>4 DEF ContractStep, Contract!Next

\* Calls of public operations.
LEMMA CallerRefines == Refinable /\ Caller => ContractStep
<1> SUFFICES ASSUME Refinable, Caller PROVE ContractStep
  OBVIOUS
<1> USE DEF session, call, progress, wait, report, network, history
<1>0. state \in SessionState
  BY DEF Refinable, TypeOK, SessionTypeOK
<1>1. ASSUME NEW o \in Operations, OpenCall(o) PROVE ContractStep
  <2>1. ~InExchange /\ ~InExchange' /\ state' = state
        /\ UNCHANGED <<accepted, exch, packets, completed, certainty>>
    BY <1>1 DEF OpenCall, InExchange
  <2> QED
    BY <1>0, <2>1, ResetIsReset DEF SessionState
<1>2. ASSUME NEW o \in Operations, NEW n \in 1..MaxPackets, StartExchange(o, n)
      PROVE  ContractStep
  <2>1. ~InExchange /\ EnterExchange(n) /\ state = "ready" /\ state' = "ready"
    BY <1>2 DEF StartExchange, InExchange, Ready
  <2>2. n \in Nat \ {0}
    BY SetupTyped DEF Refinable, TypeOK
  <2> QED
    BY <2>1, <2>2, EnterIsBegin
<1>3. CASE CloseCall
  <2>1. ~InExchange /\ ~InExchange' /\ state' \in {"closed", "desynchronized"}
        /\ UNCHANGED <<accepted, exch, packets, completed, certainty>>
    BY <1>3 DEF CloseCall, InExchange, StateAfterFailure
  <2> QED
    BY <2>1, ResetIsReset
<1>4. CASE Refuse
  <2>1. ~InExchange /\ ~InExchange' /\ state' = state
        /\ UNCHANGED <<accepted, exch, packets, completed, certainty>>
    BY <1>4 DEF Refuse, InExchange
  <2> QED
    BY <1>0, <2>1, ResetIsReset DEF SessionState
<1> QED
  BY <1>1, <1>2, <1>3, <1>4 DEF Caller

\* Opening a session.
LEMMA OpeningRefines == Refinable /\ Opening => ContractStep
<1> SUFFICES ASSUME Refinable, Opening PROVE ContractStep
  OBVIOUS
<1> USE DEF session, call, progress, wait, report, network, history
<1>0. state \in SessionState /\ OpeningIsNotFaulted
  BY DEF Refinable, TypeOK, SessionTypeOK, SessionInv
<1>1. CASE OpenLink \/ DrainUnit \/ DrainOverflow
  <2>1. ~InExchange /\ ~InExchange' /\ state' = state
        /\ UNCHANGED <<accepted, exch, packets, completed, certainty>>
    BY <1>1 DEF OpenLink, DrainUnit, DrainOverflow, InExchange
  <2> QED
    BY <1>0, <2>1, ResetIsReset DEF SessionState
<1>2. CASE DrainDone
  <2>1. ~InExchange /\ state \in {"ready", "closed"} /\ state' = "ready"
    BY <1>0, <1>2 DEF DrainDone, InExchange, OpeningIsNotFaulted, SessionState
  <2>2. CASE EnterExchange(1)
    BY <2>1, <2>2, EnterIsBegin
  <2>3. CASE ~EnterExchange(1)
    <3>1. ~InExchange' /\ UNCHANGED <<accepted, exch, packets, completed, certainty>>
      BY <1>2, <2>3 DEF DrainDone, InExchange
    <3> QED
      BY <2>1, <3>1, ResetIsReset
  <2> QED
    BY <2>2, <2>3
<1>3. CASE OpenCleanup
  <2>1. ~InExchange /\ ~InExchange'
        /\ UNCHANGED <<accepted, exch, packets, completed, certainty>>
    BY <1>3 DEF OpenCleanup, InExchange
  <2>2. state' \in {"closed", "desynchronized", state}
    BY <1>3 DEF OpenCleanup, StateAfterFailure, Refinable, TypeOK, FlagsTypeOK
  <2> QED
    BY <1>0, <2>1, <2>2, ResetIsReset DEF SessionState
<1> QED
  BY <1>1, <1>2, <1>3 DEF Opening

\* A step inside an exchange that the contract does not see.
LEMMA InsideIsStutter ==
  ASSUME InExchange, InExchange',
         UNCHANGED <<state, packets, completed, certainty, accepted, exch>>
  PROVE  ContractStep
<1>1. InExchange' = InExchange
  BY DEF InExchange
<1>2. Executed' = Executed
  BY ExecutedFrame DEF Executed
<1> QED
  BY <1>1, <1>2 DEF ContractStep, contractVars

\* The client counts a packet that was accepted.
LEMMA CountIsCount ==
  ASSUME Refinable, InExchange, InExchange', \E t \in accepted : Answered(t),
         completed' = completed + 1,
         UNCHANGED <<state, packets, certainty, accepted, exch>>
  PROVE  ContractStep
<1>1. Executed' = Executed /\ Executed = completed + 1 /\ completed \in Nat
  BY ExecutedIs, ExecutedFrame DEF Executed, Refinable, TypeOK, ProgressTypeOK
<1>2. InExchange' = InExchange
  BY DEF InExchange
<1>3. completed < Executed
  BY <1>1
<1>4. Contract!Count
  BY <1>1, <1>2, <1>3 DEF Contract!Count, Executed
<1> QED
  BY <1>4 DEF ContractStep, Contract!Next

\* An exchange whose every packet is counted succeeds.
LEMMA SuccessIsSucceed ==
  ASSUME InExchange, ~InExchange', completed = packets,
         UNCHANGED <<state, packets, completed, certainty, accepted, exch>>
  PROVE  ContractStep
<1>1. Executed' = Executed
  BY ExecutedFrame DEF Executed
<1>2. InExchange' = FALSE
  BY DEF InExchange
<1>3. Contract!Succeed
  BY <1>1, <1>2 DEF Contract!Succeed, Executed
<1> QED
  BY <1>3 DEF ContractStep, Contract!Next

\* Sending packets and waiting for their handshakes.
LEMMA SendingRefines == Refinable /\ Next /\ Sending => ContractStep
<1> SUFFICES ASSUME Refinable, Next, Sending PROVE ContractStep
  OBVIOUS
<1> USE DEF session, call, progress, wait, report, network, history
<1>0. /\ TypeOK /\ SessionInv /\ Pairing /\ Acknowledged /\ CanBePaired
      /\ completed \in Nat /\ packets \in Nat /\ InExchange
      /\ state = "ready" /\ linkOpen /\ certainty = "none"
      /\ Acknowledged' = Acknowledged
  BY StepsHavePhases, SetupKept
  DEF Refinable, SessionInv, ExchangeIsReady, ExchangeIsCounted, TypeOK,
      ProgressTypeOK, Acknowledged
<1>1. CASE PreflightClean
  <2>1. InExchange' /\ UNCHANGED <<state, packets, completed, certainty,
                                   accepted, exch>>
    BY <1>1 DEF PreflightClean, InExchange
  <2> QED
    BY <1>0, <2>1, InsideIsStutter
<1>2. CASE PreflightStale
  <2>1. /\ pc = "preflight" /\ completed = 0 /\ state' = "desynchronized"
        /\ UNCHANGED <<packets, completed, certainty, accepted, exch>>
    BY <1>2 DEF PreflightStale, Refinable, DueInv
  <2>2. InExchange' = FALSE
    BY <1>2 DEF PreflightStale, InExchange
  <2>3. ~\E t \in accepted : Answered(t)
    BY <1>0, <2>1 DEF Pairing, CountedInv, Sent
  <2>4. Executed' = Executed /\ Executed = 0
    BY <1>0, <2>1, <2>3, ExecutedIs, ExecutedFrame DEF Executed
  <2>5. Contract!Abort
    BY <1>0, <2>1, <2>2, <2>4 DEF Contract!Abort, Executed
  <2> QED
    BY <2>5 DEF ContractStep, Contract!Next
<1>3. CASE Transmit
  <2>1. InExchange' /\ UNCHANGED <<state, packets, completed, certainty,
                                   accepted, exch>>
    BY <1>0, <1>3 DEF Transmit, InExchange
  <2> QED
    BY <1>0, <2>1, InsideIsStutter
<1>4. CASE HandshakeAccept \/ HandshakeData
  <2>1. PICK b : CompletePacket(b)
    BY <1>4 DEF HandshakeAccept, HandshakeData
  <2>2. /\ completed' = completed + 1 /\ accepted' = accepted
        /\ UNCHANGED <<state, packets, certainty, exch>>
    BY <1>4, <2>1 DEF HandshakeAccept, HandshakeData, HandshakeEvent,
                      CompletePacket
  <2>3. InExchange'
    BY <1>0, <2>1, CompletedPhase DEF InExchange
  <2> QED
    BY <1>0, <1>4, <2>2, <2>3, HandshakeCounts, CountIsCount
<1>5. CASE HandshakeRetry \/ HandshakeLiveness
  <2>1. InExchange' /\ UNCHANGED <<state, packets, completed, certainty,
                                   accepted, exch>>
    BY <1>5 DEF HandshakeRetry, HandshakeLiveness, HandshakeEvent, InExchange
  <2> QED
    BY <1>0, <2>1, InsideIsStutter
<1>6. CASE HandshakeReject
  <2>1. HandshakeEvent /\ Input # LivenessUnit /\ Input.kind \in {"nak", "err"}
    BY <1>6 DEF HandshakeReject, LivenessUnit
  <2>2. ~\E t \in accepted : Answered(t)
    BY <1>0, <2>1, HandshakeInput DEF Sent
  <2>3. /\ UNCHANGED <<packets, completed, accepted, exch>>
        /\ certainty' = "rejected"
        /\ state' = StateAfterRejection(completed)
    BY <1>6 DEF HandshakeReject, HandshakeEvent, Reject, Raise, CertaintyAfter
  <2>4. InExchange' = FALSE
    BY <1>6 DEF HandshakeReject, Reject, Raise, InExchange
  <2>5. Executed' = Executed /\ Executed = completed
    BY <1>0, <2>2, <2>3, ExecutedIs, ExecutedFrame DEF Executed
  <2>6. BuffersEmpty
    BY <1>0 DEF Pairing, LinkInv
  <2>7. state' = IF Executed = 0 THEN state ELSE "desynchronized"
    BY <1>0, <2>3, <2>5, <2>6 DEF StateAfterRejection
  <2>8. Contract!Refuse
    BY <1>0, <2>3, <2>4, <2>5, <2>7 DEF Contract!Refuse, Executed
  <2> QED
    BY <2>8 DEF ContractStep, Contract!Next
<1>7. CASE \/ HandshakeUnexpected \/ HandshakeOverflow \/ HandshakeTimeout
           \/ SettleUnexpected
  <2>1. PICK res \in {"unexpected", "limit", "timeout"} :
          \E done : /\ Raise(res, done)
                    /\ done = completed \/ (done = completed + 1 /\ HandshakeUnexpected)
    BY <1>7 DEF HandshakeUnexpected, HandshakeOverflow, HandshakeTimeout,
                SettleUnexpected, Fail
  <2>2. state' = "desynchronized"
    BY <1>0, <1>7
    DEF HandshakeUnexpected, HandshakeOverflow, HandshakeTimeout,
        SettleUnexpected, Fail, StateAfterFailure
  <2>3. UNCHANGED <<accepted, exch>>
    BY <1>7 DEF HandshakeUnexpected, HandshakeOverflow, HandshakeTimeout,
                SettleUnexpected, HandshakeEvent, Fail, Raise
  <2>4. HandshakeUnexpected => \E t \in accepted : Answered(t)
    BY <1>0, HandshakeCounts
  <2> QED
    BY <1>0, <2>1, <2>2, <2>3, <2>4, FailIsFail
<1>8. CASE SettleQuiet
  <2>1. UNCHANGED <<state, packets, completed, certainty, accepted, exch>>
    BY <1>8 DEF SettleQuiet, Succeed
  <2>2. CASE completed = packets
    <3>1. ~InExchange'
      BY <1>8, <2>2 DEF SettleQuiet, Succeed, InExchange
    <3> QED
      BY <1>0, <2>1, <2>2, <3>1, SuccessIsSucceed
  <2>3. CASE completed # packets
    <3>1. InExchange'
      BY <1>8, <2>3 DEF SettleQuiet, InExchange
    <3> QED
      BY <1>0, <2>1, <3>1, InsideIsStutter
  <2> QED
    BY <2>2, <2>3
<1> QED
  BY <1>1, <1>2, <1>3, <1>4, <1>5, <1>6, <1>7, <1>8 DEF Sending

\* Collecting a reply.
LEMMA ReplyingRefines == Refinable /\ Next /\ Replying => ContractStep
<1> SUFFICES ASSUME Refinable, Next, Replying PROVE ContractStep
  OBVIOUS
<1> USE DEF session, call, progress, wait, report, network, history
<1>0. /\ InExchange /\ linkOpen /\ Acknowledged' = Acknowledged /\ ReplyInv
  BY StepsHavePhases, SetupKept
  DEF Refinable, SessionInv, ExchangeIsReady, Acknowledged, Pairing
<1>1. CASE ReplyLiveness \/ ReplyData \/ ReplyIdleGap \/ ReplySettleQuiet
  <2>1. InExchange' /\ UNCHANGED <<state, packets, completed, certainty,
                                   accepted, exch>>
    BY <1>1 DEF ReplyLiveness, ReplyData, ReplyIdleGap, ReplySettleQuiet,
                ReplyEvent, InExchange
  <2> QED
    BY <1>0, <2>1, InsideIsStutter
<1>2. CASE \/ ReplyUnexpected \/ ReplyTimeout \/ ReplySettleExcess
           \/ DecodeMismatch
  <2>1. PICK res \in {"unexpected", "limit", "timeout"} : Raise(res, completed)
    BY <1>2 DEF ReplyUnexpected, ReplyTimeout, ReplySettleExcess,
                DecodeMismatch, Fail
  <2>2. state' = "desynchronized"
    BY <1>0, <1>2 DEF ReplyUnexpected, ReplyTimeout, ReplySettleExcess,
                DecodeMismatch, Fail, StateAfterFailure
  <2>3. UNCHANGED <<accepted, exch>>
    BY <1>2 DEF ReplyUnexpected, ReplyTimeout, ReplySettleExcess,
                DecodeMismatch, ReplyEvent, Fail, Raise
  <2> QED
    BY <1>0, <2>1, <2>2, <2>3, FailIsFail
<1>3. CASE Decode
  <2>1. /\ ~InExchange' /\ pc = "decode"
        /\ UNCHANGED <<state, packets, completed, certainty, accepted, exch>>
    BY <1>3 DEF Decode, Succeed, InExchange
  <2>2. completed = packets
    BY <1>0, <2>1 DEF ReplyInv
  <2> QED
    BY <1>0, <2>1, <2>2, SuccessIsSucceed
<1> QED
  BY <1>1, <1>2, <1>3 DEF Replying

\* Faults.
LEMMA FaultRefines == Refinable /\ Next /\ Fault => ContractStep
<1> SUFFICES ASSUME Refinable, Next, Fault PROVE ContractStep
  OBVIOUS
<1> USE DEF session, call, progress, wait, report, network, history
<1>0. /\ state \in SessionState /\ Acknowledged' = Acknowledged
      /\ SessionInv
  BY SetupKept DEF Refinable, TypeOK, SessionTypeOK, Acknowledged
<1>1. CASE OpenFault
  <2>1. ~InExchange /\ ~InExchange' /\ state' = state
        /\ UNCHANGED <<accepted, exch, packets, completed, certainty>>
    BY <1>1 DEF OpenFault, InExchange
  <2> QED
    BY <1>0, <2>1, ResetIsReset DEF SessionState
<1>2. CASE SendFault \/ ReceiveFault \/ ReceiveInterrupted \/ PreflightFault
  <2>1. /\ Raise("fault", completed) /\ InExchange
        /\ state' \in {"closed", "desynchronized"}
        /\ accepted' = accepted
    BY <1>2 DEF SendFault, ReceiveFault, ReceiveInterrupted, PreflightFault,
                LinkFault, Fail, StateAfterFailure, InExchange
  <2>2. exch' = exch
    BY <2>1 DEF Raise
  <2> QED
    BY <1>0, <2>1, <2>2, FailIsFail
<1> QED
  BY <1>1, <1>2 DEF Fault

\* Time, the network and the controller.
LEMMA EnvironmentRefines == Refinable /\ Next /\ Environment => ContractStep
<1> SUFFICES ASSUME Refinable, Next, Environment PROVE ContractStep
  OBVIOUS
<1>0. /\ UNCHANGED <<pc, state, packets, completed, certainty, exch>>
      /\ InExchange' = InExchange
  BY DEF Environment, Tick, ControllerAlive, Arrive, LoseUnit, LosePacket,
         ControllerAccepts, ControllerRefuses, client, session, call, progress,
         report, InExchange
<1>1. CASE accepted' = accepted
  <2>1. Executed' = Executed
    BY <1>0, <1>1, ExecutedFrame DEF Executed
  <2> QED
    BY <1>0, <2>1 DEF ContractStep, contractVars
<1>2. ASSUME NEW t \in toController, ControllerAccepts(t) PROVE ContractStep
  <2>1. /\ TypeOK /\ Acknowledged /\ Pairing /\ CanBePaired
        /\ completed \in Nat /\ packets \in Nat /\ DueInv
    BY DEF Refinable, TypeOK, ProgressTypeOK
  <2>2. Answered(t) /\ accepted' = accepted \cup {t}
    BY <1>2, <2>1 DEF ControllerAccepts, Pairing, CountedInv
  <2>3. ~\E u \in accepted : Answered(u)
    <3> SUFFICES ASSUME NEW u \in accepted, Answered(u) PROVE FALSE
      OBVIOUS
    <3>1. u.ex = t.ex /\ u.pkt = t.pkt /\ u \in Sent /\ t \in Sent
      BY <2>2 DEF Answered, Sent
    <3> QED
      BY <2>1, <3>1 DEF Pairing, SentInv
  <2>4. Executed = completed
    BY <2>1, <2>3, ExecutedIs DEF Executed
  <2>5. Executed' = completed + 1
    <3>1. \A p : p \in ExecutedPackets' <=>
            p \in ExecutedPackets \/ p = completed + 1
      BY <1>0, <2>2 DEF ExecutedPackets, Answered
    <3>2. ExecutedPackets' = ExecutedPackets \cup {completed + 1}
      BY <3>1
    <3>3. completed + 1 \notin ExecutedPackets
      BY <2>3 DEF ExecutedPackets, Answered
    <3>4. IsFiniteSet(ExecutedPackets)
      BY <2>1, <2>3, ExecutedIs
    <3> QED
      BY <2>4, <3>2, <3>3, <3>4, FS_AddElement DEF Executed
  <2>6. completed < packets /\ (InExchange \/ certainty = "unknown")
    BY <2>1 DEF DueInv
  <2>7. Contract!Execute
    BY <1>0, <2>4, <2>5, <2>6 DEF Contract!Execute, Executed
  <2> QED
    BY <2>7 DEF ContractStep, Contract!Next
<1>3. accepted' = accepted \/ \E t \in toController : ControllerAccepts(t)
  BY DEF Environment, Tick, ControllerAlive, Arrive, LoseUnit, LosePacket,
         ControllerRefuses, history
<1> QED
  BY <1>1, <1>2, <1>3

-----------------------------------------------------------------------------
(* The refinement.                                                         *)

\* The initial states of such setups are initial states of the contract.
LEMMA InitRefines ==
  ASSUME Init, Acknowledged, CanBePaired PROVE Contract!Init /\ DueInv
<1>1. ExecutedPackets = {}
  BY DEF Init, ExecutedPackets
<1>2. Executed = 0
  BY <1>1, FS_EmptySet DEF Executed
<1>3. Contract!Init
  BY <1>2 DEF Contract!Init, Init, InExchange, Executed
<1> QED
  BY <1>3 DEF DueInv, Init

\* Over an acknowledging link whose answers can be told apart, every behaviour
\* of the session is one of the contract's: nothing is executed after a verdict
\* but the one packet in doubt, and no verdict claims more than what happened.
THEOREM SessionImplementsContract ==
  Spec /\ Acknowledged /\ CanBePaired => ImplementsContract
<1> DEFINE Chosen == Acknowledged /\ CanBePaired
           RefinableNow == Chosen /\ DueInv
           Always == TypeOK /\ SessionInv /\ PairingInv
           Steps == [Contract!Next]_<<state, InExchange, packets,
                      Cardinality(ExecutedPackets), completed, certainty>>
<1>1. Init /\ Chosen => Contract!Init /\ RefinableNow
  BY InitRefines
<1>2. RefinableNow /\ Always => Refinable
  BY DEF Refinable, PairingInv
<1>3. Chosen /\ [Next]_vars => Chosen'
  BY SetupKept
  DEF vars, session, Acknowledged, CanBePaired, QuiescentReopen,
      MaxDuplicates, UnsolicitedLiveness, Operations
<1>4. RefinableNow /\ Always /\ [Next]_vars => RefinableNow'
  <2>1. CASE Next
    BY <1>2, <1>3, <2>1, DueKept
  <2>2. CASE UNCHANGED vars
    BY <1>3, <2>2 DEF DueInv, InExchange, vars, call, progress, report, network
  <2> QED
    BY <2>1, <2>2
<1>5. RefinableNow /\ Always /\ [Next]_vars => Steps
  <2> SUFFICES ASSUME Refinable, [Next]_vars PROVE Steps
    BY <1>2
  <2>1. CASE Next
    <3>1. ContractStep
      BY <2>1, CallerRefines, OpeningRefines, SendingRefines, ReplyingRefines,
         FaultRefines, EnvironmentRefines DEF Next, Progress
    <3> QED
      BY <3>1 DEF ContractStep, contractVars, Executed
  <2>2. CASE UNCHANGED vars
    BY <2>2 DEF vars, session, call, progress, report, history, InExchange,
                ExecutedPackets
  <2> QED
    BY <2>1, <2>2
<1>6. Spec => []Always
  BY TypeCorrect, PhasesAgree, PairingHolds, PTL
<1> QED
  BY <1>1, <1>4, <1>5, <1>6, PTL
  DEF Spec, ImplementsContract, Contract!Spec, Contract!contract

=============================================================================
