---------------------- MODULE ControllerSessionContract ----------------------
(***************************************************************************)
(* ControllerSession over an acknowledging link implements                 *)
(* ExchangeContract.  The mapping hides the wire: what the controller      *)
(* executed of the last exchange is read off its history of accepted       *)
(* transmissions.                                                          *)
(***************************************************************************)
EXTENDS ControllerSession

ExecutedPackets == {t.pkt : t \in {u \in accepted : u.ex = exch}}

Contract == INSTANCE ExchangeContract WITH
  session  <- state,
  active   <- InExchange,
  size     <- packets,
  executed <- Cardinality(ExecutedPackets),
  counted  <- completed,
  verdict  <- certainty

\* Every step of the session is a step the contract allows.
ImplementsContract == Contract!Spec

=============================================================================
