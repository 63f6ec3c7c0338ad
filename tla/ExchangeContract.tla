--------------------------- MODULE ExchangeContract ---------------------------
(***************************************************************************)
(* What ControllerClient promises its callers over an acknowledging link,  *)
(* without packets in flight, handshakes, retries or timeouts.             *)
(*                                                                         *)
(* An exchange hands the controller its packets in order.  The client      *)
(* counts a packet only once the controller acted on it, it never has more *)
(* than one packet uncounted, and the verdict it gives is honest: after    *)
(* "ok", "confirmed" and "rejected" nothing more of the exchange happens,  *)
(* and only after "unknown" may one last packet still take effect.  A      *)
(* session whose delivery is in doubt must be closed before it is used     *)
(* again.                                                                  *)
(***************************************************************************)
EXTENDS Integers

VARIABLES
  session,    \* "closed", "ready" or "desynchronized"
  active,     \* an exchange is running
  size,       \* packets of the last exchange
  executed,   \* of which the controller acted on
  counted,    \* of which the client counts as completed
  verdict     \* what the client says of its delivery

contract == <<session, active, size, executed, counted, verdict>>

Init ==
  /\ session \in {"closed", "ready"}
  /\ active = FALSE
  /\ size = 0 /\ executed = 0 /\ counted = 0
  /\ verdict = "none"

\* Only a ready session starts an exchange.
Begin ==
  /\ ~active
  /\ session' = "ready"
  /\ session = "ready" \/ session = "closed"   \* the probe inside open()
  /\ active' = TRUE
  /\ size' \in Nat \ {0}
  /\ executed' = 0 /\ counted' = 0
  /\ verdict' = "none"

\* The controller acts on the next packet, and on no other.
Execute ==
  /\ active \/ verdict = "unknown"
  /\ executed = counted /\ executed < size
  /\ executed' = executed + 1
  /\ UNCHANGED <<session, active, size, counted, verdict>>

\* The client learns of it.
Count ==
  /\ active
  /\ counted < executed
  /\ counted' = counted + 1
  /\ UNCHANGED <<session, active, size, executed, verdict>>

\* The exchange succeeds: everything was executed and counted.
Succeed ==
  /\ active
  /\ counted = size
  /\ active' = FALSE
  /\ UNCHANGED <<session, size, executed, counted, verdict>>

\* Stale input is found before anything is sent.
Abort ==
  /\ active
  /\ executed = 0
  /\ active' = FALSE
  /\ session' = "desynchronized"
  /\ UNCHANGED <<size, executed, counted, verdict>>

\* The controller refuses a packet; the session survives only if it refused
\* the first.
Refuse ==
  /\ active
  /\ executed = counted
  /\ active' = FALSE
  /\ verdict' = "rejected"
  /\ session' = IF executed = 0 THEN session ELSE "desynchronized"
  /\ UNCHANGED <<size, executed, counted>>

\* Any other failure ends the session's use, and the verdict is "confirmed"
\* only if every packet is counted.
Fail ==
  /\ active
  /\ counted' \in {counted, counted + 1} /\ counted' <= executed
  /\ active' = FALSE
  /\ verdict' = IF counted' = size THEN "confirmed" ELSE "unknown"
  /\ session' \in {"closed", "desynchronized"}
  /\ UNCHANGED <<size, executed>>

\* Opening and closing between exchanges: never from desynchronized straight
\* to ready.
Reset ==
  /\ ~active
  /\ session' \in IF session = "desynchronized"
                    THEN {"closed", "desynchronized"}
                    ELSE {"closed", "ready", "desynchronized"}
  /\ UNCHANGED <<active, size, executed, counted, verdict>>

Next == Begin \/ Execute \/ Count \/ Succeed \/ Abort \/ Refuse \/ Fail \/ Reset

Spec == Init /\ [][Next]_contract

=============================================================================
