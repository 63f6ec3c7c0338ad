----------------------------- MODULE Transports ------------------------------
(***************************************************************************)
(* The UDP and the serial transport (transports.py), one call after the    *)
(* other, each call to the operating system a step that may fail.          *)
(*                                                                         *)
(* A resource is a socket or a serial port.  What arrives are items 1, 2,  *)
(* ...: datagrams of a socket, bytes of a port.                            *)
(***************************************************************************)
EXTENDS Integers, Sequences, FiniteSets

CONSTANTS
  Kinds,         \* the transports looked at: "udp", "serial"
  MaxResources,  \* bound: sockets and ports ever created
  MaxItems,      \* bound: items that arrive
  MaxFailures,   \* bound: calls to the system that fail
  ReceiveSize,   \* receive_size of the serial transport
  DrainLimit     \* limit of drain

ASSUME TransportsAssumption ==
  /\ Kinds \subseteq {"udp", "serial"}
  /\ ReceiveSize \in Nat \ {0} /\ DrainLimit \in Nat \ {0}

VARIABLES
  kind,       \* the transport
  handle,     \* _socket or _serial: a resource, or 0
  isOpen,     \* the resources the system holds open
  timeout,    \* for each resource, "own" or "given" by a receive
  pc,         \* where the running call is
  call,       \* its locals
  arrived,    \* how many items have arrived
  taken,      \* how many were read
  failures,   \* history: how many calls to the system failed
  unclosed,   \* history: resources whose close failed
  unrestored, \* history: resources whose timeout could not be restored
  returned,   \* history: the items returned to the caller
  gone,       \* history: items that went with an error or a closed resource
  outcome     \* history: how the last call ended

vars == <<kind, handle, isOpen, timeout, pc, call, arrived, taken, failures,
          unclosed, unrestored, returned, gone, outcome>>

histories == <<unclosed, unrestored, returned>>

Created == DOMAIN timeout

NoCall ==
  [op |-> "none", resource |-> 0, previous |-> "own", items |-> <<>>,
   drained |-> <<>>, left |-> 0, due |-> 0]

Init ==
  /\ kind \in Kinds /\ handle = 0 /\ isOpen = {} /\ timeout = <<>>
  /\ pc = "idle" /\ call = NoCall /\ arrived = 0 /\ taken = 0
  /\ failures = 0 /\ unclosed = {} /\ unrestored = {}
  /\ returned = <<>> /\ gone = {}
  /\ outcome = [op |-> "none", ok |-> TRUE, due |-> 0]

\* is_open: a port knows that it was closed, a socket is open while it is kept.
IsOpen == handle # 0 /\ (kind = "serial" => handle \in isOpen)

At(label) == pc = label

Go(label) == pc' = label /\ UNCHANGED <<kind, arrived, gone, outcome>>

Begin(op, label) ==
  /\ At("idle") /\ Go(label)
  /\ call' = [NoCall EXCEPT !.op = op, !.due = arrived, !.resource = handle,
                            !.left = IF op = "drain" THEN DrainLimit ELSE 0]
  /\ UNCHANGED <<handle, isOpen, timeout, taken, failures, histories>>

Unreturned == {i \in 1..taken : \A j \in DOMAIN returned : returned[j] # i}

\* A call returns, or raises and takes what it read with it.
End(ok) ==
  /\ pc' = "idle" /\ call' = NoCall
  /\ outcome' = [op |-> call.op, ok |-> ok, due |-> call.due]
  /\ UNCHANGED <<kind, arrived>>

Returns == End(TRUE) /\ UNCHANGED gone

Raises == End(FALSE) /\ gone' = gone \cup Unreturned

\* A call to the system fails.
Fails == failures < MaxFailures /\ failures' = failures + 1

Succeeds == UNCHANGED failures

-----------------------------------------------------------------------------
(* open and close.                                                         *)

Open ==
  /\ ~IsOpen
  /\ Begin("open", IF kind = "udp" THEN "route"
                   ELSE IF handle # 0 THEN "close stale" ELSE "create")

\* SerialTransport.open first closes a port that was closed behind its back.
CloseStale ==
  /\ At("close stale")
  /\ \/ /\ Succeeds /\ handle' = 0 /\ isOpen' = isOpen \ {handle}
        /\ Go("create") /\ UNCHANGED <<timeout, call, taken, histories>>
     \/ /\ Fails /\ unclosed' = unclosed \cup {handle} /\ Raises
        /\ UNCHANGED <<handle, isOpen, timeout, taken, unrestored, returned>>

New == Cardinality(Created) + 1

\* A socket or a port is created: the socket that finds the route, or the one
\* that is kept; a factory may return a port that is closed.
Create ==
  /\ pc \in {"route", "create"}
  /\ \/ /\ Fails /\ Raises
        /\ UNCHANGED <<handle, isOpen, timeout, taken, histories>>
     \/ /\ Succeeds /\ New <= MaxResources
        /\ timeout' = Append(timeout, "own")
        /\ call' = [call EXCEPT !.resource = New]
        /\ \E opened \in IF kind = "udp" THEN {TRUE} ELSE BOOLEAN :
             /\ isOpen' = IF opened THEN isOpen \cup {New} ELSE isOpen
             /\ Go(CASE ~opened      -> "clean up"
                     [] pc = "route" -> "connect route"
                     [] OTHER        -> "bind")
        /\ UNCHANGED <<handle, taken, histories>>

\* Mutant: an error while binding is passed on without closing the socket.
PassesOn == Raises

FailedBind == Go("clean up") /\ UNCHANGED call

\* The route's socket is connected, asked for its address, and closed; an error
\* of that close is passed on.
ConnectRoute ==
  /\ At("connect route")
  /\ \/ Succeeds /\ Go("close route")
     \/ Fails /\ Go("clean up")
  /\ UNCHANGED <<handle, isOpen, timeout, call, taken, histories>>

CloseRoute ==
  /\ At("close route")
  /\ \/ /\ Succeeds /\ isOpen' = isOpen \ {call.resource} /\ Go("create")
        /\ UNCHANGED <<call, unclosed>>
     \/ /\ Fails /\ unclosed' = unclosed \cup {call.resource} /\ Raises
        /\ UNCHANGED isOpen
  /\ UNCHANGED <<handle, timeout, taken, unrestored, returned>>

\* bind and connect; a port needs neither.
Bind ==
  /\ At("bind")
  /\ \/ Succeeds /\ handle' = call.resource /\ Returns
     \/ kind = "udp" /\ Fails /\ FailedBind /\ UNCHANGED handle
  /\ UNCHANGED <<isOpen, timeout, taken, histories>>

\* _close_after_failure: an error of the close goes into the first error.
CleanUp ==
  /\ At("clean up") /\ Raises
  /\ \/ Succeeds /\ isOpen' = isOpen \ {call.resource} /\ UNCHANGED unclosed
     \/ /\ Fails /\ unclosed' = unclosed \cup {call.resource}
        /\ UNCHANGED isOpen
  /\ UNCHANGED <<handle, timeout, taken, unrestored, returned>>

\* What arrived and was not read goes with the resource.
WaitingIsLost ==
  /\ taken' = arrived
  /\ gone' = gone \cup Unreturned \cup (taken + 1)..arrived

\* close, and __exit__, which only differ in the error that is raised.
Close == handle # 0 /\ Begin("close", "close")

CloseHandle ==
  /\ At("close")
  /\ \/ /\ Succeeds /\ handle' = 0 /\ isOpen' = isOpen \ {handle}
        /\ End(TRUE) /\ WaitingIsLost /\ UNCHANGED unclosed
     \/ /\ Fails /\ unclosed' = unclosed \cup {handle} /\ Raises
        /\ UNCHANGED <<handle, isOpen, taken>>
     \/ /\ Fails /\ unclosed' = unclosed \cup {handle} /\ End(FALSE)
        /\ isOpen' = isOpen \ {handle} /\ WaitingIsLost /\ UNCHANGED handle
  /\ UNCHANGED <<timeout, unrestored, returned>>

-----------------------------------------------------------------------------
(* send, receive and drain.                                                *)

Send == IsOpen /\ Begin("send", "send")

\* A write that fails or is short raises.
Write ==
  /\ At("send")
  /\ \/ Succeeds /\ handle \in isOpen /\ Returns
     \/ Fails /\ Raises
     \/ Succeeds /\ handle \notin isOpen /\ Raises
  /\ UNCHANGED <<handle, isOpen, timeout, taken, histories>>

Receive == IsOpen /\ Begin("receive", "set timeout")

Drain == IsOpen /\ Begin("drain", "set timeout")

SetTimeout ==
  /\ At("set timeout")
  /\ \/ /\ Succeeds
        /\ call' = [call EXCEPT !.previous = timeout[handle], !.items = <<>>]
        /\ timeout' = [timeout EXCEPT ![handle] = "given"]
        /\ Go("read")
     \/ Fails /\ Raises /\ UNCHANGED timeout
  /\ UNCHANGED <<handle, isOpen, taken, histories>>

Smaller(a, b) == IF a <= b THEN a ELSE b

\* A port may fail after its first byte was read.
First == IF kind = "serial" THEN 1 ELSE 0

\* How much one receive takes: a datagram, or a byte and what is waiting
\* behind it, as far as it fits.
MayTake ==
  IF kind = "udp" THEN {1}
  ELSE 1..Smaller(arrived - taken, ReceiveSize)

Read ==
  /\ At("read")
  /\ \/ /\ Succeeds /\ handle \in isOpen /\ taken = arrived
        /\ Go("restore") /\ UNCHANGED <<call, taken>>
     \/ /\ Succeeds /\ handle \in isOpen /\ taken < arrived
        /\ Go("restore")
        /\ \E n \in MayTake :
             /\ taken' = taken + n
             /\ call' = [call EXCEPT !.items = [i \in 1..n |-> taken + i]]
     \/ /\ Fails /\ Go("restore after failure") /\ UNCHANGED call
        /\ taken' \in {taken, Smaller(taken + First, arrived)}
     \/ /\ Succeeds /\ handle \notin isOpen /\ Go("restore after failure")
        /\ UNCHANGED <<call, taken>>
  /\ UNCHANGED <<handle, isOpen, timeout, histories>>

Restored ==
  timeout' = [timeout EXCEPT ![handle] = call.previous]

\* Mutant: the timeout is only restored when the read went well.
KeptAsItIs == UNCHANGED timeout

RestoredAfterFailure == Restored

\* _restore_after_failure.
RestoreAfterFailure ==
  /\ At("restore after failure") /\ Raises
  /\ \/ Succeeds /\ RestoredAfterFailure /\ UNCHANGED unrestored
     \/ /\ Fails /\ unrestored' = unrestored \cup {handle}
        /\ UNCHANGED timeout
  /\ UNCHANGED <<handle, isOpen, taken, unclosed, returned>>

\* Mutant: the read after the last one is not looked at.
LastReadDropped == Returns /\ returned' = returned \o call.drained

\* Input after limit reads: DrainLimitError.
OverLimit == Raises /\ UNCHANGED returned

\* _bounded_drain: read until nothing is left, and one time more after limit
\* reads.
AfterRead ==
  LET all == call.drained \o call.items
  IN  IF call.op = "receive" \/ call.items = <<>>
        THEN Returns /\ returned' = returned \o all
      ELSE IF call.left = 0 THEN OverLimit
      ELSE /\ Go("set timeout")
           /\ call' = [call EXCEPT !.drained = all, !.left = @ - 1]
           /\ UNCHANGED returned

Restore ==
  /\ At("restore")
  /\ \/ Succeeds /\ Restored /\ AfterRead /\ UNCHANGED unrestored
     \/ /\ Fails /\ Raises /\ unrestored' = unrestored \cup {handle}
        /\ UNCHANGED <<timeout, returned>>
  /\ UNCHANGED <<handle, isOpen, taken, unclosed>>

-----------------------------------------------------------------------------
(* The world.                                                              *)

Arrive ==
  /\ handle \in isOpen /\ arrived < MaxItems /\ arrived' = arrived + 1
  /\ UNCHANGED <<kind, handle, isOpen, timeout, pc, call, taken, failures,
                 histories, gone, outcome>>

\* Somebody else closes the port.
Detach ==
  /\ kind = "serial" /\ At("idle") /\ handle \in isOpen
  /\ isOpen' = isOpen \ {handle} /\ WaitingIsLost
  /\ UNCHANGED <<kind, handle, timeout, pc, call, arrived, failures,
                 histories, outcome>>

Next ==
  \/ Open \/ CloseStale \/ Create \/ ConnectRoute \/ CloseRoute \/ Bind
  \/ CleanUp \/ Close \/ CloseHandle
  \/ Send \/ Write \/ Receive \/ Drain \/ SetTimeout \/ Read
  \/ RestoreAfterFailure \/ Restore
  \/ Arrive \/ Detach

Spec == Init /\ [][Next]_vars

-----------------------------------------------------------------------------
(* Properties.                                                             *)

\* Between calls the system holds nothing open but what the transport keeps,
\* and what could not be closed: however often opening failed and wherever.
NothingLeaks ==
  At("idle") => isOpen \subseteq {handle} \cup unclosed

\* A send never runs with the timeout of a receive, which could make it fail
\* although it only had to wait: receives and drains that fail restore it, too.
SendsMayWait ==
  (At("send") /\ handle \notin unrestored) => timeout[handle] = "own"

\* Items are returned in their order and none twice, and every item that was
\* read is returned unless an error was raised; a drain that returns has taken
\* everything that was there when it was called.
ReadsAreWhole ==
  /\ \A i, j \in DOMAIN returned : i < j => returned[i] < returned[j]
  /\ At("idle") =>
       /\ Unreturned \subseteq gone
       /\ (outcome.op = "drain" /\ outcome.ok) => taken >= outcome.due

=============================================================================
