-------------------------- MODULE TransportsProofs ---------------------------
(***************************************************************************)
(* Theorems about Transports, for any number of resources, items and       *)
(* failures of the system.                                                 *)
(*                                                                         *)
(* ResourceInv, TimeoutInv and ReadInv say what a call in progress holds:  *)
(* a resource that is not kept yet, a timeout that is not restored yet,    *)
(* items that are not returned yet.                                        *)
(***************************************************************************)
EXTENDS Transports, FiniteSetTheorems, TLAPS

Opening == {"route", "create", "connect route", "close route", "bind",
            "clean up"}
Holding == {"connect route", "close route", "bind", "clean up"}
Reading == {"read", "restore", "restore after failure"}
Label == Opening \cup Reading
           \cup {"idle", "close stale", "close", "send", "set timeout"}

Operation == {"none", "open", "close", "send", "receive", "drain"}

Call ==
  [op : Operation, resource : Nat, previous : {"own", "given"},
   items : Seq(Nat), drained : Seq(Nat), left : Nat, due : Nat]

\* Every variable stays in its range.
TypeOK ==
  /\ kind \in Kinds /\ pc \in Label /\ call \in Call
  /\ timeout \in Seq({"own", "given"})
  /\ handle \in Nat /\ handle <= Len(timeout)
  /\ isOpen \subseteq 1..Len(timeout)
  /\ arrived \in Nat /\ taken \in Nat /\ taken <= arrived
  /\ returned \in Seq(Nat) /\ gone \subseteq Nat
  /\ outcome \in [op : Operation, ok : BOOLEAN, due : Nat]

\* A call that opens holds at most one resource besides those that could not be
\* closed; every other call has the resource the transport keeps.
ResourceInv ==
  /\ isOpen \subseteq {handle} \cup unclosed
                      \cup (IF pc \in Holding THEN {call.resource} ELSE {})
  /\ pc \in Opening => handle = 0
  /\ pc \in Holding => call.resource \in 1..Len(timeout)
  /\ pc \in Reading \cup {"close stale", "close", "send", "set timeout"}
       => handle # 0

\* A timeout that is not the resource's own will be restored to it, or an error
\* said that it could not be.
TimeoutInv ==
  /\ \A r \in 1..Len(timeout) : r \notin unrestored =>
       timeout[r] = "own" \/ (r = handle /\ pc \in Reading)
  /\ (pc \in Reading /\ handle \notin unrestored) => call.previous = "own"

\* What the running call has read and not returned.
Held ==
  IF pc = "restore" THEN call.drained \o call.items ELSE call.drained

Ordered(s) == \A i, j \in DOMAIN s : i < j => s[i] < s[j]
Before(s, t) == \A i \in DOMAIN s, j \in DOMAIN t : s[i] < t[j]
Within(s, n) == \A i \in DOMAIN s : s[i] \in 1..n
Occurs(s, i) == \E j \in DOMAIN s : s[j] = i

\* Every item read is returned, held or gone, in the order of arrival; a receive
\* that found nothing has seen everything there was.
ReadInv ==
  /\ Ordered(returned) /\ Ordered(Held) /\ Before(returned, Held)
  /\ Within(returned, taken) /\ Within(Held, taken)
  /\ pc # "restore after failure" =>
       \A i \in 1..taken : i \in gone \/ Occurs(returned, i) \/ Occurs(Held, i)
  /\ pc = "read" => call.items = <<>>
  /\ pc \notin Reading \cup {"set timeout"}
       => call.drained = <<>> /\ call.op # "drain"
  /\ call.due <= arrived
  /\ (pc = "restore" /\ call.items = <<>>) => taken >= call.due
  /\ (pc = "idle" /\ outcome.op = "drain" /\ outcome.ok) => taken >= outcome.due

-----------------------------------------------------------------------------
(* Type correctness.                                                       *)

\* Resources are numbered as they are created.
LEMMA Numbering ==
  ASSUME TypeOK PROVE Created = 1..Len(timeout) /\ New = Len(timeout) + 1
<1>1. Created = 1..Len(timeout) /\ Len(timeout) \in Nat
  BY DEF TypeOK, Created
<1>2. \A n \in Nat : Cardinality(1..n) = n
  BY FS_Interval
<1> QED
  BY <1>1, <1>2 DEF New

\* The initial state has its types.
LEMMA InitTyped == Init => TypeOK
<1> SUFFICES ASSUME Init PROVE TypeOK
  OBVIOUS
<1>1. NoCall \in Call
  <2>1. <<>> \in Seq(Nat)
    OBVIOUS
  <2> QED
    BY <2>1 DEF NoCall, Call, Operation
<1>2. timeout \in Seq({"own", "given"}) /\ Len(timeout) = 0 /\ returned \in Seq(Nat)
  BY DEF Init
<1> QED
  BY <1>1, <1>2 DEF Init, TypeOK, Label, Operation

\* What the rest of a state needs, once the locals of its call are typed.
LEMMA FrameTyped ==
  ASSUME TypeOK, pc' \in Label, call' \in Call, gone' \subseteq Nat,
         outcome' \in [op : Operation, ok : BOOLEAN, due : Nat],
         UNCHANGED <<kind, timeout, arrived, returned>>,
         isOpen' \subseteq isOpen, handle' \in {0, handle},
         taken' \in {taken, arrived}
  PROVE  TypeOK'
BY DEF TypeOK

\* A call that ends leaves no locals.
LEMMA EndTyped ==
  ASSUME TypeOK, NEW ok \in BOOLEAN, End(ok)
  PROVE  /\ pc' \in Label /\ call' \in Call /\ UNCHANGED <<kind, arrived>>
         /\ outcome' \in [op : Operation, ok : BOOLEAN, due : Nat]
<1>1. NoCall \in Call
  <2>1. <<>> \in Seq(Nat)
    OBVIOUS
  <2> QED
    BY <2>1 DEF NoCall, Call, Operation
<1> QED
  BY <1>1 DEF End, TypeOK, Label, Call

\* So does one that raises.
LEMMA RaisesTyped ==
  ASSUME TypeOK, Raises
  PROVE  /\ pc' \in Label /\ call' \in Call /\ UNCHANGED <<kind, arrived>>
         /\ outcome' \in [op : Operation, ok : BOOLEAN, due : Nat]
         /\ gone' \subseteq Nat
<1>1. End(FALSE) /\ gone' = gone \cup Unreturned
  BY DEF Raises
<1>2. gone \subseteq Nat /\ Unreturned \subseteq Nat
  BY DEF TypeOK, Unreturned
<1> QED
  BY <1>1, <1>2, EndTyped

\* Items that are lost are items.
LEMMA WaitingTyped ==
  ASSUME TypeOK, WaitingIsLost PROVE gone' \subseteq Nat /\ taken' = arrived
<1>1. gone \subseteq Nat /\ Unreturned \subseteq Nat /\ taken \in Nat /\ arrived \in Nat
  BY DEF TypeOK, Unreturned
<1>2. (taken + 1)..arrived \subseteq Nat
  BY <1>1
<1> QED
  BY <1>1, <1>2 DEF WaitingIsLost

\* A step within a call that keeps its locals.
LEMMA GoTyped ==
  ASSUME TypeOK, NEW l \in Label, Go(l), UNCHANGED <<call, timeout, returned>>,
         isOpen' \subseteq isOpen, handle' \in {0, handle}, taken' = taken
  PROVE  TypeOK'
<1>1. pc' \in Label /\ call' \in Call /\ gone' \subseteq Nat
      /\ UNCHANGED <<kind, arrived, outcome>>
  BY DEF Go, TypeOK
<1>2. outcome' \in [op : Operation, ok : BOOLEAN, due : Nat]
  BY <1>1 DEF TypeOK
<1> QED
  BY <1>1, <1>2, FrameTyped

\* A call begins with typed locals.
LEMMA BeginTyped ==
  ASSUME TypeOK, NEW op \in Operation, NEW l \in Label, Begin(op, l)
  PROVE  TypeOK'
<1>1. call' \in Call
  <2>1. <<>> \in Seq(Nat)
    OBVIOUS
  <2> QED
    BY <2>1, TransportsAssumption
    DEF Begin, NoCall, Call, TypeOK, Operation, TransportsAssumption
<1> QED
  BY <1>1 DEF Begin, Go, TypeOK, histories

\* Opening a transport keeps the types.
LEMMA OpeningTyped ==
  ASSUME TypeOK, ResourceInv,
         CloseStale \/ Create \/ ConnectRoute \/ CloseRoute \/ Bind \/ CleanUp
  PROVE  TypeOK'
<1> USE DEF histories
<1>0. {"idle", "create", "close route", "clean up"} \subseteq Label
  BY DEF Label, Opening
<1>1. CASE CloseStale
  <2>1. CASE Raises
    BY <1>1, <2>1, RaisesTyped, FrameTyped DEF CloseStale, Go
  <2>2. CASE ~Raises
    BY <1>0, <1>1, <2>2, GoTyped DEF CloseStale
  <2> QED
    BY <2>1, <2>2
<1>2. CASE Create
  <2>1. CASE Raises /\ UNCHANGED <<handle, isOpen, timeout, taken, histories>>
    BY <2>1, RaisesTyped, FrameTyped
  <2>2. ASSUME NEW opened \in BOOLEAN,
               timeout' = Append(timeout, "own"),
               call' = [call EXCEPT !.resource = New],
               isOpen' = IF opened THEN isOpen \cup {New} ELSE isOpen,
               Go(CASE ~opened      -> "clean up"
                    [] pc = "route" -> "connect route"
                    [] OTHER        -> "bind"),
               UNCHANGED <<handle, taken, histories>>
        PROVE  TypeOK'
    <3>1. New = Len(timeout) + 1 /\ Len(timeout) \in Nat
      BY Numbering DEF TypeOK
    <3>2. timeout' \in Seq({"own", "given"}) /\ Len(timeout') = Len(timeout) + 1
      <4>1. timeout \in Seq({"own", "given"}) /\ timeout' = Append(timeout, "own")
        BY <2>2 DEF TypeOK
      <4> QED
        BY <4>1
    <3>3. call' \in Call
      <4>1. call \in Call /\ New \in Nat
        BY <3>1 DEF TypeOK
      <4> QED
        BY <2>2, <4>1 DEF Call
    <3>4. isOpen \subseteq 1..Len(timeout) /\ handle \in Nat /\ handle <= Len(timeout)
      BY DEF TypeOK
    <3>5. handle' \in Nat /\ handle' <= Len(timeout')
      <4>1. handle' = handle
        BY <2>2
      <4> QED
        BY <3>1, <3>2, <3>4, <4>1
    <3>7. isOpen' \subseteq 1..Len(timeout')
      <4>1. isOpen' \subseteq isOpen \cup {New}
        BY <2>2
      <4>2. \A r \in 1..Len(timeout) \cup {New} : r \in 1..(Len(timeout) + 1)
        BY <3>1
      <4> QED
        BY <3>2, <3>4, <4>1, <4>2
    <3>6. pc' \in Label /\ UNCHANGED <<kind, arrived, gone, outcome>>
      BY <2>2 DEF Go, Label, Opening
    <3> QED
      BY <2>2, <3>2, <3>3, <3>5, <3>6, <3>7 DEF TypeOK
  <2> QED
    BY <1>2, <2>1, <2>2 DEF Create
<1>3. CASE ConnectRoute
  BY <1>0, <1>3, GoTyped DEF ConnectRoute
<1>4. CASE CloseRoute
  <2>1. CASE Raises
    BY <1>4, <2>1, RaisesTyped, FrameTyped DEF CloseRoute, Go
  <2>2. CASE ~Raises
    BY <1>0, <1>4, <2>2, GoTyped DEF CloseRoute
  <2> QED
    BY <2>1, <2>2
<1>5. CASE Bind
  <2>1. CASE FailedBind /\ UNCHANGED <<handle, isOpen, timeout, taken, histories>>
    BY <1>0, <2>1, GoTyped DEF FailedBind
  <2>2. CASE /\ Returns /\ handle' = call.resource /\ pc = "bind"
             /\ UNCHANGED <<isOpen, timeout, taken, histories>>
    <3>1. /\ pc' \in Label /\ call' \in Call /\ UNCHANGED <<kind, arrived, gone>>
          /\ outcome' \in [op : Operation, ok : BOOLEAN, due : Nat]
      BY <2>2, EndTyped DEF Returns
    <3>2. handle' \in Nat /\ handle' <= Len(timeout)
      BY <2>2 DEF ResourceInv, Holding, TypeOK
    <3> QED
      BY <2>2, <3>1, <3>2 DEF TypeOK
  <2> QED
    BY <1>5, <2>1, <2>2 DEF Bind, At
<1>6. CASE CleanUp
  BY <1>6, RaisesTyped, FrameTyped DEF CleanUp
<1> QED
  BY <1>1, <1>2, <1>3, <1>4, <1>5, <1>6

\* Closing a transport keeps the types.
LEMMA ClosingTyped ==
  ASSUME TypeOK, CloseHandle \/ Detach
  PROVE  TypeOK'
<1> USE DEF histories
<1>1. CASE CloseHandle
  <2>1. CASE Raises
    BY <1>1, <2>1, RaisesTyped, FrameTyped DEF CloseHandle, End, Go, WaitingIsLost
  <2>2. CASE ~Raises
    <3>1. PICK ok \in BOOLEAN : End(ok)
      BY <1>1, <2>2 DEF CloseHandle
    <3>2. /\ WaitingIsLost /\ UNCHANGED <<timeout, returned>>
          /\ isOpen' \subseteq isOpen /\ handle' \in {0, handle}
      BY <1>1, <2>2 DEF CloseHandle
    <3>3. gone' \subseteq Nat /\ taken' = arrived
      BY <3>2, WaitingTyped
    <3> QED
      BY <3>1, <3>2, <3>3, EndTyped, FrameTyped
  <2> QED
    BY <2>1, <2>2
<1>2. CASE Detach
  <2>1. gone' \subseteq Nat /\ taken' = arrived
    BY <1>2, WaitingTyped DEF Detach
  <2>2. /\ isOpen' \subseteq isOpen
        /\ UNCHANGED <<kind, handle, timeout, pc, call, arrived, returned, outcome>>
    BY <1>2 DEF Detach
  <2>3. pc' \in Label /\ call' \in Call
        /\ outcome' \in [op : Operation, ok : BOOLEAN, due : Nat]
    BY <2>2 DEF TypeOK
  <2> QED
    BY <2>1, <2>2, <2>3, FrameTyped
<1> QED
  BY <1>1, <1>2

\* Sending and receiving keep the types.
LEMMA TransferTyped ==
  ASSUME TypeOK, ResourceInv,
         Write \/ SetTimeout \/ Read \/ RestoreAfterFailure \/ Restore
  PROVE  TypeOK'
<1> USE DEF histories
<1>0. {"read", "restore", "restore after failure", "set timeout"} \subseteq Label
  BY DEF Label, Reading
<1>1. CASE Write
  <2>1. CASE Raises
    BY <1>1, <2>1, RaisesTyped, FrameTyped DEF Write
  <2>2. CASE Returns
    <3>1. gone' \subseteq Nat
      BY <2>2 DEF Returns, TypeOK
    <3> QED
      BY <1>1, <2>2, <3>1, EndTyped, FrameTyped DEF Write, Returns
  <2> QED
    BY <1>1, <2>1, <2>2 DEF Write
<1>2. ASSUME NEW v \in {"own", "given"}, timeout' = [timeout EXCEPT ![handle] = v]
      PROVE  timeout' \in Seq({"own", "given"}) /\ Len(timeout') = Len(timeout)
  <2> DEFINE A == {"own", "given"}
  <2>1. timeout \in [1..Len(timeout) -> A] /\ Len(timeout) \in Nat
    BY DEF TypeOK
  <2>2. timeout' \in [1..Len(timeout) -> A]
    BY <1>2, <2>1
  <2> QED
    BY <2>1, <2>2
<1>3. ASSUME timeout' \in Seq({"own", "given"}), Len(timeout') = Len(timeout),
             pc' \in Label, call' \in Call, gone' \subseteq Nat,
             outcome' \in [op : Operation, ok : BOOLEAN, due : Nat],
             UNCHANGED <<kind, arrived, isOpen, handle, taken>>,
             returned' \in Seq(Nat)
      PROVE  TypeOK'
  BY <1>3 DEF TypeOK
<1>4. CASE SetTimeout
  <2>1. CASE Raises /\ UNCHANGED <<handle, isOpen, taken, timeout, histories>>
    BY <2>1, RaisesTyped, FrameTyped
  <2>2. CASE ~(Raises /\ UNCHANGED <<handle, isOpen, taken, timeout, histories>>)
    <3>1. /\ call' = [call EXCEPT !.previous = timeout[handle], !.items = <<>>]
          /\ timeout' = [timeout EXCEPT ![handle] = "given"]
          /\ Go("read") /\ UNCHANGED <<handle, isOpen, taken, histories>>
          /\ pc = "set timeout"
      BY <1>4, <2>2 DEF SetTimeout, At
    <3>2. handle \in 1..Len(timeout)
      <4>1. handle # 0
        BY <3>1 DEF ResourceInv
      <4>2. handle \in Nat /\ handle <= Len(timeout) /\ Len(timeout) \in Nat
        BY DEF TypeOK
      <4> QED
        BY <4>1, <4>2
    <3>3. timeout[handle] \in {"own", "given"}
      <4>1. timeout \in Seq({"own", "given"})
        BY DEF TypeOK
      <4> QED
        BY <3>2, <4>1
    <3>4. call' \in Call
      <4>1. call \in Call /\ <<>> \in Seq(Nat)
        BY DEF TypeOK
      <4> QED
        BY <3>1, <3>3, <4>1 DEF Call
    <3>5. gone' \subseteq Nat /\ returned' \in Seq(Nat)
          /\ outcome' \in [op : Operation, ok : BOOLEAN, due : Nat]
      BY <3>1 DEF TypeOK, Go
    <3> QED
      BY <1>0, <1>2, <1>3, <3>1, <3>4, <3>5 DEF Go
  <2> QED
    BY <2>1, <2>2
<1>5. CASE Read
  <2>1. /\ pc' \in Label /\ UNCHANGED <<kind, arrived, gone, outcome>>
        /\ UNCHANGED <<handle, isOpen, timeout, returned>>
    BY <1>0, <1>5 DEF Read, Go
  <2>2. call \in Call /\ taken \in Nat /\ arrived \in Nat /\ taken <= arrived
        /\ ReceiveSize \in Nat
    BY TransportsAssumption DEF TypeOK, TransportsAssumption
  <2>3. call' \in Call /\ taken' \in Nat /\ taken' <= arrived
    <3>1. CASE UNCHANGED <<call, taken>>
      BY <2>2, <3>1
    <3>2. ASSUME NEW n \in MayTake, taken < arrived, taken' = taken + n,
                 call' = [call EXCEPT !.items = [i \in 1..n |-> taken + i]]
          PROVE  call' \in Call /\ taken' \in Nat /\ taken' <= arrived
      <4>1. n \in Nat /\ taken + n <= arrived
        BY <2>2, <3>2 DEF MayTake, Smaller
      <4> DEFINE new == [i \in 1..n |-> taken + i]
      <4>2. new \in Seq(Nat)
        BY <2>2, <4>1
      <4>3. [call EXCEPT !.items = new] \in Call
        <5> HIDE DEF new
        <5> QED
          BY <2>2, <4>2 DEF Call
      <4> QED
        BY <2>2, <3>2, <4>1, <4>3
    <3>3. CASE call' = call /\ taken' \in {taken, Smaller(taken + First, arrived)}
      BY <2>2, <3>3 DEF Smaller, First
    <3> QED
      BY <1>5, <3>1, <3>2, <3>3 DEF Read
  <2>4. gone' \subseteq Nat /\ returned' \in Seq(Nat)
        /\ outcome' \in [op : Operation, ok : BOOLEAN, due : Nat]
    BY <2>1 DEF TypeOK
  <2> QED
    BY <2>1, <2>2, <2>3, <2>4 DEF TypeOK
<1>6. call.previous \in {"own", "given"}
  BY DEF TypeOK, Call
<1>7. CASE RestoreAfterFailure
  <2>1. /\ Raises /\ UNCHANGED <<handle, isOpen, taken, returned>>
        /\ Restored \/ timeout' = timeout
    BY <1>7 DEF RestoreAfterFailure, RestoredAfterFailure
  <2>2. timeout' \in Seq({"own", "given"}) /\ Len(timeout') = Len(timeout)
    BY <1>2, <1>6, <2>1 DEF Restored, TypeOK
  <2>3. returned' \in Seq(Nat)
    BY <2>1 DEF TypeOK
  <2> QED
    BY <1>3, <2>1, <2>2, <2>3, RaisesTyped
<1>8. CASE Restore
  <2>1. CASE Raises /\ UNCHANGED <<timeout, returned, handle, isOpen, taken>>
    BY <2>1, RaisesTyped, FrameTyped
  <2>2. CASE Restored /\ AfterRead /\ UNCHANGED <<handle, isOpen, taken>>
    <3>1. timeout' \in Seq({"own", "given"}) /\ Len(timeout') = Len(timeout)
      BY <1>2, <1>6, <2>2 DEF Restored
    <3>2. /\ call.drained \o call.items \in Seq(Nat) /\ returned \in Seq(Nat)
          /\ call \in Call /\ call.left \in Nat /\ call.drained \in Seq(Nat)
          /\ call.items \in Seq(Nat)
      BY DEF TypeOK, Call
    <3>3. CASE Returns /\ returned' = returned \o (call.drained \o call.items)
      <4>1. returned' \in Seq(Nat)
        BY <3>2, <3>3
      <4>2. gone' \subseteq Nat
        BY <3>3 DEF Returns, TypeOK
      <4> QED
        BY <1>3, <2>2, <3>1, <3>3, <4>1, <4>2, EndTyped DEF Returns
    <3>4. CASE OverLimit
      <4>1. returned' \in Seq(Nat)
        BY <3>2, <3>4 DEF OverLimit
      <4> QED
        BY <1>3, <2>2, <3>1, <3>4, <4>1, RaisesTyped DEF OverLimit
    <3>5. CASE /\ Go("set timeout") /\ returned' = returned /\ call.left # 0
               /\ call' = [call EXCEPT !.drained = call.drained \o call.items,
                                       !.left = @ - 1]
      <4>1. call.left - 1 \in Nat
        <5>1. call.left \in Nat /\ call.left # 0
          BY <3>2, <3>5
        <5> QED
          BY <5>1
      <4>2. call' \in Call
        BY <3>2, <3>5, <4>1 DEF Call
      <4>3. returned' \in Seq(Nat)
        BY <3>2, <3>5
      <4>4. gone' \subseteq Nat
            /\ outcome' \in [op : Operation, ok : BOOLEAN, due : Nat]
        BY <3>5 DEF Go, TypeOK
      <4> QED
        BY <1>0, <1>3, <2>2, <3>1, <3>5, <4>2, <4>3, <4>4 DEF Go
    <3> QED
      BY <2>2, <3>3, <3>4, <3>5 DEF AfterRead
  <2> QED
    BY <1>8, <2>1, <2>2 DEF Restore
<1> QED
  BY <1>1, <1>4, <1>5, <1>7, <1>8

\* Calls begin, and items arrive.
LEMMA BeginningTyped ==
  ASSUME TypeOK, Open \/ Close \/ Send \/ Receive \/ Drain \/ Arrive
  PROVE  TypeOK'
<1>1. CASE Arrive
  <2>1. /\ UNCHANGED <<kind, handle, isOpen, timeout, pc, call, taken, returned,
                       gone, outcome>>
        /\ arrived' = arrived + 1
    BY <1>1 DEF Arrive, histories
  <2> QED
    BY <2>1 DEF TypeOK
<1>2. CASE ~Arrive
  <2>1. PICK o \in Operation, l \in Label : Begin(o, l)
    BY <1>2 DEF Open, Close, Send, Receive, Drain, Operation, Label, Opening
  <2> QED
    BY <2>1, BeginTyped
<1> QED
  BY <1>1, <1>2

\* A step that changes nothing keeps the types.
LEMMA NextTyped ==
  ASSUME TypeOK, ResourceInv, [Next]_vars PROVE TypeOK'
<1>1. CASE UNCHANGED vars
  BY <1>1 DEF vars, TypeOK
<1> QED
  BY <1>1, OpeningTyped, ClosingTyped, TransferTyped, BeginningTyped DEF Next

-----------------------------------------------------------------------------
(* Resources.                                                              *)

\* A call that opens closes what it created, or it is kept.
LEMMA OpeningHolds ==
  ASSUME TypeOK, ResourceInv,
         CloseStale \/ Create \/ ConnectRoute \/ CloseRoute \/ Bind \/ CleanUp
  PROVE  ResourceInv'
<1> USE DEF At, Go, Raises, Returns, End, NoCall, Opening, Holding, Reading,
            histories
<1>1. CASE CloseStale
  BY <1>1 DEF CloseStale, ResourceInv
<1>2. CASE Create
  <2>1. CASE Raises /\ UNCHANGED <<handle, isOpen, timeout, taken, histories>>
    BY <1>2, <2>1 DEF Create, ResourceInv
  <2>2. ASSUME NEW opened \in BOOLEAN,
               timeout' = Append(timeout, "own"),
               call' = [call EXCEPT !.resource = New],
               isOpen' = IF opened THEN isOpen \cup {New} ELSE isOpen,
               Go(CASE ~opened      -> "clean up"
                    [] pc = "route" -> "connect route"
                    [] OTHER        -> "bind"),
               UNCHANGED <<handle, taken, histories>>
        PROVE  ResourceInv'
    <3>1. handle' = 0 /\ pc' \in Holding /\ unclosed' = unclosed
      BY <1>2, <2>2 DEF Create, ResourceInv
    <3>2. call'.resource = New /\ New \in 1..Len(timeout')
      <4>1. call'.resource = New
        BY <2>2 DEF TypeOK, Call
      <4>2. New = Len(timeout) + 1 /\ Len(timeout) \in Nat
        BY Numbering DEF TypeOK
      <4>3. Len(timeout') = Len(timeout) + 1
        <5>1. timeout \in Seq({"own", "given"}) /\ timeout' = Append(timeout, "own")
          BY <2>2 DEF TypeOK
        <5> QED
          BY <5>1
      <4> QED
        BY <4>1, <4>2, <4>3
    <3>3. isOpen \subseteq {handle'} \cup unclosed
      BY <1>2, <3>1, <2>2 DEF Create, ResourceInv
    <3>4. isOpen' \subseteq isOpen \cup {New}
      BY <2>2
    <3> QED
      BY <3>1, <3>2, <3>3, <3>4 DEF ResourceInv
  <2> QED
    BY <1>2, <2>1, <2>2 DEF Create
<1>3. CASE ConnectRoute
  BY <1>3 DEF ConnectRoute, ResourceInv
<1>4. CASE CloseRoute
  BY <1>4 DEF CloseRoute, ResourceInv
<1>5. CASE Bind
  <2>1. 0 \notin isOpen
    BY DEF TypeOK
  <2>2. /\ pc = "bind" /\ UNCHANGED <<isOpen, timeout, unclosed>>
        /\ \/ pc' = "idle" /\ handle' = call.resource
           \/ pc' = "clean up" /\ UNCHANGED <<handle, call>>
    BY <1>5 DEF Bind, FailedBind
  <2> QED
    BY <2>1, <2>2 DEF ResourceInv
<1>6. CASE CleanUp
  BY <1>6 DEF CleanUp, ResourceInv
<1> QED
  BY <1>1, <1>2, <1>3, <1>4, <1>5, <1>6

\* Every other step leaves the resources to the transport, or closes its own.
LEMMA ResourcesKept ==
  ASSUME TypeOK, ResourceInv, [Next]_vars PROVE ResourceInv'
<1> USE DEF At, Go, Raises, Returns, End, NoCall, Opening, Holding, Reading,
            histories
<1>1. CASE Open \/ Close \/ Send \/ Receive \/ Drain
  <2>1. IsOpen => handle # 0
    BY DEF IsOpen
  <2>2. Open => (handle = 0 \/ kind = "serial") /\ kind \in {"udp", "serial"}
    BY TransportsAssumption
    DEF Open, IsOpen, TypeOK, TransportsAssumption
  <2> QED
    BY <1>1, <2>1, <2>2
    DEF Open, Close, Send, Receive, Drain, Begin, ResourceInv
<1>2. CASE CloseHandle
  BY <1>2 DEF CloseHandle, ResourceInv
<1>3. CASE Detach
  BY <1>3 DEF Detach, ResourceInv
<1>4. CASE Write
  BY <1>4 DEF Write, ResourceInv
<1>5. CASE SetTimeout
  BY <1>5 DEF SetTimeout, ResourceInv
<1>6. CASE Read
  <2>1. /\ pc = "read" /\ pc' \in {"restore", "restore after failure"}
        /\ UNCHANGED <<handle, isOpen, timeout, unclosed>>
    BY <1>6 DEF Read
  <2> QED
    BY <2>1 DEF ResourceInv
<1>7. CASE RestoreAfterFailure
  BY <1>7 DEF RestoreAfterFailure, ResourceInv
<1>8. CASE Restore
  <2>1. /\ pc = "restore" /\ pc' \in {"idle", "set timeout"}
        /\ UNCHANGED <<handle, isOpen, unclosed>>
    BY <1>8 DEF Restore, AfterRead, OverLimit
  <2> QED
    BY <2>1 DEF ResourceInv
<1>9. CASE Arrive \/ UNCHANGED vars
  BY <1>9 DEF Arrive, vars, ResourceInv
<1> QED
  BY <1>1, <1>2, <1>3, <1>4, <1>5, <1>6, <1>7, <1>8, <1>9, OpeningHolds DEF Next

\* The resources of every reachable state.
LEMMA ResourcesHold == Spec => [](TypeOK /\ ResourceInv)
<1>1. Init => TypeOK /\ ResourceInv
  BY InitTyped DEF Init, ResourceInv, Opening, Holding, Reading
<1>2. TypeOK /\ ResourceInv /\ [Next]_vars => (TypeOK /\ ResourceInv)'
  BY NextTyped, ResourcesKept
<1> QED
  BY <1>1, <1>2, PTL DEF Spec

\* Between calls nothing is open but what the transport keeps and what could
\* not be closed.
THEOREM TransportsLeakNothing == Spec => []NothingLeaks
<1>1. ResourceInv => NothingLeaks
  BY DEF ResourceInv, NothingLeaks, At, Holding
<1> QED
  BY <1>1, ResourcesHold, PTL

-----------------------------------------------------------------------------
(* Timeouts.                                                               *)

\* A step that leaves the timeouts alone and is not part of a read.
LEMMA TimeoutsUntouched ==
  ASSUME TypeOK, TimeoutInv, pc \notin Reading, pc' \notin Reading,
         UNCHANGED <<timeout, unrestored>>
  PROVE  TimeoutInv'
BY DEF TimeoutInv

\* A timeout that is put back is the resource's own.
LEMMA TimeoutRestored ==
  ASSUME TypeOK, ResourceInv, TimeoutInv, pc \in Reading, pc' \notin Reading,
         handle' = handle,
         \/ Restored /\ unrestored' = unrestored
         \/ UNCHANGED timeout /\ unrestored' = unrestored \cup {handle}
  PROVE  TimeoutInv'
<1>1. handle # 0 /\ handle \in Nat /\ handle <= Len(timeout)
      /\ timeout \in [1..Len(timeout) -> {"own", "given"}] /\ Len(timeout) \in Nat
  BY DEF ResourceInv, TypeOK
<1>2. CASE Restored /\ unrestored' = unrestored
  <2>1. timeout' = [timeout EXCEPT ![handle] = call.previous]
    BY <1>2 DEF Restored
  <2>2. Len(timeout') = Len(timeout)
    BY <1>1, <2>1
  <2>3. \A r \in 1..Len(timeout) :
          timeout'[r] = IF r = handle THEN call.previous ELSE timeout[r]
    BY <1>1, <2>1
  <2> QED
    BY <1>2, <2>2, <2>3 DEF TimeoutInv
<1>3. CASE UNCHANGED timeout /\ unrestored' = unrestored \cup {handle}
  BY <1>3 DEF TimeoutInv
<1> QED
  BY <1>2, <1>3

\* Every step keeps the promise that a timeout is restored.
LEMMA TimeoutsKept ==
  ASSUME TypeOK, ResourceInv, TimeoutInv, [Next]_vars PROVE TimeoutInv'
<1> USE DEF At, Go, Raises, Returns, End, Opening, Reading, histories
<1>1. CASE \/ Open \/ CloseStale \/ ConnectRoute \/ CloseRoute \/ Bind \/ CleanUp
           \/ Close \/ CloseHandle \/ Send \/ Write \/ Receive \/ Drain \/ Detach
  <2>1. pc \notin Reading /\ pc' \notin Reading
    BY <1>1
    DEF Open, CloseStale, ConnectRoute, CloseRoute, Bind, FailedBind, CleanUp,
        Close, CloseHandle, Send, Write, Receive, Drain, Detach, Begin
  <2>2. UNCHANGED <<timeout, unrestored>>
    BY <1>1
    DEF Open, CloseStale, ConnectRoute, CloseRoute, Bind, FailedBind, CleanUp,
        Close, CloseHandle, Send, Write, Receive, Drain, Detach, Begin
  <2> QED
    BY <2>1, <2>2, TimeoutsUntouched
<1>2. CASE Create
  <2>1. /\ pc \notin Reading /\ pc' \notin Reading /\ unrestored' = unrestored
        /\ timeout' = timeout \/ timeout' = Append(timeout, "own")
    BY <1>2 DEF Create
  <2>2. CASE timeout' = timeout
    BY <2>1, <2>2, TimeoutsUntouched
  <2>3. CASE timeout' = Append(timeout, "own")
    <3>1. timeout \in Seq({"own", "given"})
      BY DEF TypeOK
    <3>2. Len(timeout') = Len(timeout) + 1 /\ Len(timeout) \in Nat
      BY <2>3, <3>1
    <3>3. \A r \in 1..(Len(timeout) + 1) :
            timeout'[r] = IF r = Len(timeout) + 1 THEN "own" ELSE timeout[r]
      BY <2>3, <3>1
    <3>4. \A r \in 1..Len(timeout) : r \notin unrestored => timeout[r] = "own"
      BY <2>1 DEF TimeoutInv
    <3>5. \A r \in 1..Len(timeout') : r \notin unrestored' => timeout'[r] = "own"
      <4> TAKE r \in 1..Len(timeout')
      <4>1. r \in 1..(Len(timeout) + 1)
        BY <3>2
      <4>2. CASE r = Len(timeout) + 1
        BY <3>3, <4>1, <4>2
      <4>3. CASE r \in 1..Len(timeout)
        <5>1. r # Len(timeout) + 1
          BY <3>2, <4>3
        <5> QED
          BY <2>1, <3>3, <3>4, <4>1, <4>3, <5>1
      <4> QED
        BY <3>2, <4>1, <4>2, <4>3
    <3> QED
      BY <2>1, <3>5 DEF TimeoutInv
  <2> QED
    BY <2>1, <2>2, <2>3
<1>3. CASE SetTimeout
  <2>1. CASE UNCHANGED timeout /\ pc' = "idle"
    BY <1>3, <2>1, TimeoutsUntouched DEF SetTimeout
  <2>2. CASE /\ timeout' = [timeout EXCEPT ![handle] = "given"] /\ pc' = "read"
             /\ call' = [call EXCEPT !.previous = timeout[handle], !.items = <<>>]
    <3>1. pc = "set timeout" /\ handle' = handle /\ unrestored' = unrestored
      BY <1>3 DEF SetTimeout
    <3>2. /\ handle \in 1..Len(timeout) /\ Len(timeout) \in Nat
          /\ timeout \in [1..Len(timeout) -> {"own", "given"}]
      <4>1. handle # 0
        BY <3>1 DEF ResourceInv
      <4>2. handle \in Nat /\ handle <= Len(timeout) /\ Len(timeout) \in Nat
            /\ timeout \in [1..Len(timeout) -> {"own", "given"}]
        BY DEF TypeOK
      <4> QED
        BY <4>1, <4>2
    <3>3. Len(timeout') = Len(timeout)
      BY <2>2, <3>2
    <3>4. \A r \in 1..Len(timeout) : r # handle => timeout'[r] = timeout[r]
      BY <2>2, <3>2
    <3>5. call'.previous = timeout[handle]
      <4>1. call \in Call
        BY DEF TypeOK
      <4> QED
        BY <2>2, <4>1 DEF Call
    <3>6. \A r \in 1..Len(timeout) : r \notin unrestored => timeout[r] = "own"
      BY <3>1 DEF TimeoutInv
    <3>7. handle' \notin unrestored' => call'.previous = "own"
      BY <3>1, <3>2, <3>5, <3>6
    <3>8. \A r \in 1..Len(timeout') :
            r \notin unrestored' => timeout'[r] = "own" \/ r = handle'
      BY <3>1, <3>3, <3>4, <3>6
    <3> QED
      BY <2>2, <3>7, <3>8 DEF TimeoutInv
  <2> QED
    BY <1>3, <2>1, <2>2 DEF SetTimeout
<1>4. CASE Read
  <2>1. /\ pc \in Reading /\ pc' \in Reading
        /\ UNCHANGED <<handle, timeout, unrestored>>
    BY <1>4 DEF Read
  <2>2. call'.previous = call.previous
    BY <1>4 DEF Read, TypeOK, Call
  <2> QED
    BY <2>1, <2>2 DEF TimeoutInv
<1>5. CASE RestoreAfterFailure
  <2>1. /\ pc \in Reading /\ pc' \notin Reading /\ handle' = handle
        /\ \/ Restored /\ unrestored' = unrestored
           \/ UNCHANGED timeout /\ unrestored' = unrestored \cup {handle}
    BY <1>5 DEF RestoreAfterFailure, RestoredAfterFailure
  <2> QED
    BY <2>1, TimeoutRestored
<1>6. CASE Restore
  <2>1. /\ pc \in Reading /\ pc' \notin Reading /\ handle' = handle
        /\ \/ Restored /\ unrestored' = unrestored
           \/ UNCHANGED timeout /\ unrestored' = unrestored \cup {handle}
    BY <1>6 DEF Restore, AfterRead, OverLimit
  <2> QED
    BY <2>1, TimeoutRestored
<1>7. CASE Arrive \/ UNCHANGED vars
  <2>1. UNCHANGED <<handle, timeout, pc, call, unrestored>>
    BY <1>7 DEF Arrive, vars
  <2> QED
    BY <2>1 DEF TimeoutInv
<1> QED
  BY <1>1, <1>2, <1>3, <1>4, <1>5, <1>6, <1>7 DEF Next

\* A send never runs with the timeout of a receive, unless that timeout could
\* not be restored.
THEOREM SendsMayAlwaysWait == Spec => []SendsMayWait
<1>1. Init => TimeoutInv
  BY DEF Init, TimeoutInv, Reading
<1>2. TypeOK /\ ResourceInv /\ TimeoutInv /\ [Next]_vars => TimeoutInv'
  BY TimeoutsKept
<1>3. TypeOK /\ ResourceInv /\ TimeoutInv => SendsMayWait
  <2> SUFFICES ASSUME TypeOK, ResourceInv, TimeoutInv, pc = "send",
                      handle \notin unrestored
               PROVE  timeout[handle] = "own"
    BY DEF SendsMayWait, At
  <2>1. handle # 0 /\ handle \in Nat /\ handle <= Len(timeout) /\ Len(timeout) \in Nat
    BY DEF ResourceInv, TypeOK
  <2> QED
    BY <2>1 DEF TimeoutInv, Reading
<1> QED
  BY <1>1, <1>2, <1>3, ResourcesHold, PTL DEF Spec

-----------------------------------------------------------------------------
(* Items.                                                                  *)

\* A sequence with a later one behind it.
LEMMA Concatenated ==
  ASSUME NEW s \in Seq(Nat), NEW t \in Seq(Nat), NEW n \in Nat,
         Ordered(s), Ordered(t), Before(s, t), Within(s, n), Within(t, n)
  PROVE  /\ Ordered(s \o t) /\ Within(s \o t, n)
         /\ \A i : Occurs(s \o t, i) <=> Occurs(s, i) \/ Occurs(t, i)
<1> DEFINE u == s \o t
<1>1. /\ DOMAIN s = 1..Len(s) /\ DOMAIN t = 1..Len(t)
      /\ Len(s) \in Nat /\ Len(t) \in Nat
  OBVIOUS
<1>2. DOMAIN u = 1..(Len(s) + Len(t))
  OBVIOUS
<1>3. \A i \in 1..Len(s) : i \in DOMAIN u /\ u[i] = s[i]
  BY <1>1, <1>2
<1>4. \A i \in 1..Len(t) : Len(s) + i \in DOMAIN u /\ u[Len(s) + i] = t[i]
  BY <1>1, <1>2
<1>5. \A i \in DOMAIN u :
        \/ i \in 1..Len(s)
        \/ i - Len(s) \in 1..Len(t) /\ u[i] = t[i - Len(s)] /\ i > Len(s)
  BY <1>1, <1>2
<1> HIDE DEF u
<1>6. Within(u, n)
  BY <1>1, <1>3, <1>5 DEF Within
<1>7. Ordered(u)
  <2> SUFFICES ASSUME NEW i \in DOMAIN u, NEW j \in DOMAIN u, i < j
               PROVE  u[i] < u[j]
    BY DEF Ordered
  <2>1. CASE i \in 1..Len(s) /\ j \in 1..Len(s)
    BY <1>1, <1>3, <2>1 DEF Ordered
  <2>2. CASE i \in 1..Len(s) /\ j \notin 1..Len(s)
    BY <1>1, <1>3, <1>5, <2>2 DEF Before
  <2>3. CASE i \notin 1..Len(s)
    <3>1. /\ i - Len(s) \in 1..Len(t) /\ u[i] = t[i - Len(s)]
          /\ j - Len(s) \in 1..Len(t) /\ u[j] = t[j - Len(s)]
          /\ i - Len(s) < j - Len(s)
      BY <1>1, <1>2, <1>5, <2>3
    <3> QED
      BY <1>1, <3>1 DEF Ordered
  <2> QED
    BY <2>1, <2>2, <2>3
<1>8. ASSUME NEW i PROVE Occurs(u, i) <=> Occurs(s, i) \/ Occurs(t, i)
  BY <1>1, <1>3, <1>4, <1>5 DEF Occurs
<1> QED
  BY <1>6, <1>7, <1>8 DEF u

\* A call that ends with everything it read returned or gone.
LEMMA CallEnds ==
  ASSUME TypeOK, ReadInv, pc' = "idle", call' = NoCall, arrived' = arrived,
         Ordered(returned'), Within(returned', taken'),
         \A i \in 1..taken' : i \in gone' \/ Occurs(returned', i),
         outcome'.op = "drain" /\ outcome'.ok => taken' >= outcome'.due
  PROVE  ReadInv'
<1>1. Held' = <<>> /\ call'.drained = <<>> /\ call'.op # "drain" /\ call'.due = 0
  BY DEF Held, NoCall
<1>2. arrived' \in Nat
  BY DEF TypeOK
<1>3. DOMAIN (Held') = {}
  BY <1>1
<1>4. Ordered(Held') /\ Before(returned', Held') /\ Within(Held', taken')
  BY <1>3 DEF Ordered, Before, Within
<1>5. call'.due <= arrived'
  BY <1>1, <1>2
<1> QED
  BY <1>1, <1>4, <1>5 DEF ReadInv, Reading, Ordered, Before, Within, Occurs

\* A call that raises: what it read goes with the error.
LEMMA CallRaises ==
  ASSUME TypeOK, ReadInv, Raises, UNCHANGED <<taken, returned>>
  PROVE  ReadInv'
<1>1. /\ pc' = "idle" /\ call' = NoCall /\ arrived' = arrived
      /\ outcome' = [op |-> call.op, ok |-> FALSE, due |-> call.due]
      /\ gone' = gone \cup Unreturned
  BY DEF Raises, End
<1>2. \A i \in 1..taken : i \in gone' \/ Occurs(returned, i)
  BY <1>1 DEF Unreturned, Occurs
<1>3. Ordered(returned) /\ Within(returned, taken)
  BY DEF ReadInv
<1> QED
  BY <1>1, <1>2, <1>3, CallEnds

\* A call that is not reading and goes on.
LEMMA CallMoves ==
  ASSUME TypeOK, ReadInv,
         pc \notin Reading \cup {"set timeout"}, pc' \notin Reading \cup {"idle"},
         UNCHANGED <<arrived, taken, returned, gone>>,
         call'.drained = <<>>, call'.due <= arrived,
         pc' # "set timeout" => call'.op # "drain"
  PROVE  ReadInv'
<1>1. Held = <<>> /\ Held' = <<>>
  BY DEF ReadInv, Held, Reading
<1> QED
  BY <1>1 DEF ReadInv, Reading, Ordered, Before, Within, Occurs

\* Nothing occurs in the empty sequence.
LEMMA NothingOccurs == \A i : ~Occurs(<<>>, i)
<1> DEFINE e == <<>>
<1>1. e \in Seq(Nat)
  OBVIOUS
<1>2. Len(e) = 0
  OBVIOUS
<1> HIDE DEF e
<1>3. DOMAIN e = 1..Len(e)
  BY <1>1
<1>4. DOMAIN e = {}
  BY <1>2, <1>3
<1> QED
  BY <1>4 DEF Occurs, e

\* A call that holds nothing and returns.
LEMMA CallReturns ==
  ASSUME TypeOK, ReadInv, pc \notin Reading \cup {"set timeout"}, Returns,
         UNCHANGED <<taken, returned>>
  PROVE  ReadInv'
<1>1. Held = <<>> /\ call.op # "drain"
  BY DEF ReadInv, Held, Reading
<1>2. /\ pc' = "idle" /\ call' = NoCall /\ arrived' = arrived /\ gone' = gone
      /\ outcome' = [op |-> call.op, ok |-> TRUE, due |-> call.due]
  BY DEF Returns, End
<1>3. \A i : ~Occurs(Held, i)
  BY <1>1, NothingOccurs
<1>4. \A i \in 1..taken : i \in gone \/ Occurs(returned, i)
  BY <1>1, <1>3 DEF ReadInv, Reading
<1>5. Ordered(returned) /\ Within(returned, taken)
  BY DEF ReadInv
<1> QED
  BY <1>1, <1>2, <1>4, <1>5, CallEnds

\* What waits is lost with the resource.
LEMMA WaitingIsGone ==
  ASSUME TypeOK, ReadInv, WaitingIsLost, UNCHANGED <<returned, arrived>>
  PROVE  /\ Ordered(returned') /\ Within(returned', taken') /\ taken' >= taken
         /\ \A i \in 1..taken' : i \in gone' \/ Occurs(returned', i)
<1>1. /\ taken' = arrived /\ taken \in Nat /\ arrived \in Nat /\ taken <= arrived
      /\ gone' = gone \cup Unreturned \cup (taken + 1)..arrived
  BY DEF TypeOK, WaitingIsLost
<1>2. \A i \in 1..arrived : i \in 1..taken \/ i \in (taken + 1)..arrived
  BY <1>1
<1>3. \A i \in 1..taken : i \in gone' \/ Occurs(returned, i)
  BY <1>1 DEF Unreturned, Occurs
<1>4. \A i \in 1..taken : i \in 1..arrived
  BY <1>1
<1>5. Ordered(returned) /\ Within(returned, arrived)
  BY <1>4 DEF ReadInv, Within
<1> QED
  BY <1>1, <1>2, <1>3, <1>5

\* Steps of calls that neither read nor hold what was read.
LEMMA OthersReadNothing ==
  ASSUME TypeOK, ResourceInv, ReadInv,
         \/ Open \/ CloseStale \/ Create \/ ConnectRoute \/ CloseRoute \/ Bind
         \/ CleanUp \/ Close \/ CloseHandle \/ Send \/ Write \/ Receive \/ Drain
  PROVE  ReadInv'
<1> USE DEF histories
<1>1. /\ call \in Call /\ call.due <= arrived
      /\ pc \notin Reading \cup {"set timeout"} =>
           call.drained = <<>> /\ call.op # "drain"
  BY DEF TypeOK, ReadInv
<1>2. CASE Open \/ Close \/ Send \/ Receive \/ Drain
  <2>1. PICK o \in Operation, l \in Label \ (Reading \cup {"idle"}) :
          Begin(o, l) /\ (l # "set timeout" => o # "drain")
    BY <1>2
    DEF Open, Close, Send, Receive, Drain, Operation, Label, Opening, Reading
  <2>2. /\ pc = "idle" /\ pc' = l /\ UNCHANGED <<arrived, taken, returned, gone>>
        /\ call'.drained = <<>> /\ call'.due = arrived /\ call'.op = o
    BY <2>1 DEF Begin, Go, At, NoCall
  <2>3. call'.due <= arrived
    BY <2>2 DEF TypeOK
  <2> QED
    BY <2>1, <2>2, <2>3, CallMoves DEF Reading
<1>3. CASE CloseHandle
  <2>1. CASE Raises /\ UNCHANGED <<taken, returned>>
    BY <2>1, CallRaises
  <2>2. ASSUME NEW ok \in BOOLEAN, End(ok), WaitingIsLost, UNCHANGED returned
        PROVE  ReadInv'
    <3>1. call.op # "drain"
      BY <1>1, <1>3 DEF CloseHandle, At, Reading
    <3>2. /\ pc' = "idle" /\ call' = NoCall /\ arrived' = arrived
          /\ outcome'.op = call.op
      BY <2>2 DEF End
    <3>3. /\ Ordered(returned') /\ Within(returned', taken')
          /\ \A i \in 1..taken' : i \in gone' \/ Occurs(returned', i)
      BY <2>2, <3>2, WaitingIsGone
    <3> QED
      BY <3>1, <3>2, <3>3, CallEnds
  <2> QED
    BY <1>3, <2>1, <2>2 DEF CloseHandle
<1>4. CASE \/ CloseStale \/ Create \/ ConnectRoute \/ CloseRoute \/ Bind
           \/ CleanUp \/ Write
  <2>1. /\ pc \in Opening \cup {"close stale", "send"}
        /\ UNCHANGED <<taken, returned>>
    BY <1>4
    DEF CloseStale, Create, ConnectRoute, CloseRoute, Bind, CleanUp, Write, At,
        Opening
  <2>2. pc \notin Reading \cup {"set timeout"}
    BY <2>1 DEF Opening, Reading
  <2>3. \/ Raises \/ Returns
        \/ /\ pc' \in Opening /\ UNCHANGED <<arrived, gone>>
           /\ call'.drained = call.drained /\ call'.due = call.due
           /\ call'.op = call.op
    <3>1. CASE Create
      <4>1. CASE Raises
        BY <4>1
      <4>2. CASE /\ pc' \in {"clean up", "connect route", "bind"}
                 /\ UNCHANGED <<arrived, gone>>
                 /\ call' = [call EXCEPT !.resource = New]
        BY <1>1, <4>2 DEF Call, Opening
      <4> QED
        BY <3>1, <4>1, <4>2 DEF Create, Go
    <3>2. CASE ~Create
      BY <1>4, <3>2
      DEF CloseStale, ConnectRoute, CloseRoute, Bind, FailedBind, CleanUp, Write,
          Go, Opening
    <3> QED
      BY <3>1, <3>2
  <2>4. CASE Raises
    BY <2>1, <2>4, CallRaises
  <2>5. CASE Returns
    BY <2>1, <2>2, <2>5, CallReturns
  <2>6. CASE /\ pc' \in Opening /\ UNCHANGED <<arrived, gone>>
             /\ call'.drained = call.drained /\ call'.due = call.due
             /\ call'.op = call.op
    <3>1. call'.drained = <<>> /\ call'.due <= arrived /\ call'.op # "drain"
      BY <1>1, <2>2, <2>6
    <3> QED
      BY <2>1, <2>2, <2>6, <3>1, CallMoves DEF Opening, Reading
  <2> QED
    BY <2>3, <2>4, <2>5, <2>6
<1> QED
  BY <1>2, <1>3, <1>4 DEF CloseStale, Create, ConnectRoute, CloseRoute, Bind

\* Items that arrive, and a port that somebody else closes.
LEMMA WorldReadsNothing ==
  ASSUME TypeOK, ReadInv, Arrive \/ Detach \/ UNCHANGED vars
  PROVE  ReadInv'
<1>1. CASE Arrive
  <2>1. /\ UNCHANGED <<pc, call, taken, returned, gone, outcome>>
        /\ arrived' = arrived + 1
    BY <1>1 DEF Arrive, histories
  <2>2. call'.due <= arrived'
    <3>1. call.due \in Nat /\ arrived \in Nat /\ call.due <= arrived
      BY DEF TypeOK, Call, ReadInv
    <3> QED
      BY <2>1, <3>1
  <2>3. Held' = Held
    BY <2>1 DEF Held
  <2> QED
    BY <2>1, <2>2, <2>3 DEF ReadInv, Ordered, Before, Within, Occurs
<1>2. CASE Detach
  <2>1. /\ UNCHANGED <<pc, call, arrived, returned, outcome>> /\ WaitingIsLost
        /\ pc = "idle"
    BY <1>2 DEF Detach, histories, At
  <2>2. /\ Ordered(returned') /\ Within(returned', taken') /\ taken' >= taken
        /\ \A i \in 1..taken' : i \in gone' \/ Occurs(returned', i)
    BY <2>1, WaitingIsGone
  <2>3. call.drained = <<>> /\ Held' = <<>> /\ DOMAIN (Held') = {}
        /\ call.op # "drain" /\ call.due <= arrived
    BY <2>1 DEF ReadInv, Held, Reading
  <2>4. Ordered(Held') /\ Before(returned', Held') /\ Within(Held', taken')
    BY <2>3 DEF Ordered, Before, Within
  <2>5. outcome.op = "drain" /\ outcome.ok => taken' >= outcome.due
    <3>1. taken \in Nat /\ arrived \in Nat /\ outcome.due \in Nat
          /\ taken' = arrived /\ taken <= arrived
      BY <2>1 DEF TypeOK, WaitingIsLost
    <3>2. outcome.op = "drain" /\ outcome.ok => taken >= outcome.due
      BY <2>1 DEF ReadInv
    <3>3. CASE taken >= outcome.due
      BY <3>1, <3>3
    <3> QED
      BY <3>2, <3>3
  <2> QED
    BY <2>1, <2>2, <2>3, <2>4, <2>5
    DEF ReadInv, Ordered, Before, Within, Occurs, Reading
<1>3. CASE UNCHANGED vars
  BY <1>3 DEF vars, ReadInv, Held, Ordered, Before, Within, Occurs
<1> QED
  BY <1>1, <1>2, <1>3

\* A read that begins forgets the items of the one before.
LEMMA ReadBegins ==
  ASSUME TypeOK, ReadInv, SetTimeout PROVE ReadInv'
<1> USE DEF histories
<1>1. CASE Raises
  BY <1>1, CallRaises DEF SetTimeout
<1>2. CASE ~Raises
  <2>1. /\ call' = [call EXCEPT !.previous = timeout[handle], !.items = <<>>]
        /\ pc = "set timeout" /\ pc' = "read"
        /\ UNCHANGED <<arrived, taken, returned, gone>>
    BY <1>2 DEF SetTimeout, At, Go
  <2>2. call'.items = <<>> /\ call'.drained = call.drained /\ call'.due = call.due
    <3>1. call \in Call
      BY DEF TypeOK
    <3> QED
      BY <2>1, <3>1 DEF Call
  <2>3. Held' = Held
    BY <2>1, <2>2 DEF Held
  <2> QED
    BY <2>1, <2>2, <2>3 DEF ReadInv, Reading, Ordered, Before, Within, Occurs
<1> QED
  BY <1>1, <1>2

\* A read takes the next items, in their order; only one that has seen
\* everything there was takes none.
LEMMA ReadTakes ==
  ASSUME TypeOK, ReadInv, Read PROVE ReadInv'
<1> USE DEF histories
<1>1. /\ pc = "read" /\ pc' \in {"restore", "restore after failure"}
      /\ UNCHANGED <<arrived, returned, gone>>
  BY DEF Read, At, Go
<1>2. /\ call.items = <<>> /\ Held = call.drained /\ call \in Call
      /\ call.drained \in Seq(Nat) /\ returned \in Seq(Nat)
      /\ taken \in Nat /\ arrived \in Nat /\ taken <= arrived /\ call.due \in Nat
      /\ call.due <= arrived
  BY <1>1 DEF ReadInv, Held, TypeOK, Call
<1>3. /\ Ordered(returned) /\ Ordered(call.drained)
      /\ Before(returned, call.drained)
      /\ Within(returned, taken) /\ Within(call.drained, taken)
      /\ \A i \in 1..taken :
           i \in gone \/ Occurs(returned, i) \/ Occurs(call.drained, i)
  BY <1>1, <1>2 DEF ReadInv
<1>4. CASE pc' = "restore after failure"
  <2>1. /\ UNCHANGED call
        /\ taken' \in {taken, Smaller(taken + First, arrived)}
    BY <1>4 DEF Read, Go
  <2>2. taken' \in Nat /\ taken <= taken'
    BY <1>2, <2>1 DEF Smaller, First
  <2>3. Held' = call.drained
    BY <1>4, <2>1 DEF Held
  <2>4. Within(returned, taken') /\ Within(call.drained, taken')
    BY <1>2, <1>3, <2>2 DEF Within
  <2> QED
    BY <1>1, <1>2, <1>3, <1>4, <2>1, <2>3, <2>4
    DEF ReadInv, Reading, Ordered, Before, Within, Occurs
<1>5. CASE pc' = "restore" /\ taken = arrived /\ UNCHANGED <<call, taken>>
  <2>1. Held' = call.drained \o call.items
    BY <1>5 DEF Held
  <2>2. Held' = call.drained
    BY <1>2, <2>1
  <2> QED
    BY <1>1, <1>2, <1>3, <1>5, <2>2
    DEF ReadInv, Reading, Ordered, Before, Within, Occurs
<1>6. ASSUME NEW n \in MayTake, taken < arrived, taken' = taken + n,
             call' = [call EXCEPT !.items = [i \in 1..n |-> taken + i]],
             pc' = "restore"
      PROVE  ReadInv'
  <2> DEFINE new == [i \in 1..n |-> taken + i]
  <2>1. n \in Nat /\ n >= 1
    <3>1. ReceiveSize \in Nat \ {0}
      BY TransportsAssumption DEF TransportsAssumption
    <3> QED
      BY <1>2, <3>1 DEF MayTake, Smaller
  <2>2. taken' \in Nat /\ taken <= taken'
    BY <1>2, <1>6, <2>1
  <2>3. /\ new \in Seq(Nat) /\ Ordered(new) /\ Within(new, taken')
        /\ Before(call.drained, new) /\ Before(returned, new)
    <3>1. new \in Seq(Nat)
      BY <1>2, <2>1
    <3>2. Ordered(new)
      BY <1>2, <2>1 DEF Ordered
    <3>3. Within(new, taken')
      BY <1>2, <1>6, <2>1 DEF Within
    <3>4. Before(call.drained, new) /\ Before(returned, new)
      <4>1. \A j \in DOMAIN new : new[j] \in Nat /\ new[j] > taken
        BY <1>2, <2>1
      <4>2. \A x \in 1..taken, y \in Nat : y > taken => x < y
        BY <1>2
      <4> HIDE DEF new
      <4> QED
        BY <1>3, <4>1, <4>2 DEF Before, Within
    <3> QED
      BY <3>1, <3>2, <3>3, <3>4
  <2>4. \A i \in (taken + 1)..taken' : Occurs(new, i)
    <3> SUFFICES ASSUME NEW i \in (taken + 1)..taken' PROVE Occurs(new, i)
      OBVIOUS
    <3>1. i - taken \in 1..n
      BY <1>2, <1>6, <2>1
    <3>2. new[i - taken] = i
      BY <1>2, <3>1
    <3> QED
      BY <3>1, <3>2 DEF Occurs
  <2>5. /\ call'.items = new /\ call'.drained = call.drained
        /\ call'.due = call.due
    BY <1>2, <1>6 DEF Call
  <2>6. new # <<>>
    <3>1. 1 \in DOMAIN new
      BY <2>1
    <3>2. ASSUME new = <<>> PROVE DOMAIN new = {}
      BY <3>2
    <3> HIDE DEF new
    <3> QED
      BY <3>1, <3>2
  <2> HIDE DEF new
  <2>7. Within(returned, taken') /\ Within(call.drained, taken')
    BY <1>2, <1>3, <2>2 DEF Within
  <2>8. /\ Ordered(call.drained \o new) /\ Within(call.drained \o new, taken')
        /\ \A i : Occurs(call.drained \o new, i)
                    <=> Occurs(call.drained, i) \/ Occurs(new, i)
    BY <1>2, <1>3, <2>2, <2>3, <2>7, Concatenated
  <2>9. Held' = call.drained \o new
    BY <1>6, <2>5 DEF Held
  <2>10. Before(returned, call.drained \o new)
    <3> SUFFICES ASSUME NEW i \in DOMAIN returned,
                        NEW j \in DOMAIN (call.drained \o new)
                 PROVE  returned[i] < (call.drained \o new)[j]
      BY DEF Before
    <3>1. Occurs(call.drained \o new, (call.drained \o new)[j])
      BY DEF Occurs
    <3>2. CASE Occurs(call.drained, (call.drained \o new)[j])
      BY <1>3, <3>2 DEF Occurs, Before
    <3>3. CASE Occurs(new, (call.drained \o new)[j])
      BY <2>3, <3>3 DEF Occurs, Before
    <3> QED
      BY <2>8, <3>1, <3>2, <3>3
  <2>11. \A i \in 1..taken' :
           i \in gone \/ Occurs(returned, i) \/ Occurs(call.drained \o new, i)
    <3> SUFFICES ASSUME NEW i \in 1..taken'
                 PROVE  i \in gone \/ Occurs(returned, i)
                          \/ Occurs(call.drained \o new, i)
      OBVIOUS
    <3>1. i \in 1..taken \/ i \in (taken + 1)..taken'
      BY <1>2, <2>2
    <3> QED
      BY <1>3, <2>4, <2>8, <3>1
  <2> DEFINE all == call.drained \o new
  <2>12. /\ Ordered(all) /\ Before(returned, all) /\ Within(all, taken')
         /\ Held' = all
         /\ \A i \in 1..taken' : i \in gone \/ Occurs(returned, i) \/ Occurs(all, i)
    BY <2>8, <2>9, <2>10, <2>11
  <2> HIDE DEF all
  <2>13. /\ Ordered(returned') /\ Ordered(Held') /\ Before(returned', Held')
         /\ Within(returned', taken') /\ Within(Held', taken')
         /\ \A i \in 1..taken' :
              i \in gone' \/ Occurs(returned', i) \/ Occurs(Held', i)
    BY <1>1, <1>3, <2>7, <2>12
  <2>14. call'.due <= arrived' /\ call'.items # <<>> /\ pc' = "restore"
    BY <1>1, <1>2, <1>6, <2>5, <2>6
  <2> QED
    BY <2>13, <2>14 DEF ReadInv, Reading, Ordered, Before, Within, Occurs
<1> QED
  BY <1>4, <1>5, <1>6 DEF Read, Go

\* A read that ends passes on what it holds: to the caller, to the next read of
\* its drain, or away with an error.
LEMMA ReadEnds ==
  ASSUME TypeOK, ReadInv, Restore \/ RestoreAfterFailure PROVE ReadInv'
<1> DEFINE all == call.drained \o call.items
<1>1. CASE Raises /\ UNCHANGED <<taken, returned>>
  BY <1>1, CallRaises
<1>2. /\ call \in Call /\ call.drained \in Seq(Nat) /\ call.items \in Seq(Nat)
      /\ all \in Seq(Nat) /\ returned \in Seq(Nat) /\ taken \in Nat
      /\ arrived \in Nat /\ call.due <= arrived
  <2>1. call.drained \in Seq(Nat) /\ call.items \in Seq(Nat)
    BY DEF TypeOK, Call
  <2>2. all \in Seq(Nat)
    BY <2>1
  <2> QED
    BY <2>1, <2>2 DEF TypeOK, ReadInv
<1>3. pc = "restore" =>
        /\ Held = all
        /\ Ordered(returned) /\ Ordered(all) /\ Before(returned, all)
        /\ Within(returned, taken) /\ Within(all, taken)
        /\ \A i \in 1..taken : i \in gone \/ Occurs(returned, i) \/ Occurs(all, i)
        /\ call.items = <<>> => taken >= call.due
  BY DEF ReadInv, Held, Reading
<1>4. \/ Raises /\ UNCHANGED <<taken, returned>>
      \/ /\ pc = "restore" /\ taken' = taken
         /\ \/ /\ call.op = "receive" \/ call.items = <<>>
               /\ Returns /\ returned' = returned \o all
            \/ /\ Go("set timeout") /\ returned' = returned
               /\ call' = [call EXCEPT !.drained = all, !.left = @ - 1]
  BY DEF Restore, RestoreAfterFailure, AfterRead, OverLimit, At
<1> HIDE DEF all
<1>5. ASSUME pc = "restore", taken' = taken, Returns,
             returned' = returned \o all,
             call.op = "receive" \/ call.items = <<>>
      PROVE  ReadInv'
  <2>1. /\ Ordered(returned \o all) /\ Within(returned \o all, taken)
        /\ \A i : Occurs(returned \o all, i) <=> Occurs(returned, i) \/ Occurs(all, i)
    BY <1>2, <1>3, <1>5, Concatenated
  <2>2. /\ pc' = "idle" /\ call' = NoCall /\ arrived' = arrived /\ gone' = gone
        /\ outcome' = [op |-> call.op, ok |-> TRUE, due |-> call.due]
    BY <1>5 DEF Returns, End
  <2>3. /\ Ordered(returned') /\ Within(returned', taken')
        /\ \A i \in 1..taken' : i \in gone' \/ Occurs(returned', i)
    BY <1>3, <1>5, <2>1, <2>2
  <2>4. outcome'.op = "drain" /\ outcome'.ok => taken' >= outcome'.due
    BY <1>3, <1>5, <2>2
  <2> QED
    BY <2>2, <2>3, <2>4, CallEnds
<1>6. ASSUME pc = "restore", taken' = taken, Go("set timeout"),
             returned' = returned,
             call' = [call EXCEPT !.drained = all, !.left = @ - 1]
      PROVE  ReadInv'
  <2>1. call'.drained = all /\ call'.due = call.due
    BY <1>2, <1>6 DEF Call
  <2>2. pc' = "set timeout" /\ UNCHANGED <<arrived, gone>>
    BY <1>6 DEF Go
  <2>3. Held' = all
    BY <2>1, <2>2 DEF Held
  <2>4. /\ Ordered(returned') /\ Ordered(Held') /\ Before(returned', Held')
        /\ Within(returned', taken') /\ Within(Held', taken')
        /\ \A i \in 1..taken' :
             i \in gone' \/ Occurs(returned', i) \/ Occurs(Held', i)
    BY <1>3, <1>6, <2>2, <2>3
  <2>5. call'.due <= arrived'
    BY <1>2, <2>1, <2>2
  <2> QED
    BY <2>2, <2>4, <2>5 DEF ReadInv, Reading, Ordered, Before, Within, Occurs
<1> QED
  BY <1>1, <1>4, <1>5, <1>6

\* Items are returned in their order and none twice, and every item that was
\* read is returned unless an error was raised; a drain that returns has taken
\* everything that was there when it was called.
THEOREM ReadsLoseNothing == Spec => []ReadsAreWhole
<1>1. Init => ReadInv
  <2> SUFFICES ASSUME Init PROVE ReadInv
    OBVIOUS
  <2>1. /\ returned = <<>> /\ Held = <<>> /\ taken = 0 /\ arrived = 0
        /\ call.drained = <<>> /\ call.op = "none" /\ call.due = 0
        /\ pc = "idle" /\ outcome.op = "none"
    BY DEF Init, Held, NoCall
  <2>2. \A i : ~Occurs(returned, i) /\ ~Occurs(Held, i)
    BY <2>1, NothingOccurs
  <2>3. \A i \in DOMAIN returned : FALSE
    BY <2>2 DEF Occurs
  <2>4. \A i \in DOMAIN Held : FALSE
    BY <2>2 DEF Occurs
  <2>5. Ordered(returned) /\ Ordered(Held) /\ Before(returned, Held)
        /\ Within(returned, taken) /\ Within(Held, taken)
    BY <2>3, <2>4 DEF Ordered, Before, Within
  <2>6. \A i \in 1..taken : FALSE
    BY <2>1
  <2> QED
    BY <2>1, <2>5, <2>6 DEF ReadInv, Reading
<1>2. TypeOK /\ ResourceInv /\ ReadInv /\ [Next]_vars => ReadInv'
  BY OthersReadNothing, WorldReadsNothing, ReadBegins, ReadTakes, ReadEnds
  DEF Next
<1>3. TypeOK /\ ResourceInv /\ ReadInv => ReadsAreWhole
  <2> SUFFICES ASSUME TypeOK, ReadInv PROVE ReadsAreWhole
    OBVIOUS
  <2>1. \A i, j \in DOMAIN returned : i < j => returned[i] < returned[j]
    BY DEF ReadInv, Ordered
  <2>2. ASSUME pc = "idle" PROVE Unreturned \subseteq gone
    <3>1. Held = <<>>
      BY <2>2 DEF ReadInv, Held, Reading
    <3>2. \A i \in 1..taken : i \in gone \/ Occurs(returned, i)
      BY <2>2, <3>1, NothingOccurs DEF ReadInv
    <3> QED
      BY <3>2 DEF Unreturned, Occurs
  <2> QED
    BY <2>1, <2>2 DEF ReadsAreWhole, At, ReadInv
<1> QED
  BY <1>1, <1>2, <1>3, ResourcesHold, PTL DEF Spec

=============================================================================
