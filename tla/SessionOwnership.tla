-------------------------- MODULE SessionOwnership --------------------------
(***************************************************************************)
(* Who may drive a ControllerClient: the re-entrant lock around every      *)
(* public operation, the _operation_active guard inside it, and the        *)
(* callbacks (observer, completion predicate) through which the thread     *)
(* that owns the lock can call the client again.                           *)
(*                                                                         *)
(* An operation is a frame on its thread's stack:                          *)
(*   acquire  -> with self._lock                                           *)
(*   begin    -> self._begin_operation()                                   *)
(*   body     -> the link calls of the operation, one wire step each       *)
(*   callback -> inside the observer or predicate of a wire step           *)
(*   end      -> finally: self._end_operation()                            *)
(*   release  -> the lock's __exit__                                       *)
(* What an operation does with the wire is ControllerSession's subject.    *)
(***************************************************************************)
EXTENDS Integers, Sequences

CONSTANTS
  Threads,
  NoThread,
  MaxCalls,   \* bound: operations called in a behaviour
  MaxSteps    \* bound: wire steps of one operation

ASSUME ThreadsAssumption == NoThread \notin Threads
ASSUME BoundsAssumption == MaxCalls \in Nat \ {0} /\ MaxSteps \in Nat \ {0}

VARIABLES
  lockOwner,        \* the thread that holds _lock
  lockDepth,        \* how many times it holds it
  operationActive,  \* _operation_active
  stack,            \* the calls each thread is in, innermost last
  calls,            \* operations called so far, which numbers them
  wire              \* history: the operation of every wire step so far

vars == <<lockOwner, lockDepth, operationActive, stack, calls, wire>>

Stage == {"acquire", "begin", "body", "callback", "end", "release"}
Frame == [op : Nat, stage : Stage, steps : Nat]

Top(t) == stack[t][Len(stack[t])]
In(t, stage) == stack[t] # <<>> /\ Top(t).stage = stage
Goto(t, stage) ==
  stack' = [stack EXCEPT ![t][Len(stack[t])].stage = stage]
Pop(t) == SubSeq(stack[t], 1, Len(stack[t]) - 1)

Init ==
  /\ lockOwner = NoThread /\ lockDepth = 0
  /\ operationActive = FALSE
  /\ stack = [t \in Threads |-> <<>>]
  /\ calls = 0 /\ wire = <<>>

\* A thread calls a public operation: from its own code, or from a callback of
\* the operation it is in.
Call(t) ==
  /\ stack[t] = <<>> \/ In(t, "callback")
  /\ calls < MaxCalls
  /\ calls' = calls + 1
  /\ stack' = [stack EXCEPT ![t] =
                 Append(@, [op |-> calls + 1, stage |-> "acquire",
                            steps |-> 0])]
  /\ UNCHANGED <<lockOwner, lockDepth, operationActive, wire>>

\* Mutant: a lock that its owner cannot enter again.
PlainLock(t) ==
  /\ In(t, "acquire")
  /\ lockOwner = NoThread
  /\ lockOwner' = t
  /\ lockDepth' = lockDepth + 1
  /\ Goto(t, "begin")
  /\ UNCHANGED <<operationActive, calls, wire>>

\* The lock is free, or this thread already holds it (RLock).
Acquire(t) ==
  /\ In(t, "acquire")
  /\ lockOwner \in {NoThread, t}
  /\ lockOwner' = t
  /\ lockDepth' = lockDepth + 1
  /\ Goto(t, "begin")
  /\ UNCHANGED <<operationActive, calls, wire>>

\* Mutant: only the lock keeps operations apart.
BeginAnyway(t) ==
  /\ In(t, "begin")
  /\ operationActive' = TRUE
  /\ Goto(t, "body")
  /\ UNCHANGED <<lockOwner, lockDepth, calls, wire>>

\* _begin_operation.
BeginOperation(t) ==
  /\ In(t, "begin")
  /\ ~operationActive
  /\ operationActive' = TRUE
  /\ Goto(t, "body")
  /\ UNCHANGED <<lockOwner, lockDepth, calls, wire>>

\* Mutant: the refused call runs the finally clause all the same.
RefuseInsideTry(t) ==
  /\ In(t, "begin")
  /\ operationActive
  /\ Goto(t, "end")
  /\ UNCHANGED <<lockOwner, lockDepth, operationActive, calls, wire>>

\* _require_inactive_operation raises before the try, so that the finally
\* clause of the refused call does not run.
RefuseReentry(t) ==
  /\ In(t, "begin")
  /\ operationActive
  /\ Goto(t, "release")
  /\ UNCHANGED <<lockOwner, lockDepth, operationActive, calls, wire>>

\* recover() never becomes the active operation: it always refuses.
RefuseRecovery(t) ==
  /\ In(t, "begin")
  /\ ~operationActive
  /\ Goto(t, "release")
  /\ UNCHANGED <<lockOwner, lockDepth, operationActive, calls, wire>>

\* One link call, after which _notify runs the observer.
WireStep(t) ==
  /\ In(t, "body")
  /\ Top(t).steps < MaxSteps
  /\ wire' = Append(wire, Top(t).op)
  /\ stack' = [stack EXCEPT ![t][Len(stack[t])].steps = @ + 1,
                            ![t][Len(stack[t])].stage = "callback"]
  /\ UNCHANGED <<lockOwner, lockDepth, operationActive, calls>>

\* The callback returns.  An observer's exception is swallowed; a predicate's,
\* or an interrupt, ends the operation.
CallbackReturns(t) ==
  /\ In(t, "callback")
  /\ \E next \in {"body", "end"} : Goto(t, next)
  /\ UNCHANGED <<lockOwner, lockDepth, operationActive, calls, wire>>

\* The body returns or raises.
BodyEnds(t) ==
  /\ In(t, "body")
  /\ Goto(t, "end")
  /\ UNCHANGED <<lockOwner, lockDepth, operationActive, calls, wire>>

EndOperation(t) ==
  /\ In(t, "end")
  /\ operationActive' = FALSE
  /\ Goto(t, "release")
  /\ UNCHANGED <<lockOwner, lockDepth, calls, wire>>

\* The lock's __exit__.
Release(t) ==
  /\ In(t, "release")
  /\ lockDepth' = lockDepth - 1
  /\ lockOwner' = IF lockDepth = 1 THEN NoThread ELSE lockOwner
  /\ stack' = [stack EXCEPT ![t] = Pop(t)]
  /\ UNCHANGED <<operationActive, calls, wire>>

\* Every step of a call but the first.
Proceed(t) ==
  \/ Acquire(t) \/ BeginOperation(t) \/ RefuseReentry(t) \/ RefuseRecovery(t)
  \/ WireStep(t) \/ CallbackReturns(t) \/ BodyEnds(t) \/ EndOperation(t)
  \/ Release(t)

Next == \E t \in Threads : Call(t) \/ Proceed(t)

Spec == Init /\ [][Next]_vars

\* The interpreter schedules every thread that is not blocked.  Nothing is
\* assumed of who gets a contended lock: the calls of a behaviour are finite.
FairSpec == Spec /\ \A t \in Threads : WF_vars(Proceed(t))

-----------------------------------------------------------------------------
(* Properties.                                                             *)

\* Every variable stays in its range.
TypeOK ==
  /\ lockOwner \in Threads \cup {NoThread} /\ lockDepth \in Nat
  /\ operationActive \in BOOLEAN
  /\ stack \in [Threads -> Seq(Frame)]
  /\ calls \in Nat /\ wire \in Seq(Nat)

RunningStage == {"body", "callback", "end"}

\* The frames that are inside their operation.
Running(t) ==
  {i \in 1..Len(stack[t]) : stack[t][i].stage \in RunningStage}

\* _operation_active says exactly whether an operation is running, and at most
\* one is: of all threads, and of all nested calls of one thread.
OneOperationRuns ==
  /\ operationActive <=> \E t \in Threads : Running(t) # {}
  /\ \A t, u \in Threads : \A i \in Running(t), j \in Running(u) :
       t = u /\ i = j

\* The wire steps of an operation are contiguous: neither another thread nor a
\* callback puts a step of its own between them.
ExchangesDoNotInterleave ==
  \A i, k \in 1..Len(wire) :
    (i < k /\ wire[i] = wire[k]) => \A j \in i..k : wire[j] = wire[i]

\* The lock is held exactly as often as the calls of its owner entered it.
LockMatchesCalls ==
  \A t \in Threads :
    LET entered == {i \in 1..Len(stack[t]) : stack[t][i].stage # "acquire"}
    IN  (entered # {} => lockOwner = t)
        /\ (lockOwner = t => entered = 1..lockDepth)

\* The shapes a thread's stack can have: no call, one call, or a call in its
\* callback with a nested call that will be refused.
Waiting(t) == Len(stack[t]) = 1 /\ stack[t][1].stage = "acquire"
Alone(t)   == Len(stack[t]) = 1 /\ stack[t][1].stage # "acquire"
Nested(t)  == /\ Len(stack[t]) = 2
              /\ stack[t][1].stage = "callback"
              /\ stack[t][2].stage \in {"acquire", "begin", "release"}

Holding(t) ==
  \/ Alone(t) /\ lockDepth = 1
  \/ Nested(t) /\ stack[t][2].stage = "acquire" /\ lockDepth = 1
  \/ Nested(t) /\ stack[t][2].stage # "acquire" /\ lockDepth = 2

\* Only the owner of the lock is past acquiring it, as deep as its stack says.
OwnerInv ==
  /\ \A t \in Threads :
       IF lockOwner = t THEN Holding(t) ELSE Len(stack[t]) = 0 \/ Waiting(t)
  /\ lockOwner = NoThread => lockDepth = 0

\* The flag is set exactly while the owner's first call is in its operation.
ActiveInv ==
  operationActive <=>
    (lockOwner # NoThread /\ stack[lockOwner][1].stage \in RunningStage)

\* Every call has a number of its own, and no wire step a later number.
NumbersInv ==
  /\ \A i \in 1..Len(wire) : wire[i] <= calls
  /\ \A t \in Threads : \A d \in 1..Len(stack[t]) : stack[t][d].op <= calls
  /\ \A t, u \in Threads :
       \A d \in 1..Len(stack[t]), e \in 1..Len(stack[u]) :
         stack[t][d].op = stack[u][e].op => t = u /\ d = e

\* A call that has not begun has no wire step; the steps of the running one are
\* the last on the wire.
StepsInv ==
  \A t \in Threads : \A d \in 1..Len(stack[t]), i \in 1..Len(wire) :
    wire[i] = stack[t][d].op =>
      /\ stack[t][d].stage \notin {"acquire", "begin"}
      /\ stack[t][d].stage \in RunningStage =>
           \A j \in i..Len(wire) : wire[j] = wire[i]

\* The inductive invariant behind the three properties above.
OwnershipInv ==
  OwnerInv /\ ActiveInv /\ NumbersInv /\ StepsInv /\ ExchangesDoNotInterleave

\* Every call returns, also the one a callback made.
CallsReturn == \A t \in Threads : stack[t] # <<>> ~> stack[t] = <<>>

=============================================================================
