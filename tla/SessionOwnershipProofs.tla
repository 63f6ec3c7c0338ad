----------------------- MODULE SessionOwnershipProofs -----------------------
(***************************************************************************)
(* SessionOwnership for every set of threads and every number of calls:    *)
(* one operation runs at a time, the lock matches the calls that entered   *)
(* it, and the wire steps of two operations do not interleave.             *)
(*                                                                         *)
(* First what each way of changing a stack does, frame by frame; then what *)
(* each action does to the parts of OwnershipInv; then the theorems.       *)
(***************************************************************************)
EXTENDS SessionOwnership, SequenceTheorems, TLAPS

-----------------------------------------------------------------------------
(* The frames of a stack.                                                  *)

\* A frame has a number, a stage and a count of wire steps.
LEMMA FrameFields ==
  ASSUME TypeOK, NEW t \in Threads, NEW i \in 1..Len(stack[t])
  PROVE  /\ stack[t][i] \in Frame
         /\ stack[t][i].op \in Nat /\ stack[t][i].stage \in Stage
<1>1. stack[t] \in Seq(Frame)
  BY DEF TypeOK
<1>2. stack[t][i] \in Frame
  BY <1>1, ElementOfSeq
<1> QED
  BY <1>2 DEF Frame

\* Being in a stage means having a last frame that is.
LEMMA InTop ==
  ASSUME TypeOK, NEW t \in Threads, NEW s, In(t, s)
  PROVE  /\ Len(stack[t]) \in Nat \ {0} /\ Len(stack[t]) \in 1..Len(stack[t])
         /\ stack[t][Len(stack[t])].stage = s
<1>1. stack[t] \in Seq(Frame)
  BY DEF TypeOK
<1>2. Len(stack[t]) \in Nat \ {0}
  BY <1>1, EmptySeq DEF In
<1> QED
  BY <1>2 DEF In, Top

\* Goto changes the stage of one frame.
LEMMA GotoFacts ==
  ASSUME TypeOK, NEW t \in Threads, NEW s \in Stage,
         Len(stack[t]) \in Nat \ {0}, Goto(t, s)
  PROVE  /\ stack' \in [Threads -> Seq(Frame)]
         /\ \A u \in Threads \ {t} : stack'[u] = stack[u]
         /\ \A u \in Threads : Len(stack'[u]) = Len(stack[u])
         /\ \A u \in Threads : \A i \in 1..Len(stack[u]) :
              /\ stack'[u][i].op = stack[u][i].op
              /\ stack'[u][i].stage = IF u = t /\ i = Len(stack[t])
                                        THEN s ELSE stack[u][i].stage
<1> DEFINE n == Len(stack[t])
           f == [stack[t][n] EXCEPT !.stage = s]
<1>1. stack \in [Threads -> Seq(Frame)] /\ stack[t] \in Seq(Frame) /\ n \in 1..n
  BY DEF TypeOK
<1>2. stack[t][n] \in Frame
  BY <1>1, ElementOfSeq
<1>3. f \in Frame /\ f.op = stack[t][n].op /\ f.stage = s
  BY <1>2 DEF Frame
<1>4. stack' = [stack EXCEPT ![t] = [stack[t] EXCEPT ![n] = f]]
  BY DEF Goto
<1>5. /\ [stack[t] EXCEPT ![n] = f] \in Seq(Frame)
      /\ Len([stack[t] EXCEPT ![n] = f]) = n
      /\ \A j \in 1..n :
           [stack[t] EXCEPT ![n] = f][j] = IF j = n THEN f ELSE stack[t][j]
  BY <1>1, <1>3, ExceptSeq
<1>6. stack'[t] = [stack[t] EXCEPT ![n] = f]
  BY <1>1, <1>4
<1>7. \A u \in Threads \ {t} : stack'[u] = stack[u]
  BY <1>1, <1>4
<1>8. stack' \in [Threads -> Seq(Frame)]
  BY <1>1, <1>4, <1>5
<1> HIDE DEF f
<1> QED
  BY <1>3, <1>5, <1>6, <1>7, <1>8

\* A call is a new last frame.
LEMMA CallFacts ==
  ASSUME TypeOK, NEW t \in Threads, Call(t)
  PROVE  /\ stack' \in [Threads -> Seq(Frame)]
         /\ \A u \in Threads \ {t} : stack'[u] = stack[u]
         /\ \A u \in Threads :
              Len(stack'[u]) = IF u = t THEN Len(stack[t]) + 1 ELSE Len(stack[u])
         /\ \A u \in Threads : \A i \in 1..Len(stack[u]) :
              /\ stack'[u][i].op = stack[u][i].op
              /\ stack'[u][i].stage = stack[u][i].stage
         /\ stack'[t][Len(stack[t]) + 1].op = calls + 1
         /\ stack'[t][Len(stack[t]) + 1].stage = "acquire"
<1> DEFINE f == [op |-> calls + 1, stage |-> "acquire", steps |-> 0]
<1>1. stack \in [Threads -> Seq(Frame)] /\ stack[t] \in Seq(Frame) /\ calls \in Nat
  BY DEF TypeOK
<1>2. f \in Frame /\ f.op = calls + 1 /\ f.stage = "acquire"
  BY <1>1 DEF Frame, Stage
<1>3. stack' = [stack EXCEPT ![t] = Append(stack[t], f)]
  BY DEF Call
<1> HIDE DEF f
<1>4. /\ Append(stack[t], f) \in Seq(Frame)
      /\ Len(Append(stack[t], f)) = Len(stack[t]) + 1
      /\ \A i \in 1..Len(stack[t]) : Append(stack[t], f)[i] = stack[t][i]
      /\ Append(stack[t], f)[Len(stack[t]) + 1] = f
  BY <1>1, <1>2, AppendProperties
<1>5. stack'[t] = Append(stack[t], f)
  BY <1>1, <1>3
<1>6. \A u \in Threads \ {t} : stack'[u] = stack[u]
  BY <1>1, <1>3
<1>7. stack' \in [Threads -> Seq(Frame)]
  BY <1>1, <1>3, <1>4
<1> QED
  BY <1>2, <1>4, <1>5, <1>6, <1>7

\* A call that returns takes its frame with it.
LEMMA PopFacts ==
  ASSUME TypeOK, NEW t \in Threads, Len(stack[t]) \in Nat \ {0},
         stack' = [stack EXCEPT ![t] = Pop(t)]
  PROVE  /\ stack' \in [Threads -> Seq(Frame)]
         /\ \A u \in Threads \ {t} : stack'[u] = stack[u]
         /\ \A u \in Threads :
              Len(stack'[u]) = IF u = t THEN Len(stack[t]) - 1 ELSE Len(stack[u])
         /\ \A u \in Threads : \A i \in 1..Len(stack'[u]) :
              /\ i \in 1..Len(stack[u])
              /\ stack'[u][i].op = stack[u][i].op
              /\ stack'[u][i].stage = stack[u][i].stage
<1> DEFINE n == Len(stack[t])
<1>1. stack \in [Threads -> Seq(Frame)] /\ stack[t] \in Seq(Frame)
  BY DEF TypeOK
<1>2. \A u \in Threads : Len(stack[u]) \in Nat
  BY <1>1, LenProperties
<1>3. \A i \in 1..(n - 1) : stack[t][i] \in Frame
  BY <1>1, <1>2, ElementOfSeq
<1>4. /\ Pop(t) \in Seq(Frame)
      /\ Len(Pop(t)) = n - 1
      /\ \A i \in 1..(n - 1) : Pop(t)[i] = stack[t][i]
  <2>1. 1 \in Int /\ n - 1 \in Int
    BY <1>2
  <2>2. /\ SubSeq(stack[t], 1, n - 1) \in Seq(Frame)
        /\ Len(SubSeq(stack[t], 1, n - 1)) = IF 1 <= n - 1 THEN n - 1 - 1 + 1 ELSE 0
        /\ \A i \in 1..(n - 1 - 1 + 1) :
             SubSeq(stack[t], 1, n - 1)[i] = stack[t][1 + i - 1]
    BY ONLY <1>3, <2>1, SubSeqProperties
  <2> QED
    BY <1>2, <2>2 DEF Pop
<1>5. stack'[t] = Pop(t)
  BY <1>1
<1>6. \A u \in Threads \ {t} : stack'[u] = stack[u]
  BY <1>1
<1>7. stack' \in [Threads -> Seq(Frame)]
  BY <1>1, <1>4
<1> QED
  BY <1>2, <1>4, <1>5, <1>6, <1>7

\* A wire step changes its own frame and puts its operation on the wire.
LEMMA WireStepFacts ==
  ASSUME TypeOK, NEW t \in Threads, WireStep(t)
  PROVE  /\ stack' \in [Threads -> Seq(Frame)]
         /\ \A u \in Threads \ {t} : stack'[u] = stack[u]
         /\ \A u \in Threads : Len(stack'[u]) = Len(stack[u])
         /\ \A u \in Threads : \A i \in 1..Len(stack[u]) :
              /\ stack'[u][i].op = stack[u][i].op
              /\ stack'[u][i].stage = IF u = t /\ i = Len(stack[t])
                                        THEN "callback" ELSE stack[u][i].stage
         /\ wire' \in Seq(Nat)
         /\ Len(wire) \in Nat /\ Len(wire') = Len(wire) + 1
         /\ \A i \in 1..Len(wire) : wire'[i] = wire[i]
         /\ wire'[Len(wire) + 1] = stack[t][Len(stack[t])].op
<1> DEFINE n == Len(stack[t])
           f == [stack[t][n] EXCEPT !.steps = @ + 1, !.stage = "callback"]
<1>1. /\ stack \in [Threads -> Seq(Frame)] /\ stack[t] \in Seq(Frame)
      /\ wire \in Seq(Nat) /\ n \in 1..n
  BY InTop DEF TypeOK, WireStep
<1>2. stack[t][n] \in Frame
  BY <1>1, ElementOfSeq
<1>3. f \in Frame /\ f.op = stack[t][n].op /\ f.stage = "callback"
  <2> DEFINE g == [stack[t][n] EXCEPT !.steps = @ + 1]
  <2>1. stack[t][n].steps + 1 \in Nat
    BY <1>2 DEF Frame
  <2>2. g \in Frame /\ g.op = stack[t][n].op
    BY <1>2, <2>1 DEF Frame
  <2>3. f = [g EXCEPT !.stage = "callback"]
    OBVIOUS
  <2> HIDE DEF g, f
  <2>4. "callback" \in Stage
    BY DEF Stage
  <2> QED
    BY <2>2, <2>3, <2>4 DEF Frame
<1>4. stack' = [stack EXCEPT ![t] = [stack[t] EXCEPT ![n] = f]]
  <2>1. stack' = [stack EXCEPT ![t][n].steps = @ + 1, ![t][n].stage = "callback"]
    BY DEF WireStep
  <2>2. \A g \in [Threads -> Seq(Frame)], s \in Seq(Frame) :
          [[g EXCEPT ![t] = s] EXCEPT ![t] = [s EXCEPT ![n].stage = "callback"]]
            = [g EXCEPT ![t] = [s EXCEPT ![n].stage = "callback"]]
    OBVIOUS
  <2> QED
    BY <1>1, <2>1
<1>5. /\ [stack[t] EXCEPT ![n] = f] \in Seq(Frame)
      /\ Len([stack[t] EXCEPT ![n] = f]) = n
      /\ \A j \in 1..n :
           [stack[t] EXCEPT ![n] = f][j] = IF j = n THEN f ELSE stack[t][j]
  BY <1>1, <1>3, ExceptSeq
<1> HIDE DEF f
<1>6. stack'[t] = [stack[t] EXCEPT ![n] = f]
  BY <1>1, <1>4
<1>7. \A u \in Threads \ {t} : stack'[u] = stack[u]
  BY <1>1, <1>4
<1>8. stack' \in [Threads -> Seq(Frame)]
  BY <1>1, <1>4, <1>5
<1>9. stack[t][n].op \in Nat /\ wire' = Append(wire, stack[t][n].op)
  BY <1>2 DEF WireStep, Top, Frame
<1>10. /\ wire' \in Seq(Nat) /\ Len(wire) \in Nat
       /\ Len(wire') = Len(wire) + 1
       /\ \A i \in 1..Len(wire) : wire'[i] = wire[i]
       /\ wire'[Len(wire) + 1] = stack[t][n].op
  BY <1>1, <1>9, AppendProperties, LenProperties
<1>11. /\ Len(stack'[t]) = n
       /\ \A j \in 1..n : stack'[t][j] = IF j = n THEN f ELSE stack[t][j]
  BY <1>5, <1>6
<1>12. ASSUME NEW u \in Threads PROVE Len(stack'[u]) = Len(stack[u])
  <2>1. CASE u = t
    BY <1>11, <2>1
  <2>2. CASE u # t
    BY <1>7, <2>2
  <2> QED
    BY <2>1, <2>2
<1>13. ASSUME NEW u \in Threads, NEW i \in 1..Len(stack[u])
       PROVE  /\ stack'[u][i].op = stack[u][i].op
              /\ stack'[u][i].stage = IF u = t /\ i = n
                                        THEN "callback" ELSE stack[u][i].stage
  <2>1. CASE u = t /\ i = n
    BY <1>3, <1>11, <2>1
  <2>2. CASE u = t /\ i # n
    BY <1>11, <2>2
  <2>3. CASE u # t
    BY <1>7, <2>3
  <2> QED
    BY <2>1, <2>2, <2>3
<1> QED
  BY <1>7, <1>8, <1>10, <1>12, <1>13

-----------------------------------------------------------------------------
(* The inductive invariant.                                                *)

Ind == TypeOK /\ OwnershipInv

\* Who holds the lock, read off its owner's stack.
LEMMA OwnerFacts ==
  ASSUME Ind, NEW t \in Threads, Len(stack[t]) \in Nat \ {0},
         stack[t][Len(stack[t])].stage # "acquire"
  PROVE  /\ lockOwner = t
         /\ \/ Alone(t) /\ lockDepth = 1
            \/ Nested(t) /\ lockDepth = 2 /\ stack[t][2].stage # "acquire"
         /\ \A u \in Threads \ {t} : Len(stack[u]) = 0 \/ Waiting(u)
BY DEF Ind, OwnershipInv, OwnerInv, Holding, Alone, Nested, Waiting

\* A change of stage that follows the order of a call.
LEMMA GotoKeepsWire ==
  ASSUME Ind, NEW t \in Threads, NEW s \in Stage,
         Len(stack[t]) \in Nat \ {0}, Goto(t, s), wire' = wire, calls' = calls,
         s # "acquire",
         s = "begin" => stack[t][Len(stack[t])].stage = "acquire",
         s \in RunningStage =>
           stack[t][Len(stack[t])].stage \in RunningStage \cup {"begin"}
  PROVE  NumbersInv' /\ StepsInv' /\ ExchangesDoNotInterleave'
<1> DEFINE n == Len(stack[t])
<1>1. /\ \A u \in Threads : Len(stack'[u]) = Len(stack[u])
      /\ \A u \in Threads : \A i \in 1..Len(stack[u]) :
           /\ stack'[u][i].op = stack[u][i].op
           /\ stack'[u][i].stage = IF u = t /\ i = n
                                     THEN s ELSE stack[u][i].stage
  BY GotoFacts DEF Ind
<1>2. NumbersInv /\ StepsInv /\ ExchangesDoNotInterleave
  BY DEF Ind, OwnershipInv
<1>3. ASSUME NEW u \in Threads, NEW d \in 1..Len(stack[u]),
             NEW i \in 1..Len(wire), wire[i] = stack[u][d].op
      PROVE  /\ stack'[u][d].stage \notin {"acquire", "begin"}
             /\ stack'[u][d].stage \in RunningStage =>
                  \A j \in i..Len(wire) : wire[j] = wire[i]
  <2>1. /\ stack[u][d].stage \notin {"acquire", "begin"}
        /\ stack[u][d].stage \in RunningStage =>
             \A j \in i..Len(wire) : wire[j] = wire[i]
    BY <1>2, <1>3 DEF StepsInv
  <2>2. CASE u = t /\ d = n
    BY <1>1, <2>1, <2>2 DEF RunningStage
  <2>3. CASE ~(u = t /\ d = n)
    BY <1>1, <2>1, <2>3
  <2> QED
    BY <2>2, <2>3
<1>4. NumbersInv'
  <2> HIDE DEF n
  <2>1. /\ \A i \in 1..Len(wire') : wire'[i] <= calls'
        /\ \A u \in Threads : \A d \in 1..Len(stack'[u]) :
             stack'[u][d].op <= calls'
    BY <1>1, <1>2 DEF NumbersInv
  <2>2. ASSUME NEW u \in Threads, NEW v \in Threads,
               NEW d \in 1..Len(stack'[u]), NEW e \in 1..Len(stack'[v]),
               stack'[u][d].op = stack'[v][e].op
        PROVE  u = v /\ d = e
    <3>1. d \in 1..Len(stack[u]) /\ e \in 1..Len(stack[v])
      BY <1>1, <2>2
    <3>2. stack[u][d].op = stack[v][e].op
      BY <1>1, <2>2, <3>1
    <3> QED
      BY <1>2, <3>1, <3>2 DEF NumbersInv
  <2> QED
    BY <2>1, <2>2 DEF NumbersInv
<1>5. StepsInv'
  <2> SUFFICES ASSUME NEW u \in Threads, NEW d \in 1..Len(stack'[u]),
                      NEW i \in 1..Len(wire'), wire'[i] = stack'[u][d].op
               PROVE  /\ stack'[u][d].stage \notin {"acquire", "begin"}
                      /\ stack'[u][d].stage \in RunningStage =>
                           \A j \in i..Len(wire') : wire'[j] = wire'[i]
    BY DEF StepsInv
  <2>1. /\ d \in 1..Len(stack[u]) /\ i \in 1..Len(wire)
        /\ wire[i] = stack[u][d].op
    BY <1>1
  <2> QED
    BY <1>3, <2>1
<1> QED
  BY <1>2, <1>4, <1>5 DEF ExchangesDoNotInterleave

\* A call from a callback is the second on its stack and will be refused.
LEMMA CallKeeps ==
  ASSUME Ind, NEW t \in Threads, Call(t)
  PROVE  OwnershipInv'
<1> DEFINE n == Len(stack[t])
<1>1. /\ \A u \in Threads \ {t} : stack'[u] = stack[u]
      /\ \A u \in Threads :
           Len(stack'[u]) = IF u = t THEN n + 1 ELSE Len(stack[u])
      /\ \A u \in Threads : \A i \in 1..Len(stack[u]) :
           /\ stack'[u][i].op = stack[u][i].op
           /\ stack'[u][i].stage = stack[u][i].stage
      /\ stack'[t][n + 1].op = calls + 1
      /\ stack'[t][n + 1].stage = "acquire"
  BY CallFacts DEF Ind
<1>2. \A u \in Threads : Len(stack[u]) \in Nat
  BY LenProperties DEF Ind, TypeOK
<1>3. /\ calls' = calls + 1 /\ wire' = wire /\ lockOwner' = lockOwner
      /\ lockDepth' = lockDepth /\ operationActive' = operationActive
      /\ calls \in Nat /\ Len(wire) \in Nat /\ wire \in Seq(Nat)
  BY LenProperties DEF Call, Ind, TypeOK
<1>4. /\ OwnerInv /\ ActiveInv /\ NumbersInv /\ StepsInv
      /\ ExchangesDoNotInterleave
  BY DEF Ind, OwnershipInv
<1>5. \/ n = 0 /\ lockOwner # t
      \/ n = 1 /\ lockOwner = t /\ lockDepth = 1 /\ stack[t][1].stage = "callback"
  <2>1. CASE stack[t] = <<>>
    <3>1. n = 0
      BY <2>1
    <3> QED
      BY <1>4, <3>1 DEF OwnerInv, Holding, Alone, Nested
  <2>2. CASE In(t, "callback")
    <3>1. n \in Nat \ {0} /\ stack[t][n].stage = "callback"
      BY <2>2, InTop DEF Ind
    <3> QED
      BY <3>1, OwnerFacts DEF Alone, Nested
  <2> QED
    BY <2>1, <2>2 DEF Call
<1>6. OwnerInv'
  <2>1. ASSUME NEW u \in Threads, u # t
        PROVE  IF lockOwner' = u THEN Holding(u)'
                                 ELSE Len(stack'[u]) = 0 \/ Waiting(u)'
    <3>1. stack'[u] = stack[u]
      BY <1>1, <2>1
    <3> QED
      BY <1>3, <1>4, <3>1 DEF OwnerInv, Holding, Alone, Nested, Waiting
  <2>2. CASE n = 0 /\ lockOwner # t
    <3>1. n + 1 = 1
      BY <2>2
    <3>2. Len(stack'[t]) = 1
      BY <1>1, <3>1
    <3>3. stack'[t][1].stage = "acquire"
      BY <1>1, <3>1
    <3>4. Waiting(t)' /\ lockOwner' # t
      BY <3>2, <3>3, <1>3, <2>2 DEF Waiting
    <3> QED
      BY <1>3, <1>4, <2>1, <3>4 DEF OwnerInv
  <2>3. CASE n = 1 /\ lockOwner = t /\ lockDepth = 1
             /\ stack[t][1].stage = "callback"
    <3>1. n + 1 = 2
      BY <2>3
    <3>2. Len(stack'[t]) = 2
      BY <1>1, <3>1
    <3>3. stack'[t][2].stage = "acquire"
      BY <1>1, <3>1
    <3>4. stack'[t][1].stage = "callback"
      BY <1>1, <2>3
    <3>5. Holding(t)'
      BY <3>2, <3>3, <3>4, <1>3, <2>3 DEF Holding, Nested
    <3> QED
      BY <1>3, <1>4, <2>1, <2>3, <3>5 DEF OwnerInv
  <2> QED
    BY <1>5, <2>2, <2>3
<1>7. ActiveInv'
  <2>1. lockOwner \in Threads => 1 \in 1..Len(stack[lockOwner])
    BY <1>2, <1>4 DEF OwnerInv, Holding, Alone, Nested
  <2> QED
    BY <1>1, <1>3, <1>4, <2>1 DEF ActiveInv, Ind, TypeOK
<1>8. ASSUME NEW u \in Threads, NEW d \in 1..Len(stack'[u])
      PROVE  \/ /\ d \in 1..Len(stack[u])
                /\ stack'[u][d].op = stack[u][d].op
                /\ stack'[u][d].stage = stack[u][d].stage
                /\ stack'[u][d].op # calls + 1 /\ stack'[u][d].op <= calls + 1
             \/ /\ u = t /\ d = n + 1
                /\ stack'[u][d].op = calls + 1 /\ stack'[u][d].stage = "acquire"
                /\ stack'[u][d].op <= calls + 1
  <2>1. CASE d \in 1..Len(stack[u])
    <3>1. stack[u][d].op \in Nat /\ stack[u][d].op <= calls
      BY <1>4, <2>1, FrameFields DEF NumbersInv, Ind
    <3>2. \A k \in Nat : k <= calls => k # calls + 1 /\ k <= calls + 1
      BY <1>3
    <3>3. stack[u][d].op # calls + 1 /\ stack[u][d].op <= calls + 1
      BY <3>1, <3>2
    <3>4. /\ stack'[u][d].op = stack[u][d].op
          /\ stack'[u][d].stage = stack[u][d].stage
      BY <1>1, <2>1
    <3> QED
      BY <2>1, <3>3, <3>4
  <2>2. CASE d \notin 1..Len(stack[u])
    <3>1. u = t /\ d = n + 1
      BY <1>1, <1>2, <2>2
    <3>2. calls + 1 <= calls + 1
      BY <1>3
    <3> QED
      BY <1>1, <3>1, <3>2
  <2> QED
    BY <2>1, <2>2
<1>9. \A i \in 1..Len(wire) : wire[i] \in Nat /\ wire[i] <= calls
  BY <1>3, <1>4, ElementOfSeq DEF NumbersInv
<1>10. NumbersInv'
  <2>1. ASSUME NEW u \in Threads, NEW v \in Threads,
               NEW d \in 1..Len(stack'[u]), NEW e \in 1..Len(stack'[v]),
               stack'[u][d].op = stack'[v][e].op
        PROVE  u = v /\ d = e
    <3> DEFINE old(w, k) == /\ k \in 1..Len(stack[w])
                            /\ stack'[w][k].op = stack[w][k].op
                            /\ stack'[w][k].op # calls + 1
               new(w, k) == w = t /\ k = n + 1 /\ stack'[w][k].op = calls + 1
    <3>1. old(u, d) \/ new(u, d)
      BY <1>8
    <3>2. old(v, e) \/ new(v, e)
      BY <1>8
    <3>3. CASE old(u, d) /\ old(v, e)
      <4>1. stack[u][d].op = stack[v][e].op
        BY <2>1, <3>3
      <4>2. d \in 1..Len(stack[u]) /\ e \in 1..Len(stack[v])
        BY <3>3
      <4> QED
        BY <1>4, <4>1, <4>2 DEF NumbersInv
    <3>4. CASE new(u, d) /\ new(v, e)
      BY <3>4
    <3>5. CASE old(u, d) /\ new(v, e)
      BY <2>1, <3>5
    <3>6. CASE new(u, d) /\ old(v, e)
      BY <2>1, <3>6
    <3> QED
      BY <3>1, <3>2, <3>3, <3>4, <3>5, <3>6
  <2>2. \A u \in Threads : \A d \in 1..Len(stack'[u]) :
          stack'[u][d].op <= calls + 1
    BY <1>8
  <2>3. \A i \in 1..Len(wire) : wire[i] <= calls + 1
    BY <1>3, <1>9
  <2> QED
    BY <1>3, <2>1, <2>2, <2>3 DEF NumbersInv
<1>11. StepsInv'
  <2>1. ASSUME NEW u \in Threads, NEW d \in 1..Len(stack'[u]),
               NEW i \in 1..Len(wire), wire[i] = stack'[u][d].op
        PROVE  /\ d \in 1..Len(stack[u])
               /\ stack'[u][d].op = stack[u][d].op
               /\ stack'[u][d].stage = stack[u][d].stage
    BY <1>3, <1>8, <1>9, <2>1
  <2>2. ASSUME NEW u \in Threads, NEW d \in 1..Len(stack'[u]),
               NEW i \in 1..Len(wire), wire[i] = stack'[u][d].op
        PROVE  /\ stack'[u][d].stage \notin {"acquire", "begin"}
               /\ stack'[u][d].stage \in RunningStage =>
                    \A j \in i..Len(wire) : wire[j] = wire[i]
    <3>1. /\ d \in 1..Len(stack[u])
          /\ stack'[u][d].op = stack[u][d].op
          /\ stack'[u][d].stage = stack[u][d].stage
      BY <2>1, <2>2
    <3>2. wire[i] = stack[u][d].op
      BY <2>2, <3>1
    <3>3. /\ stack[u][d].stage \notin {"acquire", "begin"}
          /\ stack[u][d].stage \in RunningStage =>
               \A j \in i..Len(wire) : wire[j] = wire[i]
      BY <1>4, <3>1, <3>2 DEF StepsInv
    <3> QED
      BY <3>1, <3>3
  <2> QED
    BY <1>3, <2>2 DEF StepsInv
<1> QED
  BY <1>3, <1>4, <1>6, <1>7, <1>10, <1>11
  DEF OwnershipInv, ExchangesDoNotInterleave

\* The stages the owner of the lock moves through, with the lock as it was: the
\* shape of its stack does not change.
LEMMA MoveKeepsOwner ==
  ASSUME Ind, NEW t \in Threads, NEW s \in Stage \ {"acquire"},
         Len(stack[t]) \in Nat \ {0}, Goto(t, s),
         stack[t][Len(stack[t])].stage # "acquire",
         Len(stack[t]) = 2 => s = "release",
         lockOwner' = lockOwner, lockDepth' = lockDepth
  PROVE  /\ OwnerInv' /\ lockOwner = t
         /\ Len(stack[t]) = 1 => stack'[t][1].stage = s
         /\ Len(stack[t]) = 2 => stack'[t][1].stage = stack[t][1].stage
<1> DEFINE n == Len(stack[t])
<1>1. /\ \A u \in Threads \ {t} : stack'[u] = stack[u]
      /\ Len(stack'[t]) = n
      /\ \A i \in 1..n :
           stack'[t][i].stage = IF i = n THEN s ELSE stack[t][i].stage
  BY GotoFacts DEF Ind
<1>2. OwnerInv
  BY DEF Ind, OwnershipInv
<1>3. /\ lockOwner = t
      /\ \/ Alone(t) /\ lockDepth = 1
         \/ Nested(t) /\ lockDepth = 2 /\ stack[t][2].stage # "acquire"
  BY OwnerFacts
<1>4. ASSUME NEW u \in Threads, u # t
      PROVE  IF lockOwner' = u THEN Holding(u)'
                               ELSE Len(stack'[u]) = 0 \/ Waiting(u)'
  <2>1. stack'[u] = stack[u]
    BY <1>1, <1>4
  <2> QED
    BY <1>2, <2>1 DEF OwnerInv, Holding, Alone, Nested, Waiting
<1>5. CASE n = 1
  <2>1. Len(stack'[t]) = 1 /\ stack'[t][1].stage = s
    BY <1>1, <1>5
  <2>2. Holding(t)'
    BY <1>3, <1>5, <2>1 DEF Holding, Alone, Nested
  <2> QED
    BY <1>2, <1>3, <1>4, <1>5, <2>1, <2>2 DEF OwnerInv
<1>6. CASE n = 2
  <2>1. /\ Len(stack'[t]) = 2 /\ stack'[t][2].stage = s
        /\ stack'[t][1].stage = stack[t][1].stage
    BY <1>1, <1>6
  <2>2. Holding(t)'
    BY <1>3, <1>6, <2>1 DEF Holding, Alone, Nested
  <2> QED
    BY <1>2, <1>3, <1>4, <1>6, <2>1, <2>2 DEF OwnerInv
<1> QED
  BY <1>3, <1>5, <1>6 DEF Alone, Nested

\* Taking the lock makes its thread the owner, or deepens the owner's hold.
LEMMA AcquireKeeps ==
  ASSUME Ind, NEW t \in Threads, Acquire(t)
  PROVE  OwnershipInv'
<1> DEFINE n == Len(stack[t])
<1>1. /\ n \in Nat \ {0} /\ n \in 1..n /\ stack[t][n].stage = "acquire"
      /\ Goto(t, "begin") /\ "begin" \in Stage
      /\ wire' = wire /\ calls' = calls /\ operationActive' = operationActive
      /\ lockOwner \in {NoThread, t} /\ lockOwner' = t
      /\ lockDepth' = lockDepth + 1
  BY InTop DEF Acquire, Ind, Stage
<1>2. NumbersInv' /\ StepsInv' /\ ExchangesDoNotInterleave'
  <2>1. "begin" # "acquire" /\ "begin" \notin RunningStage
    BY DEF RunningStage
  <2> QED
    BY <1>1, <2>1, GotoKeepsWire
<1>3. /\ \A u \in Threads \ {t} : stack'[u] = stack[u]
      /\ Len(stack'[t]) = n
      /\ \A i \in 1..n :
           stack'[t][i].stage = IF i = n THEN "begin" ELSE stack[t][i].stage
  <2>1. TypeOK /\ n \in Nat \ {0}
    BY <1>1 DEF Ind
  <2> QED
    BY <1>1, <2>1, GotoFacts
<1>4. OwnerInv /\ ActiveInv
  BY DEF Ind, OwnershipInv
<1>5. \/ n = 1 /\ lockOwner = NoThread /\ lockDepth = 0
      \/ n = 2 /\ lockOwner = t /\ lockDepth = 1 /\ stack[t][1].stage = "callback"
  <2>1. CASE lockOwner = t
    BY <1>1, <1>4, <2>1 DEF OwnerInv, Holding, Alone, Nested
  <2>2. CASE lockOwner = NoThread
    BY <1>1, <1>4, <2>2, ThreadsAssumption DEF OwnerInv, Waiting
  <2> QED
    BY <1>1, <2>1, <2>2
<1>6. ASSUME NEW u \in Threads, u # t
      PROVE  lockOwner' # u /\ (Len(stack'[u]) = 0 \/ Waiting(u)')
  <2>1. stack'[u] = stack[u] /\ lockOwner # u
    BY <1>1, <1>3, <1>6, ThreadsAssumption
  <2> QED
    BY <1>1, <1>4, <1>6, <2>1 DEF OwnerInv, Waiting
<1>7. CASE n = 1 /\ lockOwner = NoThread /\ lockDepth = 0
  <2>1. Len(stack'[t]) = 1 /\ stack'[t][1].stage = "begin" /\ lockDepth' = 1
    BY <1>1, <1>3, <1>7
  <2>2. Holding(t)'
    BY <2>1 DEF Holding, Alone
  <2>3. OwnerInv'
    BY <1>1, <1>6, <2>2, ThreadsAssumption DEF OwnerInv
  <2>4. ActiveInv'
    BY <1>1, <1>4, <1>7, <2>1 DEF ActiveInv, RunningStage
  <2> QED
    BY <1>2, <2>3, <2>4 DEF OwnershipInv
<1>8. CASE n = 2 /\ lockOwner = t /\ lockDepth = 1
           /\ stack[t][1].stage = "callback"
  <2>1. /\ Len(stack'[t]) = 2 /\ stack'[t][2].stage = "begin"
        /\ stack'[t][1].stage = "callback" /\ lockDepth' = 2
    BY <1>1, <1>3, <1>8
  <2>2. Holding(t)'
    BY <2>1 DEF Holding, Nested
  <2>3. OwnerInv'
    BY <1>1, <1>6, <2>2, ThreadsAssumption DEF OwnerInv
  <2>4. ActiveInv'
    BY <1>1, <1>4, <1>8, <2>1, ThreadsAssumption DEF ActiveInv, RunningStage
  <2> QED
    BY <1>2, <2>3, <2>4 DEF OwnershipInv
<1> QED
  BY <1>5, <1>7, <1>8

\* A move of the owner keeps the invariant if the flag follows its first call.
LEMMA MoveKeeps ==
  ASSUME Ind, NEW t \in Threads, NEW s \in Stage \ {"acquire", "begin"},
         Len(stack[t]) \in Nat \ {0}, Goto(t, s),
         stack[t][Len(stack[t])].stage # "acquire",
         Len(stack[t]) = 2 => s = "release",
         s \in RunningStage =>
           stack[t][Len(stack[t])].stage \in RunningStage \cup {"begin"},
         Len(stack[t]) = 1 => (operationActive' <=> s \in RunningStage),
         Len(stack[t]) = 2 => (operationActive' <=> operationActive),
         lockOwner' = lockOwner, lockDepth' = lockDepth,
         wire' = wire, calls' = calls
  PROVE  OwnershipInv'
<1> DEFINE n == Len(stack[t])
<1>1. NumbersInv' /\ StepsInv' /\ ExchangesDoNotInterleave'
  BY GotoKeepsWire
<1>2. /\ OwnerInv' /\ lockOwner = t
      /\ n = 1 => stack'[t][1].stage = s
      /\ n = 2 => stack'[t][1].stage = stack[t][1].stage
  BY MoveKeepsOwner
<1>3. n = 1 \/ n = 2
  BY OwnerFacts DEF Alone, Nested
<1>4. lockOwner' = t /\ t # NoThread
  BY <1>2, ThreadsAssumption
<1>5. ActiveInv
  BY DEF Ind, OwnershipInv
<1>6. ActiveInv'
  BY <1>2, <1>3, <1>4, <1>5 DEF ActiveInv
<1> QED
  BY <1>1, <1>2, <1>6 DEF OwnershipInv

\* While a call of its owner runs, the flag is set; before it begins, the flag
\* says whether the call is nested.
LEMMA ActiveFacts ==
  ASSUME Ind, NEW t \in Threads, Len(stack[t]) \in Nat \ {0},
         stack[t][Len(stack[t])].stage # "acquire"
  PROVE  /\ stack[t][Len(stack[t])].stage \in RunningStage => Len(stack[t]) = 1
         /\ stack[t][Len(stack[t])].stage = "begin" =>
              (operationActive <=> Len(stack[t]) = 2)
         /\ Len(stack[t]) = 1 =>
              (operationActive <=> stack[t][1].stage \in RunningStage)
         /\ Len(stack[t]) = 2 => operationActive
         /\ Len(stack[t]) \in {1, 2}
<1>1. /\ lockOwner = t /\ t # NoThread
      /\ Alone(t) \/ Nested(t)
  BY OwnerFacts, ThreadsAssumption
<1>2. operationActive <=> stack[t][1].stage \in RunningStage
  BY <1>1 DEF ActiveInv, Ind, OwnershipInv
<1>3. CASE Alone(t)
  BY <1>2, <1>3 DEF Alone, RunningStage
<1>4. CASE Nested(t)
  BY <1>2, <1>4 DEF Nested, RunningStage
<1> QED
  BY <1>1, <1>3, <1>4

\* Beginning and ending an operation, refusing one, returning from a callback.
LEMMA MovesKeep ==
  ASSUME Ind, NEW t \in Threads,
         \/ BeginOperation(t) \/ RefuseReentry(t) \/ RefuseRecovery(t)
         \/ CallbackReturns(t) \/ BodyEnds(t) \/ EndOperation(t)
  PROVE  OwnershipInv'
<1> DEFINE n == Len(stack[t])
<1>1. CASE BeginOperation(t)
  <2>1. /\ n \in Nat \ {0} /\ stack[t][n].stage = "begin" /\ ~operationActive
        /\ Goto(t, "body") /\ "body" \in Stage \ {"acquire", "begin"}
        /\ "body" \in RunningStage /\ operationActive'
        /\ lockOwner' = lockOwner /\ lockDepth' = lockDepth
        /\ wire' = wire /\ calls' = calls
    BY <1>1, InTop DEF BeginOperation, Ind, Stage, RunningStage
  <2>2. n = 1
    BY <2>1, ActiveFacts
  <2> QED
    BY <2>1, <2>2, MoveKeeps
<1>2. CASE RefuseReentry(t)
  <2>1. /\ n \in Nat \ {0} /\ stack[t][n].stage = "begin" /\ operationActive
        /\ Goto(t, "release") /\ "release" \in Stage \ {"acquire", "begin"}
        /\ "release" \notin RunningStage /\ operationActive' = operationActive
        /\ lockOwner' = lockOwner /\ lockDepth' = lockDepth
        /\ wire' = wire /\ calls' = calls
    BY <1>2, InTop DEF RefuseReentry, Ind, Stage, RunningStage
  <2>2. n = 2
    BY <2>1, ActiveFacts
  <2> QED
    BY <2>1, <2>2, MoveKeeps
<1>3. CASE RefuseRecovery(t)
  <2>1. /\ n \in Nat \ {0} /\ stack[t][n].stage = "begin" /\ ~operationActive
        /\ Goto(t, "release") /\ "release" \in Stage \ {"acquire", "begin"}
        /\ "release" \notin RunningStage /\ operationActive' = operationActive
        /\ lockOwner' = lockOwner /\ lockDepth' = lockDepth
        /\ wire' = wire /\ calls' = calls
    BY <1>3, InTop DEF RefuseRecovery, Ind, Stage, RunningStage
  <2>2. n = 1
    BY <2>1, ActiveFacts
  <2> QED
    BY <2>1, <2>2, MoveKeeps
<1>4. CASE CallbackReturns(t)
  <2>1. PICK next \in {"body", "end"} : Goto(t, next)
    BY <1>4 DEF CallbackReturns
  <2>2. /\ n \in Nat \ {0} /\ stack[t][n].stage = "callback"
        /\ operationActive' = operationActive
        /\ lockOwner' = lockOwner /\ lockDepth' = lockDepth
        /\ wire' = wire /\ calls' = calls
    BY <1>4, InTop DEF CallbackReturns, Ind
  <2>3. /\ next \in Stage \ {"acquire", "begin"} /\ next \in RunningStage
        /\ stack[t][n].stage \in RunningStage
    BY <2>2 DEF Stage, RunningStage
  <2>4. n = 1 /\ operationActive
    BY <2>2, <2>3, ActiveFacts
  <2>5. n = 1 => (operationActive' <=> next \in RunningStage)
    BY <2>2, <2>3, <2>4
  <2>6. n # 2
    BY <2>4
  <2> HIDE DEF n
  <2> QED
    BY <2>1, <2>2, <2>3, <2>5, <2>6, MoveKeeps DEF n
<1>5. CASE BodyEnds(t)
  <2>1. /\ n \in Nat \ {0} /\ stack[t][n].stage = "body"
        /\ Goto(t, "end") /\ "end" \in Stage \ {"acquire", "begin"}
        /\ "end" \in RunningStage /\ stack[t][n].stage \in RunningStage
        /\ operationActive' = operationActive
        /\ lockOwner' = lockOwner /\ lockDepth' = lockDepth
        /\ wire' = wire /\ calls' = calls
    BY <1>5, InTop DEF BodyEnds, Ind, Stage, RunningStage
  <2>2. n = 1 /\ operationActive
    BY <2>1, ActiveFacts
  <2> QED
    BY <2>1, <2>2, MoveKeeps
<1>6. CASE EndOperation(t)
  <2>1. /\ n \in Nat \ {0} /\ stack[t][n].stage = "end"
        /\ Goto(t, "release") /\ "release" \in Stage \ {"acquire", "begin"}
        /\ "release" \notin RunningStage /\ stack[t][n].stage \in RunningStage
        /\ operationActive' = FALSE
        /\ lockOwner' = lockOwner /\ lockDepth' = lockDepth
        /\ wire' = wire /\ calls' = calls
    BY <1>6, InTop DEF EndOperation, Ind, Stage, RunningStage
  <2>2. n = 1
    BY <2>1, ActiveFacts
  <2> QED
    BY <2>1, <2>2, MoveKeeps
<1> QED
  BY <1>1, <1>2, <1>3, <1>4, <1>5, <1>6

\* The running operation's next wire step follows its own.
LEMMA WireStepKeeps ==
  ASSUME Ind, NEW t \in Threads, WireStep(t)
  PROVE  OwnershipInv'
<1> DEFINE L == Len(wire)
           o == stack[t][1].op
<1>1. /\ stack[t][Len(stack[t])].stage = "body" /\ Len(stack[t]) \in Nat \ {0}
      /\ lockOwner' = lockOwner /\ lockDepth' = lockDepth
      /\ operationActive' = operationActive /\ calls' = calls
  BY InTop DEF WireStep, Ind
<1>2. /\ Len(stack[t]) = 1 /\ operationActive /\ lockOwner = t
      /\ lockDepth = 1 /\ stack[t][1].stage = "body"
  <2>1. Len(stack[t]) = 1
    BY <1>1, ActiveFacts DEF RunningStage
  <2> QED
    BY <1>1, <2>1, ActiveFacts, OwnerFacts DEF RunningStage, Nested
<1>3. \A u \in Threads \ {t} : Len(stack[u]) = 0 \/ Waiting(u)
  BY <1>1, OwnerFacts
<1>4. /\ \A u \in Threads \ {t} : stack'[u] = stack[u]
      /\ Len(stack'[t]) = 1 /\ stack'[t][1].op = o
      /\ stack'[t][1].stage = "callback"
      /\ L \in Nat /\ Len(wire') = L + 1
      /\ \A i \in 1..L : wire'[i] = wire[i]
      /\ wire'[L + 1] = o
  BY <1>2, WireStepFacts DEF Ind
<1>5. OwnerInv /\ NumbersInv /\ StepsInv /\ ExchangesDoNotInterleave
  BY DEF Ind, OwnershipInv
<1>6. OwnerInv'
  <2>1. Holding(t)'
    BY <1>1, <1>2, <1>4 DEF Holding, Alone
  <2>2. ASSUME NEW u \in Threads, u # t
        PROVE  lockOwner' # u /\ (Len(stack'[u]) = 0 \/ Waiting(u)')
    <3>1. stack'[u] = stack[u] /\ (Len(stack[u]) = 0 \/ Waiting(u))
      BY <1>3, <1>4, <2>2
    <3> QED
      BY <1>1, <1>2, <2>2, <3>1 DEF Waiting
  <2> QED
    BY <1>1, <1>2, <2>1, <2>2, ThreadsAssumption DEF OwnerInv
<1>7. ActiveInv'
  BY <1>1, <1>2, <1>4, ThreadsAssumption DEF ActiveInv, RunningStage
<1>8. \A u \in Threads : Len(stack'[u]) = Len(stack[u])
  BY <1>2, <1>4
<1>9. \A u \in Threads : \A d \in 1..Len(stack[u]) :
        stack'[u][d].op = stack[u][d].op
  <2>1. \A d \in 1..Len(stack[t]) : d = 1
    BY <1>2
  <2> QED
    BY <1>4, <2>1
<1>10. \A i \in 1..(L + 1) : i \in 1..L \/ i = L + 1
  BY <1>4
<1>11. 1 \in 1..Len(stack[t]) /\ o <= calls
  BY <1>2, <1>5 DEF NumbersInv
<1>12. NumbersInv'
  <2>1. \A i \in 1..(L + 1) : wire'[i] <= calls
    BY <1>4, <1>5, <1>10, <1>11 DEF NumbersInv
  <2> QED
    BY <1>1, <1>4, <1>5, <1>8, <1>9, <2>1 DEF NumbersInv
\* Once the running call has a step on the wire, all later ones are its own.
<1>13. ASSUME NEW i \in 1..(L + 1), wire'[i] = o
       PROVE  \A j \in i..(L + 1) : wire'[j] = o
  <2>1. CASE i = L + 1
    BY <1>4, <2>1
  <2>2. CASE i \in 1..L
    <3>1. wire[i] = stack[t][1].op
      BY <1>4, <1>13, <2>2
    <3>2. \A j \in i..L : wire[j] = o
      BY <1>2, <1>5, <1>11, <2>2, <3>1 DEF StepsInv, RunningStage
    <3>3. \A j \in i..(L + 1) : j = L + 1 \/ (j \in i..L /\ j \in 1..L)
      BY <1>4, <2>2
    <3> QED
      BY <1>4, <3>2, <3>3
  <2> QED
    BY <1>10, <2>1, <2>2
<1>14. StepsInv'
  <2> SUFFICES ASSUME NEW u \in Threads, NEW d \in 1..Len(stack'[u]),
                      NEW i \in 1..(L + 1), wire'[i] = stack'[u][d].op
               PROVE  /\ stack'[u][d].stage \notin {"acquire", "begin"}
                      /\ stack'[u][d].stage \in RunningStage =>
                           \A j \in i..(L + 1) : wire'[j] = wire'[i]
    BY <1>4 DEF StepsInv
  <2>1. CASE u = t
    <3>1. d = 1
      BY <1>4, <2>1
    <3> QED
      BY <1>4, <1>13, <2>1, <3>1
  <2>2. CASE u # t
    <3>1. stack'[u] = stack[u] /\ d = 1 /\ stack[u][1].stage = "acquire"
      BY <1>3, <1>4, <2>2 DEF Waiting
    <3>2. d \in 1..Len(stack[u]) /\ wire'[i] = stack[u][d].op
      BY <3>1
    <3>3. wire'[i] # o
      BY <1>5, <1>11, <2>2, <3>2 DEF NumbersInv
    <3>4. i \in 1..L /\ wire[i] = stack[u][d].op
      BY <1>4, <1>10, <3>2, <3>3
    <3> QED
      BY <1>5, <3>1, <3>2, <3>4 DEF StepsInv
  <2> QED
    BY <2>1, <2>2
<1>15. ExchangesDoNotInterleave'
  <2> SUFFICES ASSUME NEW i \in 1..(L + 1), NEW k \in 1..(L + 1),
                      i < k, wire'[i] = wire'[k], NEW j \in i..k
               PROVE  wire'[j] = wire'[i]
    BY <1>4 DEF ExchangesDoNotInterleave
  <2>1. CASE k = L + 1
    <3>1. wire'[i] = o /\ j \in i..(L + 1)
      BY <1>4, <2>1
    <3> QED
      BY <1>13, <3>1
  <2>2. CASE k \in 1..L
    <3>1. i \in 1..L /\ j \in 1..L
      BY <1>4, <2>2
    <3>2. wire[i] = wire[k]
      BY <1>4, <2>2, <3>1
    <3>3. wire[j] = wire[i]
      BY <1>5, <2>2, <3>1, <3>2 DEF ExchangesDoNotInterleave
    <3> QED
      BY <1>4, <3>1, <3>3
  <2> QED
    BY <1>10, <2>1, <2>2
<1> QED
  BY <1>6, <1>7, <1>12, <1>14, <1>15 DEF OwnershipInv

\* Leaving the lock pops the frame that entered it.
LEMMA ReleaseKeeps ==
  ASSUME Ind, NEW t \in Threads, Release(t)
  PROVE  OwnershipInv' /\ lockDepth' \in Nat
<1> DEFINE n == Len(stack[t])
<1>1. /\ stack[t][n].stage = "release" /\ n \in Nat \ {0}
      /\ lockDepth' = lockDepth - 1
      /\ lockOwner' = IF lockDepth = 1 THEN NoThread ELSE lockOwner
      /\ stack' = [stack EXCEPT ![t] = Pop(t)]
      /\ operationActive' = operationActive /\ calls' = calls /\ wire' = wire
  BY InTop DEF Release, Ind
<1>2. /\ \A u \in Threads \ {t} : stack'[u] = stack[u]
      /\ \A u \in Threads :
           Len(stack'[u]) = IF u = t THEN n - 1 ELSE Len(stack[u])
      /\ \A u \in Threads : \A i \in 1..Len(stack'[u]) :
           /\ i \in 1..Len(stack[u])
           /\ stack'[u][i].op = stack[u][i].op
           /\ stack'[u][i].stage = stack[u][i].stage
  BY <1>1, PopFacts DEF Ind
<1>3. /\ lockOwner = t
      /\ \/ n = 1 /\ lockDepth = 1
         \/ n = 2 /\ lockDepth = 2 /\ stack[t][1].stage = "callback"
      /\ \A u \in Threads \ {t} : Len(stack[u]) = 0 \/ Waiting(u)
  BY <1>1, OwnerFacts DEF Alone, Nested
<1>4. ActiveInv /\ NumbersInv /\ StepsInv /\ ExchangesDoNotInterleave
  BY DEF Ind, OwnershipInv
<1>5. NumbersInv'
  <2>1. \A u \in Threads : \A d \in 1..Len(stack'[u]) : stack'[u][d].op <= calls
    BY <1>2, <1>4 DEF NumbersInv
  <2>2. ASSUME NEW u \in Threads, NEW v \in Threads,
               NEW d \in 1..Len(stack'[u]), NEW e \in 1..Len(stack'[v]),
               stack'[u][d].op = stack'[v][e].op
        PROVE  u = v /\ d = e
    <3>1. /\ d \in 1..Len(stack[u]) /\ stack'[u][d].op = stack[u][d].op
          /\ e \in 1..Len(stack[v]) /\ stack'[v][e].op = stack[v][e].op
      BY <1>2
    <3>2. stack[u][d].op = stack[v][e].op
      BY <2>2, <3>1
    <3> QED
      BY <1>4, <3>1, <3>2 DEF NumbersInv
  <2> QED
    BY <1>1, <1>4, <2>1, <2>2 DEF NumbersInv
<1>6. StepsInv'
  BY <1>1, <1>2, <1>4 DEF StepsInv
<1>7. ExchangesDoNotInterleave'
  BY <1>1, <1>4 DEF ExchangesDoNotInterleave
<1>8. ASSUME NEW u \in Threads, u # t
      PROVE  Len(stack'[u]) = 0 \/ Waiting(u)'
  <2>1. stack'[u] = stack[u] /\ (Len(stack[u]) = 0 \/ Waiting(u))
    BY <1>2, <1>3, <1>8
  <2> QED
    BY <2>1 DEF Waiting
<1>9. CASE n = 1 /\ lockDepth = 1
  <2>1. lockDepth' = 0 /\ lockOwner' = NoThread /\ Len(stack'[t]) = 0
    BY <1>1, <1>2, <1>9
  <2>2. OwnerInv'
    BY <1>8, <2>1, ThreadsAssumption DEF OwnerInv
  <2>3. ~operationActive
    BY <1>1, <1>9, ActiveFacts DEF RunningStage
  <2>4. ActiveInv'
    BY <1>1, <2>1, <2>3 DEF ActiveInv
  <2> QED
    BY <1>5, <1>6, <1>7, <2>1, <2>2, <2>4 DEF OwnershipInv
<1>10. CASE n = 2 /\ lockDepth = 2 /\ stack[t][1].stage = "callback"
  <2>1. lockDepth' = 1 /\ lockOwner' = t /\ Len(stack'[t]) = 1
    <3>1. lockDepth - 1 = 1 /\ lockDepth # 1 /\ n - 1 = 1
      BY <1>10
    <3>2. Len(stack'[t]) = n - 1
      BY <1>2
    <3> QED
      BY <1>1, <1>3, <3>1, <3>2
  <2>2. stack'[t][1].stage = "callback"
    BY <1>2, <1>10, <2>1
  <2>3. Holding(t)'
    BY <2>1, <2>2 DEF Holding, Alone
  <2>4. OwnerInv'
    BY <1>8, <2>1, <2>3, ThreadsAssumption DEF OwnerInv
  <2>5. operationActive
    BY <1>1, <1>10, ActiveFacts
  <2>6. ActiveInv'
    BY <1>1, <2>1, <2>2, <2>5, ThreadsAssumption DEF ActiveInv, RunningStage
  <2> QED
    BY <1>5, <1>6, <1>7, <2>1, <2>4, <2>6 DEF OwnershipInv
<1> QED
  BY <1>3, <1>9, <1>10

\* Moves of a frame keep the types.
LEMMA MovesKeepType ==
  ASSUME Ind, NEW t \in Threads,
         \/ Acquire(t) \/ BeginOperation(t) \/ RefuseReentry(t)
         \/ RefuseRecovery(t) \/ CallbackReturns(t) \/ BodyEnds(t)
         \/ EndOperation(t)
  PROVE  TypeOK'
<1>1. PICK s \in Stage : Goto(t, s)
  BY DEF Acquire, BeginOperation, RefuseReentry, RefuseRecovery,
         CallbackReturns, BodyEnds, EndOperation, Stage
<1>2. Len(stack[t]) \in Nat \ {0}
  BY InTop DEF Ind, Acquire, BeginOperation, RefuseReentry, RefuseRecovery,
               CallbackReturns, BodyEnds, EndOperation
<1>3. stack' \in [Threads -> Seq(Frame)]
  BY <1>1, <1>2, GotoFacts DEF Ind
<1>4. wire' = wire /\ calls' = calls
  BY DEF Acquire, BeginOperation, RefuseReentry, RefuseRecovery,
         CallbackReturns, BodyEnds, EndOperation
<1>5. operationActive' \in BOOLEAN
  BY DEF Ind, TypeOK, Acquire, BeginOperation, RefuseReentry, RefuseRecovery,
         CallbackReturns, BodyEnds, EndOperation
<1>6. lockOwner' \in Threads \cup {NoThread} /\ lockDepth' \in Nat
  BY DEF Ind, TypeOK, Acquire, BeginOperation, RefuseReentry, RefuseRecovery,
         CallbackReturns, BodyEnds, EndOperation
<1> QED
  BY <1>3, <1>4, <1>5, <1>6 DEF Ind, TypeOK

\* A call keeps the types.
LEMMA CallKeepsType ==
  ASSUME Ind, NEW t \in Threads, Call(t)
  PROVE  TypeOK'
<1>1. stack' \in [Threads -> Seq(Frame)]
  BY CallFacts DEF Ind
<1> QED
  BY <1>1 DEF Call, Ind, TypeOK

\* A wire step keeps the types.
LEMMA WireStepKeepsType ==
  ASSUME Ind, NEW t \in Threads, WireStep(t)
  PROVE  TypeOK'
<1>1. stack' \in [Threads -> Seq(Frame)] /\ wire' \in Seq(Nat)
  BY WireStepFacts DEF Ind
<1> QED
  BY <1>1 DEF WireStep, Ind, TypeOK

\* Leaving the lock keeps the types.
LEMMA ReleaseKeepsType ==
  ASSUME Ind, NEW t \in Threads, Release(t)
  PROVE  TypeOK'
<1>1. stack' \in [Threads -> Seq(Frame)]
  BY InTop, PopFacts DEF Ind, Release
<1>2. lockDepth' \in Nat
  BY ReleaseKeeps
<1> QED
  BY <1>1, <1>2 DEF Release, Ind, TypeOK

-----------------------------------------------------------------------------
(* The theorems.                                                           *)

\* Nobody is in a call before the first one.
LEMMA InitInd == Init => Ind
<1> SUFFICES ASSUME Init PROVE Ind
  OBVIOUS
<1>1. <<>> \in Seq(Frame) /\ <<>> \in Seq(Nat)
  BY EmptySeq
<1>2. Len(wire) = 0 /\ \A t \in Threads : Len(stack[t]) = 0
  BY DEF Init
<1>3. TypeOK
  BY <1>1 DEF Init, TypeOK
<1>4. OwnerInv
  BY <1>2, ThreadsAssumption DEF Init, OwnerInv
<1>5. ActiveInv
  BY DEF Init, ActiveInv
<1>6. NumbersInv /\ StepsInv /\ ExchangesDoNotInterleave
  BY <1>2 DEF NumbersInv, StepsInv, ExchangesDoNotInterleave
<1> QED
  BY <1>3, <1>4, <1>5, <1>6 DEF Ind, OwnershipInv

\* Every step keeps the inductive invariant.
LEMMA StepKeepsInd == Ind /\ [Next]_vars => Ind'
<1> SUFFICES ASSUME Ind, [Next]_vars PROVE Ind'
  OBVIOUS
<1>1. CASE UNCHANGED vars
  <2>1. TypeOK'
    BY <1>1 DEF Ind, TypeOK, vars
  <2>2. OwnerInv' /\ ActiveInv'
    BY <1>1 DEF Ind, OwnershipInv, vars, OwnerInv, Holding, Alone, Nested,
                Waiting, ActiveInv
  <2>3. NumbersInv' /\ StepsInv' /\ ExchangesDoNotInterleave'
    BY <1>1 DEF Ind, OwnershipInv, vars, NumbersInv, StepsInv,
                ExchangesDoNotInterleave
  <2> QED
    BY <2>1, <2>2, <2>3 DEF Ind, OwnershipInv
<1>2. ASSUME NEW t \in Threads, Call(t) PROVE Ind'
  BY <1>2, CallKeeps, CallKeepsType DEF Ind
<1>3. ASSUME NEW t \in Threads, Acquire(t) PROVE Ind'
  BY <1>3, AcquireKeeps, MovesKeepType DEF Ind
<1>4. ASSUME NEW t \in Threads,
             \/ BeginOperation(t) \/ RefuseReentry(t) \/ RefuseRecovery(t)
             \/ CallbackReturns(t) \/ BodyEnds(t) \/ EndOperation(t)
      PROVE  Ind'
  BY <1>4, MovesKeep, MovesKeepType DEF Ind
<1>5. ASSUME NEW t \in Threads, WireStep(t) PROVE Ind'
  BY <1>5, WireStepKeeps, WireStepKeepsType DEF Ind
<1>6. ASSUME NEW t \in Threads, Release(t) PROVE Ind'
  BY <1>6, ReleaseKeeps, ReleaseKeepsType DEF Ind
<1> QED
  BY <1>1, <1>2, <1>3, <1>4, <1>5, <1>6 DEF Next, Proceed

\* The inductive invariant holds in every reachable state.
LEMMA IndHolds == Spec => []Ind
BY InitInd, StepKeepsInd, PTL DEF Spec

\* Every variable stays in its range, whatever calls the threads make.
THEOREM OwnershipTypeCorrect == Spec => []TypeOK
<1>1. Ind => TypeOK
  BY DEF Ind
<1> QED
  BY <1>1, IndHolds, PTL

\* At most one operation is between _begin_operation and _end_operation, of all
\* threads and of all calls nested in callbacks, and _operation_active says so.
THEOREM OneOperationAtATime == Spec => []OneOperationRuns
<1>1. Ind => OneOperationRuns
  <2> SUFFICES ASSUME Ind PROVE OneOperationRuns
    OBVIOUS
  <2>1. ASSUME NEW t \in Threads, NEW i \in Running(t)
        PROVE  t = lockOwner /\ i = 1 /\ operationActive
    <3>1. i \in 1..Len(stack[t]) /\ stack[t][i].stage \in RunningStage
      BY <2>1 DEF Running
    <3>2. ~Waiting(t) /\ Len(stack[t]) # 0
      BY <3>1 DEF Waiting, RunningStage
    <3>3. lockOwner = t /\ (Alone(t) \/ Nested(t)) /\ t # NoThread
      BY <3>2, ThreadsAssumption DEF Ind, OwnershipInv, OwnerInv, Holding
    <3>4. i = 1
      BY <3>1, <3>3 DEF Alone, Nested, RunningStage
    <3> QED
      BY <3>1, <3>3, <3>4 DEF Ind, OwnershipInv, ActiveInv
  <2>2. operationActive => \E t \in Threads : Running(t) # {}
    <3> SUFFICES ASSUME operationActive
                 PROVE  \E t \in Threads : Running(t) # {}
      OBVIOUS
    <3>1. /\ lockOwner \in Threads
          /\ stack[lockOwner][1].stage \in RunningStage
      BY DEF Ind, OwnershipInv, ActiveInv, TypeOK
    <3>2. 1 \in 1..Len(stack[lockOwner])
      BY <3>1 DEF Ind, OwnershipInv, OwnerInv, Holding, Alone, Nested
    <3>3. 1 \in Running(lockOwner)
      BY <3>1, <3>2 DEF Running
    <3> QED
      BY <3>1, <3>3
  <2> QED
    BY <2>1, <2>2 DEF OneOperationRuns
<1> QED
  BY <1>1, IndHolds, PTL

\* The lock's owner is the only thread past `with self._lock`, and it holds the
\* lock once for each of its calls that are: no path releases too often or
\* forgets to.
THEOREM LockIsBalanced == Spec => []LockMatchesCalls
<1>1. Ind => LockMatchesCalls
  <2> SUFFICES ASSUME Ind, NEW t \in Threads
               PROVE  LET entered == {i \in 1..Len(stack[t]) :
                                        stack[t][i].stage # "acquire"}
                      IN  /\ entered # {} => lockOwner = t
                          /\ lockOwner = t => entered = 1..lockDepth
    BY DEF LockMatchesCalls
  <2> DEFINE entered == {i \in 1..Len(stack[t]) : stack[t][i].stage # "acquire"}
  <2>1. CASE lockOwner # t
    <3>1. Len(stack[t]) = 0 \/ Waiting(t)
      BY <2>1 DEF Ind, OwnershipInv, OwnerInv
    <3>2. entered = {}
      BY <3>1 DEF Waiting
    <3> QED
      BY <2>1, <3>2
  <2>2. CASE lockOwner = t
    <3>1. Holding(t)
      BY <2>2 DEF Ind, OwnershipInv, OwnerInv
    <3>2. entered = 1..lockDepth
      <4>1. CASE Alone(t) /\ lockDepth = 1
        BY <4>1 DEF Alone
      <4>2. CASE Nested(t) /\ stack[t][2].stage = "acquire" /\ lockDepth = 1
        BY <4>2 DEF Nested
      <4>3. CASE Nested(t) /\ stack[t][2].stage # "acquire" /\ lockDepth = 2
        BY <4>3 DEF Nested
      <4> QED
        BY <3>1, <4>1, <4>2, <4>3 DEF Holding
    <3> QED
      BY <2>2, <3>2
  <2> QED
    BY <2>1, <2>2
<1> QED
  BY <1>1, IndHolds, PTL

\* The wire steps of an operation are contiguous, for any number of threads,
\* calls and callbacks.
THEOREM WireIsNeverShared == Spec => []ExchangesDoNotInterleave
<1>1. Ind => ExchangesDoNotInterleave
  BY DEF Ind, OwnershipInv
<1> QED
  BY <1>1, IndHolds, PTL

=============================================================================
