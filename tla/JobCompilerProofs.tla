-------------------------- MODULE JobCompilerProofs --------------------------
(***************************************************************************)
(* Theorems about JobCompiler for all plans, profiles and limits.          *)
(*                                                                         *)
(* CompilerInv says what the analysis leaves behind for the lowering:      *)
(* every section of an accepted plan has a trace of what is remembered     *)
(* after each of its events.  While a section is lowered the compiler's    *)
(* locals and the controller agree with the trace at the event that is     *)
(* due.  A step of the lowering is one event of the trace, or a chunk of   *)
(* one.                                                                    *)
(***************************************************************************)
EXTENDS JobCompiler, WellFoundedInduction, TLAPS

-----------------------------------------------------------------------------
(* Recursion over a sequence.                                              *)

\* Induction over the naturals, stated for the set of those it holds of.
LEMMA Inductive ==
  ASSUME NEW T, 0 \in T, \A n \in Nat : n \in T => n + 1 \in T
  PROVE  Nat \subseteq T
<1> DEFINE R == OpToRel(<, Nat)
           U == Nat \ T
<1> SUFFICES ASSUME U # {} PROVE FALSE
  OBVIOUS
<1>1. IsWellFoundedOn(R, Nat)
  BY NatLessThanWellFounded
<1>2. \E x \in U : \A y \in U : ~ (<<y, x>> \in R)
  <2> HIDE DEF R
  <2>1. U \subseteq Nat
    OBVIOUS
  <2> HIDE DEF U
  <2> QED
    BY <1>1, <2>1, WFMin
<1>3. PICK x \in U : \A y \in U : ~ (<<y, x>> \in R)
  BY <1>2
<1>4. \A y \in U : ~(y < x)
  BY <1>3 DEF OpToRel
<1>5. x # 0
  OBVIOUS
<1>6. x - 1 \in Nat /\ x - 1 < x
  BY <1>5
<1>7. x - 1 \in T
  BY <1>4, <1>6
<1> QED
  BY <1>6, <1>7

\* The machines a sequence of records goes through: the one it starts from, the
\* one after each record, and the one ExecuteAll returns.
IsExecution(after, m, records) ==
  /\ DOMAIN after = 0..Len(records) /\ after[0] = m
  /\ \A n \in 1..Len(records) :
       after[n] = Controller!Execute(after[n - 1], records[n])
  /\ Controller!ExecuteAll(m, records) = after[Len(records)]

\* Every sequence of records has one: what ExecuteAll computes.
LEMMA Executed ==
  ASSUME NEW m, NEW R, NEW records \in Seq(R)
  PROVE  \E after : IsExecution(after, m, records)
<1> DEFINE Step(a, n) ==
             IF n = 0 THEN m ELSE Controller!Execute(a[n - 1], records[n])
           IsRun(a, k) == a = [n \in 0..k |-> Step(a, n)]
           T == {k \in Nat : \E a : IsRun(a, k)}
           L == Len(records)
<1>1. 0 \in T
  <2>1. IsRun([n \in 0..0 |-> m], 0)
    OBVIOUS
  <2> QED
    BY <2>1
<1>2. ASSUME NEW k \in Nat, k \in T PROVE k + 1 \in T
  <2>1. PICK a : IsRun(a, k)
    BY <1>2
  <2> DEFINE b == [n \in 0..(k + 1) |->
                     IF n <= k THEN a[n]
                     ELSE Controller!Execute(a[k], records[k + 1])]
  <2>2. ASSUME NEW n \in 0..(k + 1) PROVE b[n] = Step(b, n)
    <3>1. CASE n = 0
      BY <2>1, <3>1
    <3>2. CASE n # 0 /\ n <= k
      <4>1. n \in 0..k /\ n - 1 \in 0..k /\ n - 1 \in 0..(k + 1)
        BY <3>2
      <4>2. a[n] = Controller!Execute(a[n - 1], records[n])
        BY <2>1, <3>2, <4>1
      <4> QED
        BY <3>2, <4>1, <4>2
    <3>3. CASE n = k + 1
      <4>1. /\ k \in 0..(k + 1) /\ b[k] = a[k] /\ n # 0 /\ n - 1 = k
            /\ b[n] = Controller!Execute(a[k], records[k + 1])
        BY <3>3
      <4> QED
        BY <3>3, <4>1
    <3> QED
      BY <3>1, <3>2, <3>3
  <2>3. b = [n \in 0..(k + 1) |-> Step(b, n)]
    <3> DEFINE c == [n \in 0..(k + 1) |-> Step(b, n)]
    <3>1. DOMAIN b = 0..(k + 1) /\ DOMAIN c = 0..(k + 1)
      OBVIOUS
    <3>2. \A n \in 0..(k + 1) : b[n] = c[n]
      BY <2>2
    <3> QED
      BY <3>1, <3>2
  <2> HIDE DEF b
  <2>4. IsRun(b, k + 1)
    BY <2>3
  <2> HIDE DEF IsRun
  <2> QED
    BY <2>4
<1>3. L \in Nat
  OBVIOUS
<1>4. L \in T
  <2> HIDE DEF T, L
  <2> QED
    BY <1>1, <1>2, <1>3, Inductive
<1> DEFINE run == CHOOSE a : IsRun(a, L)
<1>5. IsRun(run, L)
  BY <1>4
<1>6. Controller!ExecuteAll(m, records) = run[L]
  BY DEF Controller!ExecuteAll
<1> HIDE DEF run
<1>7. /\ DOMAIN run = 0..L /\ run[0] = m
      /\ \A n \in 1..L : run[n] = Controller!Execute(run[n - 1], records[n])
  BY <1>3, <1>5
<1>8. IsExecution(run, m, records)
  BY <1>6, <1>7 DEF IsExecution
<1> QED
  BY <1>8

\* What two sequences have is what one after the other has.
LEMMA Joined ==
  ASSUME NEW S, NEW p \in Seq(S), NEW q \in Seq(S)
  PROVE  p \o q \in Seq(S) /\ ToSet(p \o q) = ToSet(p) \cup ToSet(q)
<1>1. /\ DOMAIN p = 1..Len(p) /\ DOMAIN q = 1..Len(q)
      /\ Len(p) \in Nat /\ Len(q) \in Nat
  OBVIOUS
<1>2. DOMAIN (p \o q) = 1..(Len(p) + Len(q)) /\ p \o q \in Seq(S)
  OBVIOUS
<1>3. \A i \in 1..Len(p) : i \in DOMAIN (p \o q) /\ (p \o q)[i] = p[i]
  BY <1>1, <1>2
<1>4. \A i \in 1..Len(q) :
        Len(p) + i \in DOMAIN (p \o q) /\ (p \o q)[Len(p) + i] = q[i]
  BY <1>1, <1>2
<1>5. \A i \in DOMAIN (p \o q) :
        \/ i \in 1..Len(p)
        \/ i - Len(p) \in 1..Len(q) /\ (p \o q)[i] = q[i - Len(p)]
  BY <1>1, <1>2
<1> DEFINE r == p \o q
<1>6. r \in Seq(S)
  BY <1>2
<1> HIDE DEF r
<1>7. /\ \A i \in 1..Len(p) : i \in DOMAIN r /\ r[i] = p[i]
      /\ \A i \in 1..Len(q) : Len(p) + i \in DOMAIN r /\ r[Len(p) + i] = q[i]
      /\ \A i \in DOMAIN r :
           \/ i \in 1..Len(p)
           \/ i - Len(p) \in 1..Len(q) /\ r[i] = q[i - Len(p)]
  BY <1>3, <1>4, <1>5 DEF r
<1>8. ToSet(r) = ToSet(p) \cup ToSet(q)
  BY <1>1, <1>7 DEF ToSet
<1> QED
  BY <1>6, <1>8 DEF r

\* A sequence put together step by step.
LEMMA Sequenced ==
  ASSUME NEW ss, Len(ss) \in Nat
  PROVE  \E run : /\ run[0] = <<>> /\ Concatenation(ss) = run[Len(ss)]
                  /\ \A n \in 0..(Len(ss) - 1) :
                       run[n + 1] = run[n] \o ss[n + 1]
<1> DEFINE empty == <<>>
           Then(s, n) == s \o ss[n]
           Step(a, n) == IF n = 0 THEN empty ELSE Then(a[n - 1], n)
           IsRun(a, k) == a = [n \in 0..k |-> Step(a, n)]
           L == Len(ss)
           T == {k \in Nat : \E a : IsRun(a, k)}
<1> HIDE DEF empty, Then
<1>1. 0 \in T
  <2>1. IsRun([n \in 0..0 |-> empty], 0)
    OBVIOUS
  <2> QED
    BY <2>1
<1>2. ASSUME NEW k \in Nat, k \in T PROVE k + 1 \in T
  <2>1. PICK a : IsRun(a, k)
    BY <1>2
  <2> DEFINE b == [n \in 0..(k + 1) |->
                     IF n <= k THEN a[n] ELSE Then(a[k], k + 1)]
  <2>2. ASSUME NEW n \in 0..(k + 1) PROVE b[n] = Step(b, n)
    <3>1. CASE n = 0
      BY <2>1, <3>1
    <3>2. CASE n # 0 /\ n <= k
      <4>1. n \in 0..k /\ n - 1 \in 0..k /\ n - 1 \in 0..(k + 1)
        BY <3>2
      <4>2. a[n] = Then(a[n - 1], n)
        BY <2>1, <3>2, <4>1
      <4> QED
        BY <3>2, <4>1, <4>2
    <3>3. CASE n = k + 1
      <4>1. /\ k \in 0..(k + 1) /\ b[k] = a[k] /\ n # 0 /\ n - 1 = k
            /\ b[n] = Then(a[k], k + 1)
        BY <3>3
      <4> QED
        BY <3>3, <4>1
    <3> QED
      BY <3>1, <3>2, <3>3
  <2>3. b = [n \in 0..(k + 1) |-> Step(b, n)]
    <3> DEFINE c == [n \in 0..(k + 1) |-> Step(b, n)]
    <3>1. DOMAIN b = 0..(k + 1) /\ DOMAIN c = 0..(k + 1)
      OBVIOUS
    <3>2. \A n \in 0..(k + 1) : b[n] = c[n]
      BY <2>2
    <3> QED
      BY <3>1, <3>2
  <2> HIDE DEF b
  <2>4. IsRun(b, k + 1)
    BY <2>3
  <2> HIDE DEF IsRun
  <2> QED
    BY <2>4
<1>4. L \in T
  <2> HIDE DEF T
  <2> QED
    BY <1>1, <1>2, Inductive
<1> DEFINE run == CHOOSE a : IsRun(a, L)
<1>5. IsRun(run, L)
  BY <1>4
<1>6. Concatenation(ss) = run[L]
  BY DEF Concatenation, empty, Then
<1> HIDE DEF run
<1>7. L \in Nat
  OBVIOUS
<1> HIDE DEF L
<1>8. /\ run[0] = empty
      /\ \A n \in 0..(L - 1) : run[n + 1] = Then(run[n], n + 1)
  <2>1. run = [n \in 0..L |-> Step(run, n)]
    BY <1>5
  <2>2. \A n \in 0..L : run[n] = Step(run, n)
    BY <2>1
  <2> QED
    BY <1>7, <2>2
<1> QED
  BY <1>6, <1>8 DEF empty, Then, L

\* The concatenation of sequences has what they have.
LEMMA Concatenated ==
  ASSUME NEW S, NEW ss \in Seq(Seq(S))
  PROVE  /\ Concatenation(ss) \in Seq(S)
         /\ ToSet(Concatenation(ss)) = UNION {ToSet(ss[k]) : k \in DOMAIN ss}
<1>1. /\ Len(ss) \in Nat /\ DOMAIN ss = 1..Len(ss)
      /\ \A k \in 1..Len(ss) : ss[k] \in Seq(S)
  OBVIOUS
<1>2. PICK run : /\ run[0] = <<>> /\ Concatenation(ss) = run[Len(ss)]
                 /\ \A n \in 0..(Len(ss) - 1) :
                      run[n + 1] = run[n] \o ss[n + 1]
  BY <1>1, Sequenced
<1> DEFINE L == Len(ss)
<1>3. /\ L \in Nat /\ run[0] = <<>>
      /\ \A k \in 1..L : ss[k] \in Seq(S)
      /\ \A n \in 0..(L - 1) : run[n + 1] = run[n] \o ss[n + 1]
  BY <1>1, <1>2, Zenon
<1> HIDE DEF L
<1> DEFINE Good(n) == /\ run[n] \in Seq(S)
                      /\ ToSet(run[n]) = UNION {ToSet(ss[k]) : k \in 1..n}
           U == {n \in Nat : n <= L => Good(n)}
<1>11. Good(0)
  <2>1. <<>> \in Seq(S) /\ ToSet(<<>>) = {}
    BY DEF ToSet
  <2>2. UNION {ToSet(ss[k]) : k \in 1..0} = {}
    OBVIOUS
  <2> QED
    BY <1>3, <2>1, <2>2
<1>12. ASSUME NEW n \in Nat, n + 1 <= L, Good(n) PROVE Good(n + 1)
  <2> DEFINE p == run[n]
             q == ss[n + 1]
             A == UNION {ToSet(ss[k]) : k \in 1..(n + 1)}
             B == UNION {ToSet(ss[k]) : k \in 1..n}
  <2>1. n + 1 \in 1..L /\ n \in 0..(L - 1)
    BY <1>3, <1>12
  <2>2. run[n + 1] = p \o q
    BY <1>3, <2>1, Zenon
  <2>3. p \in Seq(S) /\ q \in Seq(S)
    BY <1>3, <1>12, <2>1
  <2>4. ToSet(p) = B
    BY <1>12
  <2>5. \A x : x \in A <=> \E k \in 1..(n + 1) : x \in ToSet(ss[k])
    OBVIOUS
  <2>6. \A x : x \in B <=> \E k \in 1..n : x \in ToSet(ss[k])
    OBVIOUS
  <2> HIDE DEF A, B, p
  <2>7. A = B \cup ToSet(q)
    <3>1. \A k : k \in 1..(n + 1) <=> (k \in 1..n \/ k = n + 1)
      OBVIOUS
    <3>2. \A x : x \in A <=> x \in B \/ x \in ToSet(q)
      BY <2>5, <2>6, <3>1, Zenon
    <3> QED
      BY <3>2
  <2> HIDE DEF q
  <2>8. p \o q \in Seq(S) /\ ToSet(p \o q) = ToSet(p) \cup ToSet(q)
    BY <2>3, Joined
  <2>9. run[n + 1] \in Seq(S) /\ ToSet(run[n + 1]) = A
    BY <2>2, <2>4, <2>7, <2>8
  <2> QED
    BY <2>9 DEF A
<1> HIDE DEF Good
<1>13. 0 \in U
  BY <1>11
<1>14. ASSUME NEW n \in Nat, n \in U PROVE n + 1 \in U
  BY <1>3, <1>12, <1>14
<1>15. Nat \subseteq U
  <2> HIDE DEF U
  <2> QED
    BY <1>13, <1>14, Inductive
<1>4. Good(L)
  BY <1>3, <1>15
<1>5. Concatenation(ss) = run[L] /\ DOMAIN ss = 1..L
  BY <1>1, <1>2 DEF L
<1> QED
  BY <1>4, <1>5 DEF Good

\* What each record does.
LEMMA Executions ==
  ASSUME NEW m, NEW x, NEW y
  PROVE  /\ Controller!Execute(m, [do |-> "bounds", bounds |-> x])
              = [m EXCEPT !.bounds = x]
         /\ Controller!Execute(m, [do |-> "limits", layer |-> x, power |-> y])
              = [m EXCEPT !.limits[x] =
                   Controller!Given([do |-> "limits", layer |-> x,
                                     power |-> y], @)]
         /\ Controller!Execute(m, [do |-> "select", layer |-> x])
              = Controller!Select(m, x)
         /\ Controller!Execute(m, [do |-> "air", on |-> x])
              = [m EXCEPT !.air = x]
         /\ Controller!Execute(m, [do |-> "speed", speed |-> x])
              = [m EXCEPT !.speed = x]
         /\ Controller!Execute(m, [do |-> "power", power |-> x])
              = [m EXCEPT !.power =
                   Controller!Given([do |-> "power", power |-> x], @)]
         /\ Controller!Execute(m, [do |-> "enable", heads |-> x])
              = [m EXCEPT !.enabled = x]
         /\ Controller!Execute(m, [do |-> "modulate", value |-> x])
              = [m EXCEPT !.modulation = x]
         /\ Controller!Execute(m, [do |-> "z", by |-> x])
              = [m EXCEPT !.z = m.z + x]
         /\ Controller!Execute(m, [do |-> "wait"])
              = Controller!Strike(m, "wait", m.at)
         /\ Controller!Execute(m, [do |-> "pulse"])
              = Controller!Strike(m, "pulse", m.at)
         /\ Controller!Execute(m, [do |-> "move", to |-> x])
              = Controller!Strike(m, "travel", x)
         /\ Controller!Execute(m, [do |-> "cut", to |-> x])
              = Controller!Strike(m, "mark", x)
         /\ Controller!Execute(m, [do |-> "moveBy", by |-> x])
              = Controller!Strike(m, "travel", Controller!Moved(m.at, x))
         /\ Controller!Execute(m, [do |-> "cutBy", by |-> x])
              = Controller!Strike(m, "mark", Controller!Moved(m.at, x))
BY DEF Controller!Execute

\* A controller as the compiler leaves it: it has left the origin or not, and
\* knows the powers of all heads and the limits of all layers.
Machine(m) ==
  m \in [at : Point \cup {Nowhere}, z : Int, layer : Int, air : BOOLEAN,
         speed : Int, power : [LaserHead -> Int \X Int],
         limits : [{h.index : h \in Headers} -> [LaserHead -> Int \X Int]],
         bounds : {m.bounds}, enabled : SUBSET LaserHead,
         modulation : Int \cup {NoModulation}, loads : BOOLEAN,
         stroke : {m.stroke}]

-----------------------------------------------------------------------------
(* The invariant.                                                          *)

\* What the analysis remembers of a section.
Scan ==
  [open : {TRUE}, position : Point \cup {Nowhere}, points : SUBSET Point,
   marked : BOOLEAN, sign : Int, pending : BOOLEAN,
   modulation : Int \cup {NoModulation},
   active : ChannelPlans \cup {NoChannels}]

\* The channels and the modulation in force were checked when they were met; only
\* the floor of a modulation waits for the mark that uses it.
ScanIsSound(h, s) ==
  /\ s \in Scan
  /\ s.active # NoChannels => h.kind = "vector" /\ ChannelsAreValid(s.active)
  /\ s.modulation # NoModulation =>
       h.kind = "raster" /\ (~s.pending => Wire(s.modulation) >= Floor)

\* t[i] is what is remembered after the i-th event.
IsTrace(h, events, t) ==
  /\ t[0] = FreshScan
  /\ \A i \in 0..Len(events) : ScanIsSound(h, t[i])
  /\ \A i \in 1..Len(events) :
       /\ EventIsValid(h, t[i - 1], events[i])
       /\ t[i] = Scanned(h, t[i - 1], events[i])

\* The section the analysis is in is the last one of the last layer.
IsOpen(l, s) == scan.open /\ l = Len(plan) /\ s = Len(plan[l].sections)

\* A section of the plan has a trace: it ends with what is remembered now, or, once
\* the section is closed, without a pending modulation.
SectionIsAnalysed(l, s) ==
  LET events == plan[l].sections[s]
  IN  \E t : /\ IsTrace(plan[l].header, events, t)
             /\ IF IsOpen(l, s) THEN t[Len(events)] = scan
                                ELSE ~t[Len(events)].pending

\* What RuidaJobPlan has checked of a layer's header.
HeaderIsSound(h, l) ==
  /\ h.index = l - 1 /\ RangeIsValid(h)
  /\ h.channels # NoChannels =>
       /\ ChannelsAreValid(h.channels)
       /\ \E i \in DOMAIN h.channels : h.channels[i].enabled

Layers == Seq([header : Headers, sections : Seq(Seq(Events))])

\* What the analysis guarantees of the plan.
PlanInv ==
  /\ plan \in Layers /\ scan \in Scan \cup {ClosedScan}
  /\ \A l \in DOMAIN plan :
       /\ HeaderIsSound(plan[l].header, l)
       /\ plan[l].sections # <<>>
       /\ \A s \in DOMAIN plan[l].sections : SectionIsAnalysed(l, s)
  /\ scan.open => plan # <<>>

\* What each stage has checked before the next one begins.
StageInv ==
  /\ stage \in {"analyse", "features", "metadata", "lower", "compiled",
                "rejected"}
  /\ stage # "analyse" => ~scan.open
  /\ stage \in {"features", "metadata", "lower", "compiled"} => plan # <<>>
  /\ stage \in {"metadata", "lower", "compiled"} =>
       /\ profile \in Profiles /\ PolicyIsValid(profile)
       /\ FeaturesAreSupported(profile)
  /\ stage \notin {"lower", "compiled"} =>
       /\ lower = Started
       /\ \E loads \in BOOLEAN : machine = Controller!Idle(loads)

\* What the metadata have told the controller.
MetadataInv ==
  stage \in {"lower", "compiled"} =>
    /\ machine.bounds = JobBounds(declared)
    /\ \A l \in DOMAIN plan :
         \A i \in DOMAIN PowerOf(plan[l].header) :
           machine.limits[l - 1][i] = PowerOf(plan[l].header)[i]

\* c lies between a and b.
Within(a, c, b) == (a <= c /\ c <= b) \/ (b <= c /\ c <= a)

\* Where the head is: where the plan has it or on its way along a span.
PositionAgrees(s) ==
  /\ lower.position # Nowhere => machine.at = lower.position
  /\ \/ lower.position = s.position
     \/ /\ lower.event <= Len(Section) /\ InChunks(Here)
        /\ s.position # Nowhere /\ lower.position # Nowhere
        /\ \A j \in 1..2 : Within(s.position[j], lower.position[j], Here.to[j])

\* Channels of an event are of the profile's heads and within the layer's limits.
ActiveIsSupported(h, channels) ==
  /\ h.channels # NoChannels /\ DOMAIN channels = profile.heads
  /\ EnabledIn(channels) = EnabledIn(h.channels)
  /\ DynamicLimits(profile, h.channels, channels)

\* The compiler's dynamic flag and the controller's powers are those of the channels
\* in force, or of the layer.
PowerAgrees(h, s) ==
  /\ lower.dynamic = (s.active # NoChannels)
  /\ s.active = NoChannels =>
       \A i \in DOMAIN PowerOf(h) : machine.power[i] = PowerOf(h)[i]
  /\ s.active # NoChannels =>
       /\ ActiveIsSupported(h, s.active)
       /\ \A i \in DOMAIN s.active : machine.power[i] = WirePair(s.active[i])

ModulationIsSafe(modulation) ==
  modulation # NoModulation => modulation >= Floor

\* The controller's modulation is the section's, or one that an earlier section
\* left behind.
ModulationAgrees(s) ==
  IF s.modulation = NoModulation THEN ModulationIsSafe(machine.modulation)
  ELSE machine.modulation = Wire(s.modulation)

\* The controller has been set up for the layer.
SettingsAgree(h) ==
  /\ machine.layer = h.index /\ machine.enabled = EnabledHeads(h)
  /\ machine.air = h.air /\ machine.speed = h.speed /\ machine.z = -h.z

Agrees(h, s) ==
  /\ PositionAgrees(s) /\ SettingsAgree(h) /\ PowerAgrees(h, s)
  /\ ModulationAgrees(s)

Lower ==
  [layer : Nat, section : Nat, event : Nat, position : Point \cup {Nowhere},
   dynamic : BOOLEAN, previous : {"none"} \cup {e.kind : e \in Events},
   done : Nat]

\* The lowering has a trace of the section it is in, and agrees with what the trace
\* remembers before the event that is due.
LowerInv ==
  stage = "lower" =>
    /\ lower.layer \in DOMAIN plan
    /\ lower.section \in DOMAIN plan[lower.layer].sections
    /\ lower.event \in 0..(Len(Section) + 1)
    /\ lower.event = 0 =>
         machine.z = 0 /\ ModulationIsSafe(machine.modulation)
    /\ lower.event # 0 =>
         \E t : /\ IsTrace(H, Section, t) /\ ~t[Len(Section)].pending
                /\ Agrees(H, t[lower.event - 1])

\* Between the points the plan goes to.
InsidePlan(p) ==
  \A j \in 1..2 :
    /\ \E l \in DOMAIN plan : \E q \in PointsOf(plan[l]) : q[j] <= p[j]
    /\ \E l \in DOMAIN plan : \E q \in PointsOf(plan[l]) : p[j] <= q[j]

MotionInv == machine.at # Nowhere => InsidePlan(machine.at)

-----------------------------------------------------------------------------
(* Events.                                                                 *)

\* The kinds of events.
Kinds == {"travel", "mark", "markWith", "markCurrent", "dwell", "pulse",
          "modulate"}

\* An event has the fields its kind needs.
LEMMA EventTypes ==
  ASSUME NEW e \in Events
  PROVE  /\ e.kind \in Kinds
         /\ IsMotion(e) => e.to \in Point
         /\ e.kind = "markWith" => e.channels \in ChannelPlans
         /\ e.kind = "modulate" => e.value \in Int
<1>1. e \in LayerEvent
  BY PlansAssumption
<1>2. CASE e \in MotionEvent
  BY <1>2 DEF MotionEvent, Kinds, IsMotion
<1>3. CASE e \in MarkWithPower
  BY <1>3 DEF MarkWithPower, Kinds, IsMotion
<1>4. CASE e \in StationaryEvent
  BY <1>4 DEF StationaryEvent, Kinds, IsMotion
<1>5. CASE e \in SetModulation
  BY <1>5 DEF SetModulation, Kinds, IsMotion
<1> QED
  BY <1>1, <1>2, <1>3, <1>4, <1>5 DEF LayerEvent

\* What the analysis asks of an event, by its kind.
LEMMA Validity ==
  ASSUME NEW h, NEW s, NEW e, EventIsValid(h, s, e)
  PROVE  /\ e.kind = "modulate" => IsPower(e.value) /\ Native(h)
         /\ e.kind \in {"dwell", "pulse"} =>
              h.kind = "vector" /\ s.position # Nowhere
         /\ e.kind = "pulse" =>
              /\ LayerAboveFloor(h)
              /\ s.active # NoChannels => AboveFloor(s.active)
         /\ IsMotion(e) =>
              /\ e.kind \in {"markWith", "markCurrent"} => h.kind = "vector"
              /\ e.kind = "markWith" => ChannelsAreValid(e.channels)
              /\ e.kind = "markCurrent" => s.active # NoChannels
              /\ IsPoint(e.to)
              /\ s.position = Nowhere => e.kind = "travel"
              /\ IsMark(e) => MarkIsValid(h, s, e)
<1>1. CASE e.kind = "modulate"
  BY <1>1, Zenon DEF EventIsValid, IsMotion
<1>2. CASE e.kind \in {"dwell", "pulse"}
  BY <1>2, Zenon DEF EventIsValid, IsMotion
<1>3. CASE e.kind # "modulate" /\ e.kind \notin {"dwell", "pulse"}
  BY <1>3, Zenon DEF EventIsValid
<1> QED
  BY <1>1, <1>2, <1>3

\* The powers a mark is made with.
LEMMA Actives ==
  ASSUME NEW s, NEW e
  PROVE  /\ e.kind = "markWith" => ActiveAfter(s, e) = e.channels
         /\ e.kind = "mark" => ActiveAfter(s, e) = NoChannels
         /\ e.kind \notin {"markWith", "mark"} => ActiveAfter(s, e) = s.active
BY Zenon DEF ActiveAfter

\* What is remembered after an event.
LEMMA Scans ==
  ASSUME NEW h, NEW s \in Scan, NEW e \in Events,
         IsMark(e) => s.position \in Point,
         NEW n, n = Scanned(h, s, e)
  PROVE  /\ n \in Scan /\ n.active = ActiveAfter(s, e)
         /\ IsMotion(e) => n.position = e.to
         /\ ~IsMotion(e) => n.position = s.position
         /\ e.kind = "modulate" => n.modulation = e.value /\ n.pending
         /\ e.kind # "modulate" => n.modulation = s.modulation
         /\ IsMark(e) => ~n.pending
         /\ e.kind # "modulate" /\ ~IsMark(e) => n.pending = s.pending
<1> DEFINE d == Delta(s.position, e.to)
           sign == IF Native(h) /\ h.strategy = "unidirectional"
                     THEN Sign(d[1] + d[2]) ELSE s.sign
<1>0. /\ e.kind \in Kinds
      /\ IsMotion(e) => e.to \in Point
      /\ e.kind = "markWith" => e.channels \in ChannelPlans
      /\ e.kind = "modulate" => e.value \in Int
  BY EventTypes
<1>1. CASE e.kind = "modulate"
  <2>1. n = [s EXCEPT !.pending = TRUE, !.modulation = e.value]
    BY <1>1, Zenon DEF Scanned
  <2>2. ActiveAfter(s, e) = s.active
    BY <1>1, Actives
  <2> QED
    BY <1>0, <1>1, <2>1, <2>2 DEF Scan, IsMotion, IsMark
<1>2. CASE e.kind = "dwell"
  <2>1. n = s
    BY <1>2, Zenon DEF Scanned
  <2>2. ActiveAfter(s, e) = s.active
    BY <1>2, Actives
  <2> QED
    BY <1>2, <2>1, <2>2 DEF IsMotion, IsMark
<1>3. CASE e.kind = "pulse"
  <2>1. n = [s EXCEPT !.marked = TRUE]
    BY <1>3, Zenon DEF Scanned
  <2>2. ActiveAfter(s, e) = s.active
    BY <1>3, Actives
  <2> QED
    BY <1>3, <2>1, <2>2 DEF Scan, IsMotion, IsMark
<1>4. CASE e.kind = "travel"
  <2>1. n = [s EXCEPT !.position = e.to, !.points = @ \cup {e.to}]
    BY <1>4, Zenon DEF Scanned
  <2>2. ActiveAfter(s, e) = s.active
    BY <1>4, Actives
  <2>3. IsMotion(e) /\ ~IsMark(e) /\ e.to \in Point
    BY <1>0, <1>4 DEF IsMotion, IsMark
  <2>4. /\ n.position = e.to /\ n.active = s.active
        /\ n.modulation = s.modulation /\ n.pending = s.pending
    BY <2>1 DEF Scan
  <2>5. n \in Scan
    <3>1. s.points \in SUBSET Point
      BY DEF Scan
    <3> DEFINE points == s.points \cup {e.to}
    <3>2. points \in SUBSET Point
      BY <2>3, <3>1
    <3>3. e.to \in Point \cup {Nowhere}
      BY <2>3
    <3> HIDE DEF points
    <3> QED
      BY <2>1, <2>3, <3>2, <3>3 DEF Scan, points
  <2> QED
    BY <1>4, <2>2, <2>3, <2>4, <2>5
<1>5. CASE IsMark(e)
  <2>1. n = [s EXCEPT !.position = e.to, !.points = @ \cup {e.to},
                      !.marked = TRUE, !.pending = FALSE,
                      !.active = ActiveAfter(s, e), !.sign = sign]
    BY <1>5, Zenon DEF Scanned, IsMark
  <2>2. sign \in Int
    <3>1. d[1] + d[2] \in Int
      BY <1>0, <1>5 DEF Delta, Point, IsMark, IsMotion
    <3>2. Sign(d[1] + d[2]) \in Int
      BY DEF Sign
    <3>3. s.sign \in Int
      BY DEF Scan
    <3> QED
      BY <3>2, <3>3
  <2>3. ActiveAfter(s, e) \in ChannelPlans \cup {NoChannels}
    <3>1. s.active \in ChannelPlans \cup {NoChannels}
      BY DEF Scan
    <3> QED
      BY <1>0, <1>5, <3>1, Actives DEF IsMark
  <2>4. IsMotion(e) /\ e.to \in Point /\ e.kind # "modulate"
    BY <1>0, <1>5 DEF IsMotion, IsMark
  <2> HIDE DEF sign
  <2>5. /\ n.position = e.to /\ n.active = ActiveAfter(s, e)
        /\ n.modulation = s.modulation /\ n.pending = FALSE
    BY <2>1 DEF Scan
  <2>6. n \in Scan
    <3>1. s.points \in SUBSET Point
      BY DEF Scan
    <3> DEFINE points == s.points \cup {e.to}
    <3>2. points \in SUBSET Point
      BY <2>4, <3>1
    <3>3. e.to \in Point \cup {Nowhere}
      BY <2>4
    <3> HIDE DEF points
    <3> QED
      BY <2>1, <2>2, <2>3, <2>4, <3>2, <3>3 DEF Scan, points
  <2> QED
    BY <1>5, <2>4, <2>5, <2>6
<1> QED
  BY <1>0, <1>1, <1>2, <1>3, <1>4, <1>5 DEF Kinds, IsMark

\* What is remembered stays sound.
LEMMA Sound ==
  ASSUME NEW h, NEW s, ScanIsSound(h, s), NEW e \in Events,
         EventIsValid(h, s, e)
  PROVE  ScanIsSound(h, Scanned(h, s, e))
<1> DEFINE n == Scanned(h, s, e)
<1>1. s \in Scan
  BY DEF ScanIsSound
<1>2. IsMark(e) => s.position \in Point
  BY <1>1, Validity DEF IsMark, IsMotion, Scan
<1>3. /\ n \in Scan /\ n.active = ActiveAfter(s, e)
      /\ e.kind = "modulate" => n.modulation = e.value /\ n.pending
      /\ e.kind # "modulate" => n.modulation = s.modulation
      /\ e.kind # "modulate" /\ ~IsMark(e) => n.pending = s.pending
  BY <1>1, <1>2, Scans
<1> HIDE DEF n
<1>4. ASSUME n.active # NoChannels
      PROVE  h.kind = "vector" /\ ChannelsAreValid(n.active)
  BY <1>3, <1>4, Actives, Validity DEF ScanIsSound, IsMotion
<1>5. ASSUME n.modulation # NoModulation PROVE h.kind = "raster"
  BY <1>3, <1>5, Validity DEF ScanIsSound, Native
<1>6. ASSUME n.modulation # NoModulation, ~n.pending
      PROVE  Wire(n.modulation) >= Floor
  <2>1. CASE IsMark(e)
    BY <1>3, <1>5, <1>6, <2>1, Validity DEF MarkIsValid, IsMark, IsMotion
  <2>2. CASE ~IsMark(e)
    BY <1>3, <1>6, <2>2 DEF ScanIsSound
  <2> QED
    BY <2>1, <2>2
<1>7. ScanIsSound(h, n)
  BY <1>3, <1>4, <1>5, <1>6 DEF ScanIsSound
<1> QED
  BY <1>7 DEF n

\* So it is at the beginning of a section.
LEMMA FreshIsSound ==
  ASSUME NEW h
  PROVE  ScanIsSound(h, FreshScan)
BY DEF ScanIsSound, FreshScan, Scan

-----------------------------------------------------------------------------
(* The analysis.                                                           *)

\* An item of a sequence, and the sequence with another one in its place.
LEMMA Items ==
  ASSUME NEW S, NEW q \in Seq(S), NEW i \in DOMAIN q
  PROVE  /\ q[i] \in S
         /\ \A x \in S : LET r == [q EXCEPT ![i] = x]
                         IN  /\ r \in Seq(S) /\ Len(r) = Len(q)
                             /\ DOMAIN r = DOMAIN q /\ r[i] = x
                             /\ \A j \in DOMAIN q : j # i => r[j] = q[j]
OBVIOUS

\* A section without events has a trace,
LEMMA FreshTrace ==
  ASSUME NEW h
  PROVE  \E t : IsTrace(h, <<>>, t) /\ t[Len(<<>>)] = FreshScan
<1> DEFINE t == [i \in 0..0 |-> FreshScan]
<1>1. t[0] = FreshScan /\ Len(<<>>) = 0 /\ 1..0 = {}
  OBVIOUS
<1>2. IsTrace(h, <<>>, t)
  <2> HIDE DEF t
  <2>1. \A i \in 0..Len(<<>>) : i = 0
    BY <1>1
  <2>2. \A i \in 0..Len(<<>>) : ScanIsSound(h, t[i])
    BY <1>1, <2>1, FreshIsSound
  <2> QED
    BY <1>1, <2>2 DEF IsTrace
<1> HIDE DEF t
<1> QED
  BY <1>1, <1>2

\* and a valid event extends it.
LEMMA LongerTrace ==
  ASSUME NEW h, NEW events \in Seq(Events), NEW t, IsTrace(h, events, t),
         NEW e \in Events, EventIsValid(h, t[Len(events)], e)
  PROVE  \E u : /\ IsTrace(h, Append(events, e), u)
                /\ u[Len(Append(events, e))] = Scanned(h, t[Len(events)], e)
<1> DEFINE L == Len(events)
           more == Append(events, e)
           n == Scanned(h, t[L], e)
           u == [i \in 0..(L + 1) |-> IF i <= L THEN t[i] ELSE n]
<1>1. L \in Nat /\ Len(more) = L + 1 /\ more[L + 1] = e
      /\ \A i \in 1..L : more[i] = events[i]
  OBVIOUS
<1> HIDE DEF L, more, n
<1>2. u[L + 1] = n /\ \A i \in 0..L : u[i] = t[i]
  BY <1>1
<1> HIDE DEF u
<1>3. /\ t[0] = FreshScan
      /\ \A i \in 0..L : ScanIsSound(h, t[i])
      /\ \A i \in 1..L : /\ EventIsValid(h, t[i - 1], events[i])
                         /\ t[i] = Scanned(h, t[i - 1], events[i])
  BY DEF IsTrace, L
<1>4. EventIsValid(h, t[L], e) /\ n = Scanned(h, t[L], e)
  BY DEF L, n
<1>5. ScanIsSound(h, n)
  BY <1>1, <1>3, <1>4, Sound
<1>6. ASSUME NEW i \in 0..(L + 1) PROVE ScanIsSound(h, u[i])
  <2>1. i \in 0..L \/ i = L + 1
    BY <1>1
  <2> QED
    BY <1>2, <1>3, <1>5, <2>1
<1>7. ASSUME NEW i \in 1..(L + 1)
      PROVE  /\ EventIsValid(h, u[i - 1], more[i])
             /\ u[i] = Scanned(h, u[i - 1], more[i])
  <2>1. CASE i \in 1..L
    <3>1. u[i] = t[i] /\ u[i - 1] = t[i - 1] /\ more[i] = events[i]
      BY <1>1, <1>2, <2>1
    <3> QED
      BY <1>3, <2>1, <3>1
  <2>2. CASE i = L + 1
    <3>1. u[i] = n /\ u[i - 1] = t[L] /\ more[i] = e
      BY <1>1, <1>2, <2>2
    <3> QED
      BY <1>4, <3>1
  <2> QED
    BY <1>1, <2>1, <2>2
<1>8. u[0] = FreshScan
  BY <1>1, <1>2, <1>3
<1>9. IsTrace(h, more, u)
  BY <1>1, <1>6, <1>7, <1>8, Zenon DEF IsTrace
<1> QED
  BY <1>1, <1>2, <1>9 DEF more, n, L

\* Closing a scan, or opening one.
LEMMA Scanning ==
  /\ ClosedScan.open = FALSE /\ FreshScan.open = TRUE
  /\ FreshScan \in Scan /\ \A s \in Scan : s.open
<1>1. ClosedScan.open = FALSE /\ FreshScan.open = TRUE
  BY DEF ClosedScan, FreshScan
<1>2. FreshScan \in Scan
  BY DEF FreshScan, Scan
<1>3. \A s \in Scan : s.open
  BY DEF Scan
<1> QED
  BY <1>1, <1>2, <1>3

\* Nothing is left of a plan that is rejected.
LEMMA PlanRejected ==
  ASSUME plan' = <<>>, scan' = ClosedScan
  PROVE  PlanInv'
<1>1. <<>> \in Layers /\ DOMAIN <<>> = {}
  BY DEF Layers
<1> QED
  BY <1>1, Scanning DEF PlanInv

\* A step that leaves the analysis alone keeps its invariant.
LEMMA PlanKept ==
  ASSUME PlanInv, plan' = plan, scan' = scan
  PROVE  PlanInv'
BY DEF PlanInv, SectionIsAnalysed, IsOpen

\* The layer that Open adds is analysed as far as it goes.
LEMMA PlanOpened ==
  ASSUME PlanInv, NEW h \in Headers, Open(h)
  PROVE  PlanInv'
<1> DEFINE L == Len(plan)
           new == [header |-> h, sections |-> <<<<>>>>]
<1>1. /\ plan \in Layers /\ ~scan.open /\ scan' = FreshScan
      /\ plan' = Append(plan, new) /\ HeaderIsValid(h)
  BY DEF PlanInv, Open
<1>2. new \in [header : Headers, sections : Seq(Seq(Events))]
  <2>1. <<>> \in Seq(Events)
    OBVIOUS
  <2>2. <<<<>>>> \in Seq(Seq(Events))
    BY <2>1
  <2> QED
    BY <2>2
<1>3. /\ L \in Nat /\ DOMAIN plan = 1..L /\ Len(plan') = L + 1
      /\ DOMAIN plan' = 1..(L + 1) /\ plan'[L + 1] = new
      /\ plan' \in Layers /\ \A l \in 1..L : plan'[l] = plan[l]
  <2> HIDE DEF new
  <2> QED
    BY <1>1, <1>2 DEF Layers
<1>4. ASSUME NEW l \in 1..L
      PROVE  /\ HeaderIsSound(plan[l].header, l) /\ plan[l].sections # <<>>
             /\ \A s \in DOMAIN plan[l].sections : SectionIsAnalysed(l, s)'
  <2>1. plan'[l] = plan[l] /\ l # Len(plan')
    BY <1>3
  <2>2. /\ HeaderIsSound(plan[l].header, l) /\ plan[l].sections # <<>>
        /\ \A s \in DOMAIN plan[l].sections : SectionIsAnalysed(l, s)
    BY <1>3 DEF PlanInv
  <2>3. ASSUME NEW s \in DOMAIN plan[l].sections
        PROVE  SectionIsAnalysed(l, s)'
    <3>1. ~IsOpen(l, s) /\ ~IsOpen(l, s)'
      BY <1>1, <2>1 DEF IsOpen
    <3> QED
      BY <2>1, <2>2, <2>3, <3>1 DEF SectionIsAnalysed
  <2> QED
    BY <2>2, <2>3
<1>5. HeaderIsSound(h, L + 1)
  BY <1>1, <1>3 DEF HeaderIsValid, HeaderIsSound
<1>6. /\ DOMAIN new.sections = {1} /\ Len(new.sections) = 1
      /\ new.sections[1] = <<>> /\ new.sections # <<>> /\ new.header = h
  OBVIOUS
<1>7. ASSUME NEW l, l = L + 1 PROVE SectionIsAnalysed(l, 1)'
  <2> HIDE DEF new, L
  <2>1. /\ plan'[l].header = h /\ plan'[l].sections[1] = <<>>
        /\ Len(plan'[l].sections) = 1 /\ Len(plan') = l
    BY <1>3, <1>6, <1>7
  <2>2. IsOpen(l, 1)'
    BY <1>1, <2>1, Scanning DEF IsOpen
  <2>3. PICK t : IsTrace(h, <<>>, t) /\ t[Len(<<>>)] = FreshScan
    BY FreshTrace
  <2> QED
    BY <1>1, <2>1, <2>2, <2>3, Zenon DEF SectionIsAnalysed
<1>8. ASSUME NEW l \in DOMAIN plan'
      PROVE  /\ HeaderIsSound(plan'[l].header, l)
             /\ plan'[l].sections # <<>>
             /\ \A s \in DOMAIN plan'[l].sections : SectionIsAnalysed(l, s)'
  <2> HIDE DEF new
  <2>1. l \in 1..L \/ l = L + 1
    BY <1>3
  <2> QED
    <3>1. CASE l \in 1..L
      BY <1>3, <1>4, <3>1
    <3>2. CASE l = L + 1
      <4>1. /\ plan'[l].header = h /\ plan'[l].sections = new.sections
            /\ \A s \in DOMAIN new.sections : s = 1
        BY <1>3, <1>6, <3>2
      <4> QED
        BY <1>5, <1>6, <1>7, <3>2, <4>1
    <3> QED
      BY <2>1, <3>1, <3>2
<1> QED
  BY <1>1, <1>3, <1>8, Scanning DEF PlanInv, HeaderIsSound

\* CloseLayer asks that no SetModulation is pending.
LEMMA PlanClosed ==
  ASSUME PlanInv, CloseLayer
  PROVE  PlanInv'
<1>1. /\ plan' = plan /\ scan' = ClosedScan /\ ~scan.pending /\ ~scan'.open
  BY Scanning DEF CloseLayer, SectionIsValid
<1>2. ASSUME NEW l \in DOMAIN plan, NEW s \in DOMAIN plan[l].sections
      PROVE  SectionIsAnalysed(l, s)'
  <2>1. ~IsOpen(l, s)'
    BY <1>1 DEF IsOpen
  <2>2. SectionIsAnalysed(l, s)
    BY <1>2 DEF PlanInv
  <2> QED
    BY <1>1, <2>1, <2>2 DEF SectionIsAnalysed
<1> QED
  BY <1>1, <1>2 DEF PlanInv

\* The layer that is analysed, when its sections change and the other layers
\* do not.
LEMMA LastLayer ==
  ASSUME PlanInv, scan.open, NEW sections \in Seq(Seq(Events)),
         plan' = [plan EXCEPT ![Len(plan)].sections = sections]
  PROVE  /\ Len(plan) \in DOMAIN plan /\ Len(plan') = Len(plan)
         /\ DOMAIN plan' = DOMAIN plan /\ DOMAIN plan = 1..Len(plan)
         /\ plan' \in Layers
         /\ \A l \in DOMAIN plan : l # Len(plan) => plan'[l] = plan[l]
         /\ plan'[Len(plan)].sections = sections
         /\ plan'[Len(plan)].header = plan[Len(plan)].header
         /\ plan[Len(plan)].sections \in Seq(Seq(Events))
         /\ plan[Len(plan)].header \in Headers
<1> DEFINE L == Len(plan)
           Layer == [header : Headers, sections : Seq(Seq(Events))]
<1>1. plan \in Seq(Layer) /\ plan # <<>>
  BY DEF PlanInv, Layers
<1>2. L \in DOMAIN plan /\ DOMAIN plan = 1..L /\ L \in Nat
  BY <1>1
<1>3. plan[L] \in Layer
  <2> HIDE DEF Layer
  <2> QED
    BY <1>1, <1>2
<1> DEFINE new == [plan[L] EXCEPT !.sections = sections]
<1>4. new \in Layer /\ new.sections = sections /\ new.header = plan[L].header
  BY <1>3
<1>5. plan' = [plan EXCEPT ![L] = new]
  OBVIOUS
<1> HIDE DEF new
<1>6. plan' \in Seq(Layer) /\ Len(plan') = L /\ DOMAIN plan' = DOMAIN plan
  <2>1. \A x \in Layer :
          LET r == [plan EXCEPT ![L] = x]
          IN  r \in Seq(Layer) /\ Len(r) = Len(plan) /\ DOMAIN r = DOMAIN plan
    <3> HIDE DEF Layer, L
    <3> QED
      BY <1>1, <1>2, Items
  <2> HIDE DEF Layer
  <2> QED
    BY <1>4, <1>5, <2>1
<1>7. plan'[L] = new /\ \A l \in DOMAIN plan : l # L => plan'[l] = plan[l]
  BY <1>2, <1>5
<1> QED
  BY <1>2, <1>3, <1>4, <1>6, <1>7 DEF Layers

\* A section that is not open is not analysed again.
LEMMA OtherSections ==
  ASSUME PlanInv, Len(plan') = Len(plan), NEW l \in DOMAIN plan,
         NEW s \in DOMAIN plan[l].sections, ~IsOpen(l, s), ~IsOpen(l, s)',
         plan'[l].header = plan[l].header,
         plan'[l].sections[s] = plan[l].sections[s]
  PROVE  SectionIsAnalysed(l, s)'
<1>1. SectionIsAnalysed(l, s)
  BY DEF PlanInv
<1> QED
  BY <1>1 DEF SectionIsAnalysed

\* Add extends the trace of the open section.
LEMMA PlanExtended ==
  ASSUME PlanInv, NEW e \in Events, Add(e)
  PROVE  PlanInv'
<1>1. /\ scan.open /\ EventIsValid(Current, scan, e)
      /\ scan' = Scanned(Current, scan, e)
      /\ plan' = [plan EXCEPT ![Len(plan)].sections[Len(plan[Len(plan)].sections)]
                                = Append(@, e)]
  BY DEF Add
<1>2. PICK L : L = Len(plan)
  OBVIOUS
<1> DEFINE sections == plan[L].sections
<1>3. PICK S : S = Len(sections)
  OBVIOUS
<1>4. /\ plan \in Layers /\ plan # <<>> /\ L \in DOMAIN plan
      /\ sections \in Seq(Seq(Events)) /\ sections # <<>>
  <2>1. plan \in Layers /\ plan # <<>>
    BY <1>1 DEF PlanInv
  <2>2. L \in DOMAIN plan
    BY <1>2, <2>1 DEF Layers
  <2>3. plan[L] \in [header : Headers, sections : Seq(Seq(Events))]
    BY <2>1, <2>2, Items, ZenonT(40) DEF Layers
  <2> QED
    BY <2>1, <2>2, <2>3 DEF PlanInv
<1>5. S \in DOMAIN sections /\ DOMAIN sections = 1..S /\ S \in Nat
  <2> HIDE DEF sections
  <2> QED
    BY <1>3, <1>4
<1> DEFINE events == sections[S]
           longer == [sections EXCEPT ![S] = Append(events, e)]
<1>6. events \in Seq(Events)
  <2> HIDE DEF sections
  <2> QED
    BY <1>4, <1>5
<1>7. /\ longer \in Seq(Seq(Events)) /\ longer[S] = Append(events, e)
      /\ Len(longer) = S /\ DOMAIN longer = DOMAIN sections
      /\ \A s \in DOMAIN sections : s # S => longer[s] = sections[s]
  <2>1. Append(events, e) \in Seq(Events)
    <3> HIDE DEF events
    <3> QED
      BY <1>6
  <2> HIDE DEF sections
  <2> QED
    BY <1>3, <1>4, <1>5, <2>1
<1>8. plan' = [plan EXCEPT ![L].sections = longer]
  BY <1>1, <1>2, <1>3
<1> HIDE DEF longer
<1>9. /\ Len(plan') = L /\ DOMAIN plan' = DOMAIN plan /\ DOMAIN plan = 1..L
      /\ plan' \in Layers
      /\ \A l \in DOMAIN plan : l # L => plan'[l] = plan[l]
      /\ plan'[L].sections = longer /\ plan'[L].header = plan[L].header
  BY <1>1, <1>2, <1>7, <1>8, LastLayer
<1>10. SectionIsAnalysed(L, S)'
  <2>1. SectionIsAnalysed(L, S) /\ IsOpen(L, S)
    BY <1>1, <1>2, <1>3, <1>4, <1>5 DEF PlanInv, IsOpen
  <2>2. PICK t : IsTrace(Current, events, t) /\ t[Len(events)] = scan
    BY <1>2, <2>1 DEF SectionIsAnalysed, Current
  <2>3. EventIsValid(Current, t[Len(events)], e)
    BY <1>1, <2>2
  <2>4. PICK u : /\ IsTrace(Current, Append(events, e), u)
                 /\ u[Len(Append(events, e))]
                      = Scanned(Current, t[Len(events)], e)
    <3> HIDE DEF events
    <3> QED
      BY <1>6, <2>2, <2>3, LongerTrace
  <2>5. u[Len(Append(events, e))] = scan'
    BY <1>1, <2>2, <2>4
  <2>6. plan'[L].sections[S] = Append(events, e) /\ plan'[L].header = Current
    BY <1>2, <1>7, <1>9 DEF Current
  <2>7. IsOpen(L, S)'
    <3>1. ScanIsSound(Current, scan')
      BY <2>4, <2>5, SMTT(60) DEF IsTrace
    <3> QED
      BY <1>7, <1>9, <3>1, Scanning DEF IsOpen, ScanIsSound
  <2> HIDE DEF events
  <2> QED
    BY <2>4, <2>5, <2>6, <2>7, Zenon DEF SectionIsAnalysed
<1>11. ASSUME NEW l \in DOMAIN plan', NEW s \in DOMAIN plan'[l].sections
       PROVE  SectionIsAnalysed(l, s)'
  <2>1. CASE l = L /\ s = S
    BY <1>10, <2>1
  <2>2. CASE l = L /\ s # S
    <3>1. s \in DOMAIN sections /\ plan'[l].sections[s] = plan[l].sections[s]
      BY <1>7, <1>9, <1>11, <2>2
    <3>2. ~IsOpen(l, s) /\ ~IsOpen(l, s)'
      BY <1>2, <1>3, <1>7, <1>9, <2>2 DEF IsOpen
    <3> QED
      BY <1>2, <1>9, <2>2, <3>1, <3>2, OtherSections
  <2>3. CASE l # L
    <3>1. plan'[l] = plan[l] /\ ~IsOpen(l, s) /\ ~IsOpen(l, s)'
      BY <1>2, <1>9, <1>11, <2>3 DEF IsOpen
    <3> QED
      BY <1>2, <1>9, <1>11, <3>1, OtherSections
  <2> QED
    BY <2>1, <2>2, <2>3
<1>12. ASSUME NEW l \in DOMAIN plan'
       PROVE  HeaderIsSound(plan'[l].header, l) /\ plan'[l].sections # <<>>
  <2>1. HeaderIsSound(plan[l].header, l) /\ plan[l].sections # <<>>
    BY <1>9 DEF PlanInv
  <2>2. longer # <<>>
    BY <1>4, <1>5, <1>7
  <2> QED
    BY <1>9, <2>1, <2>2
<1>13. scan' \in Scan /\ plan' # <<>>
  <2>1. PICK t : IsTrace(Current, events, t) /\ t[Len(events)] = scan
    <3>1. SectionIsAnalysed(L, S) /\ IsOpen(L, S)
      BY <1>1, <1>2, <1>3, <1>4, <1>5 DEF PlanInv, IsOpen
    <3> QED
      BY <1>2, <3>1 DEF SectionIsAnalysed, Current
  <2>2. Len(events) \in 0..Len(events)
    <3> HIDE DEF events
    <3> QED
      BY <1>6
  <2>3. ScanIsSound(Current, scan)
    BY <2>1, <2>2 DEF IsTrace
  <2>4. ScanIsSound(Current, scan')
    BY <1>1, <2>3, Sound
  <2> QED
    BY <1>4, <1>9, <2>4 DEF ScanIsSound
<1> QED
  BY <1>9, <1>11, <1>12, <1>13, Zenon DEF PlanInv, HeaderIsSound

\* NextSection leaves a complete section behind.
LEMMA PlanContinued ==
  ASSUME PlanInv, NextSection
  PROVE  PlanInv'
<1>1. /\ scan.open /\ ~scan.pending /\ scan' = FreshScan
      /\ plan' = [plan EXCEPT ![Len(plan)].sections = Append(@, <<>>)]
  BY DEF NextSection, SectionIsValid
<1>2. PICK L : L = Len(plan)
  OBVIOUS
<1> DEFINE sections == plan[L].sections
           longer == Append(sections, <<>>)
<1>3. PICK S : S = Len(sections)
  OBVIOUS
<1>4. /\ plan \in Layers /\ plan # <<>> /\ L \in DOMAIN plan
      /\ sections \in Seq(Seq(Events)) /\ sections # <<>>
  <2>1. plan \in Layers /\ plan # <<>>
    BY <1>1 DEF PlanInv
  <2>2. L \in DOMAIN plan
    BY <1>2, <2>1 DEF Layers
  <2>3. plan[L] \in [header : Headers, sections : Seq(Seq(Events))]
    BY <2>1, <2>2, Items, ZenonT(40) DEF Layers
  <2> QED
    BY <2>1, <2>2, <2>3 DEF PlanInv
<1>5. /\ DOMAIN sections = 1..S /\ S \in Nat /\ longer \in Seq(Seq(Events))
      /\ Len(longer) = S + 1 /\ DOMAIN longer = 1..(S + 1)
      /\ longer[S + 1] = <<>> /\ \A s \in 1..S : longer[s] = sections[s]
  <2>1. <<>> \in Seq(Events)
    OBVIOUS
  <2> HIDE DEF sections
  <2> QED
    BY <1>3, <1>4, <2>1
<1>6. plan' = [plan EXCEPT ![L].sections = longer]
  BY <1>1, <1>2
<1> HIDE DEF longer
<1>7. /\ Len(plan') = L /\ DOMAIN plan' = DOMAIN plan /\ DOMAIN plan = 1..L
      /\ plan' \in Layers
      /\ \A l \in DOMAIN plan : l # L => plan'[l] = plan[l]
      /\ plan'[L].sections = longer /\ plan'[L].header = plan[L].header
  BY <1>1, <1>2, <1>5, <1>6, LastLayer
<1>8. ASSUME NEW l \in DOMAIN plan', NEW s \in DOMAIN plan'[l].sections
      PROVE  SectionIsAnalysed(l, s)'
  <2>1. CASE l = L /\ s = S + 1
    <3>1. IsOpen(l, s)'
      BY <1>1, <1>5, <1>7, <2>1, Scanning DEF IsOpen
    <3>2. PICK t : /\ IsTrace(plan[L].header, <<>>, t)
                   /\ t[Len(<<>>)] = FreshScan
      BY FreshTrace
    <3>3. /\ plan'[l].sections[s] = <<>> /\ plan'[l].header = plan[L].header
          /\ scan' = FreshScan
      BY <1>1, <1>5, <1>7, <2>1
    <3> QED
      BY <3>1, <3>2, <3>3, Zenon DEF SectionIsAnalysed
  <2>2. CASE l = L /\ s = S
    <3>1. IsOpen(l, s) /\ ~IsOpen(l, s)'
      BY <1>1, <1>2, <1>3, <1>5, <1>7, <2>2 DEF IsOpen
    <3>2. SectionIsAnalysed(l, s)
      BY <1>4, <1>5, <1>7, <1>8, <2>2 DEF PlanInv
    <3>3. /\ plan'[l].sections[s] = plan[l].sections[s]
          /\ plan'[l].header = plan[l].header
      BY <1>5, <1>7, <1>8, <2>2
    <3> QED
      BY <1>1, <3>1, <3>2, <3>3 DEF SectionIsAnalysed
  <2>3. CASE l = L /\ s # S /\ s # S + 1
    <3>1. s \in DOMAIN sections /\ plan'[l].sections[s] = plan[l].sections[s]
      BY <1>5, <1>7, <1>8, <2>3
    <3>2. ~IsOpen(l, s) /\ ~IsOpen(l, s)'
      BY <1>2, <1>3, <1>5, <1>7, <2>3 DEF IsOpen
    <3> QED
      BY <1>2, <1>7, <2>3, <3>1, <3>2, OtherSections
  <2>4. CASE l # L
    <3>1. plan'[l] = plan[l] /\ ~IsOpen(l, s) /\ ~IsOpen(l, s)'
      BY <1>2, <1>7, <1>8, <2>4 DEF IsOpen
    <3> QED
      BY <1>2, <1>7, <1>8, <3>1, OtherSections
  <2> QED
    BY <2>1, <2>2, <2>3, <2>4
<1>9. ASSUME NEW l \in DOMAIN plan'
      PROVE  HeaderIsSound(plan'[l].header, l) /\ plan'[l].sections # <<>>
  <2>1. HeaderIsSound(plan[l].header, l) /\ plan[l].sections # <<>>
    BY <1>7 DEF PlanInv
  <2>2. longer # <<>>
    BY <1>5
  <2> QED
    BY <1>7, <2>1, <2>2
<1>10. scan' \in Scan /\ plan' # <<>>
  BY <1>1, <1>4, <1>7, Scanning
<1> QED
  BY <1>7, <1>8, <1>9, <1>10, Zenon DEF PlanInv, HeaderIsSound

\* The plan and the scan stay what the analysis has made of them.
LEMMA PlanStep ==
  ASSUME PlanInv, Next \/ UNCHANGED vars
  PROVE  PlanInv'
<1>1. CASE \E h \in Headers : Open(h)
  BY <1>1, PlanOpened
<1>2. CASE \E e \in Events : Add(e)
  BY <1>2, PlanExtended
<1>3. CASE NextSection
  BY <1>3, PlanContinued
<1>4. CASE CloseLayer
  BY <1>4, PlanClosed
<1>5. CASE \/ \E h \in Headers : OpenRefused(h)
           \/ \E e \in Events : AddRefused(e)
           \/ CloseRefused
           \/ \E b \in Declared : EndRefused(b)
           \/ \E p \in Profiles : FeaturesRefused(p)
  BY <1>5, PlanRejected
     DEF OpenRefused, AddRefused, CloseRefused, EndRefused, FeaturesRefused,
         Reject
<1>6. CASE \/ \E b \in Declared : EndAnalysis(b)
           \/ \E p \in Profiles : Accept(p)
           \/ Metadata \/ BeginSection \/ LowerModulation \/ LowerStationary
           \/ LowerMotion \/ LowerChunk \/ EndSection
           \/ UNCHANGED vars
  <2>1. plan' = plan /\ scan' = scan
    BY <1>6 DEF EndAnalysis, Accept, Metadata, BeginSection, LowerModulation,
       LowerStationary, LowerMotion, LowerChunk, EndSection, vars
  <2> QED
    BY <2>1, PlanKept
<1> QED
  BY <1>1, <1>2, <1>3, <1>4, <1>5, <1>6 DEF Next

\* No layer, no trace.
LEMMA PlanInitially ==
  ASSUME Init
  PROVE  PlanInv
<1>1. <<>> \in Layers /\ DOMAIN <<>> = {}
  BY DEF Layers
<1> QED
  BY <1>1, Scanning DEF PlanInv, Init

-----------------------------------------------------------------------------
(* Records.                                                                *)

\* ExecuteAll, for the numbers of records the compiler writes at once.
LEMMA ExecutedNone ==
  ASSUME NEW m
  PROVE  Controller!ExecuteAll(m, <<>>) = m
<1>1. <<>> \in Seq({}) /\ Len(<<>>) = 0
  OBVIOUS
<1>2. \E after : IsExecution(after, m, <<>>)
  BY <1>1, Executed
<1> QED
  BY <1>1, <1>2 DEF IsExecution

\* One record.
LEMMA ExecutedOne ==
  ASSUME NEW m, NEW a
  PROVE  Controller!ExecuteAll(m, <<a>>) = Controller!Execute(m, a)
<1> DEFINE r == <<a>>
<1>1. r \in Seq({a}) /\ Len(r) = 1 /\ r[1] = a /\ 1 \in 1..1 /\ 1 - 1 = 0
  OBVIOUS
<1> HIDE DEF r
<1>2. Controller!ExecuteAll(m, r) = Controller!Execute(m, a)
  <2>1. \E after : IsExecution(after, m, r)
    BY <1>1, Executed
  <2> QED
    BY <1>1, <2>1 DEF IsExecution
<1> QED
  BY <1>2 DEF r

\* Three records.
LEMMA ExecutedThree ==
  ASSUME NEW m, NEW a, NEW b, NEW c
  PROVE  Controller!ExecuteAll(m, <<a, b, c>>)
           = Controller!Execute(Controller!Execute(Controller!Execute(m, a), b),
                                c)
<1> DEFINE r == <<a, b, c>>
<1> DEFINE R == {a, b, c}
<1>1. /\ r \in Seq(R) /\ Len(r) = 3
      /\ r[1] = a /\ r[2] = b /\ r[3] = c
  OBVIOUS
<1> HIDE DEF r, R
<1>2. PICK after :
        /\ DOMAIN after = 0..Len(r) /\ after[0] = m
        /\ \A n \in 1..Len(r) :
             after[n] = Controller!Execute(after[n - 1], r[n])
        /\ Controller!ExecuteAll(m, r) = after[Len(r)]
  <2>1. \E after : IsExecution(after, m, r)
    BY <1>1, Executed
  <2> QED
    BY <2>1 DEF IsExecution
<1>3. /\ after[1] = Controller!Execute(m, a)
      /\ after[2] = Controller!Execute(after[1], b)
      /\ after[3] = Controller!Execute(after[2], c)
  BY <1>1, <1>2
<1>4. Controller!ExecuteAll(m, r) = after[3]
  BY <1>1, <1>2
<1> QED
  BY <1>3, <1>4 DEF r

\* Five records.
LEMMA ExecutedFive ==
  ASSUME NEW m, NEW a, NEW b, NEW c, NEW d, NEW e
  PROVE  \E m1, m2, m3, m4 :
           /\ m1 = Controller!Execute(m, a) /\ m2 = Controller!Execute(m1, b)
           /\ m3 = Controller!Execute(m2, c) /\ m4 = Controller!Execute(m3, d)
           /\ Controller!ExecuteAll(m, <<a, b, c, d, e>>)
                = Controller!Execute(m4, e)
<1> DEFINE r == <<a, b, c, d, e>>
<1> DEFINE R == {a, b, c, d, e}
<1>1. /\ r \in Seq(R) /\ Len(r) = 5
      /\ r[1] = a /\ r[2] = b /\ r[3] = c /\ r[4] = d /\ r[5] = e
  OBVIOUS
<1> HIDE DEF r, R
<1>2. PICK after :
        /\ DOMAIN after = 0..Len(r) /\ after[0] = m
        /\ \A n \in 1..Len(r) :
             after[n] = Controller!Execute(after[n - 1], r[n])
        /\ Controller!ExecuteAll(m, r) = after[Len(r)]
  <2>1. \E after : IsExecution(after, m, r)
    BY <1>1, Executed
  <2> QED
    BY <2>1 DEF IsExecution
<1>3. /\ after[1] = Controller!Execute(m, a)
      /\ after[2] = Controller!Execute(after[1], b)
      /\ after[3] = Controller!Execute(after[2], c)
      /\ after[4] = Controller!Execute(after[3], d)
      /\ after[5] = Controller!Execute(after[4], e)
  BY <1>1, <1>2
<1>4. Controller!ExecuteAll(m, r) = after[5]
  BY <1>1, <1>2
<1> QED
  BY <1>3, <1>4 DEF r

\* The items of a concatenation.
LEMMA JoinedItems ==
  ASSUME NEW S, NEW p \in Seq(S), NEW q \in Seq(S)
  PROVE  /\ p \o q \in Seq(S) /\ Len(p \o q) = Len(p) + Len(q)
         /\ \A i \in 1..Len(p) : (p \o q)[i] = p[i]
         /\ \A i \in 1..Len(q) : (p \o q)[Len(p) + i] = q[i]
OBVIOUS

\* Three records and five more.
LEMMA ExecutedEight ==
  ASSUME NEW m, NEW x, NEW y, NEW z, NEW a, NEW b, NEW c, NEW d, NEW e
  PROVE  Controller!ExecuteAll(m, <<x, y, z>> \o <<a, b, c, d, e>>)
           = Controller!ExecuteAll(Controller!ExecuteAll(m, <<x, y, z>>),
                                   <<a, b, c, d, e>>)
<1> DEFINE p == <<x, y, z>>
           q == <<a, b, c, d, e>>
           r == p \o q
           R == {x, y, z, a, b, c, d, e}
<1>1. /\ r \in Seq(R) /\ Len(r) = 8
      /\ r[1] = x /\ r[2] = y /\ r[3] = z
      /\ r[4] = a /\ r[5] = b /\ r[6] = c /\ r[7] = d /\ r[8] = e
  <2>1. /\ p \in Seq(R) /\ Len(p) = 3 /\ p[1] = x /\ p[2] = y /\ p[3] = z
    OBVIOUS
  <2>2. /\ q \in Seq(R) /\ Len(q) = 5
        /\ q[1] = a /\ q[2] = b /\ q[3] = c /\ q[4] = d /\ q[5] = e
    OBVIOUS
  <2> HIDE DEF p, q, R
  <2>3. /\ r \in Seq(R) /\ Len(r) = Len(p) + Len(q)
        /\ \A i \in 1..Len(p) : r[i] = p[i]
        /\ \A i \in 1..Len(q) : r[Len(p) + i] = q[i]
    <3>1. p \in Seq(R) /\ q \in Seq(R)
      BY <2>1, <2>2
    <3> QED
      BY <3>1, JoinedItems
  <2> HIDE DEF r
  <2>4. r[1] = x /\ r[2] = y /\ r[3] = z
    BY <2>1, <2>3
  <2>5. \A i \in 1..5 : r[3 + i] = q[i]
    BY <2>1, <2>2, <2>3
  <2>6. /\ r[4] = a /\ r[5] = b /\ r[6] = c /\ r[7] = d /\ r[8] = e
    <3>1. /\ r[3 + 1] = a /\ r[3 + 2] = b /\ r[3 + 3] = c /\ r[3 + 4] = d
          /\ r[3 + 5] = e
      BY <2>2, <2>5
    <3> QED
      BY <3>1
  <2> QED
    BY <2>1, <2>2, <2>3, <2>4, <2>6
<1> HIDE DEF r, R
<1>2. PICK after :
        /\ DOMAIN after = 0..Len(r) /\ after[0] = m
        /\ \A n \in 1..Len(r) :
             after[n] = Controller!Execute(after[n - 1], r[n])
        /\ Controller!ExecuteAll(m, r) = after[Len(r)]
  <2>1. \E after : IsExecution(after, m, r)
    BY <1>1, Executed
  <2> QED
    BY <2>1 DEF IsExecution
<1>3. /\ after[1] = Controller!Execute(m, x)
      /\ after[2] = Controller!Execute(after[1], y)
      /\ after[3] = Controller!Execute(after[2], z)
      /\ after[4] = Controller!Execute(after[3], a)
      /\ after[5] = Controller!Execute(after[4], b)
      /\ after[6] = Controller!Execute(after[5], c)
      /\ after[7] = Controller!Execute(after[6], d)
      /\ after[8] = Controller!Execute(after[7], e)
  BY <1>1, <1>2
<1>4. Controller!ExecuteAll(m, r) = after[8]
  BY <1>1, <1>2
<1>5. Controller!ExecuteAll(m, <<x, y, z>>) = after[3]
  BY <1>3, ExecutedThree
<1>6. Controller!ExecuteAll(after[3], <<a, b, c, d, e>>) = after[8]
  BY <1>3, ExecutedFive
<1> QED
  BY <1>4, <1>5, <1>6 DEF r, p, q

-----------------------------------------------------------------------------
(* The controller.                                                         *)

Pair == Int \X Int

\* The powers of channels are pairs of numbers.
LEMMA Wires ==
  ASSUME NEW channels \in ChannelPlans
  PROVE  /\ DOMAIN channels \subseteq LaserHead
         /\ \A i \in DOMAIN channels :
              /\ channels[i] \in LaserChannelPlan
              /\ WirePair(channels[i]) \in Pair
<1>1. /\ DOMAIN channels \subseteq LaserHead
      /\ \A i \in DOMAIN channels : channels[i] \in LaserChannelPlan
  BY DEF ChannelPlans, LaserHead
<1>2. \A c \in LaserChannelPlan : c.min \in Int /\ c.max \in Int
  BY DEF LaserChannelPlan
<1>3. \A c \in LaserChannelPlan : WirePair(c) \in Pair
  BY <1>2 DEF WirePair, Wire, Pair
<1> QED
  BY <1>1, <1>3

\* What the proofs use of the type of a layer.
LEMMA HeaderTypes ==
  ASSUME NEW h \in Headers
  PROVE  /\ h.index \in Int /\ h.min \in Int /\ h.max \in Int
         /\ h.kind \in {"vector", "raster"}
         /\ h.channels \in ChannelPlans \cup {NoChannels}
         /\ h.speed \in Int /\ h.air \in BOOLEAN /\ h.z \in Int
BY PlansAssumption DEF LayerPlan

\* PowerOf gives pairs to some of the heads.
LEMMA PowerTypes ==
  ASSUME NEW h \in Headers
  PROVE  /\ DOMAIN PowerOf(h) \subseteq LaserHead
         /\ \A i \in DOMAIN PowerOf(h) : PowerOf(h)[i] \in Pair
<1>1. CASE h.channels = NoChannels
  <2>1. PowerOf(h) = [i \in LaserHead |-> <<Wire(h.min), Wire(h.max)>>]
    BY <1>1 DEF PowerOf
  <2>2. <<Wire(h.min), Wire(h.max)>> \in Pair
    BY HeaderTypes DEF Wire, Pair
  <2> QED
    BY <2>1, <2>2
<1>2. CASE h.channels # NoChannels
  <2>1. PowerOf(h) = [i \in DOMAIN h.channels |-> WirePair(h.channels[i])]
    BY <1>2 DEF PowerOf
  <2>2. h.channels \in ChannelPlans
    BY <1>2, HeaderTypes
  <2> QED
    BY <2>1, <2>2, Wires
<1> QED
  BY <1>1, <1>2

\* What no setting changes.
Rest(m, n) ==
  /\ n.at = m.at /\ n.limits = m.limits /\ n.bounds = m.bounds
  /\ n.stroke = m.stroke

\* Selecting a layer may load powers and end the modulation.
LEMMA Selected ==
  ASSUME NEW m, Machine(m), NEW h \in Headers,
         NEW n, n = Controller!Execute(m, [do |-> "select", layer |-> h.index])
  PROVE  /\ Machine(n) /\ Rest(m, n) /\ n.layer = h.index /\ n.air = m.air
         /\ n.speed = m.speed /\ n.enabled = m.enabled /\ n.z = m.z
         /\ n.modulation = m.modulation \/ n.modulation = NoModulation
<1>1. n = Controller!Select(m, h.index)
  <2>1. PICK l : l = h.index
    OBVIOUS
  <2>2. Controller!Execute(m, [do |-> "select", layer |-> l])
          = Controller!Select(m, l)
    BY ZenonT(60) DEF Controller!Execute
  <2> QED
    BY <2>1, <2>2
<1>2. h.index \in Int /\ h.index \in {g.index : g \in Headers}
  BY HeaderTypes
<1>3. CASE m.loads
  <2>1. n = [m EXCEPT !.layer = h.index, !.power = m.limits[h.index],
                      !.modulation = NoModulation]
    BY <1>1, <1>3 DEF Controller!Select
  <2> QED
    BY <1>2, <2>1, ZenonT(40) DEF Machine, Rest
<1>4. CASE ~m.loads
  <2>1. n = [m EXCEPT !.layer = h.index]
    BY <1>1, <1>4 DEF Controller!Select
  <2> QED
    BY <1>2, <2>1 DEF Machine, Rest
<1> QED
  BY <1>3, <1>4

\* The record for the air assist.
LEMMA Aired ==
  ASSUME NEW m, Machine(m), NEW on \in BOOLEAN,
         NEW n, n = Controller!Execute(m, [do |-> "air", on |-> on])
  PROVE  /\ Machine(n) /\ Rest(m, n) /\ n.layer = m.layer /\ n.air = on
         /\ n.speed = m.speed /\ n.enabled = m.enabled /\ n.z = m.z
         /\ n.modulation = m.modulation /\ n.power = m.power
<1>1. n = [m EXCEPT !.air = on]
  BY Executions, ZenonT(40)
<1> QED
  BY <1>1 DEF Machine, Rest

\* The record for the speed.
LEMMA Sped ==
  ASSUME NEW m, Machine(m), NEW speed \in Int,
         NEW n, n = Controller!Execute(m, [do |-> "speed", speed |-> speed])
  PROVE  /\ Machine(n) /\ Rest(m, n) /\ n.layer = m.layer /\ n.air = m.air
         /\ n.speed = speed /\ n.enabled = m.enabled /\ n.z = m.z
         /\ n.modulation = m.modulation /\ n.power = m.power
<1>1. n = [m EXCEPT !.speed = speed]
  BY Executions, ZenonT(40)
<1> QED
  BY <1>1 DEF Machine, Rest

\* The record for the enabled heads.
LEMMA Enabled ==
  ASSUME NEW m, Machine(m), NEW heads \in SUBSET LaserHead,
         NEW n, n = Controller!Execute(m, [do |-> "enable", heads |-> heads])
  PROVE  /\ Machine(n) /\ Rest(m, n) /\ n.layer = m.layer /\ n.air = m.air
         /\ n.speed = m.speed /\ n.enabled = heads /\ n.z = m.z
         /\ n.modulation = m.modulation /\ n.power = m.power
<1>1. n = [m EXCEPT !.enabled = heads]
  BY Executions, ZenonT(40)
<1> QED
  BY <1>1 DEF Machine, Rest

\* The record for the Z axis.
LEMMA Lifted ==
  ASSUME NEW m, Machine(m), NEW by \in Int,
         NEW n, n = Controller!Execute(m, [do |-> "z", by |-> by])
  PROVE  /\ Machine(n) /\ Rest(m, n) /\ n.layer = m.layer /\ n.air = m.air
         /\ n.speed = m.speed /\ n.enabled = m.enabled /\ n.z = m.z + by
         /\ n.modulation = m.modulation /\ n.power = m.power
<1>1. n = [m EXCEPT !.z = m.z + by]
  BY Executions, ZenonT(40)
<1> QED
  BY <1>1 DEF Machine, Rest

\* The record for the modulation.
LEMMA Modulated ==
  ASSUME NEW m, Machine(m), NEW value \in Int,
         NEW n, n = Controller!Execute(m, [do |-> "modulate", value |-> value])
  PROVE  /\ Machine(n) /\ Rest(m, n) /\ n.layer = m.layer /\ n.air = m.air
         /\ n.speed = m.speed /\ n.enabled = m.enabled /\ n.z = m.z
         /\ n.modulation = value /\ n.power = m.power
<1>1. n = [m EXCEPT !.modulation = value]
  BY Executions, ZenonT(40)
<1> QED
  BY <1>1 DEF Machine, Rest

\* Given takes the powers of the heads a record names.
LEMMA GivenPowers ==
  ASSUME NEW powers \in [LaserHead -> Pair], NEW c,
         \A i \in DOMAIN c.power : c.power[i] \in Pair,
         DOMAIN c.power \subseteq LaserHead
  PROVE  /\ Controller!Given(c, powers) \in [LaserHead -> Pair]
         /\ \A i \in DOMAIN c.power : Controller!Given(c, powers)[i] = c.power[i]
BY DEF Controller!Given, Controller!LaserHead, LaserHead

\* The record for the powers.
LEMMA Powered ==
  ASSUME NEW m, Machine(m), NEW power, DOMAIN power \subseteq LaserHead,
         \A i \in DOMAIN power : power[i] \in Pair,
         NEW n, n = Controller!Execute(m, [do |-> "power", power |-> power])
  PROVE  /\ Machine(n) /\ Rest(m, n) /\ n.layer = m.layer /\ n.air = m.air
         /\ n.speed = m.speed /\ n.enabled = m.enabled /\ n.z = m.z
         /\ n.modulation = m.modulation
         /\ \A i \in DOMAIN power : n.power[i] = power[i]
<1> DEFINE c == [do |-> "power", power |-> power]
           given == Controller!Given(c, m.power)
<1>1. n = [m EXCEPT !.power = given]
  BY Executions, ZenonT(40)
<1>2. m.power \in [LaserHead -> Pair]
  BY DEF Machine, Pair
<1>3. given \in [LaserHead -> Pair] /\ \A i \in DOMAIN power : given[i] = power[i]
  <2>1. c.power = power
    OBVIOUS
  <2> HIDE DEF c
  <2> QED
    BY <1>2, <2>1, GivenPowers
<1> HIDE DEF given
<1> QED
  BY <1>1, <1>3 DEF Machine, Rest, Pair

\* The last thing the head did before n was this, from where m was, with the
\* settings of n.
IsStroke(m, kind, n) ==
  /\ n.stroke.kind = kind /\ n.stroke.from = m.at /\ n.stroke.to = n.at
  /\ n.stroke.regime = Controller!Regime(n)
  /\ n.stroke.modulation = n.modulation

\* What the head does for an event.
StrokeKind(e) ==
  IF e.kind = "travel" THEN "travel"
  ELSE IF e.kind = "dwell" THEN "wait"
  ELSE IF e.kind = "pulse" THEN "pulse"
  ELSE "mark"

\* A stroke changes the position and nothing else.
LEMMA Struck ==
  ASSUME NEW m, Machine(m), NEW p \in Point \cup {Nowhere}, NEW kind,
         NEW n, n = Controller!Strike(m, kind, p)
  PROVE  /\ Machine(n) /\ n.at = p /\ n.limits = m.limits
         /\ n.bounds = m.bounds /\ n.layer = m.layer /\ n.air = m.air
         /\ n.speed = m.speed /\ n.enabled = m.enabled /\ n.z = m.z
         /\ n.modulation = m.modulation /\ n.power = m.power
         /\ n.stroke.kind = kind /\ n.stroke.layer = m.layer
         /\ n.stroke.regime.power = [i \in m.enabled |-> m.power[i]]
         /\ n.stroke.modulation = m.modulation
         /\ IsStroke(m, kind, n)
<1> DEFINE stroke == [kind |-> kind, from |-> m.at, to |-> p,
                      layer |-> m.layer, regime |-> Controller!Regime(m),
                      modulation |-> m.modulation]
<1>1. n = [m EXCEPT !.at = p, !.stroke = stroke]
  BY DEF Controller!Strike
<1>2. Controller!Regime(m).power = [i \in m.enabled |-> m.power[i]]
  BY DEF Controller!Regime
<1>3. /\ stroke.kind = kind /\ stroke.layer = m.layer
      /\ stroke.from = m.at /\ stroke.to = p
      /\ stroke.regime = Controller!Regime(m)
      /\ stroke.regime.power = [i \in m.enabled |-> m.power[i]]
      /\ stroke.modulation = m.modulation
  BY <1>2
<1> HIDE DEF stroke
<1>4. /\ Machine(n) /\ n.at = p /\ n.limits = m.limits
      /\ n.bounds = m.bounds /\ n.layer = m.layer /\ n.air = m.air
      /\ n.speed = m.speed /\ n.enabled = m.enabled /\ n.z = m.z
      /\ n.modulation = m.modulation /\ n.power = m.power
      /\ n.stroke = stroke
  BY <1>1 DEF Machine
<1>5. Controller!Regime(n) = Controller!Regime(m)
  BY <1>4 DEF Controller!Regime
<1> QED
  BY <1>3, <1>4, <1>5 DEF IsStroke

\* The setup of a section, whatever was in force before it.
LEMMA SetUp ==
  ASSUME NEW m, Machine(m), NEW h \in Headers,
         EnabledHeads(h) \subseteq LaserHead,
         NEW n, n = Controller!ExecuteAll(m, Setup(h))
  PROVE  /\ Machine(n) /\ Rest(m, n) /\ n.layer = h.index /\ n.air = h.air
         /\ n.speed = h.speed /\ n.enabled = EnabledHeads(h) /\ n.z = m.z
         /\ n.modulation = m.modulation \/ n.modulation = NoModulation
         /\ \A i \in DOMAIN PowerOf(h) : n.power[i] = PowerOf(h)[i]
<1>1. PICK m1, m2, m3, m4 :
        /\ m1 = Controller!Execute(m, [do |-> "select", layer |-> h.index])
        /\ m2 = Controller!Execute(m1, [do |-> "air", on |-> h.air])
        /\ m3 = Controller!Execute(m2, [do |-> "speed", speed |-> h.speed])
        /\ m4 = Controller!Execute(m3, [do |-> "power", power |-> PowerOf(h)])
        /\ n = Controller!Execute(m4, [do |-> "enable",
                                       heads |-> EnabledHeads(h)])
  <2> DEFINE a == [do |-> "select", layer |-> h.index]
             b == [do |-> "air", on |-> h.air]
             c == [do |-> "speed", speed |-> h.speed]
             d == [do |-> "power", power |-> PowerOf(h)]
             e == [do |-> "enable", heads |-> EnabledHeads(h)]
  <2>1. Setup(h) = <<a, b, c, d, e>>
    BY DEF Setup, PowerSetup
  <2>2. n = Controller!ExecuteAll(m, <<a, b, c, d, e>>)
    BY <2>1
  <2> HIDE DEF a, b, c, d, e
  <2>3. \E m1, m2, m3, m4 :
           /\ m1 = Controller!Execute(m, a) /\ m2 = Controller!Execute(m1, b)
           /\ m3 = Controller!Execute(m2, c) /\ m4 = Controller!Execute(m3, d)
           /\ n = Controller!Execute(m4, e)
    BY <2>2, ExecutedFive
  <2> QED
    BY <2>3 DEF a, b, c, d, e
<1>2. /\ h.air \in BOOLEAN /\ h.speed \in Int
      /\ DOMAIN PowerOf(h) \subseteq LaserHead
      /\ \A i \in DOMAIN PowerOf(h) : PowerOf(h)[i] \in Pair
  BY HeaderTypes, PowerTypes
<1>3. /\ Machine(m1) /\ Rest(m, m1) /\ m1.layer = h.index /\ m1.z = m.z
      /\ m1.modulation = m.modulation \/ m1.modulation = NoModulation
  BY <1>1, Selected
<1>4. /\ Machine(m2) /\ Rest(m1, m2) /\ m2.layer = m1.layer /\ m2.z = m1.z
      /\ m2.air = h.air /\ m2.modulation = m1.modulation
  BY <1>1, <1>2, <1>3, Aired
<1>5. /\ Machine(m3) /\ Rest(m2, m3) /\ m3.layer = m2.layer /\ m3.z = m2.z
      /\ m3.air = m2.air /\ m3.speed = h.speed /\ m3.modulation = m2.modulation
  BY <1>1, <1>2, <1>4, Sped
<1>6. /\ Machine(m4) /\ Rest(m3, m4) /\ m4.layer = m3.layer /\ m4.z = m3.z
      /\ m4.air = m3.air /\ m4.speed = m3.speed
      /\ m4.modulation = m3.modulation
      /\ \A i \in DOMAIN PowerOf(h) : m4.power[i] = PowerOf(h)[i]
  BY <1>1, <1>2, <1>5, Powered
<1>7. /\ Machine(n) /\ Rest(m4, n) /\ n.layer = m4.layer /\ n.z = m4.z
      /\ n.air = m4.air /\ n.speed = m4.speed /\ n.enabled = EnabledHeads(h)
      /\ n.modulation = m4.modulation /\ n.power = m4.power
  BY <1>1, <1>6, Enabled
<1> QED
  BY <1>3, <1>4, <1>5, <1>6, <1>7 DEF Rest

\* The axis moves by so much, if the layer has an offset at all.
LEMMA Offset ==
  ASSUME NEW m, Machine(m), NEW h \in Headers, NEW by \in {h.z, -h.z},
         NEW n, n = Controller!ExecuteAll(m, ZEnvelope(h, by))
  PROVE  /\ Machine(n) /\ Rest(m, n) /\ n.z = m.z + by
         /\ n.modulation = m.modulation \/ n.modulation = NoModulation
<1>1. h.z \in Int /\ by \in Int
  BY HeaderTypes
<1>2. CASE h.z = 0
  <2>1. ZEnvelope(h, by) = <<>> /\ by = 0
    BY <1>2 DEF ZEnvelope
  <2>2. n = m
    BY <2>1, ExecutedNone
  <2> QED
    BY <2>1, <2>2 DEF Machine, Rest
<1>3. CASE h.z # 0
  <2> DEFINE a == [do |-> "select", layer |-> h.index]
             b == [do |-> "enable", heads |-> LaserHead]
             c == [do |-> "z", by |-> by]
             m1 == Controller!Execute(m, a)
             m2 == Controller!Execute(m1, b)
  <2>1. ZEnvelope(h, by) = <<a, b, c>>
    BY <1>3 DEF ZEnvelope
  <2>2. n = Controller!Execute(m2, c)
    BY <2>1, ExecutedThree
  <2>3. /\ Machine(m1) /\ Rest(m, m1) /\ m1.z = m.z
        /\ m1.modulation = m.modulation \/ m1.modulation = NoModulation
    <3>1. m1 = Controller!Execute(m, [do |-> "select", layer |-> h.index])
      OBVIOUS
    <3> HIDE DEF m1
    <3> QED
      BY <3>1, Selected
  <2> HIDE DEF m1
  <2>4. /\ Machine(m2) /\ Rest(m1, m2) /\ m2.z = m1.z
        /\ m2.modulation = m1.modulation
    <3>1. m2 = Controller!Execute(m1, [do |-> "enable", heads |-> LaserHead])
      OBVIOUS
    <3> HIDE DEF m2
    <3> QED
      BY <2>3, <3>1, Enabled
  <2> HIDE DEF m2
  <2>5. /\ Machine(n) /\ Rest(m2, n) /\ n.z = m2.z + by
        /\ n.modulation = m2.modulation
    BY <1>1, <2>2, <2>4, Lifted
  <2> QED
    BY <2>3, <2>4, <2>5 DEF Rest
<1> QED
  BY <1>2, <1>3

\* The records before the first event of a section.
LEMMA SectionBegun ==
  ASSUME NEW m, Machine(m), NEW h \in Headers,
         EnabledHeads(h) \subseteq LaserHead,
         NEW n, n = Controller!ExecuteAll(m, ZEnvelope(h, -h.z) \o Setup(h))
  PROVE  /\ Machine(n) /\ Rest(m, n) /\ n.layer = h.index /\ n.air = h.air
         /\ n.speed = h.speed /\ n.enabled = EnabledHeads(h)
         /\ n.z = m.z - h.z
         /\ n.modulation = m.modulation \/ n.modulation = NoModulation
         /\ \A i \in DOMAIN PowerOf(h) : n.power[i] = PowerOf(h)[i]
<1> DEFINE mid == Controller!ExecuteAll(m, ZEnvelope(h, -h.z))
<1>1. n = Controller!ExecuteAll(mid, Setup(h))
  <2> DEFINE a == [do |-> "select", layer |-> h.index]
             b == [do |-> "air", on |-> h.air]
             c == [do |-> "speed", speed |-> h.speed]
             d == [do |-> "power", power |-> PowerOf(h)]
             e == [do |-> "enable", heads |-> EnabledHeads(h)]
             y == [do |-> "enable", heads |-> LaserHead]
             z == [do |-> "z", by |-> -h.z]
  <2>1. Setup(h) = <<a, b, c, d, e>>
    BY DEF Setup, PowerSetup
  <2>2. CASE h.z = 0
    <3>1. ZEnvelope(h, -h.z) = <<>>
      BY <2>2 DEF ZEnvelope
    <3>2. <<>> \o <<a, b, c, d, e>> = <<a, b, c, d, e>>
      <4> HIDE DEF a, b, c, d, e
      <4> QED
        OBVIOUS
    <3> QED
      BY <2>1, <3>1, <3>2, ExecutedNone
  <2>3. CASE h.z # 0
    <3>1. ZEnvelope(h, -h.z) = <<a, y, z>>
      BY <2>3 DEF ZEnvelope
    <3> HIDE DEF a, b, c, d, e, y, z
    <3> QED
      BY <2>1, <3>1, ExecutedEight
  <2> QED
    BY <2>2, <2>3
<1>2. /\ Machine(mid) /\ Rest(m, mid) /\ mid.z = m.z + (-h.z)
      /\ mid.modulation = m.modulation \/ mid.modulation = NoModulation
  <2>1. mid = Controller!ExecuteAll(m, ZEnvelope(h, -h.z))
    OBVIOUS
  <2> HIDE DEF mid
  <2> QED
    BY <2>1, Offset
<1> HIDE DEF mid
<1>3. /\ Machine(n) /\ Rest(mid, n) /\ n.layer = h.index /\ n.air = h.air
      /\ n.speed = h.speed /\ n.enabled = EnabledHeads(h) /\ n.z = mid.z
      /\ n.modulation = mid.modulation \/ n.modulation = NoModulation
      /\ \A i \in DOMAIN PowerOf(h) : n.power[i] = PowerOf(h)[i]
  BY <1>1, <1>2, SetUp
<1>4. m.z + (-h.z) = m.z - h.z
  BY HeaderTypes DEF Machine
<1> QED
  BY <1>2, <1>3, <1>4 DEF Rest

-----------------------------------------------------------------------------
(* The stages.                                                             *)

\* The steps that lower an accepted plan.
Lowering ==
  \/ BeginSection \/ LowerModulation \/ LowerStationary \/ LowerMotion
  \/ LowerChunk \/ EndSection

\* The lowering changes nothing of the plan.
LEMMA LoweringKeeps ==
  ASSUME Lowering
  PROVE  /\ stage = "lower" /\ stage' \in {"lower", "compiled"}
         /\ profile' = profile /\ plan' = plan /\ scan' = scan
         /\ declared' = declared
BY DEF Lowering, BeginSection, LowerModulation, LowerStationary, LowerMotion,
   LowerChunk, EndSection, AtEvent

\* The checks of the profile hold as long as the plan does.
LEMMA FeaturesKept ==
  ASSUME plan' = plan, profile' = profile, FeaturesAreSupported(profile)
  PROVE  FeaturesAreSupported(profile)'
BY DEF FeaturesAreSupported, InScope, ZIsSupported

\* The analysis comes first.
LEMMA StageInitially ==
  ASSUME Init
  PROVE  StageInv
BY Scanning DEF Init, StageInv

\* Each stage is entered with the checks of the ones before it made.
LEMMA StageStep ==
  ASSUME StageInv, Next \/ UNCHANGED vars
  PROVE  StageInv'
<1>1. CASE \/ \E h \in Headers : OpenRefused(h)
           \/ \E e \in Events : AddRefused(e)
           \/ CloseRefused
           \/ \E b \in Declared : EndRefused(b)
           \/ \E p \in Profiles : FeaturesRefused(p)
  <2>1. /\ stage \in {"analyse", "features"} /\ stage' = "rejected"
        /\ scan' = ClosedScan /\ lower' = lower /\ machine' = machine
    BY <1>1 DEF OpenRefused, AddRefused, CloseRefused, EndRefused,
       FeaturesRefused, Reject
  <2> QED
    BY <2>1, Scanning DEF StageInv
<1>2. CASE \/ \E h \in Headers : Open(h)
           \/ \E e \in Events : Add(e)
           \/ NextSection \/ CloseLayer
  <2>1. /\ stage = "analyse" /\ stage' = "analyse" /\ lower' = lower
        /\ machine' = machine
    BY <1>2 DEF Open, Add, NextSection, CloseLayer
  <2> QED
    BY <2>1 DEF StageInv
<1>3. CASE \E b \in Declared : EndAnalysis(b)
  <2>1. /\ stage = "analyse" /\ stage' = "features" /\ lower' = lower
        /\ machine' = machine /\ plan' = plan /\ plan # <<>> /\ ~scan.open
        /\ scan' = scan
    BY <1>3 DEF EndAnalysis, PlanIsValid
  <2> QED
    BY <2>1 DEF StageInv
<1>4. CASE \E p \in Profiles : Accept(p)
  <2>1. PICK p \in Profiles : Accept(p)
    BY <1>4
  <2>2. /\ stage = "features" /\ stage' = "metadata" /\ lower' = lower
        /\ plan' = plan /\ scan' = scan /\ profile' = p
        /\ PolicyIsValid(p) /\ FeaturesAreSupported(p)
        /\ \E loads \in BOOLEAN : machine' = Controller!Idle(loads)
    BY <2>1 DEF Accept
  <2>3. FeaturesAreSupported(profile)'
    BY <2>2 DEF FeaturesAreSupported, InScope, ZIsSupported
  <2> QED
    BY <2>2, <2>3 DEF StageInv
<1>5. CASE Metadata
  <2>1. /\ stage = "metadata" /\ stage' = "lower" /\ plan' = plan
        /\ scan' = scan /\ profile' = profile
    BY <1>5 DEF Metadata
  <2> QED
    BY <2>1, FeaturesKept DEF StageInv
<1>6. CASE Lowering
  BY <1>6, LoweringKeeps, FeaturesKept DEF StageInv
<1>7. CASE UNCHANGED vars
  <2>1. /\ stage' = stage /\ plan' = plan /\ scan' = scan
        /\ profile' = profile /\ lower' = lower /\ machine' = machine
    BY <1>7 DEF vars
  <2> QED
    BY <2>1, FeaturesKept DEF StageInv
<1> QED
  BY <1>1, <1>2, <1>3, <1>4, <1>5, <1>6, <1>7 DEF Next, Lowering

-----------------------------------------------------------------------------
(* The metadata.                                                           *)

\* A machine that has been given nothing.
LEMMA IdleMachine ==
  ASSUME NEW loads \in BOOLEAN
  PROVE  /\ Machine(Controller!Idle(loads))
         /\ Controller!Idle(loads).at = Nowhere
         /\ Controller!Idle(loads).z = 0
         /\ Controller!Idle(loads).modulation = NoModulation
         /\ Controller!Idle(loads).stroke.kind = "none"
         /\ Controller!Idle(loads).stroke = [kind |-> "none"]
<1> DEFINE none == [kind |-> "none"]
           m == Controller!Idle(loads)
<1>1. m = [at |-> Nowhere, z |-> 0, layer |-> 0, air |-> FALSE, speed |-> 0,
           power |-> [h \in LaserHead |-> <<0, 0>>],
           limits |-> [l \in {h.index : h \in Headers} |->
                         [h \in LaserHead |-> <<0, 0>>]],
           bounds |-> <<>>,
           enabled |-> {}, modulation |-> NoModulation, loads |-> loads,
           stroke |-> none]
  BY DEF Controller!Idle, Controller!LaserHead, LaserHead
<1>2. none.kind = "none"
  OBVIOUS
<1> DEFINE zero == [h \in LaserHead |-> <<0, 0>>]
<1>3. zero \in [LaserHead -> Pair]
  BY DEF Pair
<1> HIDE DEF m, none, zero
<1>4. /\ m = [at |-> Nowhere, z |-> 0, layer |-> 0, air |-> FALSE, speed |-> 0,
              power |-> zero,
              limits |-> [l \in {h.index : h \in Headers} |-> zero],
              bounds |-> <<>>,
              enabled |-> {}, modulation |-> NoModulation, loads |-> loads,
              stroke |-> none]
  BY <1>1 DEF zero
<1>5. Machine(m)
  BY <1>3, <1>4 DEF Machine, Pair
<1>6. m.at = Nowhere /\ m.z = 0 /\ m.modulation = NoModulation /\ m.stroke = none
  BY <1>4
<1> QED
  BY <1>2, <1>5, <1>6 DEF m, none

\* The record for the points of a job.
LEMMA Bounded ==
  ASSUME NEW m, Machine(m), NEW b,
         NEW n, n = Controller!Execute(m, [do |-> "bounds", bounds |-> b])
  PROVE  /\ Machine(n) /\ n.bounds = b /\ n.at = m.at /\ n.z = m.z
         /\ n.stroke = m.stroke /\ n.modulation = m.modulation
         /\ n.limits = m.limits
<1>1. n = [m EXCEPT !.bounds = b]
  BY Executions, ZenonT(40)
<1> QED
  BY <1>1 DEF Machine

\* The record for a layer's powers leaves the other layers' alone.
LEMMA Limited ==
  ASSUME NEW m, Machine(m), NEW h \in Headers,
         NEW n, n = Controller!Execute(m, LayerMetadata(h))
  PROVE  /\ Machine(n) /\ n.bounds = m.bounds /\ n.at = m.at /\ n.z = m.z
         /\ n.stroke = m.stroke /\ n.modulation = m.modulation
         /\ \A i \in DOMAIN PowerOf(h) : n.limits[h.index][i] = PowerOf(h)[i]
         /\ \A l \in {g.index : g \in Headers} :
              l # h.index => n.limits[l] = m.limits[l]
<1> DEFINE c == [do |-> "limits", layer |-> h.index, power |-> PowerOf(h)]
           given == Controller!Given(c, m.limits[h.index])
           limits == [m.limits EXCEPT ![h.index] = given]
<1>1. n = [m EXCEPT !.limits = limits]
  <2>1. c.do = "limits" /\ c.layer = h.index
    OBVIOUS
  <2>2. n = Controller!Execute(m, c)
    BY DEF LayerMetadata
  <2> HIDE DEF c
  <2>3. n = [m EXCEPT !.limits[c.layer] = Controller!Given(c, @)]
    BY <2>1, <2>2, Zenon DEF Controller!Execute
  <2> QED
    BY <2>1, <2>3
<1>2. h.index \in {g.index : g \in Headers}
  OBVIOUS
<1>3. m.limits[h.index] \in [LaserHead -> Pair]
  BY <1>2 DEF Machine, Pair
<1>4. /\ DOMAIN PowerOf(h) \subseteq LaserHead
      /\ \A i \in DOMAIN PowerOf(h) : PowerOf(h)[i] \in Pair
  BY PowerTypes
<1>5. /\ given \in [LaserHead -> Pair]
      /\ \A i \in DOMAIN PowerOf(h) : given[i] = PowerOf(h)[i]
  <2>1. c.power = PowerOf(h)
    OBVIOUS
  <2> HIDE DEF c
  <2> QED
    BY <1>3, <1>4, <2>1, GivenPowers
<1> HIDE DEF given
<1>6. /\ limits \in [{g.index : g \in Headers} -> [LaserHead -> Pair]]
      /\ limits[h.index] = given
      /\ \A l \in {g.index : g \in Headers} :
           l # h.index => limits[l] = m.limits[l]
  <2>1. m.limits \in [{g.index : g \in Headers} -> [LaserHead -> Pair]]
    BY DEF Machine, Pair
  <2> QED
    BY <1>2, <1>5, <2>1
<1> HIDE DEF limits
<1>7. /\ Machine(n) /\ n.bounds = m.bounds /\ n.at = m.at /\ n.z = m.z
      /\ n.stroke = m.stroke /\ n.modulation = m.modulation
      /\ n.limits = limits
  BY <1>1, <1>6 DEF Machine, Pair
<1> QED
  BY <1>5, <1>6, <1>7

\* The records of the metadata, in their order.
LEMMA MetadataRecords ==
  ASSUME plan \in Layers
  PROVE  \E records :
           /\ records = Prologue \o [l \in DOMAIN plan |->
                                       LayerMetadata(plan[l].header)]
                                 \o DocumentMetadata
           /\ \E R : records \in Seq(R)
           /\ Len(records) = Len(plan) + 2
           /\ records[1] = [do |-> "bounds", bounds |-> JobBounds(declared)]
           /\ \A l \in 1..Len(plan) :
                records[l + 1] = LayerMetadata(plan[l].header)
           /\ records[Len(plan) + 2]
                = [do |-> "bounds", bounds |-> JobBounds(declared)]
<1> DEFINE L == Len(plan)
           b == [do |-> "bounds", bounds |-> JobBounds(declared)]
           D(l) == LayerMetadata(plan[l].header)
           f == [l \in DOMAIN plan |-> D(l)]
           R == {b} \cup {D(l) : l \in DOMAIN plan}
<1>1. L \in Nat /\ DOMAIN plan = 1..L
  BY DEF Layers
<1> HIDE DEF L, b, D
<1>2. f \in Seq(R) /\ Len(f) = L /\ \A l \in 1..L : f[l] = D(l)
  <2>1. f \in [1..L -> R]
    BY <1>1
  <2> QED
    BY <1>1, <2>1
<1>3. <<b>> \in Seq(R) /\ Len(<<b>>) = 1 /\ <<b>>[1] = b
  OBVIOUS
<1> HIDE DEF f, R
<1> DEFINE p == <<b>> \o f
<1>4. /\ p \in Seq(R) /\ Len(p) = 1 + L /\ p[1] = b
      /\ \A l \in 1..L : p[1 + l] = D(l)
  BY <1>1, <1>2, <1>3, JoinedItems
<1> HIDE DEF p
<1> DEFINE r == p \o <<b>>
<1>5. /\ r \in Seq(R) /\ Len(r) = 1 + L + 1
      /\ \A i \in 1..(1 + L) : r[i] = p[i]
      /\ r[1 + L + 1] = b
  BY <1>1, <1>3, <1>4, JoinedItems
<1> HIDE DEF r
<1>6. /\ r \in Seq(R) /\ Len(r) = L + 2 /\ r[1] = b /\ r[L + 2] = b
      /\ \A l \in 1..L : r[l + 1] = D(l)
  BY <1>1, <1>4, <1>5
<1>7. r = Prologue \o [l \in DOMAIN plan |-> LayerMetadata(plan[l].header)]
                   \o DocumentMetadata
  BY DEF r, p, f, b, D, Prologue, DocumentMetadata
<1> QED
  BY <1>6, <1>7 DEF b, D, L

\* What the controller knows when the layers begin.
LEMMA MetadataTold ==
  ASSUME PlanInv, StageInv, Metadata
  PROVE  /\ Machine(machine') /\ machine'.bounds = JobBounds(declared)
         /\ machine'.at = Nowhere /\ machine'.z = 0
         /\ machine'.modulation = NoModulation
         /\ machine'.stroke.kind = "none" /\ machine'.stroke = machine.stroke
         /\ \A l \in DOMAIN plan :
              \A i \in DOMAIN PowerOf(plan[l].header) :
                machine'.limits[l - 1][i] = PowerOf(plan[l].header)[i]
<1> DEFINE L == Len(plan)
           b == [do |-> "bounds", bounds |-> JobBounds(declared)]
           h(l) == plan[l].header
<1>1. /\ plan \in Layers /\ L \in Nat /\ DOMAIN plan = 1..L
      /\ \A l \in 1..L : h(l) \in Headers /\ h(l).index = l - 1
  <2>1. plan \in Layers
    BY DEF PlanInv
  <2>2. L \in Nat /\ DOMAIN plan = 1..L
    BY <2>1 DEF Layers
  <2>3. \A l \in DOMAIN plan :
          plan[l] \in [header : Headers, sections : Seq(Seq(Events))]
    BY <2>1, Items, ZenonT(40) DEF Layers
  <2> QED
    BY <2>1, <2>2, <2>3 DEF PlanInv, HeaderIsSound
<1>2. PICK records :
        /\ records = Prologue \o [l \in DOMAIN plan |->
                                    LayerMetadata(plan[l].header)]
                              \o DocumentMetadata
        /\ \E R : records \in Seq(R)
        /\ Len(records) = L + 2
        /\ records[1] = b
        /\ \A l \in 1..L : records[l + 1] = LayerMetadata(h(l))
        /\ records[L + 2] = b
  BY <1>1, MetadataRecords
<1>3. PICK R : records \in Seq(R)
  BY <1>2
<1>4. PICK after :
        /\ DOMAIN after = 0..Len(records) /\ after[0] = machine
        /\ \A n \in 1..Len(records) :
             after[n] = Controller!Execute(after[n - 1], records[n])
        /\ Controller!ExecuteAll(machine, records) = after[Len(records)]
  <2>1. \E after : IsExecution(after, machine, records)
    BY <1>3, Executed
  <2> QED
    BY <2>1 DEF IsExecution
<1>5. machine' = after[L + 2]
  <2>1. machine' = Controller!ExecuteAll(machine, records)
    BY <1>2 DEF Metadata
  <2> QED
    BY <1>2, <1>4, <2>1
<1>6. PICK loads \in BOOLEAN : machine = Controller!Idle(loads)
  BY DEF StageInv, Metadata
<1> HIDE DEF L, b, h
<1>12. /\ after[0] = machine
       /\ \A n \in 1..(L + 2) :
            after[n] = Controller!Execute(after[n - 1], records[n])
  BY <1>2, <1>4, Zenon
<1>13. /\ records[1] = b /\ records[L + 2] = b
       /\ \A l \in 1..L : records[l + 1] = LayerMetadata(h(l))
  BY <1>2, Zenon
<1>14. \A k \in 0..(L + 1) :
         after[k + 1] = Controller!Execute(after[k], records[k + 1])
  <2> SUFFICES ASSUME NEW k \in 0..(L + 1), NEW n, n = k + 1
               PROVE  after[n] = Controller!Execute(after[k], records[n])
    OBVIOUS
  <2>1. n \in 1..(L + 2) /\ n - 1 = k
    BY <1>1
  <2> QED
    BY <1>12, <2>1
<1> DEFINE Told(m, n) ==
             /\ Machine(m) /\ m.bounds = JobBounds(declared)
             /\ m.at = Nowhere /\ m.z = 0 /\ m.modulation = NoModulation
             /\ m.stroke.kind = "none" /\ m.stroke = machine.stroke
             /\ \A l \in 1..n : \A i \in DOMAIN PowerOf(h(l)) :
                  m.limits[l - 1][i] = PowerOf(h(l))[i]
           T == {n \in Nat : n <= L => Told(after[n + 1], n)}
<1>7. 0 \in T
  <2>1. after[1] = Controller!Execute(machine, b)
    <3>1. 0 \in 0..(L + 1) /\ 0 + 1 = 1
      BY <1>1
    <3>2. after[0 + 1] = Controller!Execute(after[0], records[0 + 1])
      BY <1>14, <3>1
    <3> QED
      BY <1>12, <1>13, <3>1, <3>2
  <2>2. /\ Machine(machine) /\ machine.at = Nowhere /\ machine.z = 0
        /\ machine.modulation = NoModulation /\ machine.stroke.kind = "none"
    BY <1>6, IdleMachine
  <2>3. Told(after[1], 0)
    BY <2>1, <2>2, Bounded DEF b
  <2> HIDE DEF Told
  <2> QED
    BY <2>3
<1>8. ASSUME NEW n \in Nat, n \in T PROVE n + 1 \in T
  <2> SUFFICES ASSUME n + 1 <= L PROVE Told(after[n + 1 + 1], n + 1)
    <3> HIDE DEF Told
    <3> QED
      OBVIOUS
  <2>1. Told(after[n + 1], n)
    <3> HIDE DEF Told
    <3> QED
      BY <1>1, <1>8
  <2>2. n + 1 \in 1..L /\ n + 2 \in 1..(L + 2) /\ n + 2 - 1 = n + 1
    BY <1>1
  <2>3. after[n + 2] = Controller!Execute(after[n + 1], LayerMetadata(h(n + 1)))
    <3>1. after[n + 1 + 1]
            = Controller!Execute(after[n + 1], records[n + 1 + 1])
      <4>1. n + 1 \in 0..(L + 1)
        BY <1>1
      <4> QED
        BY <1>14, <4>1, Zenon
    <3>2. records[n + 1 + 1] = LayerMetadata(h(n + 1))
      BY <1>13, <2>2, Zenon
    <3>3. n + 1 + 1 = n + 2
      OBVIOUS
    <3> QED
      BY <3>1, <3>2, <3>3
  <2> DEFINE g == h(n + 1)
             r == after[n + 2]
             m == after[n + 1]
  <2>4. g \in Headers /\ g.index = n
    BY <1>1, <2>2
  <2> HIDE DEF g, r, m
  <2>5. r = Controller!Execute(m, LayerMetadata(g)) /\ Machine(m)
    BY <2>1, <2>3 DEF g, r, m
  <2>6. /\ Machine(r) /\ r.bounds = m.bounds /\ r.at = m.at /\ r.z = m.z
        /\ r.stroke = m.stroke /\ r.modulation = m.modulation
        /\ \A i \in DOMAIN PowerOf(g) : r.limits[g.index][i] = PowerOf(g)[i]
        /\ \A l \in {k.index : k \in Headers} :
             l # g.index => r.limits[l] = m.limits[l]
    BY <2>4, <2>5, Limited, SMTT(40)
  <2>7. ASSUME NEW l \in 1..(n + 1), NEW i \in DOMAIN PowerOf(h(l))
        PROVE  r.limits[l - 1][i] = PowerOf(h(l))[i]
    <3>1. CASE l = n + 1
      BY <2>4, <2>6, <2>7, <3>1 DEF g
    <3>2. CASE l # n + 1
      <4>1. l \in 1..n /\ l \in 1..L /\ l - 1 # n
        BY <2>2, <3>2, <1>1
      <4>2. l - 1 \in {k.index : k \in Headers}
        BY <1>1, <4>1
      <4>3. r.limits[l - 1] = m.limits[l - 1]
        BY <2>4, <2>6, <4>1, <4>2
      <4> QED
        BY <2>1, <2>7, <4>1, <4>3 DEF m
    <3> QED
      BY <3>1, <3>2
  <2>8. n + 1 + 1 = n + 2
    OBVIOUS
  <2> QED
    BY <2>1, <2>6, <2>7, <2>8 DEF r, m
<1>9. Told(after[L + 1], L)
  <2>1. Nat \subseteq T
    <3> HIDE DEF T
    <3> QED
      BY <1>7, <1>8, Inductive
  <2> HIDE DEF Told
  <2> QED
    BY <1>1, <2>1
<1>10. after[L + 2] = Controller!Execute(after[L + 1], b)
  <2>1. L + 1 \in 0..(L + 1) /\ L + 1 + 1 = L + 2
    BY <1>1
  <2>2. after[L + 1 + 1]
          = Controller!Execute(after[L + 1], records[L + 1 + 1])
    BY <1>14, <2>1, Zenon
  <2> QED
    BY <1>13, <2>1, <2>2
<1>11. Told(after[L + 2], L)
  <2> DEFINE m == after[L + 1]
             r == after[L + 2]
  <2>1. r = Controller!Execute(m, b) /\ Told(m, L)
    BY <1>9, <1>10
  <2> HIDE DEF m, r
  <2>2. /\ Machine(r) /\ r.bounds = JobBounds(declared) /\ r.at = m.at
        /\ r.z = m.z /\ r.stroke = m.stroke /\ r.modulation = m.modulation
        /\ r.limits = m.limits
    BY <2>1, Bounded DEF b
  <2>3. Told(r, L)
    BY <2>1, <2>2
  <2> QED
    BY <2>3 DEF r
<1> QED
  BY <1>1, <1>5, <1>11 DEF h

-----------------------------------------------------------------------------
(* The section that is being lowered.                                      *)

\* The sections of a layer and their events, one by one.
LEMMA Sections ==
  ASSUME PlanInv, NEW l \in DOMAIN plan, NEW s \in DOMAIN plan[l].sections
  PROVE  /\ plan[l].header \in Headers /\ HeaderIsSound(plan[l].header, l)
         /\ plan[l].sections[s] \in Seq(Events)
         /\ DOMAIN plan[l].sections = 1..Len(plan[l].sections)
         /\ Len(plan[l].sections) \in Nat
         /\ EventsOf(plan[l]) \in Seq(Events)
         /\ \A i \in 1..Len(plan[l].sections[s]) :
              /\ plan[l].sections[s][i] \in Events
              /\ plan[l].sections[s][i] \in ToSet(EventsOf(plan[l]))
<1>1. plan \in Layers
  BY DEF PlanInv
<1>2. plan[l] \in [header : Headers, sections : Seq(Seq(Events))]
  BY <1>1, Items, ZenonT(40) DEF Layers
<1> DEFINE sections == plan[l].sections
<1>3. plan[l].header \in Headers /\ sections \in Seq(Seq(Events))
  BY <1>2
<1>4. HeaderIsSound(plan[l].header, l)
  BY DEF PlanInv
<1>5. /\ EventsOf(plan[l]) \in Seq(Events)
      /\ ToSet(EventsOf(plan[l])) = UNION {ToSet(sections[k]) : k \in DOMAIN sections}
  <2>1. EventsOf(plan[l]) = Concatenation(sections)
    BY DEF EventsOf
  <2> HIDE DEF sections
  <2> QED
    BY <1>3, <2>1, Concatenated
<1>6. s \in DOMAIN sections
  OBVIOUS
<1> HIDE DEF sections
<1>7. sections[s] \in Seq(Events)
  BY <1>3, <1>6, Items, Zenon
<1>8. DOMAIN sections = 1..Len(sections) /\ Len(sections) \in Nat
  BY <1>3
<1> DEFINE q == sections[s]
<1>9. /\ DOMAIN q = 1..Len(q)
      /\ \A i \in DOMAIN q : q[i] \in Events
  <2> HIDE DEF q
  <2>1. q \in Seq(Events)
    BY <1>7 DEF q
  <2> QED
    BY <2>1
<1>10. \A i \in DOMAIN q : q[i] \in ToSet(EventsOf(plan[l]))
  <2>1. \A i \in DOMAIN q : q[i] \in ToSet(q)
    BY DEF ToSet
  <2> QED
    BY <1>5, <1>6, <2>1
<1> QED
  BY <1>3, <1>4, <1>5, <1>7, <1>8, <1>9, <1>10 DEF sections

\* What holds of the layer and section that is being lowered.
LEMMA SectionInForce ==
  ASSUME PlanInv, StageInv, LowerInv, stage = "lower"
  PROVE  /\ H \in Headers /\ HeaderIsSound(H, lower.layer)
         /\ lower.layer \in DOMAIN plan
         /\ Section \in Seq(Events) /\ Len(Section) \in Nat
         /\ \A i \in 1..Len(Section) :
              /\ Section[i] \in Events
              /\ EventIsSupported(profile, H, Section[i])
              /\ Section[i] \in ToSet(EventsOf(plan[lower.layer]))
         /\ profile \in RuidaJobProfile /\ PolicyIsValid(profile)
         /\ LaserIsSupported(profile, H) /\ HasMode(profile, H)
         /\ EnabledHeads(H) \subseteq LaserHead
<1>1. /\ lower.layer \in DOMAIN plan
      /\ lower.section \in DOMAIN plan[lower.layer].sections
  BY DEF LowerInv
<1>2. /\ H \in Headers /\ HeaderIsSound(H, lower.layer)
      /\ Section \in Seq(Events)
      /\ \A i \in 1..Len(Section) :
           /\ Section[i] \in Events
           /\ Section[i] \in ToSet(EventsOf(plan[lower.layer]))
  BY <1>1, Sections, Zenon DEF H, Section
<1>3. Len(Section) \in Nat
  BY <1>2
<1>4. /\ profile \in RuidaJobProfile /\ PolicyIsValid(profile)
      /\ FeaturesAreSupported(profile)
  BY PlansAssumption DEF StageInv
<1>5. /\ LaserIsSupported(profile, H) /\ HasMode(profile, H)
      /\ \A e \in ToSet(EventsOf(plan[lower.layer])) :
           EventIsSupported(profile, H, e)
  BY <1>1, <1>4, Zenon DEF FeaturesAreSupported, H
<1>6. EnabledHeads(H) \subseteq LaserHead
  <2>1. profile.enable \subseteq LaserHead
    BY <1>4 DEF RuidaJobProfile
  <2>2. CASE H.channels = NoChannels
    BY <2>1, <2>2 DEF EnabledHeads
  <2>3. CASE H.channels # NoChannels
    <3>1. DOMAIN H.channels \subseteq LaserHead
      BY <1>2, <2>3 DEF HeaderIsSound, ChannelsAreValid
    <3> QED
      BY <2>3, <3>1 DEF EnabledHeads, EnabledIn
  <2> QED
    BY <2>2, <2>3
<1> QED
  BY <1>1, <1>2, <1>3, <1>4, <1>5, <1>6

\* What holds of the event that is being lowered, with what the analysis
\* remembered before it.
LEMMA AtAnEvent ==
  ASSUME PlanInv, StageInv, LowerInv, AtEvent
  PROVE  /\ stage = "lower" /\ lower.event \in 1..Len(Section)
         /\ Here = Section[lower.event] /\ Here \in Events
         /\ EventIsSupported(profile, H, Here)
         /\ Here \in ToSet(EventsOf(plan[lower.layer]))
         /\ \E t : /\ IsTrace(H, Section, t) /\ ~t[Len(Section)].pending
                   /\ Agrees(H, t[lower.event - 1])
                   /\ ScanIsSound(H, t[lower.event - 1])
                   /\ EventIsValid(H, t[lower.event - 1], Here)
                   /\ t[lower.event] = Scanned(H, t[lower.event - 1], Here)
<1>1. /\ stage = "lower" /\ lower.event # 0 /\ lower.event <= Len(Section)
      /\ Here = Section[lower.event]
  BY DEF AtEvent, Here
<1>2. /\ Len(Section) \in Nat
      /\ \A i \in 1..Len(Section) :
           /\ Section[i] \in Events
           /\ EventIsSupported(profile, H, Section[i])
           /\ Section[i] \in ToSet(EventsOf(plan[lower.layer]))
  BY <1>1, SectionInForce
<1>3. /\ lower.event \in 0..(Len(Section) + 1)
      /\ \E t : /\ IsTrace(H, Section, t) /\ ~t[Len(Section)].pending
                /\ Agrees(H, t[lower.event - 1])
  BY <1>1 DEF LowerInv
<1>4. lower.event \in 1..Len(Section) /\ lower.event - 1 \in 0..Len(Section)
  BY <1>1, <1>2, <1>3
<1>5. PICK t : /\ IsTrace(H, Section, t) /\ ~t[Len(Section)].pending
               /\ Agrees(H, t[lower.event - 1])
  BY <1>3
<1>6. /\ ScanIsSound(H, t[lower.event - 1])
      /\ EventIsValid(H, t[lower.event - 1], Section[lower.event])
      /\ t[lower.event] = Scanned(H, t[lower.event - 1], Section[lower.event])
  BY <1>4, <1>5, Zenon DEF IsTrace
<1> QED
  BY <1>1, <1>2, <1>4, <1>5, <1>6

\* The event has been lowered and the next one is due.
LEMMA EventPassed ==
  ASSUME PlanInv, LowerInv, AtEvent, plan' = plan, stage' = "lower",
         lower'.layer = lower.layer, lower'.section = lower.section,
         NEW t, IsTrace(H, Section, t), ~t[Len(Section)].pending,
         NEW k, k \in {lower.event, lower.event + 1}, lower'.event = k,
         NEW h, h = H, NEW s, s = t[k - 1], Agrees(h, s)'
  PROVE  LowerInv'
<1>1. stage = "lower" /\ lower.event # 0 /\ lower.event <= Len(Section)
  BY DEF AtEvent
<1>2. /\ lower.layer \in DOMAIN plan
      /\ lower.section \in DOMAIN plan[lower.layer].sections
      /\ lower.event \in 0..(Len(Section) + 1)
  BY <1>1 DEF LowerInv
<1>3. H' = H /\ Section' = Section
  BY DEF H, Section
<1>4. Len(Section) \in Nat
  <2>1. Section \in Seq(Events)
    BY <1>2, Sections, Zenon DEF Section
  <2> QED
    BY <2>1
<1>5. k \in 0..(Len(Section) + 1) /\ k # 0
  BY <1>1, <1>2, <1>4
<1>6. /\ IsTrace(H', Section', t) /\ ~t[Len(Section')].pending
      /\ Agrees(h, s)' /\ h = H' /\ s = t[lower'.event - 1]
  BY <1>3
<1> QED
  BY <1>2, <1>3, <1>5, <1>6 DEF LowerInv

-----------------------------------------------------------------------------
(* What a step of the lowering leaves as it is.                            *)

\* The lowering rewrites no metadata.
LEMMA MetadataKept ==
  ASSUME MetadataInv, stage = "lower", plan' = plan, declared' = declared,
         machine'.bounds = machine.bounds, machine'.limits = machine.limits
  PROVE  MetadataInv'
<1>1. /\ machine.bounds = JobBounds(declared)
      /\ \A l \in DOMAIN plan :
           \A i \in DOMAIN PowerOf(plan[l].header) :
             machine.limits[l - 1][i] = PowerOf(plan[l].header)[i]
  BY DEF MetadataInv
<1>2. JobBounds(declared)' = JobBounds(declared)
  BY DEF JobBounds, BoundsOfPlan
<1>3. machine'.bounds = JobBounds(declared)'
  BY <1>1, <1>2
<1>4. \A l \in DOMAIN plan' :
        \A i \in DOMAIN PowerOf(plan'[l].header) :
          machine'.limits[l - 1][i] = PowerOf(plan'[l].header)[i]
  BY <1>1
<1> QED
  BY <1>3, <1>4 DEF MetadataInv

\* The plan bounds what it bounded before.
LEMMA InsideKept ==
  ASSUME plan' = plan, NEW p, InsidePlan(p)
  PROVE  InsidePlan(p)'
BY DEF InsidePlan

\* A head that stays where it is stays inside.
LEMMA MotionKept ==
  ASSUME MotionInv, plan' = plan, machine'.at = machine.at
  PROVE  MotionInv'
BY DEF MotionInv, InsidePlan

\* The settings of a layer stay in force.
LEMMA SettingsKept ==
  ASSUME profile' = profile, NEW h, machine'.layer = h.index,
         machine'.enabled = EnabledHeads(h), machine'.air = h.air,
         machine'.speed = h.speed, machine'.z = -h.z
  PROVE  SettingsAgree(h)'
BY DEF SettingsAgree, EnabledHeads

\* The powers stay in force.
LEMMA PowerKept ==
  ASSUME profile' = profile, NEW h, NEW s, PowerAgrees(h, s),
         NEW r, r.active = s.active, lower'.dynamic = lower.dynamic,
         machine'.power = machine.power
  PROVE  PowerAgrees(h, r)'
<1>1. CASE s.active = NoChannels
  BY <1>1 DEF PowerAgrees
<1>2. CASE s.active # NoChannels
  <2>1. ActiveIsSupported(h, s.active)'
    BY <1>2 DEF PowerAgrees, ActiveIsSupported
  <2>2. ActiveIsSupported(h, r.active)'
    BY <2>1 DEF ActiveIsSupported
  <2> QED
    BY <1>2, <2>2 DEF PowerAgrees
<1> QED
  BY <1>1, <1>2

\* The modulation stays in force, or ends where none was asked for.
LEMMA ModulationKept ==
  ASSUME NEW s, ModulationAgrees(s), NEW r, r.modulation = s.modulation,
         \/ machine'.modulation = machine.modulation
         \/ machine'.modulation = NoModulation /\ s.modulation = NoModulation
  PROVE  ModulationAgrees(r)'
BY DEF ModulationAgrees, ModulationIsSafe

-----------------------------------------------------------------------------
(* The steps of the lowering.                                              *)

\* BeginSection puts the settings of the layer in force.
LEMMA SectionBegins ==
  ASSUME Machine(machine), lower \in Lower, PlanInv, StageInv, MetadataInv,
         LowerInv, MotionInv, BeginSection
  PROVE  /\ Machine(machine') /\ lower' \in Lower /\ MetadataInv' /\ LowerInv'
         /\ MotionInv' /\ machine'.stroke = machine.stroke
         /\ machine'.limits = machine.limits /\ machine'.at = machine.at
<1>1. /\ stage = "lower" /\ lower.event = 0 /\ stage' = "lower"
      /\ profile' = profile /\ plan' = plan /\ scan' = scan
      /\ declared' = declared
      /\ machine' = Controller!ExecuteAll(machine,
                                          ZEnvelope(H, -H.z) \o Setup(H))
      /\ lower' = [lower EXCEPT !.event = 1, !.position = Nowhere,
                                !.dynamic = FALSE, !.previous = "none"]
  BY DEF BeginSection
<1>2. /\ lower.layer \in DOMAIN plan
      /\ lower.section \in DOMAIN plan[lower.layer].sections
      /\ machine.z = 0 /\ ModulationIsSafe(machine.modulation)
  BY <1>1 DEF LowerInv
<1>3. /\ H \in Headers /\ EnabledHeads(H) \subseteq LaserHead
      /\ Section \in Seq(Events) /\ Len(Section) \in Nat
  BY <1>1, SectionInForce
<1> DEFINE n == machine'
<1>4. PICK h : h = H /\ h \in Headers /\ EnabledHeads(h) \subseteq LaserHead
  BY <1>3
<1>5. n = Controller!ExecuteAll(machine, ZEnvelope(h, -h.z) \o Setup(h))
  BY <1>1, <1>4
<1>6. /\ Machine(n) /\ Rest(machine, n) /\ n.layer = h.index /\ n.air = h.air
      /\ n.speed = h.speed /\ n.enabled = EnabledHeads(h)
      /\ n.z = machine.z - h.z
      /\ n.modulation = machine.modulation \/ n.modulation = NoModulation
      /\ \A i \in DOMAIN PowerOf(h) : n.power[i] = PowerOf(h)[i]
  BY <1>4, <1>5, SectionBegun
<1>7. /\ n.at = machine.at /\ n.limits = machine.limits
      /\ n.bounds = machine.bounds /\ n.stroke = machine.stroke
  BY <1>6 DEF Rest
<1>8. /\ lower' \in Lower /\ lower'.layer = lower.layer
      /\ lower'.section = lower.section /\ lower'.event = 1
      /\ lower'.position = Nowhere /\ lower'.dynamic = FALSE
  BY <1>1 DEF Lower
<1>9. PICK t : IsTrace(h, Section, t) /\ ~t[Len(Section)].pending
  <2>1. SectionIsAnalysed(lower.layer, lower.section)
    BY <1>2 DEF PlanInv
  <2>2. ~IsOpen(lower.layer, lower.section)
    BY <1>1 DEF StageInv, IsOpen
  <2> QED
    BY <2>1, <2>2, <1>4 DEF SectionIsAnalysed, H, Section
<1>10. /\ t[0] = FreshScan /\ FreshScan.position = Nowhere
       /\ FreshScan.active = NoChannels /\ FreshScan.modulation = NoModulation
  BY <1>9 DEF IsTrace, FreshScan
<1> DEFINE s == t[0]
<1>11. Agrees(h, s)'
  <2>0. s.position = Nowhere /\ s.active = NoChannels /\ s.modulation = NoModulation
    BY <1>10
  <2> HIDE DEF s
  <2>1. PositionAgrees(s)'
    BY <1>8, <2>0 DEF PositionAgrees
  <2>2. SettingsAgree(h)'
    <3>1. machine.z - h.z = -h.z
      BY <1>2, <1>4, HeaderTypes
    <3> QED
      BY <1>1, <1>6, <3>1, SettingsKept
  <2>3. PowerAgrees(h, s)'
    BY <1>6, <1>8, <2>0 DEF PowerAgrees
  <2>4. ModulationAgrees(s)'
    BY <1>2, <1>6, <2>0 DEF ModulationAgrees, ModulationIsSafe
  <2> QED
    BY <2>1, <2>2, <2>3, <2>4 DEF Agrees
<1>12. LowerInv'
  <2>1. h = H' /\ Section' = Section
    BY <1>1, <1>4, <1>8 DEF H, Section
  <2>2. 1 \in 0..(Len(Section') + 1)
    BY <1>3, <2>1
  <2>3. s = t[lower'.event - 1]
    <3>1. lower'.event - 1 = 0
      BY <1>8
    <3> QED
      BY <3>1
  <2>4. /\ IsTrace(H', Section', t) /\ ~t[Len(Section')].pending
        /\ Agrees(h, s)'
    BY <1>4, <1>9, <1>11, <2>1
  <2> HIDE DEF s
  <2> QED
    BY <1>1, <1>2, <1>8, <2>1, <2>2, <2>3, <2>4 DEF LowerInv
<1>13. MetadataInv' /\ MotionInv'
  BY <1>1, <1>7, MetadataKept, MotionKept
<1> QED
  BY <1>6, <1>7, <1>8, <1>12, <1>13

\* The locals after an event.
LEMMA PastTypes ==
  ASSUME lower \in Lower, NEW e \in Events, NEW orders \in Nat,
         NEW l, l = Past(e, orders)
  PROVE  /\ l \in Lower /\ l.layer = lower.layer /\ l.section = lower.section
         /\ l.event = lower.event + 1 /\ l.position = lower.position
         /\ l.dynamic = lower.dynamic /\ l.done = lower.done + orders
<1> DEFINE kinds == {"none"} \cup {f.kind : f \in Events}
<1>1. e.kind \in kinds
  OBVIOUS
<1>2. /\ lower \in [layer : Nat, section : Nat, event : Nat,
                    position : Point \cup {Nowhere}, dynamic : BOOLEAN,
                    previous : kinds, done : Nat]
      /\ Lower = [layer : Nat, section : Nat, event : Nat,
                  position : Point \cup {Nowhere}, dynamic : BOOLEAN,
                  previous : kinds, done : Nat]
  BY DEF Lower
<1>3. l = [lower EXCEPT !.event = lower.event + 1, !.previous = e.kind,
                        !.done = lower.done + orders]
  BY DEF Past
<1> DEFINE event == lower.event + 1
           done == lower.done + orders
<1> HIDE DEF kinds
<1>4. event \in Nat /\ done \in Nat
  BY <1>2
<1>5. l = [lower EXCEPT !.event = event, !.previous = e.kind, !.done = done]
  BY <1>3
<1> HIDE DEF event, done
<1>6. /\ l \in Lower /\ l.layer = lower.layer /\ l.section = lower.section
      /\ l.event = event /\ l.position = lower.position
      /\ l.dynamic = lower.dynamic /\ l.done = done
  BY <1>1, <1>2, <1>4, <1>5
<1> QED
  BY <1>6 DEF event, done

\* But for a mark that is cut in chunks, the head is where the plan has it.
LEMMA Settled ==
  ASSUME NEW s, PositionAgrees(s), ~InChunks(Here)
  PROVE  /\ lower.position = s.position
         /\ lower.position # Nowhere => machine.at = lower.position
BY DEF PositionAgrees

\* What is remembered after an event that is no motion.
LEMMA StillScanned ==
  ASSUME NEW h, NEW s, ScanIsSound(h, s), NEW e \in Events, ~IsMotion(e),
         NEW r, r = Scanned(h, s, e)
  PROVE  /\ r.position = s.position /\ r.active = s.active
         /\ e.kind = "modulate" => r.modulation = e.value
         /\ e.kind # "modulate" => r.modulation = s.modulation
<1>1. s \in Scan /\ ~IsMark(e)
  BY DEF ScanIsSound, IsMark, IsMotion
<1>2. /\ r.active = ActiveAfter(s, e) /\ r.position = s.position
      /\ e.kind = "modulate" => r.modulation = e.value
      /\ e.kind # "modulate" => r.modulation = s.modulation
  BY <1>1, Scans
<1>3. ActiveAfter(s, e) = s.active
  BY Actives DEF IsMotion
<1> QED
  BY <1>2, <1>3

\* LowerModulation puts the modulation in force that the plan asks for.
LEMMA ModulationLowered ==
  ASSUME Machine(machine), lower \in Lower, PlanInv, StageInv, MetadataInv,
         LowerInv, MotionInv, LowerModulation
  PROVE  /\ Machine(machine') /\ lower' \in Lower /\ MetadataInv' /\ LowerInv'
         /\ MotionInv' /\ machine'.stroke = machine.stroke
         /\ machine'.limits = machine.limits /\ machine'.at = machine.at
<1>1. /\ AtEvent /\ Here.kind = "modulate" /\ stage = "lower"
      /\ machine' = Controller!ExecuteAll(machine,
                      <<[do |-> "modulate", value |-> Wire(Here.value)]>>)
      /\ lower' = Past(Here, 0) /\ stage' = "lower" /\ profile' = profile
      /\ plan' = plan /\ scan' = scan /\ declared' = declared
  BY DEF LowerModulation, AtEvent
<1>2. PICK h, e, k : h = H /\ e = Here /\ k = lower.event
  OBVIOUS
<1>3. PICK t : /\ IsTrace(h, Section, t) /\ ~t[Len(Section)].pending
               /\ Agrees(h, t[k - 1]) /\ ScanIsSound(h, t[k - 1])
               /\ EventIsValid(h, t[k - 1], e)
               /\ t[k] = Scanned(h, t[k - 1], e)
  BY <1>1, <1>2, AtAnEvent
<1>4. e \in Events /\ e.kind = "modulate" /\ k \in Nat /\ ~IsMotion(e)
  BY <1>1, <1>2, AtAnEvent DEF IsMotion
<1> DEFINE s == t[k - 1]
           r == t[k]
           v == Wire(e.value)
<1>5. /\ r.position = s.position /\ r.active = s.active
      /\ r.modulation = e.value
  BY <1>3, <1>4, StillScanned
<1>6. e.value \in Int /\ v \in Int
  BY <1>4, EventTypes DEF Wire
<1>7. machine' = Controller!Execute(machine, [do |-> "modulate", value |-> v])
  BY <1>1, <1>2, ExecutedOne
<1> HIDE DEF v
<1>8. /\ Machine(machine') /\ Rest(machine, machine')
      /\ machine'.layer = machine.layer /\ machine'.air = machine.air
      /\ machine'.speed = machine.speed /\ machine'.enabled = machine.enabled
      /\ machine'.z = machine.z /\ machine'.modulation = v
      /\ machine'.power = machine.power
  BY <1>6, <1>7, Modulated
<1>9. /\ machine'.at = machine.at /\ machine'.limits = machine.limits
      /\ machine'.bounds = machine.bounds /\ machine'.stroke = machine.stroke
  BY <1>8 DEF Rest
<1>10. /\ lower' \in Lower /\ lower'.layer = lower.layer
       /\ lower'.section = lower.section /\ lower'.event = k + 1
       /\ lower'.position = lower.position /\ lower'.dynamic = lower.dynamic
  BY <1>1, <1>2, <1>4, PastTypes
<1>11. /\ PositionAgrees(s) /\ SettingsAgree(h) /\ PowerAgrees(h, s)
  BY <1>3 DEF Agrees
<1>12. Agrees(h, r)'
  <2>1. PositionAgrees(r)'
    <3>1. ~InChunks(Here)
      BY <1>2, <1>4 DEF InChunks, IsMark, IsMotion
    <3>2. /\ lower.position = s.position
          /\ lower.position # Nowhere => machine.at = lower.position
      BY <1>11, <3>1, Settled
    <3> HIDE DEF r, s
    <3> QED
      BY <1>5, <1>9, <1>10, <3>2 DEF PositionAgrees
  <2>2. SettingsAgree(h)'
    BY <1>1, <1>8, <1>11, SettingsKept DEF SettingsAgree
  <2>3. PowerAgrees(h, r)'
    <3> HIDE DEF r, s
    <3> QED
      BY <1>1, <1>5, <1>8, <1>10, <1>11, PowerKept
  <2>4. ModulationAgrees(r)'
    <3>1. r.modulation # NoModulation
      BY <1>5, <1>6, PlansAssumption
    <3>2. machine'.modulation = Wire(r.modulation)
      BY <1>5, <1>8 DEF v
    <3> HIDE DEF r
    <3> QED
      BY <3>1, <3>2 DEF ModulationAgrees
  <2> QED
    BY <2>1, <2>2, <2>3, <2>4 DEF Agrees
<1>13. LowerInv'
  <2> DEFINE n == k + 1
  <2>1. n \in {lower.event, lower.event + 1} /\ lower'.event = n
    BY <1>2, <1>10
  <2>2. r = t[n - 1]
    <3>1. n - 1 = k
      BY <1>4
    <3> QED
      BY <3>1
  <2> HIDE DEF n, r
  <2> QED
    BY <1>1, <1>2, <1>3, <1>10, <1>12, <2>1, <2>2, EventPassed
<1>14. MetadataInv' /\ MotionInv'
  BY <1>1, <1>9, MetadataKept, MotionKept
<1> QED
  BY <1>8, <1>9, <1>10, <1>13, <1>14

-----------------------------------------------------------------------------
(* The beam.                                                               *)

\* RuidaJobProfile does not check its laser_enable_value; that of the shipped
\* profiles enables one head.
EnablesAHead == \A p \in Profiles : p.enable # {}

\* Rounding to the wire unit keeps the order of powers.
LEMMA WiresRise ==
  ASSUME NEW a \in Int, NEW b \in Int, a <= b
  PROVE  Wire(a) <= Wire(b)
BY DEF Wire

\* The powers a sound layer is marked with.
LEMMA PowersAreSafe ==
  ASSUME EnablesAHead, profile \in Profiles, NEW h \in Headers, NEW l,
         HeaderIsSound(h, l), LayerAboveFloor(h), NEW active, NEW power,
         active = NoChannels =>
           \A i \in DOMAIN PowerOf(h) : power[i] = PowerOf(h)[i],
         active # NoChannels =>
           /\ ActiveIsSupported(h, active) /\ ChannelsAreValid(active)
           /\ active \in ChannelPlans
           /\ AboveFloor(active)
           /\ \A i \in DOMAIN active : power[i] = WirePair(active[i]),
         NEW limits, \A i \in DOMAIN PowerOf(h) : limits[i] = PowerOf(h)[i]
  PROVE  /\ EnabledHeads(h) # {}
         /\ \A i \in EnabledHeads(h) :
              /\ Floor <= power[i][1] /\ power[i][1] <= power[i][2]
              /\ limits[i][1] <= power[i][1] /\ power[i][2] <= limits[i][2]
<1>1. CASE h.channels = NoChannels
  <2>1. /\ EnabledHeads(h) = profile.enable /\ EnabledHeads(h) # {}
        /\ EnabledHeads(h) \subseteq LaserHead
    BY <1>1, PlansAssumption DEF EnabledHeads, EnablesAHead, RuidaJobProfile
  <2>2. active = NoChannels
    BY <1>1 DEF ActiveIsSupported
  <2> DEFINE pair == <<Wire(h.min), Wire(h.max)>>
  <2>3. PowerOf(h) = [i \in LaserHead |-> pair]
    BY <1>1 DEF PowerOf
  <2>4. Floor <= pair[1] /\ pair[1] <= pair[2] /\ pair[1] \in Int /\ pair[2] \in Int
    <3>1. h.min \in Int /\ h.max \in Int /\ h.min <= h.max
      BY HeaderTypes DEF HeaderIsSound, RangeIsValid
    <3>2. Floor <= Wire(h.min) /\ Wire(h.min) \in Int /\ Wire(h.max) \in Int
      BY <1>1, <3>1, CompilerAssumption DEF LayerAboveFloor, Wire
    <3> QED
      BY <3>1, <3>2, WiresRise
  <2> HIDE DEF pair
  <2>5. \A i \in EnabledHeads(h) : power[i] = pair /\ limits[i] = pair
    BY <2>1, <2>2, <2>3
  <2> QED
    BY <2>1, <2>4, <2>5
<1>2. CASE h.channels # NoChannels
  <2>1. /\ EnabledHeads(h) = EnabledIn(h.channels)
        /\ h.channels \in ChannelPlans
    BY <1>2, HeaderTypes DEF EnabledHeads
  <2>2. /\ PowerOf(h) = [i \in DOMAIN h.channels |-> WirePair(h.channels[i])]
        /\ ChannelsAreValid(h.channels)
        /\ \E i \in DOMAIN h.channels : h.channels[i].enabled
    BY <1>2 DEF PowerOf, HeaderIsSound
  <2>3. EnabledHeads(h) # {}
    BY <2>1, <2>2 DEF EnabledIn
  <2>4. ASSUME NEW channels \in ChannelPlans, ChannelsAreValid(channels),
               AboveFloor(channels), NEW i \in EnabledIn(channels)
        PROVE  /\ Floor <= WirePair(channels[i])[1]
               /\ WirePair(channels[i])[1] <= WirePair(channels[i])[2]
               /\ WirePair(channels[i])[1] \in Int
               /\ WirePair(channels[i])[2] \in Int
    <3>1. i \in DOMAIN channels /\ channels[i].enabled
      BY <2>4 DEF EnabledIn
    <3>2. channels[i] \in LaserChannelPlan
      BY <3>1, Wires
    <3> DEFINE c == channels[i]
    <3>3. c.min \in Int /\ c.max \in Int /\ c.min <= c.max
      BY <2>4, <3>1, <3>2 DEF ChannelsAreValid, RangeIsValid, LaserChannelPlan
    <3>4. /\ Floor <= Wire(c.min) /\ Wire(c.min) \in Int
          /\ Wire(c.max) \in Int
      BY <2>4, <3>1, <3>3, CompilerAssumption DEF AboveFloor, Wire
    <3> HIDE DEF c
    <3>5. Wire(c.min) <= Wire(c.max)
      BY <3>3, WiresRise
    <3> QED
      BY <3>4, <3>5 DEF WirePair, c
  <2>5. ASSUME NEW i \in EnabledHeads(h)
        PROVE  /\ Floor <= power[i][1] /\ power[i][1] <= power[i][2]
               /\ limits[i][1] <= power[i][1] /\ power[i][2] <= limits[i][2]
    <3>1. i \in DOMAIN h.channels /\ limits[i] = WirePair(h.channels[i])
      BY <2>1, <2>2 DEF EnabledIn
    <3>2. CASE active = NoChannels
      <4>1. AboveFloor(h.channels)
        BY <1>2 DEF LayerAboveFloor
      <4>2. power[i] = WirePair(h.channels[i])
        BY <2>2, <3>1, <3>2
      <4> QED
        BY <2>1, <2>2, <2>4, <3>1, <4>1, <4>2
    <3>3. CASE active # NoChannels
      <4>1. /\ EnabledIn(active) = EnabledIn(h.channels)
            /\ DynamicLimits(profile, h.channels, active)
            /\ ChannelsAreValid(active) /\ AboveFloor(active)
            /\ active \in ChannelPlans
        BY <3>3 DEF ActiveIsSupported
      <4>2. i \in EnabledIn(active) /\ i \in DOMAIN active
        BY <2>1, <4>1 DEF EnabledIn
      <4>3. power[i] = WirePair(active[i])
        BY <3>3, <4>2
      <4>4. /\ WirePair(h.channels[i])[1] <= WirePair(active[i])[1]
            /\ WirePair(active[i])[2] <= WirePair(h.channels[i])[2]
        BY <3>1, <4>1 DEF DynamicLimits
      <4> QED
        BY <2>4, <3>1, <4>1, <4>2, <4>3, <4>4
    <3> QED
      BY <3>2, <3>3
  <2> QED
    BY <2>3, <2>5
<1> QED
  BY <1>1, <1>2

\* Without a stroke the beam is as safe as it was.
LEMMA BeamKept ==
  ASSUME BeamInsideLimits, machine'.stroke = machine.stroke,
         machine'.limits = machine.limits
  PROVE  BeamInsideLimits'
BY DEF BeamInsideLimits

\* A travel or a wait is no beam.
LEMMA BeamOff ==
  ASSUME machine'.stroke.kind \notin {"mark", "pulse"}
  PROVE  BeamInsideLimits'
BY DEF BeamInsideLimits

\* The beam is on in the layer h with the powers of active.
LEMMA BeamOn ==
  ASSUME EnablesAHead, profile \in Profiles, MetadataInv, stage = "lower",
         NEW l \in DOMAIN plan, NEW h \in Headers, h = plan[l].header,
         HeaderIsSound(h, l), LayerAboveFloor(h), NEW active, NEW power,
         active = NoChannels =>
           \A i \in DOMAIN PowerOf(h) : power[i] = PowerOf(h)[i],
         active # NoChannels =>
           /\ ActiveIsSupported(h, active) /\ ChannelsAreValid(active)
           /\ active \in ChannelPlans
           /\ AboveFloor(active)
           /\ \A i \in DOMAIN active : power[i] = WirePair(active[i]),
         machine'.limits = machine.limits, machine'.stroke.layer = h.index,
         machine'.stroke.regime.power = [i \in EnabledHeads(h) |-> power[i]],
         ModulationIsSafe(machine'.stroke.modulation)
  PROVE  BeamInsideLimits'
<1> DEFINE limits == machine.limits[l - 1]
           used == [i \in EnabledHeads(h) |-> power[i]]
<1>1. h.index = l - 1
  BY DEF HeaderIsSound
<1>2. \A i \in DOMAIN PowerOf(h) : limits[i] = PowerOf(h)[i]
  BY DEF MetadataInv
<1> HIDE DEF limits
<1>3. /\ EnabledHeads(h) # {}
      /\ \A i \in EnabledHeads(h) :
           /\ Floor <= power[i][1] /\ power[i][1] <= power[i][2]
           /\ limits[i][1] <= power[i][1] /\ power[i][2] <= limits[i][2]
  BY <1>2, PowersAreSafe
<1>4. /\ machine'.stroke.regime.power = used
      /\ machine'.limits[machine'.stroke.layer] = limits
  BY <1>1 DEF limits
<1>5. DOMAIN used = EnabledHeads(h) /\ \A i \in DOMAIN used : used[i] = power[i]
  OBVIOUS
<1> HIDE DEF used
<1>6. used # <<>>
  BY <1>3, <1>5
<1>7. machine'.stroke.modulation # NoModulation =>
        machine'.stroke.modulation >= Floor
  BY DEF ModulationIsSafe
<1> QED
  BY <1>3, <1>4, <1>5, <1>6, <1>7 DEF BeamInsideLimits

\* What is remembered is good enough for the beam.
LEMMA ActiveIsSound ==
  ASSUME NEW h, NEW s, ScanIsSound(h, s), s.active # NoChannels
  PROVE  /\ s.active \in ChannelPlans /\ ChannelsAreValid(s.active)
         /\ h.kind = "vector"
BY DEF ScanIsSound, Scan

\* LowerStationary strikes where the head is.
LEMMA StationaryLowered ==
  ASSUME Machine(machine), lower \in Lower, PlanInv, StageInv, MetadataInv,
         LowerInv, MotionInv, LowerStationary
  PROVE  /\ Machine(machine') /\ lower' \in Lower /\ MetadataInv' /\ LowerInv'
         /\ MotionInv'
         /\ EnablesAHead => BeamInsideLimits'
         /\ machine'.at = machine.at
         /\ IsStroke(machine, StrokeKind(Here), machine')
<1>1. /\ AtEvent /\ Here.kind \in {"dwell", "pulse"} /\ stage = "lower"
      /\ machine' = Controller!ExecuteAll(machine,
           <<[do |-> IF Here.kind = "dwell" THEN "wait" ELSE "pulse"]>>)
      /\ lower' = Past(Here, 1) /\ stage' = "lower" /\ profile' = profile
      /\ plan' = plan /\ scan' = scan /\ declared' = declared
  BY DEF LowerStationary, AtEvent
<1>2. PICK h, e, k : h = H /\ e = Here /\ k = lower.event
  OBVIOUS
<1>3. PICK t : /\ IsTrace(h, Section, t) /\ ~t[Len(Section)].pending
               /\ Agrees(h, t[k - 1]) /\ ScanIsSound(h, t[k - 1])
               /\ EventIsValid(h, t[k - 1], e)
               /\ t[k] = Scanned(h, t[k - 1], e)
  BY <1>1, <1>2, AtAnEvent
<1>4. e \in Events /\ e.kind \in {"dwell", "pulse"} /\ k \in Nat /\ ~IsMotion(e)
  BY <1>1, <1>2, AtAnEvent DEF IsMotion
<1>0. /\ h \in Headers /\ HeaderIsSound(h, lower.layer)
      /\ lower.layer \in DOMAIN plan
      /\ h = plan[lower.layer].header /\ profile \in Profiles
  BY <1>1, <1>2, SectionInForce DEF H, StageInv
<1> DEFINE s == t[k - 1]
           r == t[k]
           kind == IF e.kind = "dwell" THEN "wait" ELSE "pulse"
<1>5. /\ r.position = s.position /\ r.active = s.active
      /\ r.modulation = s.modulation
  BY <1>3, <1>4, StillScanned
<1>6. machine' = Controller!Strike(machine, kind, machine.at)
  <2>1. CASE e.kind = "dwell"
    <3>1. machine' = Controller!ExecuteAll(machine, <<[do |-> "wait"]>>)
      BY <1>1, <1>2, <2>1
    <3>2. machine' = Controller!Execute(machine, [do |-> "wait"])
      BY <3>1, ExecutedOne
    <3> QED
      BY <2>1, <3>2, Executions
  <2>2. CASE e.kind = "pulse"
    <3>1. machine' = Controller!ExecuteAll(machine, <<[do |-> "pulse"]>>)
      BY <1>1, <1>2, <2>2
    <3>2. machine' = Controller!Execute(machine, [do |-> "pulse"])
      BY <3>1, ExecutedOne
    <3> QED
      BY <2>2, <3>2, Executions
  <2> QED
    BY <1>4, <2>1, <2>2
<1>7. /\ kind \in {"wait", "pulse"} /\ (kind = "pulse" => e.kind = "pulse")
      /\ kind = StrokeKind(Here)
  BY <1>2, <1>4 DEF StrokeKind
<1> HIDE DEF kind
<1>8. /\ Machine(machine') /\ machine'.at = machine.at
      /\ machine'.limits = machine.limits /\ machine'.bounds = machine.bounds
      /\ machine'.layer = machine.layer /\ machine'.air = machine.air
      /\ machine'.speed = machine.speed /\ machine'.enabled = machine.enabled
      /\ machine'.z = machine.z /\ machine'.modulation = machine.modulation
      /\ machine'.power = machine.power /\ machine'.stroke.kind = kind
      /\ machine'.stroke.layer = machine.layer
      /\ machine'.stroke.regime.power = [i \in machine.enabled |-> machine.power[i]]
      /\ machine'.stroke.modulation = machine.modulation
      /\ IsStroke(machine, kind, machine')
  <2>1. machine.at \in Point \cup {Nowhere}
    BY DEF Machine
  <2> QED
    BY <1>6, <2>1, Struck
<1>10. /\ lower' \in Lower /\ lower'.layer = lower.layer
       /\ lower'.section = lower.section /\ lower'.event = k + 1
       /\ lower'.position = lower.position /\ lower'.dynamic = lower.dynamic
  BY <1>1, <1>2, <1>4, PastTypes
<1>11. /\ PositionAgrees(s) /\ SettingsAgree(h) /\ PowerAgrees(h, s)
       /\ ModulationAgrees(s)
  BY <1>3 DEF Agrees
<1>12. Agrees(h, r)'
  <2>1. PositionAgrees(r)'
    <3>1. ~InChunks(Here)
      BY <1>2, <1>4 DEF InChunks, IsMark, IsMotion
    <3>2. /\ lower.position = s.position
          /\ lower.position # Nowhere => machine.at = lower.position
      BY <1>11, <3>1, Settled
    <3> HIDE DEF r, s
    <3> QED
      BY <1>5, <1>8, <1>10, <3>2 DEF PositionAgrees
  <2>2. SettingsAgree(h)'
    BY <1>1, <1>8, <1>11, SettingsKept DEF SettingsAgree
  <2>3. PowerAgrees(h, r)'
    <3> HIDE DEF r, s
    <3> QED
      BY <1>1, <1>5, <1>8, <1>10, <1>11, PowerKept
  <2>4. ModulationAgrees(r)'
    <3> HIDE DEF r, s
    <3> QED
      BY <1>5, <1>8, <1>11, ModulationKept
  <2> QED
    BY <2>1, <2>2, <2>3, <2>4 DEF Agrees
<1>13. LowerInv'
  <2> DEFINE n == k + 1
  <2>1. n \in {lower.event, lower.event + 1} /\ lower'.event = n
    BY <1>2, <1>10
  <2>2. r = t[n - 1]
    <3>1. n - 1 = k
      BY <1>4
    <3> QED
      BY <3>1
  <2> HIDE DEF n, r
  <2> QED
    BY <1>1, <1>2, <1>3, <1>10, <1>12, <2>1, <2>2, EventPassed
<1>14. MetadataInv' /\ MotionInv'
  BY <1>1, <1>8, MetadataKept, MotionKept
<1>15. ASSUME EnablesAHead PROVE BeamInsideLimits'
  <2>1. CASE kind = "wait"
    BY <1>8, <2>1, BeamOff
  <2>2. CASE kind = "pulse"
    <3>1. /\ h.kind = "vector" /\ LayerAboveFloor(h)
          /\ s.active # NoChannels => AboveFloor(s.active)
      BY <1>3, <1>7, <2>2, Validity
    <3>2. ModulationIsSafe(machine.modulation)
      <4>1. s.modulation = NoModulation
        BY <1>3, <3>1 DEF ScanIsSound
      <4> QED
        BY <1>11, <4>1 DEF ModulationAgrees
    <3>3. machine.layer = h.index /\ machine.enabled = EnabledHeads(h)
      BY <1>11 DEF SettingsAgree
    <3> DEFINE active == s.active
    <3>4. active # NoChannels =>
            /\ ActiveIsSupported(h, active) /\ ChannelsAreValid(active)
            /\ active \in ChannelPlans /\ AboveFloor(active)
            /\ \A i \in DOMAIN active : machine.power[i] = WirePair(active[i])
      BY <1>3, <1>11, <3>1, ActiveIsSound DEF PowerAgrees
    <3>5. active = NoChannels =>
            \A i \in DOMAIN PowerOf(h) : machine.power[i] = PowerOf(h)[i]
      BY <1>11 DEF PowerAgrees
    <3> HIDE DEF active, s
    <3> QED
      BY <1>0, <1>1, <1>8, <1>15, <3>1, <3>2, <3>3, <3>4, <3>5, BeamOn, SMTT(40)
  <2> QED
    BY <1>7, <2>1, <2>2
<1> QED
  BY <1>7, <1>8, <1>10, <1>13, <1>14, <1>15

-----------------------------------------------------------------------------
(* The motions.                                                            *)

\* A motion ends at a point of the plan.
LEMMA PointInside ==
  ASSUME NEW l \in DOMAIN plan, NEW e \in Events, IsMotion(e),
         e \in ToSet(EventsOf(plan[l]))
  PROVE  e.to \in PointsOf(plan[l]) /\ InsidePlan(e.to)
<1>1. e.to \in PointsOf(plan[l])
  BY DEF PointsOf
<1>2. e.to \in Point
  BY EventTypes
<1>3. \A j \in 1..2 : e.to[j] <= e.to[j]
  BY <1>2 DEF Point
<1> QED
  BY <1>1, <1>3 DEF InsidePlan

\* However a motion is encoded, it ends where the event asks.
LEMMA MotionStrikes ==
  ASSUME NEW m, NEW e \in Events, IsMotion(e), ~InChunks(e),
         lower.position \in Point \cup {Nowhere},
         lower.position # Nowhere => m.at = lower.position,
         lower.position = Nowhere => e.kind = "travel",
         NEW n, n = Controller!Execute(m, Motion(e))
  PROVE  n = Controller!Strike(m, IF e.kind = "travel" THEN "travel" ELSE "mark",
                               e.to)
<1> DEFINE kind == IF e.kind = "travel" THEN "travel" ELSE "mark"
           to == e.to
<1>1. to \in Point
  BY EventTypes
<1>2. ASSUME n = Controller!Execute(m, Absolute(e))
      PROVE  n = Controller!Strike(m, kind, to)
  <2>1. CASE e.kind = "travel"
    <3>1. Absolute(e) = [do |-> "move", to |-> to]
      BY <2>1 DEF Absolute
    <3>2. Controller!Execute(m, [do |-> "move", to |-> to])
            = Controller!Strike(m, "travel", to)
      BY Executions, ZenonT(40)
    <3> QED
      BY <1>2, <2>1, <3>1, <3>2
  <2>2. CASE e.kind # "travel"
    <3>1. Absolute(e) = [do |-> "cut", to |-> to]
      BY <2>2 DEF Absolute
    <3>2. Controller!Execute(m, [do |-> "cut", to |-> to])
            = Controller!Strike(m, "mark", to)
      BY Executions, ZenonT(40)
    <3> QED
      BY <1>2, <2>2, <3>1, <3>2
  <2> QED
    BY <2>1, <2>2
<1>3. CASE ~Relative(e)
  <2>1. Motion(e) = Absolute(e)
    BY <1>3 DEF Motion
  <2> QED
    BY <1>2, <2>1
<1>4. CASE Relative(e)
  <2>1. Motion(e) = RasterMotion(e)
    BY <1>4 DEF Motion
  <2> DEFINE d == Delta(lower.position, e.to)
  <2>2. CASE lower.position = Nowhere
    <3>1. Motion(e) = [do |-> "move", to |-> to]
      BY <2>1, <2>2 DEF RasterMotion
    <3>2. Controller!Execute(m, [do |-> "move", to |-> to])
            = Controller!Strike(m, "travel", to)
      BY Executions, ZenonT(40)
    <3> QED
      BY <2>2, <3>1, <3>2
  <2>3. CASE lower.position # Nowhere /\ FitsS14(d[1]) /\ FitsS14(d[2])
    <3>1. Motion(e) = [do |-> IF e.kind = "travel" THEN "moveBy" ELSE "cutBy",
                       by |-> d]
      BY <2>1, <2>3 DEF RasterMotion
    <3>2. Controller!Moved(m.at, d) = to
      <4>1. m.at = lower.position /\ m.at \in Point
        BY <2>3
      <4>2. m.at[1] + (to[1] - m.at[1]) = to[1] /\ m.at[2] + (to[2] - m.at[2]) = to[2]
        BY <1>1, <4>1 DEF Point
      <4>3. to = <<to[1], to[2]>>
        BY <1>1 DEF Point
      <4> QED
        BY <4>1, <4>2, <4>3 DEF Controller!Moved, Delta
    <3> HIDE DEF d, to
    <3>3. CASE e.kind = "travel"
      <4>1. Controller!Execute(m, [do |-> "moveBy", by |-> d])
              = Controller!Strike(m, "travel", Controller!Moved(m.at, d))
        BY Executions, ZenonT(40)
      <4> QED
        BY <3>1, <3>2, <3>3, <4>1 DEF to
    <3>4. CASE e.kind # "travel"
      <4>1. Controller!Execute(m, [do |-> "cutBy", by |-> d])
              = Controller!Strike(m, "mark", Controller!Moved(m.at, d))
        BY Executions, ZenonT(40)
      <4> QED
        BY <3>1, <3>2, <3>4, <4>1 DEF to
    <3> QED
      BY <3>3, <3>4
  <2>4. CASE lower.position # Nowhere /\ ~(FitsS14(d[1]) /\ FitsS14(d[2]))
    <3>1. Motion(e) = Absolute(e)
      BY <2>1, <2>4 DEF RasterMotion
    <3> QED
      BY <1>2, <3>1
  <2> QED
    BY <2>2, <2>3, <2>4
<1> QED
  BY <1>3, <1>4

\* What Append does to the items.
LEMMA Appended ==
  ASSUME NEW S, NEW p \in Seq(S), NEW c \in S, NEW r, r = Append(p, c)
  PROVE  /\ r \in Seq(S) /\ Len(r) = Len(p) + 1 /\ r[Len(p) + 1] = c
         /\ \A i \in 1..Len(p) : r[i] = p[i]
OBVIOUS

\* Append to two items makes the sequence of the three.
LEMMA AppendedTwo ==
  ASSUME NEW S, NEW p \in Seq(S), NEW q \in Seq(S), NEW c \in S,
         Len(p) = 2, Len(q) = 3, q[1] = p[1], q[2] = p[2], q[3] = c
  PROVE  Append(p, c) = q
<1>1. PICK r : r = Append(p, c)
  OBVIOUS
<1>2. /\ r \in Seq(S) /\ Len(r) = 3 /\ r[3] = c /\ r[1] = p[1] /\ r[2] = p[2]
  <2>1. /\ r \in Seq(S) /\ Len(r) = Len(p) + 1 /\ r[Len(p) + 1] = c
        /\ \A i \in 1..Len(p) : r[i] = p[i]
    BY <1>1, Appended
  <2> QED
    BY <2>1
<1>3. r = q
  BY <1>2
<1> QED
  BY <1>1, <1>3

\* The same, of tuples.
LEMMA AppendedThird ==
  ASSUME NEW a, NEW b, NEW c
  PROVE  Append(<<a, b>>, c) = <<a, b, c>>
<1> DEFINE S == {a, b, c}
           p == <<a, b>>
           q == <<a, b, c>>
<1>1. /\ p \in Seq(S) /\ q \in Seq(S) /\ c \in S /\ Len(p) = 2 /\ Len(q) = 3
      /\ q[1] = p[1] /\ q[2] = p[2] /\ q[3] = c
  OBVIOUS
<1> HIDE DEF p, q, S
<1>2. Append(p, c) = q
  BY <1>1, AppendedTwo
<1> QED
  BY <1>2 DEF p, q

\* The powers of an envelope are in force when the next record is executed.
LEMMA EnvelopeWritten ==
  ASSUME Machine(machine), NEW h \in Headers, NEW channels \in ChannelPlans,
         NEW c
  PROVE  \E mid :
           /\ Machine(mid) /\ Rest(machine, mid) /\ mid.layer = h.index
           /\ mid.air = machine.air /\ mid.speed = machine.speed
           /\ mid.enabled = machine.enabled /\ mid.z = machine.z
           /\ mid.modulation \in {machine.modulation, NoModulation}
           /\ \A i \in DOMAIN channels : mid.power[i] = WirePair(channels[i])
           /\ Controller!ExecuteAll(machine,
                                    Append(PowerEnvelope(h, channels), c))
                = Controller!Execute(mid, c)
<1> DEFINE power == [i \in DOMAIN channels |-> WirePair(channels[i])]
           a == [do |-> "select", layer |-> h.index]
           b == [do |-> "power", power |-> power]
           m1 == Controller!Execute(machine, a)
           m2 == Controller!Execute(m1, b)
<1>1. PowerEnvelope(h, channels) = <<a, b>>
  BY DEF PowerEnvelope
<1>2. m1 = Controller!Execute(machine, [do |-> "select", layer |-> h.index])
  OBVIOUS
<1>3. m2 = Controller!Execute(m1, [do |-> "power", power |-> power])
  OBVIOUS
<1>4. /\ DOMAIN power = DOMAIN channels /\ DOMAIN power \subseteq LaserHead
      /\ \A i \in DOMAIN power : power[i] \in Pair
      /\ \A i \in DOMAIN channels : power[i] = WirePair(channels[i])
  BY Wires
<1>5. Controller!ExecuteAll(machine, Append(PowerEnvelope(h, channels), c))
        = Controller!Execute(m2, c)
  <2> HIDE DEF a, b, power
  <2>1. Append(<<a, b>>, c) = <<a, b, c>>
    BY AppendedThird
  <2>2. Controller!ExecuteAll(machine, <<a, b, c>>)
          = Controller!Execute(Controller!Execute(
              Controller!Execute(machine, a), b), c)
    BY ExecutedThree
  <2> QED
    BY <1>1, <2>1, <2>2
<1> HIDE DEF m1, m2, power
<1>6. /\ Machine(m1) /\ Rest(machine, m1) /\ m1.layer = h.index
      /\ m1.air = machine.air /\ m1.speed = machine.speed
      /\ m1.enabled = machine.enabled /\ m1.z = machine.z
      /\ m1.modulation = machine.modulation \/ m1.modulation = NoModulation
  BY <1>2, Selected
<1>7. /\ Machine(m2) /\ Rest(m1, m2) /\ m2.layer = m1.layer /\ m2.air = m1.air
      /\ m2.speed = m1.speed /\ m2.enabled = m1.enabled /\ m2.z = m1.z
      /\ m2.modulation = m1.modulation
      /\ \A i \in DOMAIN power : m2.power[i] = power[i]
  BY <1>3, <1>4, <1>6, Powered
<1>8. /\ Rest(machine, m2)
      /\ \A i \in DOMAIN channels : m2.power[i] = WirePair(channels[i])
  BY <1>4, <1>6, <1>7 DEF Rest
<1> QED
  BY <1>5, <1>6, <1>7, <1>8

\* The powers that are written before a motion.
LEMMA PowersWritten ==
  ASSUME Machine(machine), H \in Headers, NEW e \in Events,
         Restores(e) => H.channels # NoChannels, NEW c
  PROVE  \E mid :
           /\ Machine(mid) /\ Rest(machine, mid)
           /\ mid.layer \in {machine.layer, H.index}
           /\ mid.air = machine.air /\ mid.speed = machine.speed
           /\ mid.enabled = machine.enabled /\ mid.z = machine.z
           /\ mid.modulation \in {machine.modulation, NoModulation}
           /\ e.kind = "markWith" =>
                \A i \in DOMAIN e.channels :
                  mid.power[i] = WirePair(e.channels[i])
           /\ Restores(e) =>
                \A i \in DOMAIN PowerOf(H) : mid.power[i] = PowerOf(H)[i]
           /\ e.kind # "markWith" /\ ~Restores(e) =>
                mid.power = machine.power /\ mid.modulation = machine.modulation
           /\ Controller!ExecuteAll(machine, Append(Powers(e), c))
                = Controller!Execute(mid, c)
<1>1. CASE e.kind = "markWith"
  <2>1. Powers(e) = PowerEnvelope(H, e.channels) /\ ~Restores(e)
    BY <1>1, Zenon DEF Powers, Restores
  <2>2. e.channels \in ChannelPlans
    BY <1>1, EventTypes
  <2> QED
    BY <1>1, <2>1, <2>2, EnvelopeWritten
<1>2. CASE Restores(e)
  <2>1. Powers(e) = PowerEnvelope(H, H.channels) /\ e.kind # "markWith"
    BY <1>2, Zenon DEF Powers, Restores
  <2>2. H.channels \in ChannelPlans
    BY <1>2, HeaderTypes
  <2>3. PowerOf(H) = [i \in DOMAIN H.channels |-> WirePair(H.channels[i])]
    BY <1>2 DEF PowerOf
  <2> QED
    BY <1>2, <2>1, <2>2, <2>3, EnvelopeWritten
<1>3. CASE e.kind # "markWith" /\ ~Restores(e)
  <2>1. Powers(e) = <<>>
    BY <1>3, Zenon DEF Powers
  <2>2. Append(<<>>, c) = <<c>>
    OBVIOUS
  <2>3. Controller!ExecuteAll(machine, Append(Powers(e), c))
          = Controller!Execute(machine, c)
    BY <2>1, <2>2, ExecutedOne
  <2> QED
    BY <1>3, <2>3 DEF Rest
<1> QED
  BY <1>1, <1>2, <1>3

\* LowerMotion puts the powers in force that the plan asks for and ends where
\* the event does.
LEMMA MotionLowered ==
  ASSUME Machine(machine), lower \in Lower, PlanInv, StageInv, MetadataInv,
         LowerInv, MotionInv, LowerMotion
  PROVE  /\ Machine(machine') /\ lower' \in Lower /\ MetadataInv' /\ LowerInv'
         /\ MotionInv'
         /\ EnablesAHead => BeamInsideLimits'
         /\ machine'.at = Here.to
         /\ IsStroke(machine, StrokeKind(Here), machine')
<1>1. /\ AtEvent /\ IsMotion(Here) /\ ~InChunks(Here) /\ stage = "lower"
      /\ machine' = Controller!ExecuteAll(machine,
                                          Append(Powers(Here), Motion(Here)))
      /\ lower' = [Past(Here, 1) EXCEPT
                     !.position = Here.to,
                     !.dynamic = (@ \/ Here.kind = "markWith")
                                   /\ Here.kind # "mark"]
      /\ stage' = "lower" /\ profile' = profile
      /\ plan' = plan /\ scan' = scan /\ declared' = declared
  BY DEF LowerMotion, AtEvent
<1>2. PICK h, e, k : h = H /\ e = Here /\ k = lower.event
  OBVIOUS
<1>3. PICK t : /\ IsTrace(h, Section, t) /\ ~t[Len(Section)].pending
               /\ Agrees(h, t[k - 1]) /\ ScanIsSound(h, t[k - 1])
               /\ EventIsValid(h, t[k - 1], e)
               /\ t[k] = Scanned(h, t[k - 1], e)
  BY <1>1, <1>2, AtAnEvent
<1>4. /\ e \in Events /\ IsMotion(e) /\ k \in Nat /\ e.to \in Point
      /\ EventIsSupported(profile, h, e)
      /\ e \in ToSet(EventsOf(plan[lower.layer])) /\ ~InChunks(e)
  BY <1>1, <1>2, AtAnEvent, EventTypes
<1>5. /\ h \in Headers /\ HeaderIsSound(h, lower.layer)
      /\ lower.layer \in DOMAIN plan
      /\ h = plan[lower.layer].header /\ profile \in Profiles
  BY <1>1, <1>2, SectionInForce DEF H, StageInv
<1> DEFINE s == t[k - 1]
           r == t[k]
           kind == IF e.kind = "travel" THEN "travel" ELSE "mark"
<1>6. /\ PositionAgrees(s) /\ SettingsAgree(h) /\ PowerAgrees(h, s)
      /\ ModulationAgrees(s)
  BY <1>3 DEF Agrees
<1>7. /\ s \in Scan
      /\ s.position = Nowhere => e.kind = "travel"
      /\ e.kind \in {"markWith", "markCurrent"} => h.kind = "vector"
      /\ e.kind = "markWith" => ChannelsAreValid(e.channels)
      /\ e.kind = "markCurrent" => s.active # NoChannels
      /\ IsMark(e) => MarkIsValid(h, s, e)
  BY <1>3, <1>4, Validity DEF ScanIsSound
<1>8. /\ r.position = e.to /\ r.active = ActiveAfter(s, e)
      /\ r.modulation = s.modulation
  <2>1. IsMark(e) => s.position \in Point
    BY <1>7 DEF IsMark, Scan
  <2>2. e.kind # "modulate"
    BY <1>4 DEF IsMotion
  <2> QED
    BY <1>3, <1>4, <1>7, <2>1, <2>2, Scans
<1>9. /\ lower.position = s.position
      /\ lower.position # Nowhere => machine.at = lower.position
  BY <1>1, <1>6, Settled
<1>10. Restores(e) => H.channels # NoChannels /\ h.kind = "vector"
  <2>1. Restores(e) => s.active # NoChannels
    BY <1>6 DEF Restores, PowerAgrees
  <2>2. s.active # NoChannels => h.channels # NoChannels /\ h.kind = "vector"
    BY <1>3, <1>6, ActiveIsSound DEF PowerAgrees, ActiveIsSupported
  <2> QED
    BY <1>2, <2>1, <2>2
<1>11. PICK mid :
         /\ Machine(mid) /\ Rest(machine, mid)
         /\ mid.layer \in {machine.layer, h.index}
         /\ mid.air = machine.air /\ mid.speed = machine.speed
         /\ mid.enabled = machine.enabled /\ mid.z = machine.z
         /\ mid.modulation \in {machine.modulation, NoModulation}
         /\ e.kind = "markWith" =>
              \A i \in DOMAIN e.channels :
                mid.power[i] = WirePair(e.channels[i])
         /\ Restores(e) =>
              \A i \in DOMAIN PowerOf(h) : mid.power[i] = PowerOf(h)[i]
         /\ e.kind # "markWith" /\ ~Restores(e) =>
              mid.power = machine.power /\ mid.modulation = machine.modulation
         /\ machine' = Controller!Execute(mid, Motion(e))
  <2>1. PICK c : c = Motion(e)
    OBVIOUS
  <2>2. machine' = Controller!ExecuteAll(machine, Append(Powers(e), c))
    BY <1>1, <1>2, <2>1
  <2> QED
    BY <1>2, <1>4, <1>5, <1>10, <2>1, <2>2, PowersWritten
<1>12. machine' = Controller!Strike(mid, kind, e.to)
  <2>1. lower.position \in Point \cup {Nowhere}
    BY DEF Lower
  <2>2. mid.at = machine.at
    BY <1>11 DEF Rest
  <2> QED
    BY <1>4, <1>7, <1>9, <1>11, <2>1, <2>2, MotionStrikes
<1>13. /\ kind \in {"travel", "mark"} /\ (kind = "mark" => IsMark(e))
       /\ kind = StrokeKind(Here)
  BY <1>2, <1>4 DEF IsMotion, IsMark, StrokeKind
<1> HIDE DEF kind
<1>14. /\ Machine(machine') /\ machine'.at = e.to
       /\ machine'.limits = machine.limits /\ machine'.bounds = machine.bounds
       /\ machine'.layer = h.index /\ machine'.air = machine.air
       /\ machine'.speed = machine.speed /\ machine'.enabled = machine.enabled
       /\ machine'.z = machine.z /\ machine'.modulation = mid.modulation
       /\ machine'.power = mid.power /\ machine'.stroke.kind = kind
       /\ machine'.stroke.layer = h.index
       /\ machine'.stroke.regime.power = [i \in machine.enabled |-> mid.power[i]]
       /\ machine'.stroke.modulation = mid.modulation
       /\ IsStroke(machine, kind, machine')
  <2>1. /\ Machine(machine') /\ machine'.at = e.to /\ machine'.limits = mid.limits
        /\ machine'.bounds = mid.bounds /\ machine'.layer = mid.layer
        /\ machine'.air = mid.air /\ machine'.speed = mid.speed
        /\ machine'.enabled = mid.enabled /\ machine'.z = mid.z
        /\ machine'.modulation = mid.modulation /\ machine'.power = mid.power
        /\ machine'.stroke.kind = kind /\ machine'.stroke.layer = mid.layer
        /\ machine'.stroke.regime.power = [i \in mid.enabled |-> mid.power[i]]
        /\ machine'.stroke.modulation = mid.modulation
        /\ IsStroke(mid, kind, machine')
    <3>1. e.to \in Point \cup {Nowhere}
      BY <1>4
    <3> QED
      BY <1>11, <1>12, <3>1, Struck
  <2>2. mid.layer = h.index
    BY <1>6, <1>11 DEF SettingsAgree
  <2>3. IsStroke(machine, kind, machine')
    BY <1>11, <2>1 DEF Rest, IsStroke
  <2> QED
    BY <1>11, <2>1, <2>2, <2>3 DEF Rest
<1>15. /\ lower' \in Lower /\ lower'.layer = lower.layer
       /\ lower'.section = lower.section /\ lower'.event = k + 1
       /\ lower'.position = e.to
       /\ lower'.dynamic = ((lower.dynamic \/ e.kind = "markWith")
                              /\ e.kind # "mark")
  <2>1. PICK l : l = Past(e, 1)
    OBVIOUS
  <2>2. /\ l \in Lower /\ l.layer = lower.layer /\ l.section = lower.section
        /\ l.event = k + 1 /\ l.dynamic = lower.dynamic
    BY <1>2, <1>4, <2>1, PastTypes
  <2> DEFINE dynamic == (l.dynamic \/ e.kind = "markWith") /\ e.kind # "mark"
             kinds == {"none"} \cup {f.kind : f \in Events}
  <2>3. lower' = [l EXCEPT !.position = e.to, !.dynamic = dynamic]
    BY <1>1, <1>2, <2>1
  <2>4. /\ dynamic \in BOOLEAN /\ e.to \in Point \cup {Nowhere}
        /\ dynamic = ((lower.dynamic \/ e.kind = "markWith")
                         /\ e.kind # "mark")
    BY <1>4, <2>2
  <2>5. Lower = [layer : Nat, section : Nat, event : Nat,
                 position : Point \cup {Nowhere}, dynamic : BOOLEAN,
                 previous : kinds, done : Nat]
    BY DEF Lower
  <2> HIDE DEF dynamic, kinds
  <2>6. /\ lower' \in Lower /\ lower'.layer = l.layer
        /\ lower'.section = l.section /\ lower'.event = l.event
        /\ lower'.position = e.to /\ lower'.dynamic = dynamic
    BY <2>2, <2>3, <2>4, <2>5
  <2> QED
    BY <2>2, <2>4, <2>6
\* The powers after the event.
<1>16. /\ lower'.dynamic = (r.active # NoChannels)
       /\ r.active = NoChannels =>
            \A i \in DOMAIN PowerOf(h) : mid.power[i] = PowerOf(h)[i]
       /\ r.active # NoChannels =>
            /\ ActiveIsSupported(h, r.active)
            /\ \A i \in DOMAIN r.active : mid.power[i] = WirePair(r.active[i])
            /\ r.active \in ChannelPlans /\ ChannelsAreValid(r.active)
            /\ h.kind = "vector"
  <2>1. CASE e.kind = "markWith"
    <3>1. r.active = e.channels /\ e.channels \in ChannelPlans
      BY <1>4, <1>8, <2>1, Actives, EventTypes
    <3>2. r.active # NoChannels
      BY <3>1, PlansAssumption
    <3>3. ActiveIsSupported(h, e.channels)
      BY <1>4, <2>1 DEF EventIsSupported, ActiveIsSupported
    <3> HIDE DEF r
    <3> QED
      BY <1>7, <1>11, <1>15, <2>1, <3>1, <3>2, <3>3
  <2>2. CASE e.kind = "mark"
    <3>1. r.active = NoChannels
      BY <1>8, <2>2, Actives
    <3>2. lower'.dynamic = FALSE
      BY <1>15, <2>2
    <3>3. \A i \in DOMAIN PowerOf(h) : mid.power[i] = PowerOf(h)[i]
      <4>1. CASE Restores(e)
        BY <1>11, <4>1
      <4>2. CASE ~Restores(e)
        <5>1. s.active = NoChannels
          BY <1>6, <2>2, <4>2 DEF PowerAgrees, Restores
        <5> QED
          BY <1>6, <1>11, <2>2, <4>2, <5>1 DEF PowerAgrees
      <4> QED
        BY <4>1, <4>2
    <3> HIDE DEF r
    <3> QED
      BY <3>1, <3>2, <3>3
  <2>3. CASE e.kind \notin {"mark", "markWith"}
    <3>1. r.active = s.active /\ lower'.dynamic = lower.dynamic
      <4>1. lower.dynamic \in BOOLEAN
        BY DEF Lower
      <4> QED
        BY <1>8, <1>15, <2>3, <4>1, Actives
    <3>2. mid.power = machine.power
      BY <1>11, <2>3 DEF Restores
    <3>3. s.active # NoChannels =>
            /\ s.active \in ChannelPlans /\ ChannelsAreValid(s.active)
            /\ h.kind = "vector"
      BY <1>3, ActiveIsSound
    <3> HIDE DEF r, s
    <3> QED
      BY <1>6, <3>1, <3>2, <3>3 DEF PowerAgrees
  <2> QED
    BY <2>1, <2>2, <2>3
<1>17. \/ mid.modulation = machine.modulation
       \/ mid.modulation = NoModulation /\ s.modulation = NoModulation
  <2>1. CASE h.kind = "vector"
    <3>1. s.modulation = NoModulation
      BY <1>3, <2>1 DEF ScanIsSound
    <3> QED
      BY <1>11, <3>1
  <2>2. CASE h.kind # "vector"
    <3>1. e.kind # "markWith"
      BY <1>7, <2>2
    <3>2. ~Restores(e)
      BY <1>10, <2>2
    <3> QED
      BY <1>11, <3>1, <3>2, Zenon
  <2> QED
    BY <2>1, <2>2
<1>18. Agrees(h, r)'
  <2>1. PositionAgrees(r)'
    <3> HIDE DEF r
    <3> QED
      BY <1>8, <1>14, <1>15 DEF PositionAgrees
  <2>2. SettingsAgree(h)'
    BY <1>1, <1>6, <1>14, SettingsKept DEF SettingsAgree
  <2>3. PowerAgrees(h, r)'
    <3>1. r.active # NoChannels => ActiveIsSupported(h, r.active)'
      BY <1>1, <1>16 DEF ActiveIsSupported
    <3> HIDE DEF r
    <3> QED
      BY <1>14, <1>16, <3>1 DEF PowerAgrees
  <2>4. ModulationAgrees(r)'
    <3> HIDE DEF r, s
    <3> QED
      BY <1>6, <1>8, <1>14, <1>17, ModulationKept
  <2> QED
    BY <2>1, <2>2, <2>3, <2>4 DEF Agrees
<1>19. LowerInv'
  <2> DEFINE n == k + 1
  <2>1. n \in {lower.event, lower.event + 1} /\ lower'.event = n
    BY <1>2, <1>15
  <2>2. r = t[n - 1]
    <3>1. n - 1 = k
      BY <1>4
    <3> QED
      BY <3>1
  <2> HIDE DEF n, r
  <2> QED
    BY <1>1, <1>2, <1>3, <1>15, <1>18, <2>1, <2>2, EventPassed
<1>20. MetadataInv' /\ MotionInv'
  <2>1. InsidePlan(e.to)'
    BY <1>1, <1>4, <1>5, PointInside, InsideKept
  <2>2. MotionInv'
    BY <1>14, <2>1 DEF MotionInv, InsidePlan
  <2> QED
    BY <1>1, <1>14, <2>2, MetadataKept
<1>21. ASSUME EnablesAHead PROVE BeamInsideLimits'
  <2>1. CASE kind = "travel"
    BY <1>14, <2>1, BeamOff
  <2>2. CASE kind = "mark"
    <3>1. MarkIsValid(h, s, e)
      BY <1>7, <1>13, <2>2
    <3>2. /\ LayerAboveFloor(h)
          /\ r.active # NoChannels => AboveFloor(r.active)
      BY <1>8, <3>1 DEF MarkIsValid
    <3>3. ModulationIsSafe(mid.modulation)
      <4>1. CASE s.modulation = NoModulation
        BY <1>6, <1>17, <4>1 DEF ModulationAgrees, ModulationIsSafe
      <4>2. CASE s.modulation # NoModulation
        <5>1. h.kind = "raster"
          BY <1>3, <4>2 DEF ScanIsSound
        <5> QED
          BY <1>6, <1>17, <3>1, <4>2, <5>1
             DEF ModulationAgrees, ModulationIsSafe, MarkIsValid
      <4> QED
        BY <4>1, <4>2
    <3>4. machine.enabled = EnabledHeads(h)
      BY <1>6 DEF SettingsAgree
    <3> DEFINE active == r.active
               power == mid.power
    <3>5. /\ active = NoChannels =>
               \A i \in DOMAIN PowerOf(h) : power[i] = PowerOf(h)[i]
          /\ active # NoChannels =>
               /\ ActiveIsSupported(h, active) /\ ChannelsAreValid(active)
               /\ active \in ChannelPlans /\ AboveFloor(active)
               /\ \A i \in DOMAIN active : power[i] = WirePair(active[i])
      BY <1>16, <3>2
    <3>6. /\ machine'.stroke.regime.power = [i \in EnabledHeads(h) |-> power[i]]
          /\ machine'.stroke.layer = h.index /\ machine'.limits = machine.limits
          /\ ModulationIsSafe(machine'.stroke.modulation)
      BY <1>14, <3>3, <3>4
    <3> HIDE DEF active, r, s, power
    <3> QED
      BY <1>1, <1>5, <1>21, <3>2, <3>5, <3>6, BeamOn
  <2> QED
    BY <1>13, <2>1, <2>2
<1> QED
  BY <1>2, <1>13, <1>14, <1>15, <1>19, <1>20, <1>21

\* A chunk of a span goes towards its end and not beyond it.
LEMMA Chunks ==
  ASSUME NEW d \in Int, profile.chunk \in Nat, NEW c, c = Chunk(d)
  PROVE  /\ c \in Int /\ -profile.chunk <= c /\ c <= profile.chunk
         /\ Within(0, c, d)
         /\ d # 0 /\ profile.chunk # 0 => c # 0
<1> DEFINE chunk == profile.chunk
<1>1. CASE d > 0
  <2>1. c = Min({d, chunk})
    BY <1>1 DEF Chunk
  <2>2. \E x \in {d, chunk} : \A y \in {d, chunk} : x <= y
    OBVIOUS
  <2>3. c \in {d, chunk} /\ c <= d /\ c <= chunk
    BY <2>1, <2>2 DEF Min
  <2> QED
    BY <1>1, <2>3 DEF Within
<1>2. CASE ~(d > 0)
  <2>1. c = Max({d, -chunk})
    BY <1>2 DEF Chunk
  <2>2. \E x \in {d, -chunk} : \A y \in {d, -chunk} : x >= y
    OBVIOUS
  <2>3. c \in {d, -chunk} /\ c >= d /\ c >= -chunk
    BY <2>1, <2>2 DEF Max
  <2> QED
    BY <1>2, <2>3 DEF Within
<1> QED
  BY <1>1, <1>2

\* The points of a layer are points.
LEMMA PointsAreReal ==
  ASSUME PlanInv, NEW l \in DOMAIN plan, NEW q \in PointsOf(plan[l])
  PROVE  q \in Point
<1>1. plan[l].sections # <<>> /\ plan \in Layers
  BY DEF PlanInv
<1>2. plan[l].sections \in Seq(Seq(Events))
  <2>1. plan[l] \in [header : Headers, sections : Seq(Seq(Events))]
    BY <1>1, Items, ZenonT(40) DEF Layers
  <2> QED
    BY <2>1
<1>3. 1 \in DOMAIN plan[l].sections
  <2>1. \A ss \in Seq(Seq(Events)) : ss # <<>> => 1 \in DOMAIN ss
    OBVIOUS
  <2> QED
    BY <1>1, <1>2, <2>1
<1>4. EventsOf(plan[l]) \in Seq(Events)
  BY <1>3, Sections
<1>5. \A e \in ToSet(EventsOf(plan[l])) : e \in Events
  <2> DEFINE events == EventsOf(plan[l])
  <2> HIDE DEF events
  <2>1. events \in Seq(Events)
    BY <1>4 DEF events
  <2>2. \A e \in ToSet(events) : e \in Events
    BY <2>1 DEF ToSet
  <2> QED
    BY <2>2 DEF events
<1>6. PICK e \in ToSet(EventsOf(plan[l])) : IsMotion(e) /\ q = e.to
  BY DEF PointsOf
<1> QED
  BY <1>5, <1>6, EventTypes

\* What is between two points inside the plan is inside.
LEMMA BetweenIsInside ==
  ASSUME PlanInv, NEW p \in Point, NEW q \in Point, NEW r \in Point,
         InsidePlan(p), InsidePlan(r), \A j \in 1..2 : Within(p[j], q[j], r[j])
  PROVE  InsidePlan(q)
<1> SUFFICES ASSUME NEW j \in 1..2
             PROVE  /\ \E l \in DOMAIN plan :
                         \E x \in PointsOf(plan[l]) : x[j] <= q[j]
                    /\ \E l \in DOMAIN plan :
                         \E x \in PointsOf(plan[l]) : q[j] <= x[j]
  BY DEF InsidePlan
<1>1. p[j] \in Int /\ q[j] \in Int /\ r[j] \in Int
  BY DEF Point
<1>2. \A l \in DOMAIN plan : \A x \in PointsOf(plan[l]) : x[j] \in Int
  BY PointsAreReal DEF Point
<1>3. CASE p[j] <= q[j] /\ q[j] <= r[j]
  <2>1. PICK l1 \in DOMAIN plan : \E x \in PointsOf(plan[l1]) : x[j] <= p[j]
    BY DEF InsidePlan
  <2>2. PICK l2 \in DOMAIN plan : \E x \in PointsOf(plan[l2]) : r[j] <= x[j]
    BY DEF InsidePlan
  <2> QED
    BY <1>1, <1>2, <1>3, <2>1, <2>2
<1>4. CASE r[j] <= q[j] /\ q[j] <= p[j]
  <2>1. PICK l1 \in DOMAIN plan : \E x \in PointsOf(plan[l1]) : x[j] <= r[j]
    BY DEF InsidePlan
  <2>2. PICK l2 \in DOMAIN plan : \E x \in PointsOf(plan[l2]) : p[j] <= x[j]
    BY DEF InsidePlan
  <2> QED
    BY <1>1, <1>2, <1>4, <2>1, <2>2
<1> QED
  BY <1>3, <1>4 DEF Within

\* Where the head is on its way along a span.
LEMMA OnTheWay ==
  ASSUME lower \in Lower, NEW e \in Events, e = Here, InChunks(e),
         NEW s \in Scan, s.position # Nowhere, PositionAgrees(s)
  PROVE  /\ lower.position \in Point /\ machine.at = lower.position
         /\ s.position \in Point /\ e.to \in Point
         /\ \A j \in 1..2 : Within(s.position[j], lower.position[j], e.to[j])
<1>1. e.to \in Point /\ s.position \in Point
  BY EventTypes DEF InChunks, IsMark, IsMotion, Scan
<1>2. CASE lower.position = s.position
  <2>1. \A j \in 1..2 : Within(s.position[j], lower.position[j], e.to[j])
    BY <1>1, <1>2 DEF Within, Point
  <2> QED
    BY <1>1, <1>2, <2>1 DEF PositionAgrees
<1>3. CASE lower.position # s.position
  <2>1. /\ lower.position # Nowhere
        /\ \A j \in 1..2 : Within(s.position[j], lower.position[j], e.to[j])
    BY <1>3 DEF PositionAgrees
  <2> QED
    BY <1>1, <2>1 DEF PositionAgrees, Lower
<1> QED
  BY <1>2, <1>3

\* The point a chunk ends at.
LEMMA ChunkEnds ==
  ASSUME profile.chunk \in Nat, lower.position \in Point, NEW e \in Events,
         e.to \in Point, InChunks(e), NEW by, by = Motion(e).by
  PROVE  /\ Motion(e) = [do |-> "cutBy", by |-> by]
         /\ \A j \in 1..2 :
              /\ by[j] \in Int /\ Within(0, by[j], e.to[j] - lower.position[j])
              /\ -profile.chunk <= by[j] /\ by[j] <= profile.chunk
              /\ e.to[j] # lower.position[j] /\ profile.chunk # 0 =>
                   by[j] # 0
<1> DEFINE x == Chunk(e.to[1] - lower.position[1])
           y == Chunk(e.to[2] - lower.position[2])
<1>1. e.to[1] - lower.position[1] \in Int /\ e.to[2] - lower.position[2] \in Int
  BY DEF Point
<1>2. Motion(e) = [do |-> "cutBy", by |-> <<x, y>>]
  BY DEF Motion, NativeMotion, Delta
<1>3. /\ x \in Int /\ -profile.chunk <= x /\ x <= profile.chunk
      /\ Within(0, x, e.to[1] - lower.position[1])
      /\ e.to[1] # lower.position[1] /\ profile.chunk # 0 => x # 0
  BY <1>1, Chunks DEF Point
<1>4. /\ y \in Int /\ -profile.chunk <= y /\ y <= profile.chunk
      /\ Within(0, y, e.to[2] - lower.position[2])
      /\ e.to[2] # lower.position[2] /\ profile.chunk # 0 => y # 0
  BY <1>1, Chunks DEF Point
<1> HIDE DEF x, y
<1>5. by = <<x, y>>
  BY <1>2
<1> QED
  BY <1>2, <1>3, <1>4, <1>5

\* LowerChunk stays on the span, with the powers of the layer.
LEMMA ChunkLowered ==
  ASSUME Machine(machine), lower \in Lower, PlanInv, StageInv, MetadataInv,
         LowerInv, MotionInv, LowerChunk
  PROVE  /\ Machine(machine') /\ lower' \in Lower /\ MetadataInv' /\ LowerInv'
         /\ MotionInv'
         /\ EnablesAHead => BeamInsideLimits'
         /\ IsStroke(machine, "mark", machine')
<1> DEFINE step == Motion(Here).by
           end == <<lower.position[1] + step[1], lower.position[2] + step[2]>>
<1>1. /\ AtEvent /\ InChunks(Here) /\ stage = "lower"
      /\ machine' = Controller!ExecuteAll(machine, <<Motion(Here)>>)
      /\ lower' = [IF end = Here.to THEN Past(Here, 1) ELSE lower
                     EXCEPT !.position = end]
      /\ stage' = "lower" /\ profile' = profile
      /\ plan' = plan /\ scan' = scan /\ declared' = declared
  BY DEF LowerChunk, AtEvent
<1>2. PICK h, e, k, by, to :
        h = H /\ e = Here /\ k = lower.event /\ by = step /\ to = end
  OBVIOUS
<1> HIDE DEF end
<1>3. PICK t : /\ IsTrace(h, Section, t) /\ ~t[Len(Section)].pending
               /\ Agrees(h, t[k - 1]) /\ ScanIsSound(h, t[k - 1])
               /\ EventIsValid(h, t[k - 1], e)
               /\ t[k] = Scanned(h, t[k - 1], e)
  BY <1>1, <1>2, AtAnEvent
<1>4. /\ e \in Events /\ IsMotion(e) /\ IsMark(e) /\ k \in 1..Len(Section)
      /\ e.to \in Point /\ Native(h) /\ h.kind = "raster" /\ InChunks(e)
      /\ e \in ToSet(EventsOf(plan[lower.layer]))
  <2>1. /\ e \in Events /\ k \in 1..Len(Section)
        /\ e \in ToSet(EventsOf(plan[lower.layer]))
    BY <1>1, <1>2, AtAnEvent
  <2>2. Native(h) /\ IsMark(e) /\ InChunks(e)
    BY <1>1, <1>2 DEF InChunks
  <2>3. IsMotion(e) /\ h.kind = "raster"
    BY <2>2 DEF IsMotion, IsMark, Native
  <2> QED
    BY <2>1, <2>2, <2>3, EventTypes
<1>5. /\ h \in Headers /\ HeaderIsSound(h, lower.layer)
      /\ lower.layer \in DOMAIN plan
      /\ h = plan[lower.layer].header /\ profile \in Profiles
      /\ profile.chunk \in Nat /\ Len(Section) \in Nat
  <2>1. /\ h \in Headers /\ HeaderIsSound(h, lower.layer)
        /\ lower.layer \in DOMAIN plan /\ profile \in RuidaJobProfile
        /\ Len(Section) \in Nat
    BY <1>1, <1>2, SectionInForce
  <2>2. profile.chunk \in Nat
    BY <2>1 DEF RuidaJobProfile
  <2> QED
    BY <1>1, <1>2, <2>1, <2>2 DEF H, StageInv
<1> DEFINE s == t[k - 1]
           r == t[k]
<1>6. /\ PositionAgrees(s) /\ SettingsAgree(h) /\ PowerAgrees(h, s)
      /\ ModulationAgrees(s)
  BY <1>3 DEF Agrees
<1>7. /\ s \in Scan /\ s.position # Nowhere /\ e.kind = "mark"
      /\ MarkIsValid(h, s, e) /\ s.active = NoChannels
  <2>1. s \in Scan /\ s.active = NoChannels
    BY <1>3, <1>4 DEF ScanIsSound
  <2>2. /\ s.position = Nowhere => e.kind = "travel"
        /\ e.kind \in {"markWith", "markCurrent"} => h.kind = "vector"
        /\ MarkIsValid(h, s, e)
    BY <1>3, <1>4, Validity
  <2>3. e.kind = "mark" /\ s.position # Nowhere
    BY <1>4, <2>2 DEF IsMark
  <2> QED
    BY <2>1, <2>2, <2>3
<1>8. /\ r.position = e.to /\ r.active = NoChannels
      /\ r.modulation = s.modulation
  <2>1. s.position \in Point /\ e.kind # "modulate" /\ ActiveAfter(s, e) = NoChannels
    BY <1>7, Actives DEF Scan
  <2> QED
    BY <1>3, <1>4, <1>7, <2>1, Scans
<1>9. /\ lower.position \in Point /\ machine.at = lower.position
      /\ s.position \in Point /\ lower.position # Nowhere
      /\ \A j \in 1..2 : Within(s.position[j], lower.position[j], e.to[j])
  <2> HIDE DEF s
  <2> QED
    BY <1>2, <1>4, <1>6, <1>7, OnTheWay, PlansAssumption
<1>10. /\ Motion(e) = [do |-> "cutBy", by |-> by]
       /\ \A j \in 1..2 :
            by[j] \in Int /\ Within(0, by[j], e.to[j] - lower.position[j])
  <2>1. by = Motion(e).by
    BY <1>2
  <2> QED
    BY <1>4, <1>5, <1>9, <2>1, ChunkEnds
<1> HIDE DEF step
<1>11. /\ to = Controller!Moved(machine.at, by) /\ to \in Point
       /\ \A j \in 1..2 : to[j] = lower.position[j] + by[j]
  <2>1. to = <<lower.position[1] + by[1], lower.position[2] + by[2]>>
    BY <1>2 DEF end
  <2>2. \A j \in 1..2 : lower.position[j] \in Int
    BY <1>9 DEF Point
  <2> QED
    BY <1>9, <1>10, <2>1, <2>2 DEF Controller!Moved, Point
<1>12. /\ \A j \in 1..2 : Within(s.position[j], to[j], e.to[j])
       /\ \A j \in 1..2 : Within(lower.position[j], to[j], e.to[j])
  <2> SUFFICES ASSUME NEW j \in 1..2
               PROVE  /\ Within(s.position[j], to[j], e.to[j])
                      /\ Within(lower.position[j], to[j], e.to[j])
    OBVIOUS
  <2>1. /\ lower.position[j] \in Int /\ s.position[j] \in Int
        /\ e.to[j] \in Int
    BY <1>4, <1>9 DEF Point
  <2>2. /\ by[j] \in Int /\ Within(0, by[j], e.to[j] - lower.position[j])
        /\ to[j] = lower.position[j] + by[j]
        /\ Within(s.position[j], lower.position[j], e.to[j])
    BY <1>9, <1>10, <1>11
  <2> HIDE DEF s
  <2> QED
    BY <2>1, <2>2 DEF Within
<1>13. machine' = Controller!Strike(machine, "mark", to)
  <2>1. machine' = Controller!Execute(machine, [do |-> "cutBy", by |-> by])
    BY <1>1, <1>2, <1>10, ExecutedOne
  <2>2. Controller!Execute(machine, [do |-> "cutBy", by |-> by])
          = Controller!Strike(machine, "mark", Controller!Moved(machine.at, by))
    BY Executions, ZenonT(40)
  <2> QED
    BY <1>11, <2>1, <2>2
<1>14. /\ Machine(machine') /\ machine'.at = to
       /\ machine'.limits = machine.limits /\ machine'.bounds = machine.bounds
       /\ machine'.layer = machine.layer /\ machine'.air = machine.air
       /\ machine'.speed = machine.speed /\ machine'.enabled = machine.enabled
       /\ machine'.z = machine.z /\ machine'.modulation = machine.modulation
       /\ machine'.power = machine.power /\ machine'.stroke.kind = "mark"
       /\ machine'.stroke.layer = machine.layer
       /\ machine'.stroke.regime.power = [i \in machine.enabled |-> machine.power[i]]
       /\ machine'.stroke.modulation = machine.modulation
       /\ IsStroke(machine, "mark", machine')
  BY <1>11, <1>13, Struck
<1>15. PICK n :
         /\ n = IF to = e.to THEN k + 1 ELSE k
         /\ lower' \in Lower /\ lower'.layer = lower.layer
         /\ lower'.section = lower.section /\ lower'.event = n
         /\ lower'.position = to /\ lower'.dynamic = lower.dynamic
  <2>1. PICK l : l = IF to = e.to THEN Past(e, 1) ELSE lower
    OBVIOUS
  <2>2. /\ l \in Lower /\ l.layer = lower.layer /\ l.section = lower.section
        /\ l.event = (IF to = e.to THEN k + 1 ELSE k)
        /\ l.dynamic = lower.dynamic
    <3>1. CASE to = e.to
      BY <1>2, <1>4, <2>1, <3>1, PastTypes
    <3>2. CASE to # e.to
      BY <1>2, <2>1, <3>2
    <3> QED
      BY <3>1, <3>2
  <2> DEFINE kinds == {"none"} \cup {f.kind : f \in Events}
  <2>3. lower' = [l EXCEPT !.position = to]
    BY <1>1, <1>2, <2>1
  <2>4. Lower = [layer : Nat, section : Nat, event : Nat,
                 position : Point \cup {Nowhere}, dynamic : BOOLEAN,
                 previous : kinds, done : Nat]
    BY DEF Lower
  <2> HIDE DEF kinds
  <2>5. /\ lower' \in Lower /\ lower'.layer = l.layer
        /\ lower'.section = l.section /\ lower'.event = l.event
        /\ lower'.position = to /\ lower'.dynamic = l.dynamic
    BY <1>11, <2>2, <2>3, <2>4
  <2> QED
    BY <2>2, <2>5
\* What the next event finds: the rest of the span, or its end.
<1>16. PICK u : u = t[n - 1]
  OBVIOUS
<1>17. /\ u.active = NoChannels /\ u.modulation = s.modulation
       /\ to = e.to => u.position = to
       /\ to # e.to => n = k /\ u.position = s.position
  <2>1. CASE to = e.to
    <3>1. n - 1 = k
      BY <1>4, <1>15, <2>1
    <3>2. u = r
      BY <1>16, <3>1
    <3> HIDE DEF r, s
    <3> QED
      BY <1>8, <2>1, <3>2
  <2>2. CASE to # e.to
    BY <1>7, <1>15, <1>16, <2>2
  <2> QED
    BY <2>1, <2>2
<1>18. Agrees(h, u)'
  <2>1. PositionAgrees(u)'
    <3>1. CASE to = e.to
      BY <1>14, <1>15, <1>17, <3>1 DEF PositionAgrees
    <3>2. CASE to # e.to
      <4>1. /\ Section' = Section /\ H' = H /\ lower'.event = k
            /\ u.position = s.position
        BY <1>1, <1>15, <1>17, <3>2 DEF Section, H
      <4>2. Here' = e
        <5>1. Here' = Section'[lower'.event]
          BY DEF Here
        <5> QED
          BY <1>2, <4>1, <5>1 DEF Here
      <4>3. InChunks(Here)'
        BY <1>4, <1>2, <4>1, <4>2 DEF InChunks
      <4>4. lower'.event <= Len(Section')
        BY <1>4, <1>5, <4>1
      <4>5. lower'.position # Nowhere
        BY <1>11, <1>15, PlansAssumption
      <4>6. \A j \in 1..2 :
              Within(u.position[j], lower'.position[j], Here'.to[j])
        BY <1>12, <1>15, <4>1, <4>2
      <4>7. u.position # Nowhere
        BY <1>7, <4>1
      <4>8. machine'.at = lower'.position
        BY <1>14, <1>15
      <4> HIDE DEF s
      <4> QED
        BY <4>3, <4>4, <4>5, <4>6, <4>7, <4>8 DEF PositionAgrees
    <3> QED
      BY <3>1, <3>2
  <2>2. SettingsAgree(h)'
    BY <1>1, <1>6, <1>14, SettingsKept DEF SettingsAgree
  <2>3. PowerAgrees(h, u)'
    <3> HIDE DEF s
    <3> QED
      BY <1>1, <1>6, <1>7, <1>14, <1>15, <1>17, PowerKept
  <2>4. ModulationAgrees(u)'
    <3> HIDE DEF s
    <3> QED
      BY <1>6, <1>14, <1>17, ModulationKept
  <2> QED
    BY <2>1, <2>2, <2>3, <2>4 DEF Agrees
<1>19. LowerInv'
  <2>1. n \in {lower.event, lower.event + 1}
    BY <1>2, <1>15
  <2> QED
    BY <1>1, <1>2, <1>3, <1>15, <1>16, <1>18, <2>1, EventPassed
<1>20. MetadataInv' /\ MotionInv'
  <2>1. InsidePlan(e.to)
    BY <1>4, <1>5, PointInside
  <2>2. InsidePlan(lower.position)
    BY <1>9 DEF MotionInv
  <2>3. InsidePlan(to)
    BY <1>4, <1>9, <1>11, <1>12, <2>1, <2>2, BetweenIsInside
  <2>4. MotionInv'
    BY <1>1, <1>14, <2>3 DEF MotionInv, InsidePlan
  <2> QED
    BY <1>1, <1>14, <2>4, MetadataKept
<1>21. ASSUME EnablesAHead PROVE BeamInsideLimits'
  <2>1. LayerAboveFloor(h)
    BY <1>7 DEF MarkIsValid
  <2>2. ModulationIsSafe(machine.modulation)
    BY <1>4, <1>6, <1>7 DEF ModulationAgrees, ModulationIsSafe, MarkIsValid
  <2>3. machine.enabled = EnabledHeads(h) /\ machine.layer = h.index
    BY <1>6 DEF SettingsAgree
  <2>7. PICK active, power : active = NoChannels /\ power = machine.power
    OBVIOUS
  <2>4. /\ active = NoChannels =>
             \A i \in DOMAIN PowerOf(h) : power[i] = PowerOf(h)[i]
        /\ active # NoChannels =>
             /\ ActiveIsSupported(h, active) /\ ChannelsAreValid(active)
             /\ active \in ChannelPlans /\ AboveFloor(active)
             /\ \A i \in DOMAIN active : power[i] = WirePair(active[i])
    BY <1>6, <1>7, <2>7 DEF PowerAgrees
  <2>5. /\ machine'.stroke.regime.power = [i \in EnabledHeads(h) |-> power[i]]
        /\ machine'.stroke.layer = h.index /\ machine'.limits = machine.limits
        /\ ModulationIsSafe(machine'.stroke.modulation)
    BY <1>14, <2>2, <2>3, <2>7
  <2>6. stage = "lower"
    BY <1>1
  <2> HIDE DEF r, s
  <2>8. PICK l : l = lower.layer
    OBVIOUS
  <2>9. /\ profile \in Profiles /\ l \in DOMAIN plan /\ h \in Headers
        /\ h = plan[l].header /\ HeaderIsSound(h, l)
    BY <1>5, <2>8
  <2> QED
    BY <1>21, <2>1, <2>4, <2>5, <2>6, <2>9, BeamOn, SMTT(40)
<1> QED
  BY <1>14, <1>15, <1>19, <1>20, <1>21

\* The analysis of a section leaves no modulation below the floor behind.
LEMMA EndIsSafe ==
  ASSUME NEW h, NEW s, ScanIsSound(h, s), ~s.pending, ModulationAgrees(s)
  PROVE  ModulationIsSafe(machine.modulation)
BY DEF ScanIsSound, ModulationAgrees, ModulationIsSafe

\* EndSection moves the Z axis back and leaves no modulation below the floor.
LEMMA SectionEnds ==
  ASSUME Machine(machine), lower \in Lower, PlanInv, StageInv, MetadataInv,
         LowerInv, MotionInv, EndSection
  PROVE  /\ Machine(machine') /\ lower' \in Lower /\ MetadataInv' /\ LowerInv'
         /\ MotionInv' /\ machine'.stroke = machine.stroke
         /\ machine'.limits = machine.limits /\ machine'.z = 0
         /\ machine'.at = machine.at
<1>1. /\ stage = "lower" /\ lower.event = Len(Section) + 1
      /\ machine' = Controller!ExecuteAll(machine, ZEnvelope(H, H.z))
      /\ profile' = profile /\ plan' = plan /\ scan' = scan
      /\ declared' = declared
  BY DEF EndSection
<1>2. PICK h, k : h = H /\ k = Len(Section)
  OBVIOUS
<1>3. /\ h \in Headers /\ k \in Nat /\ lower.layer \in DOMAIN plan
      /\ lower.section \in DOMAIN plan[lower.layer].sections
      /\ plan \in Layers /\ plan[lower.layer].sections \in Seq(Seq(Events))
  <2>1. plan \in Layers /\ lower.layer \in DOMAIN plan
    BY <1>1 DEF LowerInv, PlanInv
  <2>2. plan[lower.layer] \in [header : Headers, sections : Seq(Seq(Events))]
    BY <2>1, Items, ZenonT(40) DEF Layers
  <2> QED
    BY <1>1, <1>2, <2>1, <2>2, SectionInForce DEF LowerInv
<1>4. PICK t : /\ IsTrace(h, Section, t) /\ ~t[k].pending /\ Agrees(h, t[k])
  <2>1. lower.event # 0 /\ lower.event - 1 = k
    BY <1>1, <1>2, <1>3
  <2> QED
    BY <1>1, <1>2, <2>1 DEF LowerInv
<1>5. ModulationIsSafe(machine.modulation) /\ machine.z = -h.z
  <2>1. ScanIsSound(h, t[k])
    <3>1. k \in 0..Len(Section)
      BY <1>2, <1>3
    <3> QED
      BY <1>4, <3>1 DEF IsTrace
  <2> QED
    BY <1>4, <2>1, EndIsSafe DEF Agrees, SettingsAgree
<1>6. /\ Machine(machine') /\ Rest(machine, machine')
      /\ machine'.z = machine.z + h.z
      /\ machine'.modulation = machine.modulation
           \/ machine'.modulation = NoModulation
  BY <1>1, <1>2, <1>3, Offset
<1>7. /\ machine'.at = machine.at /\ machine'.limits = machine.limits
      /\ machine'.bounds = machine.bounds /\ machine'.stroke = machine.stroke
  BY <1>6 DEF Rest
<1>8. machine'.z = 0 /\ ModulationIsSafe(machine'.modulation)
  <2>1. h.z \in Int
    BY <1>3, HeaderTypes
  <2> QED
    BY <1>5, <1>6, <2>1 DEF ModulationIsSafe
<1>9. MetadataInv' /\ MotionInv'
  BY <1>1, <1>7, MetadataKept, MotionKept
<1> DEFINE kinds == {"none"} \cup {f.kind : f \in Events}
<1>10. /\ Lower = [layer : Nat, section : Nat, event : Nat,
                   position : Point \cup {Nowhere}, dynamic : BOOLEAN,
                   previous : kinds, done : Nat]
       /\ DOMAIN plan = 1..Len(plan) /\ Len(plan) \in Nat
       /\ DOMAIN plan[lower.layer].sections = 1..Len(plan[lower.layer].sections)
       /\ Len(plan[lower.layer].sections) \in Nat
  BY <1>3 DEF Lower, Layers
<1> HIDE DEF kinds
<1>11. CASE LastSection
  <2>1. /\ lower' = [lower EXCEPT !.layer = @ + 1, !.section = 1, !.event = 0]
        /\ stage' = IF lower.layer = Len(plan) THEN "compiled" ELSE "lower"
    BY <1>11 DEF EndSection
  <2>2. /\ lower' \in Lower /\ lower'.layer = lower.layer + 1
        /\ lower'.section = 1 /\ lower'.event = 0
    <3>1. PICK n : n = lower.layer + 1
      OBVIOUS
    <3>2. lower.layer \in Nat
      BY <1>10
    <3>3. /\ n \in Nat
          /\ lower' = [lower EXCEPT !.layer = n, !.section = 1, !.event = 0]
      BY <2>1, <3>1, <3>2
    <3> QED
      BY <1>10, <3>1, <3>3
  <2>3. LowerInv'
    <3>1. CASE lower.layer = Len(plan)
      BY <2>1, <3>1 DEF LowerInv
    <3>2. CASE lower.layer # Len(plan)
      <4>1. lower'.layer \in DOMAIN plan'
        BY <1>1, <1>3, <1>10, <2>2, <3>2
      <4>2. lower'.section \in DOMAIN plan'[lower'.layer].sections
        <5>1. /\ plan[lower'.layer].sections # <<>>
              /\ plan[lower'.layer] \in [header : Headers,
                                         sections : Seq(Seq(Events))]
          BY <1>1, <1>3, <4>1, Items, ZenonT(40) DEF PlanInv, Layers
        <5>2. \A ss \in Seq(Seq(Events)) : ss # <<>> => 1 \in DOMAIN ss
          OBVIOUS
        <5> QED
          BY <1>1, <2>2, <5>1, <5>2
      <4>3. Len(Section') \in Nat
        <5>1. plan'[lower'.layer].sections[lower'.section] \in Seq(Events)
          BY <1>1, <4>1, <4>2, Sections, ZenonT(40)
        <5>2. Section' = plan'[lower'.layer].sections[lower'.section]
          BY DEF Section
        <5> QED
          BY <5>1, <5>2, SMTT(40)
      <4>4. 0 \in 0..(Len(Section') + 1)
        BY <4>3
      <4> QED
        BY <1>8, <2>2, <4>1, <4>2, <4>4 DEF LowerInv
    <3> QED
      BY <3>1, <3>2
  <2> QED
    BY <1>6, <1>7, <1>8, <1>9, <2>2, <2>3
<1>12. CASE ~LastSection
  <2>1. lower' = [lower EXCEPT !.section = @ + 1, !.event = 0] /\ stage' = "lower"
    BY <1>12 DEF EndSection
  <2>2. /\ lower' \in Lower /\ lower'.layer = lower.layer
        /\ lower'.section = lower.section + 1 /\ lower'.event = 0
    <3>1. PICK n : n = lower.section + 1
      OBVIOUS
    <3>2. lower.section \in Nat
      BY <1>10
    <3>3. n \in Nat /\ lower' = [lower EXCEPT !.section = n, !.event = 0]
      BY <2>1, <3>1, <3>2
    <3> QED
      BY <1>10, <3>1, <3>3
  <2>3. lower'.section \in DOMAIN plan'[lower'.layer].sections
    BY <1>1, <1>3, <1>10, <1>12, <2>2 DEF LastSection
  <2>4. Len(Section') \in Nat
    <3>1. plan'[lower'.layer].sections[lower'.section] \in Seq(Events)
      BY <1>1, <1>3, <2>2, <2>3, Sections, ZenonT(40)
    <3>2. Section' = plan'[lower'.layer].sections[lower'.section]
      BY DEF Section
    <3> QED
      BY <3>1, <3>2, SMTT(40)
  <2>5. 0 \in 0..(Len(Section') + 1)
    BY <2>4
  <2>6. LowerInv'
    BY <1>1, <1>3, <1>8, <2>2, <2>3, <2>5 DEF LowerInv
  <2> QED
    BY <1>6, <1>7, <1>8, <1>9, <2>2, <2>6
<1> QED
  BY <1>11, <1>12

-----------------------------------------------------------------------------
(* The invariant is inductive.                                             *)

\* The locals before the lowering.
LEMMA StartedTypes ==
  Started \in Lower
<1> DEFINE kinds == {"none"} \cup {e.kind : e \in Events}
<1>1. Lower = [layer : Nat, section : Nat, event : Nat,
               position : Point \cup {Nowhere}, dynamic : BOOLEAN,
               previous : kinds, done : Nat]
  BY DEF Lower
<1>2. "none" \in kinds
  OBVIOUS
<1> HIDE DEF kinds
<1> QED
  BY <1>1, <1>2 DEF Started

\* Before the lowering nothing is known of the machine but that it is idle.
LEMMA BeforeLowering ==
  ASSUME StageInv, stage \notin {"lower", "compiled"}
  PROVE  /\ Machine(machine) /\ lower \in Lower /\ MetadataInv /\ LowerInv
         /\ MotionInv /\ BeamInsideLimits
<1>1. PICK loads \in BOOLEAN : machine = Controller!Idle(loads)
  BY DEF StageInv
<1>2. /\ Machine(machine) /\ machine.at = Nowhere
      /\ machine.stroke.kind = "none"
  BY <1>1, IdleMachine
<1>3. lower \in Lower
  BY StartedTypes DEF StageInv
<1> QED
  BY <1>2, <1>3 DEF MetadataInv, LowerInv, MotionInv, BeamInsideLimits

\* The same of the state a step leads to.
LEMMA BeforeLoweringNext ==
  ASSUME StageInv', stage' \notin {"lower", "compiled"}
  PROVE  /\ Machine(machine') /\ lower' \in Lower /\ MetadataInv' /\ LowerInv'
         /\ MotionInv' /\ BeamInsideLimits'
<1>1. PICK loads \in BOOLEAN : machine' = Controller!Idle(loads)
  BY DEF StageInv
<1>2. /\ Machine(machine') /\ machine'.at = Nowhere
      /\ machine'.stroke.kind = "none"
  BY <1>1, IdleMachine
<1>3. lower' \in Lower
  BY StartedTypes DEF StageInv
<1> QED
  BY <1>2, <1>3 DEF MetadataInv, LowerInv, MotionInv, BeamInsideLimits

\* The metadata have been told, the first section is due.
LEMMA MetadataLowered ==
  ASSUME PlanInv, PlanInv', StageInv, Metadata
  PROVE  /\ Machine(machine') /\ lower' \in Lower /\ MetadataInv' /\ LowerInv'
         /\ MotionInv' /\ BeamInsideLimits'
<1>1. /\ stage = "metadata" /\ stage' = "lower" /\ plan' = plan
      /\ declared' = declared /\ lower' = lower
  BY DEF Metadata
<1>2. /\ Machine(machine') /\ machine'.bounds = JobBounds(declared)
      /\ machine'.at = Nowhere /\ machine'.z = 0
      /\ machine'.modulation = NoModulation
      /\ machine'.stroke.kind = "none"
      /\ \A l \in DOMAIN plan :
           \A i \in DOMAIN PowerOf(plan[l].header) :
             machine'.limits[l - 1][i] = PowerOf(plan[l].header)[i]
  BY MetadataTold
<1>3. MetadataInv'
  <2>1. JobBounds(declared)' = JobBounds(declared)
    BY <1>1 DEF JobBounds, BoundsOfPlan
  <2>2. machine'.bounds = JobBounds(declared)'
    BY <1>2, <2>1
  <2>3. \A l \in DOMAIN plan' :
          \A i \in DOMAIN PowerOf(plan'[l].header) :
            machine'.limits[l - 1][i] = PowerOf(plan'[l].header)[i]
    BY <1>1, <1>2
  <2> QED
    BY <2>2, <2>3 DEF MetadataInv
<1>4. lower' = Started /\ plan # <<>> /\ plan \in Layers
  BY <1>1 DEF StageInv, PlanInv
<1>5. /\ lower' \in Lower /\ lower'.layer = 1 /\ lower'.section = 1
      /\ lower'.event = 0
  BY <1>4, StartedTypes DEF Started
<1>6. 1 \in DOMAIN plan
  <2>1. \A q \in Layers : q # <<>> => 1 \in DOMAIN q
    BY DEF Layers
  <2> QED
    BY <1>4, <2>1
<1>7. 1 \in DOMAIN plan[1].sections
  <2>1. plan[1].sections # <<>>
    BY <1>6 DEF PlanInv
  <2>2. plan[1].sections \in Seq(Seq(Events))
    <3>1. plan[1] \in [header : Headers, sections : Seq(Seq(Events))]
      BY <1>4, <1>6, Items, ZenonT(40) DEF Layers
    <3> QED
      BY <3>1
  <2>3. \A ss \in Seq(Seq(Events)) : ss # <<>> => 1 \in DOMAIN ss
    OBVIOUS
  <2> QED
    BY <2>1, <2>2, <2>3
<1>8. Len(Section') \in Nat
  <2>1. plan[1].sections[1] \in Seq(Events)
    BY <1>6, <1>7, Sections, ZenonT(40)
  <2> QED
    BY <1>1, <1>5, <2>1 DEF Section
<1>9. LowerInv'
  <2>1. 0 \in 0..(Len(Section') + 1)
    BY <1>8
  <2>2. ModulationIsSafe(machine'.modulation)
    BY <1>2 DEF ModulationIsSafe
  <2> QED
    BY <1>1, <1>2, <1>5, <1>6, <1>7, <2>1, <2>2 DEF LowerInv
<1> QED
  BY <1>2, <1>3, <1>5, <1>9 DEF MotionInv, BeamInsideLimits

\* A stuttering step keeps the agreement,
LEMMA AgreesUnchanged ==
  ASSUME UNCHANGED vars, NEW h, NEW s, Agrees(h, s)
  PROVE  Agrees(h, s)'
<1>1. lower' = lower /\ machine' = machine /\ profile' = profile /\ plan' = plan
  BY DEF vars
<1>2. PositionAgrees(s)'
  BY <1>1 DEF Agrees, PositionAgrees, Section, Here, InChunks, H
<1>3. SettingsAgree(h)'
  BY <1>1 DEF Agrees, SettingsAgree, EnabledHeads
<1>4. PowerAgrees(h, s)'
  BY <1>1, PowerKept DEF Agrees
<1>5. ModulationAgrees(s)'
  BY <1>1, ModulationKept DEF Agrees
<1> QED
  BY <1>2, <1>3, <1>4, <1>5 DEF Agrees

\* and everything else.
LEMMA LoweredUnchanged ==
  ASSUME UNCHANGED vars, Machine(machine), lower \in Lower, MetadataInv, LowerInv,
         MotionInv
  PROVE  /\ Machine(machine') /\ lower' \in Lower /\ MetadataInv' /\ LowerInv'
         /\ MotionInv'
         /\ BeamInsideLimits => BeamInsideLimits'
<1>1. /\ lower' = lower /\ machine' = machine /\ profile' = profile
      /\ plan' = plan /\ stage' = stage /\ declared' = declared
  BY DEF vars
<1>2. MotionInv' /\ (BeamInsideLimits => BeamInsideLimits')
  BY <1>1, MotionKept, BeamKept
<1>3. MetadataInv'
  <2>1. CASE stage = "lower"
    BY <1>1, <2>1, MetadataKept
  <2>2. CASE stage # "lower"
    <3>1. JobBounds(declared)' = JobBounds(declared)
      BY <1>1 DEF JobBounds, BoundsOfPlan
    <3> QED
      BY <1>1, <3>1 DEF MetadataInv
  <2> QED
    BY <2>1, <2>2
<1>4. LowerInv'
  <2>1. CASE stage # "lower"
    BY <1>1, <2>1 DEF LowerInv
  <2>2. CASE stage = "lower" /\ lower.event = 0
    BY <1>1, <2>2 DEF LowerInv, Section
  <2>3. CASE stage = "lower" /\ lower.event # 0
    <3>1. PICK t : /\ IsTrace(H, Section, t) /\ ~t[Len(Section)].pending
                   /\ Agrees(H, t[lower.event - 1])
      BY <2>3 DEF LowerInv
    <3>2. PICK h, s : h = H /\ s = t[lower.event - 1]
      OBVIOUS
    <3>3. Agrees(h, s)'
      BY <3>1, <3>2, AgreesUnchanged
    <3>4. H' = H /\ Section' = Section
      BY <1>1 DEF H, Section
    <3>5. /\ IsTrace(H', Section', t) /\ ~t[Len(Section')].pending
          /\ h = H' /\ s = t[lower'.event - 1]
      BY <1>1, <3>1, <3>2, <3>4
    <3> QED
      BY <1>1, <2>3, <3>3, <3>4, <3>5 DEF LowerInv
  <2> QED
    BY <2>1, <2>2, <2>3
<1> QED
  BY <1>1, <1>2, <1>3, <1>4

\* The inductive invariant.
CompilerInv ==
  /\ Machine(machine) /\ lower \in Lower
  /\ PlanInv /\ StageInv /\ MetadataInv /\ LowerInv /\ MotionInv

\* The analysis begins with the invariant,
LEMMA InvInitially ==
  ASSUME Init
  PROVE  CompilerInv /\ BeamInsideLimits
<1>1. PlanInv /\ StageInv
  BY PlanInitially, StageInitially
<1>2. stage = "analyse"
  BY DEF Init
<1> QED
  BY <1>1, <1>2, BeforeLowering DEF CompilerInv

\* and every step keeps it.
LEMMA InvNext ==
  ASSUME CompilerInv, Next \/ UNCHANGED vars
  PROVE  CompilerInv' /\ (EnablesAHead /\ BeamInsideLimits => BeamInsideLimits')
<1>1. /\ Machine(machine) /\ lower \in Lower
      /\ PlanInv /\ StageInv /\ MetadataInv /\ LowerInv /\ MotionInv
  BY DEF CompilerInv
<1>2. PlanInv' /\ StageInv'
  BY <1>1, PlanStep, StageStep
<1> SUFFICES /\ Machine(machine') /\ lower' \in Lower /\ MetadataInv'
             /\ LowerInv' /\ MotionInv'
             /\ EnablesAHead /\ BeamInsideLimits => BeamInsideLimits'
  BY <1>2 DEF CompilerInv
<1>3. CASE \/ \E h \in Headers : Open(h) \/ OpenRefused(h)
           \/ \E e \in Events : Add(e) \/ AddRefused(e)
           \/ NextSection \/ CloseLayer \/ CloseRefused
           \/ \E b \in Declared : EndAnalysis(b) \/ EndRefused(b)
           \/ \E p \in Profiles : Accept(p) \/ FeaturesRefused(p)
  <2>1. stage' \notin {"lower", "compiled"}
    BY <1>3 DEF Open, OpenRefused, Add, AddRefused, NextSection, CloseLayer,
       CloseRefused, EndAnalysis, EndRefused, Accept, FeaturesRefused, Reject
  <2> QED
    BY <1>2, <2>1, BeforeLoweringNext
<1>4. CASE Metadata
  BY <1>1, <1>2, <1>4, MetadataLowered
<1>5. CASE BeginSection
  BY <1>1, <1>5, SectionBegins, BeamKept
<1>6. CASE LowerModulation
  BY <1>1, <1>6, ModulationLowered, BeamKept
<1>7. CASE LowerStationary
  BY <1>1, <1>7, StationaryLowered
<1>8. CASE LowerMotion
  BY <1>1, <1>8, MotionLowered
<1>9. CASE LowerChunk
  BY <1>1, <1>9, ChunkLowered
<1>10. CASE EndSection
  BY <1>1, <1>10, SectionEnds, BeamKept
<1>11. CASE UNCHANGED vars
  BY <1>1, <1>11, LoweredUnchanged
<1> QED
  BY <1>3, <1>4, <1>5, <1>6, <1>7, <1>8, <1>9, <1>10, <1>11 DEF Next

\* What the compiler remembers, the trace of the analysis and the controller
\* agree in every state.
THEOREM InvAlways == Spec => []CompilerInv
<1>1. Init => CompilerInv
  BY InvInitially
<1>2. CompilerInv /\ [Next]_vars => CompilerInv'
  BY InvNext
<1> QED
  BY <1>1, <1>2, PTL DEF Spec

-----------------------------------------------------------------------------
(* The properties.                                                         *)

\* The agreement says more than LocalsAreTrue.
LEMMA LocalsFollow ==
  ASSUME CompilerInv
  PROVE  LocalsAreTrue
<1> SUFFICES ASSUME stage = "lower", lower.event # 0
             PROVE  /\ lower.position # Nowhere => machine.at = lower.position
                    /\ machine.layer = H.index /\ machine.enabled = EnabledHeads(H)
                    /\ machine.air = H.air /\ machine.speed = H.speed
                    /\ machine.z = -H.z
                    /\ ~lower.dynamic =>
                         \A i \in DOMAIN PowerOf(H) :
                           machine.power[i] = PowerOf(H)[i]
  BY Zenon DEF LocalsAreTrue
<1>1. PICK t : Agrees(H, t[lower.event - 1])
  BY DEF CompilerInv, LowerInv
<1>2. /\ lower.position # Nowhere => machine.at = lower.position
      /\ SettingsAgree(H) /\ PowerAgrees(H, t[lower.event - 1])
  BY <1>1 DEF Agrees, PositionAgrees
<1> QED
  BY <1>2 DEF SettingsAgree, PowerAgrees

\* Whatever the lowering assumes of an event the analysis or the profile's
\* checks have asked of it.
LEMMA LoweringSucceeds ==
  ASSUME CompilerInv
  PROVE  AcceptedPlansCompile
<1> SUFFICES ASSUME AtEvent PROVE CanLower(Here)
  BY DEF AcceptedPlansCompile
<1>1. /\ Machine(machine) /\ lower \in Lower
      /\ PlanInv /\ StageInv /\ LowerInv /\ stage = "lower"
  BY DEF CompilerInv, AtEvent
<1>2. PICK h, e, k : h = H /\ e = Here /\ k = lower.event
  OBVIOUS
<1>3. PICK t : /\ Agrees(h, t[k - 1]) /\ ScanIsSound(h, t[k - 1])
               /\ EventIsValid(h, t[k - 1], e)
  BY <1>1, <1>2, AtAnEvent
<1>4. e \in Events /\ (IsMotion(e) => e.to \in Point)
  BY <1>1, <1>2, AtAnEvent, EventTypes
<1>5. PICK s : s = t[k - 1]
  OBVIOUS
<1>6. /\ PositionAgrees(s) /\ PowerAgrees(h, s) /\ s \in Scan
      /\ ScanIsSound(h, s) /\ EventIsValid(h, s, e)
  BY <1>3, <1>5 DEF Agrees, ScanIsSound
<1>7. /\ profile.chunk \in Nat /\ profile.chunk <= MaxS14
      /\ Native(h) => profile.chunk # 0
  <2>1. /\ profile \in RuidaJobProfile /\ ScopeIsPossible(profile)
        /\ HasMode(profile, h)
    BY <1>1, <1>2, SectionInForce DEF PolicyIsValid
  <2>2. profile.chunk \in Nat /\ profile.chunk <= MaxS14
    BY <2>1, CompilerAssumption DEF RuidaJobProfile, ScopeIsPossible
  <2>3. Native(h) => profile.rasterModes # {}
    BY <2>1 DEF HasMode, Native
  <2> QED
    BY <2>1, <2>2, <2>3 DEF ScopeIsPossible
<1>8. Restores(e) => H.channels # NoChannels
  BY <1>2, <1>6 DEF Restores, PowerAgrees, ActiveIsSupported
<1>9. ASSUME InChunks(e)
      PROVE  /\ lower.position # Nowhere /\ profile.chunk # 0
             /\ \/ lower.position[1] = e.to[1]
                \/ lower.position[2] = e.to[2]
             /\ FitsS14(Motion(e).by[1]) /\ FitsS14(Motion(e).by[2])
  <2>1. IsMark(e) /\ IsMotion(e) /\ Native(h)
    BY <1>2, <1>9 DEF InChunks, IsMark, IsMotion
  <2>2. s.position # Nowhere /\ MarkIsValid(h, s, e)
    <3>1. /\ s.position = Nowhere => e.kind = "travel"
          /\ MarkIsValid(h, s, e)
      BY <1>6, <2>1, Validity
    <3> QED
      BY <2>1, <3>1 DEF IsMark
  <2>3. /\ lower.position \in Point /\ s.position \in Point /\ e.to \in Point
        /\ \A j \in 1..2 : Within(s.position[j], lower.position[j], e.to[j])
    BY <1>1, <1>2, <1>4, <1>6, <1>9, <2>2, OnTheWay
  <2>4. s.position[1] = e.to[1] \/ s.position[2] = e.to[2]
    <3>1. SpanIsValid(h, s, e)
      BY <2>1, <2>2 DEF MarkIsValid
    <3>2. e.to[1] - s.position[1] = 0 \/ e.to[2] - s.position[2] = 0
      BY <3>1 DEF SpanIsValid, Delta
    <3> QED
      BY <2>3, <3>2 DEF Point
  <2>5. \/ lower.position[1] = e.to[1]
        \/ lower.position[2] = e.to[2]
    <3>1. /\ Within(s.position[1], lower.position[1], e.to[1])
          /\ Within(s.position[2], lower.position[2], e.to[2])
      BY <2>3
    <3> QED
      BY <2>3, <2>4, <3>1 DEF Within, Point
  <2>6. PICK by : by = Motion(e).by
    OBVIOUS
  <2>7. \A j \in 1..2 :
          by[j] \in Int /\ -profile.chunk <= by[j] /\ by[j] <= profile.chunk
    BY <1>4, <1>7, <1>9, <2>3, <2>6, ChunkEnds
  <2>8. FitsS14(by[1]) /\ FitsS14(by[2])
    BY <1>7, <2>7, CompilerAssumption DEF FitsS14
  <2>9. lower.position # Nowhere
    BY <2>3, PlansAssumption
  <2> QED
    BY <1>7, <2>1, <2>5, <2>6, <2>8, <2>9
<1>10. ASSUME ~InChunks(e), Motion(e).do \in {"moveBy", "cutBy"}
       PROVE  FitsS14(Motion(e).by[1]) /\ FitsS14(Motion(e).by[2])
  <2>1. Absolute(e).do \notin {"moveBy", "cutBy"}
    BY DEF Absolute
  <2>2. Relative(e) /\ Motion(e) = RasterMotion(e)
    BY <1>10, <2>1 DEF Motion
  <2> DEFINE d == Delta(lower.position, e.to)
  <2>3. lower.position # Nowhere /\ FitsS14(d[1]) /\ FitsS14(d[2])
    BY <1>10, <2>1, <2>2 DEF RasterMotion
  <2>4. Motion(e).by = d
    BY <2>2, <2>3 DEF RasterMotion
  <2> QED
    BY <2>3, <2>4
<1> QED
  BY <1>2, <1>8, <1>9, <1>10 DEF CanLower

-----------------------------------------------------------------------------
(* The announced bounds.                                                   *)

\* A set of naturals has a least member,
LEMMA LeastExists ==
  ASSUME NEW X \in SUBSET Nat, X # {}
  PROVE  \E x \in X : \A y \in X : x <= y
<1> DEFINE T == {n \in Nat : (\E x \in X : x <= n)
                               => \E x \in X : \A y \in X : x <= y}
<1>1. 0 \in T
  OBVIOUS
<1>2. ASSUME NEW n \in Nat, n \in T PROVE n + 1 \in T
  <2> SUFFICES ASSUME NEW x \in X, x <= n + 1
               PROVE  \E z \in X : \A y \in X : z <= y
    OBVIOUS
  <2>1. CASE \E y \in X : y <= n
    BY <1>2, <2>1
  <2>2. CASE ~\E y \in X : y <= n
    <3>1. \A y \in X : x <= y
      BY <2>2
    <3> QED
      BY <3>1
  <2> QED
    BY <2>1, <2>2
<1> HIDE DEF T
<1>3. Nat \subseteq T
  BY <1>1, <1>2, Inductive
<1>4. PICK x \in X : TRUE
  OBVIOUS
<1>5. x \in T
  BY <1>3
<1> QED
  BY <1>5 DEF T

\* and a bounded one a greatest.
LEMMA GreatestExists ==
  ASSUME NEW N \in Nat, NEW X \in SUBSET (0..N), X # {}
  PROVE  \E x \in X : \A y \in X : x >= y
<1> DEFINE Y == {N - x : x \in X}
<1>1. Y \in SUBSET Nat /\ Y # {}
  <2>1. \A x \in X : N - x \in Nat
    OBVIOUS
  <2>2. PICK x \in X : TRUE
    OBVIOUS
  <2>3. N - x \in Y
    OBVIOUS
  <2> QED
    BY <2>1, <2>3
<1>2. PICK y \in Y : \A z \in Y : y <= z
  <2> HIDE DEF Y
  <2> QED
    BY <1>1, LeastExists
<1>3. PICK x \in X : y = N - x
  OBVIOUS
<1>4. \A z \in X : N - x <= N - z
  BY <1>2, <1>3
<1> QED
  BY <1>4

\* The points a plan goes to can be encoded.
LEMMA PointsAreSmall ==
  ASSUME PlanInv, ~scan.open, NEW l \in DOMAIN plan, NEW q \in PointsOf(plan[l])
  PROVE  q[1] \in 0..MaxAbsolute /\ q[2] \in 0..MaxAbsolute
<1>1. PICK e \in ToSet(EventsOf(plan[l])) : IsMotion(e) /\ q = e.to
  BY DEF PointsOf
<1> DEFINE sections == plan[l].sections
<1>2. sections \in Seq(Seq(Events))
  <2>1. plan[l] \in [header : Headers, sections : Seq(Seq(Events))]
    BY Items, ZenonT(40) DEF Layers, PlanInv
  <2> QED
    BY <2>1
<1>3. ToSet(EventsOf(plan[l])) = UNION {ToSet(sections[k]) : k \in DOMAIN sections}
  <2>1. EventsOf(plan[l]) = Concatenation(sections)
    BY DEF EventsOf
  <2> HIDE DEF sections
  <2> QED
    BY <1>2, <2>1, Concatenated
<1>4. PICK k \in DOMAIN sections : e \in ToSet(sections[k])
  BY <1>1, <1>3
<1> DEFINE events == sections[k]
<1>5. PICK i \in DOMAIN events : e = events[i]
  BY <1>4 DEF ToSet
<1>6. events \in Seq(Events)
  <2> HIDE DEF sections
  <2> QED
    BY <1>2, <1>4, Items, Zenon
<1>7. PICK t : IsTrace(plan[l].header, events, t)
  <2>1. SectionIsAnalysed(l, k)
    BY <1>4 DEF PlanInv
  <2> QED
    BY <2>1 DEF SectionIsAnalysed
<1>8. EventIsValid(plan[l].header, t[i - 1], e)
  <2>1. i \in 1..Len(events)
    <3> HIDE DEF events
    <3> QED
      BY <1>6
  <2> QED
    BY <1>5, <1>7, <2>1 DEF IsTrace
<1>9. IsPoint(e.to)
  BY <1>1, <1>8, Validity
<1> QED
  BY <1>1, <1>9 DEF IsPoint

\* A metadata coordinate is at most half a grid step away.
LEMMA Rounded ==
  ASSUME NEW c \in Int
  PROVE  /\ MetadataCoordinate(c) \in Int
         /\ 2 * (MetadataCoordinate(c) - c) <= Grid
         /\ 2 * (c - MetadataCoordinate(c)) <= Grid
<1> DEFINE a == c + Grid \div 2
<1>0. Grid \in Nat \ {0}
  BY CompilerAssumption
<1>1. a \in Int /\ Grid \div 2 \in Int
  BY <1>0
<1>2. /\ (a \div Grid) * Grid <= a /\ a < (a \div Grid) * Grid + Grid
      /\ (a \div Grid) \in Int
  <2> HIDE DEF a
  <2> QED
    BY <1>0, <1>1
<1>3. 2 * (Grid \div 2) <= Grid /\ Grid <= 2 * (Grid \div 2) + 1
  BY <1>0
<1> QED
  BY <1>0, <1>1, <1>2, <1>3 DEF MetadataCoordinate

\* The metadata bounds of a plan are near every point inside it.
LEMMA BoundsAreNear ==
  ASSUME PlanInv, ~scan.open, NEW p \in Point, InsidePlan(p), NEW b,
         b = MetadataBounds(BoundsOfPlan), NEW j \in 1..2
  PROVE  2 * (b[1][j] - p[j]) <= Grid /\ 2 * (p[j] - b[2][j]) <= Grid
<1> DEFINE P == UNION {PointsOf(plan[l]) : l \in DOMAIN plan}
           X == {q[j] : q \in P}
           least == Min(X)
           most == Max(X)
<1>1. /\ b[1][j] = MetadataCoordinate(least)
      /\ b[2][j] = MetadataCoordinate(most)
  <2>1. BoundsOfPlan = BoundsOf(P)
    BY DEF BoundsOfPlan
  <2>2. BoundsOfPlan[1][j] = least /\ BoundsOfPlan[2][j] = most
    <3>1. CASE j = 1
      BY <2>1, <3>1 DEF BoundsOf
    <3>2. CASE j = 2
      BY <2>1, <3>2 DEF BoundsOf
    <3> QED
      BY <3>1, <3>2
  <2> HIDE DEF least, most
  <2> QED
    BY <2>2 DEF MetadataBounds
<1>2. PICK l1 \in DOMAIN plan : \E q \in PointsOf(plan[l1]) : q[j] <= p[j]
  BY DEF InsidePlan
<1>3. PICK q1 \in PointsOf(plan[l1]) : q1[j] <= p[j]
  BY <1>2
<1>4. PICK l2 \in DOMAIN plan : \E q \in PointsOf(plan[l2]) : p[j] <= q[j]
  BY DEF InsidePlan
<1>5. PICK q2 \in PointsOf(plan[l2]) : p[j] <= q2[j]
  BY <1>4
<1>6. q1[j] \in X /\ q2[j] \in X
  BY <1>2, <1>3, <1>4, <1>5
<1>7. X \in SUBSET (0..MaxAbsolute) /\ MaxAbsolute \in Nat
  <2>1. \A q \in P : q[j] \in 0..MaxAbsolute
    BY PointsAreSmall
  <2> HIDE DEF P
  <2> QED
    BY <2>1, CompilerAssumption
<1> HIDE DEF X
<1>8. least \in X /\ \A x \in X : least <= x
  <2>1. \E x \in X : \A y \in X : x <= y
    BY <1>6, <1>7, LeastExists
  <2> QED
    BY <2>1 DEF Min
<1>9. most \in X /\ \A x \in X : most >= x
  <2>1. \E x \in X : \A y \in X : x >= y
    BY <1>6, <1>7, GreatestExists
  <2> QED
    BY <2>1 DEF Max
<1> HIDE DEF least, most
<1>10. least <= p[j] /\ p[j] <= most /\ least \in Int /\ most \in Int /\ p[j] \in Int
  <2>1. least <= q1[j] /\ q2[j] <= most
    BY <1>6, <1>8, <1>9
  <2>2. least \in Int /\ most \in Int /\ q1[j] \in Int /\ q2[j] \in Int
    <3>1. \A x \in X : x \in Int
      BY <1>7
    <3> QED
      BY <1>6, <1>8, <1>9, <3>1
  <2>3. p[j] \in Int
    BY DEF Point
  <2> QED
    BY <1>3, <1>5, <2>1, <2>2, <2>3
<1>11. /\ b[1][j] \in Int /\ 2 * (b[1][j] - least) <= Grid
       /\ b[2][j] \in Int /\ 2 * (most - b[2][j]) <= Grid
  BY <1>1, <1>10, Rounded
<1>12. Grid \in Nat
  BY CompilerAssumption
<1> QED
  BY <1>10, <1>11, <1>12

\* The head is inside the plan, and the announced bounds are those of the plan.
LEMMA MotionStaysInside ==
  ASSUME CompilerInv
  PROVE  MotionInsideMetadata
<1> SUFFICES ASSUME machine.at # Nowhere, declared = NoBounds, NEW j \in 1..2
             PROVE  /\ 2 * (machine.bounds[1][j] - machine.at[j]) <= Grid
                    /\ 2 * (machine.at[j] - machine.bounds[2][j]) <= Grid
  BY DEF MotionInsideMetadata
<1>1. /\ Machine(machine) /\ PlanInv /\ StageInv /\ MetadataInv /\ MotionInv
  BY DEF CompilerInv
<1>2. stage \in {"lower", "compiled"}
  <2> SUFFICES ASSUME stage \notin {"lower", "compiled"} PROVE FALSE
    OBVIOUS
  <2>1. PICK loads \in BOOLEAN : machine = Controller!Idle(loads)
    BY <1>1 DEF StageInv
  <2> QED
    BY <2>1, IdleMachine
<1>3. machine.bounds = MetadataBounds(BoundsOfPlan)
  BY <1>1, <1>2 DEF MetadataInv, JobBounds
<1>4. ~scan.open /\ InsidePlan(machine.at) /\ machine.at \in Point
  BY <1>1, <1>2 DEF StageInv, MotionInv, Machine
<1> QED
  BY <1>1, <1>3, <1>4, BoundsAreNear

-----------------------------------------------------------------------------
(* The theorems.                                                           *)

\* LocalsAreTrue for all plans and profiles: what _layer_section_program
\* remembers is true of the controller.
THEOREM LocalsAlwaysTrue == Spec => []LocalsAreTrue
<1>1. CompilerInv => LocalsAreTrue
  BY LocalsFollow
<1> QED
  BY <1>1, InvAlways, PTL

\* AcceptedPlansCompile for all plans and profiles: no assertion of the lowering
\* fails and every record it makes can be encoded.
THEOREM AcceptedPlansAlwaysCompile == Spec => []AcceptedPlansCompile
<1>1. CompilerInv => AcceptedPlansCompile
  BY LoweringSucceeds
<1> QED
  BY <1>1, InvAlways, PTL

\* MotionInsideMetadata for all plans and profiles: the announced bounds are off
\* by half a grid step at most.
THEOREM MotionAlwaysInside == Spec => []MotionInsideMetadata
<1>1. CompilerInv => MotionInsideMetadata
  BY MotionStaysInside
<1> QED
  BY <1>1, InvAlways, PTL

\* BeamInsideLimits for all plans, and all profiles that enable a head for the
\* layers without channels: the beam keeps to the layer's limits and above the
\* marking floor.
THEOREM BeamAlwaysInside ==
  ASSUME EnablesAHead
  PROVE  Spec => []BeamInsideLimits
<1>1. Init => CompilerInv /\ BeamInsideLimits
  BY InvInitially
<1>2. CompilerInv /\ BeamInsideLimits /\ [Next]_vars
        => (CompilerInv /\ BeamInsideLimits)'
  BY InvNext
<1> QED
  BY <1>1, <1>2, PTL DEF Spec

-----------------------------------------------------------------------------
(* Orders and their numbers.                                               *)

\* The orders of a section are collected event by event.
LEMMA SectionSequenced ==
  ASSUME NEW h, NEW events, Len(events) \in Nat
  PROVE  \E run : /\ run[0] = <<>>
                  /\ SectionOrders(h, events) = run[Len(events)]
                  /\ \A n \in 0..(Len(events) - 1) :
                       run[n + 1] = IF events[n + 1].kind = "modulate" THEN run[n]
                                    ELSE Append(run[n], Order(h, events, n + 1))
<1> DEFINE empty == <<>>
           Then(s, n) == IF events[n].kind = "modulate" THEN s
                         ELSE Append(s, Order(h, events, n))
           Step(a, n) == IF n = 0 THEN empty ELSE Then(a[n - 1], n)
           IsRun(a, k) == a = [n \in 0..k |-> Step(a, n)]
           L == Len(events)
           T == {k \in Nat : \E a : IsRun(a, k)}
<1> HIDE DEF empty, Then
<1>1. 0 \in T
  <2>1. IsRun([n \in 0..0 |-> empty], 0)
    OBVIOUS
  <2> QED
    BY <2>1
<1>2. ASSUME NEW k \in Nat, k \in T PROVE k + 1 \in T
  <2>1. PICK a : IsRun(a, k)
    BY <1>2
  <2> DEFINE b == [n \in 0..(k + 1) |->
                     IF n <= k THEN a[n] ELSE Then(a[k], k + 1)]
  <2>2. ASSUME NEW n \in 0..(k + 1) PROVE b[n] = Step(b, n)
    <3>1. CASE n = 0
      BY <2>1, <3>1
    <3>2. CASE n # 0 /\ n <= k
      <4>1. n \in 0..k /\ n - 1 \in 0..k /\ n - 1 \in 0..(k + 1)
        BY <3>2
      <4>2. a[n] = Then(a[n - 1], n)
        BY <2>1, <3>2, <4>1
      <4> QED
        BY <3>2, <4>1, <4>2
    <3>3. CASE n = k + 1
      <4>1. /\ k \in 0..(k + 1) /\ b[k] = a[k] /\ n # 0 /\ n - 1 = k
            /\ b[n] = Then(a[k], k + 1)
        BY <3>3
      <4> QED
        BY <3>3, <4>1
    <3> QED
      BY <3>1, <3>2, <3>3
  <2>3. b = [n \in 0..(k + 1) |-> Step(b, n)]
    <3> DEFINE c == [n \in 0..(k + 1) |-> Step(b, n)]
    <3>1. DOMAIN b = 0..(k + 1) /\ DOMAIN c = 0..(k + 1)
      OBVIOUS
    <3>2. \A n \in 0..(k + 1) : b[n] = c[n]
      BY <2>2
    <3> QED
      BY <3>1, <3>2
  <2> HIDE DEF b
  <2>4. IsRun(b, k + 1)
    BY <2>3
  <2> HIDE DEF IsRun
  <2> QED
    BY <2>4
<1>4. L \in T
  <2> HIDE DEF T
  <2> QED
    BY <1>1, <1>2, Inductive
<1> DEFINE run == CHOOSE a : IsRun(a, L)
<1>5. IsRun(run, L)
  BY <1>4
<1>6. SectionOrders(h, events) = run[L]
  BY DEF SectionOrders, empty, Then
<1> HIDE DEF run
<1>7. L \in Nat
  OBVIOUS
<1> HIDE DEF L
<1>8. /\ run[0] = empty
      /\ \A n \in 0..(L - 1) : run[n + 1] = Then(run[n], n + 1)
  <2>1. run = [n \in 0..L |-> Step(run, n)]
    BY <1>5
  <2>2. \A n \in 0..L : run[n] = Step(run, n)
    BY <2>1
  <2> QED
    BY <1>7, <2>2
<1> QED
  BY <1>6, <1>8 DEF empty, Then, L

\* The beginnings of a concatenation.
IsParts(run, ss) ==
  /\ run[0] = <<>> /\ Concatenation(ss) = run[Len(ss)]
  /\ \A n \in 0..(Len(ss) - 1) : run[n + 1] = run[n] \o ss[n + 1]

Parts(ss) == CHOOSE run : IsParts(run, ss)

\* How many items the first n sequences have.
Before(ss, n) == Len(Parts(ss)[n])

\* all is made of the sequences ss, one after the other.
IsPlaced(ss, all) ==
  /\ Before(ss, 0) = 0 /\ Before(ss, Len(ss)) = Len(all)
  /\ \A n \in 0..Len(ss) : Before(ss, n) \in Nat
  /\ \A n \in DOMAIN ss :
       /\ Before(ss, n) = Before(ss, n - 1) + Len(ss[n])
       /\ Before(ss, n) <= Len(all)
       /\ \A i \in 1..Len(ss[n]) : all[Before(ss, n - 1) + i] = ss[n][i]

LEMMA HasParts ==
  ASSUME NEW ss, Len(ss) \in Nat
  PROVE  IsParts(Parts(ss), ss)
<1>1. \E run : /\ run[0] = <<>> /\ Concatenation(ss) = run[Len(ss)]
               /\ \A n \in 0..(Len(ss) - 1) :
                    run[n + 1] = run[n] \o ss[n + 1]
  BY Sequenced
<1>2. \E run : IsParts(run, ss)
  BY <1>1 DEF IsParts
<1> QED
  BY <1>2 DEF Parts

\* Two sequences, one after the other.
LEMMA JoinedParts ==
  ASSUME NEW S, NEW p \in Seq(S), NEW q \in Seq(S), NEW r, r = p \o q
  PROVE  /\ r \in Seq(S) /\ Len(r) = Len(p) + Len(q)
         /\ Len(p) \in Nat /\ Len(q) \in Nat
         /\ \A i \in 1..Len(p) : r[i] = p[i]
         /\ \A i \in 1..Len(q) : r[Len(p) + i] = q[i]
OBVIOUS

\* Where the items of a concatenation are.
LEMMA Placed ==
  ASSUME NEW S, NEW ss \in Seq(Seq(S))
  PROVE  Concatenation(ss) \in Seq(S) /\ IsPlaced(ss, Concatenation(ss))
<1>1. /\ Len(ss) \in Nat /\ DOMAIN ss = 1..Len(ss)
      /\ \A k \in 1..Len(ss) : ss[k] \in Seq(S)
  OBVIOUS
<1>2. IsParts(Parts(ss), ss)
  BY <1>1, HasParts
<1>3. PICK L, run, all : L = Len(ss) /\ run = Parts(ss) /\ all = Concatenation(ss)
  OBVIOUS
<1>4. L \in Nat /\ run[0] = <<>> /\ all = run[L] /\ DOMAIN ss = 1..L
  BY <1>1, <1>2, <1>3 DEF IsParts
<1>15. \A k \in 1..L : ss[k] \in Seq(S)
  BY <1>1, <1>3
<1>16. \A n \in 0..(L - 1) : run[n + 1] = run[n] \o ss[n + 1]
  BY <1>2, <1>3, Zenon DEF IsParts
<1> DEFINE U == {n \in Nat : n <= L => run[n] \in Seq(S)}
<1>5. 0 \in U
  <2>1. <<>> \in Seq(S)
    OBVIOUS
  <2> QED
    BY <1>4, <2>1
<1>6. ASSUME NEW n \in Nat, n \in U PROVE n + 1 \in U
  <2> SUFFICES ASSUME n + 1 <= L PROVE run[n + 1] \in Seq(S)
    OBVIOUS
  <2>1. n \in 0..(L - 1) /\ n + 1 \in 1..L
    BY <1>4
  <2>2. run[n] \in Seq(S) /\ ss[n + 1] \in Seq(S) /\ run[n + 1] = run[n] \o ss[n + 1]
    <3>1. run[n] \in Seq(S) /\ ss[n + 1] \in Seq(S)
      BY <1>4, <1>6, <1>15, <2>1
    <3> QED
      BY <1>16, <2>1, <3>1, Zenon
  <2> QED
    BY <2>2, JoinedParts, Zenon
<1>7. Nat \subseteq U
  <2> HIDE DEF U
  <2> QED
    BY <1>5, <1>6, Inductive
<1>8. \A n \in 0..L : run[n] \in Seq(S)
  BY <1>4, <1>7
<1> HIDE DEF U
\* Each part extends those before it.
<1>9. \A n \in 0..(L - 1) :
        /\ Len(run[n + 1]) = Len(run[n]) + Len(ss[n + 1])
        /\ Len(run[n]) \in Nat /\ Len(ss[n + 1]) \in Nat
        /\ \A i \in 1..Len(run[n]) : run[n + 1][i] = run[n][i]
        /\ \A i \in 1..Len(ss[n + 1]) : run[n + 1][Len(run[n]) + i] = ss[n + 1][i]
  <2> TAKE n \in 0..(L - 1)
  <2>1. n \in 0..L /\ n + 1 \in 0..L /\ n + 1 \in 1..L
    BY <1>4
  <2>2. run[n] \in Seq(S) /\ ss[n + 1] \in Seq(S) /\ run[n + 1] = run[n] \o ss[n + 1]
    BY <1>8, <1>15, <1>16, <2>1, Zenon
  <2>3. PICK p, q, r : p = run[n] /\ q = ss[n + 1] /\ r = run[n + 1]
    OBVIOUS
  <2>4. p \in Seq(S) /\ q \in Seq(S) /\ r = p \o q
    BY <2>2, <2>3, Zenon
  <2>5. /\ Len(r) = Len(p) + Len(q)
        /\ Len(p) \in Nat /\ Len(q) \in Nat
        /\ \A i \in 1..Len(p) : r[i] = p[i]
        /\ \A i \in 1..Len(q) : r[Len(p) + i] = q[i]
    BY <2>4, JoinedParts
  <2> QED
    BY <2>3, <2>5, Zenon
<1>10. \A n \in 0..L : Len(run[n]) \in Nat
  BY <1>8
<1> DEFINE Extends(n, d) == /\ Len(run[n]) <= Len(run[n + d])
                            /\ \A i \in 1..Len(run[n]) : run[n + d][i] = run[n][i]
<1>11. ASSUME NEW n \in 0..L PROVE \A d \in Nat : n + d <= L => Extends(n, d)
  <2> DEFINE V == {d \in Nat : n + d <= L => Extends(n, d)}
  <2>1. 0 \in V
    BY <1>10
  <2>2. ASSUME NEW d \in Nat, d \in V PROVE d + 1 \in V
    <3> SUFFICES ASSUME n + (d + 1) <= L PROVE Extends(n, d + 1)
      OBVIOUS
    <3>1. PICK m : m = n + d /\ m \in 0..(L - 1) /\ m + 1 = n + (d + 1)
      BY <1>4
    <3>2. Extends(n, d)
      BY <1>4, <2>2, <3>1
    <3>3. /\ Len(run[n]) <= Len(run[m])
          /\ \A i \in 1..Len(run[n]) : run[m][i] = run[n][i]
      BY <3>1, <3>2
    <3>4. /\ Len(run[m + 1]) = Len(run[m]) + Len(ss[m + 1])
          /\ Len(run[m]) \in Nat /\ Len(ss[m + 1]) \in Nat
          /\ \A i \in 1..Len(run[m]) : run[m + 1][i] = run[m][i]
      BY <1>9, <3>1
    <3>5. Len(run[n]) \in Nat
      BY <1>10
    <3>6. /\ Len(run[n]) <= Len(run[m + 1])
          /\ \A i \in 1..Len(run[n]) : i \in 1..Len(run[m])
      <4>1. PICK x, y, z, w : /\ x = Len(run[n]) /\ y = Len(run[m])
                              /\ z = Len(run[m + 1]) /\ w = Len(ss[m + 1])
        OBVIOUS
      <4>2. x \in Nat /\ y \in Nat /\ w \in Nat /\ z = y + w /\ x <= y
        BY <3>3, <3>4, <3>5, <4>1
      <4>3. x <= z /\ \A i \in 1..x : i \in 1..y
        BY <4>2
      <4> QED
        BY <4>1, <4>3
    <3>7. \A i \in 1..Len(run[n]) : run[m + 1][i] = run[n][i]
      BY <3>3, <3>4, <3>6
    <3> QED
      BY <3>1, <3>6, <3>7
  <2> HIDE DEF Extends
  <2>3. Nat \subseteq V
    <3> HIDE DEF V
    <3> QED
      BY <2>1, <2>2, Inductive
  <2> QED
    BY <2>3
<1>12. ASSUME NEW n \in 1..L
       PROVE  /\ Len(run[n]) = Len(run[n - 1]) + Len(ss[n])
              /\ Len(run[n]) <= Len(all)
              /\ \A i \in 1..Len(ss[n]) : all[Len(run[n - 1]) + i] = ss[n][i]
  <2>1. PICK m : m = n - 1 /\ m \in 0..(L - 1) /\ m + 1 = n
    BY <1>4
  <2>2. /\ Len(run[n]) = Len(run[m]) + Len(ss[n])
        /\ Len(run[m]) \in Nat /\ Len(ss[n]) \in Nat
        /\ \A i \in 1..Len(ss[n]) : run[n][Len(run[m]) + i] = ss[n][i]
    <3>1. /\ Len(run[m + 1]) = Len(run[m]) + Len(ss[m + 1])
          /\ Len(run[m]) \in Nat /\ Len(ss[m + 1]) \in Nat
          /\ \A i \in 1..Len(ss[m + 1]) :
               run[m + 1][Len(run[m]) + i] = ss[m + 1][i]
      BY <1>9, <2>1
    <3> QED
      BY <2>1, <3>1, Zenon
  <2>3. PICK d : d \in Nat /\ n + d = L /\ n \in 0..L
    <3>1. L - n \in Nat /\ n + (L - n) = L /\ n \in 0..L
      BY <1>4
    <3> QED
      BY <3>1
  <2>4. Extends(n, d)
    <3>1. n + d <= L
      BY <1>4, <2>3
    <3> HIDE DEF Extends
    <3> QED
      BY <1>11, <2>3, <3>1
  <2>5. Len(run[n]) <= Len(all) /\ \A i \in 1..Len(run[n]) : all[i] = run[n][i]
    BY <1>4, <2>3, <2>4
  <2>6. \A i \in 1..Len(ss[n]) : Len(run[m]) + i \in 1..Len(run[n])
    <3>1. PICK x, y, w : x = Len(run[n]) /\ y = Len(run[m]) /\ w = Len(ss[n])
      OBVIOUS
    <3>2. x = y + w /\ y \in Nat /\ w \in Nat
      BY <2>2, <3>1
    <3>3. \A i \in 1..w : y + i \in 1..x
      BY <3>2
    <3> QED
      BY <3>1, <3>3
  <2> QED
    BY <2>1, <2>2, <2>5, <2>6
<1>13. Len(run[0]) = 0 /\ all \in Seq(S)
  BY <1>4, <1>8
<1>14. \A n : Before(ss, n) = Len(run[n])
  BY <1>3 DEF Before
<1> HIDE DEF Extends
<1>17. \A n \in DOMAIN ss :
         /\ Before(ss, n) = Before(ss, n - 1) + Len(ss[n])
         /\ Before(ss, n) <= Len(all)
         /\ \A i \in 1..Len(ss[n]) : all[Before(ss, n - 1) + i] = ss[n][i]
  BY <1>4, <1>12, <1>14, ZenonT(60)
<1>18. /\ Before(ss, 0) = 0 /\ Before(ss, L) = Len(all) /\ all \in Seq(S)
       /\ \A n \in 0..L : Before(ss, n) \in Nat
  BY <1>4, <1>10, <1>13, <1>14
<1>19. IsPlaced(ss, all)
  BY <1>3, <1>17, <1>18 DEF IsPlaced
<1> QED
  BY <1>3, <1>18, <1>19

\* The orders of each event of a section, of each section of a layer and of each
\* layer of the plan.
SectionParts(h, events) ==
  [i \in DOMAIN events |->
     IF events[i].kind = "modulate" THEN <<>> ELSE <<Order(h, events, i)>>]

LayerParts(layer) ==
  [s \in DOMAIN layer.sections |->
     SectionOrders(layer.header, layer.sections[s])]

PlanParts == [l \in DOMAIN plan |-> LayerOrders(plan[l])]

OrdersIn(h, events) == {Order(h, events, i) : i \in DOMAIN events}

LayerOrdersIn(layer) ==
  UNION {OrdersIn(layer.header, layer.sections[s]) :
           s \in DOMAIN layer.sections}

PlanOrdersIn == UNION {LayerOrdersIn(plan[l]) : l \in DOMAIN plan}

\* A sequence of as many sets as another one.
LEMMA AsLong ==
  ASSUME NEW S, NEW s \in Seq(S), NEW T, NEW p, DOMAIN p = DOMAIN s,
         p = [i \in DOMAIN s |-> p[i]], \A i \in DOMAIN s : p[i] \in T
  PROVE  p \in Seq(T) /\ Len(p) = Len(s) /\ DOMAIN s = 1..Len(s) /\ Len(s) \in Nat
<1>1. DOMAIN s = 1..Len(s) /\ Len(s) \in Nat
  OBVIOUS
<1>2. PICK n \in Nat : n = Len(s)
  BY <1>1
<1>3. p = [i \in 1..n |-> p[i]] /\ \A i \in 1..n : p[i] \in T
  BY <1>1, <1>2
<1>4. [i \in 1..n |-> p[i]] \in Seq(T) /\ Len([i \in 1..n |-> p[i]]) = n
  BY <1>3
<1> QED
  BY <1>1, <1>2, <1>3, <1>4

\* SectionOrders puts the orders of the events together.
LEMMA SectionCollected ==
  ASSUME NEW h, NEW S, NEW events \in Seq(S)
  PROVE  /\ SectionParts(h, events) \in Seq(Seq(OrdersIn(h, events)))
         /\ Len(SectionParts(h, events)) = Len(events)
         /\ SectionOrders(h, events) = Concatenation(SectionParts(h, events))
<1>1. PICK L, ss : L = Len(events) /\ ss = SectionParts(h, events)
  OBVIOUS
<1>2. L \in Nat /\ DOMAIN events = 1..L
  BY <1>1
<1>3. /\ DOMAIN ss = DOMAIN events /\ ss = [i \in DOMAIN events |-> ss[i]]
      /\ \A i \in DOMAIN events :
           ss[i] = IF events[i].kind = "modulate" THEN <<>>
                   ELSE <<Order(h, events, i)>>
  BY <1>1 DEF SectionParts
<1>4. \A i \in DOMAIN events : ss[i] \in Seq(OrdersIn(h, events))
  <2> TAKE i \in DOMAIN events
  <2>1. PICK x : x = Order(h, events, i)
    OBVIOUS
  <2>2. x \in OrdersIn(h, events)
    BY <2>1 DEF OrdersIn
  <2>3. <<>> \in Seq(OrdersIn(h, events)) /\ <<x>> \in Seq(OrdersIn(h, events))
    BY <2>2
  <2> QED
    BY <1>3, <2>1, <2>3
<1>5. ss \in Seq(Seq(OrdersIn(h, events))) /\ Len(ss) = L
  BY <1>1, <1>3, <1>4, AsLong
<1>6. PICK run : /\ run[0] = <<>> /\ SectionOrders(h, events) = run[L]
                 /\ \A n \in 0..(L - 1) :
                      run[n + 1] = IF events[n + 1].kind = "modulate" THEN run[n]
                                   ELSE Append(run[n], Order(h, events, n + 1))
  <2>1. Len(events) \in Nat
    BY <1>1, <1>2
  <2>2. \E run : /\ run[0] = <<>>
                 /\ SectionOrders(h, events) = run[Len(events)]
                 /\ \A n \in 0..(Len(events) - 1) :
                      run[n + 1] = IF events[n + 1].kind = "modulate" THEN run[n]
                                   ELSE Append(run[n], Order(h, events, n + 1))
    BY <2>1, SectionSequenced
  <2> QED
    BY <1>1, <2>2
<1>7. PICK all : /\ all[0] = <<>> /\ Concatenation(ss) = all[L]
                 /\ \A n \in 0..(L - 1) : all[n + 1] = all[n] \o ss[n + 1]
  BY <1>2, <1>5, Sequenced
<1> DEFINE U == {n \in Nat : n <= L => all[n] \in Seq(OrdersIn(h, events))
                                         /\ run[n] = all[n]}
<1>8. 0 \in U
  <2>1. <<>> \in Seq(OrdersIn(h, events))
    OBVIOUS
  <2>2. all[0] = <<>> /\ run[0] = <<>>
    BY <1>6, <1>7, Zenon
  <2> QED
    BY <2>1, <2>2
<1>9. ASSUME NEW n \in Nat, n \in U PROVE n + 1 \in U
  <2> SUFFICES ASSUME n + 1 <= L
               PROVE  /\ all[n + 1] \in Seq(OrdersIn(h, events))
                      /\ run[n + 1] = all[n + 1]
    OBVIOUS
  <2>1. n \in 0..(L - 1) /\ n + 1 \in DOMAIN events
    BY <1>2
  <2>2. all[n] \in Seq(OrdersIn(h, events)) /\ run[n] = all[n]
    BY <1>2, <1>9
  <2>3. PICK p, q, r, x, T : /\ p = all[n] /\ q = ss[n + 1] /\ r = all[n + 1]
                             /\ x = Order(h, events, n + 1)
                             /\ T = OrdersIn(h, events)
    OBVIOUS
  <2>4. r = p \o q /\ p \in Seq(T) /\ q \in Seq(T) /\ x \in T
    <3>1. x \in T
      BY <2>1, <2>3 DEF OrdersIn
    <3>2. r = p \o q
      BY <1>7, <2>1, <2>3, Zenon
    <3> QED
      BY <1>4, <2>1, <2>2, <2>3, <3>1, <3>2, Zenon
  <2>5. r \in Seq(T)
    BY <2>4
  <2>6. CASE events[n + 1].kind = "modulate"
    <3>1. q = <<>> /\ run[n + 1] = p
      BY <1>3, <1>6, <2>1, <2>2, <2>3, <2>6, Zenon
    <3>2. r = p
      BY <2>4, <3>1
    <3> QED
      BY <2>3, <2>5, <3>1, <3>2
  <2>7. CASE events[n + 1].kind # "modulate"
    <3>1. q = <<x>> /\ run[n + 1] = Append(p, x)
      BY <1>3, <1>6, <2>1, <2>2, <2>3, <2>7, Zenon
    <3>2. Append(p, x) = p \o <<x>>
      BY <2>4
    <3> QED
      BY <2>3, <2>4, <2>5, <3>1, <3>2
  <2> QED
    BY <2>6, <2>7
<1>10. Nat \subseteq U
  <2> HIDE DEF U
  <2> QED
    BY <1>8, <1>9, Inductive
<1>11. run[L] = all[L]
  BY <1>2, <1>10
<1> QED
  BY <1>1, <1>5, <1>6, <1>7, <1>11

\* Where the orders of a section are.
LEMMA SectionPlaced ==
  ASSUME NEW h, NEW S, NEW events \in Seq(S), NEW ss,
         ss = SectionParts(h, events)
  PROVE  /\ SectionOrders(h, events) \in Seq(OrdersIn(h, events))
         /\ Before(ss, 0) = 0
         /\ Before(ss, Len(events)) = Len(SectionOrders(h, events))
         /\ \A n \in 0..Len(events) : Before(ss, n) \in Nat
         /\ \A i \in DOMAIN events :
              /\ events[i].kind = "modulate" => Before(ss, i) = Before(ss, i - 1)
              /\ events[i].kind # "modulate" =>
                   /\ Before(ss, i) = Before(ss, i - 1) + 1
                   /\ Before(ss, i) <= Len(SectionOrders(h, events))
                   /\ SectionOrders(h, events)[Before(ss, i - 1) + 1]
                        = Order(h, events, i)
<1>1. PICK T : T = OrdersIn(h, events)
  OBVIOUS
<1>2. /\ ss \in Seq(Seq(T)) /\ Len(ss) = Len(events)
      /\ SectionOrders(h, events) = Concatenation(ss)
  BY <1>1, SectionCollected
<1>3. /\ DOMAIN ss = DOMAIN events
      /\ \A i \in DOMAIN events :
           ss[i] = IF events[i].kind = "modulate" THEN <<>>
                   ELSE <<Order(h, events, i)>>
  BY DEF SectionParts
<1>4. /\ Before(ss, 0) = 0 /\ Before(ss, Len(ss)) = Len(Concatenation(ss))
      /\ Concatenation(ss) \in Seq(T)
      /\ \A n \in 0..Len(ss) : Before(ss, n) \in Nat
      /\ \A n \in DOMAIN ss :
           /\ Before(ss, n) = Before(ss, n - 1) + Len(ss[n])
           /\ Before(ss, n) <= Len(Concatenation(ss))
           /\ \A i \in 1..Len(ss[n]) :
                Concatenation(ss)[Before(ss, n - 1) + i] = ss[n][i]
  BY <1>2, Placed DEF IsPlaced
<1>5. ASSUME NEW i \in DOMAIN events
      PROVE  /\ events[i].kind = "modulate" => Before(ss, i) = Before(ss, i - 1)
             /\ events[i].kind # "modulate" =>
                  /\ Before(ss, i) = Before(ss, i - 1) + 1
                  /\ Before(ss, i) <= Len(SectionOrders(h, events))
                  /\ SectionOrders(h, events)[Before(ss, i - 1) + 1]
                       = Order(h, events, i)
  <2>1. PICK a, b, all, x : /\ a = Before(ss, i - 1) /\ b = Before(ss, i)
                            /\ all = Concatenation(ss) /\ x = Order(h, events, i)
    OBVIOUS
  <2>2. a \in Nat
    <3>1. i - 1 \in 0..Len(ss)
      BY <1>2
    <3> QED
      BY <1>4, <2>1, <3>1
  <2>3. /\ b = a + Len(ss[i]) /\ b <= Len(all)
        /\ \A j \in 1..Len(ss[i]) : all[a + j] = ss[i][j]
    BY <1>3, <1>4, <2>1
  <2>4. CASE events[i].kind = "modulate"
    <3>1. Len(ss[i]) = 0
      BY <1>3, <2>4
    <3> QED
      BY <2>1, <2>2, <2>3, <2>4, <3>1
  <2>5. CASE events[i].kind # "modulate"
    <3>1. Len(ss[i]) = 1 /\ ss[i][1] = x /\ 1 \in 1..1
      BY <1>3, <2>1, <2>5
    <3> QED
      BY <1>2, <2>1, <2>2, <2>3, <2>5, <3>1
  <2> QED
    BY <2>4, <2>5
<1> QED
  BY <1>1, <1>2, <1>4, <1>5

\* Nothing is ordered before the first event.
LEMMA NoneBefore ==
  ASSUME NEW h, NEW S, NEW events \in Seq(S)
  PROVE  Before(SectionParts(h, events), 0) = 0
<1>1. PICK ss : ss = SectionParts(h, events)
  OBVIOUS
<1>2. Before(ss, 0) = 0
  BY <1>1, SectionPlaced, ZenonT(60)
<1> QED
  BY <1>1, <1>2

\* Where the orders of a layer are.
LEMMA LayerPlaced ==
  ASSUME NEW layer, NEW S, layer.sections \in Seq(Seq(S)), NEW ss,
         ss = LayerParts(layer)
  PROVE  /\ LayerOrders(layer) \in Seq(LayerOrdersIn(layer))
         /\ Len(ss) = Len(layer.sections) /\ IsPlaced(ss, LayerOrders(layer))
<1>1. PICK T, sections : T = LayerOrdersIn(layer) /\ sections = layer.sections
  OBVIOUS
<1>2. sections \in Seq(Seq(S)) /\ DOMAIN sections = 1..Len(sections)
  BY <1>1
<1>3. /\ DOMAIN ss = DOMAIN sections /\ ss = [s \in DOMAIN sections |-> ss[s]]
      /\ \A s \in DOMAIN sections :
           ss[s] = SectionOrders(layer.header, sections[s])
  BY <1>1 DEF LayerParts
<1>4. ASSUME NEW s \in DOMAIN sections
      PROVE  ss[s] \in Seq(T)
  <2>1. PICK O : O = OrdersIn(layer.header, sections[s])
    OBVIOUS
  <2>2. sections[s] \in Seq(S)
    BY <1>2
  <2>3. ss[s] \in Seq(O)
    BY <1>3, <2>1, <2>2, SectionPlaced
  <2>4. O \subseteq T
    BY <1>1, <2>1 DEF LayerOrdersIn
  <2> QED
    BY <2>3, <2>4
<1>5. ss \in Seq(Seq(T)) /\ Len(ss) = Len(sections)
  <2>1. \A s \in DOMAIN sections : ss[s] \in Seq(T)
    BY <1>4
  <2> QED
    BY <1>2, <1>3, <2>1, AsLong
<1>6. LayerOrders(layer) = Concatenation(ss)
  BY DEF LayerOrders, LayerParts
<1> QED
  BY <1>1, <1>5, <1>6, Placed

\* Where the orders of the plan are.
LEMMA PlanPlaced ==
  ASSUME plan \in Layers
  PROVE  /\ Orders \in Seq(PlanOrdersIn)
         /\ Len(PlanParts) = Len(plan) /\ IsPlaced(PlanParts, Orders)
<1>1. PICK T, ss : T = PlanOrdersIn /\ ss = PlanParts
  OBVIOUS
<1>2. \A l \in DOMAIN plan : plan[l].sections \in Seq(Seq(Events))
  <2> TAKE l \in DOMAIN plan
  <2>1. plan[l] \in [header : Headers, sections : Seq(Seq(Events))]
    BY Items, ZenonT(40) DEF Layers
  <2> QED
    BY <2>1, Zenon
<1>3. /\ DOMAIN ss = DOMAIN plan /\ ss = [l \in DOMAIN plan |-> ss[l]]
      /\ \A l \in DOMAIN plan : ss[l] = LayerOrders(plan[l])
  BY <1>1 DEF PlanParts
<1>4. ASSUME NEW l \in DOMAIN plan
      PROVE  ss[l] \in Seq(T)
  <2>1. PICK O : O = LayerOrdersIn(plan[l])
    OBVIOUS
  <2>2. ss[l] \in Seq(O)
    BY <1>2, <1>3, <2>1, LayerPlaced
  <2>3. O \subseteq T
    BY <1>1, <2>1 DEF PlanOrdersIn
  <2> QED
    BY <2>2, <2>3
<1>5. ss \in Seq(Seq(T)) /\ Len(ss) = Len(plan)
  <2>1. \A l \in DOMAIN plan : ss[l] \in Seq(T)
    BY <1>4
  <2>2. plan \in Seq([header : Headers, sections : Seq(Seq(Events))])
    BY Zenon DEF Layers
  <2>3. PICK L : L = [header : Headers, sections : Seq(Seq(Events))]
    OBVIOUS
  <2>4. plan \in Seq(L)
    BY <2>2, <2>3, Zenon
  <2> QED
    BY <1>3, <2>1, <2>4, AsLong
<1>6. Orders = Concatenation(ss)
  BY <1>1 DEF Orders, PlanParts
<1> QED
  BY <1>1, <1>5, <1>6, Placed

\* How many orders come before the i-th event of a section, and after it.
Due(l, s, i) ==
  Before(PlanParts, l - 1) + Before(LayerParts(plan[l]), s - 1)
    + Before(SectionParts(plan[l].header, plan[l].sections[s]), i)

\* The orders that are due follow the events.
LEMMA DueFollows ==
  ASSUME PlanInv, NEW l \in DOMAIN plan,
         NEW s \in DOMAIN plan[l].sections,
         NEW events, events = plan[l].sections[s], NEW h, h = plan[l].header
  PROVE  /\ \A i \in 0..Len(events) : Due(l, s, i) \in Nat
         /\ \A i \in DOMAIN events :
              /\ events[i].kind = "modulate" => Due(l, s, i) = Due(l, s, i - 1)
              /\ events[i].kind # "modulate" =>
                   /\ Due(l, s, i) = Due(l, s, i - 1) + 1
                   /\ Due(l, s, i) <= Len(Orders)
                   /\ Orders[Due(l, s, i)] = Order(h, events, i)
         /\ s # Len(plan[l].sections) => Due(l, s, Len(events)) = Due(l, s + 1, 0)
         /\ s = Len(plan[l].sections) =>
              /\ l # Len(plan) => Due(l, s, Len(events)) = Due(l + 1, 1, 0)
              /\ l = Len(plan) => Due(l, s, Len(events)) = Len(Orders)
<1>0. \A k \in DOMAIN plan :
        plan[k].sections \in Seq(Seq(Events)) /\ plan[k].sections # <<>>
  <2> TAKE k \in DOMAIN plan
  <2>1. plan[k] \in [header : Headers, sections : Seq(Seq(Events))]
    BY Items, ZenonT(40) DEF Layers, PlanInv
  <2> QED
    BY <2>1, Zenon DEF PlanInv
<1>1. plan[l].sections \in Seq(Seq(Events))
  BY <1>0
<1>2. PICK pp, lp, sp, layer, S, L :
        /\ pp = PlanParts /\ layer = plan[l] /\ lp = LayerParts(layer)
        /\ sp = SectionParts(h, events) /\ S = Len(layer.sections)
        /\ L = Len(plan)
  OBVIOUS
<1>3. /\ DOMAIN layer.sections = 1..S /\ S \in Nat /\ events \in Seq(Events)
      /\ DOMAIN events = 1..Len(events) /\ Len(events) \in Nat
  BY <1>1, <1>2
<1>4. DOMAIN plan = 1..L /\ L \in Nat
  <2>1. PICK T : T = [header : Headers, sections : Seq(Seq(Events))]
    OBVIOUS
  <2>2. plan \in Seq(T)
    BY <2>1, Zenon DEF Layers, PlanInv
  <2> QED
    BY <1>2, <2>2
<1>5. PICK so, lo, o : /\ so = SectionOrders(h, events)
                       /\ lo = LayerOrders(layer) /\ o = Orders
  OBVIOUS
<1>6. /\ Before(sp, 0) = 0 /\ Before(sp, Len(events)) = Len(so)
      /\ \A n \in 0..Len(events) : Before(sp, n) \in Nat
      /\ \A i \in DOMAIN events :
           /\ events[i].kind = "modulate" => Before(sp, i) = Before(sp, i - 1)
           /\ events[i].kind # "modulate" =>
                /\ Before(sp, i) = Before(sp, i - 1) + 1
                /\ Before(sp, i) <= Len(so)
                /\ so[Before(sp, i - 1) + 1] = Order(h, events, i)
  BY <1>2, <1>3, <1>5, SectionPlaced, SMTT(60)
<1>7. /\ Before(lp, 0) = 0 /\ Before(lp, S) = Len(lo)
      /\ \A n \in 0..S : Before(lp, n) \in Nat
      /\ Before(lp, s) = Before(lp, s - 1) + Len(so)
      /\ Before(lp, s) <= Len(lo)
      /\ \A i \in 1..Len(so) : lo[Before(lp, s - 1) + i] = so[i]
  <2>1. IsPlaced(lp, lo) /\ Len(lp) = S
    BY <1>1, <1>2, <1>5, LayerPlaced
  <2>2. lp[s] = so
    BY <1>2, <1>5 DEF LayerParts
  <2>3. s \in DOMAIN lp
    BY <1>2 DEF LayerParts
  <2> QED
    BY <2>1, <2>2, <2>3 DEF IsPlaced
<1>8. /\ Before(pp, 0) = 0 /\ Before(pp, L) = Len(o)
      /\ \A n \in 0..L : Before(pp, n) \in Nat
      /\ Before(pp, l) = Before(pp, l - 1) + Len(lo)
      /\ Before(pp, l) <= Len(o)
      /\ \A i \in 1..Len(lo) : o[Before(pp, l - 1) + i] = lo[i]
  <2>1. IsPlaced(pp, o) /\ Len(pp) = L
    BY <1>2, <1>5, PlanPlaced DEF PlanInv
  <2>2. l \in DOMAIN pp /\ pp[l] = lo
    BY <1>2, <1>5 DEF PlanParts
  <2> QED
    BY <2>1, <2>2 DEF IsPlaced
<1>9. PICK x, y : x = Before(pp, l - 1) /\ y = Before(lp, s - 1)
  OBVIOUS
<1>10. x \in Nat /\ y \in Nat /\ Len(so) \in Nat /\ Len(lo) \in Nat /\ Len(o) \in Nat
  <2>1. l - 1 \in 0..L /\ s - 1 \in 0..S /\ S \in 0..S /\ L \in 0..L
        /\ Len(events) \in 0..Len(events)
    BY <1>2, <1>3, <1>4
  <2> QED
    BY <1>6, <1>7, <1>8, <1>9, <2>1
<1>11. \A i : Due(l, s, i) = x + y + Before(sp, i)
  BY <1>2, <1>9 DEF Due
<1>12. \A i \in 0..Len(events) : Due(l, s, i) \in Nat
  BY <1>6, <1>10, <1>11
<1>13. ASSUME NEW i \in DOMAIN events
       PROVE  /\ events[i].kind = "modulate" => Due(l, s, i) = Due(l, s, i - 1)
              /\ events[i].kind # "modulate" =>
                   /\ Due(l, s, i) = Due(l, s, i - 1) + 1
                   /\ Due(l, s, i) <= Len(o)
                   /\ o[Due(l, s, i)] = Order(h, events, i)
  <2>1. CASE events[i].kind = "modulate"
    BY <1>6, <1>11, <2>1
  <2>2. CASE events[i].kind # "modulate"
    <3>1. PICK z : z = Before(sp, i - 1)
      OBVIOUS
    <3>2. i - 1 \in 0..Len(events)
      BY <1>3
    <3>3. /\ z \in Nat /\ Before(sp, i) = z + 1 /\ z + 1 <= Len(so)
          /\ so[z + 1] = Order(h, events, i)
      BY <1>6, <2>2, <3>1, <3>2
    <3>4. z + 1 \in 1..Len(so) /\ y + (z + 1) \in 1..Len(lo)
      BY <1>7, <1>9, <1>10, <3>3
    <3>5. lo[y + (z + 1)] = so[z + 1]
      BY <1>7, <1>9, <3>4
    <3>6. o[x + (y + (z + 1))] = lo[y + (z + 1)]
      BY <1>8, <1>9, <3>4
    <3>7. x + (y + (z + 1)) <= Len(o)
      BY <1>8, <1>9, <1>10, <3>4
    <3>8. Due(l, s, i) = x + (y + (z + 1)) /\ Due(l, s, i - 1) = x + y + z
      BY <1>10, <1>11, <3>1, <3>3
    <3> QED
      BY <1>10, <2>2, <3>3, <3>5, <3>6, <3>7, <3>8, SMTT(60)
  <2> QED
    BY <2>1, <2>2
<1>14. Due(l, s, Len(events)) = x + Before(lp, s)
  BY <1>6, <1>7, <1>9, <1>10, <1>11, SMTT(60)
<1>15. ASSUME s # S PROVE Due(l, s, Len(events)) = Due(l, s + 1, 0)
  <2>1. PICK t : t = s + 1 /\ t \in DOMAIN layer.sections /\ t - 1 = s
    BY <1>2, <1>3, <1>15
  <2>2. PICK ev : ev = layer.sections[t] /\ ev \in Seq(Events)
    BY <1>1, <1>2, <2>1
  <2>3. Before(SectionParts(h, ev), 0) = 0
    BY <2>2, NoneBefore, Zenon
  <2>4. Before(lp, s) \in Nat
    BY <1>2, <1>3, <1>7
  <2>5. Due(l, t, 0) = x + Before(lp, s) + 0
    BY <1>2, <1>9, <2>1, <2>2, <2>3 DEF Due
  <2> QED
    BY <1>10, <1>14, <2>1, <2>4, <2>5
<1>16. ASSUME s = S, l # L
       PROVE  Due(l, s, Len(events)) = Due(l + 1, 1, 0)
  <2>1. PICK t : t = l + 1 /\ t \in DOMAIN plan /\ t - 1 = l
    BY <1>4, <1>16
  <2>2. /\ plan[t].sections \in Seq(Seq(Events)) /\ plan[t].sections # <<>>
        /\ 1 \in DOMAIN plan[t].sections
    <3>1. \A ss \in Seq(Seq(Events)) : ss # <<>> => 1 \in DOMAIN ss
      OBVIOUS
    <3> QED
      BY <1>0, <2>1, <3>1
  <2>3. PICK g, ev : /\ g = plan[t].header /\ ev = plan[t].sections[1]
                     /\ ev \in Seq(Events)
    <3>1. \A ss \in Seq(Seq(Events)) : \A i \in DOMAIN ss : ss[i] \in Seq(Events)
      OBVIOUS
    <3> QED
      BY <2>2, <3>1
  <2>4. Before(SectionParts(g, ev), 0) = 0
    BY <2>3, NoneBefore, Zenon
  <2>5. Before(LayerParts(plan[t]), 0) = 0
    BY <2>2, LayerPlaced DEF IsPlaced
  <2>6. Due(t, 1, 0) = Before(pp, l) + 0 + 0
    BY <1>2, <2>1, <2>3, <2>4, <2>5 DEF Due
  <2>7. Before(pp, l) \in Nat
    BY <1>2, <1>4, <1>8
  <2> QED
    BY <1>7, <1>8, <1>9, <1>10, <1>14, <1>16, <2>1, <2>6, <2>7, SMTT(60)
<1>17. ASSUME s = S, l = L
       PROVE  Due(l, s, Len(events)) = Len(o)
  BY <1>7, <1>8, <1>9, <1>14, <1>17
<1> QED
  BY <1>2, <1>5, <1>12, <1>13, <1>15, <1>16, <1>17

-----------------------------------------------------------------------------
(* What the plan says of an event is what the analysis remembers after it. *)

\* The last number up to the next one that is in a set.
LEMMA Latest ==
  ASSUME NEW E, NEW i \in Nat, NEW n, n = i + 1,
         NEW A, A = {j \in 1..i : j \in E}, NEW B, B = {j \in 1..n : j \in E}
  PROVE  IF n \in E THEN B # {} /\ Max(B) = n ELSE B = A
<1>1. CASE n \in E
  <2>1. n \in B /\ \A y \in B : y \in Int /\ n >= y
    BY <1>1
  <2>2. \A x \in B : (\A y \in B : x >= y) => x = n
    BY <2>1
  <2>3. Max(B) = n
    BY <2>1, <2>2 DEF Max
  <2> QED
    BY <1>1, <2>1, <2>3
<1>2. CASE n \notin E
  BY <1>2
<1> QED
  BY <1>1, <1>2

\* The events of a section that decide where the head is, its modulation and its
\* powers.
Motions(events, i) == {j \in 1..i : IsMotion(events[j])}
Modulations(events, i) == {j \in 1..i : events[j].kind = "modulate"}
Marks(events, i) == {j \in 1..i : events[j].kind \in {"mark", "markWith"}}

\* s is what these events leave behind.
IsPlanned(events, i, s) ==
  /\ s.position = IF Motions(events, i) = {} THEN Nowhere
                  ELSE events[Max(Motions(events, i))].to
  /\ s.modulation = IF Modulations(events, i) = {} THEN NoModulation
                    ELSE events[Max(Modulations(events, i))].value
  /\ s.active = IF /\ Marks(events, i) # {}
                   /\ events[Max(Marks(events, i))].kind = "markWith"
                  THEN events[Max(Marks(events, i))].channels
                ELSE NoChannels

LEMMA NextPlanned ==
  ASSUME NEW h, NEW events, NEW i \in Nat, NEW n, n = i + 1,
         events[n] \in Events,
         NEW s, ScanIsSound(h, s), EventIsValid(h, s, events[n]),
         IsPlanned(events, i, s)
  PROVE  IsPlanned(events, n, Scanned(h, s, events[n]))
<1>1. PICK e, r : e = events[n] /\ r = Scanned(h, s, e)
  OBVIOUS
<1>2. e \in Events /\ s \in Scan
  BY <1>1 DEF ScanIsSound
<1>3. IsMark(e) => s.position \in Point
  BY <1>1, <1>2, Validity DEF IsMark, IsMotion, Scan
<1>4. /\ r.active = ActiveAfter(s, e)
      /\ IsMotion(e) => r.position = e.to
      /\ ~IsMotion(e) => r.position = s.position
      /\ e.kind = "modulate" => r.modulation = e.value
      /\ e.kind # "modulate" => r.modulation = s.modulation
  BY <1>1, <1>2, <1>3, Scans
<1>5. r.position = IF Motions(events, n) = {} THEN Nowhere
                   ELSE events[Max(Motions(events, n))].to
  <2>1. PICK E : E = {j \in 1..n : IsMotion(events[j])}
    OBVIOUS
  <2>2. PICK A, B : A = Motions(events, i) /\ B = Motions(events, n)
    OBVIOUS
  <2>3. A = {j \in 1..i : j \in E} /\ B = {j \in 1..n : j \in E}
    BY <2>1, <2>2 DEF Motions
  <2>4. IF n \in E THEN B # {} /\ Max(B) = n ELSE B = A
    BY <2>3, Latest
  <2>5. n \in E <=> IsMotion(e)
    BY <1>1, <2>1
  <2>6. s.position = IF A = {} THEN Nowhere ELSE events[Max(A)].to
    BY <2>2 DEF IsPlanned
  <2>7. r.position = IF B = {} THEN Nowhere ELSE events[Max(B)].to
    BY <1>1, <1>4, <2>4, <2>5, <2>6
  <2> QED
    BY <2>2, <2>7
<1>6. r.modulation = IF Modulations(events, n) = {} THEN NoModulation
                     ELSE events[Max(Modulations(events, n))].value
  <2>1. PICK E : E = {j \in 1..n : events[j].kind = "modulate"}
    OBVIOUS
  <2>2. PICK A, B : A = Modulations(events, i) /\ B = Modulations(events, n)
    OBVIOUS
  <2>3. A = {j \in 1..i : j \in E} /\ B = {j \in 1..n : j \in E}
    BY <2>1, <2>2 DEF Modulations
  <2>4. IF n \in E THEN B # {} /\ Max(B) = n ELSE B = A
    BY <2>3, Latest
  <2>5. n \in E <=> e.kind = "modulate"
    BY <1>1, <2>1
  <2>6. s.modulation = IF A = {} THEN NoModulation ELSE events[Max(A)].value
    BY <2>2 DEF IsPlanned
  <2>7. r.modulation = IF B = {} THEN NoModulation ELSE events[Max(B)].value
    BY <1>1, <1>4, <2>4, <2>5, <2>6
  <2> QED
    BY <2>2, <2>7
<1>7. r.active = IF /\ Marks(events, n) # {}
                    /\ events[Max(Marks(events, n))].kind = "markWith"
                   THEN events[Max(Marks(events, n))].channels
                 ELSE NoChannels
  <2>1. PICK E : E = {j \in 1..n : events[j].kind \in {"mark", "markWith"}}
    OBVIOUS
  <2>2. PICK A, B : A = Marks(events, i) /\ B = Marks(events, n)
    OBVIOUS
  <2>3. A = {j \in 1..i : j \in E} /\ B = {j \in 1..n : j \in E}
    BY <2>1, <2>2 DEF Marks
  <2>4. IF n \in E THEN B # {} /\ Max(B) = n ELSE B = A
    BY <2>3, Latest
  <2>5. n \in E <=> e.kind \in {"mark", "markWith"}
    BY <1>1, <2>1
  <2>6. s.active = IF A # {} /\ events[Max(A)].kind = "markWith"
                     THEN events[Max(A)].channels ELSE NoChannels
    BY <2>2 DEF IsPlanned
  <2>7. /\ e.kind = "markWith" => r.active = e.channels
        /\ e.kind = "mark" => r.active = NoChannels
        /\ e.kind \notin {"markWith", "mark"} => r.active = s.active
    BY <1>4, Actives
  <2>8. r.active = IF B # {} /\ events[Max(B)].kind = "markWith"
                     THEN events[Max(B)].channels ELSE NoChannels
    BY <1>1, <2>4, <2>5, <2>6, <2>7
  <2> QED
    BY <2>2, <2>8
<1> QED
  BY <1>1, <1>5, <1>6, <1>7 DEF IsPlanned

\* So it is all along a trace.
LEMMA Planned ==
  ASSUME NEW h, NEW events \in Seq(Events), NEW t, IsTrace(h, events, t)
  PROVE  \A i \in 0..Len(events) : IsPlanned(events, i, t[i])
<1>1. PICK L : L = Len(events) /\ L \in Nat
  OBVIOUS
<1> DEFINE U == {i \in Nat : i <= L => IsPlanned(events, i, t[i])}
<1>2. 0 \in U
  <2>1. /\ Motions(events, 0) = {} /\ Modulations(events, 0) = {}
        /\ Marks(events, 0) = {}
    BY DEF Motions, Modulations, Marks
  <2>2. t[0] = FreshScan
    BY DEF IsTrace
  <2> QED
    BY <2>1, <2>2 DEF IsPlanned, FreshScan
<1>3. ASSUME NEW i \in Nat, i \in U PROVE i + 1 \in U
  <2> SUFFICES ASSUME i + 1 <= L PROVE IsPlanned(events, i + 1, t[i + 1])
    OBVIOUS
  <2>1. PICK n : n = i + 1 /\ n \in 1..L /\ n - 1 = i /\ i \in 0..L
    BY <1>1
  <2>2. events[n] \in Events
    BY <1>1, <2>1
  <2>3. /\ ScanIsSound(h, t[i]) /\ EventIsValid(h, t[i], events[n])
        /\ t[n] = Scanned(h, t[i], events[n])
    BY <1>1, <2>1 DEF IsTrace
  <2>4. IsPlanned(events, i, t[i])
    BY <1>1, <1>3, <2>1
  <2> QED
    BY <2>1, <2>2, <2>3, <2>4, NextPlanned
<1>4. Nat \subseteq U
  <2> HIDE DEF U
  <2> QED
    BY <1>2, <1>3, Inductive
<1> QED
  BY <1>1, <1>4

-----------------------------------------------------------------------------
(* The orders that are carried out.                                        *)

\* The orders of the events that are lowered have been carried out, and in the
\* end all of them.
DoneInv ==
  /\ stage = "lower" =>
       lower.done = Due(lower.layer, lower.section,
                        IF lower.event = 0 THEN 0 ELSE lower.event - 1)
  /\ stage = "compiled" => lower.done = Len(Orders) /\ machine.z = 0

\* No order comes before the first section.
LEMMA FirstDue ==
  ASSUME PlanInv, plan # <<>>
  PROVE  /\ 1 \in DOMAIN plan /\ 1 \in DOMAIN plan[1].sections
         /\ Due(1, 1, 0) = 0
<1>1. PICK T : T = [header : Headers, sections : Seq(Seq(Events))]
  OBVIOUS
<1>2. plan \in Seq(T)
  BY <1>1, Zenon DEF Layers, PlanInv
<1>3. 1 \in DOMAIN plan
  BY <1>2
<1>4. plan[1].sections \in Seq(Seq(Events)) /\ plan[1].sections # <<>>
  <2>1. plan[1] \in T
    BY <1>2, <1>3
  <2> QED
    BY <1>1, <1>3, <2>1, Zenon DEF PlanInv
<1>5. 1 \in DOMAIN plan[1].sections
  <2>1. \A ss \in Seq(Seq(Events)) : ss # <<>> => 1 \in DOMAIN ss
    OBVIOUS
  <2> QED
    BY <1>4, <2>1
<1>6. PICK h, events : /\ h = plan[1].header /\ events = plan[1].sections[1]
                       /\ events \in Seq(Events)
  <2>1. \A ss \in Seq(Seq(Events)) : \A i \in DOMAIN ss : ss[i] \in Seq(Events)
    OBVIOUS
  <2> QED
    BY <1>4, <1>5, <2>1
<1>7. Before(SectionParts(h, events), 0) = 0
  BY <1>6, NoneBefore, Zenon
<1>8. Before(LayerParts(plan[1]), 0) = 0
  BY <1>4, LayerPlaced DEF IsPlaced
<1>9. Before(PlanParts, 0) = 0
  BY PlanPlaced DEF IsPlaced, PlanInv
<1>10. Due(1, 1, 0) = 0
  BY <1>6, <1>7, <1>8, <1>9 DEF Due
<1> QED
  BY <1>3, <1>5, <1>10

\* The plan does not change, so what is due does not either.
LEMMA DoneInSection ==
  ASSUME plan' = plan, stage' = "lower", NEW l, NEW s, NEW i,
         lower'.layer = l, lower'.section = s,
         i = IF lower'.event = 0 THEN 0 ELSE lower'.event - 1,
         lower'.done = Due(l, s, i)
  PROVE  DoneInv'
BY DEF DoneInv, Due, PlanParts

LEMMA DoneInTheEnd ==
  ASSUME plan' = plan, stage' = "compiled", lower'.done = Len(Orders),
         machine'.z = 0
  PROVE  DoneInv'
BY DEF DoneInv, Orders

\* A step that lowers an event carries out its order.
LEMMA DoneWithEvent ==
  ASSUME CompilerInv, DoneInv, AtEvent, plan' = plan, stage' = "lower",
         NEW n, n = (IF Here.kind = "modulate" THEN 0 ELSE 1),
         lower'.layer = lower.layer, lower'.section = lower.section,
         lower'.event = lower.event + 1, lower'.done = lower.done + n
  PROVE  DoneInv'
<1>1. PICK l, s, k : l = lower.layer /\ s = lower.section /\ k = lower.event
  OBVIOUS
<1>2. /\ PlanInv /\ stage = "lower" /\ l \in DOMAIN plan
      /\ s \in DOMAIN plan[l].sections
      /\ k \in 1..Len(Section) /\ Here = Section[k] /\ Len(Section) \in Nat
      /\ lower.event # 0
  BY <1>1, AtAnEvent, SectionInForce DEF CompilerInv, LowerInv, AtEvent
<1>3. PICK events : events = plan[l].sections[s]
  OBVIOUS
<1>4. events = Section
  BY <1>1, <1>3 DEF Section
<1>5. k \in DOMAIN events /\ k - 1 \in 0..Len(events) /\ k \in Nat
  <2>1. events \in Seq(Events)
    BY <1>2, <1>3, Sections, Zenon
  <2> QED
    BY <1>2, <1>4, <2>1
<1>6. lower.done = Due(l, s, k - 1)
  BY <1>1, <1>2 DEF DoneInv
<1>7. /\ Due(l, s, k - 1) \in Nat
      /\ events[k].kind = "modulate" => Due(l, s, k) = Due(l, s, k - 1)
      /\ events[k].kind # "modulate" => Due(l, s, k) = Due(l, s, k - 1) + 1
  BY <1>2, <1>3, <1>5, DueFollows
<1>8. lower'.done = Due(l, s, k)
  BY <1>2, <1>4, <1>6, <1>7
<1>9. k = IF lower'.event = 0 THEN 0 ELSE lower'.event - 1
  BY <1>1, <1>5
<1> QED
  BY <1>1, <1>8, <1>9, DoneInSection

\* Every step keeps it.
LEMMA DoneNext ==
  ASSUME CompilerInv, CompilerInv', DoneInv, Next \/ UNCHANGED vars
  PROVE  DoneInv'
<1>1. /\ Machine(machine) /\ lower \in Lower
      /\ PlanInv /\ StageInv /\ MetadataInv /\ LowerInv /\ MotionInv
  BY DEF CompilerInv
<1>2. CASE \/ \E h \in Headers : Open(h) \/ OpenRefused(h)
           \/ \E e \in Events : Add(e) \/ AddRefused(e)
           \/ NextSection \/ CloseLayer \/ CloseRefused
           \/ \E b \in Declared : EndAnalysis(b) \/ EndRefused(b)
           \/ \E p \in Profiles : Accept(p) \/ FeaturesRefused(p)
  <2>1. stage' \notin {"lower", "compiled"}
    BY <1>2 DEF Open, OpenRefused, Add, AddRefused, NextSection, CloseLayer,
       CloseRefused, EndAnalysis, EndRefused, Accept, FeaturesRefused, Reject
  <2> QED
    BY <2>1 DEF DoneInv
<1>3. CASE Metadata
  <2>1. /\ stage = "metadata" /\ stage' = "lower" /\ plan' = plan
        /\ lower' = lower
    BY <1>3 DEF Metadata
  <2>2. lower' = Started /\ plan # <<>>
    BY <1>1, <2>1 DEF StageInv
  <2>3. /\ lower'.layer = 1 /\ lower'.section = 1 /\ lower'.event = 0
        /\ lower'.done = 0
    BY <2>2 DEF Started
  <2>4. Due(1, 1, 0) = 0
    BY <1>1, <2>2, FirstDue
  <2> QED
    BY <2>1, <2>3, <2>4, DoneInSection
<1>4. CASE BeginSection
  <2>1. PICK l, s : l = lower.layer /\ s = lower.section
    OBVIOUS
  <2>2. /\ stage = "lower" /\ stage' = "lower" /\ plan' = plan
        /\ lower.event = 0
        /\ lower' = [lower EXCEPT !.event = 1, !.position = Nowhere,
                                  !.dynamic = FALSE, !.previous = "none"]
    BY <1>4 DEF BeginSection
  <2>3. /\ lower'.layer = l /\ lower'.section = s /\ lower'.event = 1
        /\ lower'.done = lower.done
    BY <1>1, <2>1, <2>2 DEF Lower
  <2>4. lower.done = Due(l, s, 0)
    BY <2>1, <2>2 DEF DoneInv
  <2> QED
    BY <2>2, <2>3, <2>4, DoneInSection
<1>5. CASE LowerModulation
  <2>1. /\ AtEvent /\ Here.kind = "modulate" /\ stage' = "lower" /\ plan' = plan
        /\ lower' = Past(Here, 0)
    BY <1>5 DEF LowerModulation, AtEvent
  <2>2. PICK e, n : e = Here /\ n = 0
    OBVIOUS
  <2>3. e \in Events
    BY <1>1, <2>1, <2>2, AtAnEvent
  <2>4. /\ lower'.layer = lower.layer /\ lower'.section = lower.section
        /\ lower'.event = lower.event + 1 /\ lower'.done = lower.done + n
    BY <1>1, <2>1, <2>2, <2>3, PastTypes
  <2> QED
    BY <2>1, <2>2, <2>4, DoneWithEvent
<1>6. CASE LowerStationary
  <2>1. /\ AtEvent /\ Here.kind # "modulate" /\ stage' = "lower" /\ plan' = plan
        /\ lower' = Past(Here, 1)
    BY <1>6 DEF LowerStationary, AtEvent
  <2>2. PICK e, n : e = Here /\ n = 1
    OBVIOUS
  <2>3. e \in Events
    BY <1>1, <2>1, <2>2, AtAnEvent
  <2>4. /\ lower'.layer = lower.layer /\ lower'.section = lower.section
        /\ lower'.event = lower.event + 1 /\ lower'.done = lower.done + n
    BY <1>1, <2>1, <2>2, <2>3, PastTypes
  <2> QED
    BY <2>1, <2>2, <2>4, DoneWithEvent
<1>7. CASE LowerMotion
  <2>1. /\ AtEvent /\ IsMotion(Here) /\ stage' = "lower" /\ plan' = plan
        /\ lower' = [Past(Here, 1) EXCEPT
                       !.position = Here.to,
                       !.dynamic = (@ \/ Here.kind = "markWith")
                                     /\ Here.kind # "mark"]
    BY <1>7 DEF LowerMotion, AtEvent
  <2>2. PICK e, n, l : e = Here /\ n = 1 /\ l = Past(e, n)
    OBVIOUS
  <2>3. e \in Events /\ Here.kind # "modulate"
    BY <1>1, <2>1, <2>2, AtAnEvent DEF IsMotion
  <2>4. /\ l \in Lower /\ l.layer = lower.layer /\ l.section = lower.section
        /\ l.event = lower.event + 1 /\ l.done = lower.done + n
    BY <1>1, <2>2, <2>3, PastTypes
  <2>5. lower' = [l EXCEPT !.position = e.to,
                           !.dynamic = (l.dynamic \/ e.kind = "markWith")
                                         /\ e.kind # "mark"]
    BY <2>1, <2>2
  <2>6. /\ lower'.layer = l.layer /\ lower'.section = l.section
        /\ lower'.event = l.event /\ lower'.done = l.done
    BY <2>4, <2>5 DEF Lower
  <2> QED
    BY <2>1, <2>2, <2>3, <2>4, <2>6, DoneWithEvent
<1>8. CASE LowerChunk
  <2>1. PICK e, n, l, to : /\ e = Here /\ n = 1
                           /\ l = (IF to = e.to THEN Past(e, n) ELSE lower)
                           /\ lower' = [l EXCEPT !.position = to]
    BY <1>8 DEF LowerChunk
  <2>2. /\ AtEvent /\ InChunks(e) /\ stage = "lower" /\ stage' = "lower"
        /\ plan' = plan
    BY <1>8, <2>1 DEF LowerChunk, AtEvent
  <2>3. e \in Events /\ Here.kind # "modulate"
    BY <1>1, <2>1, <2>2, AtAnEvent DEF InChunks, IsMark
  <2>4. CASE to = e.to
    <3>1. /\ l \in Lower /\ l.layer = lower.layer /\ l.section = lower.section
          /\ l.event = lower.event + 1 /\ l.done = lower.done + n
      BY <1>1, <2>1, <2>3, <2>4, PastTypes
    <3>2. /\ lower'.layer = l.layer /\ lower'.section = l.section
          /\ lower'.event = l.event /\ lower'.done = l.done
      BY <2>1, <3>1 DEF Lower
    <3> QED
      BY <2>1, <2>2, <2>3, <3>1, <3>2, DoneWithEvent
  <2>5. CASE to # e.to
    <3>1. PICK a, s, i : /\ a = lower.layer /\ s = lower.section
                         /\ i = IF lower.event = 0 THEN 0 ELSE lower.event - 1
      OBVIOUS
    <3>2. /\ lower'.layer = a /\ lower'.section = s
          /\ lower'.event = lower.event /\ lower'.done = lower.done
      BY <1>1, <2>1, <2>5, <3>1 DEF Lower
    <3>3. lower.done = Due(a, s, i)
      BY <2>2, <3>1 DEF DoneInv
    <3> QED
      BY <2>2, <3>1, <3>2, <3>3, DoneInSection
  <2> QED
    BY <2>4, <2>5
<1>9. CASE EndSection
  <2>1. /\ stage = "lower" /\ lower.event = Len(Section) + 1 /\ plan' = plan
    BY <1>9 DEF EndSection
  <2>2. PICK l, s : l = lower.layer /\ s = lower.section
    OBVIOUS
  <2>3. l \in DOMAIN plan /\ s \in DOMAIN plan[l].sections
    BY <1>1, <2>1, <2>2 DEF LowerInv
  <2>4. PICK events : events = plan[l].sections[s]
    OBVIOUS
  <2>5. events = Section /\ Len(events) \in Nat /\ l \in Nat /\ s \in Nat
    BY <1>1, <2>1, <2>2, <2>4, SectionInForce DEF Section, Lower
  <2>6. lower.done = Due(l, s, Len(events))
    BY <2>1, <2>2, <2>5 DEF DoneInv
  <2>7. /\ s # Len(plan[l].sections) => Due(l, s, Len(events)) = Due(l, s + 1, 0)
        /\ s = Len(plan[l].sections) =>
             /\ l # Len(plan) => Due(l, s, Len(events)) = Due(l + 1, 1, 0)
             /\ l = Len(plan) => Due(l, s, Len(events)) = Len(Orders)
    BY <1>1, <2>3, <2>4, DueFollows
  <2>8. machine'.z = 0
    BY <1>1, <1>9, SectionEnds
  <2>9. CASE LastSection
    <3>1. /\ lower' = [lower EXCEPT !.layer = @ + 1, !.section = 1, !.event = 0]
          /\ stage' = IF lower.layer = Len(plan) THEN "compiled" ELSE "lower"
      BY <1>9, <2>9 DEF EndSection
    <3>2. PICK a : a = l + 1
      OBVIOUS
    <3>3. /\ lower'.layer = a /\ lower'.section = 1 /\ lower'.event = 0
          /\ lower'.done = lower.done
      BY <1>1, <2>2, <3>1, <3>2 DEF Lower
    <3>4. s = Len(plan[l].sections)
      BY <2>2, <2>9 DEF LastSection
    <3>5. CASE l = Len(plan)
      BY <2>1, <2>2, <2>6, <2>7, <2>8, <3>1, <3>3, <3>4, <3>5, DoneInTheEnd
    <3>6. CASE l # Len(plan)
      <4>1. stage' = "lower" /\ lower'.done = Due(a, 1, 0)
        BY <2>2, <2>6, <2>7, <3>1, <3>2, <3>3, <3>4, <3>6
      <4> QED
        BY <2>1, <3>3, <4>1, DoneInSection
    <3> QED
      BY <3>5, <3>6
  <2>10. CASE ~LastSection
    <3>1. /\ lower' = [lower EXCEPT !.section = @ + 1, !.event = 0]
          /\ stage' = "lower"
      BY <1>9, <2>10 DEF EndSection
    <3>2. PICK a : a = s + 1
      OBVIOUS
    <3>3. /\ lower'.layer = l /\ lower'.section = a /\ lower'.event = 0
          /\ lower'.done = lower.done
      BY <1>1, <2>2, <3>1, <3>2 DEF Lower
    <3>4. s # Len(plan[l].sections)
      BY <2>2, <2>10 DEF LastSection
    <3>5. lower'.done = Due(l, a, 0)
      BY <2>6, <2>7, <3>2, <3>3, <3>4
    <3> QED
      BY <2>1, <3>1, <3>3, <3>5, DoneInSection
  <2> QED
    BY <2>9, <2>10
<1>10. CASE UNCHANGED vars
  BY <1>10 DEF vars, DoneInv, Due, PlanParts, Orders
<1> QED
  BY <1>2, <1>3, <1>4, <1>5, <1>6, <1>7, <1>8, <1>9, <1>10 DEF Next

\* The analysis begins with the invariant.
LEMMA DoneInitially ==
  ASSUME Init
  PROVE  DoneInv
BY DEF Init, DoneInv

\* CompilerInv and DoneInv for all plans and profiles: wherever the lowering is, it
\* has carried out the orders of the events before that place, and no others.
THEOREM DoneAlways == Spec => [](CompilerInv /\ DoneInv)
<1>1. Init => CompilerInv /\ DoneInv
  BY InvInitially, DoneInitially
<1>2. CompilerInv /\ DoneInv /\ [Next]_vars => (CompilerInv /\ DoneInv)'
  BY InvNext, DoneNext
<1> QED
  BY <1>1, <1>2, PTL DEF Spec

\* CompiledIsWhole for all plans and profiles: a compiled job has carried out all
\* orders and left the Z axis where it was.
THEOREM CompiledAlwaysWhole == Spec => []CompiledIsWhole
<1>1. DoneInv => CompiledIsWhole
  BY DEF DoneInv, CompiledIsWhole
<1> QED
  BY <1>1, DoneAlways, PTL

-----------------------------------------------------------------------------
(* The strokes.                                                            *)

\* RuidaJobProfile does not check that its laser_enable_value is the head of every
\* laser index it supports, and so that there is but one; the shipped profiles
\* support the index 1 and enable the head 1.
EnablesItsLaser == \A p \in Profiles : \A k \in p.lasers : p.enable = {k}

\* A set of the first numbers has a last one.
LEMMA LastOf ==
  ASSUME NEW i \in Nat, NEW X, X \subseteq 1..i, X # {}
  PROVE  Max(X) \in X
<1>1. X \in SUBSET (0..i)
  OBVIOUS
<1>2. \E x \in X : \A y \in X : x >= y
  BY <1>1, GreatestExists
<1> QED
  BY <1>2 DEF Max

\* The powers that are in force are the planned ones.
LEMMA PowersAsPlanned ==
  ASSUME EnablesItsLaser, profile \in Profiles, NEW h \in Headers, NEW l,
         HeaderIsSound(h, l), LaserIsSupported(profile, h),
         NEW events \in Seq(Events), NEW i \in 0..Len(events),
         NEW r, IsPlanned(events, i, r), NEW power,
         r.active = NoChannels =>
           \A k \in DOMAIN PowerOf(h) : power[k] = PowerOf(h)[k],
         r.active # NoChannels =>
           /\ ActiveIsSupported(h, r.active)
           /\ \A k \in DOMAIN r.active : power[k] = WirePair(r.active[k])
  PROVE  [k \in EnabledHeads(h) |-> power[k]] = PlannedPower(h, events, i)
<1>1. PICK D, last, heads : /\ D = Marks(events, i) /\ last = events[Max(D)]
                            /\ heads = EnabledHeads(h)
  OBVIOUS
<1>2. D = {j \in 1..i : events[j].kind \in {"mark", "markWith"}}
  BY <1>1 DEF Marks
<1>3. r.active = IF D # {} /\ last.kind = "markWith" THEN last.channels
                 ELSE NoChannels
  BY <1>1 DEF IsPlanned
<1>4. CASE D # {} /\ last.kind = "markWith"
  <2>1. PlannedPower(h, events, i) =
          [k \in EnabledIn(h.channels) |-> WirePair(last.channels[k])]
    BY <1>1, <1>2, <1>4 DEF PlannedPower
  <2>2. last \in Events
    <3>1. D \subseteq 1..i
      BY <1>2
    <3>2. Max(D) \in 1..i
      BY <1>4, <3>1, LastOf
    <3>3. Max(D) \in DOMAIN events
      BY <3>2
    <3> QED
      BY <1>1, <3>3
  <2>3. r.active = last.channels /\ r.active # NoChannels
    BY <1>3, <1>4, <2>2, EventTypes, PlansAssumption
  <2>4. /\ h.channels # NoChannels
        /\ EnabledIn(r.active) = EnabledIn(h.channels)
    BY <2>3 DEF ActiveIsSupported
  <2>5. heads = EnabledIn(h.channels)
    BY <1>1, <2>4 DEF EnabledHeads
  <2>6. \A k \in heads : power[k] = WirePair(last.channels[k])
    BY <2>3, <2>4, <2>5 DEF EnabledIn
  <2> QED
    BY <1>1, <2>1, <2>5, <2>6
<1>5. CASE ~(D # {} /\ last.kind = "markWith") /\ h.channels = NoChannels
  <2>1. PlannedPower(h, events, i) =
          [k \in {h.laser} |-> <<Wire(h.min), Wire(h.max)>>]
    BY <1>1, <1>2, <1>5 DEF PlannedPower
  <2>2. PICK p : p = <<Wire(h.min), Wire(h.max)>>
    OBVIOUS
  <2>3. profile.lasers \subseteq LaserHead /\ h.laser \in profile.lasers
    BY <1>5, PlansAssumption DEF LaserIsSupported, RuidaJobProfile
  <2>4. heads = {h.laser}
    BY <1>1, <1>5, <2>3 DEF EnabledHeads, EnablesItsLaser
  <2>5. PowerOf(h) = [k \in LaserHead |-> p]
    BY <1>5, <2>2 DEF PowerOf
  <2>6. \A k \in heads : power[k] = p
    BY <1>3, <1>5, <2>3, <2>4, <2>5
  <2> QED
    BY <1>1, <2>1, <2>2, <2>4, <2>6
<1>6. CASE ~(D # {} /\ last.kind = "markWith") /\ h.channels # NoChannels
  <2>1. PlannedPower(h, events, i) =
          [k \in EnabledIn(h.channels) |-> WirePair(h.channels[k])]
    BY <1>1, <1>2, <1>6 DEF PlannedPower
  <2>2. heads = EnabledIn(h.channels)
    BY <1>1, <1>6 DEF EnabledHeads
  <2>3. PowerOf(h) = [k \in DOMAIN h.channels |-> WirePair(h.channels[k])]
    BY <1>6 DEF PowerOf
  <2>4. \A k \in heads : power[k] = WirePair(h.channels[k])
    BY <1>3, <1>6, <2>2, <2>3 DEF EnabledIn
  <2> QED
    BY <1>1, <2>1, <2>2, <2>4
<1> QED
  BY <1>4, <1>5, <1>6

\* So is the modulation, if the section sets one.
LEMMA ModulationAsPlanned ==
  ASSUME NEW events \in Seq(Events), NEW i \in 0..Len(events),
         NEW r, IsPlanned(events, i, r), NEW value,
         r.modulation # NoModulation => value = Wire(r.modulation),
         PlannedModulation(events, i) # NoModulation
  PROVE  value = PlannedModulation(events, i)
<1>1. PICK M, last : M = Modulations(events, i) /\ last = events[Max(M)]
  OBVIOUS
<1>2. M = {j \in 1..i : events[j].kind = "modulate"}
  BY <1>1 DEF Modulations
<1>3. /\ M # {} /\ PlannedModulation(events, i) = Wire(last.value)
      /\ r.modulation = last.value
  <2>1. M # {}
    BY <1>2 DEF PlannedModulation
  <2> QED
    BY <1>1, <1>2, <2>1 DEF PlannedModulation, IsPlanned
<1>4. last \in Events /\ last.kind = "modulate"
  <2>1. M \subseteq 1..i /\ M # {} /\ i \in Nat
    BY <1>2, <1>3
  <2>2. Max(M) \in M
    BY <2>1, LastOf
  <2>3. Max(M) \in 1..i
    BY <2>1, <2>2
  <2>4. Max(M) \in DOMAIN events
    BY <2>3
  <2> QED
    BY <1>1, <1>2, <2>2, <2>4
<1>5. r.modulation # NoModulation
  BY <1>3, <1>4, EventTypes, PlansAssumption
<1> QED
  BY <1>3, <1>5

\* And the point the head is to be at.
LEMMA PlaceAsPlanned ==
  ASSUME NEW events, NEW i, NEW r, IsPlanned(events, i, r), r.position # Nowhere
  PROVE  PlannedPosition(events, i) = r.position
BY DEF IsPlanned, Motions, PlannedPosition

\* The regime of the i-th event, by the plan.
PlannedRegime(h, events, i) ==
  [power |-> PlannedPower(h, events, i), air |-> h.air, speed |-> h.speed,
   z |-> -h.z]

\* o is the order of the i-th event.
IsOrder(o, h, events, i) ==
  /\ o.kind = StrokeKind(events[i])
  /\ o.to = PlannedPosition(events, i)
  /\ o.regime = PlannedRegime(h, events, i)
  /\ o.modulation = PlannedModulation(events, i)

LEMMA OrderMade ==
  ASSUME NEW h, NEW events, NEW i
  PROVE  IsOrder(Order(h, events, i), h, events, i)
<1>0. PICK o : o = Order(h, events, i)
  OBVIOUS
<1>1. PICK e, kind : /\ e = events[i]
                     /\ kind = CASE e.kind = "travel" -> "travel"
                                 [] e.kind = "dwell"  -> "wait"
                                 [] e.kind = "pulse"  -> "pulse"
                                 [] OTHER             -> "mark"
  OBVIOUS
<1>2. o = [kind |-> kind, to |-> PlannedPosition(events, i),
           regime |-> PlannedRegime(h, events, i),
           modulation |-> PlannedModulation(events, i)]
  BY <1>0, <1>1, Zenon DEF Order, PlannedRegime
<1>3. kind = StrokeKind(e)
  <2>1. CASE e.kind = "travel"
    BY <1>1, <2>1 DEF StrokeKind
  <2>2. CASE e.kind = "dwell"
    BY <1>1, <2>2 DEF StrokeKind
  <2>3. CASE e.kind = "pulse"
    BY <1>1, <2>3 DEF StrokeKind
  <2>4. CASE e.kind \notin {"travel", "dwell", "pulse"}
    BY <1>1, <2>4 DEF StrokeKind
  <2> QED
    BY <2>1, <2>2, <2>3, <2>4
<1> QED
  BY <1>0, <1>1, <1>2, <1>3 DEF IsOrder

\* What the agreement says of the controller after a step.
LEMMA AgreesTells ==
  ASSUME profile' = profile, NEW h, NEW s, Agrees(h, s)'
  PROVE  /\ machine'.enabled = EnabledHeads(h) /\ machine'.air = h.air
         /\ machine'.speed = h.speed /\ machine'.z = -h.z
         /\ s.active = NoChannels =>
              \A k \in DOMAIN PowerOf(h) : machine'.power[k] = PowerOf(h)[k]
         /\ s.active # NoChannels =>
              /\ ActiveIsSupported(h, s.active)
              /\ \A k \in DOMAIN s.active :
                   machine'.power[k] = WirePair(s.active[k])
         /\ s.modulation # NoModulation =>
              machine'.modulation = Wire(s.modulation)
<1>1. SettingsAgree(h)' /\ PowerAgrees(h, s)' /\ ModulationAgrees(s)'
  BY DEF Agrees
<1>2. EnabledHeads(h)' = EnabledHeads(h)
  BY DEF EnabledHeads
<1>3. s.active # NoChannels => ActiveIsSupported(h, s.active)
  BY <1>1 DEF PowerAgrees, ActiveIsSupported
<1> QED
  BY <1>1, <1>2, <1>3 DEF SettingsAgree, PowerAgrees, ModulationAgrees

\* The regime the head has after the step in which it carries out an order, or a
\* part of it, is the planned one.
LEMMA RegimeAsPlanned ==
  ASSUME EnablesItsLaser, CompilerInv, CompilerInv', AtEvent, plan' = plan,
         profile' = profile, stage' = "lower", Here.kind # "modulate",
         lower'.layer = lower.layer, lower'.section = lower.section,
         \/ lower'.event = lower.event + 1
         \/ lower'.event = lower.event /\ InChunks(Here),
         NEW o, o = Order(H, Section, lower.event)
  PROVE  /\ Controller!Regime(machine') = o.regime
         /\ o.modulation # NoModulation => machine'.modulation = o.modulation
<1>1. PICK h, e, k, events :
        h = H /\ e = Here /\ k = lower.event /\ events = Section
  OBVIOUS
<1>2. /\ PlanInv /\ StageInv /\ LowerInv /\ stage = "lower"
      /\ e \in Events /\ k \in 1..Len(events) /\ e = events[k]
  BY <1>1, AtAnEvent DEF CompilerInv
<1>3. /\ h \in Headers /\ HeaderIsSound(h, lower.layer)
      /\ events \in Seq(Events) /\ Len(events) \in Nat
      /\ LaserIsSupported(profile, h) /\ profile \in Profiles
  BY <1>1, <1>2, SectionInForce DEF StageInv
<1>4. H' = h /\ Section' = events
  BY <1>1 DEF H, Section
<1>5. PICK n : n = lower'.event /\ (n = k + 1 \/ (n = k /\ InChunks(e)))
  BY <1>1
<1>6. PICK t : IsTrace(h, events, t) /\ Agrees(h, t[n - 1])'
  <2>1. n # 0
    BY <1>2, <1>3, <1>5
  <2>2. \E t : IsTrace(H', Section', t) /\ Agrees(H, t[lower.event - 1])'
    BY <1>5, <2>1 DEF CompilerInv, LowerInv
  <2>3. PICK t : IsTrace(H', Section', t) /\ Agrees(H, t[lower.event - 1])'
    BY <2>2
  <2>4. PICK s : s = t[n - 1]
    OBVIOUS
  <2>5. Agrees(h, s)'
    BY <1>4, <1>5, <2>3, <2>4
  <2> QED
    BY <1>4, <2>3, <2>4, <2>5
<1>7. PICK r, s : r = t[k] /\ s = t[n - 1]
  OBVIOUS
<1>8. /\ IsPlanned(events, k, r) /\ ScanIsSound(h, r)
      /\ ScanIsSound(h, t[k - 1]) /\ EventIsValid(h, t[k - 1], e)
      /\ r = Scanned(h, t[k - 1], e)
  <2>1. k \in 0..Len(events) /\ k - 1 \in 0..Len(events)
    BY <1>2, <1>3
  <2>2. \A i \in 0..Len(events) : IsPlanned(events, i, t[i])
    BY <1>3, <1>6, Planned
  <2> QED
    BY <1>2, <1>6, <1>7, <2>1, <2>2, Zenon DEF IsTrace
<1>9. r.active = s.active /\ r.modulation = s.modulation
  <2>1. CASE n = k + 1
    <3>1. n - 1 = k
      BY <1>2, <1>3, <2>1
    <3> QED
      BY <1>7, <3>1
  <2>2. CASE n = k /\ InChunks(e)
    <3>1. /\ s = t[k - 1] /\ s \in Scan /\ Native(h) /\ h.kind = "raster"
          /\ IsMark(e) /\ IsMotion(e)
      BY <1>1, <1>7, <1>8, <2>2
         DEF InChunks, Native, ScanIsSound, IsMark, IsMotion
    <3>2. s.active = NoChannels
      BY <1>8, <3>1 DEF ScanIsSound
    <3>3. /\ e.kind = "mark" /\ s.position # Nowhere
      <4>1. /\ e.kind \in {"markWith", "markCurrent"} => h.kind = "vector"
            /\ s.position = Nowhere => e.kind = "travel"
        BY <1>8, <3>1, Validity
      <4> QED
        BY <3>1, <4>1 DEF IsMark
    <3>4. /\ r.active = ActiveAfter(s, e) /\ r.modulation = s.modulation
      <4>1. s.position \in Point
        BY <3>1, <3>3 DEF Scan
      <4> QED
        BY <1>2, <1>8, <3>1, <3>3, <4>1, Scans
    <3> QED
      BY <3>2, <3>3, <3>4, Actives
  <2> QED
    BY <1>5, <2>1, <2>2
<1>10. /\ machine'.enabled = EnabledHeads(h) /\ machine'.air = h.air
       /\ machine'.speed = h.speed /\ machine'.z = -h.z
       /\ r.active = NoChannels =>
            \A i \in DOMAIN PowerOf(h) : machine'.power[i] = PowerOf(h)[i]
       /\ r.active # NoChannels =>
            /\ ActiveIsSupported(h, r.active)
            /\ \A i \in DOMAIN r.active :
                 machine'.power[i] = WirePair(r.active[i])
       /\ r.modulation # NoModulation =>
            machine'.modulation = Wire(r.modulation)
  <2>1. Agrees(h, s)'
    BY <1>6, <1>7
  <2> QED
    BY <1>9, <2>1, AgreesTells
<1>11. k \in 0..Len(events)
  BY <1>2, <1>3
<1>12. PICK power, value : power = machine'.power /\ value = machine'.modulation
  OBVIOUS
<1>13. [i \in EnabledHeads(h) |-> power[i]] = PlannedPower(h, events, k)
  BY <1>3, <1>8, <1>10, <1>11, <1>12, PowersAsPlanned
<1>14. PlannedModulation(events, k) # NoModulation =>
         value = PlannedModulation(events, k)
  BY <1>3, <1>8, <1>10, <1>11, <1>12, ModulationAsPlanned, ZenonT(60)
<1>15. /\ o.regime = PlannedRegime(h, events, k)
       /\ o.modulation = PlannedModulation(events, k)
  BY <1>1, OrderMade DEF IsOrder
<1> QED
  BY <1>10, <1>12, <1>13, <1>14, <1>15 DEF Controller!Regime, PlannedRegime

\* The order is to end where the event does.
LEMMA PlaceOrdered ==
  ASSUME CompilerInv, AtEvent, Here.kind # "modulate",
         NEW o, o = Order(H, Section, lower.event)
  PROVE  o.to = IF IsMotion(Here) THEN Here.to ELSE machine.at
<1>1. PICK h, e, k, events :
        h = H /\ e = Here /\ k = lower.event /\ events = Section
  OBVIOUS
<1>2. /\ PlanInv /\ StageInv /\ LowerInv /\ lower \in Lower /\ Machine(machine)
      /\ stage = "lower" /\ e \in Events /\ k \in 1..Len(events)
      /\ e = events[k]
  BY <1>1, AtAnEvent DEF CompilerInv
<1>3. events \in Seq(Events) /\ Len(events) \in Nat
  BY <1>1, <1>2, SectionInForce
<1>4. PICK t : /\ IsTrace(h, events, t) /\ Agrees(h, t[k - 1])
               /\ ScanIsSound(h, t[k - 1]) /\ EventIsValid(h, t[k - 1], e)
               /\ t[k] = Scanned(h, t[k - 1], e)
  BY <1>1, <1>2, AtAnEvent
<1>5. PICK r, s : r = t[k] /\ s = t[k - 1]
  OBVIOUS
<1>6. IsPlanned(events, k, r)
  <2>1. k \in 0..Len(events)
    BY <1>2, <1>3
  <2> QED
    BY <1>3, <1>4, <1>5, <2>1, Planned
<1>7. r.position # Nowhere => o.to = r.position
  <2>0. o = Order(h, events, k)
    BY <1>1
  <2>1. o.to = PlannedPosition(events, k)
    BY <2>0, OrderMade DEF IsOrder
  <2> QED
    BY <1>6, <2>1, PlaceAsPlanned
<1>8. CASE IsMotion(e)
  <2>1. e.to \in Point /\ e.to # Nowhere
    BY <1>2, <1>8, EventTypes, PlansAssumption
  <2>2. s \in Scan /\ (IsMark(e) => s.position \in Point)
    <3>1. s.position = Nowhere => e.kind = "travel"
      BY <1>4, <1>5, <1>8, Validity
    <3> QED
      BY <1>4, <1>5, <3>1 DEF ScanIsSound, IsMark, Scan
  <2>3. r.position = e.to
    BY <1>2, <1>4, <1>5, <1>8, <2>2, Scans
  <2> QED
    BY <1>1, <1>7, <1>8, <2>1, <2>3
<1>9. CASE ~IsMotion(e)
  <2>1. r.position = s.position
    BY <1>2, <1>4, <1>5, <1>9, StillScanned
  <2>2. s.position # Nowhere
    <3>1. e.kind \in {"dwell", "pulse"}
      BY <1>1, <1>2, <1>9, EventTypes DEF IsMotion, Kinds
    <3> QED
      BY <1>4, <1>5, <3>1, Validity
  <2>3. /\ lower.position = s.position
        /\ lower.position # Nowhere => machine.at = lower.position
    <3>1. ~InChunks(Here)
      BY <1>1, <1>9 DEF InChunks, IsMark, IsMotion
    <3> QED
      BY <1>4, <1>5, <3>1, Settled DEF Agrees
  <2> QED
    BY <1>1, <1>7, <1>9, <2>1, <2>2, <2>3
<1> QED
  BY <1>8, <1>9

-----------------------------------------------------------------------------
(* Every step is one of LaserJob's.                                        *)

\* A chunk that does not end the span goes on along it.
LEMMA ChunkGoesOn ==
  ASSUME profile.chunk \in Nat, profile.chunk # 0, lower.position \in Point,
         NEW e \in Events, e.to \in Point, InChunks(e),
         lower.position[1] = e.to[1] \/ lower.position[2] = e.to[2],
         NEW by, by = Motion(e).by,
         NEW to, to = <<lower.position[1] + by[1], lower.position[2] + by[2]>>,
         to # e.to
  PROVE  Job!OnTheWay(lower.position, to, e.to)
<1>1. PICK p, q : p = lower.position /\ q = e.to
  OBVIOUS
<1>2. /\ p[1] \in Int /\ p[2] \in Int /\ q[1] \in Int /\ q[2] \in Int
      /\ q = <<q[1], q[2]>>
  BY <1>1 DEF Point
<1>3. \A j \in 1..2 :
        /\ by[j] \in Int /\ Within(0, by[j], q[j] - p[j])
        /\ q[j] # p[j] => by[j] # 0
  BY <1>1, ChunkEnds
<1>4. /\ by[1] \in Int /\ by[2] \in Int
      /\ Within(0, by[1], q[1] - p[1]) /\ Within(0, by[2], q[2] - p[2])
      /\ q[1] # p[1] => by[1] # 0
      /\ q[2] # p[2] => by[2] # 0
  BY <1>3
<1>5. PICK x, y : x = p[1] + by[1] /\ y = p[2] + by[2]
  OBVIOUS
<1>6. to = <<x, y>> /\ to[1] = x /\ to[2] = y
  BY <1>1, <1>5
<1>7. x # q[1] \/ y # q[2]
  BY <1>1, <1>2, <1>6
<1>8. CASE p[1] = q[1]
  <2>1. x = q[1]
    BY <1>2, <1>4, <1>5, <1>8 DEF Within
  <2>2. y # p[2] /\ Job!Between(p[2], y, q[2])
    <3>1. PICK a, b, c : a = p[2] /\ b = by[2] /\ c = q[2]
      OBVIOUS
    <3>2. /\ a \in Int /\ b \in Int /\ c \in Int /\ Within(0, b, c - a)
          /\ y = a + b /\ y # c /\ (c # a => b # 0)
      BY <1>2, <1>4, <1>5, <1>7, <2>1, <3>1
    <3>3. y # a /\ Job!Between(a, y, c)
      BY <3>2 DEF Within, Job!Between
    <3> QED
      BY <3>1, <3>3
  <2> QED
    BY <1>1, <1>6, <1>8, <2>1, <2>2 DEF Job!OnTheWay
<1>9. CASE p[2] = q[2]
  <2>1. y = q[2]
    BY <1>2, <1>4, <1>5, <1>9 DEF Within
  <2>2. x # p[1] /\ Job!Between(p[1], x, q[1])
    <3>1. PICK a, b, c : a = p[1] /\ b = by[1] /\ c = q[1]
      OBVIOUS
    <3>2. /\ a \in Int /\ b \in Int /\ c \in Int /\ Within(0, b, c - a)
          /\ x = a + b /\ x # c /\ (c # a => b # 0)
      BY <1>2, <1>4, <1>5, <1>7, <2>1, <3>1
    <3>3. x # a /\ Job!Between(a, x, c)
      BY <3>2 DEF Within, Job!Between
    <3> QED
      BY <3>1, <3>3
  <2> QED
    BY <1>1, <1>6, <1>9, <2>1, <2>2 DEF Job!OnTheWay
<1> QED
  BY <1>1, <1>8, <1>9

\* The order that is due is that of the event.
LEMMA OrderDue ==
  ASSUME CompilerInv, DoneInv, AtEvent, Here.kind # "modulate"
  PROVE  /\ lower.done \in Nat /\ lower.done < Len(Orders)
         /\ Orders[lower.done + 1] = Order(H, Section, lower.event)
<1>1. PICK l, s, k : l = lower.layer /\ s = lower.section /\ k = lower.event
  OBVIOUS
<1>2. /\ PlanInv /\ stage = "lower" /\ l \in DOMAIN plan
      /\ s \in DOMAIN plan[l].sections
      /\ k \in 1..Len(Section) /\ Here = Section[k] /\ Len(Section) \in Nat
      /\ lower.event # 0
  BY <1>1, AtAnEvent, SectionInForce DEF CompilerInv, LowerInv, AtEvent
<1>3. PICK events, h : events = plan[l].sections[s] /\ h = plan[l].header
  OBVIOUS
<1>4. events = Section /\ h = H
  BY <1>1, <1>3 DEF Section, H
<1>5. k \in DOMAIN events /\ k - 1 \in 0..Len(events) /\ k \in Nat
  <2>1. events \in Seq(Events)
    BY <1>2, <1>3, Sections, Zenon
  <2> QED
    BY <1>2, <1>4, <2>1
<1>6. lower.done = Due(l, s, k - 1)
  BY <1>1, <1>2 DEF DoneInv
<1>7. /\ Due(l, s, k - 1) \in Nat
      /\ events[k].kind # "modulate" =>
           /\ Due(l, s, k) = Due(l, s, k - 1) + 1
           /\ Due(l, s, k) <= Len(Orders)
           /\ Orders[Due(l, s, k)] = Order(h, events, k)
  BY <1>2, <1>3, <1>5, DueFollows
<1>8. /\ Due(l, s, k) = lower.done + 1 /\ lower.done + 1 <= Len(Orders)
      /\ Orders[lower.done + 1] = Order(h, events, k)
      /\ lower.done \in Nat
  BY <1>2, <1>4, <1>6, <1>7
<1>9. Len(Orders) \in Nat
  BY <1>2, PlanPlaced DEF PlanInv
<1> QED
  BY <1>1, <1>4, <1>8, <1>9

\* The orders do not change while they are carried out.
LEMMA SameOrders ==
  ASSUME plan' = plan, Lowered, Lowered'
  PROVE  UNCHANGED <<Lowered, IF Lowered THEN Orders ELSE <<>>>>
<1>1. Orders' = Orders
  BY DEF Orders
<1> QED
  BY <1>1, Zenon

\* A step that carries out the order that is due, or a part of it.
LEMMA StrokeIsOrdered ==
  ASSUME EnablesItsLaser, CompilerInv, CompilerInv', DoneInv, AtEvent,
         plan' = plan, profile' = profile, stage' = "lower",
         Here.kind # "modulate",
         lower'.layer = lower.layer, lower'.section = lower.section,
         \/ /\ lower'.event = lower.event + 1 /\ lower'.done = lower.done + 1
            /\ machine'.at = IF IsMotion(Here) THEN Here.to ELSE machine.at
         \/ /\ lower'.event = lower.event /\ lower'.done = lower.done
            /\ InChunks(Here) /\ machine'.at # Here.to
            /\ Job!OnTheWay(machine.at, machine'.at, Here.to),
         IsStroke(machine, StrokeKind(Here), machine')
  PROVE  Job!CarryOut
<1>1. PICK o : o = Order(H, Section, lower.event)
  OBVIOUS
<1>2. /\ stage = "lower" /\ Here = Section[lower.event] /\ Lowered /\ Lowered'
  BY AtAnEvent DEF AtEvent, Here, Lowered
<1>3. /\ lower.done \in Nat /\ lower.done < Len(Orders)
      /\ Orders[lower.done + 1] = o
  BY <1>1, OrderDue
<1>4. o.to = IF IsMotion(Here) THEN Here.to ELSE machine.at
  BY <1>1, PlaceOrdered
<1>5. o.kind = StrokeKind(Here)
  BY <1>1, <1>2, OrderMade DEF IsOrder
<1>6. /\ Controller!Regime(machine') = o.regime
      /\ o.modulation # NoModulation => machine'.modulation = o.modulation
  BY <1>1, RegimeAsPlanned
<1>7. Job!AsOrdered(machine'.stroke, o)
  BY <1>5, <1>6 DEF Job!AsOrdered, IsStroke
<1>8. \/ machine'.at = o.to /\ lower'.done = lower.done + 1
      \/ /\ o.kind = "mark" /\ machine'.at # o.to
         /\ Job!OnTheWay(machine.at, machine'.at, o.to)
         /\ lower'.done = lower.done
  <2>1. CASE lower'.event = lower.event + 1 /\ lower'.done = lower.done + 1
             /\ machine'.at = IF IsMotion(Here) THEN Here.to ELSE machine.at
    BY <1>4, <2>1
  <2>2. CASE /\ lower'.event = lower.event /\ lower'.done = lower.done
             /\ InChunks(Here) /\ machine'.at # Here.to
             /\ Job!OnTheWay(machine.at, machine'.at, Here.to)
    <3>1. IsMotion(Here) /\ StrokeKind(Here) = "mark"
      BY <2>2 DEF InChunks, IsMark, IsMotion, StrokeKind
    <3> QED
      BY <1>4, <1>5, <2>2, <3>1
  <2> QED
    BY <2>1, <2>2
<1>9. UNCHANGED <<Lowered, IF Lowered THEN Orders ELSE <<>>>>
  BY <1>2, SameOrders
<1>10. PICK job : job = Orders
  OBVIOUS
<1>11. (IF Lowered THEN Orders ELSE <<>>) = job
  BY <1>2, <1>10
<1>12. machine'.stroke.from = machine.at /\ machine'.stroke.to = machine'.at
  BY DEF IsStroke
<1> QED
  BY <1>2, <1>3, <1>7, <1>8, <1>9, <1>10, <1>11, <1>12 DEF Job!CarryOut

\* LowerStationary, LowerMotion and LowerChunk carry out orders.
LEMMA StationaryIsOrdered ==
  ASSUME EnablesItsLaser, CompilerInv, CompilerInv', DoneInv, LowerStationary
  PROVE  Job!CarryOut
<1>1. /\ AtEvent /\ Here.kind \in {"dwell", "pulse"} /\ stage' = "lower"
      /\ plan' = plan /\ profile' = profile /\ lower' = Past(Here, 1)
  BY DEF LowerStationary, AtEvent
<1>2. PICK e, n : e = Here /\ n = 1
  OBVIOUS
<1>3. e \in Events /\ lower \in Lower /\ ~IsMotion(Here) /\ Here.kind # "modulate"
  BY <1>1, <1>2, AtAnEvent DEF CompilerInv, IsMotion
<1>4. /\ lower'.layer = lower.layer /\ lower'.section = lower.section
      /\ lower'.event = lower.event + 1 /\ lower'.done = lower.done + n
  BY <1>1, <1>2, <1>3, PastTypes
<1>5. machine'.at = machine.at /\ IsStroke(machine, StrokeKind(Here), machine')
  BY StationaryLowered DEF CompilerInv
<1> QED
  BY <1>1, <1>2, <1>3, <1>4, <1>5, StrokeIsOrdered

LEMMA MotionIsOrdered ==
  ASSUME EnablesItsLaser, CompilerInv, CompilerInv', DoneInv, LowerMotion
  PROVE  Job!CarryOut
<1>1. /\ AtEvent /\ IsMotion(Here) /\ stage' = "lower"
      /\ plan' = plan /\ profile' = profile
      /\ lower' = [Past(Here, 1) EXCEPT
                     !.position = Here.to,
                     !.dynamic = (@ \/ Here.kind = "markWith")
                                   /\ Here.kind # "mark"]
  BY DEF LowerMotion, AtEvent
<1>2. PICK e, n, l : e = Here /\ n = 1 /\ l = Past(e, n)
  OBVIOUS
<1>3. e \in Events /\ lower \in Lower /\ Here.kind # "modulate"
  BY <1>1, <1>2, AtAnEvent DEF CompilerInv, IsMotion
<1>4. /\ l \in Lower /\ l.layer = lower.layer /\ l.section = lower.section
      /\ l.event = lower.event + 1 /\ l.done = lower.done + n
  BY <1>1, <1>2, <1>3, PastTypes
<1>5. lower' = [l EXCEPT !.position = e.to,
                         !.dynamic = (l.dynamic \/ e.kind = "markWith")
                                       /\ e.kind # "mark"]
  BY <1>1, <1>2
<1>6. /\ lower'.layer = l.layer /\ lower'.section = l.section
      /\ lower'.event = l.event /\ lower'.done = l.done
  BY <1>4, <1>5 DEF Lower
<1>7. machine'.at = Here.to /\ IsStroke(machine, StrokeKind(Here), machine')
  BY MotionLowered DEF CompilerInv
<1> QED
  BY <1>1, <1>2, <1>3, <1>4, <1>6, <1>7, StrokeIsOrdered

LEMMA ChunkIsOrdered ==
  ASSUME EnablesItsLaser, CompilerInv, CompilerInv', DoneInv, LowerChunk
  PROVE  Job!CarryOut
<1>1. /\ AtEvent /\ InChunks(Here) /\ stage = "lower" /\ stage' = "lower"
      /\ plan' = plan /\ profile' = profile
  BY DEF LowerChunk, AtEvent
<1>2. PICK e, n, by, to, l :
        /\ e = Here /\ n = 1 /\ by = Motion(e).by
        /\ to = <<lower.position[1] + by[1], lower.position[2] + by[2]>>
        /\ l = (IF to = e.to THEN Past(e, n) ELSE lower)
        /\ lower' = [l EXCEPT !.position = to]
  BY DEF LowerChunk
<1>3. /\ e \in Events /\ lower \in Lower /\ lower' \in Lower
      /\ Here.kind # "modulate" /\ lower.event # 0
      /\ IsMark(e) /\ IsMotion(e)
  BY <1>1, <1>2, AtAnEvent DEF CompilerInv, InChunks, IsMark, IsMotion, AtEvent
<1>4. e.to \in Point /\ e.to # Nowhere
  BY <1>3, EventTypes, PlansAssumption
<1>5. /\ profile.chunk \in Nat /\ profile.chunk # 0
      /\ lower.position \in Point /\ machine.at = lower.position
      /\ lower.position[1] = e.to[1] \/ lower.position[2] = e.to[2]
  <2>1. CanLower(Here)
    BY <1>1, LoweringSucceeds DEF AcceptedPlansCompile
  <2>2. /\ lower.position # Nowhere /\ profile.chunk # 0
        /\ lower.position[1] = e.to[1] \/ lower.position[2] = e.to[2]
    BY <1>1, <1>2, <2>1 DEF CanLower
  <2>3. machine.at = lower.position
    BY <1>1, <1>3, <2>2, LocalsFollow DEF LocalsAreTrue
  <2>4. profile.chunk \in Nat
    BY <1>1, SectionInForce DEF CompilerInv, RuidaJobProfile
  <2> QED
    BY <1>3, <2>2, <2>3, <2>4 DEF Lower
<1>6. /\ lower'.position = to /\ lower'.layer = l.layer
      /\ lower'.section = l.section /\ lower'.event = l.event
      /\ lower'.done = l.done
      /\ to # e.to => l = lower
      /\ to = e.to => /\ l.layer = lower.layer /\ l.section = lower.section
                      /\ l.event = lower.event + 1
                      /\ l.done = lower.done + n
  <2>1. CASE to = e.to
    <3>1. /\ l \in Lower /\ l.layer = lower.layer /\ l.section = lower.section
          /\ l.event = lower.event + 1 /\ l.done = lower.done + n
      BY <1>2, <1>3, <2>1, PastTypes
    <3> QED
      BY <1>2, <2>1, <3>1 DEF Lower
  <2>2. CASE to # e.to
    BY <1>2, <1>3, <2>2 DEF Lower
  <2> QED
    BY <2>1, <2>2
<1>7. machine'.at = to /\ IsStroke(machine, StrokeKind(Here), machine')
  <2>1. to # Nowhere
    <3>1. to \in Point
      <4>1. InChunks(e)
        BY <1>1, <1>2
      <4>2. \A j \in 1..2 : by[j] \in Int
        <5>1. \A j \in 1..2 : Within(0, by[j], e.to[j] - lower.position[j])
                             /\ by[j] \in Int
          BY <1>2, <1>3, <1>4, <1>5, <4>1, ChunkEnds
        <5> QED
          BY <5>1
      <4> QED
        BY <1>2, <1>5, <4>2 DEF Point
    <3> QED
      BY <3>1, PlansAssumption
  <2>2. lower'.event # 0
    BY <1>3, <1>6 DEF Lower
  <2>3. LocalsAreTrue'
    <3>1. (CompilerInv => LocalsAreTrue)'
      BY LocalsFollow, PTL
    <3> QED
      BY <3>1
  <2>4. machine'.at = to
    BY <1>1, <1>6, <2>1, <2>2, <2>3 DEF LocalsAreTrue
  <2>5. StrokeKind(Here) = "mark"
    BY <1>2, <1>3 DEF StrokeKind, IsMark
  <2> QED
    BY <2>4, <2>5, ChunkLowered DEF CompilerInv
<1>8. CASE to = e.to
  BY <1>1, <1>2, <1>3, <1>6, <1>7, <1>8, StrokeIsOrdered
<1>9. CASE to # e.to
  <2>1. Job!OnTheWay(machine.at, machine'.at, Here.to)
    BY <1>1, <1>2, <1>3, <1>4, <1>5, <1>7, <1>9, ChunkGoesOn
  <2> QED
    BY <1>1, <1>2, <1>3, <1>6, <1>7, <1>9, <2>1, StrokeIsOrdered
<1> QED
  BY <1>8, <1>9

\* The other steps of the lowering move nothing.
LEMMA LoweringStutters ==
  ASSUME plan' = plan, Lowered, Lowered', lower'.done = lower.done,
         machine'.at = machine.at, machine'.stroke = machine.stroke
  PROVE  UNCHANGED Job!jobvars
<1>1. UNCHANGED <<Lowered, IF Lowered THEN Orders ELSE <<>>>>
  BY SameOrders
<1> QED
  BY <1>1 DEF Job!jobvars

\* Nor do those of the analysis.
LEMMA AnalysisStutters ==
  ASSUME ~Lowered, ~Lowered', lower' = lower, machine' = machine
  PROVE  UNCHANGED Job!jobvars
<1>1. /\ Lowered = FALSE /\ Lowered' = FALSE
      /\ (IF Lowered THEN Orders ELSE <<>>) = <<>>
      /\ (IF Lowered THEN Orders ELSE <<>>)' = <<>>
  OBVIOUS
<1> QED
  BY <1>1 DEF Job!jobvars

\* Every step is one of LaserJob's, or changes nothing LaserJob knows.
LEMMA StepsAreOrdered ==
  ASSUME EnablesItsLaser, CompilerInv, CompilerInv', DoneInv,
         Next \/ UNCHANGED vars
  PROVE  Job!Next \/ UNCHANGED Job!jobvars
<1>1. /\ Machine(machine) /\ lower \in Lower
      /\ PlanInv /\ StageInv /\ MetadataInv /\ LowerInv /\ MotionInv
  BY DEF CompilerInv
<1>2. CASE \/ \E h \in Headers : Open(h) \/ OpenRefused(h)
           \/ \E e \in Events : Add(e) \/ AddRefused(e)
           \/ NextSection \/ CloseLayer \/ CloseRefused
           \/ \E b \in Declared : EndAnalysis(b) \/ EndRefused(b)
           \/ \E p \in Profiles : FeaturesRefused(p)
  <2>1. /\ stage \in {"analyse", "features"}
        /\ stage' \in {"analyse", "features", "rejected"}
        /\ lower' = lower /\ machine' = machine
    BY <1>2 DEF Open, OpenRefused, Add, AddRefused, NextSection, CloseLayer,
       CloseRefused, EndAnalysis, EndRefused, FeaturesRefused, Reject
  <2>2. ~Lowered /\ ~Lowered'
    BY <2>1 DEF Lowered
  <2> QED
    BY <2>1, <2>2, AnalysisStutters
<1>3. CASE \E p \in Profiles : Accept(p)
  <2>1. PICK p \in Profiles : Accept(p)
    BY <1>3
  <2>2. /\ stage = "features" /\ stage' = "metadata" /\ lower' = lower
        /\ \E loads \in BOOLEAN : machine' = Controller!Idle(loads)
    BY <2>1 DEF Accept
  <2>3. /\ ~Lowered /\ Lowered' /\ lower'.done = 0
    BY <1>1, <2>2 DEF Lowered, StageInv, Started
  <2>4. machine'.at = Nowhere /\ machine'.stroke = [kind |-> "none"]
    BY <2>2, IdleMachine
  <2>5. machine.at = Nowhere /\ machine.stroke = [kind |-> "none"]
    BY <1>1, <2>2, IdleMachine DEF StageInv
  <2>6. Job!Accept
    BY <2>3, <2>4, <2>5 DEF Job!Accept
  <2> QED
    BY <2>6 DEF Job!Next
<1>4. CASE Metadata
  <2>1. /\ stage = "metadata" /\ stage' = "lower" /\ plan' = plan
        /\ lower' = lower
    BY <1>4 DEF Metadata
  <2>2. machine'.at = machine.at /\ machine'.stroke = machine.stroke
    <3>1. machine.at = Nowhere
      BY <1>1, <2>1, IdleMachine DEF StageInv
    <3> QED
      BY <1>1, <1>4, <3>1, MetadataTold
  <2> QED
    BY <2>1, <2>2, LoweringStutters DEF Lowered
<1>5. CASE BeginSection
  <2>1. /\ stage = "lower" /\ stage' = "lower" /\ plan' = plan
        /\ lower' = [lower EXCEPT !.event = 1, !.position = Nowhere,
                                  !.dynamic = FALSE, !.previous = "none"]
    BY <1>5 DEF BeginSection
  <2>2. lower'.done = lower.done
    BY <1>1, <2>1 DEF Lower
  <2>3. machine'.at = machine.at /\ machine'.stroke = machine.stroke
    BY <1>1, <1>5, SectionBegins
  <2> QED
    BY <2>1, <2>2, <2>3, LoweringStutters DEF Lowered
<1>6. CASE LowerModulation
  <2>1. /\ AtEvent /\ stage = "lower" /\ stage' = "lower" /\ plan' = plan
        /\ lower' = Past(Here, 0)
    BY <1>6 DEF LowerModulation, AtEvent
  <2>2. PICK e, n : e = Here /\ n = 0
    OBVIOUS
  <2>3. e \in Events
    BY <1>1, <2>1, <2>2, AtAnEvent
  <2>4. lower'.done = lower.done + n /\ lower.done \in Nat
    BY <1>1, <2>1, <2>2, <2>3, PastTypes DEF Lower
  <2>5. machine'.at = machine.at /\ machine'.stroke = machine.stroke
    BY <1>1, <1>6, ModulationLowered
  <2>6. lower'.done = lower.done
    BY <2>2, <2>4
  <2> QED
    BY <2>1, <2>5, <2>6, LoweringStutters DEF Lowered
<1>7. CASE LowerStationary
  BY <1>7, StationaryIsOrdered DEF Job!Next
<1>8. CASE LowerMotion
  BY <1>8, MotionIsOrdered DEF Job!Next
<1>9. CASE LowerChunk
  BY <1>9, ChunkIsOrdered DEF Job!Next
<1>10. CASE EndSection
  <2>1. stage = "lower" /\ stage' \in {"lower", "compiled"} /\ plan' = plan
    BY <1>10 DEF EndSection
  <2>2. lower'.done = lower.done
    <3>1. CASE LastSection
      <4>1. lower' = [lower EXCEPT !.layer = @ + 1, !.section = 1,
                                   !.event = 0]
        BY <1>10, <3>1 DEF EndSection
      <4> QED
        BY <1>1, <4>1 DEF Lower
    <3>2. CASE ~LastSection
      <4>1. lower' = [lower EXCEPT !.section = @ + 1, !.event = 0]
        BY <1>10, <3>2 DEF EndSection
      <4> QED
        BY <1>1, <4>1 DEF Lower
    <3> QED
      BY <3>1, <3>2
  <2>3. machine'.at = machine.at /\ machine'.stroke = machine.stroke
    BY <1>1, <1>10, SectionEnds
  <2> QED
    BY <2>1, <2>2, <2>3, LoweringStutters DEF Lowered
<1>11. CASE UNCHANGED vars
  BY <1>11 DEF vars, Job!jobvars, Lowered, Orders
<1> QED
  BY <1>2, <1>3, <1>4, <1>5, <1>6, <1>7, <1>8, <1>9, <1>10, <1>11 DEF Next

\* ImplementsPlan for all plans, and all profiles that enable the laser of the
\* layers without channels: the head carries out the orders of the plan, one after
\* the other and as they are planned, and nothing else.
THEOREM CompilerImplementsPlan ==
  ASSUME EnablesItsLaser
  PROVE  Spec => ImplementsPlan
<1>1. Init => Job!Init
  BY DEF Init, Job!Init, Lowered, Started
<1>2. CompilerInv /\ DoneInv /\ CompilerInv' /\ [Next]_vars
        => [Job!Next]_(Job!jobvars)
  BY StepsAreOrdered
<1> QED
  BY <1>1, <1>2, DoneAlways, PTL DEF Spec, ImplementsPlan, Job!Spec

=============================================================================
