----------------------------- MODULE JobCompiler -----------------------------
(***************************************************************************)
(* RuidaJobCompiler.compile: a plan is analysed event by event, checked    *)
(* against the profile, and lowered to records.  The plan is chosen while  *)
(* it is analysed; a controller that executes the records as they are      *)
(* lowered shows what they amount to.                                      *)
(*                                                                         *)
(* Lengths are microns, that is, as _coordinates rounds them.  Powers are  *)
(* in a unit finer than the wire's: Wire rounds them.                      *)
(***************************************************************************)
EXTENDS Integers, Sequences, SequencesExt, FiniteSets, FiniteSetsExt

CONSTANTS
  Profiles,     \* the profiles a compiler may be made with
  Headers,      \* the layers, without their events
  Events,
  Declared,     \* the declared metadata bounds of plans; NoBounds for none
  MaxEvents,    \* bound: events of a plan, by the kind of its last layer
  FullPower,    \* 100 percent
  Floor,        \* _LIGHTBURN_MARK_POWER_WIRE_FLOOR
  MaxS14,       \* S14_MAX; S14_MIN is -(MaxS14 + 1)
  MaxAbsolute,  \* MAX_ABSOLUTE_MICRONS
  MaxU35,
  Grid,         \* metadata coordinates are multiples of it
  NoChannels, NoBounds, Nowhere, NoModulation, NoProfile

-----------------------------------------------------------------------------
(* The plans and profiles there are: the fields of the classes that decide *)
(* anything here.  An absent channel mode, frequency mode and the like are *)
(* empty sets, an absent limit is 0.                                       *)

LaserHead == {1, 2}
Point == Int \X Int

MotionEvent == [kind : {"travel", "mark", "markCurrent"}, to : Point]

LaserChannelPlan == [enabled : BOOLEAN, min : Int, max : Int]
ChannelPlans == [{1} -> LaserChannelPlan] \cup [{2} -> LaserChannelPlan]
                  \cup [LaserHead -> LaserChannelPlan]

MarkWithPower == [kind : {"markWith"}, to : Point, channels : ChannelPlans]
StationaryEvent == [kind : {"dwell", "pulse"}, duration : Int]
SetModulation == [kind : {"modulate"}, value : Int]

LayerEvent == MotionEvent \cup MarkWithPower \cup StationaryEvent
                \cup SetModulation

Bounds == Point \X Point

\* A LayerPlan without its events.
LayerPlan ==
  [index : Int, kind : {"vector", "raster"},
   processing : {"none", "native", "planned-path"},
   axis : {"none", "horizontal", "vertical"},
   strategy : {"none", "unidirectional", "bidirectional"},
   laser : Int, min : Int, max : Int,
   channels : ChannelPlans \cup {NoChannels}, speed : Int, air : BOOLEAN,
   z : Int, frequency : Nat, width : Nat \cup {-1}]

\* The set of the enable masks is a set of sets of heads; a mode that selects
\* one value in a range is the set of those values.
RuidaJobProfile ==
  [kinds : SUBSET {"vector", "raster"}, count : Nat, indices : SUBSET Nat,
   processing : {"any", "native", "planned-path"},
   rasterModes : SUBSET ({"horizontal", "vertical"}
                           \X {"unidirectional", "bidirectional"}),
   plannedPath : BOOLEAN, chunk : Nat, lasers : SUBSET LaserHead,
   enable : SUBSET LaserHead, heads : SUBSET LaserHead,
   masks : SUBSET SUBSET LaserHead, stationary : BOOLEAN,
   relativeAfterPulse : BOOLEAN, maxDuration : Nat, frequencies : SUBSET Nat,
   widths : SUBSET Nat, zLimit : Nat, dynamic : BOOLEAN,
   mutableMin : SUBSET LaserHead, mutableMax : SUBSET LaserHead,
   requiredLower : SUBSET LaserHead]

ASSUME PlansAssumption ==
  /\ Headers \subseteq LayerPlan /\ Events \subseteq LayerEvent
  /\ Declared \subseteq Bounds \cup {NoBounds}
  /\ Profiles \subseteq RuidaJobProfile
  /\ Nowhere \notin Point /\ NoChannels \notin ChannelPlans
  /\ NoBounds \notin Bounds /\ NoModulation \notin Int

ASSUME CompilerAssumption ==
  /\ MaxEvents \in [{"vector", "raster"} -> Nat]
  /\ FullPower \in Nat /\ Floor \in Nat
  /\ MaxS14 \in Nat \ {0} /\ MaxAbsolute \in Nat /\ MaxU35 \in Nat
  /\ Grid \in Nat \ {0}

VARIABLES
  profile,
  stage,      \* "analyse", "features", "metadata", "lower", then "compiled"
              \* or "rejected"
  plan,       \* the layers so far, each [header, sections]
  scan,       \* the locals of _analyze_event_group
  declared,   \* the plan's declared metadata bounds
  lower,      \* the locals of _layer_program and _layer_section_program
  machine     \* the controller that has executed the records so far

vars == <<profile, stage, plan, scan, declared, lower, machine>>

Controller == INSTANCE LaserMachine WITH Layer <- {h.index : h \in Headers}

-----------------------------------------------------------------------------
(* Powers and coordinates.                                                 *)

Wire(power) == (power + 1) \div 2

WirePair(channel) == <<Wire(channel.min), Wire(channel.max)>>

IsPower(power) == power \in 0..FullPower

RangeIsValid(r) == IsPower(r.min) /\ IsPower(r.max) /\ r.min <= r.max

\* _channel_plans.
ChannelsAreValid(channels) ==
  /\ DOMAIN channels # {} /\ DOMAIN channels \subseteq LaserHead
  /\ \A h \in DOMAIN channels : RangeIsValid(channels[h])

\* _require_observed_mark_power_encoding: of the channels, or of the layer.
AboveFloor(channels) ==
  /\ \E h \in DOMAIN channels : channels[h].enabled
  /\ \A h \in DOMAIN channels :
       channels[h].enabled =>
         Wire(channels[h].min) >= Floor /\ Wire(channels[h].max) >= Floor

LayerAboveFloor(h) ==
  IF h.channels = NoChannels
    THEN Wire(h.min) >= Floor /\ Wire(h.max) >= Floor
    ELSE AboveFloor(h.channels)

IsPoint(p) == p[1] \in 0..MaxAbsolute /\ p[2] \in 0..MaxAbsolute

FitsS14(d) == -(MaxS14 + 1) <= d /\ d <= MaxS14

Delta(p, q) == <<q[1] - p[1], q[2] - p[2]>>

\* Mutant: the rounding of a coordinate downwards.
MetadataFloor(c) == (c \div Grid) * Grid

\* _metadata_coordinate: to the nearest multiple, halves up.
MetadataCoordinate(c) == ((c + Grid \div 2) \div Grid) * Grid

\* Bounds are <<minimum point, maximum point>>.
BoundsOf(points) ==
  LET X == {p[1] : p \in points}
      Y == {p[2] : p \in points}
  IN  <<<<Min(X), Min(Y)>>, <<Max(X), Max(Y)>>>>

MetadataBounds(b) ==
  [i \in 1..2 |-> [j \in 1..2 |-> MetadataCoordinate(b[i][j])]]

BoundsAreValid(b) ==
  /\ IsPoint(b[1]) /\ IsPoint(b[2])
  /\ b[1][1] <= b[2][1] /\ b[1][2] <= b[2][2]

-----------------------------------------------------------------------------
(* The profile.                                                            *)

ScopeIsPossible(p) ==
  /\ p.kinds # {} /\ p.kinds \subseteq {"vector", "raster"}
  /\ p.count \in 0..128 /\ p.indices # {}
  /\ p.count # 0 => Cardinality(p.indices) >= p.count
  /\ p.processing # "any" => "raster" \in p.kinds
  /\ p.processing = "planned-path" => p.plannedPath
  /\ p.rasterModes # {} => p.chunk # 0
  /\ p.chunk \in 0..MaxS14

MasksArePossible(p) == p.masks \subseteq SUBSET p.heads \ {{}}

ModeLimitsFit(p) ==
  /\ p.maxDuration \in 0..MaxU35
  /\ p.frequencies \subseteq 1..MaxU35 /\ p.widths \subseteq 0..MaxU35
  /\ p.zLimit \in 0..MaxAbsolute

DynamicPolicyIsValid(p) ==
  p.dynamic => /\ p.heads # {} /\ p.mutableMin \subseteq p.heads
               /\ p.mutableMax \subseteq p.heads
               /\ p.requiredLower \subseteq p.mutableMax

\* _validate_profile_policy: the compiler is not made with another one.
PolicyIsValid(p) ==
  /\ ScopeIsPossible(p) /\ MasksArePossible(p) /\ ModeLimitsFit(p)
  /\ DynamicPolicyIsValid(p)

\* mode_for finds a mode.
HasMode(p, h) ==
  \/ h.kind = "vector"
  \/ h.kind = "raster" /\ h.processing = "planned-path" /\ p.plannedPath
  \/ /\ h.kind = "raster" /\ h.processing # "planned-path"
     /\ <<h.axis, h.strategy>> \in p.rasterModes

-----------------------------------------------------------------------------
(* _analyze.                                                               *)

FreshScan ==
  [open |-> TRUE, position |-> Nowhere, points |-> {}, marked |-> FALSE,
   sign |-> 0, pending |-> FALSE, modulation |-> NoModulation,
   active |-> NoChannels]

ClosedScan == [open |-> FALSE]

Started ==
  [layer |-> 1, section |-> 1, event |-> 0, position |-> Nowhere,
   dynamic |-> FALSE, previous |-> "none", done |-> 0]

\* The analysis looks at no profile: it is chosen when it is first asked.
Init ==
  /\ profile = NoProfile
  /\ stage = "analyse" /\ plan = <<>> /\ scan = ClosedScan
  /\ declared = NoBounds /\ lower = Started
  /\ machine = Controller!Idle(FALSE)

Reject ==
  /\ stage' = "rejected" /\ plan' = <<>> /\ scan' = ClosedScan
  /\ profile' = NoProfile /\ declared' = NoBounds
  /\ UNCHANGED <<lower, machine>>

Native(h) == h.kind = "raster" /\ h.processing # "planned-path"

\* _layer_event_groups, as far as the header goes.
KindIsValid(h) ==
  CASE h.kind = "vector" -> /\ h.processing = "none" /\ h.axis = "none"
                            /\ h.strategy = "none"
    [] h.kind = "raster" /\ h.processing = "planned-path" ->
         h.axis = "none" /\ h.strategy = "none"
    [] Native(h) -> /\ h.axis \in {"horizontal", "vertical"}
                    /\ h.strategy \in {"unidirectional", "bidirectional"}
    [] OTHER -> FALSE

HeaderIsValid(h) ==
  /\ h.index = Len(plan)
  /\ h.speed \in 1..MaxU35
  /\ RangeIsValid(h)
  /\ h.channels # NoChannels =>
       /\ ChannelsAreValid(h.channels) /\ h.laser = 1
       /\ \E i \in DOMAIN h.channels : h.channels[i].enabled
       /\ 1 \in DOMAIN h.channels =>
            h.channels[1].min = h.min /\ h.channels[1].max = h.max
  /\ h.frequency \in 0..MaxU35 /\ h.width \in -1..MaxU35
  /\ h.z \in -MaxAbsolute..MaxAbsolute
  /\ KindIsValid(h)

Open(h) ==
  /\ stage = "analyse" /\ ~scan.open /\ HeaderIsValid(h)
  /\ plan' = Append(plan, [header |-> h, sections |-> <<<<>>>>])
  /\ scan' = FreshScan
  /\ UNCHANGED <<profile, stage, declared, lower, machine>>

OpenRefused(h) ==
  /\ stage = "analyse" /\ ~scan.open /\ ~HeaderIsValid(h)
  /\ Reject

Current == plan[Len(plan)].header

IsMotion(e) == e.kind \in {"travel", "mark", "markWith", "markCurrent"}
IsMark(e)   == e.kind \in {"mark", "markWith", "markCurrent"}

\* _raster_mark_delta, with the layer's direction so far.
SpanIsValid(h, s, e) ==
  LET d == Delta(s.position, e.to)
      along == IF h.axis = "horizontal" THEN d[1] ELSE d[2]
      across == IF h.axis = "horizontal" THEN d[2] ELSE d[1]
  IN  /\ across = 0
      /\ h.strategy = "unidirectional" /\ s.sign # 0 =>
           (along > 0) = (s.sign > 0)

\* The powers the event marks with besides the layer's: MarkTo goes back to
\* those.
ActiveAfter(s, e) ==
  CASE e.kind = "markWith" -> e.channels
    [] e.kind = "mark"     -> NoChannels
    [] OTHER               -> s.active

MarkIsValid(h, s, e) ==
  /\ e.to # s.position
  /\ Native(h) => SpanIsValid(h, s, e)
  /\ LayerAboveFloor(h)
  /\ ActiveAfter(s, e) # NoChannels => AboveFloor(ActiveAfter(s, e))
  /\ h.kind = "raster" /\ s.modulation # NoModulation =>
       Wire(s.modulation) >= Floor

\* An event of the layer h after what s remembers of its section.
EventIsValid(h, s, e) ==
  CASE e.kind = "modulate" -> IsPower(e.value) /\ Native(h)
    [] e.kind \in {"dwell", "pulse"} ->
         /\ e.duration \in 1..MaxU35 /\ h.kind = "vector"
         /\ s.position # Nowhere
         /\ e.kind = "pulse" =>
              /\ LayerAboveFloor(h)
              /\ s.active # NoChannels => AboveFloor(s.active)
    [] OTHER ->
         /\ e.kind \in {"markWith", "markCurrent"} => h.kind = "vector"
         /\ e.kind = "markWith" => ChannelsAreValid(e.channels)
         /\ e.kind = "markCurrent" => s.active # NoChannels
         /\ IsPoint(e.to)
         /\ s.position = Nowhere => e.kind = "travel"
         /\ IsMark(e) => MarkIsValid(h, s, e)

Sign(n) == IF n > 0 THEN 1 ELSE IF n < 0 THEN -1 ELSE 0

\* What is remembered after it.
Scanned(h, s, e) ==
  CASE e.kind = "modulate" ->
         [s EXCEPT !.pending = TRUE, !.modulation = e.value]
    [] e.kind = "dwell"    -> s
    [] e.kind = "pulse"    -> [s EXCEPT !.marked = TRUE]
    [] e.kind = "travel"   ->
         [s EXCEPT !.position = e.to, !.points = @ \cup {e.to}]
    [] OTHER ->
         LET d == Delta(s.position, e.to)
         IN  [s EXCEPT !.position = e.to, !.points = @ \cup {e.to},
                       !.marked = TRUE, !.pending = FALSE,
                       !.active = ActiveAfter(s, e),
                       !.sign = IF Native(h) /\ h.strategy = "unidirectional"
                                  THEN Sign(d[1] + d[2]) ELSE @]

Concatenation(sequences) ==
  LET first[n \in 0..Len(sequences)] ==
        IF n = 0 THEN <<>> ELSE first[n - 1] \o sequences[n]
  IN  first[Len(sequences)]

\* The events of a layer, in order.
EventsOf(layer) == Concatenation(layer.sections)

PlanLength ==
  Len(Concatenation([l \in DOMAIN plan |-> EventsOf(plan[l])]))

Add(e) ==
  /\ stage = "analyse" /\ scan.open /\ PlanLength < MaxEvents[Current.kind]
  /\ EventIsValid(Current, scan, e)
  /\ LET l == Len(plan)
         s == Len(plan[l].sections)
     IN  plan' = [plan EXCEPT ![l].sections[s] = Append(@, e)]
  /\ scan' = Scanned(Current, scan, e)
  /\ UNCHANGED <<profile, stage, declared, lower, machine>>

AddRefused(e) ==
  /\ stage = "analyse" /\ scan.open /\ ~EventIsValid(Current, scan, e)
  /\ Reject

\* Mutant: a SetModulation may be the last event of a layer.
SectionMarks == scan.points # {} /\ scan.marked

SectionIsValid == scan.points # {} /\ scan.marked /\ ~scan.pending

\* The next section of a planned path.
NextSection ==
  /\ stage = "analyse" /\ scan.open /\ SectionIsValid
  /\ Current.processing = "planned-path"
  /\ plan' = [plan EXCEPT ![Len(plan)].sections = Append(@, <<>>)]
  /\ scan' = FreshScan
  /\ UNCHANGED <<profile, stage, declared, lower, machine>>

CloseLayer ==
  /\ stage = "analyse" /\ scan.open /\ SectionIsValid
  /\ scan' = ClosedScan
  /\ UNCHANGED <<profile, stage, plan, declared, lower, machine>>

CloseRefused ==
  /\ stage = "analyse" /\ scan.open /\ ~SectionIsValid
  /\ Reject

PointsOf(layer) == {e.to : e \in {f \in ToSet(EventsOf(layer)) : IsMotion(f)}}

BoundsOfPlan ==
  BoundsOf(UNION {PointsOf(plan[l]) : l \in DOMAIN plan})

JobBounds(b) == IF b # NoBounds THEN b ELSE MetadataBounds(BoundsOfPlan)

\* The metadata of a layer are rounded even if the job's are declared.
PlanIsValid(b) ==
  /\ plan # <<>>
  /\ BoundsAreValid(MetadataBounds(BoundsOfPlan))
  /\ BoundsAreValid(JobBounds(b))

\* The last checks of _analyze.
EndAnalysis(b) ==
  /\ stage = "analyse" /\ ~scan.open /\ PlanIsValid(b)
  /\ declared' = b /\ stage' = "features"
  /\ UNCHANGED <<profile, plan, scan, lower, machine>>

EndRefused(b) ==
  /\ stage = "analyse" /\ ~scan.open /\ ~PlanIsValid(b)
  /\ Reject

-----------------------------------------------------------------------------
(* _validate_profile_features.                                             *)

\* _validate_profile_scope.
InScope(p) ==
  /\ p.count # 0 => Len(plan) = p.count
  /\ \A l \in DOMAIN plan :
       LET h == plan[l].header
       IN  /\ h.kind \in p.kinds
           /\ h.index \in p.indices
           /\ p.processing # "any" =>
                /\ h.kind = "raster"
                /\ (h.processing = "planned-path")
                     = (p.processing = "planned-path")

ZIsSupported(p) ==
  \A l \in DOMAIN plan :
    LET h == plan[l].header
    IN  h.z # 0 => /\ Len(plan) = 1 /\ Native(h)
                   /\ p.zLimit # 0 /\ -p.zLimit <= h.z /\ h.z <= p.zLimit

EnabledIn(channels) == {i \in DOMAIN channels : channels[i].enabled}

\* _validate_laser_configuration and _mapped_channels.
LaserIsSupported(p, h) ==
  IF h.channels = NoChannels THEN h.laser \in p.lasers
  ELSE /\ p.heads # {} /\ DOMAIN h.channels = p.heads
       /\ EnabledIn(h.channels) \in p.masks

SourceIsSupported(p, h) ==
  /\ h.frequency # 0 => h.kind = "vector" /\ h.frequency \in p.frequencies
  /\ h.width # -1 => h.kind = "vector" /\ h.width \in p.widths

\* _validate_dynamic_power_limits.
DynamicLimits(p, layer, mark) ==
  \A i \in DOMAIN layer :
    LET given == WirePair(layer[i])
        asked == WirePair(mark[i])
    IN  /\ given[1] <= asked[1] /\ asked[2] <= given[2]
        /\ i \notin p.mutableMin => asked[1] = given[1]
        /\ i \notin p.mutableMax => asked[2] = given[2]
        /\ i \in p.requiredLower => asked[2] < given[2]

EventIsSupported(p, h, e) ==
  /\ e.kind \in {"dwell", "pulse"} =>
       p.stationary /\ (p.maxDuration # 0 => e.duration <= p.maxDuration)
  /\ e.kind \in {"markWith", "markCurrent"} =>
       p.dynamic /\ h.channels # NoChannels
  /\ e.kind = "markWith" =>
       /\ DOMAIN e.channels = p.heads
       /\ EnabledIn(e.channels) = EnabledIn(h.channels)
       /\ DynamicLimits(p, h.channels, e.channels)

FeaturesAreSupported(p) ==
  /\ InScope(p) /\ ZIsSupported(p)
  /\ \A l \in DOMAIN plan :
       LET h == plan[l].header
       IN  /\ LaserIsSupported(p, h) /\ SourceIsSupported(p, h)
           /\ \A e \in ToSet(EventsOf(plan[l])) : EventIsSupported(p, h, e)
           /\ HasMode(p, h)

Accept(p) ==
  /\ stage = "features" /\ PolicyIsValid(p) /\ FeaturesAreSupported(p)
  /\ profile' = p /\ stage' = "metadata"
  /\ \E loads \in BOOLEAN : machine' = Controller!Idle(loads)
  /\ UNCHANGED <<plan, scan, declared, lower>>

FeaturesRefused(p) ==
  /\ stage = "features" /\ PolicyIsValid(p) /\ ~FeaturesAreSupported(p)
  /\ Reject

-----------------------------------------------------------------------------
(* Lowering.                                                               *)

\* _layer_power_metadata and _power_setup write the same powers, of both heads
\* when the layer names none.
PowerOf(h) ==
  IF h.channels = NoChannels
    THEN [i \in LaserHead |-> <<Wire(h.min), Wire(h.max)>>]
    ELSE [i \in DOMAIN h.channels |-> WirePair(h.channels[i])]

\* _laser_enable_value.
EnabledHeads(h) ==
  IF h.channels = NoChannels THEN profile.enable ELSE EnabledIn(h.channels)

\* The points of _prologue, which _document_metadata writes again.
Prologue == <<[do |-> "bounds", bounds |-> JobBounds(declared)]>>
DocumentMetadata == <<[do |-> "bounds", bounds |-> JobBounds(declared)]>>

\* The speed, color, mode and points of a layer's metadata are repeated or not
\* used by its program.
LayerMetadata(h) ==
  [do |-> "limits", layer |-> h.index, power |-> PowerOf(h)]

\* compile, up to the programs of the layers.
Metadata ==
  /\ stage = "metadata" /\ stage' = "lower"
  /\ machine' = Controller!ExecuteAll(machine,
       Prologue \o [l \in DOMAIN plan |-> LayerMetadata(plan[l].header)]
                \o DocumentMetadata)
  /\ UNCHANGED <<profile, plan, scan, declared, lower>>

H == plan[lower.layer].header
Section == plan[lower.layer].sections[lower.section]
Here == Section[lower.event]

\* Mutant: the axis is not moved back.
ZEntry(h, by) ==
  IF h.z = 0 \/ by = h.z THEN <<>>
  ELSE <<[do |-> "select", layer |-> h.index],
         [do |-> "enable", heads |-> LaserHead],
         [do |-> "z", by |-> by]>>

\* _z_offset_envelope: both heads are enabled while the axis moves.
ZEnvelope(h, by) ==
  IF h.z = 0 THEN <<>>
  ELSE <<[do |-> "select", layer |-> h.index],
         [do |-> "enable", heads |-> LaserHead],
         [do |-> "z", by |-> by]>>

\* Mutant: the powers are left to the metadata of the selected layer.
SetupBySelection(h) ==
  <<[do |-> "select", layer |-> h.index],
    [do |-> "air", on |-> h.air],
    [do |-> "speed", speed |-> h.speed],
    [do |-> "enable", heads |-> EnabledHeads(h)]>>

PowerSetup(h) == [do |-> "power", power |-> PowerOf(h)]

\* The setup of _layer_section_program.
Setup(h) ==
  <<[do |-> "select", layer |-> h.index],
    [do |-> "air", on |-> h.air],
    [do |-> "speed", speed |-> h.speed],
    PowerSetup(h),
    [do |-> "enable", heads |-> EnabledHeads(h)]>>

\* _layer_program up to the first event of a section.
BeginSection ==
  /\ stage = "lower" /\ lower.event = 0
  /\ machine' = Controller!ExecuteAll(machine, ZEnvelope(H, -H.z) \o Setup(H))
  /\ lower' = [lower EXCEPT !.event = 1, !.position = Nowhere,
                            !.dynamic = FALSE, !.previous = "none"]
  /\ UNCHANGED <<profile, stage, plan, scan, declared>>

AtEvent == /\ stage = "lower" /\ lower.event # 0
           /\ lower.event <= Len(Section)

\* _dynamic_power_envelope.
PowerEnvelope(h, channels) ==
  <<[do |-> "select", layer |-> h.index],
    [do |-> "power",
     power |-> [i \in DOMAIN channels |-> WirePair(channels[i])]]>>

Restores(e) == e.kind = "mark" /\ lower.dynamic

\* Mutant: a MarkTo does not write the layer's powers again.
PowersWithoutRestore(e) ==
  IF e.kind = "markWith" THEN PowerEnvelope(H, e.channels) ELSE <<>>

\* The powers that are written before a motion.
Powers(e) ==
  CASE e.kind = "markWith" -> PowerEnvelope(H, e.channels)
    [] Restores(e)         -> PowerEnvelope(H, H.channels)
    [] OTHER               -> <<>>

Absolute(e) ==
  [do |-> IF e.kind = "travel" THEN "move" ELSE "cut", to |-> e.to]

\* _raster_motion: its horizontal and vertical forms move as the relative one.
RasterMotion(e) ==
  LET d == Delta(lower.position, e.to)
  IN  IF lower.position = Nowhere THEN [do |-> "move", to |-> e.to]
      ELSE IF FitsS14(d[1]) /\ FitsS14(d[2])
        THEN [do |-> IF e.kind = "travel" THEN "moveBy" ELSE "cutBy", by |-> d]
      ELSE Absolute(e)

Relative(e) ==
  \/ H.kind = "raster"
  \/ /\ e.kind = "travel" /\ profile.stationary
     /\ profile.relativeAfterPulse /\ lower.previous = "pulse"

\* Mutant: a mark is one relative cut.
WholeMark(delta) == delta

\* One chunk of _s14_chunks.
Chunk(delta) ==
  IF delta > 0 THEN Min({delta, profile.chunk})
  ELSE Max({delta, -profile.chunk})

\* A chunk of _native_raster_mark_motion.
NativeMotion(e) ==
  LET d == Delta(lower.position, e.to)
  IN  [do |-> "cutBy", by |-> <<Chunk(d[1]), Chunk(d[2])>>]

InChunks(e) == Native(H) /\ IsMark(e)

Motion(e) ==
  IF InChunks(e) THEN NativeMotion(e)
  ELSE IF Relative(e) THEN RasterMotion(e)
  ELSE Absolute(e)

Past(e, orders) ==
  [lower EXCEPT !.event = @ + 1, !.previous = e.kind, !.done = @ + orders]

LowerModulation ==
  /\ AtEvent /\ Here.kind = "modulate"
  /\ machine' = Controller!ExecuteAll(machine,
                  <<[do |-> "modulate", value |-> Wire(Here.value)]>>)
  /\ lower' = Past(Here, 0)
  /\ UNCHANGED <<profile, stage, plan, scan, declared>>

LowerStationary ==
  /\ AtEvent /\ Here.kind \in {"dwell", "pulse"}
  /\ machine' = Controller!ExecuteAll(machine,
       <<[do |-> IF Here.kind = "dwell" THEN "wait" ELSE "pulse"]>>)
  /\ lower' = Past(Here, 1)
  /\ UNCHANGED <<profile, stage, plan, scan, declared>>

LowerMotion ==
  /\ AtEvent /\ IsMotion(Here) /\ ~InChunks(Here)
  /\ machine' = Controller!ExecuteAll(machine,
                                      Append(Powers(Here), Motion(Here)))
  /\ lower' = [Past(Here, 1) EXCEPT
                 !.position = Here.to,
                 !.dynamic = (@ \/ Here.kind = "markWith")
                               /\ Here.kind # "mark"]
  /\ UNCHANGED <<profile, stage, plan, scan, declared>>

\* The next chunk of a mark of a native raster.
LowerChunk ==
  /\ AtEvent /\ InChunks(Here)
  /\ machine' = Controller!ExecuteAll(machine, <<Motion(Here)>>)
  /\ LET by == Motion(Here).by
         to == <<lower.position[1] + by[1], lower.position[2] + by[2]>>
     IN  lower' = [IF to = Here.to THEN Past(Here, 1) ELSE lower
                     EXCEPT !.position = to]
  /\ UNCHANGED <<profile, stage, plan, scan, declared>>

LastSection == lower.section = Len(plan[lower.layer].sections)

\* The end of a section and, after the last one, the end of the layer.
EndSection ==
  /\ stage = "lower" /\ lower.event = Len(Section) + 1
  /\ machine' = Controller!ExecuteAll(machine, ZEnvelope(H, H.z))
  /\ IF LastSection
       THEN /\ lower' = [lower EXCEPT !.layer = @ + 1, !.section = 1,
                                      !.event = 0]
            /\ stage' = IF lower.layer = Len(plan) THEN "compiled" ELSE "lower"
       ELSE /\ lower' = [lower EXCEPT !.section = @ + 1, !.event = 0]
            /\ stage' = "lower"
  /\ UNCHANGED <<profile, plan, scan, declared>>

Next ==
  \/ \E h \in Headers : Open(h) \/ OpenRefused(h)
  \/ \E e \in Events : Add(e) \/ AddRefused(e)
  \/ NextSection \/ CloseLayer \/ CloseRefused
  \/ \E b \in Declared : EndAnalysis(b) \/ EndRefused(b)
  \/ \E p \in Profiles : Accept(p) \/ FeaturesRefused(p)
  \/ Metadata \/ BeginSection \/ LowerModulation \/ LowerStationary
  \/ LowerMotion \/ LowerChunk \/ EndSection

Spec == Init /\ [][Next]_vars

-----------------------------------------------------------------------------
(* What the plan orders.                                                   *)

\* The powers of the i-th event of a section, by the plan: those of the last
\* MarkWithPower unless a MarkTo came after it.
PlannedPower(h, events, i) ==
  LET D == {j \in 1..i : events[j].kind \in {"mark", "markWith"}}
  IN  IF D # {} /\ events[Max(D)].kind = "markWith"
        THEN [k \in EnabledIn(h.channels) |->
                WirePair(events[Max(D)].channels[k])]
      ELSE IF h.channels = NoChannels
        THEN [k \in {h.laser} |-> <<Wire(h.min), Wire(h.max)>>]
      ELSE [k \in EnabledIn(h.channels) |-> WirePair(h.channels[k])]

PlannedModulation(events, i) ==
  LET M == {j \in 1..i : events[j].kind = "modulate"}
  IN  IF M = {} THEN NoModulation ELSE Wire(events[Max(M)].value)

\* Where the head is after the i-th event.
PlannedPosition(events, i) ==
  events[Max({j \in 1..i : IsMotion(events[j])})].to

Order(h, events, i) ==
  [kind |-> CASE events[i].kind = "travel" -> "travel"
              [] events[i].kind = "dwell"  -> "wait"
              [] events[i].kind = "pulse"  -> "pulse"
              [] OTHER                     -> "mark",
   to |-> PlannedPosition(events, i),
   regime |-> [power |-> PlannedPower(h, events, i), air |-> h.air,
               speed |-> h.speed, z |-> -h.z],
   modulation |-> PlannedModulation(events, i)]

\* A SetModulation orders nothing by itself.
SectionOrders(h, events) ==
  LET first[i \in 0..Len(events)] ==
        IF i = 0 THEN <<>>
        ELSE IF events[i].kind = "modulate" THEN first[i - 1]
        ELSE Append(first[i - 1], Order(h, events, i))
  IN  first[Len(events)]

LayerOrders(layer) ==
  Concatenation([s \in DOMAIN layer.sections |->
                   SectionOrders(layer.header, layer.sections[s])])

Orders == Concatenation([l \in DOMAIN plan |-> LayerOrders(plan[l])])

\* The assertions of the lowering, and what the codec refuses to encode.
CanLower(e) ==
  /\ Restores(e) => H.channels # NoChannels
  /\ InChunks(e) =>
       /\ lower.position # Nowhere /\ profile.chunk # 0
       /\ \/ lower.position[1] = e.to[1]
          \/ lower.position[2] = e.to[2]
  /\ (IsMotion(e) /\ Motion(e).do \in {"moveBy", "cutBy"}) =>
       FitsS14(Motion(e).by[1]) /\ FitsS14(Motion(e).by[2])

Lowered == stage \in {"metadata", "lower", "compiled"}

-----------------------------------------------------------------------------
(* Properties.                                                             *)

\* What the compiler remembers of the section it is lowering is true of the
\* controller: where the head is, which layer is selected with its heads, air,
\* speed and Z, and, unless it remembers a MarkWithPower, the layer's powers.
LocalsAreTrue ==
  (stage = "lower" /\ lower.event # 0) =>
    /\ lower.position # Nowhere => machine.at = lower.position
    /\ machine.layer = H.index /\ machine.enabled = EnabledHeads(H)
    /\ machine.air = H.air /\ machine.speed = H.speed /\ machine.z = -H.z
    /\ ~lower.dynamic =>
         \A i \in DOMAIN PowerOf(H) : machine.power[i] = PowerOf(H)[i]

Job == INSTANCE LaserJob WITH
  accepted <- Lowered, job <- IF Lowered THEN Orders ELSE <<>>,
  done <- lower.done, at <- machine.at, stroke <- machine.stroke

\* Whatever relative moves, chunks and power envelopes the events of an accepted
\* plan are lowered to, the head carries out the plan's orders in their order,
\* at the planned points, powers, air, speed and Z, and does nothing else: of
\* all the settings in force at a mark, those of the last layer, MarkWithPower,
\* MarkTo and SetModulation that the plan gave.
ImplementsPlan == Job!Spec

\* No plan that passes the analysis and the profile's checks runs into an
\* assertion or an unencodable record while it is lowered.
AcceptedPlansCompile == AtEvent => CanLower(Here)

\* A compiled job has carried out the whole plan and leaves the Z axis where it
\* was.
CompiledIsWhole ==
  stage = "compiled" => lower.done = Len(Orders) /\ machine.z = 0

\* The beam is never on below the marking floor, nor outside the power limits
\* the controller was given for the layer, nor with a modulation below the floor
\* that an earlier event or layer left behind.
BeamInsideLimits ==
  machine.stroke.kind \in {"mark", "pulse"} =>
    /\ machine.stroke.regime.power # <<>>
    /\ \A i \in DOMAIN machine.stroke.regime.power :
         LET given == machine.limits[machine.stroke.layer][i]
             used == machine.stroke.regime.power[i]
         IN  /\ Floor <= used[1] /\ used[1] <= used[2]
             /\ given[1] <= used[1] /\ used[2] <= given[2]
    /\ machine.stroke.modulation # NoModulation =>
         machine.stroke.modulation >= Floor

\* The bounds a job announces, if they were not declared, are off by less than
\* a grid step from any point the head goes to.
MotionInsideMetadata ==
  (machine.at # Nowhere /\ declared = NoBounds) =>
    \A j \in 1..2 :
      /\ 2 * (machine.bounds[1][j] - machine.at[j]) <= Grid
      /\ 2 * (machine.at[j] - machine.bounds[2][j]) <= Grid

=============================================================================
