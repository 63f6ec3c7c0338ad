---------------------------- MODULE LaserMachine -----------------------------
(***************************************************************************)
(* What a controller does with the records of a job, as docs/protocol.md   *)
(* describes them and the compiler relies on it: settings stay in force    *)
(* until a later record changes them.  A record is [do |-> ..., ...].      *)
(*                                                                         *)
(* Selecting a layer may load the powers of its metadata and end the       *)
(* modulation, or leave both: nothing is known of it, so that machines of  *)
(* both kinds are considered.                                              *)
(***************************************************************************)
EXTENDS Integers, Sequences

CONSTANTS
  Nowhere,        \* the position before the first absolute move
  NoModulation,
  Layer           \* layer indices

LaserHead == {1, 2}

\* A machine that has been given nothing.
Idle(loads) ==
  [at |-> Nowhere, z |-> 0, layer |-> 0, air |-> FALSE, speed |-> 0,
   power |-> [h \in LaserHead |-> <<0, 0>>],
   limits |-> [l \in Layer |-> [h \in LaserHead |-> <<0, 0>>]],
   bounds |-> <<>>,
   enabled |-> {}, modulation |-> NoModulation, loads |-> loads,
   stroke |-> [kind |-> "none"]]

\* The active powers of the heads that are on, and the other settings a mark is
\* made with.
Regime(m) ==
  [power |-> [h \in m.enabled |-> m.power[h]], air |-> m.air,
   speed |-> m.speed, z |-> m.z]

\* The head does something and ends at p.
Strike(m, kind, p) ==
  [m EXCEPT !.at = p,
            !.stroke = [kind |-> kind, from |-> m.at, to |-> p,
                        layer |-> m.layer, regime |-> Regime(m),
                        modulation |-> m.modulation]]

Moved(p, d) == <<p[1] + d[1], p[2] + d[2]>>

Select(m, l) ==
  IF m.loads
    THEN [m EXCEPT !.layer = l, !.power = m.limits[l],
                   !.modulation = NoModulation]
    ELSE [m EXCEPT !.layer = l]

\* The powers a record gives, for the heads it names.
Given(c, powers) ==
  [h \in LaserHead |-> IF h \in DOMAIN c.power THEN c.power[h] ELSE powers[h]]

\* Separators, delays and block ends change nothing that is asked for here and
\* are left out of the records.
Execute(m, c) ==
  CASE c.do = "bounds"   -> [m EXCEPT !.bounds = c.bounds]
    [] c.do = "limits"   -> [m EXCEPT !.limits[c.layer] = Given(c, @)]
    [] c.do = "select"   -> Select(m, c.layer)
    [] c.do = "air"      -> [m EXCEPT !.air = c.on]
    [] c.do = "speed"    -> [m EXCEPT !.speed = c.speed]
    [] c.do = "power"    -> [m EXCEPT !.power = Given(c, @)]
    [] c.do = "enable"   -> [m EXCEPT !.enabled = c.heads]
    [] c.do = "modulate" -> [m EXCEPT !.modulation = c.value]
    [] c.do = "z"        -> [m EXCEPT !.z = m.z + c.by]
    [] c.do = "move"     -> Strike(m, "travel", c.to)
    [] c.do = "cut"      -> Strike(m, "mark", c.to)
    [] c.do = "moveBy"   -> Strike(m, "travel", Moved(m.at, c.by))
    [] c.do = "cutBy"    -> Strike(m, "mark", Moved(m.at, c.by))
    [] c.do = "wait"     -> Strike(m, "wait", m.at)
    [] c.do = "pulse"    -> Strike(m, "pulse", m.at)

ExecuteAll(m, records) ==
  LET after[n \in 0..Len(records)] ==
        IF n = 0 THEN m ELSE Execute(after[n - 1], records[n])
  IN  after[Len(records)]

=============================================================================
