---------------------------- MODULE MCJobCompiler ----------------------------
(***************************************************************************)
(* Plans of four or five events for JobCompiler: one or two layers of each *)
(* kind, and profiles like those of job.py with smaller numbers.  A span  *)
(* of 5 is the first that does not fit S14, -5 the last that does, and a   *)
(* mark of 5 takes two chunks.  Powers of 2k - 1 and 2k are one wire value.*)
(***************************************************************************)
EXTENDS JobCompiler, TLC

Channel(on, min, max) == [enabled |-> on, min |-> min, max |-> max]

\* Head 1 alone, and both heads.
One  == (1 :> Channel(TRUE, 3, 8)) @@ (2 :> Channel(FALSE, 0, 8))
Both == (1 :> Channel(TRUE, 3, 8)) @@ (2 :> Channel(TRUE, 4, 8))

Plain ==
  [index |-> 0, kind |-> "vector", processing |-> "none", axis |-> "none",
   strategy |-> "none", laser |-> 1, min |-> 3, max |-> 8,
   channels |-> NoChannels, speed |-> 1, air |-> FALSE, z |-> 0,
   frequency |-> 0, width |-> -1]

Raster ==
  [Plain EXCEPT !.kind = "raster", !.processing = "native",
                !.axis = "horizontal", !.strategy = "unidirectional"]

MCHeaders ==
  {Plain,
   [Plain EXCEPT !.index = 1, !.min = 4, !.max = 6, !.speed = 2, !.air = TRUE],
   [Plain EXCEPT !.min = 2],
   [Plain EXCEPT !.laser = 2],
   [Plain EXCEPT !.channels = One],
   [Plain EXCEPT !.channels = Both, !.frequency = 1, !.width = 0],
   Raster,
   [Raster EXCEPT !.index = 1, !.strategy = "bidirectional"],
   [Raster EXCEPT !.axis = "vertical", !.strategy = "bidirectional", !.z = 1],
   [Raster EXCEPT !.processing = "planned-path", !.axis = "none",
                  !.strategy = "none"]}

A == <<0, 0>>
B == <<5, 0>>
C == <<5, 3>>

\* The third point is near the end of the absolute field: its metadata
\* coordinate is beyond it.
MCEvents ==
  {[kind |-> "travel", to |-> p] : p \in {A, B, <<6, 3>>}}
  \cup {[kind |-> "mark", to |-> p] : p \in {A, B, C}}
  \cup {[kind |-> "markWith", to |-> B, channels |-> c] :
          c \in {[One EXCEPT ![1].max = 6], [One EXCEPT ![1].max = 7],
                 [Both EXCEPT ![1].max = 4]}}
  \cup {[kind |-> "markCurrent", to |-> A]}
  \cup {[kind |-> "dwell", duration |-> 1]}
  \cup {[kind |-> "pulse", duration |-> d] : d \in {1, 3}}
  \cup {[kind |-> "modulate", value |-> v] : v \in {2, 5}}

Base ==
  [kinds |-> {"vector", "raster"}, count |-> 0, indices |-> 0..127,
   processing |-> "any",
   rasterModes |-> {"horizontal", "vertical"}
                     \X {"unidirectional", "bidirectional"},
   plannedPath |-> FALSE, chunk |-> 3, lasers |-> {1}, enable |-> {1},
   heads |-> {}, masks |-> {}, stationary |-> FALSE,
   relativeAfterPulse |-> FALSE, maxDuration |-> 0, frequencies |-> {},
   widths |-> {}, zLimit |-> 0, dynamic |-> FALSE, mutableMin |-> {},
   mutableMax |-> {}, requiredLower |-> {}]

Research == [Base EXCEPT !.kinds = {"vector"}, !.count = 1, !.indices = {0}]

Single == [Research EXCEPT !.heads = {1, 2}, !.masks = {{1}}]

MCProfiles ==
  {Base,
   [Base EXCEPT !.kinds = {"raster"}, !.count = 1, !.indices = {0},
                !.processing = "planned-path", !.plannedPath = TRUE],
   [Research EXCEPT !.heads = {1, 2}, !.masks = {{1}, {2}, {1, 2}}],
   [Single EXCEPT !.stationary = TRUE, !.relativeAfterPulse = TRUE,
                  !.maxDuration = 2],
   [Base EXCEPT !.count = 1, !.zLimit = 1],
   [Single EXCEPT !.dynamic = TRUE, !.mutableMax = {1}, !.requiredLower = {1}],
   \* Not shipped: everything a compiler for vectors can be made with.
   [Research EXCEPT !.heads = {1, 2}, !.masks = {{1}, {1, 2}},
                    !.frequencies = {1}, !.widths = {0}, !.stationary = TRUE,
                    !.relativeAfterPulse = TRUE, !.dynamic = TRUE,
                    !.mutableMax = {1, 2}]}

\* No declared bounds, and bounds of one point.
MCDeclared == {NoBounds, <<A, A>>}

MCMaxEvents == [vector |-> 4, raster |-> 5]

=============================================================================
