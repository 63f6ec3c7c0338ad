SPECIFICATION Spec
CONSTANTS
  Profiles <- MCProfiles
  Headers <- MCHeaders
  Events <- MCEvents
  Declared <- MCDeclared
  MaxEvents <- MCMaxEvents
  FullPower = 10
  Floor = 2
  MaxS14 = 4
  MaxAbsolute = 6
  MaxU35 = 4
  Grid = 4
  NoChannels = NoChannels
  NoBounds = NoBounds
  Nowhere = Nowhere
  NoModulation = NoModulation
  NoProfile = NoProfile
INVARIANTS
  LocalsAreTrue
  AcceptedPlansCompile
  CompiledIsWhole
  BeamInsideLimits
  MotionInsideMetadata
PROPERTY ImplementsPlan
CHECK_DEADLOCK FALSE
