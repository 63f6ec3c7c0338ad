SPECIFICATION Spec
CONSTANTS
  Kinds = {"udp", "serial"}
  MaxResources = 4
  MaxItems = 3
  MaxFailures = 2
  ReceiveSize = 2
  DrainLimit = 2
INVARIANTS NothingLeaks SendsMayWait ReadsAreWhole
CHECK_DEADLOCK FALSE
