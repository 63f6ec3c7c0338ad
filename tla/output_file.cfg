SPECIFICATION Spec
CONSTANTS
  Writer = {w1, w2, w3}
  Forced = {w3}
  Foreign = Foreign
  NoFile = NoFile
  Failure = {"failed", "interrupted"}
INVARIANTS TargetIsWhole OutcomeIsTrue NoTemporaryLeft
PROPERTIES NoClobber
CHECK_DEADLOCK FALSE
