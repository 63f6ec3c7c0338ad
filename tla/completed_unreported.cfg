SPECIFICATION Spec
CONSTANTS
  Process = {p1}
  Transcript = {p1}
  Forced = {}
  Probe = {}
  Failing = {p1}
  Foreign = Foreign
  NoFile = NoFile
  NoReport = NoReport
  Failure = {"failed", "interrupted"}
INVARIANTS CompletedIsAlwaysReported
CHECK_DEADLOCK FALSE
