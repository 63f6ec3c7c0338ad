SPECIFICATION Spec
CONSTANTS
  Process = {p1, p2}
  Transcript = {p1, p2}
  Forced = {}
  Probe = {p2}
  Failing = {p1}
  Foreign = Foreign
  NoFile = NoFile
  NoReport = NoReport
  Failure = {"failed", "interrupted"}
INVARIANTS CompletedIsTold StatusIsTrue FailuresAreReported
PROPERTIES TranscriptsSurvive
CHECK_DEADLOCK FALSE
