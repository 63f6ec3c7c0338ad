----------------------------- MODULE ControllerCli -----------------------------
(***************************************************************************)
(* ruida-controller: each process runs one operation on a controller,      *)
(* closes the link, writes a transcript if one was asked for, and says what *)
(* happened.  Every step may fail or be interrupted; what matters is what  *)
(* the report says of a machine that may have moved.  All transcripts go   *)
(* to the same path, through OutputFile.                                   *)
(*                                                                         *)
(* Phases: "prepare" the arguments, the job and the path; "start" the      *)
(* client; "open"; "operate"; "returned", before completed is set;         *)
(* "recorded", while the result is built; "close"; "outcome", which         *)
(* _operate returns; "transcript"; "report"; "exited".                     *)
(***************************************************************************)
CONSTANTS
  Process,
  Transcript,  \* the processes with --transcript
  Forced,      \* those with --force
  Probe,       \* the probes: open() is the whole operation
  Failing,     \* bound: the processes whose steps fail or are interrupted
  Foreign, NoFile, Failure,   \* see OutputFile
  NoReport

\* What a process may say.
Reports ==
  [category : {"ok", "controller", "cleanup", "input", "output", "interrupted"},
   status : {0, 1, 2, 130}, completed : BOOLEAN,
   transcript : {"none", "named", "error"}, cleanup : {"none"} \cup Failure]

ASSUME ProcessesAssumption ==
  /\ Transcript \subseteq Process /\ Forced \subseteq Transcript
  /\ Probe \subseteq Process /\ Failing \subseteq Process
  /\ Failure \subseteq {"failed", "interrupted"}
  /\ Foreign \notin Process /\ NoFile \notin Process /\ Foreign # NoFile
  /\ NoReport \notin Reports

VARIABLES
  phase,            \* where each process is
  contacted,        \* whether the link was ever opened
  link,             \* whether it is open
  returned,         \* history: the client's method returned successfully
  completed,        \* completed, and then outcome.completed
  operationError,   \* outcome.error
  cleanupError,     \* outcome.cleanup_error
  report,           \* what the process said
  overtaken,        \* history: which call an interrupt came after, before what
                    \* it returned was kept
  \* The transcript's path.
  target, temporary, content, durable, stage, outcome, earlier, crashed,
  removed, published

clivars == <<phase, contacted, link, returned, completed,
             operationError, cleanupError, report, overtaken>>
filevars == <<target, temporary, content, durable, stage, outcome,
              earlier, crashed, removed, published>>
vars == <<clivars, filevars>>

File == INSTANCE OutputFile WITH Writer <- Process

Init ==
  /\ File!Init
  /\ phase = [p \in Process |-> "prepare"]
  /\ contacted = [p \in Process |-> FALSE]
  /\ link = [p \in Process |-> FALSE]
  /\ returned = [p \in Process |-> FALSE]
  /\ completed = [p \in Process |-> FALSE]
  /\ operationError = [p \in Process |-> "none"]
  /\ cleanupError = [p \in Process |-> "none"]
  /\ report = [p \in Process |-> NoReport]
  /\ overtaken = [p \in Process |-> "none"]

GoTo(p, where) == phase' = [phase EXCEPT ![p] = where]

Report(category, status, done, transcript, cleanup) ==
  [category |-> category, status |-> status, completed |-> done,
   transcript |-> transcript, cleanup |-> cleanup]

Say(p, r) ==
  /\ report' = [report EXCEPT ![p] = r]
  /\ GoTo(p, "exited")

\* _failure_category and _failure_status.
Category(error, default) ==
  IF error = "interrupted" THEN "interrupted" ELSE default

Status(error, default) == IF error = "interrupted" THEN 130 ELSE default

-----------------------------------------------------------------------------
(* main up to _operate.                                                    *)

\* Bad usage or input, an unreadable or refused job, a missing directory.
Refuse(p) ==
  /\ phase[p] = "prepare"
  /\ Say(p, Report("input", 2, FALSE, "none", "none"))
  /\ UNCHANGED <<contacted, link, returned, completed,
                 operationError, cleanupError, overtaken, filevars>>

\* _validate_transcript_path.
PathIsFree(p) == p \in Transcript \ Forced => target = NoFile

RefusePath(p) ==
  /\ phase[p] = "prepare" /\ ~PathIsFree(p)
  /\ Say(p, Report("input", 2, FALSE, "none", "none"))
  /\ UNCHANGED <<contacted, link, returned, completed,
                 operationError, cleanupError, overtaken, filevars>>

PrepareInterrupted(p) ==
  /\ p \in Failing /\ phase[p] = "prepare" /\ "interrupted" \in Failure
  /\ Say(p, Report("interrupted", 130, FALSE, "none", "none"))
  /\ UNCHANGED <<contacted, link, returned, completed,
                 operationError, cleanupError, overtaken, filevars>>

Prepare(p) ==
  /\ phase[p] = "prepare" /\ PathIsFree(p)
  /\ GoTo(p, "start")
  /\ UNCHANGED <<contacted, link, returned, completed,
                 operationError, cleanupError, report, overtaken, filevars>>

-----------------------------------------------------------------------------
(* _operate.                                                               *)

\* The first try ends with an exception.
OperationError(p, where) ==
  /\ \E f \in Failure : operationError' = [operationError EXCEPT ![p] = f]
  /\ GoTo(p, where)

StartClient(p) ==
  /\ phase[p] = "start"
  /\ GoTo(p, "open")
  /\ UNCHANGED <<contacted, link, returned, completed,
                 operationError, cleanupError, report, overtaken, filevars>>

\* There is no client to close.
StartFails(p) ==
  /\ p \in Failing /\ phase[p] = "start"
  /\ OperationError(p, "outcome")
  /\ UNCHANGED <<contacted, link, returned, completed,
                 cleanupError, report, overtaken, filevars>>

Open(p) ==
  /\ phase[p] = "open"
  /\ contacted' = [contacted EXCEPT ![p] = TRUE]
  /\ link' = [link EXCEPT ![p] = TRUE]
  /\ IF p \in Probe
       THEN /\ returned' = [returned EXCEPT ![p] = TRUE]
            /\ GoTo(p, "returned")
       ELSE GoTo(p, "operate") /\ UNCHANGED returned
  /\ UNCHANGED <<completed, operationError, cleanupError, report, overtaken,
                 filevars>>

\* open() closes the link again, and that may fail too.
OpenFails(p) ==
  /\ p \in Failing /\ phase[p] = "open"
  /\ contacted' = [contacted EXCEPT ![p] = TRUE]
  /\ \E l \in BOOLEAN : link' = [link EXCEPT ![p] = l]
  /\ OperationError(p, "close")
  /\ UNCHANGED <<returned, completed, cleanupError, report, overtaken,
                 filevars>>

\* request() or send_job().
Operate(p) ==
  /\ phase[p] = "operate"
  /\ returned' = [returned EXCEPT ![p] = TRUE]
  /\ GoTo(p, "returned")
  /\ UNCHANGED <<contacted, link, completed, operationError, cleanupError,
                 report, overtaken, filevars>>

OperateFails(p) ==
  /\ p \in Failing /\ phase[p] = "operate"
  /\ OperationError(p, "close")
  /\ UNCHANGED <<contacted, link, returned, completed, cleanupError,
                 report, overtaken, filevars>>

\* completed = True
Record(p) ==
  /\ phase[p] = "returned"
  /\ completed' = [completed EXCEPT ![p] = TRUE]
  /\ GoTo(p, "recorded")
  /\ UNCHANGED <<contacted, link, returned, operationError,
                 cleanupError, report, overtaken, filevars>>

\* result[...] = ...
BuildResult(p) ==
  /\ phase[p] = "recorded"
  /\ GoTo(p, "close")
  /\ UNCHANGED <<contacted, link, returned, completed, operationError,
                 cleanupError, report, overtaken, filevars>>

\* Mutant: completed is set after the result is built.
BuildFailsUnrecorded(p) ==
  /\ p \in Failing /\ phase[p] = "recorded"
  /\ completed' = [completed EXCEPT ![p] = FALSE]
  /\ OperationError(p, "close")
  /\ UNCHANGED <<contacted, link, returned, cleanupError, report, overtaken,
                 filevars>>

\* The result cannot be built, or the user interrupts.
BuildFails(p) ==
  /\ p \in Failing /\ phase[p] = "recorded"
  /\ OperationError(p, "close")
  /\ UNCHANGED <<contacted, link, returned, completed,
                 cleanupError, report, overtaken, filevars>>

\* An interrupt after the method's return and before completed = True.
InterruptedBeforeRecord(p) ==
  /\ p \in Failing /\ "interrupted" \in Failure /\ phase[p] = "returned"
  /\ operationError' = [operationError EXCEPT ![p] = "interrupted"]
  /\ GoTo(p, "close")
  /\ overtaken' = [overtaken EXCEPT ![p] = "method"]
  /\ UNCHANGED <<contacted, link, returned, completed,
                 cleanupError, report, filevars>>

Close(p) ==
  /\ phase[p] = "close"
  /\ link' = [link EXCEPT ![p] = FALSE]
  /\ GoTo(p, "outcome")
  /\ UNCHANGED <<contacted, returned, completed, operationError,
                 cleanupError, report, overtaken, filevars>>

CloseFails(p) ==
  /\ p \in Failing /\ phase[p] = "close"
  /\ \E l \in {FALSE, link[p]} : link' = [link EXCEPT ![p] = l]
  /\ \E f \in Failure : cleanupError' = [cleanupError EXCEPT ![p] = f]
  /\ GoTo(p, "outcome")
  /\ UNCHANGED <<contacted, returned, completed, operationError,
                 report, overtaken, filevars>>

\* An interrupt as _operate returns, outside its try statements: main knows no
\* outcome.
OutcomeLost(p) ==
  /\ p \in Failing /\ "interrupted" \in Failure /\ phase[p] = "outcome"
  /\ operationError' = [operationError EXCEPT ![p] = "interrupted"]
  /\ cleanupError' = [cleanupError EXCEPT ![p] = "none"]
  /\ completed' = [completed EXCEPT ![p] = FALSE]
  /\ GoTo(p, "transcript")
  /\ overtaken' = [overtaken EXCEPT ![p] = "outcome"]
  /\ UNCHANGED <<contacted, link, returned, report, filevars>>

ReturnOutcome(p) ==
  /\ phase[p] = "outcome"
  /\ GoTo(p, "transcript")
  /\ UNCHANGED <<contacted, link, returned, completed, operationError,
                 cleanupError, report, overtaken, filevars>>

-----------------------------------------------------------------------------
(* main after _operate.                                                    *)

WriteTranscript(p) ==
  /\ phase[p] = "transcript" /\ p \in Transcript
  /\ \/ File!WriterWorks(p)
     \/ p \in Failing /\ File!WriterFails(p)
  /\ UNCHANGED clivars

TranscriptDone(p) ==
  /\ phase[p] = "transcript"
  /\ p \in Transcript => stage[p] = "ended"
  /\ GoTo(p, "report")
  /\ UNCHANGED <<contacted, link, returned, completed, operationError,
                 cleanupError, report, overtaken, filevars>>

\* transcript_error, a refusal being an OSError.
TranscriptError(p) ==
  CASE outcome[p] \in {"none", "ok"} -> "none"
    [] outcome[p] = "exists"         -> "failed"
    [] OTHER                         -> outcome[p]

\* The "transcript" or the "transcript_error" of a report.
TranscriptField(p) ==
  IF TranscriptError(p) # "none" THEN "error"
  ELSE IF p \in Transcript THEN "named" ELSE "none"

\* Mutant: a failed close() decides nothing.
CleanupUnnoticed(p) ==
  IF operationError[p] # "none" THEN "operation"
  ELSE IF TranscriptError(p) # "none" THEN "output"
  ELSE "none"

\* Mutant: the last error decides, not the first.
LastError(p) ==
  IF TranscriptError(p) # "none" THEN "output"
  ELSE IF cleanupError[p] # "none" THEN "cleanup"
  ELSE IF operationError[p] # "none" THEN "operation"
  ELSE "none"

\* Which of the errors decides the report and the exit status.
FirstError(p) ==
  IF operationError[p] # "none" THEN "operation"
  ELSE IF cleanupError[p] # "none" THEN "cleanup"
  ELSE IF TranscriptError(p) # "none" THEN "output"
  ELSE "none"

\* What main says.
Verdict(p) ==
  LET say(error, category, status) ==
        Report(Category(error, category), Status(error, status),
               completed[p], TranscriptField(p), cleanupError[p])
  IN  CASE FirstError(p) = "operation" ->
             say(operationError[p], "controller", 1)
        [] FirstError(p) = "cleanup"   -> say(cleanupError[p], "cleanup", 1)
        [] FirstError(p) = "output"    -> say(TranscriptError(p), "output", 2)
        [] FirstError(p) = "none"      ->
             Report("ok", 0, TRUE, TranscriptField(p), "none")

Conclude(p) ==
  /\ phase[p] = "report"
  /\ Say(p, Verdict(p))
  /\ UNCHANGED <<contacted, link, returned, completed, operationError,
                 cleanupError, overtaken, filevars>>

\* Standard output fails after a success: the error says what was completed.
OutputFails(p) ==
  /\ p \in Failing /\ phase[p] = "report" /\ Verdict(p).status = 0
  /\ \E f \in Failure :
       Say(p, Report(Category(f, "output"), Status(f, 2), TRUE,
                     TranscriptField(p), "none"))
  /\ UNCHANGED <<contacted, link, returned, completed, operationError,
                 cleanupError, overtaken, filevars>>

\* The report itself fails: Python prints a traceback.
Traceback(p) ==
  /\ p \in Failing /\ phase[p] = "report"
  /\ GoTo(p, "exited")
  /\ UNCHANGED <<contacted, link, returned, completed, operationError,
                 cleanupError, report, overtaken, filevars>>

Preparing(p) ==
  Refuse(p) \/ RefusePath(p) \/ PrepareInterrupted(p) \/ Prepare(p)

Operating(p) ==
  \/ StartClient(p) \/ StartFails(p) \/ Open(p) \/ OpenFails(p)
  \/ Operate(p) \/ OperateFails(p) \/ Record(p) \/ BuildResult(p)
  \/ BuildFails(p) \/ InterruptedBeforeRecord(p) \/ Close(p) \/ CloseFails(p)
  \/ OutcomeLost(p) \/ ReturnOutcome(p)

Concluding(p) ==
  \/ WriteTranscript(p) \/ TranscriptDone(p)
  \/ Conclude(p) \/ OutputFails(p) \/ Traceback(p)

Next ==
  \/ \E p \in Process : Preparing(p) \/ Operating(p) \/ Concluding(p)
  \/ File!ForeignStep /\ UNCHANGED clivars

Spec == Init /\ [][Next]_vars

-----------------------------------------------------------------------------
(* Properties.                                                             *)

Said(p) == report[p] # NoReport

\* operation_completed is said of every operation whose method returned, and
\* of no other, whatever failed after it, so that nobody repeats a job because
\* of a report that does not mention it.  It is not said where an interrupt
\* overtakes what a call returned.
CompletedIsTold ==
  \A p \in Process :
    Said(p) =>
      /\ report[p].completed => returned[p]
      /\ returned[p] /\ overtaken[p] = "none" => report[p].completed

\* docs/integration.md:563-564, without that exception.
CompletedIsAlwaysReported ==
  \A p \in Process : Said(p) /\ returned[p] => report[p].completed

\* The exit status tells the category as docs/integration.md:554-557 says.
StatusTellsCategory ==
  \A p \in Process :
    Said(p) => <<report[p].category, report[p].status>> \in
      {<<"ok", 0>>, <<"controller", 1>>, <<"cleanup", 1>>, <<"input", 2>>,
       <<"output", 2>>, <<"interrupted", 130>>}

\* Exit status 0: the operation returned, the link is closed, and the transcript
\* that was asked for was put at its path for good.
ZeroMeansDone ==
  \A p \in Process :
    Said(p) /\ report[p].status = 0 =>
      /\ returned[p] /\ ~link[p]
      /\ p \in Transcript => /\ report[p].transcript = "named"
                             /\ p \in published /\ p \in durable

\* Exit status 2 is bad input or bad output: either the controller was never
\* contacted or the operation is said to be completed.
TwoIsNotTheController ==
  \A p \in Process :
    Said(p) /\ report[p].status = 2 => ~contacted[p] \/ report[p].completed

\* A caller can act on the exit status: 0 if everything asked for is done, 2 if
\* the controller need not be looked at.
StatusIsTrue == StatusTellsCategory /\ ZeroMeansDone /\ TwoIsNotTheController

\* A link that close() left open is reported with its error, unless the outcome
\* of _operate never reached main.
LeftOpenIsReported ==
  \A p \in Process :
    Said(p) /\ link[p] /\ overtaken[p] # "outcome" => report[p].cleanup # "none"

\* Of two processes that write to one path the one that finds it taken says so,
\* unless somebody else has removed the file.
LoserSaysSo ==
  \A p, q \in Transcript \ Forced :
    Said(p) /\ report[p].transcript = "named" /\ Said(q) /\ q # p
      => removed \/ report[q].transcript # "named"

\* What failed after the operation is not hidden by what the report is about.
FailuresAreReported == LeftOpenIsReported /\ LoserSaysSo

\* Two processes may both have found the path free before they operated: still
\* no transcript replaces another file without force.
TranscriptsSurvive == File!NoClobber

=============================================================================
