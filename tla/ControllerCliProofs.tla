-------------------------- MODULE ControllerCliProofs -------------------------
(***************************************************************************)
(* Theorems about ControllerCli, for any number of processes: what a       *)
(* report says is true of the operation, of the link and of the            *)
(* transcript.                                                             *)
(*                                                                         *)
(* The transcripts are calls of atomic_write_bytes: ControllerCli is shown *)
(* to implement OutputFile, and what is proved of OutputFile is used here. *)
(***************************************************************************)
EXTENDS ControllerCli, TLAPS

Written == INSTANCE OutputFileProofs WITH Writer <- Process

Errors == {"none"} \cup Failure

Early == {"prepare", "start", "open", "operate"}
After == {"close", "outcome", "transcript", "report"}
Phases == Early \cup After \cup {"returned", "recorded", "exited"}

\* Every variable of the processes stays in its range.
TypeOK ==
  /\ phase \in [Process -> Phases]
  /\ contacted \in [Process -> BOOLEAN] /\ link \in [Process -> BOOLEAN]
  /\ returned \in [Process -> BOOLEAN] /\ completed \in [Process -> BOOLEAN]
  /\ operationError \in [Process -> Errors]
  /\ cleanupError \in [Process -> Errors]
  /\ report \in [Process -> Reports \cup {NoReport}]
  /\ overtaken \in [Process -> {"none", "method", "outcome"}]

\* What _operate has recorded.  A process whose method returned says so unless
\* an interrupt overtook it, and then the interrupt is its error.
OperationInv(p) ==
  /\ phase[p] \in Early => ~returned[p] /\ ~completed[p]
  /\ phase[p] \in Early \cup {"returned", "recorded"} =>
       /\ operationError[p] = "none" /\ cleanupError[p] = "none"
       /\ overtaken[p] = "none"
  /\ phase[p] = "returned" => returned[p] /\ ~completed[p]
  /\ phase[p] = "recorded" => completed[p]
  /\ completed[p] => returned[p]
  /\ phase[p] \in After =>
       /\ completed[p] \/ operationError[p] # "none"
       /\ returned[p] /\ overtaken[p] = "none" => completed[p]
       /\ overtaken[p] # "none" => operationError[p] # "none"

\* The link: a close that left it open has an error.
LinkInv(p) ==
  /\ phase[p] \in {"prepare", "start"} => ~link[p] /\ ~contacted[p]
  /\ phase[p] \in {"outcome", "transcript", "report"} /\ link[p] =>
       cleanupError[p] # "none" \/ overtaken[p] = "outcome"

\* The transcript: main goes on when atomic_write_bytes has ended.
TranscriptInv(p) ==
  /\ p \notin Transcript => stage[p] = "idle" /\ outcome[p] = "none"
  /\ phase[p] = "report" /\ p \in Transcript => stage[p] = "ended"

\* What a report r of the process p may say.
TrueReport(p, r) ==
  /\ r.completed => returned[p]
  /\ returned[p] /\ overtaken[p] = "none" => r.completed
  /\ <<r.category, r.status>> \in
       {<<"ok", 0>>, <<"controller", 1>>, <<"cleanup", 1>>, <<"input", 2>>,
        <<"output", 2>>, <<"interrupted", 130>>}
  /\ r.status = 0 =>
       returned[p] /\ ~link[p] /\ (p \in Transcript => r.transcript = "named")
  /\ r.transcript = "named" => p \in published /\ p \in durable
  /\ r.status = 2 => ~contacted[p] \/ r.completed
  /\ link[p] /\ overtaken[p] # "outcome" => r.cleanup # "none"

ReportInv(p) ==
  /\ phase[p] # "exited" => report[p] = NoReport
  /\ Said(p) => TrueReport(p, report[p])

ProcessInv(p) ==
  OperationInv(p) /\ LinkInv(p) /\ TranscriptInv(p) /\ ReportInv(p)

CliInv == TypeOK /\ ~crashed /\ \A p \in Process : ProcessInv(p)

-----------------------------------------------------------------------------
(* The transcripts are calls of atomic_write_bytes.                        *)

\* What OutputFile assumes of its constants.
LEMMA WritersAssumed == Written!WritersAssumption
BY ProcessesAssumption DEF Written!WritersAssumption, ProcessesAssumption

\* A step of a transcript is a step of a call.
LEMMA SameWriter ==
  ASSUME NEW p \in Process
  PROVE  File!WriterWorks(p) \/ File!WriterFails(p) <=> Written!WriterStep(p)
BY DEF File!WriterWorks, Written!WriterWorks, File!WriterFails,
       Written!WriterFails, Written!WriterStep,
       File!GoTo, Written!GoTo, File!Outcome, Written!Outcome,
       File!Publish, Written!Publish, File!InTry, Written!InTry,
       File!CreateTemporary, Written!CreateTemporary,
       File!CreateFails, Written!CreateFails,
       File!CreateInterrupted, Written!CreateInterrupted,
       File!Write, Written!Write, File!Sync, Written!Sync,
       File!Replace, Written!Replace, File!Link, Written!Link,
       File!LinkExists, Written!LinkExists,
       File!UnlinkTemporary, Written!UnlinkTemporary,
       File!Fail, Written!Fail, File!Cleanup, Written!Cleanup,
       File!CleanupFails, Written!CleanupFails

\* Every step of the processes is a step of OutputFile, or leaves the file
\* alone.
LEMMA StepsAreWrites == [Next]_vars => [Written!Next]_(Written!filevars)
<1> SUFFICES ASSUME [Next]_vars
             PROVE  Written!Next \/ UNCHANGED Written!filevars
  OBVIOUS
<1>1. CASE UNCHANGED vars
  BY <1>1 DEF vars, filevars, Written!filevars
<1>2. CASE File!ForeignStep
  BY <1>2 DEF File!ForeignStep, Written!ForeignStep, Written!Next
<1>3. ASSUME NEW p \in Process, Preparing(p) \/ Operating(p) \/ Concluding(p)
      PROVE  Written!Next \/ UNCHANGED Written!filevars
  <2>1. CASE WriteTranscript(p)
    <3>1. Written!WriterStep(p)
      BY <2>1, SameWriter DEF WriteTranscript
    <3> QED
      BY <3>1 DEF Written!Next
  <2>2. CASE ~WriteTranscript(p)
    <3>1. UNCHANGED filevars
      BY <1>3, <2>2
      DEF Preparing, Operating, Concluding,
          Refuse, RefusePath, PrepareInterrupted, Prepare, StartClient,
          StartFails, Open, OpenFails, Operate, OperateFails, Record,
          BuildResult, BuildFails, InterruptedBeforeRecord, Close, CloseFails,
          OutcomeLost, ReturnOutcome, TranscriptDone, Conclude, OutputFails,
          Traceback
    <3> QED
      BY <3>1 DEF filevars, Written!filevars
  <2> QED
    BY <2>1, <2>2
<1> QED
  BY <1>1, <1>2, <1>3 DEF Next

\* The processes implement OutputFile.
THEOREM TranscriptsAreOutputFiles == Spec => Written!Spec
<1>1. Init => Written!Init
  BY DEF Init, File!Init, Written!Init
<1> QED
  BY <1>1, StepsAreWrites, PTL DEF Spec, Written!Spec

\* What is proved of OutputFile holds of the transcripts.
LEMMA FileHolds == Spec => []Written!FileInv /\ []Written!OneWinner
<1>1. Written!Spec => []Written!FileInv
  BY WritersAssumed, Written!FileInvariant DEF Written!FileInvariant
<1>2. Written!Spec => []Written!OneWinner
  BY WritersAssumed, Written!AtMostOneWins DEF Written!AtMostOneWins
<1> QED
  BY <1>1, <1>2, TranscriptsAreOutputFiles, PTL

\* Two processes may both have found the path free before they operated: still
\* no transcript replaces another file without force.
THEOREM NoTranscriptIsLost == Spec => TranscriptsSurvive
<1>1. Written!Spec => Written!NoClobber
  BY WritersAssumed, Written!NothingIsClobbered DEF Written!NothingIsClobbered
<1>2. Written!NoClobber => TranscriptsSurvive
  BY DEF TranscriptsSurvive, File!NoClobber, Written!NoClobber,
         File!filevars, Written!filevars
<1> QED
  BY <1>1, <1>2, TranscriptsAreOutputFiles

\* What a step of a transcript changes, besides its own place.
LEMMA WritesAreLocal ==
  ASSUME Written!FileInv, NEW p \in Process, Written!WriterStep(p)
  PROVE  /\ published \subseteq published' /\ durable \subseteq durable'
         /\ crashed' = crashed
         /\ \A q \in Process \ {p} : stage'[q] = stage[q] /\ outcome'[q] = outcome[q]
BY DEF Written!FileInv, Written!TypeOK, Written!WriterWorks,
       Written!WriterFails, Written!WriterStep, Written!GoTo, Written!Outcome,
       Written!Publish, Written!CreateTemporary, Written!CreateFails,
       Written!CreateInterrupted, Written!Write, Written!Sync, Written!Replace,
       Written!Link, Written!LinkExists, Written!UnlinkTemporary, Written!Fail,
       Written!Cleanup, Written!CleanupFails

-----------------------------------------------------------------------------
(* Type correctness.                                                       *)

\* A record like this one is a report.
LEMMA ReportTyped ==
  ASSUME NEW c \in {"ok", "controller", "cleanup", "input", "output",
                    "interrupted"},
         NEW s \in {0, 1, 2, 130}, NEW d \in BOOLEAN,
         NEW t \in {"none", "named", "error"}, NEW u \in Errors
  PROVE  Report(c, s, d, t, u) \in Reports
BY DEF Report, Reports, Errors

\* The verdict of main is a report.
LEMMA VerdictTyped ==
  ASSUME TypeOK, NEW p \in Process PROVE Verdict(p) \in Reports
<1>1. /\ operationError[p] \in Errors /\ cleanupError[p] \in Errors
      /\ completed[p] \in BOOLEAN
  BY DEF TypeOK
<1>2. TranscriptField(p) \in {"none", "named", "error"}
  BY DEF TranscriptField
<1>3. ASSUME NEW e, NEW c \in {"controller", "cleanup", "output"}
      PROVE  Category(e, c) \in {"ok", "controller", "cleanup", "input",
                                 "output", "interrupted"}
  BY DEF Category
<1>4. ASSUME NEW e, NEW n \in {1, 2} PROVE Status(e, n) \in {0, 1, 2, 130}
  BY DEF Status
<1>5. "none" \in Errors
  BY DEF Errors
<1>6. FirstError(p) \in {"operation", "cleanup", "output", "none"}
  BY DEF FirstError
<1> DEFINE say(error, category, status) ==
             Report(Category(error, category), Status(error, status),
                    completed[p], TranscriptField(p), cleanupError[p])
<1>7. say(operationError[p], "controller", 1) \in Reports
  BY <1>1, <1>2, <1>3, <1>4, ReportTyped
<1>8. say(cleanupError[p], "cleanup", 1) \in Reports
  BY <1>1, <1>2, <1>3, <1>4, ReportTyped
<1>9. say(TranscriptError(p), "output", 2) \in Reports
  BY <1>1, <1>2, <1>3, <1>4, ReportTyped
<1>10. Report("ok", 0, TRUE, TranscriptField(p), "none") \in Reports
  BY <1>2 DEF Report, Reports
<1> QED
  BY <1>6, <1>7, <1>8, <1>9, <1>10 DEF Verdict

\* A step keeps the types.
LEMMA StepTyped ==
  ASSUME TypeOK, NEW p \in Process, Preparing(p) \/ Operating(p) \/ Concluding(p)
  PROVE  TypeOK'
<1> USE DEF GoTo, Say, TypeOK, Phases, Early, After
<1>a. "interrupted" \in Failure => "interrupted" \in Errors
  BY DEF Errors
<1>b. Failure \subseteq Errors /\ "none" \in Errors
  BY DEF Errors
<1>1. CASE Refuse(p)
  <2>1. Report("input", 2, FALSE, "none", "none") \in Reports
    BY ZenonT(40), <1>b, ReportTyped
  <2> QED
    BY <1>1, <2>1 DEF Refuse
<1>2. CASE RefusePath(p)
  <2>1. Report("input", 2, FALSE, "none", "none") \in Reports
    BY ZenonT(40), <1>b, ReportTyped
  <2> QED
    BY <1>2, <2>1 DEF RefusePath
<1>3. CASE PrepareInterrupted(p)
  <2>1. Report("interrupted", 130, FALSE, "none", "none") \in Reports
    BY ZenonT(40), <1>b, ReportTyped
  <2> QED
    BY <1>3, <2>1 DEF PrepareInterrupted
<1>4. CASE Prepare(p)
  BY <1>a, <1>b, <1>4 DEF Prepare
<1>5. CASE StartClient(p)
  BY <1>a, <1>b, <1>5 DEF StartClient
<1>6. CASE StartFails(p)
  BY <1>a, <1>b, <1>6 DEF StartFails, OperationError
<1>7. CASE Open(p)
  BY <1>a, <1>b, <1>7 DEF Open
<1>8. CASE OpenFails(p)
  BY <1>a, <1>b, <1>8 DEF OpenFails, OperationError
<1>9. CASE Operate(p)
  BY <1>a, <1>b, <1>9 DEF Operate
<1>10. CASE OperateFails(p)
  BY <1>a, <1>b, <1>10 DEF OperateFails, OperationError
<1>11. CASE Record(p)
  BY <1>a, <1>b, <1>11 DEF Record
<1>12. CASE BuildResult(p)
  BY <1>a, <1>b, <1>12 DEF BuildResult
<1>13. CASE BuildFails(p)
  BY <1>a, <1>b, <1>13 DEF BuildFails, OperationError
<1>14. CASE InterruptedBeforeRecord(p)
  BY <1>a, <1>b, <1>14 DEF InterruptedBeforeRecord
<1>15. CASE Close(p)
  BY <1>a, <1>b, <1>15 DEF Close
<1>16. CASE CloseFails(p)
  <2>1. PICK e \in Failure : cleanupError' = [cleanupError EXCEPT ![p] = e]
    BY <1>16 DEF CloseFails
  <2>2. e \in Errors
    BY <1>b, <2>1
  <2>3. cleanupError' \in [Process -> Errors]
    BY <2>1, <2>2
  <2>4. link' \in [Process -> BOOLEAN] /\ operationError' \in [Process -> Errors]
    BY <1>16 DEF CloseFails
  <2> QED
    BY <1>16, <2>3, <2>4 DEF CloseFails
<1>17. CASE OutcomeLost(p)
  BY <1>a, <1>b, <1>17 DEF OutcomeLost
<1>18. CASE ReturnOutcome(p)
  BY <1>a, <1>b, <1>18 DEF ReturnOutcome
<1>19. CASE WriteTranscript(p)
  BY <1>19 DEF WriteTranscript, clivars
<1>20. CASE TranscriptDone(p)
  BY <1>a, <1>b, <1>20 DEF TranscriptDone
<1>21. CASE Conclude(p)
  BY <1>21, VerdictTyped DEF Conclude
<1>22. CASE OutputFails(p)
  <2>1. PICK f \in Failure :
          Say(p, Report(Category(f, "output"), Status(f, 2), TRUE,
                        TranscriptField(p), "none"))
    BY <1>22 DEF OutputFails
  <2>2. Report(Category(f, "output"), Status(f, 2), TRUE, TranscriptField(p),
               "none") \in Reports
    <3>1. TranscriptField(p) \in {"none", "named", "error"}
      BY DEF TranscriptField
    <3>2. Category(f, "output") \in {"ok", "controller", "cleanup", "input",
                                     "output", "interrupted"}
      BY DEF Category
    <3>3. Status(f, 2) \in {0, 1, 2, 130} /\ TRUE \in BOOLEAN
      BY DEF Status
    <3> QED
      BY <1>b, <3>1, <3>2, <3>3 DEF Report, Reports, Errors
  <2> QED
    BY <1>22, <2>1, <2>2 DEF OutputFails
<1>23. CASE Traceback(p)
  BY <1>a, <1>b, <1>23 DEF Traceback
<1> QED
  BY <1>1, <1>2, <1>3, <1>4, <1>5, <1>6, <1>7, <1>8, <1>9, <1>10, <1>11, <1>12,
     <1>13, <1>14, <1>15, <1>16, <1>17, <1>18, <1>19, <1>20, <1>21, <1>22, <1>23
  DEF Preparing, Operating, Concluding

-----------------------------------------------------------------------------
(* Steps.                                                                  *)

\* A step leaves the process q as it is.
Untouched(q) ==
  /\ phase'[q] = phase[q] /\ contacted'[q] = contacted[q] /\ link'[q] = link[q]
  /\ returned'[q] = returned[q] /\ completed'[q] = completed[q]
  /\ operationError'[q] = operationError[q]
  /\ cleanupError'[q] = cleanupError[q]
  /\ report'[q] = report[q] /\ overtaken'[q] = overtaken[q]
  /\ stage'[q] = stage[q] /\ outcome'[q] = outcome[q]

\* Files that were published stay published, and nothing crashes.
FilesStay ==
  published \subseteq published' /\ durable \subseteq durable' /\ crashed' = crashed

\* A step of one process leaves the others alone.
LEMMA StepsAreLocal ==
  ASSUME TypeOK, Written!FileInv, NEW p \in Process,
         Preparing(p) \/ Operating(p) \/ Concluding(p)
  PROVE  FilesStay /\ \A q \in Process \ {p} : Untouched(q)
<1>1. CASE WriteTranscript(p)
  <2>1. Written!WriterStep(p)
    BY <1>1, SameWriter DEF WriteTranscript
  <2> QED
    BY <1>1, <2>1, WritesAreLocal DEF WriteTranscript, clivars, Untouched, FilesStay
<1>2. CASE ~WriteTranscript(p)
  <2>1. UNCHANGED filevars
    BY <1>2
    DEF Preparing, Operating, Concluding,
        Refuse, RefusePath, PrepareInterrupted, Prepare, StartClient,
        StartFails, Open, OpenFails, Operate, OperateFails, Record,
        BuildResult, BuildFails, InterruptedBeforeRecord, Close, CloseFails,
        OutcomeLost, ReturnOutcome, TranscriptDone, Conclude, OutputFails,
        Traceback
  <2>2. ASSUME NEW q \in Process \ {p}
        PROVE  /\ phase'[q] = phase[q] /\ contacted'[q] = contacted[q]
               /\ link'[q] = link[q]
               /\ returned'[q] = returned[q] /\ completed'[q] = completed[q]
               /\ operationError'[q] = operationError[q]
               /\ cleanupError'[q] = cleanupError[q]
               /\ report'[q] = report[q] /\ overtaken'[q] = overtaken[q]
    <3> USE DEF GoTo, Say, OperationError, TypeOK
    <3>1. CASE Preparing(p)
      BY <3>1 DEF Preparing, Refuse, RefusePath, PrepareInterrupted, Prepare
    <3>2. CASE Operating(p)
      BY <3>2
      DEF Operating, StartClient, StartFails, Open, OpenFails, Operate,
          OperateFails, Record, BuildResult, BuildFails,
          InterruptedBeforeRecord, Close, CloseFails, OutcomeLost,
          ReturnOutcome
    <3>3. CASE Concluding(p)
      BY <1>2, <3>3
      DEF Concluding, TranscriptDone, Conclude, OutputFails, Traceback
    <3> QED
      BY <3>1, <3>2, <3>3
  <2> QED
    BY <2>1, <2>2 DEF filevars, Untouched, FilesStay
<1> QED
  BY <1>1, <1>2

\* A process that is left alone keeps its invariant.
LEMMA UntouchedKept ==
  ASSUME NEW q \in Process, ProcessInv(q), Untouched(q), FilesStay
  PROVE  ProcessInv(q)'
<1>1. OperationInv(q)'
  BY DEF ProcessInv, OperationInv, Untouched
<1>2. LinkInv(q)'
  BY DEF ProcessInv, LinkInv, Untouched
<1>3. TranscriptInv(q)'
  BY DEF ProcessInv, TranscriptInv, Untouched
<1>4. ReportInv(q)'
  BY DEF ProcessInv, ReportInv, Said, TrueReport, Untouched, FilesStay
<1> QED
  BY <1>1, <1>2, <1>3, <1>4 DEF ProcessInv

\* _operate records what happens.
LEMMA OperationKept ==
  ASSUME TypeOK, NEW p \in Process, OperationInv(p),
         Preparing(p) \/ Operating(p) \/ Concluding(p)
  PROVE  OperationInv(p)'
<1> USE DEF GoTo, Say, TypeOK, OperationInv, Early, After, Phases
<1>a. "none" \notin Failure
  BY ProcessesAssumption DEF ProcessesAssumption
<1>1. CASE Refuse(p)
  BY <1>a, <1>1 DEF Refuse
<1>2. CASE RefusePath(p)
  BY <1>a, <1>2 DEF RefusePath
<1>3. CASE PrepareInterrupted(p)
  BY <1>a, <1>3 DEF PrepareInterrupted
<1>4. CASE Prepare(p)
  BY <1>a, <1>4 DEF Prepare
<1>5. CASE StartClient(p)
  BY <1>a, <1>5 DEF StartClient
<1>6. CASE StartFails(p)
  BY <1>a, <1>6 DEF StartFails, OperationError
<1>7. CASE Open(p)
  BY <1>a, <1>7 DEF Open
<1>8. CASE OpenFails(p)
  BY <1>a, <1>8 DEF OpenFails, OperationError
<1>9. CASE Operate(p)
  BY <1>a, <1>9 DEF Operate
<1>10. CASE OperateFails(p)
  BY <1>a, <1>10 DEF OperateFails, OperationError
<1>11. CASE Record(p)
  BY <1>a, <1>11 DEF Record
<1>12. CASE BuildResult(p)
  BY <1>a, <1>12 DEF BuildResult
<1>13. CASE BuildFails(p)
  BY <1>a, <1>13 DEF BuildFails, OperationError
<1>14. CASE InterruptedBeforeRecord(p)
  BY <1>a, <1>14 DEF InterruptedBeforeRecord
<1>15. CASE Close(p)
  BY <1>a, <1>15 DEF Close
<1>16. CASE CloseFails(p)
  BY <1>a, <1>16 DEF CloseFails
<1>17. CASE OutcomeLost(p)
  BY <1>a, <1>17 DEF OutcomeLost
<1>18. CASE ReturnOutcome(p)
  BY <1>a, <1>18 DEF ReturnOutcome
<1>19. CASE TranscriptDone(p)
  BY <1>a, <1>19 DEF TranscriptDone
<1>20. CASE Conclude(p)
  BY <1>a, <1>20 DEF Conclude
<1>21. CASE OutputFails(p)
  BY <1>a, <1>21 DEF OutputFails
<1>22. CASE Traceback(p)
  BY <1>a, <1>22 DEF Traceback
<1>23. CASE WriteTranscript(p)
  BY <1>a, <1>23 DEF WriteTranscript, clivars
<1> QED
  BY <1>1, <1>2, <1>3, <1>4, <1>5, <1>6, <1>7, <1>8, <1>9, <1>10, <1>11, <1>12,
     <1>13, <1>14, <1>15, <1>16, <1>17, <1>18, <1>19, <1>20, <1>21, <1>22, <1>23
  DEF Preparing, Operating, Concluding

\* So it does with the link.
LEMMA LinkKept ==
  ASSUME TypeOK, NEW p \in Process, LinkInv(p), OperationInv(p),
         Preparing(p) \/ Operating(p) \/ Concluding(p)
  PROVE  LinkInv(p)'
<1> USE DEF GoTo, Say, TypeOK, LinkInv, Early, After, Phases
<1>a. "none" \notin Failure
  BY ProcessesAssumption DEF ProcessesAssumption
<1>1. CASE Refuse(p)
  BY <1>a, <1>1 DEF Refuse
<1>2. CASE RefusePath(p)
  BY <1>a, <1>2 DEF RefusePath
<1>3. CASE PrepareInterrupted(p)
  BY <1>a, <1>3 DEF PrepareInterrupted
<1>4. CASE Prepare(p)
  BY <1>a, <1>4 DEF Prepare
<1>5. CASE StartClient(p)
  BY <1>a, <1>5 DEF StartClient
<1>6. CASE StartFails(p)
  BY <1>a, <1>6 DEF StartFails, OperationError
<1>7. CASE Open(p)
  BY <1>a, <1>7 DEF Open
<1>8. CASE OpenFails(p)
  BY <1>a, <1>8 DEF OpenFails, OperationError
<1>9. CASE Operate(p)
  BY <1>a, <1>9 DEF Operate
<1>10. CASE OperateFails(p)
  BY <1>a, <1>10 DEF OperateFails, OperationError
<1>11. CASE Record(p)
  BY <1>a, <1>11 DEF Record
<1>12. CASE BuildResult(p)
  BY <1>a, <1>12 DEF BuildResult
<1>13. CASE BuildFails(p)
  BY <1>a, <1>13 DEF BuildFails, OperationError
<1>14. CASE InterruptedBeforeRecord(p)
  BY <1>a, <1>14 DEF InterruptedBeforeRecord
<1>15. CASE Close(p)
  BY <1>a, <1>15 DEF Close
<1>16. CASE CloseFails(p)
  BY <1>a, <1>16 DEF CloseFails
<1>17. CASE OutcomeLost(p)
  BY <1>a, <1>17 DEF OutcomeLost
<1>18. CASE ReturnOutcome(p)
  BY <1>a, <1>18 DEF ReturnOutcome
<1>19. CASE TranscriptDone(p)
  BY <1>a, <1>19 DEF TranscriptDone
<1>20. CASE Conclude(p)
  BY <1>a, <1>20 DEF Conclude
<1>21. CASE OutputFails(p)
  BY <1>a, <1>21 DEF OutputFails
<1>22. CASE Traceback(p)
  BY <1>a, <1>22 DEF Traceback
<1>23. CASE WriteTranscript(p)
  BY <1>a, <1>23 DEF WriteTranscript, clivars
<1> QED
  BY <1>1, <1>2, <1>3, <1>4, <1>5, <1>6, <1>7, <1>8, <1>9, <1>10, <1>11, <1>12,
     <1>13, <1>14, <1>15, <1>16, <1>17, <1>18, <1>19, <1>20, <1>21, <1>22, <1>23
  DEF Preparing, Operating, Concluding

\* main goes on when the transcript is written, or is not.
LEMMA TranscriptKept ==
  ASSUME TypeOK, NEW p \in Process, TranscriptInv(p),
         Preparing(p) \/ Operating(p) \/ Concluding(p)
  PROVE  TranscriptInv(p)'
<1> USE DEF GoTo, Say, TypeOK, TranscriptInv
<1>1. CASE WriteTranscript(p)
  BY <1>1 DEF WriteTranscript, clivars
<1>2. CASE TranscriptDone(p)
  BY <1>2 DEF TranscriptDone, filevars
<1>3. CASE Preparing(p)
  BY <1>3 DEF Preparing, Refuse, RefusePath, PrepareInterrupted, Prepare,
              filevars
<1>4. CASE Operating(p)
  BY <1>4
  DEF Operating, StartClient, StartFails, Open, OpenFails, Operate,
      OperateFails, Record, BuildResult, BuildFails, InterruptedBeforeRecord,
      Close, CloseFails, OutcomeLost, ReturnOutcome, OperationError, filevars
<1>5. CASE Conclude(p) \/ OutputFails(p) \/ Traceback(p)
  BY <1>5 DEF Conclude, OutputFails, Traceback, filevars
<1> QED
  BY <1>1, <1>2, <1>3, <1>4, <1>5 DEF Concluding

\* A transcript that is named was put at its path for good.
LEMMA NamedIsThere ==
  ASSUME TypeOK, Written!FileInv, NEW p \in Process, TranscriptInv(p),
         phase[p] = "report"
  PROVE  /\ TranscriptField(p) = "named" => p \in published /\ p \in durable
         /\ TranscriptError(p) = "none" /\ p \in Transcript =>
              TranscriptField(p) = "named"
<1>1. outcome[p] \in {"none", "ok", "exists"} \cup Failure
  BY DEF Written!FileInv, Written!TypeOK
<1>2. p \in Transcript => outcome[p] # "none"
  BY DEF Written!FileInv, Written!TypeOK, TranscriptInv
<1>3. outcome[p] = "ok" => p \in published /\ p \in durable
  BY DEF Written!FileInv, Written!PublishInv, Written!ContentInv
<1>4. /\ Failure \subseteq {"failed", "interrupted"}
      /\ outcome[p] = "exists" => "failed" # "none"
  BY ProcessesAssumption DEF ProcessesAssumption
<1>5. TranscriptError(p) = "none" /\ p \in Transcript => outcome[p] = "ok"
  BY <1>1, <1>2, <1>4 DEF TranscriptError
<1>6. TranscriptField(p) = "named" => TranscriptError(p) = "none" /\ p \in Transcript
  BY DEF TranscriptField
<1>7. TranscriptError(p) = "none" /\ p \in Transcript => TranscriptField(p) = "named"
  BY DEF TranscriptField
<1> QED
  BY <1>3, <1>5, <1>6, <1>7

\* The parts of a report.
LEMMA ReportParts ==
  ASSUME NEW c, NEW s, NEW d, NEW t, NEW u
  PROVE  /\ Report(c, s, d, t, u).category = c
         /\ Report(c, s, d, t, u).status = s
         /\ Report(c, s, d, t, u).completed = d
         /\ Report(c, s, d, t, u).transcript = t
         /\ Report(c, s, d, t, u).cleanup = u
BY DEF Report

\* The kinds of errors and their exit status.
LEMMA ErrorStatus ==
  /\ \A e : <<Category(e, "controller"), Status(e, 1)>> \in
              {<<"controller", 1>>, <<"interrupted", 130>>}
  /\ \A e : <<Category(e, "cleanup"), Status(e, 1)>> \in
              {<<"cleanup", 1>>, <<"interrupted", 130>>}
  /\ \A e : <<Category(e, "output"), Status(e, 2)>> \in
              {<<"output", 2>>, <<"interrupted", 130>>}
  /\ \A e : Status(e, 1) \in {1, 130} /\ Status(e, 2) \in {2, 130}
BY DEF Category, Status

\* What main says at the end is true.
LEMMA VerdictTrue ==
  ASSUME TypeOK, Written!FileInv, NEW p \in Process, ProcessInv(p),
         phase[p] = "report"
  PROVE  TrueReport(p, Verdict(p))
<1>1. /\ completed[p] \in BOOLEAN /\ completed[p] => returned[p]
      /\ completed[p] \/ operationError[p] # "none"
      /\ returned[p] /\ overtaken[p] = "none" => completed[p]
      /\ overtaken[p] # "none" => operationError[p] # "none"
  BY DEF TypeOK, ProcessInv, OperationInv, After
<1>2. link[p] => cleanupError[p] # "none" \/ overtaken[p] = "outcome"
  BY DEF ProcessInv, LinkInv
<1>3. /\ TranscriptField(p) = "named" => p \in published /\ p \in durable
      /\ TranscriptError(p) = "none" /\ p \in Transcript =>
           TranscriptField(p) = "named"
  BY NamedIsThere DEF ProcessInv
<1>4. CASE operationError[p] # "none"
  <2>1. FirstError(p) = "operation"
    BY <1>4 DEF FirstError
  <2>2. Verdict(p) = Report(Category(operationError[p], "controller"),
                            Status(operationError[p], 1), completed[p],
                            TranscriptField(p), cleanupError[p])
    BY <2>1 DEF Verdict
  <2>3. /\ Verdict(p).category = Category(operationError[p], "controller")
        /\ Verdict(p).status = Status(operationError[p], 1)
        /\ Verdict(p).completed = completed[p]
        /\ Verdict(p).transcript = TranscriptField(p)
        /\ Verdict(p).cleanup = cleanupError[p]
    BY <2>2, ReportParts
  <2>4. /\ <<Verdict(p).category, Verdict(p).status>> \in
             {<<"controller", 1>>, <<"interrupted", 130>>}
        /\ Verdict(p).status # 0 /\ Verdict(p).status # 2
    BY <2>3, ErrorStatus
  <2>5. <<Verdict(p).category, Verdict(p).status>> \in
          {<<"ok", 0>>, <<"controller", 1>>, <<"cleanup", 1>>, <<"input", 2>>,
           <<"output", 2>>, <<"interrupted", 130>>}
    BY <2>4
  <2>6. link[p] /\ overtaken[p] # "outcome" => cleanupError[p] # "none"
    BY <1>2
  <2> QED
    BY <1>1, <1>3, <2>3, <2>4, <2>5, <2>6, Zenon DEF TrueReport
<1>5. CASE operationError[p] = "none" /\ cleanupError[p] # "none"
  <2>1. FirstError(p) = "cleanup"
    BY <1>5 DEF FirstError
  <2>2. Verdict(p) = Report(Category(cleanupError[p], "cleanup"),
                            Status(cleanupError[p], 1), completed[p],
                            TranscriptField(p), cleanupError[p])
    BY <2>1 DEF Verdict
  <2>3. /\ Verdict(p).category = Category(cleanupError[p], "cleanup")
        /\ Verdict(p).status = Status(cleanupError[p], 1)
        /\ Verdict(p).completed = completed[p]
        /\ Verdict(p).transcript = TranscriptField(p)
        /\ Verdict(p).cleanup = cleanupError[p]
    BY <2>2, ReportParts
  <2>4. /\ <<Verdict(p).category, Verdict(p).status>> \in
             {<<"cleanup", 1>>, <<"interrupted", 130>>}
        /\ Verdict(p).status # 0 /\ Verdict(p).status # 2
    BY <2>3, ErrorStatus
  <2>5. <<Verdict(p).category, Verdict(p).status>> \in
          {<<"ok", 0>>, <<"controller", 1>>, <<"cleanup", 1>>, <<"input", 2>>,
           <<"output", 2>>, <<"interrupted", 130>>}
    BY <2>4
  <2>6. link[p] /\ overtaken[p] # "outcome" => cleanupError[p] # "none"
    BY <1>2
  <2> QED
    BY <1>1, <1>3, <1>5, <2>3, <2>4, <2>5, <2>6, Zenon DEF TrueReport
<1>6. CASE /\ operationError[p] = "none" /\ cleanupError[p] = "none"
           /\ TranscriptError(p) # "none"
  <2>1. FirstError(p) = "output"
    BY <1>6 DEF FirstError
  <2>2. Verdict(p) = Report(Category(TranscriptError(p), "output"),
                            Status(TranscriptError(p), 2), completed[p],
                            TranscriptField(p), cleanupError[p])
    BY <2>1 DEF Verdict
  <2>3. /\ Verdict(p).category = Category(TranscriptError(p), "output")
        /\ Verdict(p).status = Status(TranscriptError(p), 2)
        /\ Verdict(p).completed = completed[p]
        /\ Verdict(p).transcript = TranscriptField(p)
        /\ Verdict(p).cleanup = cleanupError[p]
    BY <2>2, ReportParts
  <2>4. /\ <<Verdict(p).category, Verdict(p).status>> \in
             {<<"output", 2>>, <<"interrupted", 130>>}
        /\ Verdict(p).status # 0 /\ Verdict(p).status \in {2, 130}
    BY <2>3, ErrorStatus
  <2>5. <<Verdict(p).category, Verdict(p).status>> \in
          {<<"ok", 0>>, <<"controller", 1>>, <<"cleanup", 1>>, <<"input", 2>>,
           <<"output", 2>>, <<"interrupted", 130>>}
    BY <2>4
  <2>6. link[p] /\ overtaken[p] # "outcome" => cleanupError[p] # "none"
    BY <1>2
  <2> QED
    BY <1>1, <1>3, <1>6, <2>3, <2>4, <2>5, <2>6, Zenon DEF TrueReport
<1>7. CASE /\ operationError[p] = "none" /\ cleanupError[p] = "none"
           /\ TranscriptError(p) = "none"
  <2>1. FirstError(p) = "none"
    BY <1>7 DEF FirstError
  <2>2. Verdict(p) = Report("ok", 0, TRUE, TranscriptField(p), "none")
    BY <2>1 DEF Verdict
  <2>3. /\ Verdict(p).category = "ok" /\ Verdict(p).status = 0
        /\ Verdict(p).completed
        /\ Verdict(p).transcript = TranscriptField(p)
    BY <2>2 DEF Report
  <2>4. <<Verdict(p).category, Verdict(p).status>> \in
          {<<"ok", 0>>, <<"controller", 1>>, <<"cleanup", 1>>, <<"input", 2>>,
           <<"output", 2>>, <<"interrupted", 130>>}
        /\ Verdict(p).status # 2
    BY <2>3
  <2>5. ~link[p] /\ returned[p]
    BY <1>1, <1>2, <1>7
  <2> QED
    BY <1>3, <1>7, <2>3, <2>4, <2>5, Zenon DEF TrueReport
<1> QED
  BY <1>4, <1>5, <1>6, <1>7

\* A verdict of status 0 has no error before it.
LEMMA ZeroHasNoError ==
  ASSUME NEW p \in Process, Verdict(p).status = 0
  PROVE  FirstError(p) = "none"
<1>1. \A e, n : n \in {1, 2} => Status(e, n) # 0
  BY DEF Status
<1>2. FirstError(p) \in {"operation", "cleanup", "output", "none"}
  BY DEF FirstError
<1>3. CASE FirstError(p) = "operation"
  BY <1>1, <1>3 DEF Verdict, Report
<1>4. CASE FirstError(p) = "cleanup"
  BY <1>1, <1>4 DEF Verdict, Report
<1>5. CASE FirstError(p) = "output"
  BY <1>1, <1>5 DEF Verdict, Report
<1> QED
  BY <1>2, <1>3, <1>4, <1>5

\* What a process says is true, and stays it.
LEMMA ReportKept ==
  ASSUME TypeOK, Written!FileInv, NEW p \in Process, ProcessInv(p),
         Preparing(p) \/ Operating(p) \/ Concluding(p)
  PROVE  ReportInv(p)'
<1> DEFINE r == report'[p]
<1>1. phase[p] # "exited" /\ report[p] = NoReport
  <2>1. phase[p] # "exited"
    BY DEF Preparing, Operating, Concluding,
           Refuse, RefusePath, PrepareInterrupted, Prepare, StartClient,
           StartFails, Open, OpenFails, Operate, OperateFails, Record,
           BuildResult, BuildFails, InterruptedBeforeRecord, Close, CloseFails,
           OutcomeLost, ReturnOutcome, WriteTranscript, TranscriptDone,
           Conclude, OutputFails, Traceback
  <2> QED
    BY <2>1 DEF ProcessInv, ReportInv
<1>2. CASE report'[p] = report[p]
  BY <1>1, <1>2 DEF ReportInv, Said
<1>3. ASSUME UNCHANGED <<contacted, link, returned, overtaken, filevars>>,
             report' = [report EXCEPT ![p] = r], phase' = [phase EXCEPT ![p] = "exited"],
             TrueReport(p, r)
      PROVE  ReportInv(p)'
  <2>1. phase'[p] = "exited"
    BY <1>3 DEF TypeOK
  <2>2. UNCHANGED <<published, durable>>
    BY <1>3 DEF filevars
  <2> QED
    BY <1>3, <2>1, <2>2 DEF ReportInv, TrueReport
<1>4. CASE Refuse(p) \/ RefusePath(p) \/ PrepareInterrupted(p)
  <2>1. /\ phase[p] = "prepare"
        /\ UNCHANGED <<contacted, link, returned, overtaken, filevars>>
        /\ phase' = [phase EXCEPT ![p] = "exited"]
    BY <1>4 DEF Refuse, RefusePath, PrepareInterrupted, Say, GoTo
  <2>2. PICK c \in {"input", "interrupted"} :
          report' = [report EXCEPT ![p] =
                       Report(c, IF c = "input" THEN 2 ELSE 130, FALSE,
                              "none", "none")]
    <3>1. Refuse(p) \/ RefusePath(p) =>
            report' = [report EXCEPT ![p] =
                         Report("input", 2, FALSE, "none", "none")]
      BY DEF Refuse, RefusePath, Say
    <3>2. PrepareInterrupted(p) =>
            report' = [report EXCEPT ![p] =
                         Report("interrupted", 130, FALSE, "none", "none")]
      BY DEF PrepareInterrupted, Say
    <3> QED
      BY <1>4, <3>1, <3>2
  <2>3. r = Report(c, IF c = "input" THEN 2 ELSE 130, FALSE, "none", "none")
    BY <2>2 DEF TypeOK
  <2>4. ~returned[p] /\ ~link[p] /\ ~contacted[p]
    BY <2>1 DEF ProcessInv, OperationInv, LinkInv, Early
  <2>5. /\ <<r.category, r.status>> \in {<<"input", 2>>, <<"interrupted", 130>>}
        /\ r.status # 0 /\ ~r.completed /\ r.transcript = "none"
    BY <2>3 DEF Report
  <2>6. <<r.category, r.status>> \in
          {<<"ok", 0>>, <<"controller", 1>>, <<"cleanup", 1>>, <<"input", 2>>,
           <<"output", 2>>, <<"interrupted", 130>>}
    BY <2>5
  <2>7. TrueReport(p, r)
    <3> HIDE DEF r
    <3> QED
      BY <2>4, <2>5, <2>6, Zenon DEF TrueReport
  <2>8. report' = [report EXCEPT ![p] = r]
    BY <2>2, <2>3
  <2> QED
    BY <1>3, <2>1, <2>7, <2>8
<1>5. CASE Conclude(p)
  <2>1. /\ phase[p] = "report" /\ report' = [report EXCEPT ![p] = Verdict(p)]
        /\ UNCHANGED <<contacted, link, returned, overtaken, filevars>>
        /\ phase' = [phase EXCEPT ![p] = "exited"]
    BY <1>5 DEF Conclude, Say, GoTo
  <2>2. r = Verdict(p)
    BY <2>1 DEF TypeOK
  <2>3. TrueReport(p, r)
    BY <2>1, <2>2, VerdictTrue
  <2> QED
    BY <1>3, <2>1, <2>2, <2>3
<1>6. CASE OutputFails(p)
  <2>1. PICK f \in Failure :
          report' = [report EXCEPT ![p] =
                       Report(Category(f, "output"), Status(f, 2), TRUE,
                              TranscriptField(p), "none")]
    BY <1>6 DEF OutputFails, Say
  <2>2. /\ phase[p] = "report" /\ Verdict(p).status = 0
        /\ UNCHANGED <<contacted, link, returned, overtaken, filevars>>
        /\ phase' = [phase EXCEPT ![p] = "exited"]
    BY <1>6 DEF OutputFails, Say, GoTo
  <2>3. r = Report(Category(f, "output"), Status(f, 2), TRUE,
                   TranscriptField(p), "none")
    BY <2>1 DEF TypeOK
  <2>4. /\ operationError[p] = "none" /\ cleanupError[p] = "none"
        /\ TranscriptError(p) = "none"
    BY <2>2, ZeroHasNoError DEF FirstError
  <2>5. returned[p] /\ ~link[p]
    BY <2>2, <2>4 DEF ProcessInv, OperationInv, LinkInv, After
  <2>6. TranscriptField(p) = "named" => p \in published /\ p \in durable
    BY <2>2, NamedIsThere DEF ProcessInv
  <2>7. /\ r.category = Category(f, "output") /\ r.status = Status(f, 2)
        /\ r.completed /\ r.transcript = TranscriptField(p)
    BY <2>3 DEF Report
  <2>8. /\ <<r.category, r.status>> \in {<<"output", 2>>, <<"interrupted", 130>>}
        /\ r.status # 0
    BY <2>7, ErrorStatus
  <2>9. <<r.category, r.status>> \in
          {<<"ok", 0>>, <<"controller", 1>>, <<"cleanup", 1>>, <<"input", 2>>,
           <<"output", 2>>, <<"interrupted", 130>>}
    BY <2>8
  <2>10. TrueReport(p, r)
    <3> HIDE DEF r
    <3> QED
      BY <2>5, <2>6, <2>7, <2>8, <2>9, Zenon DEF TrueReport
  <2> QED
    BY <1>3, <2>1, <2>2, <2>3, <2>10
<1>7. CASE ~(\/ Refuse(p) \/ RefusePath(p) \/ PrepareInterrupted(p)
             \/ Conclude(p) \/ OutputFails(p))
  <2>1. UNCHANGED report
    BY <1>7 DEF Preparing, Operating, Concluding, clivars,
           Prepare, StartClient,
           StartFails, Open, OpenFails, Operate, OperateFails, Record,
           BuildResult, BuildFails, InterruptedBeforeRecord, Close, CloseFails,
           OutcomeLost, ReturnOutcome, WriteTranscript, TranscriptDone,
           Traceback
  <2> QED
    BY <1>2, <2>1
<1> QED
  BY <1>4, <1>5, <1>6, <1>7

-----------------------------------------------------------------------------
(* The theorems.                                                           *)

\* The invariant holds at the start.
LEMMA InitCli == Init => CliInv
<1> SUFFICES ASSUME Init PROVE CliInv
  OBVIOUS
<1>1. TypeOK
  BY DEF Init, TypeOK, Phases, Early, Errors
<1>2. ~crashed /\ \A p \in Process : stage[p] = "idle" /\ outcome[p] = "none"
  BY DEF Init, File!Init
<1>3. ASSUME NEW p \in Process PROVE ProcessInv(p)
  <2>1. OperationInv(p)
    BY DEF Init, OperationInv, Early, After
  <2>2. LinkInv(p)
    BY DEF Init, LinkInv
  <2>3. TranscriptInv(p)
    BY <1>2 DEF Init, TranscriptInv
  <2>4. ReportInv(p)
    BY DEF Init, ReportInv, Said
  <2> QED
    BY <2>1, <2>2, <2>3, <2>4 DEF ProcessInv
<1> QED
  BY <1>1, <1>2, <1>3 DEF CliInv

\* Every step keeps it.
LEMMA CliKept ==
  ASSUME CliInv, Written!FileInv, [Next]_vars PROVE CliInv'
<1>1. ASSUME NEW p \in Process, Preparing(p) \/ Operating(p) \/ Concluding(p)
      PROVE  CliInv'
  <2>1. TypeOK'
    BY <1>1, StepTyped DEF CliInv
  <2>2. FilesStay /\ \A q \in Process \ {p} : Untouched(q)
    BY <1>1, StepsAreLocal DEF CliInv
  <2>3. ProcessInv(p)'
    BY <1>1, OperationKept, LinkKept, TranscriptKept, ReportKept
    DEF CliInv, ProcessInv
  <2>4. ASSUME NEW q \in Process \ {p} PROVE ProcessInv(q)'
    BY <2>2, UntouchedKept DEF CliInv
  <2>5. ~crashed'
    BY <2>2 DEF CliInv, FilesStay
  <2> QED
    BY <2>1, <2>3, <2>4, <2>5 DEF CliInv
<1>2. CASE (File!ForeignStep /\ UNCHANGED clivars) \/ UNCHANGED vars
  <2>1. /\ UNCHANGED clivars /\ UNCHANGED <<stage, outcome, crashed, published, durable>>
    BY <1>2 DEF File!ForeignStep, vars, filevars
  <2>2. TypeOK' /\ ~crashed'
    BY <2>1 DEF CliInv, TypeOK, clivars
  <2>3. FilesStay
    BY <2>1 DEF FilesStay
  <2>4. ASSUME NEW q \in Process PROVE ProcessInv(q)'
    <3>1. Untouched(q)
      BY <2>1 DEF clivars, Untouched
    <3> QED
      BY <2>3, <3>1, UntouchedKept DEF CliInv
  <2> QED
    BY <2>2, <2>4 DEF CliInv
<1> QED
  BY <1>1, <1>2 DEF Next

\* What every reachable state of the processes and of the file satisfies.
LEMMA CliHolds ==
  Spec => []CliInv /\ []Written!FileInv /\ []Written!OneWinner
<1>1. CliInv /\ Written!FileInv /\ [Next]_vars => CliInv'
  BY CliKept
<1> QED
  BY <1>1, InitCli, FileHolds, PTL DEF Spec

\* operation_completed is said of every operation whose method returned, and of
\* no other, whatever failed after it, unless an interrupt overtook it.
THEOREM CompletedIsAlwaysTold == Spec => []CompletedIsTold
<1>1. CliInv => CompletedIsTold
  BY DEF CliInv, ProcessInv, ReportInv, TrueReport, CompletedIsTold
<1> QED
  BY <1>1, CliHolds, PTL

\* The exit status tells the category; 0 says that everything asked for is
\* done, 2 that the controller need not be looked at.
THEOREM StatusesAreTrue == Spec => []StatusIsTrue
<1>1. CliInv => StatusTellsCategory
  BY DEF CliInv, ProcessInv, ReportInv, TrueReport, StatusTellsCategory
<1>2. CliInv => ZeroMeansDone
  BY DEF CliInv, ProcessInv, ReportInv, TrueReport, ZeroMeansDone
<1>3. CliInv => TwoIsNotTheController
  BY DEF CliInv, ProcessInv, ReportInv, TrueReport, TwoIsNotTheController
<1> QED
  BY <1>1, <1>2, <1>3, CliHolds, PTL DEF StatusIsTrue

\* A link left open, and a path that was taken, are reported.
THEOREM FailuresAreAlwaysReported == Spec => []FailuresAreReported
<1>1. CliInv => LeftOpenIsReported
  BY DEF CliInv, ProcessInv, ReportInv, TrueReport, LeftOpenIsReported
<1>2. CliInv /\ Written!OneWinner => LoserSaysSo
  <2> SUFFICES ASSUME CliInv, Written!OneWinner,
                      NEW p \in Transcript \ Forced, NEW q \in Transcript \ Forced,
                      Said(p), report[p].transcript = "named", Said(q), q # p,
                      report[q].transcript = "named"
               PROVE  removed
    BY DEF LoserSaysSo
  <2>1. p \in Process /\ q \in Process
    BY ProcessesAssumption DEF ProcessesAssumption
  <2>2. p \in published \ Forced /\ q \in published \ Forced
    BY <2>1 DEF CliInv, ProcessInv, ReportInv, TrueReport
  <2> QED
    BY <2>2 DEF CliInv, Written!OneWinner
<1> QED
  BY <1>1, <1>2, CliHolds, PTL DEF FailuresAreReported

=============================================================================
