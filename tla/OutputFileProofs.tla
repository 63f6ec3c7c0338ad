--------------------------- MODULE OutputFileProofs ---------------------------
(***************************************************************************)
(* OutputFile for any number of writers: a crash leaves no part of a file  *)
(* at the path, nothing is replaced without force, and what a call says of  *)
(* itself is true.                                                         *)
(***************************************************************************)
EXTENDS OutputFile, TLAPS

\* What each stage may rely on.  Contents: a file is synced once it is whole, and
\* only synced files have ever had the path, now or at a time a crash may bring
\* back.
ContentInv ==
  /\ \A w \in Writer :
       /\ stage[w] = "written" => content[w] = "whole"
       /\ stage[w] \in {"idle", "writing", "written"} => w \notin durable
       /\ stage[w] \in {"synced", "linked"} => w \in durable
       /\ w \in durable => content[w] = "whole"
  /\ published \subseteq durable
  /\ \A w \in Writer : w = target \/ w \in earlier => w \in published

\* Outcomes: a call has the path only after its link or its rename.
PublishInv ==
  \A w \in Writer :
    /\ stage[w] \in {"idle", "writing", "written", "synced"} => w \notin published
    /\ stage[w] \in {"idle", "writing", "written", "synced", "linked"} =>
         outcome[w] = "none"
    /\ stage[w] = "linked" => w \in published
    /\ outcome[w] = "ok" => w \in published
    /\ outcome[w] = "exists" => w \notin published

FileInv == TypeOK /\ ContentInv /\ PublishInv /\ NoTemporaryLeft

USE DEF GoTo, Outcome, Publish, InTry

\* Before any call the path holds a whole file or none.
LEMMA InitFile == Init => FileInv
BY ZenonT(40), WritersAssumption
   DEF Init, FileInv, TypeOK, ContentInv, PublishInv, NoTemporaryLeft

\* A step of a call keeps the types.
LEMMA WriterType ==
  ASSUME TypeOK, NEW w \in Writer, WriterStep(w)
  PROVE  TypeOK'
<1>1. Failure \subseteq {"failed", "interrupted"}
  BY WritersAssumption
<1>2. CASE CreateTemporary(w)
  BY <1>2 DEF CreateTemporary, TypeOK
<1>3. CASE CreateFails(w)
  BY <1>1, <1>3 DEF CreateFails, TypeOK
<1>4. CASE CreateInterrupted(w)
  BY <1>1, <1>4 DEF CreateInterrupted, TypeOK
<1>5. CASE Write(w)
  BY <1>5 DEF Write, TypeOK
<1>6. CASE Sync(w)
  BY <1>6 DEF Sync, TypeOK
<1>7. CASE Replace(w)
  BY <1>7 DEF Replace, TypeOK
<1>8. CASE Link(w)
  BY <1>8 DEF Link, TypeOK
<1>9. CASE LinkExists(w)
  BY <1>9 DEF LinkExists, TypeOK
<1>10. CASE UnlinkTemporary(w)
  BY <1>10 DEF UnlinkTemporary, TypeOK
<1>11. CASE Fail(w)
  BY <1>1, <1>11 DEF Fail, TypeOK
<1>12. CASE Cleanup(w)
  BY <1>12 DEF Cleanup, TypeOK
<1>13. CASE CleanupFails(w)
  BY <1>1, <1>13 DEF CleanupFails, TypeOK
<1> QED
  BY <1>2, <1>3, <1>4, <1>5, <1>6, <1>7, <1>8, <1>9, <1>10, <1>11, <1>12, <1>13
     DEF WriterStep, WriterWorks, WriterFails

\* It keeps what the stages rely on.
LEMMA WriterContent ==
  ASSUME FileInv, NEW w \in Writer, WriterStep(w)
  PROVE  ContentInv'
<1> USE DEF FileInv, TypeOK, ContentInv
<1>1. CASE CreateTemporary(w)
  BY <1>1 DEF CreateTemporary
<1>2. CASE CreateFails(w)
  BY <1>2 DEF CreateFails
<1>3. CASE CreateInterrupted(w)
  BY <1>3 DEF CreateInterrupted
<1>4. CASE Write(w)
  BY <1>4 DEF Write
<1>5. CASE Sync(w)
  BY <1>5 DEF Sync
<1>6. CASE Replace(w)
  BY <1>6 DEF Replace
<1>7. CASE Link(w)
  BY <1>7 DEF Link
<1>8. CASE LinkExists(w)
  BY <1>8 DEF LinkExists
<1>9. CASE UnlinkTemporary(w)
  BY <1>9 DEF UnlinkTemporary
<1>10. CASE Fail(w)
  BY <1>10 DEF Fail
<1>11. CASE Cleanup(w)
  BY <1>11 DEF Cleanup
<1>12. CASE CleanupFails(w)
  BY <1>12 DEF CleanupFails
<1> QED
  BY <1>1, <1>2, <1>3, <1>4, <1>5, <1>6, <1>7, <1>8, <1>9, <1>10, <1>11, <1>12
     DEF WriterStep, WriterWorks, WriterFails

\* And what the outcomes say.
LEMMA WriterPublish ==
  ASSUME FileInv, NEW w \in Writer, WriterStep(w)
  PROVE  PublishInv' /\ NoTemporaryLeft'
<1> USE DEF FileInv, TypeOK, PublishInv, NoTemporaryLeft
<1>1. "ok" \notin Failure /\ "exists" \notin Failure /\ "none" \notin Failure
  BY WritersAssumption
<1>2. CASE CreateTemporary(w)
  BY <1>2 DEF CreateTemporary
<1>3. CASE CreateFails(w)
  BY <1>1, <1>3 DEF CreateFails
<1>4. CASE CreateInterrupted(w)
  BY <1>1, <1>4 DEF CreateInterrupted
<1>5. CASE Write(w)
  BY <1>5 DEF Write
<1>6. CASE Sync(w)
  BY <1>6 DEF Sync
<1>7. CASE Replace(w)
  BY <1>7 DEF Replace
<1>8. CASE Link(w)
  BY <1>8 DEF Link
<1>9. CASE LinkExists(w)
  BY <1>9 DEF LinkExists
<1>10. CASE UnlinkTemporary(w)
  BY <1>10 DEF UnlinkTemporary
<1>11. CASE Fail(w)
  BY <1>1, <1>11 DEF Fail
<1>12. CASE Cleanup(w)
  BY <1>12 DEF Cleanup
<1>13. CASE CleanupFails(w)
  BY <1>1, <1>13 DEF CleanupFails
<1> QED
  BY <1>2, <1>3, <1>4, <1>5, <1>6, <1>7, <1>8, <1>9, <1>10, <1>11, <1>12, <1>13
     DEF WriterStep, WriterWorks, WriterFails

\* Other programs do not disturb it.
LEMMA ForeignFile ==
  ASSUME FileInv, ForeignStep
  PROVE  FileInv'
BY ZenonT(40), WritersAssumption
   DEF FileInv, TypeOK, ContentInv, PublishInv, NoTemporaryLeft, ForeignStep

\* Nor does a crash.
LEMMA CrashFile ==
  ASSUME FileInv, Crash
  PROVE  FileInv'
<1>1. /\ stage' = [w \in Writer |->
                     IF stage[w] \in {"idle", "ended"} THEN stage[w] ELSE "lost"]
      /\ target' \in earlier \cup {target} /\ earlier' = {} /\ crashed' = TRUE
      /\ content' \in [Writer -> {"empty", "partial", "whole"}]
      /\ \A w \in Writer : w \in durable => content'[w] = content[w]
      /\ UNCHANGED <<temporary, durable, outcome, removed, published>>
  BY DEF Crash
<1>2. \A w \in Writer :
        \/ stage'[w] = "lost"
        \/ stage'[w] = stage[w] /\ stage[w] \in {"idle", "ended"}
  BY <1>1
<1>3. TypeOK'
  <2>1. stage' \in [Writer -> {"idle", "writing", "written", "synced", "linked",
                               "cleanup", "ended", "lost"}]
    BY <1>1
  <2> QED
    BY <1>1, <1>2, <2>1 DEF FileInv, TypeOK
<1>4. ContentInv'
  BY <1>1, <1>2 DEF FileInv, ContentInv
<1>5. PublishInv'
  BY <1>1, <1>2 DEF FileInv, PublishInv
<1>6. NoTemporaryLeft'
  BY <1>1, <1>2 DEF FileInv, NoTemporaryLeft
<1> QED
  BY <1>3, <1>4, <1>5, <1>6 DEF FileInv

\* Every step keeps the invariant.
LEMMA NextFile == FileInv /\ [Next]_filevars => FileInv'
<1> SUFFICES ASSUME FileInv, [Next]_filevars
             PROVE  FileInv'
  OBVIOUS
<1>1. CASE UNCHANGED filevars
  BY <1>1 DEF filevars, FileInv, TypeOK, ContentInv, PublishInv, NoTemporaryLeft
<1>2. ASSUME NEW w \in Writer, WriterStep(w)
      PROVE  FileInv'
  <2>1. TypeOK'
    BY <1>2, WriterType DEF FileInv
  <2> QED
    BY <1>2, <2>1, WriterContent, WriterPublish DEF FileInv
<1> QED
  BY <1>1, <1>2, ForeignFile, CrashFile DEF Next

\* FileInv holds through failures, other programs and a crash.
LEMMA FileInvariant == Spec => []FileInv
BY InitFile, NextFile, PTL DEF Spec

-----------------------------------------------------------------------------
(* The theorems.                                                           *)

\* Every variable of atomic_write_bytes keeps its type, and no call ends without
\* an outcome, for any number of calls.
THEOREM FileTypeCorrect == Spec => []TypeOK
BY FileInvariant, PTL DEF FileInv

\* No reader ever finds part of a file at the path, before or after a crash.
THEOREM TargetAlwaysWhole == Spec => []TargetIsWhole
<1>1. FileInv => TargetIsWhole
  BY DEF FileInv, ContentInv, TargetIsWhole
<1> QED
  BY <1>1, FileInvariant, PTL

\* A call that returned has had the path and its file is durable; one that
\* refused has never had it.
THEOREM OutcomesAreTrue == Spec => []OutcomeIsTrue
<1>1. FileInv => OutcomeIsTrue
  BY DEF FileInv, ContentInv, PublishInv, OutcomeIsTrue
<1> QED
  BY <1>1, FileInvariant, PTL

\* A call that returned or refused has removed its temporary file.
THEOREM TemporariesAreRemoved == Spec => []NoTemporaryLeft
BY FileInvariant, PTL DEF FileInv

\* Without force no file is replaced, in any interleaving of the calls, other
\* programs and a crash.
THEOREM NothingIsClobbered == Spec => NoClobber
<1> DEFINE Safe == \A w \in Writer \ Forced :
                     target' = w /\ target # w
                       => target = NoFile \/ crashed' # crashed
<1>1. FileInv /\ [Next]_filevars => [Safe]_filevars
  <2> SUFFICES ASSUME FileInv, Next, NEW w \in Writer \ Forced,
                      target' = w, target # w
               PROVE  target = NoFile \/ crashed' # crashed
    OBVIOUS
  <2>1. ASSUME NEW v \in Writer, WriterStep(v)
        PROVE  target = NoFile
    <3>1. CASE Link(v)
      BY <3>1 DEF Link
    <3>2. CASE Replace(v)
      BY <3>2 DEF Replace
    <3>3. CASE ~Link(v) /\ ~Replace(v)
      <4>1. UNCHANGED target
        BY <2>1, <3>3
           DEF WriterStep, WriterWorks, WriterFails, CreateTemporary, CreateFails, CreateInterrupted, Write,
               Sync, LinkExists, UnlinkTemporary, Fail, Cleanup, CleanupFails
      <4> QED
        BY <4>1
    <3> QED
      BY <3>1, <3>2, <3>3
  <2>2. CASE ForeignStep
    BY <2>2, WritersAssumption DEF ForeignStep
  <2>3. CASE Crash
    BY <2>3 DEF Crash
  <2> QED
    BY <2>1, <2>2, <2>3 DEF Next
<1> QED
  BY <1>1, FileInvariant, PTL DEF Spec, NoClobber

\* Unless another program or a crash removes the file, at most one call without
\* force ever gets the path.
THEOREM AtMostOneWins == Spec => []OneWinner
<1> DEFINE Free == removed \/ crashed \/ (target = NoFile => published = {})
<1>1. Init => OneWinner /\ Free
  BY DEF Init, OneWinner
<1>2. TypeOK /\ OneWinner /\ Free /\ [Next]_filevars => OneWinner' /\ Free'
  <2> SUFFICES ASSUME TypeOK, OneWinner, Free, [Next]_filevars
               PROVE  OneWinner' /\ Free'
    OBVIOUS
  <2>1. CASE UNCHANGED <<target, published, removed, crashed>>
    BY <2>1 DEF OneWinner
  <2>2. ASSUME NEW w \in Writer, Replace(w)
        PROVE  OneWinner' /\ Free'
    BY <2>2, WritersAssumption DEF Replace, OneWinner
  <2>3. ASSUME NEW w \in Writer, Link(w)
        PROVE  OneWinner' /\ Free'
    BY <2>3, WritersAssumption DEF Link, OneWinner
  <2>4. CASE ForeignStep
    BY <2>4, WritersAssumption DEF ForeignStep, OneWinner
  <2>5. CASE Crash
    BY <2>5 DEF Crash, OneWinner
  <2>6. ASSUME NEW w \in Writer, WriterStep(w), ~Replace(w), ~Link(w)
        PROVE  UNCHANGED <<target, published, removed, crashed>>
    BY <2>6
       DEF WriterStep, WriterWorks, WriterFails, CreateTemporary, CreateFails,
           CreateInterrupted, Write, Sync, LinkExists, UnlinkTemporary, Fail,
           Cleanup, CleanupFails
  <2>7. CASE UNCHANGED filevars
    BY <2>1, <2>7 DEF filevars
  <2> QED
    BY <2>1, <2>2, <2>3, <2>4, <2>5, <2>6, <2>7 DEF Next
<1>3. FileInv => TypeOK
  BY DEF FileInv
<1> QED
  BY <1>1, <1>2, <1>3, FileInvariant, PTL DEF Spec

=============================================================================
