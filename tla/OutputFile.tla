------------------------------ MODULE OutputFile ------------------------------
(***************************************************************************)
(* atomic_write_bytes: several programs write a file of the same name at   *)
(* the same time.  Each writes a temporary file of its own, makes it       *)
(* durable, and then gives it the name: with force by a rename, which      *)
(* replaces, else by a link, which refuses.  Any call may fail or be       *)
(* interrupted, other programs use the same directory, and the machine may *)
(* crash.                                                                  *)
(*                                                                         *)
(* A file is called by the program that wrote it.                          *)
(***************************************************************************)
CONSTANTS
  Writer,      \* calls of atomic_write_bytes, all for the same path
  Forced,      \* those with force=True
  Foreign,     \* a complete file of another program
  NoFile,
  Failure      \* what is raised: "failed" by the system, "interrupted" by the
               \* user

ASSUME WritersAssumption ==
  /\ Forced \subseteq Writer
  /\ Failure \subseteq {"failed", "interrupted"}
  /\ Foreign \notin Writer /\ NoFile \notin Writer /\ Foreign # NoFile

VARIABLES
  target,      \* the file at the path
  temporary,   \* whose temporary files are in the directory
  content,     \* what has reached each file
  durable,     \* whose file a crash leaves as it is
  stage,       \* where each call is
  outcome,     \* how each call ends
  earlier,     \* targets a crash may bring back: the directory is not synced
  crashed,     \* the machine has crashed; bound: once
  removed,     \* history: another program has removed the file
  published    \* history: whose file was ever the target

filevars == <<target, temporary, content, durable, stage, outcome,
              earlier, crashed, removed, published>>

Init ==
  /\ target \in {NoFile, Foreign} /\ earlier = {}
  /\ temporary = {} /\ durable = {} /\ published = {}
  /\ content = [w \in Writer |-> "empty"]
  /\ stage = [w \in Writer |-> "idle"]
  /\ outcome = [w \in Writer |-> "none"]
  /\ crashed = FALSE /\ removed = FALSE

GoTo(w, s) == stage' = [stage EXCEPT ![w] = s]

\* The call is at a statement of its try block.
InTry(w) == stage[w] \in {"writing", "written", "synced", "linked"}

\* The exception, or its absence, that the finally clause lets pass.
Outcome(w, o) == outcome' = [outcome EXCEPT ![w] = o]

\* The path gets a new file.
Publish(w) ==
  /\ target' = w
  /\ earlier' = earlier \cup {target}
  /\ published' = published \cup {w}

CreateTemporary(w) ==
  /\ stage[w] = "idle"
  /\ GoTo(w, "writing")
  /\ temporary' = temporary \cup {w}
  /\ UNCHANGED <<target, content, durable, outcome, earlier, crashed, removed,
                 published>>

\* There is no directory, or mkstemp fails.
CreateFails(w) ==
  /\ stage[w] = "idle"
  /\ GoTo(w, "ended") /\ \E f \in Failure : Outcome(w, f)
  /\ UNCHANGED <<target, temporary, content, durable, earlier, crashed,
                 removed, published>>

\* An interrupt after mkstemp and before try.
CreateInterrupted(w) ==
  /\ stage[w] = "idle" /\ "interrupted" \in Failure
  /\ GoTo(w, "ended") /\ Outcome(w, "interrupted")
  /\ temporary' = temporary \cup {w}
  /\ UNCHANGED <<target, content, durable, earlier, crashed, removed,
                 published>>

\* write() and flush(), which may stop in the middle.
Write(w) ==
  /\ stage[w] = "writing"
  /\ \/ content[w] = "empty" /\ content' = [content EXCEPT ![w] = "partial"]
        /\ UNCHANGED stage
     \/ content' = [content EXCEPT ![w] = "whole"] /\ GoTo(w, "written")
  /\ UNCHANGED <<target, temporary, durable, outcome, earlier, crashed,
                 removed, published>>

\* Mutant: flush() is taken for fsync().
FlushOnly(w) ==
  /\ stage[w] = "written"
  /\ GoTo(w, "synced")
  /\ UNCHANGED <<target, temporary, content, durable, outcome, earlier,
                 crashed, removed, published>>

Sync(w) ==
  /\ stage[w] = "written"
  /\ GoTo(w, "synced")
  /\ durable' = durable \cup {w}
  /\ UNCHANGED <<target, temporary, content, outcome, earlier, crashed,
                 removed, published>>

\* os.replace(): the temporary name goes with it.
Replace(w) ==
  /\ stage[w] = "synced" /\ w \in Forced
  /\ Publish(w)
  /\ temporary' = temporary \ {w}
  /\ GoTo(w, "cleanup") /\ Outcome(w, "ok")
  /\ UNCHANGED <<content, durable, crashed, removed>>

\* Mutant: the name is seen to be free before the file is written, and taken
\* whatever has happened since.
LinkUnchecked(w) ==
  /\ stage[w] = "synced" /\ w \notin Forced
  /\ Publish(w)
  /\ GoTo(w, "linked")
  /\ UNCHANGED <<temporary, content, durable, outcome, crashed, removed>>

\* os.link(): only where there is no file.
Link(w) ==
  /\ stage[w] = "synced" /\ w \notin Forced /\ target = NoFile
  /\ Publish(w)
  /\ GoTo(w, "linked")
  /\ UNCHANGED <<temporary, content, durable, outcome, crashed, removed>>

LinkExists(w) ==
  /\ stage[w] = "synced" /\ w \notin Forced /\ target # NoFile
  /\ GoTo(w, "cleanup") /\ Outcome(w, "exists")
  /\ UNCHANGED <<target, temporary, content, durable, earlier, crashed,
                 removed, published>>

\* temporary_path.unlink() after the link.
UnlinkTemporary(w) ==
  /\ stage[w] = "linked"
  /\ temporary' = temporary \ {w}
  /\ GoTo(w, "cleanup") /\ Outcome(w, "ok")
  /\ UNCHANGED <<target, content, durable, earlier, crashed, removed,
                 published>>

\* A statement of the try block raises, or is interrupted.
Fail(w) ==
  /\ InTry(w)
  /\ GoTo(w, "cleanup") /\ \E f \in Failure : Outcome(w, f)
  /\ UNCHANGED <<target, temporary, content, durable, earlier, crashed,
                 removed, published>>

\* Mutant: there is no finally clause.
NoFinally(w) ==
  /\ stage[w] = "cleanup"
  /\ GoTo(w, "ended")
  /\ UNCHANGED <<target, temporary, content, durable, outcome, earlier,
                 crashed, removed, published>>

\* The finally clause.
Cleanup(w) ==
  /\ stage[w] = "cleanup"
  /\ temporary' = temporary \ {w}
  /\ GoTo(w, "ended")
  /\ UNCHANGED <<target, content, durable, outcome, earlier, crashed, removed,
                 published>>

\* The finally clause raises, or is interrupted.
CleanupFails(w) ==
  /\ stage[w] = "cleanup"
  /\ GoTo(w, "ended") /\ \E f \in Failure : Outcome(w, f)
  /\ UNCHANGED <<target, temporary, content, durable, earlier, crashed,
                 removed, published>>

\* The call goes on.
WriterWorks(w) ==
  \/ CreateTemporary(w) \/ Write(w) \/ Sync(w) \/ Replace(w) \/ Link(w)
  \/ LinkExists(w) \/ UnlinkTemporary(w) \/ Cleanup(w)

\* It raises, or is interrupted.
WriterFails(w) ==
  CreateFails(w) \/ CreateInterrupted(w) \/ Fail(w) \/ CleanupFails(w)

WriterStep(w) == WriterWorks(w) \/ WriterFails(w)

\* Another program creates the file, or removes it.
ForeignStep ==
  /\ \/ target = NoFile /\ target' = Foreign
        /\ UNCHANGED removed
     \/ target # NoFile /\ target' = NoFile
        /\ removed' = TRUE
  /\ earlier' = earlier \cup {target}
  /\ UNCHANGED <<temporary, content, durable, stage, outcome, crashed,
                 published>>

\* What a crash leaves of a file that was not synced.
AtMost(c) == CASE c = "whole"   -> {"empty", "partial", "whole"}
               [] c = "partial" -> {"empty", "partial"}
               [] c = "empty"   -> {"empty"}

\* Running calls are gone, with what was not synced; a change of the directory
\* may be lost with all that followed it.  The temporary names are left as they
\* are: nothing below asks for them after a crash.
Crash ==
  /\ ~crashed /\ crashed' = TRUE
  /\ target' \in earlier \cup {target} /\ earlier' = {}
  /\ stage' = [w \in Writer |->
                 IF stage[w] \in {"idle", "ended"} THEN stage[w] ELSE "lost"]
  /\ content' \in [Writer -> {"empty", "partial", "whole"}]
  /\ \A w \in Writer : /\ content'[w] \in AtMost(content[w])
                       /\ w \in durable => content'[w] = content[w]
  /\ UNCHANGED <<temporary, durable, outcome, removed, published>>

Next == (\E w \in Writer : WriterStep(w)) \/ ForeignStep \/ Crash

Spec == Init /\ [][Next]_filevars

-----------------------------------------------------------------------------
(* Properties.                                                             *)

\* Every variable stays in its range, and no call ends without an outcome.
TypeOK ==
  /\ target \in Writer \cup {NoFile, Foreign}
  /\ earlier \subseteq Writer \cup {NoFile, Foreign}
  /\ temporary \subseteq Writer /\ durable \subseteq Writer
  /\ published \subseteq Writer
  /\ content \in [Writer -> {"empty", "partial", "whole"}]
  /\ stage \in [Writer -> {"idle", "writing", "written", "synced", "linked",
                           "cleanup", "ended", "lost"}]
  /\ outcome \in [Writer -> {"none", "ok", "exists"} \cup Failure]
  /\ \A w \in Writer : stage[w] \in {"cleanup", "ended"} => outcome[w] # "none"
  /\ crashed \in BOOLEAN /\ removed \in BOOLEAN

\* Whoever reads the path, at any time and after a crash, reads no part of a
\* file: it is there whole or not at all.
TargetIsWhole == target \in Writer => content[target] = "whole"

\* Without force no file that is there is ever replaced, not even one that
\* appeared while the call was running.
NoClobber ==
  [][\A w \in Writer \ Forced :
       target' = w /\ target # w => target = NoFile \/ crashed' # crashed]_filevars

\* What a call says of itself: one that returned has been at the path and is
\* durable; one that refused has never been.
OutcomeIsTrue ==
  \A w \in Writer :
    /\ outcome[w] = "ok" => w \in published /\ w \in durable
    /\ outcome[w] = "exists" => w \notin published

\* Of the calls without force at most one ever gets the path, the failed ones
\* included, unless another program removes the file or a crash does.
OneWinner == removed \/ crashed \/ \A v, w \in published \ Forced : v = w

\* A call that returned, or refused, leaves no temporary file.
NoTemporaryLeft ==
  \A w \in Writer :
    stage[w] = "ended" /\ outcome[w] \in {"ok", "exists"} => w \notin temporary

=============================================================================
