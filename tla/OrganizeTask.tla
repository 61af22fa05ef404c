---------------------------- MODULE OrganizeTask ----------------------------
(****************************************************************************)
(* MediaOrganizeService (app/services/media/organize.py) as TaskRunner      *)
(* calls it (app/services/platform/task_runner.py): the videos of a folder  *)
(* of the drive are listed and matched one by one, and each one that is     *)
(* matched gets a .strm file, named after what it was matched with.  What   *)
(* fails with a video is counted; what fails elsewhere is tried again; and  *)
(* a cancellation goes through both.                                        *)
(****************************************************************************)
EXTENDS Naturals, FiniteSets

CONSTANTS
    Videos, Names,
    Title,          \* external: the name that a video would be matched with
    Attempts,       \* max_retries + 1
    NoVideo, Empty  \* what a .strm file leads to

OrganizeAssumption ==
    /\ Title \in [Videos -> Names] /\ Attempts \in Nat \ {0}
    /\ {NoVideo, Empty} \cap Videos = {} /\ NoVideo # Empty

VARIABLES
    drive,          \* the videos that are in the folder
    strm,           \* the video that each .strm file leads to
    status,         \* of the task
    run,            \* the attempt that runs
    asked,          \* it has been asked to cancel the task
    after           \* history: .strm files written since

vars == <<drive, strm, status, run, asked, after>>

NoCounts == [generated |-> 0, skipped |-> 0, errors |-> 0]
NoRun    == [at |-> "idle", attempt |-> 0, open |-> FALSE, listed |-> {}, todo |-> {},
             now |-> NoVideo, counts |-> NoCounts]

TypeOK ==
    /\ drive \subseteq Videos /\ strm \in [Names -> Videos \cup {NoVideo, Empty}]
    /\ status \in {"queued", "running", "completed", "partial_success", "failed", "cancelled"}
    /\ run.at \in {"idle", "begin", "list", "video", "match", "matched", "end", "review"}
    /\ run.attempt \in 0 .. Attempts /\ run.open \in BOOLEAN
    /\ run.todo \subseteq run.listed /\ run.listed \subseteq Videos
    /\ run.now \in run.todo \cup {NoVideo}
    /\ \A c \in DOMAIN NoCounts : run.counts[c] \in 0 .. Cardinality(Videos)
    /\ asked \in BOOLEAN /\ after \in Nat

Init ==
    /\ drive = Videos /\ strm = [n \in Names |-> NoVideo]
    /\ status = "queued" /\ run = NoRun /\ asked = FALSE /\ after = 0

-----------------------------------------------------------------------------
Kept == UNCHANGED <<drive, strm, status, asked, after>>

(* Wrong on purpose: nothing closes the client.                             *)
ClosedNever(r) == r

(* The finally of process_strm_generation.                                  *)
Closed(r) == [r EXCEPT !.open = FALSE]

(* Another attempt, or the end of the task.                                 *)
Raises ==
    /\ run' = IF run.attempt < Attempts
              THEN [NoRun EXCEPT !.at = "begin", !.attempt = run.attempt]
              ELSE [Closed(run) EXCEPT !.at = "idle"]
    /\ status' = IF run.attempt < Attempts THEN status ELSE "failed"
    /\ UNCHANGED <<drive, strm, asked, after>>

(* Wrong on purpose: as any Exception, it is counted, and the loop goes on. *)
CancelCounted ==
    /\ asked
    /\ run' = [run EXCEPT !.at = IF run.todo = {} THEN "review" ELSE "match",
                          !.now = IF run.todo = {} THEN NoVideo ELSE CHOOSE v \in run.todo : TRUE,
                          !.open = run.todo # {}]
    /\ UNCHANGED <<drive, strm, status, asked, after>>

(* update_progress finds that the task is to be cancelled, and raises       *)
(* CancelledError, which no except of the service catches.                  *)
Cancelled ==
    /\ asked
    /\ run' = [Closed(run) EXCEPT !.at = "idle"] /\ status' = "cancelled"
    /\ UNCHANGED <<drive, strm, asked, after>>

-----------------------------------------------------------------------------
Start ==
    /\ status = "queued"
    /\ status' = "running" /\ run' = [NoRun EXCEPT !.at = "begin"]
    /\ UNCHANGED <<drive, strm, asked, after>>

(* A drive's cookie, or else the configuration's; without one, ValueError.  *)
Begin ==
    /\ run.at = "begin"
    /\ run' = [NoRun EXCEPT !.at = "list", !.attempt = run.attempt + 1, !.open = TRUE]
    /\ Kept

BeginFails ==
    /\ run.at = "begin"
    /\ run' = IF run.attempt + 1 < Attempts THEN [run EXCEPT !.attempt = @ + 1]
              ELSE [run EXCEPT !.at = "idle", !.attempt = @ + 1]
    /\ status' = IF run.attempt + 1 < Attempts THEN status ELSE "failed"
    /\ UNCHANGED <<drive, strm, asked, after>>

(* _scan_recursive: of a folder whose listing fails, nothing is listed.     *)
Listed(videos) ==
    /\ run.at = "list" /\ ~asked /\ videos \subseteq drive
    /\ run' = [run EXCEPT !.at = IF videos = {} THEN "end" ELSE "video",
                          !.listed = videos, !.todo = videos]
    /\ Kept

(* An exception outside the loop: the path is not found, or a commit fails. *)
ListFails == run.at \in {"list", "end"} /\ Raises

Plus(which) == [c \in DOMAIN NoCounts |-> run.counts[c] + IF c = which THEN 1 ELSE 0]

(* On to the next video.                                                    *)
Done(v, counts) ==
    run' = [run EXCEPT !.todo = @ \ {v}, !.now = NoVideo, !.counts = counts,
                       !.at = IF run.todo = {v} THEN "end" ELSE "video"]

(* A video: progress is reported before it is matched, and afterwards.      *)
Report(v) ==
    /\ run.at = "video" /\ v \in run.todo /\ ~asked
    /\ run' = [run EXCEPT !.at = "match", !.now = v]
    /\ Kept

Generate ==
    /\ run.at = "match"
    /\ strm' = [strm EXCEPT ![Title[run.now]] = run.now]
    /\ after' = after + (IF asked THEN 1 ELSE 0)
    /\ run' = [run EXCEPT !.at = "matched", !.counts = Plus("generated")]
    /\ UNCHANGED <<drive, status, asked>>

Skip ==
    /\ run.at = "match"
    /\ run' = [run EXCEPT !.at = "matched", !.counts = Plus("skipped")]
    /\ Kept

ReportMatched == run.at = "matched" /\ ~asked /\ Done(run.now, run.counts) /\ Kept

(* An exception is counted: of a report, or of the file, which may be left  *)
(* empty.                                                                   *)
ReportFails ==
    /\ \/ \E v \in run.todo : run.at = "video" /\ Done(v, Plus("errors"))
       \/ run.at = "matched" /\ Done(run.now, Plus("errors"))
    /\ Kept

WriteFails ==
    /\ run.at = "match" /\ Done(run.now, Plus("errors"))
    /\ strm' \in {strm, [strm EXCEPT ![Title[run.now]] = Empty]}
    /\ UNCHANGED <<drive, status, asked, after>>

CancelAtReport == run.at \in {"list", "video", "matched", "end"} /\ Cancelled

Ended ==
    /\ run.at = "end" /\ ~asked
    /\ run' = [Closed(run) EXCEPT !.at = "review"]
    /\ Kept

(* Wrong on purpose: whatever was counted, the task is complete.            *)
AnyOutcome == "completed"

Outcome ==
    IF run.counts.errors > 0 \/ run.counts.skipped > 0 THEN "partial_success" ELSE "completed"

(* TaskRunner looks once more, and then judges by the counts.               *)
Review ==
    /\ run.at = "review"
    /\ run' = [run EXCEPT !.at = "idle"]
    /\ status' = IF asked THEN "cancelled" ELSE Outcome
    /\ UNCHANGED <<drive, strm, asked, after>>

(* The process ends, perhaps with a file just opened; the task is claimed   *)
(* again when its lease is over.                                            *)
Crash ==
    /\ run.at # "idle"
    /\ run' = NoRun /\ status' = "queued"
    /\ strm' \in {strm} \cup
          (IF run.at = "match" THEN {[strm EXCEPT ![Title[run.now]] = Empty]} ELSE {})
    /\ UNCHANGED <<drive, asked, after>>

-----------------------------------------------------------------------------
AskCancel ==
    /\ status = "running" /\ ~asked /\ asked' = TRUE
    /\ UNCHANGED <<drive, strm, status, run, after>>

(* Another task for the same folders, once this one has ended.              *)
Another ==
    /\ status \notin {"queued", "running"}
    /\ status' = "queued" /\ run' = NoRun /\ asked' = FALSE /\ after' = 0
    /\ UNCHANGED <<drive, strm>>

Change(v) ==
    /\ drive' = IF v \in drive THEN drive \ {v} ELSE drive \cup {v}
    /\ UNCHANGED <<strm, status, run, asked, after>>

Next ==
    \/ Start \/ Begin \/ BeginFails \/ ListFails \/ CancelAtReport \/ Ended \/ Review
    \/ Generate \/ Skip \/ ReportMatched \/ ReportFails \/ WriteFails
    \/ Crash \/ AskCancel \/ Another
    \/ \E videos \in SUBSET Videos : Listed(videos)
    \/ \E v \in Videos : Report(v) \/ Change(v)

Spec == Init /\ [][Next]_vars

-----------------------------------------------------------------------------
(* A task that is complete has written a .strm for every video that it has  *)
(* listed, or for another one of the same name, also where an earlier run   *)
(* had left an empty file (organize.py:114-151, task_runner.py:262-269).    *)
CompletedLeads ==
    status = "completed" =>
        \A v \in run.listed :
            LET w == strm[Title[v]] IN w \in run.listed /\ Title[w] = Title[v]

(* After the request to cancel, one more file is written at most            *)
(* (organize.py:117, 141; task_runner.py:181-182, 219-220).                 *)
CancelStops == after <= 1

(* However a run ends, it leaves no client of Quark open (organize.py:163). *)
ClientClosed == run.open => status = "running" /\ run.at \in {"list", "video", "match", "matched", "end"}

(* Not kept: each video listed has a .strm of its own; two of the same      *)
(* title and episode take the same one (organize.py:130-138).               *)
OneEach == status = "completed" => \A v \in run.listed : strm[Title[v]] = v

(* Not kept: a video is counted once; if the report after it fails, it is   *)
(* counted as an error as well (organize.py:139-148).                       *)
CountsAddUp ==
    LET c == run.counts
    IN  run.at \in {"video", "end"} =>
        c.generated + c.skipped + c.errors = Cardinality(run.listed) - Cardinality(run.todo)
=============================================================================
