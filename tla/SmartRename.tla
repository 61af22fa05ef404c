----------------------------- MODULE SmartRename -----------------------------
(****************************************************************************)
(* SmartRenameService (app/services/media/smart_rename.py): preview writes  *)
(* a batch of planned renames, execute moves the files of a batch, rollback *)
(* moves them back, and both keep a row per file in rename_history.         *)
(*                                                                          *)
(* execute and rollback await nothing between their first read and their    *)
(* last commit, so that one call runs at a time; what can come between its  *)
(* steps is the end of the process, and other programs writing to the same  *)
(* directories.                                                             *)
(*                                                                          *)
(* A path is a stem and an extension.  A stem is a name, or a name to which *)
(* a counter _1, _2, ... has been added; video files have one extension,    *)
(* and Sidecars are those moved along with a video.                         *)
(****************************************************************************)
EXTENDS Naturals, Sequences, FiniteSets, SequencesExt

CONSTANTS
    Names,          \* names of files, with their directories
    MaxSuffix,      \* bound: counters added to a name
    Sidecars,       \* related_extensions
    Files, NoFile,  \* contents of files, and a path with no file
    Batches,        \* batch ids
    Faults          \* what may go wrong

ASSUME RenameAssumption ==
    /\ NoFile \notin Files
    /\ IsFiniteSet(Names)
    /\ MaxSuffix \in Nat
    /\ Faults \subseteq {"crash", "move", "others"}

Stem      == Names \X (0 .. MaxSuffix)
Plain(n)  == <<n, 0>>
Content   == Files \cup {NoFile}

VARIABLES
    video,      \* the video file at each stem
    side,       \* the related file at each stem and extension
    status,     \* rename_batches: the status of each
    rows,       \* rename_history: the rows of each batch
    call,       \* the call of execute or rollback under way
    seen        \* history: contents of video files there have ever been

vars   == <<video, side, status, rows, call, seen>>
disk   == <<video, side>>
tables == <<status, rows>>

BatchStatus == {"none", "previewing", "executing", "completed",
                "completed_with_errors", "rolled_back"}

(* A row; "matched" stands for matched and parsed.  The last three fields   *)
(* are history: what execute moved, where it went, what rollback put back.  *)
Row == [orig : Stem, new : Stem,
        status : {"matched", "needs_confirmation", "success", "failed",
                  "rolled_back"},
        was : Content, at : Stem, back : Content]

Call == [kind : {"none", "execute", "rollback"}, b : Batches, todo : SUBSET Nat,
         moved : BOOLEAN, exts : SUBSET Sidecars, failed : BOOLEAN]

Busy == call.kind # "none"

TypeOK ==
    /\ video \in [Stem -> Content]
    /\ side \in [Stem \X Sidecars -> Content]
    /\ status \in [Batches -> BatchStatus]
    /\ rows \in [Batches -> Seq(Row)]
    /\ call \in Call
    /\ seen \subseteq Files
    /\ Busy => call.todo \subseteq DOMAIN rows[call.b]

Idle(b) == [kind |-> "none", b |-> b, todo |-> {}, moved |-> FALSE,
            exts |-> {}, failed |-> FALSE]

(* Some of the plain names are in use.                                      *)
Init ==
    /\ video \in [Stem -> Content]
    /\ \A s, t \in Stem : video[s] = video[t] /\ video[s] # NoFile => s = t
    /\ \A s \in Stem : s[2] > 0 => video[s] = NoFile
    /\ side \in [Stem \X Sidecars -> Content]
    /\ \A s \in Stem, e \in Sidecars : side[s, e] \in {NoFile, video[s]}
    /\ status = [b \in Batches |-> "none"]
    /\ rows = [b \in Batches |-> <<>>]
    /\ \E b \in Batches : call = Idle(b)
    /\ seen = {video[s] : s \in Stem} \ {NoFile}

-----------------------------------------------------------------------------
(* preview: each video found gets a row, or none if it cannot be parsed, in *)
(* the order of their paths; the name proposed comes from the title found.  *)

Found == {s \in Stem : video[s] # NoFile}

PlannedRow(s, new, state) ==
    [orig |-> s, new |-> Plain(new), status |-> state,
     was |-> NoFile, at |-> s, back |-> NoFile]

Preview(b) ==
    /\ ~Busy
    /\ status[b] = "none"
    /\ \E parsed \in SUBSET Found :
       \E order \in SetToSeqs(parsed), new \in [parsed -> Names],
          state \in [parsed -> {"matched", "needs_confirmation"}] :
          rows' = [rows EXCEPT ![b] = [i \in DOMAIN order |->
              PlannedRow(order[i], new[order[i]], state[order[i]])]]
    /\ status' = [status EXCEPT ![b] = "previewing"]
    /\ UNCHANGED <<disk, call, seen>>

-----------------------------------------------------------------------------
(* execute.  Without operations it takes the rows that need no confirming;  *)
(* an operation picks a row, confirmed or not, and gives it a name.         *)

RowsIn(b, state) == {i \in DOMAIN rows[b] : rows[b][i].status = state}

Begin(kind, b, todo) ==
    call' = [Idle(b) EXCEPT !.kind = kind, !.todo = todo]

Execute(b) ==
    /\ ~Busy
    /\ status[b] = "previewing"
    /\ Begin("execute", b, RowsIn(b, "matched"))
    /\ status' = [status EXCEPT ![b] = "executing"]
    /\ UNCHANGED <<disk, rows, seen>>

ExecuteOperations(b) ==
    /\ ~Busy
    /\ status[b] = "previewing"
    /\ \E picked \in SUBSET DOMAIN rows[b] : \E name \in [picked -> Names] :
          /\ Begin("execute", b, picked)
          /\ rows' = [rows EXCEPT ![b] = [i \in DOMAIN rows[b] |->
                IF i \in picked
                THEN [rows[b][i] EXCEPT !.new = Plain(name[i]), !.status = "matched"]
                ELSE rows[b][i]]]
    /\ status' = [status EXCEPT ![b] = "executing"]
    /\ UNCHANGED <<disk, seen>>

(* Wrong on purpose: the target is taken as it is.                          *)
IsFinalUnchecked(s, new) == s = new

(* The target if it is free, or else the target with the first free counter.*)
(* The look and the move that follows it are one step: a file that another  *)
(* program writes between the two, at the very path found, would be lost.   *)
IsFinal(s, new) ==
    /\ video[s] = NoFile
    /\ \/ s = new
       \/ /\ video[new] # NoFile
          /\ s[1] = new[1]
          /\ \A k \in 1 .. s[2] - 1 : video[<<s[1], k>>] # NoFile

Shift(f, from, to) == [f EXCEPT ![to] = f[from], ![from] = NoFile]

(* Rows are executed in the order of their ids, ...                         *)
Current(i) == i \in call.todo /\ \A j \in call.todo : i <= j

NextRow(i, bad) == [call EXCEPT !.todo = @ \ {i}, !.moved = FALSE, !.exts = {},
                                !.failed = @ \/ bad]

row(i) == rows[call.b][i]

Mark(i, new) == rows' = [rows EXCEPT ![call.b][i] = new]

Executing(i) == call.kind = "execute" /\ Current(i)

MoveVideo(i) ==
    /\ Executing(i) /\ ~call.moved
    /\ video[row(i).orig] # NoFile
    /\ \E s \in Stem :
          /\ IsFinal(s, row(i).new)
          /\ video' = Shift(video, row(i).orig, s)
          /\ Mark(i, [row(i) EXCEPT !.was = video[row(i).orig], !.at = s])
    /\ call' = [call EXCEPT !.moved = TRUE, !.exts = Sidecars]
    /\ UNCHANGED <<side, status, seen>>

(* The related files follow the video.  Nothing asks whether there is a     *)
(* file already: a move replaces it.                                        *)
MoveSidecar(i, e) ==
    /\ Executing(i) /\ e \in call.exts
    /\ side' = IF side[row(i).orig, e] = NoFile THEN side
               ELSE Shift(side, <<row(i).orig, e>>, <<row(i).at, e>>)
    /\ call' = [call EXCEPT !.exts = @ \ {e}]
    /\ UNCHANGED <<video, tables, seen>>

(* Any move may raise, that of the video because the file is gone.  What    *)
(* has been moved of this row stays where it is.                            *)
MoveFails(i) ==
    /\ Executing(i)
    /\ \/ ~call.moved /\ (video[row(i).orig] = NoFile \/ "move" \in Faults)
       \/ "move" \in Faults /\ \E e \in call.exts : side[row(i).orig, e] # NoFile
    /\ Mark(i, [row(i) EXCEPT !.status = "failed"])
    /\ call' = NextRow(i, TRUE)
    /\ UNCHANGED <<disk, status, seen>>

MoveDone(i) ==
    /\ Executing(i) /\ call.moved /\ call.exts = {}
    /\ Mark(i, [row(i) EXCEPT !.status = "success"])
    /\ call' = NextRow(i, FALSE)
    /\ UNCHANGED <<disk, status, seen>>

(* Wrong on purpose: the word for a row.                                    *)
OutcomeOfRow(failed) == IF failed THEN "failed" ELSE "success"

Outcome(failed) == IF failed THEN "completed_with_errors" ELSE "completed"

ExecuteEnds ==
    /\ call.kind = "execute" /\ call.todo = {}
    /\ status' = [status EXCEPT ![call.b] = Outcome(call.failed)]
    /\ call' = Idle(call.b)
    /\ UNCHANGED <<disk, rows, seen>>

-----------------------------------------------------------------------------
(* rollback: the rows that succeeded, ...                                   *)
Rollback(b) ==
    /\ ~Busy
    /\ status[b] \notin {"none", "rolled_back"}
    /\ Begin("rollback", b, RowsIn(b, "success"))
    /\ UNCHANGED <<disk, tables, seen>>

(* Wrong on purpose: the first one first.                                   *)
Forwards(i) == Current(i)

(* ... the last one first.                                                  *)
Latest(i) == i \in call.todo /\ \A j \in call.todo : j <= i

RollingBack(i) == call.kind = "rollback" /\ Latest(i)

(* Wrong on purpose: a file at the original path is replaced.               *)
CanRestoreOver(r) == video[r.new] # NoFile

CanRestore(r) == video[r.new] # NoFile /\ video[r.orig] = NoFile

(* It looks for the file where the row planned it.                          *)
RestoreVideo(i) ==
    /\ RollingBack(i) /\ ~call.moved
    /\ CanRestore(row(i))
    /\ video' = Shift(video, row(i).new, row(i).orig)
    /\ Mark(i, [row(i) EXCEPT !.back = video[row(i).new]])
    /\ call' = [call EXCEPT !.moved = TRUE, !.exts = Sidecars]
    /\ UNCHANGED <<side, status, seen>>

RestoreSidecar(i, e) ==
    /\ RollingBack(i) /\ e \in call.exts
    /\ side' = IF side[row(i).new, e] = NoFile THEN side
               ELSE Shift(side, <<row(i).new, e>>, <<row(i).orig, e>>)
    /\ call' = [call EXCEPT !.exts = @ \ {e}]
    /\ UNCHANGED <<video, tables, seen>>

RestoreFails(i) ==
    /\ RollingBack(i)
    /\ \/ ~call.moved /\ (~CanRestore(row(i)) \/ "move" \in Faults)
       \/ "move" \in Faults /\ \E e \in call.exts : side[row(i).new, e] # NoFile
    /\ call' = NextRow(i, TRUE)
    /\ UNCHANGED <<disk, tables, seen>>

RestoreDone(i) ==
    /\ RollingBack(i) /\ call.moved /\ call.exts = {}
    /\ Mark(i, [row(i) EXCEPT !.status = "rolled_back"])
    /\ call' = NextRow(i, FALSE)
    /\ UNCHANGED <<disk, status, seen>>

RollbackEnds ==
    /\ call.kind = "rollback" /\ call.todo = {}
    /\ status' = [status EXCEPT ![call.b] = "rolled_back"]
    /\ call' = Idle(call.b)
    /\ UNCHANGED <<disk, rows, seen>>

-----------------------------------------------------------------------------
(* The process ends, or a commit raises, in the middle of a call. *)
Crash ==
    /\ "crash" \in Faults
    /\ Busy
    /\ call' = Idle(call.b)
    /\ UNCHANGED <<disk, tables, seen>>

(* Another program writes a new file. *)
Arrive(f) ==
    /\ "others" \in Faults
    /\ f \notin seen
    /\ \E s \in Stem : /\ video[s] = NoFile
                       /\ video' = [video EXCEPT ![s] = f]
    /\ seen' = seen \cup {f}
    /\ UNCHANGED <<side, tables, call>>

-----------------------------------------------------------------------------
RowStep(i) ==
    \/ MoveVideo(i) \/ MoveFails(i) \/ MoveDone(i)
    \/ RestoreVideo(i) \/ RestoreFails(i) \/ RestoreDone(i)
    \/ \E e \in Sidecars : MoveSidecar(i, e) \/ RestoreSidecar(i, e)

Step == (\E i \in call.todo : RowStep(i)) \/ ExecuteEnds \/ RollbackEnds

Next ==
    \/ Step
    \/ \E b \in Batches : Preview(b) \/ Execute(b) \/ ExecuteOperations(b)
                          \/ Rollback(b)
    \/ Crash
    \/ \E f \in Files : Arrive(f)

Spec == Init /\ [][Next]_vars

-----------------------------------------------------------------------------
(* Properties. *)

(* No video is ever lost: through colliding names, failing moves, crashes,  *)
(* files that other programs add, and executing and rolling back batches    *)
(* that name the same files, a content that was on disk is on disk (the     *)
(* look for a free name in execute, for a free original path in rollback).  *)
VideosKept == \A f \in seen : \E s \in Stem : video[s] = f

Restored(b)  == RowsIn(b, "rolled_back")
Done(b)      == RowsIn(b, "success")
AsPlanned(b) == \A i \in Done(b) \cup Restored(b) : rows[b][i].at = rows[b][i].new
HasItsOwn(b) == \A i \in Restored(b) : rows[b][i].back = rows[b][i].was

(* "Rolls every successful rename of the batch back to its original state": *)
(* a row said to be rolled back has its own file back at the original path. *)
RollbackRestores ==
    \A b \in Batches : HasItsOwn(b)

(* So it is, for a batch alone, while its renames all got the names they    *)
(* planned, whatever fails or crashes on the way.                           *)
PlannedRestores ==
    \A b \in Batches : AsPlanned(b) => HasItsOwn(b)

(* And when nothing fails it leaves no row of such a batch unrestored:      *)
(* going back in reverse order, each original path is free in its turn.     *)
RollbackComplete ==
    \A b \in Batches :
        AsPlanned(b) /\ status[b] = "rolled_back" => Done(b) = {}
=============================================================================
