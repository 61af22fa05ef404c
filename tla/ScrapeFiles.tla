----------------------------- MODULE ScrapeFiles -----------------------------
(****************************************************************************)
(* What the jobs of ScrapeService do to the files: the scan, the scraping   *)
(* and the placing of each (app/services/media/scrape.py, files.py,         *)
(* app/core/path_security.py).  The rows of the jobs are in ScrapeJob.      *)
(*                                                                          *)
(* _scrape_single_item awaits; _organize_item does not, so that it is one   *)
(* step in which only the operation on the file may fail.  A path is a      *)
(* folder, a stem and the number of _next_available_path.  NFO files and    *)
(* images are left out: they are not media files and nothing reads them.    *)
(****************************************************************************)
EXTENDS Naturals

CONSTANTS
    Dirs, Stems, MaxNumber,    \* MaxNumber bounds _next_available_path
    Home,                      \* where each video is at first: a path of number 0
    Jobs,
    Absent, Part               \* no file; what a failed copy has left

Path   == Dirs \X Stems \X (0 .. MaxNumber)
Videos == DOMAIN Home
Whole  == Videos \cup {Part}

ScrapeFilesAssumption ==
    /\ MaxNumber \in Nat
    /\ Home \in [Videos -> Dirs \X Stems \X {0}]
    /\ \A v, w \in Videos : Home[v] = Home[w] => v = w
    /\ {Absent, Part} \cap (Path \cup Videos) = {} /\ Absent # Part

VARIABLES
    files,      \* what is at each path: a path is a symbolic link
    job,        \* the files a job has still to do, and its options
    replaced    \* videos removed to make room for another, by force_overwrite

vars == <<files, job, replaced>>

RenameModes == {"move", "copy", "hardlink", "softlink"}

Pending == [at |-> "pending", todo |-> {}, mode |-> "move", force |-> FALSE]
Ended   == [Pending EXCEPT !.at = "ended"]

TypeOK ==
    /\ files \in [Path -> {Absent} \cup Whole \cup Path]
    /\ job \in [Jobs ->
         [at : {"pending", "running", "ended"}, todo : SUBSET Path, mode : RenameModes,
          force : BOOLEAN]]
    /\ replaced \subseteq Videos

Init ==
    /\ files = [p \in Path |-> IF \E v \in Videos : Home[v] = p
                                 THEN CHOOSE v \in Videos : Home[v] = p ELSE Absent]
    /\ job = [j \in Jobs |-> Pending]
    /\ replaced = {}

-----------------------------------------------------------------------------
(* os.path.realpath and os.path.exists: both follow links.                  *)
Real[p \in Path] == IF files[p] \in Path THEN Real[files[p]] ELSE p

Exists(p) == files[Real[p]] # Absent

(* discover_media_files: links are not followed, and not found.             *)
Discovered(dirs) == {p \in Path : p[1] \in dirs /\ files[p] \in Whole}

(* The start of a job over some folders.  A job that is run again does what *)
(* another one does.                                                        *)
Start(j, dirs, mode, force) ==
    /\ job[j] = Pending
    /\ Discovered(dirs) # {}
    /\ job' = [job EXCEPT ![j] =
                 [at |-> "running", todo |-> Discovered(dirs), mode |-> mode, force |-> force]]
    /\ UNCHANGED <<files, replaced>>

Numbered(p, n) == <<p[1], p[2], n>>

(* Wrong on purpose: the number after the first.                            *)
NextPathOnce(p) == Numbered(p, 1)

(* _next_available_path                                                     *)
NextPath(p) ==
    Numbered(p, CHOOSE n \in 1 .. MaxNumber :
                    /\ ~Exists(Numbered(p, n))
                    /\ \A k \in 1 .. (n - 1) : Exists(Numbered(p, k)))

HasRoom(p) == \E n \in 1 .. MaxNumber : ~Exists(Numbered(p, n))

(* The files after the operation, from the files f: it may fail.  A link    *)
(* where the file would go is refused (validate_file_path).                 *)
Moved(f, p, q)  == {f, [f EXCEPT ![q] = f[p], ![p] = Absent]}
Copied(f, p, q) == {f, [f EXCEPT ![q] = f[p]], [f EXCEPT ![q] = Part]}
Linked(f, p, q) == {f, [f EXCEPT ![q] = p]}

Outcomes(mode, f, p, q) ==
    IF f[q] \in Path THEN {f}
    ELSE CASE mode = "move"     -> Moved(f, p, q)
           [] mode = "copy"     -> Copied(f, p, q)
           [] mode = "hardlink" -> Copied(f, p, q)      \* a copy on another device
           [] mode = "softlink" -> Linked(f, p, q)

Rest(j, p) == job' = [job EXCEPT ![j] = LET todo == @.todo \ {p}
                                        IN  IF todo = {} THEN Ended ELSE [@ EXCEPT !.todo = todo]]

(* _scrape_single_item fails, the mode is only_scrape, the file is not      *)
(* there any more, or something on its way is a link.                       *)
LeftAlone(j, p) ==
    /\ p \in job[j].todo
    /\ Rest(j, p)
    /\ UNCHANGED <<files, replaced>>

(* The lookup may find any title, or none: any folder of a category and any *)
(* stem.                                                                    *)
Targets == Dirs \X Stems \X {0}

(* _organize_item, as far as its own checks.                                *)
Wanted(j, p, want) ==
    /\ p \in job[j].todo
    /\ files[p] \in Whole
    /\ files[want] \notin Path
    /\ want # p

(* Its target is free.                                                      *)
Place(j, p, want) ==
    /\ Wanted(j, p, want) /\ ~Exists(want)
    /\ files' \in Outcomes(job[j].mode, files, p, want)
    /\ Rest(j, p)
    /\ UNCHANGED replaced

(* It is taken: another name.                                               *)
PlaceBeside(j, p, want) ==
    /\ Wanted(j, p, want) /\ Exists(want) /\ ~job[j].force
    /\ HasRoom(want)
    /\ files' \in Outcomes(job[j].mode, files, p, NextPath(want))
    /\ Rest(j, p)
    /\ UNCHANGED replaced

(* Or the file there is removed, and not put back if the operation fails.   *)
PlaceOver(j, p, want) ==
    /\ Wanted(j, p, want) /\ Exists(want) /\ job[j].force
    /\ files' \in Outcomes(job[j].mode, [files EXCEPT ![want] = Absent], p, want)
    /\ replaced' = replaced \cup ({files[want]} \cap (Videos \ {files[p]}))
    /\ Rest(j, p)

(* The program ends: jobs are not taken up again.                           *)
Crash ==
    /\ \E j \in Jobs : job[j].at = "running"
    /\ job' = [j \in Jobs |-> IF job[j].at = "running" THEN Ended ELSE job[j]]
    /\ UNCHANGED <<files, replaced>>

-----------------------------------------------------------------------------
Next ==
    \/ \E j \in Jobs, dirs \in SUBSET Dirs, mode \in RenameModes, force \in BOOLEAN :
           Start(j, dirs, mode, force)
    \/ \E j \in Jobs : \E p \in job[j].todo :
          \/ LeftAlone(j, p)
          \/ \E want \in Targets :
                Place(j, p, want) \/ PlaceBeside(j, p, want) \/ PlaceOver(j, p, want)
    \/ Crash

Spec == Init /\ [][Next]_vars

-----------------------------------------------------------------------------
(* Whatever jobs do to the same folders at the same time, in whatever mode, *)
(* and fail to do: every video is whole at some path, unless it has been    *)
(* replaced by another on request.                                          *)
VideosKept == \A v \in Videos : v \in replaced \/ \E p \in Path : files[p] = v

(* A file that is there is only touched by a job that moves it or may       *)
(* overwrite.                                                               *)
TouchedByRequest ==
    \A p \in Path :
       files[p] # Absent /\ files'[p] # files[p] =>
          \E j \in Jobs : \/ job[j].force
                          \/ job[j].mode = "move" /\ p \in job[j].todo

(* "force_overwrite" replaces: a video is removed only where another takes  *)
(* its place.  Not so if the operation after os.remove fails (scrape.py:811)*)
ReplacedIsReplaced ==
    [][\A p \in Path : files[p] \in Videos /\ files'[p] = Absent =>
          \E q \in Path : files'[q] = files[p]]_vars

(* A link that was made leads to a file.  Not so once a later job moves it. *)
LinksLead == \A p \in Path : files[p] \in Path => Exists(p)
=============================================================================
