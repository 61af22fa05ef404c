------------------------------- MODULE MCMedia -------------------------------
(****************************************************************************)
(* What handles the media files, for TLC: SmartRename with faults and,      *)
(* over more names, without them, ClassicRename, ScrapeFiles, CloudFiles,   *)
(* StrmScan, OrganizeTask, Playback, StreamProxy, Gateway.  They share no   *)
(* state, so that one run takes one of them at a time, the scene, and the   *)
(* variables stand for those of its module.                                 *)
(****************************************************************************)
EXTENDS SmartRename, Functions

CONSTANTS
    MoreNames, FewerSuffixes,                           \* renames without faults
    Paths, Fids, Scans, None, Empty,                    \* StrmScan
    Callers,                                            \* Playback, StreamProxy
    U, V, LinkTtl, ProbeTtl, MaxProbes, Threshold, StickyTtl,   \* Playback
    SegmentTtl,                                         \* StreamProxy
    Lib, X, Y, v1, v2, Jobs, MaxNumber, Part,             \* ScrapeFiles
    a, b, Drive, Shared, PageSize, MaxAttempts, MaxChecks, MaxOps, MaxChanges,   \* CloudFiles
    ByPath, Changes     \* Gateway

VARIABLES
    scene,
    m1, m2, m3, m4, m5, m6, m7, m8      \* those of the module of the scene, in its order

(* Both links are of one host, as those of Quark are.                       *)
Smart    == INSTANCE SmartRename WITH
             Names <- MoreNames, MaxSuffix <- FewerSuffixes, Sidecars <- {}, Faults <- {},
             video <- m1, side <- m2, status <- m3, rows <- m4, call <- m5, seen <- m6
Classic  == INSTANCE ClassicRename WITH
             Names <- MoreNames, MaxSuffix <- FewerSuffixes, video <- m1, status <- m2,
             rows <- m3, call <- m4, faulty <- m5
Scan     == INSTANCE StrmScan WITH
             cloud <- m1, used <- m2, mapping <- m3, strm <- m4, scan <- m5
Redirect == INSTANCE Playback WITH
             Urls <- {U, V}, Hosts <- {"h"}, Host <- [u \in {U, V} |-> "h"], link <- m1,
             probes <- m2, health <- m3, call <- m4, okay <- m5, failed <- m6
Stream   == INSTANCE StreamProxy WITH
             segments <- m1, call <- m2, open <- m3, kept <- m4
Scraped  == INSTANCE ScrapeFiles WITH
             Dirs <- {Lib}, Stems <- {X, Y}, Absent <- None,
             Home <- [x \in {v1, v2} |-> <<Lib, IF x = v1 THEN X ELSE Y, 0>>],
             files <- m1, job <- m2, replaced <- m3
Disk     == INSTANCE CloudFiles WITH
             Fids <- Drive, Names <- {a, b}, folder <- m1, name <- m2, due <- m3,
             copies <- m4, call <- m5, changes <- m6
Gate     == INSTANCE Gateway WITH
             Sources <- {a, b, Lib}, Own <- a, Local <- {Lib}, MaxChanges <- Changes,
             strm <- m1, known <- m2, rows <- m3, cookie <- m4, player <- m5, open <- m6,
             named <- m7, changes <- m8
Organizer == INSTANCE OrganizeTask WITH
             Videos <- {v1, v2, X}, Names <- {a, b}, Attempts <- 2, NoVideo <- None,
             Title <- [x \in {v1, v2, X} |-> IF x = X THEN b ELSE a], drive <- m1,
             strm <- m2, status <- m3, run <- m4, asked <- m5, after <- m6

ASSUME RenamesConstants  == IsFiniteSet(MoreNames) /\ FewerSuffixes \in Nat
ASSUME ClassicConstants  == Classic!ClassicAssumption
ASSUME ScanConstants     == Scan!ScanAssumption
ASSUME PlaybackConstants == Redirect!PlaybackAssumption
ASSUME StreamConstants   == Stream!StreamAssumption
ASSUME ScrapeConstants   == Scraped!ScrapeFilesAssumption
ASSUME DriveConstants    == Disk!CloudAssumption
ASSUME GatewayConstants == Gate!GatewayAssumption
ASSUME OrganizeConstants == Organizer!OrganizeAssumption

all == <<scene, vars, m1, m2, m3, m4, m5, m6, m7, m8>>

(* Elsewhere than in the first scene the files of SmartRename stay in one   *)
(* place.                                                                   *)
AllInit ==
    /\ \/ /\ scene = "rename" /\ m1 = None /\ m2 = None /\ m3 = None /\ m4 = None
          /\ m5 = None /\ m6 = None /\ m7 = None /\ m8 = None
       \/ scene = "reverse" /\ Smart!Init /\ m7 = None /\ m8 = None
       \/ scene = "classic" /\ Classic!Init /\ m6 = None /\ m7 = None /\ m8 = None
       \/ scene = "scan" /\ Scan!Init /\ m6 = None /\ m7 = None /\ m8 = None
       \/ scene = "redirect" /\ Redirect!Init /\ m7 = None /\ m8 = None
       \/ scene = "stream" /\ Stream!Init /\ m5 = None /\ m6 = None /\ m7 = None /\ m8 = None
       \/ /\ scene = "scrape" /\ Scraped!Init /\ m4 = None /\ m5 = None
          /\ m6 = None /\ m7 = None /\ m8 = None
       \/ scene = "drive" /\ Disk!Init /\ m7 = None /\ m8 = None
       \/ scene = "gateway" /\ Gate!Init
       \/ scene = "organize" /\ Organizer!Init /\ m7 = None /\ m8 = None
    /\ Init
    /\ scene # "rename" => seen = {}

AllNext ==
    \/ scene = "rename" /\ Next /\ UNCHANGED <<scene, m1, m2, m3, m4, m5, m6, m7, m8>>
    \/ scene = "reverse" /\ Smart!Next /\ UNCHANGED <<scene, vars, m7, m8>>
    \/ scene = "classic" /\ Classic!Next /\ UNCHANGED <<scene, vars, m6, m7, m8>>
    \/ scene = "scan" /\ Scan!Next /\ UNCHANGED <<scene, vars, m6, m7, m8>>
    \/ scene = "redirect" /\ Redirect!Next /\ UNCHANGED <<scene, vars, m7, m8>>
    \/ scene = "stream" /\ Stream!Next /\ UNCHANGED <<scene, vars, m5, m6, m7, m8>>
    \/ scene = "scrape" /\ Scraped!Next /\ UNCHANGED <<scene, vars, m4, m5, m6, m7, m8>>
    \/ scene = "drive" /\ Disk!Next /\ UNCHANGED <<scene, vars, m7, m8>>
    \/ scene = "gateway" /\ Gate!Next /\ UNCHANGED <<scene, vars>>
    \/ scene = "organize" /\ Organizer!Next /\ UNCHANGED <<scene, vars, m7, m8>>

Media == AllInit /\ [][AllNext]_all

-----------------------------------------------------------------------------
(* SmartRenameService, RenameService: where nothing has failed, rollback    *)
(* leaves nothing behind.                                                   *)
NothingLeftBehind ==
    /\ TypeOK
    /\ scene = "reverse" => Smart!TypeOK /\ Smart!RollbackComplete
    /\ scene = "classic" => Classic!RollbackComplete

(* RenameService: no video is lost, and rollback puts no file in the place  *)
(* of another.                                                              *)
ClassicKeepsFiles == scene = "classic" => Classic!ClassicKeepsFiles

(* MediaMappingService, StrmGenerator: a file of the cloud has one address, *)
(* an address keeps its file or its path, and those in STRM files lead      *)
(* somewhere.  MediaOrganizeService: a task that is complete has written a  *)
(* file for every name it found, and one that is cancelled soon stops.      *)
AddressesLead ==
    /\ [](scene = "organize" => Organizer!CompletedLeads /\ Organizer!CancelStops)
    /\ [](scene = "scan" => Scan!TypeOK /\ Scan!OneAddress /\ Scan!LeadsSomewhere)
    /\ [][scene = "scan" => Scan!KeepsOneEnd]_all

(* PlaybackRouteHealthService, redirect_302: a route is downgraded when it  *)
(* is due and for no other reason, and players are sent to links only that  *)
(* a probe found playable.  PlaybackInfoHook, EmbyProxyService: every player*)
(* is led to the file its item names, whichever way it is sent.             *)
RedirectsHold ==
    /\ [](scene = "redirect" => Redirect!TypeOK /\ Redirect!StickyForReason /\ Redirect!StickyWhenDue)
    /\ [][scene = "redirect" => Redirect!DirectWasPlayable]_all
    /\ [](scene = "gateway" => /\ Gate!TypeOK /\ Gate!PlaysWhatIsNamed
                               /\ Gate!ModesAgree /\ Gate!BrowsersAreCurrent)

(* ScrapeService: no video is lost, and only files that a job moves or may  *)
(* overwrite are touched.                                                   *)
ScrapeKeepsFiles ==
    /\ [](scene = "scrape" => Scraped!TypeOK /\ Scraped!VideosKept)
    /\ [][scene = "scrape" => Scraped!TouchedByRequest]_all

(* QuarkService: a listing without errors is whole, what is told to be      *)
(* renamed or saved is.                                                     *)
DriveHolds ==
    /\ [](scene = "drive" => Disk!TypeOK /\ Disk!WholeIsWhole /\ Disk!SavedIsSaved)
    /\ [][scene = "drive" => Disk!RenamedWasSeen]_all

(* proxy_stream_by_file_id, EmbyProxyService, MediaOrganizeService: what a  *)
(* request or a task has opened is closed.                                  *)
AllClosed ==
    /\ scene = "stream" => Stream!TypeOK /\ Stream!AllClosed
    /\ scene = "gateway" => Gate!ServicesClosed
    /\ scene = "organize" => Organizer!TypeOK /\ Organizer!ClientClosed
=============================================================================
