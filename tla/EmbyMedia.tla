------------------------------- MODULE EmbyMedia -----------------------------
(****************************************************************************)
(* The copy that smart_media keeps of Emby's libraries: EmbyService         *)
(* (app/services/integrations/emby.py) with its full sync and its webhooks, *)
(* and the delete plans of app/api/emby.py.                                 *)
(*                                                                          *)
(* One event loop runs all of it; what lies between two awaits is one step. *)
(* The sync has a session of its own from its start to its end, which       *)
(* stages what it finds and commits only when it adds a library.            *)
(****************************************************************************)
EXTENDS Naturals, Sequences, FiniteSets, SequencesExt

CONSTANTS
    Libs, Items,   \* libraries and items of the Emby server
    Home,          \* the library of each item
    MaxLost        \* bound: webhooks that do not arrive

MediaAssumption == Home \in [Items -> Libs] /\ MaxLost \in Nat

VARIABLES
    views,      \* the libraries that Emby has
    server,     \* the items that Emby has
    libraries,  \* emby_libraries
    rows,       \* emby_media_items: none, or with or without a pickcode
    sync,       \* the sync under way
    new,        \* items whose handle_library_new waits for Emby
    deleted,    \* items whose handle_library_deleted sends its notification
    plan,       \* a delete plan that has not been executed
    counted,    \* items that the last sync that finished reported as synchronised
    excused     \* items that went while a sync held them, or unheard

vars == <<views, server, libraries, rows, sync, new, deleted, plan, counted, excused>>

Row == {"none", "bare", "pick"}
Idle == [at |-> "idle", todo |-> <<>>, found |-> {}, staged |-> [i \in Items |-> "none"],
         all |-> {}]

NoPlan == [at |-> "none", can |-> {}]

TypeOK ==
    /\ views \subseteq Libs /\ server \subseteq Items
    /\ libraries \subseteq Libs
    /\ rows \in [Items -> Row]
    /\ sync \in [at : {"idle", "views", "library", "query", "items"}, todo : Seq(Libs),
                 found : SUBSET Items, staged : [Items -> Row], all : SUBSET Items]
    /\ new \subseteq Items /\ deleted \subseteq Items
    /\ plan \in [at : {"none", "planned"}, can : SUBSET Items]
    /\ counted \subseteq Items /\ excused \subseteq Items

Init ==
    /\ views = {} /\ server = {} /\ libraries = {}
    /\ rows = [i \in Items |-> "none"]
    /\ sync = Idle
    /\ new = {} /\ deleted = {}
    /\ plan = NoPlan
    /\ counted = {} /\ excused = {}

-----------------------------------------------------------------------------
(* What happens on the server, and whether its webhook arrives.             *)
LibraryCreated(l) ==
    /\ l \notin views
    /\ views' = views \cup {l}
    /\ UNCHANGED <<server, libraries, rows, sync, new, deleted, plan, counted, excused>>

Added(i) ==
    /\ Home[i] \in views /\ i \notin server
    /\ server' = server \cup {i}
    /\ new' \in {new, new \cup {i}}
    /\ excused' = excused \ {i}
    /\ UNCHANGED <<views, libraries, rows, sync, deleted, plan, counted>>

Held(i) == i \in sync.found \/ sync.staged[i] # "none"

Removed(i, heard) ==
    /\ i \in server
    /\ heard \/ Cardinality(excused) < MaxLost
    /\ server' = server \ {i}
    /\ deleted' = IF heard THEN deleted \cup {i} ELSE deleted
    /\ excused' = IF heard /\ ~Held(i) THEN excused ELSE excused \cup {i}
    /\ UNCHANGED <<views, libraries, rows, sync, new, plan, counted>>

-----------------------------------------------------------------------------
(* Wrong on purpose: an item that is not known yet is saved as well.        *)
LinkableUnknown(i) == i \in server

Linkable(i) == i \in server /\ rows[i] # "none"

(* handle_library_new asks Emby for the item and saves what it finds.  A    *)
(* row of an item not known yet would be of library 0, which the foreign    *)
(* key forbids: the error is logged.                                        *)
link_media_to_sync_file(i) ==
    /\ i \in new
    /\ new' = new \ {i}
    /\ \E r \in {"bare", "pick"} :
        rows' = IF Linkable(i) THEN [rows EXCEPT ![i] = r] ELSE rows
    /\ UNCHANGED <<views, server, libraries, sync, deleted, plan, counted, excused>>

(* Wrong on purpose: the row is deleted only if it has a pickcode.          *)
ForgottenIfPicked(is) ==
    [i \in Items |-> IF i \in is /\ rows[i] = "pick" THEN "none" ELSE rows[i]]

Forgotten(is) == [i \in Items |-> IF i \in is THEN "none" ELSE rows[i]]

handle_library_deleted(i) ==
    /\ i \in deleted
    /\ deleted' = deleted \ {i}
    /\ rows' = Forgotten({i})
    /\ counted' = counted \ {i}
    /\ UNCHANGED <<views, server, libraries, sync, new, plan, excused>>

-----------------------------------------------------------------------------
sync_library ==
    /\ sync.at = "idle"
    /\ sync' = [Idle EXCEPT !.at = "views"]
    /\ UNCHANGED <<views, server, libraries, rows, new, deleted, plan, counted, excused>>

(* get_views and get_items_by_query answer with nothing when they fail.     *)
GetViews ==
    /\ sync.at = "views"
    /\ \E todo \in SetToSeqs(views) \cup {<<>>} :
        sync' = [sync EXCEPT !.at = "library", !.todo = todo]
    /\ UNCHANGED <<views, server, libraries, rows, new, deleted, plan, counted, excused>>

(* A library that is known needs no commit.                                 *)
KnownLibrary ==
    /\ sync.at = "library" /\ sync.todo # <<>>
    /\ Head(sync.todo) \in libraries
    /\ sync' = [sync EXCEPT !.at = "query"]
    /\ UNCHANGED <<views, server, libraries, rows, new, deleted, plan, counted, excused>>

(* The commit of a new library writes what has been staged so far: every    *)
(* item is staged as a new one, as the search for known ones is by another  *)
(* key, and if one is in the table already, all is rolled back and the sync *)
(* ends with an error.                                                      *)
Staged == {i \in Items : sync.staged[i] # "none"}

NewLibrary ==
    /\ sync.at = "library" /\ sync.todo # <<>>
    /\ Head(sync.todo) \notin libraries
    /\ IF \E i \in Staged : rows[i] # "none"
       THEN sync' = Idle /\ counted' = {} /\ UNCHANGED <<libraries, rows>>
       ELSE /\ rows' = [i \in Items |-> IF i \in Staged THEN sync.staged[i] ELSE rows[i]]
            /\ libraries' = libraries \cup {Head(sync.todo)}
            /\ sync' = [sync EXCEPT !.at = "query", !.staged = Idle.staged]
            /\ UNCHANGED counted
    /\ UNCHANGED <<views, server, new, deleted, plan, excused>>

GetItems ==
    /\ sync.at = "query"
    /\ \E found \in {{}, {i \in server : Home[i] = Head(sync.todo)}} :
        sync' = [sync EXCEPT !.at = "items", !.found = found]
    /\ UNCHANGED <<views, server, libraries, rows, new, deleted, plan, counted, excused>>

_process_item_optimized(i) ==
    /\ i \in sync.found
    /\ \E r \in {"bare", "pick"} :
        sync' = [sync EXCEPT !.found = @ \ {i}, !.staged[i] = r, !.all = @ \cup {i}]
    /\ UNCHANGED <<views, server, libraries, rows, new, deleted, plan, counted, excused>>

LibraryDone ==
    /\ sync.at = "items" /\ sync.found = {}
    /\ sync' = [sync EXCEPT !.at = "library", !.todo = Tail(@)]
    /\ UNCHANGED <<views, server, libraries, rows, new, deleted, plan, counted, excused>>

(* The session is closed with what it has staged; the counts are reported.  *)
SyncFinished ==
    /\ sync.at = "library" /\ sync.todo = <<>>
    /\ counted' = sync.all \cap server
    /\ sync' = Idle
    /\ UNCHANGED <<views, server, libraries, rows, new, deleted, plan, excused>>

-----------------------------------------------------------------------------
(* A plan says what it may delete; it is executed once, by deleting the     *)
(* rows that are still there, and answers from its record after that.       *)
create_delete_plan ==
    /\ plan = NoPlan
    /\ \E is \in SUBSET Items \ {{}} :
        plan' = [at |-> "planned", can |-> {i \in is : rows[i] = "pick"}]
    /\ UNCHANGED <<views, server, libraries, rows, sync, new, deleted, counted, excused>>

execute_delete_plan ==
    /\ plan.at = "planned"
    /\ rows' = Forgotten(plan.can)
    /\ plan' = NoPlan
    /\ counted' = counted \ plan.can
    /\ UNCHANGED <<views, server, libraries, sync, new, deleted, excused>>

SyncStep ==
    \/ GetViews \/ KnownLibrary \/ NewLibrary \/ GetItems
    \/ \E i \in Items : _process_item_optimized(i)
    \/ LibraryDone \/ SyncFinished

Next ==
    \/ \E l \in Libs : LibraryCreated(l)
    \/ \E i \in Items :
        \/ Added(i) \/ link_media_to_sync_file(i) \/ handle_library_deleted(i)
        \/ \E heard \in BOOLEAN : Removed(i, heard)
    \/ sync_library \/ SyncStep
    \/ create_delete_plan \/ execute_delete_plan

Spec == Init /\ [][Next]_vars

-----------------------------------------------------------------------------
(* An item is in the table only with its library.                           *)
LibraryFirst == \A i \in Items : rows[i] # "none" => Home[i] \in libraries

(* An item that Emby has no more is in the table only until the webhook     *)
(* that says so has been handled, unless none came, or a sync had read the  *)
(* item before it went.                                                     *)
NoGhost ==
    \A i \in Items : rows[i] # "none" => i \in server \cup deleted \cup excused

(* "Synchronise the library in full" (app/services/integrations/emby.py:    *)
(* 412): what a sync has counted is in the table when it has finished.      *)
SyncKept == sync.at = "idle" => \A i \in counted : rows[i] # "none"
=============================================================================
