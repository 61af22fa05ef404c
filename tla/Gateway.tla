------------------------------- MODULE Gateway -------------------------------
(****************************************************************************)
(* How a player of Emby is led to a file in the cloud: the PlaybackInfo of  *)
(* an item, rewritten on its way (app/api/emby_gateway.py, app/api/emby.py, *)
(* app/services/playbackinfo_hook.py), and what the rewritten addresses     *)
(* lead to: the stable entry (app/api/stable_stream.py), the redirect, or a *)
(* stream whose file is looked up then (app/services/emby_proxy_service.py).*)
(*                                                                          *)
(* Meanwhile STRM files are generated again, Emby scans them, files of the  *)
(* cloud are replaced, and the administrator sets or clears the cookie.     *)
(****************************************************************************)
EXTENDS Naturals, FiniteSets

CONSTANTS
    Sources,        \* the media sources (versions) of an item
    Own,            \* the one whose STRM file is the item's own path
    Local,          \* those that are files of Emby's own
    Files,          \* files of the cloud; a media_id is named as its first file
    None, ByPath,
    MaxChanges      \* bound: what happens meanwhile

GatewayAssumption ==
    /\ Own \in Sources \ Local /\ Local \subseteq Sources
    /\ {None, ByPath} \cap Files = {} /\ None # ByPath /\ MaxChanges \in Nat

Remote == Sources \ Local

(* What a STRM file says, by strm_url_mode: redirect writes stable ones.    *)
Texts == [mode : {"stable", "stream", "webdav"}, id : Files]

VARIABLES
    strm,       \* the text of each source's STRM file
    known,      \* its path in Emby: the text at the last scan, or the file's own path
    rows,       \* media_mappings: the file of each media_id
    cookie,     \* whether Quark's cookie is configured
    player,
    open,       \* what the request under way has opened
    named,      \* history: the files its source has named since the player asked
    changes

vars == <<strm, known, rows, cookie, player, open, named, changes>>

NoUrl == [to |-> "nowhere", id |-> None]
Idle  == [at |-> "idle", web |-> FALSE, source |-> Own, url |-> NoUrl, file |-> None]

TypeOK ==
    /\ strm \in [Remote -> Texts] /\ known \in [Remote -> Texts \cup {ByPath}]
    /\ rows \in [Files -> Files] /\ cookie \in BOOLEAN
    /\ player \in [at : {"idle", "info", "item", "told", "locating", "playing", "failed"},
                   web : BOOLEAN, source : Sources,
                   url : [to : {"nowhere", "emby", "stream", "stable", "redirect"},
                          id : Files \cup {None}],
                   file : Files \cup {None}]
    /\ open \subseteq {"emby", "quark"} /\ named \subseteq Files
    /\ changes \in 0..MaxChanges

Init ==
    /\ strm \in [Remote -> Texts] /\ known \in {strm, [s \in Remote |-> ByPath]}
    /\ rows = [m \in Files |-> m] /\ cookie = TRUE
    /\ player = Idle /\ open = {} /\ named = {} /\ changes = 0

-----------------------------------------------------------------------------
(* _resolve_file_id_from_reference: a stable address leads where its row    *)
(* does, an address of the proxy names its file, a WebDAV path none.        *)
FileOf(t) == CASE t.mode = "stable" -> rows[t.id]
               [] t.mode = "stream" -> t.id
               [] OTHER -> None

Told(s) == IF known[s] = ByPath THEN strm[s] ELSE known[s]

(* Wrong on purpose: what Emby was told before comes first.                 *)
LocatedAsTold(s) == IF FileOf(Told(s)) # None THEN FileOf(Told(s)) ELSE FileOf(strm[s])

(* resolve_media_source_file_id: the STRM file of the item, then that of    *)
(* the source, then the path that Emby has for it.                          *)
Located(s) ==
    IF FileOf(strm[Own]) # None THEN FileOf(strm[Own])
    ELSE IF known[s] = ByPath /\ FileOf(strm[s]) # None THEN FileOf(strm[s])
    ELSE FileOf(Told(s))

(* _process_media_source with decide_hook_mode: browsers, and clients that  *)
(* are made to, stream; others are sent to the stable address, or to the    *)
(* redirect of the file, which for want of a name is the id of the source.  *)
Url(s, web) ==
    CASE s \in Local -> [to |-> "emby", id |-> None]
      [] s \in Remote /\ web -> [to |-> "stream", id |-> None]
      [] OTHER -> CASE Told(s).mode = "stable" -> [to |-> "stable", id |-> Told(s).id]
                    [] Told(s).mode = "stream" -> [to |-> "redirect", id |-> Told(s).id]
                    [] OTHER -> [to |-> "redirect", id |-> None]

Leads(s, url) == CASE url.to = "stream" -> Located(s)
                   [] url.to = "stable" -> rows[url.id]
                   [] OTHER -> url.id

Named(s) == IF s \in Remote THEN {FileOf(strm[s]), FileOf(Told(s))} \ {None} ELSE {}

OfUrl == IF player.url.to = "stable" THEN {rows[player.url.id]} ELSE {}

Goes(place) == player' = [player EXCEPT !.at = place]
World == <<strm, known, rows, cookie, changes>>

-----------------------------------------------------------------------------
(* get_playback_info, _proxy_playback_info: the two clients are opened ...  *)
Ask(s, web) ==
    /\ player.at = "idle"
    /\ IF cookie
       THEN /\ player' = [Idle EXCEPT !.at = "info", !.web = web, !.source = s]
            /\ open' = {"emby", "quark"} /\ named' = Named(s)
       ELSE player' = [Idle EXCEPT !.at = "failed"] /\ UNCHANGED <<open, named>>
    /\ UNCHANGED World

(* Wrong on purpose: an error leaves them open.                             *)
ExitOnSuccess(place) == open' = IF place = "failed" THEN open ELSE {}

(* ... and closed however the request ends (EmbyProxyService.close).        *)
Exit(place) == open' = {}

Ends(place) == Goes(place) /\ Exit(place)

(* hook_playback_info: Emby's answer is rewritten, or an item's sources     *)
(* take its place where it fails, those that are Emby's own left out.       *)
Rewritten ==
    /\ player' = [player EXCEPT !.at = "told", !.url = Url(player.source, player.web)]
    /\ Exit("told") /\ UNCHANGED <<named, World>>

InfoAnswered == player.at = "info" /\ Rewritten

InfoFails ==
    /\ player.at = "info" /\ Goes("item")
    /\ UNCHANGED <<open, named, World>>

ItemAnswered == player.at = "item" /\ player.source \in Remote /\ Rewritten

ItemFails ==
    /\ player.at = "item" /\ Ends("failed")
    /\ UNCHANGED <<named, World>>

(* _handle_gateway_request: the player follows the address.  What is not    *)
(* marked as the proxy's own goes to Emby, whose answer is passed on ...    *)
FollowToEmby ==
    /\ player.at = "told" /\ player.url.to = "emby"
    /\ Goes("playing") \/ Goes("failed")
    /\ UNCHANGED <<open, named, World>>

(* ... stable_media_entry asks the row, and then goes on as the redirect of *)
(* the module Playback does.                                                *)
FollowDirect ==
    /\ player.at = "told" /\ player.url.to \in {"stable", "redirect"}
    /\ LET f == Leads(player.source, player.url) IN
       IF f # None /\ cookie THEN player' = [player EXCEPT !.at = "playing", !.file = f]
       ELSE Goes("failed")
    /\ UNCHANGED <<open, named, World>>

(* stream_video, get_master_playlist                                        *)
FollowStream ==
    /\ player.at = "told" /\ player.url.to = "stream"
    /\ IF cookie THEN Goes("locating") /\ open' = {"emby", "quark"}
       ELSE Goes("failed") /\ UNCHANGED open
    /\ UNCHANGED <<named, World>>

ItemLocated ==
    /\ player.at = "locating"
    /\ LET f == Located(player.source) IN
       IF f # None
       THEN player' = [player EXCEPT !.at = "playing", !.file = f] /\ Exit("playing")
       ELSE Ends("failed")
    /\ UNCHANGED <<named, World>>

ItemNotLocated ==
    /\ player.at = "locating" /\ Ends("failed")
    /\ UNCHANGED <<named, World>>

Stops ==
    /\ player.at \in {"told", "playing", "failed"}
    /\ player' = Idle /\ named' = {} /\ UNCHANGED <<open, World>>

-----------------------------------------------------------------------------
(* Meanwhile: STRM files are written anew, Emby scans, a file takes the     *)
(* place of another at its path (StrmScan), the configuration changes.      *)
Change ==
    /\ changes < MaxChanges /\ changes' = changes + 1
    /\ \/ \E s \in Remote, t \in Texts : strm' = [strm EXCEPT ![s] = t]
                                         /\ UNCHANGED <<known, rows, cookie>>
       \/ \E s \in Remote : \E k \in {strm[s], ByPath} : known' = [known EXCEPT ![s] = k]
                                                       /\ UNCHANGED <<strm, rows, cookie>>
       \/ \E m \in Files, f \in Files : rows' = [rows EXCEPT ![m] = f]
                                        /\ UNCHANGED <<strm, known, cookie>>
       \/ cookie' = ~cookie /\ UNCHANGED <<strm, known, rows>>
    /\ UNCHANGED <<player, open>>
    /\ named' = named \cup IF player.at = "idle" THEN {}
                        ELSE (Named(player.source) \cup OfUrl)'

Next ==
    \/ \E s \in Sources, web \in BOOLEAN : Ask(s, web)
    \/ InfoAnswered \/ InfoFails \/ ItemAnswered \/ ItemFails
    \/ FollowToEmby \/ FollowDirect \/ FollowStream \/ ItemLocated \/ ItemNotLocated \/ Stops \/ Change

Spec == Init /\ [][Next]_vars

-----------------------------------------------------------------------------
(* A player of the item's own source gets a file that its STRM file, or the *)
(* path Emby had of it, has named since it asked, or that the row of its    *)
(* address had: three ways to look it up, and none may fall back elsewhere. *)
PlaysWhatIsNamed ==
    player.at = "playing" /\ player.source = Own => player.file \in named

(* Where Emby is up to date, browsers and other players of the item's own   *)
(* source are led to the same file.                                         *)
ModesAgree ==
    strm[Own].mode # "webdav" /\ Told(Own) = strm[Own]
    => Leads(Own, Url(Own, TRUE)) = Leads(Own, Url(Own, FALSE))

(* A browser gets what the STRM file says now, though Emby may not have     *)
(* scanned it (tests/test_emby_proxy_routing.py:739).                       *)
BrowsersAreCurrent == FileOf(strm[Own]) # None => Located(Own) = FileOf(strm[Own])

(* Nothing stays open after a request.                                      *)
ServicesClosed == open # {} => player.at \in {"info", "item", "locating"}

(* Not kept: of an item with several versions a browser gets the item's own *)
(* whichever it asks for, as the item's path comes before the source's      *)
(* (emby_proxy_service.py:363); and what a WebDAV address names is not      *)
(* played at all (playbackinfo_hook.py:256).                                *)
EverySourcePlays ==
    player.at = "playing" /\ player.source \in Remote => player.file \in named
==============================================================================
