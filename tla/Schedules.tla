------------------------------ MODULE Schedules ------------------------------
(****************************************************************************)
(* What runs at its times, and how Emby is told of new files.  CronService  *)
(* (app/services/cron_service.py) keeps its jobs in memory only; the routes *)
(* of scrape paths (app/api/scrape.py) and EmbyService.configure_cron       *)
(* (app/services/integrations/emby.py) keep them in step with the rows and  *)
(* with the configuration.  Those routes await nothing, and are steps.      *)
(*                                                                          *)
(* A refresh of Emby's libraries is asked for by the job, by a route, or    *)
(* after new STRM files or a rename, as a coroutine of its own.             *)
(****************************************************************************)
EXTENDS Naturals, Sequences, FiniteSets

CONSTANTS
    Paths,      \* scrape paths
    Emby,       \* the job emby_refresh_job
    Crons,      \* cron expressions that CronTrigger takes
    BadCron,    \* one that it does not take
    NoCron,
    All,        \* every library of Emby, where none is named
    Picks,      \* sequences of libraries: refresh.library_ids
    Offers,     \* configurations of Emby, of Settings
    Legacy,     \* an old endpoint has emby_url and emby_api_key
    Bases,      \* 1 or 2: addresses that a request is tried at
    MaxPending  \* bound: refreshes asked for and not begun

Settings == [on : BOOLEAN, known : BOOLEAN, cron : Crons \cup {NoCron, BadCron},
             libraries : Picks, events : BOOLEAN]

SchedulesAssumption ==
    /\ Emby \notin Paths /\ {NoCron, BadCron} \cap Crons = {} /\ NoCron # BadCron
    /\ Legacy \in BOOLEAN /\ Bases \in 1 .. 2 /\ MaxPending \in Nat
    /\ \A c \in Picks : All \notin {c[i] : i \in DOMAIN c}
    /\ Offers \subseteq Settings

VARIABLES
    booted,     \* the process runs
    jobs,       \* scheduler: the times of each job
    handlers,   \* _task_handlers, and with it _CRON_HANDLER_REGISTERED
    paths,      \* scrape_paths; sure: no commit has failed after its job changed
    settings,   \* the configuration's part for Emby
    edited,     \* it was changed, and configure_cron not called after it
    pending,    \* coroutines of refresh_configured_libraries that have not begun
    refresh,    \* the one that has _refresh_lock
    late,       \* requests sent since Emby was switched off
    stale       \* files have changed since the last refresh began

vars == <<booted, jobs, handlers, paths, settings, edited, pending, refresh, late, stale>>
mine == <<pending, refresh, late, stale>>

Path     == [here : BOOLEAN, cron : Crons \cup {NoCron}, on : BOOLEAN, sure : BOOLEAN]
NoPath   == [here |-> FALSE, cron |-> NoCron, on |-> FALSE, sure |-> TRUE]
Configuration == [given |-> FALSE, ids |-> CHOOSE c \in Picks : TRUE]
Request  == {Configuration} \cup [given : {TRUE}, ids : Picks]
Named(s) == {s[i] : i \in DOMAIN s}
Idle     == [at |-> "idle", ids |-> <<>>, next |-> 1, asked |-> {}, steady |-> TRUE]
NoJobs   == [j \in Paths \cup {Emby} |-> NoCron]

TypeOK ==
    /\ {booted, edited, stale} \subseteq BOOLEAN
    /\ jobs \in [Paths \cup {Emby} -> Crons \cup {NoCron}]
    /\ handlers \subseteq {"emby_refresh", "scrape_path_start"}
    /\ paths \in [Paths -> Path] /\ settings \in Offers
    /\ pending \in Seq(Request) /\ Len(pending) <= MaxPending
    /\ refresh.at \in {"idle", "ask", "client", "first", "second", "notify"}
    /\ late \in Nat

Init ==
    /\ booted = FALSE /\ jobs = NoJobs /\ handlers = {} /\ edited = TRUE
    /\ paths = [p \in Paths |-> NoPath]
    /\ settings = CHOOSE s \in Offers : TRUE
    /\ pending = <<>> /\ refresh = Idle /\ late = 0 /\ stale = FALSE

-----------------------------------------------------------------------------
(* _resolve_effective_settings: known are the address and the key; those of *)
(* an old endpoint count only where they are not.                           *)
Enabled(s) == (s.on /\ s.known) \/ (Legacy /\ ~s.known)

(* Wrong on purpose: a job stays where Emby has been switched off.          *)
ConfigureAdds(s) ==
    jobs' = [jobs EXCEPT ![Emby] = IF Enabled(s) /\ s.cron \in Crons THEN s.cron ELSE @]

(* configure_cron: times that are not taken are logged, and the job stays.  *)
Configure(s) ==
    jobs' = [jobs EXCEPT ![Emby] = IF ~Enabled(s) \/ s.cron = NoCron THEN NoCron
                                   ELSE IF s.cron = BadCron THEN @ ELSE s.cron]

Configured(s) ==
    /\ Configure(s) /\ handlers' = handlers \cup {"emby_refresh"} /\ edited' = FALSE

(* configure_emby_cron at the start of the process.                         *)
Boot ==
    /\ ~booted /\ booted' = TRUE /\ Configured(settings)
    /\ UNCHANGED <<paths, settings, mine>>

(* The process ends, and takes with it what is only in memory.              *)
End ==
    /\ booted /\ booted' = FALSE
    /\ jobs' = NoJobs /\ handlers' = {} /\ edited' = TRUE
    /\ pending' = <<>> /\ refresh' = Idle /\ late' = 0
    /\ UNCHANGED <<paths, settings, stale>>

Takes(s) ==
    /\ settings' = s
    /\ refresh' = [refresh EXCEPT !.steady = @ /\ Enabled(s)]
    /\ late' = IF Enabled(s) THEN 0 ELSE late
    /\ UNCHANGED <<pending, stale>>

(* validate_cron of the bodies, for times of Emby and of paths.             *)
Taken(cron) == cron # BadCron

(* update_emby_config: an empty address or key leaves the old one, and Emby *)
(* is not switched on without them.                                         *)
Update(s) ==
    /\ booted /\ Taken(s.cron) /\ (settings.known => s.known) /\ (s.on => s.known)
    /\ Takes(s) /\ Configured(s)
    /\ UNCHANGED <<booted, paths>>

(* The configuration is changed in its file; or the route's own file cannot *)
(* be written, which it answers with 400, with the change in force.         *)
Edit(s) ==
    /\ Takes(s) /\ edited' = TRUE
    /\ UNCHANGED <<booted, jobs, handlers, paths>>

-----------------------------------------------------------------------------
(* The routes of scrape paths; a commit may fail.                           *)
Others == UNCHANGED <<booted, settings, edited, mine>>

CreatePath(p, cron) ==
    /\ booted /\ ~paths[p].here /\ Taken(cron)
    /\ paths' = [paths EXCEPT ![p] = [NoPath EXCEPT !.here = TRUE, !.cron = cron]]
    /\ UNCHANGED <<jobs, handlers>> /\ Others

(* Its job, if any, keeps the times it has.                                 *)
UpdatePath(p, cron) ==
    /\ booted /\ paths[p].here /\ Taken(cron)
    /\ paths' = [paths EXCEPT ![p].cron = cron]
    /\ UNCHANGED <<jobs, handlers>> /\ Others

(* Wrong on purpose: the job of a deleted path stays.                       *)
DeleteRowOnly(p) ==
    /\ booted /\ paths[p].here
    /\ paths' = [paths EXCEPT ![p] = NoPath]
    /\ UNCHANGED <<jobs, handlers>> /\ Others

DeletePath(p) ==
    /\ booted /\ paths[p].here
    /\ jobs' = [jobs EXCEPT ![p] = NoCron]
    /\ \/ paths' = [paths EXCEPT ![p] = NoPath]
       \/ UNCHANGED paths
    /\ UNCHANGED handlers /\ Others

(* toggle_scrape_path_cron                                                  *)
Toggle(p, on) ==
    /\ booted /\ paths[p].here
    /\ on => paths[p].cron # NoCron
    /\ jobs' = [jobs EXCEPT ![p] = IF on THEN paths[p].cron ELSE NoCron]
    /\ handlers' = IF on THEN handlers \cup {"scrape_path_start"} ELSE handlers
    /\ \/ paths' = [paths EXCEPT ![p].on = on, ![p].sure = TRUE]
       \/ paths' = [paths EXCEPT ![p].sure = (on = paths[p].on)]
    /\ Others

-----------------------------------------------------------------------------
(* A refresh is asked for.                                                  *)
Asks(request) ==
    /\ booted /\ Len(pending) < MaxPending
    /\ pending' = Append(pending, request)
    /\ UNCHANGED <<booted, jobs, handlers, paths, settings, edited, refresh, late>>

(* The job's time has come; the queue of CronService calls its handler.     *)
Fire ==
    /\ jobs[Emby] # NoCron /\ "emby_refresh" \in handlers
    /\ Asks(Configuration) /\ UNCHANGED stale

(* The route, with or without names of libraries.                           *)
AskByRoute(request) == Enabled(settings) /\ Asks(request) /\ UNCHANGED stale

(* trigger_refresh_on_event, after STRM files were made or files renamed.   *)
Trigger ==
    /\ Enabled(settings) /\ settings.events
    /\ Asks(Configuration) /\ stale' = TRUE

Only(p, r, l, s) ==
    /\ pending' = p /\ refresh' = r /\ late' = l /\ stale' = s
    /\ UNCHANGED <<booted, jobs, handlers, paths, settings, edited>>

(* refresh_configured_libraries begins: not where Emby is switched off, and *)
(* not beside another one, which is then taken for as good.                 *)
Begin ==
    /\ pending # <<>>
    /\ IF Enabled(settings) /\ refresh.at = "idle"
       THEN LET asks == Head(pending)
                ids  == IF asks.given THEN asks.ids ELSE settings.libraries
            IN  Only(Tail(pending),
                     [Idle EXCEPT !.at = "ask", !.ids = IF ids = <<>> THEN <<All>> ELSE ids],
                     late, FALSE)
       ELSE Only(Tail(pending), refresh, late, stale)

Goes(at) == [refresh EXCEPT !.at = at]

(* One library is through, whatever came of it.                             *)
Through(r) ==
    [r EXCEPT !.next = @ + 1, !.at = IF r.next = Len(r.ids) THEN "notify" ELSE "ask"]

(* Wrong on purpose: a library that fails is the last one.                  *)
LastFails(r) == [r EXCEPT !.at = "notify"]

Fails(r) == Through(r)

(* Wrong on purpose: the settings are those of the refresh's begin.         *)
AskAnyway ==
    /\ refresh.at = "ask"
    /\ Only(pending, Goes("client"), late, stale)

(* _refresh_library reads the settings anew for each.                       *)
Ask ==
    /\ refresh.at = "ask"
    /\ IF Enabled(settings)
       THEN Only(pending, [Goes("client") EXCEPT !.asked = @ \cup {refresh.ids[refresh.next]}],
                 late, stale)
       ELSE Only(pending, Through(refresh), late, stale)

Sends(at) == Only(pending, Goes(at), IF Enabled(settings) THEN late ELSE late + 1, stale)

(* _request_json: the client of the pool is there, or cannot be had.        *)
Send == refresh.at = "client" /\ Sends("first")

NoClient == refresh.at = "client" /\ Only(pending, Through(refresh), late, stale)

(* Emby answers; or it does not, or answers with an error, and the other    *)
(* address is tried.                                                        *)
Answer ==
    /\ refresh.at \in {"first", "second"}
    /\ Only(pending, Through(refresh), late, stale)

Fail ==
    \/ refresh.at = "first" /\ Bases = 2 /\ Sends("second")
    \/ /\ refresh.at = (IF Bases = 2 THEN "second" ELSE "first")
       /\ Only(pending, Fails(refresh), late, stale)

(* The notification is sent, and the lock given back.                       *)
Finish == refresh.at = "notify" /\ Only(pending, Idle, late, stale)

Next ==
    \/ Boot \/ End
    \/ \E s \in Offers : Update(s) \/ Edit(s)
    \/ \E p \in Paths :
          \/ \E cron \in Crons \cup {NoCron, BadCron} : CreatePath(p, cron) \/ UpdatePath(p, cron)
          \/ DeletePath(p)
          \/ \E on \in BOOLEAN : Toggle(p, on)
    \/ Fire \/ Trigger \/ \E r \in Request : AskByRoute(r)
    \/ Begin \/ Ask \/ Send \/ NoClient \/ Answer \/ Fail \/ Finish

Spec == Init /\ [][Next]_vars

-----------------------------------------------------------------------------
(* What is scheduled is wanted and can run: a path's job is of a path that  *)
(* is there, with its cron switched on, and has its handler; Emby's has the *)
(* times of the configuration, as long as that is changed by the route      *)
(* (api/scrape.py:550-563, 604-635; integrations/emby.py:386-409).          *)
JobsAreWanted ==
    /\ \A p \in Paths : jobs[p] # NoCron =>
          /\ "scrape_path_start" \in handlers
          /\ paths[p].sure => paths[p].here /\ paths[p].on
    /\ booted /\ ~edited /\ settings.cron # BadCron =>
          (jobs[Emby] = IF Enabled(settings) THEN settings.cron ELSE NoCron)

(* Once Emby is switched off, a refresh that is under way asks it no more   *)
(* than for the library it is at (emby.py:255-262, 329-335).                *)
OffIsSoon == late <= Bases

(* A library that fails keeps no other one from being asked: unless Emby is *)
(* switched off meanwhile, a refresh goes through all it was asked for      *)
(* (emby.py:329-335, 275-281).                                              *)
EveryLibrary ==
    refresh.at = "notify" /\ refresh.steady => refresh.asked = Named(refresh.ids)

(* Not kept: a path with its cron switched on runs at its times.  Nothing   *)
(* schedules it again after a restart, and new times of it are not taken    *)
(* over (api/scrape.py:528-545, 602-635).                                   *)
EnabledIsScheduled ==
    booted => \A p \in Paths : paths[p].here /\ paths[p].on => jobs[p] = paths[p].cron

(* Not kept: after files have changed, Emby is refreshed once more; what is *)
(* asked for while a refresh is under way is dropped (emby.py:321).         *)
ChangesAreTold ==
    booted /\ Enabled(settings) /\ pending = <<>> /\ refresh.at = "idle" => ~stale

(* Not kept with Legacy: what the user has switched off is off (emby.py:66).*)
OffIsOff == booted /\ ~edited /\ ~settings.on => ~Enabled(settings)
=============================================================================
