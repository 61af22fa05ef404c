----------------------------- MODULE MCServices ------------------------------
(****************************************************************************)
(* The services around the tasks for TLC, from Migrations to ShareSearch.   *)
(* They share no state, so that one run takes one of them at a time, the    *)
(* scene, and the variables stand for those of its module.                  *)
(****************************************************************************)
EXTENDS Migrations, Integers, Sequences, LRU

CONSTANTS
    MaxLives,                                   \* Lifecycle
    Types, Common, Callers, None, MaxMade,      \* HttpPool
    Clients, Requests, Seconds, Block, CleanupInterval,    \* RateLimiter
    X, Y, I, J, MaxLost,                        \* EmbyMedia
    Keys, L1Max, L2Max, L1Ttl, L2Ttl, MaxSets,  \* MultiLevelLRU
    Quark, Link, Playback, Names, MaxSize, MaxVersion, Getters,    \* CacheManager
    Users, Passwords, ApiKey, MaxAttempts, LockTime, AccessTtl, RefreshTtl,  \* Accounts
    T, A, B,                                    \* Migrations
    Medium, High, Few, Many, MaxEvents, MaxIds, MaxFaults,   \* Alerts
    Askers, Nobody, Films, MaxRequests, Window, Ttl, MaxTries, ApiKeys, NoKey, MaxCalls    \* TmdbClient

VARIABLES
    scene,
    m1, m2, m3, m4, m5, m6, m7, m8, m9, m10     \* those of the scene, in their order

(* Two migrations: one adds a table, the next one two columns to it, which  *)
(* a new table has from the start.                                          *)
MCAdds   == <<{T}, {A, B}>>
MCBrings == [c \in {T, A, B} |-> IF c = T THEN {T, A, B} ELSE {c}]
MCBefore == {{}, {T}, {T, A}}

(* Those services of initialize_service_container that have a start.        *)
Order == <<"CacheServiceUnified", "LinkCacheUnified", "CronService">>

(* The longest chain of NAMESPACE_DEPENDENCIES (app/core/cache_manager.py). *)
Graph == [n \in {Quark, Link, Playback} |->
            CASE n = Quark    -> {Link, Playback}
              [] n = Link     -> {Playback}
              [] n = Playback -> {}]

(* A share: its second folder down is the deepest one that is listed.       *)
Tree  == [f \in {"r", "s", "t", "u"} |->
            CASE f = "r" -> <<"s", "w", "x">> [] f = "s" -> <<"t", "y">>
              [] f = "t" -> <<"z", "u">>      [] f = "u" -> <<"v">>]
Bytes == [f \in {"v", "w", "x", "y", "z"} |->
            CASE f = "w" -> 1 [] f = "x" -> 2 [] f = "y" -> 4 [] f = "z" -> 8 [] f = "v" -> 16]

(* Configurations of Emby: what it is told at its times, or not, or with a  *)
(* mistake; switched off; and without address and key.                      *)
Ids        == <<"x", "y">>
EmbyOffers == [on : {TRUE}, known : {TRUE}, cron : {"daily", "bad", "none"}, libraries : {Ids}, events : {TRUE}]
              \cup [on : {FALSE}, known : BOOLEAN, cron : {"daily"}, libraries : {<<>>}, events : {FALSE}]

(* What PanSou finds: with and without dates, of other clouds as well.      *)
Found ==
    LET R(id, cloud, score, date, size) ==
            [id |-> id, cloud |-> cloud, score |-> score, date |-> date, size |-> size,
             confidence |-> IF id = "u" THEN 0 ELSE 1]
    IN  {<<R("u", "quark", 1, 1, 1), R("v", "quark", 2, 2, 2), R("w", "quark", 3, 0, 3)>>,
         <<R("u", "quark", 2, 1, 3), R("x", "other", 1, 2, 0), R("v", "quark", 2, 1, 1)>>,
         <<R("u", "quark", 1, -1, 1), R("w", "quark", 3, 0, 1)>>}

Life     == INSTANCE Lifecycle WITH
             Threads <- Procs, MaxRegistered <- 2, MaxMade <- 3,
             stage <- m1, at <- m2, running <- m3, has <- m4, flags <- m5, ready <- m6,
             spoiled <- m7, lives <- m8,
             services <- m1, lifetime <- m2, own <- m3, instances <- m4,
             overrides <- m5, maker <- m6, reg <- m7, made <- m8, call <- m9
Pool     == INSTANCE HttpPool WITH
             clients <- m1, closed <- m2, made <- m3, initialized <- m4, holder <- m5,
             call <- m6, early <- m7
Limiter  == INSTANCE RateLimiter WITH
             state <- m1, cleaned <- m2, allowed <- m3
Media    == INSTANCE EmbyMedia WITH
             Libs <- {X, Y}, Items <- {I, J}, Home <- [i \in {I, J} |-> IF i = I THEN X ELSE Y],
             views <- m1, server <- m2, libraries <- m3, rows <- m4, sync <- m5,
             new <- m6, deleted <- m7, plan <- m8, counted <- m9, excused <- m10
Levels   == INSTANCE MultiLevelLRU WITH
             l1 <- m1, l2 <- m2, used <- m3
Manager  == INSTANCE CacheManager WITH
             Namespaces <- DOMAIN Graph, Depends <- Graph, Callers <- Getters,
             cache <- m1, version <- m2, call <- m3
Accts    == INSTANCE Accounts WITH
             Names <- Users,
             user <- m1, tokens <- m2, wrong <- m3, since <- m4
Alerting == INSTANCE Alerts WITH
             Callers <- Clients,
             events <- m1, address <- m2, alert <- m3, rows <- m4, rules <- m5,
             logs <- m6, service <- m7, faults <- m8
Tmdb     == INSTANCE TmdbClient WITH
             Callers <- Askers, Titles <- Films, MaxVersion <- 1,
             data <- m1, cache <- m2, permits <- m3, holder <- m4, call <- m5,
             key <- m6, conf <- m7, begun <- m8, sent <- m9, over <- m10
Redis    == INSTANCE RedisCache WITH
             Calls <- Clients, Keys <- Names, LocalTtl <- 1, Ttls <- {2}, MaxOuts <- 1,
             Computers <- Clients, DirectKeys <- Names, Lifetimes <- {1, 2}, MaxTtl <- 2, Jitter <- 2,
             MaxValues <- 3,
             redis <- m1, up <- m2, outs <- m3, local <- m4, lock <- m5, call <- m6,
             sets <- m7, gone <- m8,
             value <- m1, client <- m2, reachable <- m3, job <- m4, values <- m5
Links    == INSTANCE LinkCache WITH
             Ttls <- {1, 2}, MaxSize <- 2, Share <- 10, Interval <- 2, MaxLoops <- 2,
             entries <- m1, running <- m2, loops <- m3, told <- m4, fresh <- m5
Shares   == INSTANCE ShareSearch WITH
             Slots <- 1, PageSize <- 2, MaxDepth <- 1, Ttl <- 1, Files <- DOMAIN Bytes,
             Folders <- DOMAIN Tree, Root <- "r", Inside <- Tree, Size <- Bytes,
             Offers <- Found, TopN <- 2, PageSizes <- {1, 2}, MinSizes <- {0, 2},
             MinScore <- 2, MinConfidence <- 1,
             job <- m1, kept <- m2,
             offer <- m1, got <- m2, reader <- m3
Plans    == INSTANCE NamePlans WITH
             Years <- {2000, 2001, 2010}, Numbers <- {1}, NoNumber <- None, Threshold <- 70,
             Algorithms <- {"standard", "ai_enhanced", "ai_only"},
             preview <- m1, at <- m2, file <- m3, info <- m4, match <- m5, plan <- m6
Times    == INSTANCE Schedules WITH
             Paths <- {"path"}, Emby <- "emby", Crons <- {"daily"}, BadCron <- "bad", NoCron <- "none",
             All <- "all", Picks <- {<<>>, Ids}, Offers <- EmbyOffers, Legacy <- FALSE, Bases <- 2,
             MaxPending <- 1,
             booted <- m1, jobs <- m2, handlers <- m3, paths <- m4, settings <- m5,
             edited <- m6, pending <- m7, refresh <- m8, late <- m9, stale <- m10

ASSUME LifecycleConstants == Life!LifecycleAssumption
ASSUME PoolConstants      == Pool!PoolAssumption
ASSUME LimiterConstants   == Limiter!LimiterAssumption
ASSUME MediaConstants     == Media!MediaAssumption
ASSUME LevelConstants     == Levels!LevelAssumption
ASSUME ManagerConstants   == Manager!ManagerAssumption
ASSUME AccountConstants   == Accts!AccountsAssumption
ASSUME AlertsConstants == Alerting!AlertsAssumption
ASSUME TmdbConstants == Tmdb!TmdbAssumption
ASSUME RedisConstants == Redis!RedisAssumption
ASSUME DirectConstants == Redis!DirectAssumption
ASSUME LinksConstants == Links!LinkAssumption
ASSUME SizesConstants == Shares!SizesAssumption
ASSUME NamesConstants == Plans!PlansAssumption
ASSUME SchedulesConstants == Times!SchedulesAssumption
ASSUME ContainerConstants == Life!ContainerAssumption
ASSUME SearchConstants == Shares!SearchAssumption

all == <<scene, vars, m1, m2, m3, m4, m5, m6, m7, m8, m9, m10>>

(* Elsewhere than in the first scene, the database stays as it is.          *)
AllInit ==
    /\ \/ /\ scene = "migrations" /\ m1 = None /\ m2 = None /\ m3 = None
          /\ m4 = None /\ m5 = None /\ m6 = None /\ m7 = None /\ m8 = None /\ m9 = None
          /\ m10 = None
       \/ /\ scene = "life" /\ Life!Init /\ m9 = None /\ m10 = None
       \/ /\ scene = "pool" /\ Pool!Init /\ m8 = None /\ m9 = None /\ m10 = None
       \/ /\ scene = "limiter" /\ Limiter!Init /\ m4 = None /\ m5 = None /\ m6 = None
          /\ m7 = None /\ m8 = None /\ m9 = None /\ m10 = None
       \/ /\ scene = "media" /\ Media!Init
       \/ /\ scene = "levels" /\ Levels!Init /\ m4 = None /\ m5 = None /\ m6 = None
          /\ m7 = None /\ m8 = None /\ m9 = None /\ m10 = None
       \/ /\ scene = "manager" /\ Manager!Init /\ m4 = None /\ m5 = None /\ m6 = None
          /\ m7 = None /\ m8 = None /\ m9 = None /\ m10 = None
       \/ /\ scene = "accounts" /\ Accts!Init /\ m5 = None /\ m6 = None /\ m7 = None
          /\ m8 = None /\ m9 = None /\ m10 = None
       \/ /\ scene = "alerts" /\ Alerting!Init /\ m9 = None /\ m10 = None
       \/ /\ scene = "lookups" /\ Tmdb!Init
       \/ /\ scene = "copies" /\ Redis!Init /\ m9 = None /\ m10 = None
       \/ /\ scene = "clears" /\ Redis!DirectInit /\ m6 = None /\ m7 = None /\ m8 = None
          /\ m9 = None /\ m10 = None
       \/ /\ scene = "links" /\ Links!Init /\ m6 = None /\ m7 = None /\ m8 = None
          /\ m9 = None /\ m10 = None
       \/ /\ scene = "sizes" /\ Shares!Init /\ m3 = None /\ m4 = None /\ m5 = None
          /\ m6 = None /\ m7 = None /\ m8 = None /\ m9 = None /\ m10 = None
       \/ /\ scene = "names" /\ Plans!Init /\ m7 = None /\ m8 = None /\ m9 = None
          /\ m10 = None
       \/ /\ scene = "schedules" /\ Times!Init
       \/ /\ scene = "container" /\ Life!ContainerInit /\ m10 = None
       \/ /\ scene = "search" /\ Shares!SearchInit /\ m4 = None /\ m5 = None /\ m6 = None
          /\ m7 = None /\ m8 = None /\ m9 = None /\ m10 = None
    /\ Init
    /\ scene # "migrations" => version = 0 /\ columns = {}

AllNext ==
    /\ UNCHANGED scene
    /\ \/ /\ scene = "migrations" /\ Next
          /\ UNCHANGED <<m1, m2, m3, m4, m5, m6, m7, m8, m9, m10>>
       \/ scene = "life" /\ Life!Next /\ UNCHANGED <<vars, m9, m10>>
       \/ scene = "pool" /\ Pool!Next /\ UNCHANGED <<vars, m8, m9, m10>>
       \/ /\ scene = "limiter" /\ Limiter!Next
          /\ UNCHANGED <<vars, m4, m5, m6, m7, m8, m9, m10>>
       \/ scene = "media" /\ Media!Next /\ UNCHANGED <<vars>>
       \/ scene = "levels" /\ Levels!Next /\ UNCHANGED <<vars, m4, m5, m6, m7, m8, m9, m10>>
       \/ /\ scene = "manager" /\ Manager!Next
          /\ UNCHANGED <<vars, m4, m5, m6, m7, m8, m9, m10>>
       \/ scene = "accounts" /\ Accts!Next /\ UNCHANGED <<vars, m5, m6, m7, m8, m9, m10>>
       \/ scene = "alerts" /\ Alerting!Next /\ UNCHANGED <<vars, m9, m10>>
       \/ scene = "lookups" /\ Tmdb!Next /\ UNCHANGED <<vars>>
       \/ scene = "copies" /\ Redis!Next /\ UNCHANGED <<vars, m9, m10>>
       \/ scene = "clears" /\ Redis!DirectNext /\ UNCHANGED <<vars, m6, m7, m8, m9, m10>>
       \/ scene = "links" /\ Links!Next /\ UNCHANGED <<vars, m6, m7, m8, m9, m10>>
       \/ /\ scene = "sizes" /\ Shares!Next
          /\ UNCHANGED <<vars, m3, m4, m5, m6, m7, m8, m9, m10>>
       \/ scene = "names" /\ Plans!Next /\ UNCHANGED <<vars, m7, m8, m9, m10>>
       \/ scene = "schedules" /\ Times!Next /\ UNCHANGED <<vars>>
       \/ scene = "container" /\ Life!ContainerNext /\ UNCHANGED <<vars, m10>>
       \/ /\ scene = "search" /\ Shares!SearchNext
          /\ UNCHANGED <<vars, m4, m5, m6, m7, m8, m9, m10>>

Services == AllInit /\ [][AllNext]_all

-----------------------------------------------------------------------------
(* lifespan: the program is not ready without its worker and its services,  *)
(* nothing is left after a shutdown or a failed start, and what uses a      *)
(* service is stopped before it.                                            *)
LifecycleHolds ==
    /\ [](scene = "life" => Life!TypeOK /\ Life!ReadyIsWhole /\ Life!NothingLeft)
    /\ [][scene = "life" => Life!UsersFirst]_all

(* HTTPConnectionPool: no open client is lost from the table.               *)
(* ServiceContainer: one instance of a singleton, by either of its types.   *)
NoLeak ==
    /\ scene = "pool" => Pool!TypeOK /\ Pool!NoLeak
    /\ scene = "container" => Life!ContainerTypeOK /\ Life!OneInstance /\ Life!SharedByTypes

(* RateLimiter: the limit holds in each window, and who is turned away has  *)
(* used it up.  TmdbClient: no more requests than allowed, no answer kept   *)
(* too long.                                                                *)
LimitHolds ==
    /\ [](scene = "limiter" => Limiter!TypeOK /\ Limiter!WithinLimit)
    /\ [][scene = "limiter" => Limiter!RefusedForReason]_all
    /\ [](scene = "lookups" => Tmdb!TypeOK /\ Tmdb!WithinRate /\ Tmdb!AnswersFresh)

(* EmbyService: an item is stored after its library, and one deleted is not *)
(* stored again without a reason.  The previews of renames: what is not     *)
(* sure is asked, and names say what was found.  What is scheduled is       *)
(* wanted, and a refresh of Emby goes through all of its libraries.         *)
LibraryHolds ==
    /\ scene = "media" => Media!TypeOK /\ Media!LibraryFirst /\ Media!NoGhost
    /\ scene = "names" => Plans!TypeOK /\ Plans!DoubtIsAsked /\ Plans!NumbersKept /\ Plans!KindsAgree
    /\ scene = "schedules" => Times!TypeOK /\ Times!JobsAreWanted /\ Times!OffIsSoon /\ Times!EveryLibrary

(* MultiLevelLRUCache: promotions do not keep a value alive beyond both     *)
(* levels' times, the levels do not disagree, and the first one drops what  *)
(* was used longest ago.  RedisCache: a pattern cleared is cleared.         *)
LevelsHold ==
    /\ [](scene = "levels" => Levels!TypeOK /\ Levels!AgeBound /\ Levels!SameValue /\ Levels!OldestFirst)
    /\ [][scene = "levels" => Levels!LeastRecent]_all
    /\ [](scene = "clears" => Redis!DirectTypeOK)
    /\ [][scene = "clears" => Redis!ClearedIsGone]_all
    /\ [][scene = "links" => Links!OldestGoes]_all

(* CacheManager: what an invalidation concerns is not read after it, and    *)
(* entries of old versions make room first.  RedisCacheService: copies end  *)
(* soon after what they are of, and a factory runs alone in its process.    *)
(* Searches: who reads all pages sees each result once, in order.           *)
CachesHold ==
    /\ scene = "manager" => Manager!TypeOK /\ Manager!InvalidatedIsGone /\ Manager!OldFirst
    /\ scene = "copies" => Redis!TypeOK /\ Redis!CopiesEnd /\ Redis!MakesAlone
    /\ scene = "links" => Links!TypeOK /\ Links!LinksAreLive /\ Links!OneLoop
    /\ scene = "sizes" => Shares!TypeOK /\ Shares!EachFileOnce
    /\ scene = "search" => Shares!SearchTypeOK /\ Shares!ReadsAll /\ Shares!InOrder

(* Users: wrong passwords are looked at so often only, and a session ends   *)
(* some time after its login.                                               *)
AccountsHold == scene = "accounts" => Accts!AccountsHold

(* Alerts: the notification service sends where the rows say, what is       *)
(* severe is told, and what is sent is logged.                              *)
AlertsHold == scene = "alerts" =>
    /\ Alerting!TypeOK /\ Alerting!CopyIsFresh /\ Alerting!SevereIsTold
    /\ Alerting!SendsAreLogged /\ Alerting!AddressesAgree
=============================================================================
