------------------------------- MODULE Playback ------------------------------
(****************************************************************************)
(* The redirect of a player to a file in the cloud (app/api/proxy.py,       *)
(* app/api/stable_stream.py): a direct link from the cache or from Quark, a *)
(* probe whether a player can read it, a transcoding link if not, and the   *)
(* route health that sends a route's players to the local proxy for a while *)
(* after its links have failed (app/services/playback_route_health_service  *)
(* .py).                                                                    *)
(*                                                                          *)
(* There is one file and one class of clients: neither shares anything with *)
(* others but the probes, which are kept by link.  Times are what is left   *)
(* of them, or how long ago they were.                                      *)
(****************************************************************************)
EXTENDS Naturals, Sequences, FiniteSets, SequencesExt

CONSTANTS
    Callers,                       \* requests under way
    Urls, Hosts, Host,             \* links, and the host of each
    None,
    LinkTtl, ProbeTtl, MaxProbes,  \* the link cache and the probe cache
    Threshold, StickyTtl           \* sticky_downgrade_*

PlaybackAssumption ==
    /\ Host \in [Urls -> Hosts]
    /\ None \notin Urls
    /\ {LinkTtl, ProbeTtl, MaxProbes, Threshold, StickyTtl} \subseteq Nat \ {0}

VARIABLES
    link,       \* the link cache's entry for the file
    probes,     \* _probe_cache
    health,     \* _states: failures, time left of the downgrade, time since the last failure
    call,       \* where each request is, and the link it is at or has been sent to
    okay,       \* how long ago each link was last found playable
    failed      \* how long ago each host's last failures were, latest first

vars == <<link, probes, health, call, okay, failed>>

Long == Threshold * StickyTtl + 1     \* longer ago than any window

NoLink == [url |-> None, left |-> 0]

NoProbe == [held |-> FALSE, ok |-> FALSE, left |-> 0]

NoState == [count |-> 0, left |-> 0, since |-> 0]

Places == {"idle", "resolve", "probing", "transcode", "checking", "deliver"}

TypeOK ==
    /\ link \in [url : Urls \cup {None}, left : 0 .. LinkTtl]
    /\ probes \in [Urls -> [held : BOOLEAN, ok : BOOLEAN, left : 0 .. ProbeTtl]]
    /\ health \in [Hosts -> [count : 0 .. Threshold, left : 0 .. StickyTtl,
                             since : 0 .. (StickyTtl + 1)]]
    /\ call \in [Callers -> [at : Places, url : Urls \cup {None}]]
    /\ okay \in [Urls -> 0 .. (ProbeTtl + 1)]
    /\ \A h \in Hosts : Len(failed[h]) <= Threshold /\ \A i \in DOMAIN failed[h] : failed[h][i] <= Long

Init ==
    /\ link = NoLink
    /\ probes = [u \in Urls |-> NoProbe]
    /\ health = [h \in Hosts |-> NoState]
    /\ call = [c \in Callers |-> [at |-> "idle", url |-> None]]
    /\ okay = [u \in Urls |-> ProbeTtl + 1]
    /\ failed = [h \in Hosts |-> <<>>]

Goes(c, place, u) == call' = [call EXCEPT ![c] = [at |-> place, url |-> u]]

-----------------------------------------------------------------------------
(* Wrong on purpose: failures of any time ago are counted together.         *)
FreshEver(s) == s.count = 0

(* Failures that lie further apart than the ttl are not counted together.   *)
Fresh(s) == s.count = 0 \/ s.since > StickyTtl

record_direct_failure(h) ==
    LET s == health[h]
        n == IF Fresh(s) THEN 1 ELSE IF s.count < Threshold THEN s.count + 1 ELSE Threshold
        l == IF n = Threshold THEN StickyTtl ELSE IF Fresh(s) THEN 0 ELSE s.left
    IN  /\ health' = [health EXCEPT ![h] = [count |-> n, left |-> l, since |-> 0]]
        /\ failed' = [failed EXCEPT ![h] =
              IF Len(@) = Threshold THEN <<0>> \o Front(@) ELSE <<0>> \o @]

Sticky(h) == health[h].left > 0

(* Wrong on purpose: whoever is not sticky is forgotten.                    *)
OverForAll(s) == s.left = 0

(* A downgrade whose time is up; a count below the threshold is kept.       *)
Over(s) == s.count = Threshold /\ s.left = 0

(* Wrong on purpose: the answer of a probe is good for ever.                *)
KnownEver(u) == probes[u].held

Known(u) == probes[u].held /\ probes[u].left > 0

(* _set_probe_cache: at the limit the entry that expires first gives way.   *)
Held == {u \in Urls : probes[u].held}

Remembered(u, ok) ==
    LET new == [held |-> TRUE, ok |-> ok, left |-> ProbeTtl] IN
    IF u \in Held \/ Cardinality(Held) < MaxProbes
    THEN probes' = [probes EXCEPT ![u] = new]
    ELSE \E v \in Held :
           /\ \A w \in Held : probes[v].left <= probes[w].left
           /\ probes' = [probes EXCEPT ![v] = NoProbe, ![u] = new]

-----------------------------------------------------------------------------
(* A verdict on the first link of a request: it is good, or counts as a     *)
(* failure of its route and leads to the transcoding link.                  *)
First(c, u, ok) ==
    IF ok THEN Goes(c, "deliver", u) /\ UNCHANGED <<health, failed>>
    ELSE Goes(c, "transcode", None) /\ record_direct_failure(Host[u])

(* ... and on the transcoding link: nothing follows it.                     *)
Second(c, u, ok) ==
    /\ Goes(c, "deliver", IF ok THEN u ELSE None)
    /\ UNCHANGED <<health, failed>>

Verdict(c, u, place, ok) == IF place = "probing" THEN First(c, u, ok) ELSE Second(c, u, ok)

(* _is_url_directly_playable, up to its request                             *)
Probe(c, u, place) ==
    IF Known(u)
    THEN Verdict(c, u, place, probes[u].ok) /\ UNCHANGED probes
    ELSE /\ probes' = [probes EXCEPT ![u] = NoProbe]
         /\ Goes(c, place, u)
         /\ UNCHANGED <<health, failed>>

(* redirect_302, LinkResolver.resolve: the cache comes first.               *)
Begin(c) ==
    /\ call[c].at = "idle"
    /\ IF link.left > 0
       THEN Probe(c, link.url, "probing")
       ELSE Goes(c, "resolve", None) /\ UNCHANGED <<probes, health, failed>>
    /\ UNCHANGED <<link, okay>>

(* Quark, or AList after it, answers with a link ...                        *)
Resolved(c) ==
    /\ call[c].at = "resolve"
    /\ \E u \in Urls : /\ link' = [url |-> u, left |-> LinkTtl]
                      /\ Probe(c, u, "probing")
    /\ UNCHANGED okay

(* ... or neither does: then there is no transcoding link either.           *)
Unresolved(c) ==
    /\ call[c].at = "resolve"
    /\ Goes(c, "deliver", None)
    /\ UNCHANGED <<link, probes, health, okay, failed>>

(* The probe's request has its answer: links start and stop being readable  *)
(* as their host likes.                                                     *)
Probed(c, ok) ==
    LET u == call[c].url
    IN  /\ call[c].at \in {"probing", "checking"}
        /\ Remembered(u, ok)
        /\ Verdict(c, u, call[c].at, ok)
        /\ okay' = IF ok THEN [okay EXCEPT ![u] = 0] ELSE okay
        /\ UNCHANGED link

(* _resolve_playable_transcoding_url                                        *)
Transcoded(c) ==
    /\ call[c].at = "transcode"
    /\ \/ \E u \in Urls : Probe(c, u, "checking")
       \/ Second(c, None, FALSE) /\ UNCHANGED probes
    /\ UNCHANGED <<link, okay>>

(* decide_delivery_mode, and the redirect: to the link, or else to WebDAV   *)
(* or the local proxy, which is the same here.                              *)
Direct(u) == u # None /\ ~Sticky(Host[u])

Asked(u) == u # None /\ Over(health[Host[u]])

Deliver(c) ==
    LET u == call[c].url IN
    /\ call[c].at = "deliver"
    /\ \/ Direct(u) /\ Goes(c, "idle", u)
       \/ Goes(c, "idle", None)      \* also when the validator refuses the link
    /\ health' = IF Asked(u) THEN [health EXCEPT ![Host[u]] = NoState] ELSE health
    /\ UNCHANGED <<link, probes, okay, failed>>

-----------------------------------------------------------------------------
Less(n) == IF n = 0 THEN 0 ELSE n - 1

More(n, max) == IF n = max THEN max ELSE n + 1

(* Time passes; delivering takes none.                                      *)
Tick ==
    /\ \A c \in Callers : call[c].at # "deliver"
    /\ link' = IF link.left <= 1 THEN NoLink ELSE [link EXCEPT !.left = @ - 1]
    /\ probes' = [u \in Urls |-> [probes[u] EXCEPT !.left = Less(@)]]
    /\ health' = [h \in Hosts |->
          IF health[h] = NoState THEN NoState
          ELSE [health[h] EXCEPT !.left = Less(@), !.since = More(@, StickyTtl + 1)]]
    /\ okay' = [u \in Urls |-> More(okay[u], ProbeTtl + 1)]
    /\ failed' = [h \in Hosts |-> [i \in DOMAIN failed[h] |-> More(failed[h][i], Long)]]
    /\ UNCHANGED call

(* POST /cache/clear                                                        *)
clear_cache ==
    /\ link' = NoLink
    /\ UNCHANGED <<probes, health, call, okay, failed>>

Next ==
    \/ Tick \/ clear_cache
    \/ \E c \in Callers : \/ Begin(c) \/ Resolved(c) \/ Unresolved(c)
                           \/ Transcoded(c) \/ Deliver(c)
                           \/ \E ok \in BOOLEAN : Probed(c, ok)

Spec == Init /\ [][Next]_vars

-----------------------------------------------------------------------------
(* A player is sent to a link only if a probe found that link playable no   *)
(* longer ago than the probe cache keeps its answers, whoever asked for it. *)
DirectWasPlayable ==
    \A c \in Callers : call[c].at = "deliver" /\ call'[c].url # None =>
       okay[call'[c].url] < ProbeTtl

(* A route is downgraded only for as many failures as the threshold says,   *)
(* none of them longer after the one before than the ttl.                   *)
StickyForReason ==
    \A h \in Hosts : Sticky(h) =>
        /\ Len(failed[h]) = Threshold
        /\ \A i \in 1 .. Threshold - 1 : failed[h][i + 1] <= failed[h][i] + StickyTtl

(* A route is downgraded as soon as it has failed that often within the     *)
(* ttl, and stays so until the last of them is a ttl ago, whatever requests *)
(* ask for it or succeed meanwhile.                                         *)
StickyWhenDue ==
    \A h \in Hosts : Len(failed[h]) = Threshold /\ failed[h][Threshold] < StickyTtl => Sticky(h)

(* Claimed of sticky_downgrade_threshold (app/config/settings.py:364), that *)
(* the failures are consecutive: the code does not keep it, as a success    *)
(* leaves the count as it is.                                               *)
ConsecutiveOnly ==
    [][\A c \in Callers, h \in Hosts :
          call[c].at = "deliver" /\ call'[c].url # None /\ Host[call'[c].url] = h =>
          health'[h].count = 0]_vars
=============================================================================
