----------------------------- MODULE TmdbClient -----------------------------
(****************************************************************************)
(* TMDBService (app/services/tmdb_service.py): lookups of films and shows   *)
(* that are answered from the cache, or from the service after its limiter  *)
(* has given a permit, with retries (app/core/retry.py), as the endpoints   *)
(* of app/api/tmdb.py and the rename services ask for them.                 *)
(*                                                                          *)
(* What an answer says is its version: TMDB's own may change.  Times are    *)
(* ticks; an answer that TMDB has given is received within the tick.        *)
(****************************************************************************)
EXTENDS Naturals, Sequences, FiniteSets

CONSTANTS
    Callers, Nobody,    \* requests, previews and tasks, and none of them
    Titles,             \* cache_key: what can be asked for
    MaxRequests,        \* max_requests
    Window,             \* time_window, in ticks
    Ttl,                \* cache_ttl, in ticks
    MaxTries,           \* max_attempts of the policy "tmdb"
    ApiKeys, NoKey,     \* tmdb.api_key
    MaxVersion,         \* bound: changes of an answer
    MaxCalls            \* bound: lookups that are begun

TmdbAssumption ==
    /\ {MaxRequests, Window, Ttl, MaxTries} \subseteq Nat \ {0}
    /\ {MaxVersion, MaxCalls} \subseteq Nat
    /\ Nobody \notin Callers /\ NoKey \notin ApiKeys

VARIABLES
    data,       \* external: the version of TMDB's answer
    cache,      \* the version that is cached, and the ticks it has left
    permits,    \* _requests: the ages of the permits within the window
    holder,     \* _lock
    call,       \* what each caller is at
    key,        \* api_key of the one service, made at the first lookup
    conf,       \* tmdb.api_key of the configuration
    begun,      \* lookups begun
    sent,       \* history: the ages of the requests within the window
    over        \* history: ticks since a version has been overtaken

vars == <<data, cache, permits, holder, call, key, conf, begun, sent, over>>

Version == 0 .. MaxVersion
Idle    == [pc |-> "idle", t |-> CHOOSE t \in Titles : TRUE, tries |-> 0, v |-> 0]
At(c, pc) == call[c].pc = pc
Go(c, pc) == call' = [call EXCEPT ![c].pc = pc]

TypeOK ==
    /\ data \in [Titles -> Version]
    /\ cache \in [Titles -> [v : Version, left : 0 .. Ttl]]
    /\ permits \in Seq(0 .. Window) /\ sent \in Seq(0 .. Window)
    /\ holder \in Callers \cup {Nobody}
    /\ call \in [Callers -> [pc : {"idle", "permit", "sleep", "again", "sent", "given", "backoff"},
                             t : Titles, tries : 0 .. MaxTries, v : Version]]
    /\ key \in ApiKeys \cup {NoKey} /\ conf \in ApiKeys
    /\ begun \in 0 .. MaxCalls
    /\ over \in [Titles \X Version -> 0 .. Ttl + 1]

Init ==
    /\ data = [t \in Titles |-> 0]
    /\ cache = [t \in Titles |-> [v |-> 0, left |-> 0]]
    /\ permits = <<>> /\ sent = <<>>
    /\ holder = Nobody
    /\ call = [c \in Callers |-> Idle]
    /\ key = NoKey /\ conf \in ApiKeys
    /\ begun = 0
    /\ over = [x \in Titles \X Version |-> 0]

-----------------------------------------------------------------------------
(* The service is made once, with the key that is configured then.          *)
ServiceMade == key' = IF key = NoKey THEN conf ELSE key

(* _cached_request: an answer in the cache is the answer.                   *)
Lookup(c, t) ==
    /\ begun' = begun + 1
    /\ call' = [call EXCEPT ![c] =
          IF cache[t].left > 0 THEN Idle ELSE [Idle EXCEPT !.pc = "permit", !.t = t]]

Ask(c, t) ==
    /\ At(c, "idle")
    /\ begun < MaxCalls
    /\ ServiceMade
    /\ Lookup(c, t)
    /\ UNCHANGED <<data, cache, permits, holder, conf, sent, over>>

(* Wrong on purpose: one more than the limit gets a permit.                 *)
TooManyByOne == Len(permits) > MaxRequests

(* acquire, under the lock of the limiter: a permit if there is one, or a   *)
(* sleep until the oldest has left the window, with the lock held.          *)
TooMany == Len(permits) >= MaxRequests

Permit(c) ==
    /\ At(c, "permit") \/ At(c, "again")
    /\ holder = Nobody
    /\ IF TooMany
       THEN /\ holder' = c
            /\ Go(c, "sleep")
            /\ UNCHANGED <<permits, sent>>
       ELSE /\ permits' = Append(permits, 0)
            /\ sent' = Append(sent, 0)
            /\ Go(c, "sent")
            /\ UNCHANGED holder
    /\ UNCHANGED <<data, cache, key, conf, begun, over>>

(* After the sleep acquire calls itself, and asks for the lock it holds.    *)
Wake(c) ==
    /\ At(c, "sleep")
    /\ ~TooMany
    /\ Go(c, "again")
    /\ UNCHANGED <<data, cache, permits, holder, key, conf, begun, sent, over>>

(* TMDB gives its answer.                                                   *)
Give(c) ==
    /\ At(c, "sent")
    /\ call' = [call EXCEPT ![c].pc = "given", ![c].v = data[call[c].t]]
    /\ UNCHANGED <<data, cache, permits, holder, key, conf, begun, sent, over>>

(* Wrong on purpose: an answer that is found lives on when it is stored.    *)
KeptTwice(c) == [v |-> call[c].v, left |-> Ttl + cache[call[c].t].left]

(* What is stored of an answer, whatever has been stored meanwhile.         *)
Kept(c) == [v |-> call[c].v, left |-> Ttl]

Receive(c) ==
    /\ At(c, "given")
    /\ cache' = [cache EXCEPT ![call[c].t] = Kept(c)]
    /\ call' = [call EXCEPT ![c] = Idle]
    /\ UNCHANGED <<data, permits, holder, key, conf, begun, sent, over>>

(* A request or its answer fails: again after a pause, with a new permit,   *)
(* or the error is the caller's, an answer 500 of the endpoint.             *)
RequestFails(c) ==
    /\ At(c, "sent") \/ At(c, "given")
    /\ call' = [call EXCEPT ![c] =
          IF @.tries + 1 < MaxTries
          THEN [Idle EXCEPT !.pc = "backoff", !.t = call[c].t, !.tries = call[c].tries + 1]
          ELSE Idle]
    /\ UNCHANGED <<data, cache, permits, holder, key, conf, begun, sent, over>>

(* Wrong on purpose: a retry is sent with the permit of the first try.      *)
RetrySends(c) ==
    /\ At(c, "backoff")
    /\ sent' = Append(sent, 0)
    /\ Go(c, "sent")
    /\ UNCHANGED <<data, cache, permits, holder, key, conf, begun, over>>

Retry(c) ==
    /\ At(c, "backoff")
    /\ Go(c, "permit")
    /\ UNCHANGED <<data, cache, permits, holder, key, conf, begun, sent, over>>

(* The endpoint that clears the cache.                                      *)
ClearCache ==
    /\ cache' = [t \in Titles |-> [cache[t] EXCEPT !.left = 0]]
    /\ UNCHANGED <<data, permits, holder, call, key, conf, begun, sent, over>>

(* The user saves another key: the service goes on with its own.            *)
Configure(k) ==
    /\ conf' = k
    /\ UNCHANGED <<data, cache, permits, holder, call, key, begun, sent, over>>

Changes(t) ==
    /\ data[t] < MaxVersion
    /\ data' = [data EXCEPT ![t] = @ + 1]
    /\ UNCHANGED <<cache, permits, holder, call, key, conf, begun, sent, over>>

Older(ages) == SelectSeq([i \in DOMAIN ages |-> ages[i] + 1], LAMBDA age : age < Window)

Tick ==
    /\ \A c \in Callers : ~At(c, "given")
    /\ permits' = Older(permits) /\ sent' = Older(sent)
    /\ cache' = [t \in Titles |-> [cache[t] EXCEPT !.left = IF @ > 0 THEN @ - 1 ELSE 0]]
    /\ over' = [x \in DOMAIN over |->
          IF x[2] < data[x[1]] /\ over[x] <= Ttl THEN over[x] + 1 ELSE over[x]]
    /\ UNCHANGED <<data, holder, call, key, conf, begun>>

Serve(c) ==
    \/ Permit(c) \/ Wake(c) \/ Give(c) \/ Receive(c) \/ RequestFails(c) \/ Retry(c)

Next ==
    \/ \E c \in Callers : Serve(c) \/ \E t \in Titles : Ask(c, t)
    \/ ClearCache \/ Tick
    \/ \E k \in ApiKeys : Configure(k)
    \/ \E t \in Titles : Changes(t)

Spec == Init /\ [][Next]_vars

(* The event loop gives each call its turns, and hands the lock to those    *)
(* that wait for it in order; time passes.                                  *)
Fairness ==
    /\ \A c \in Callers :
          /\ WF_vars(Wake(c)) /\ WF_vars(Retry(c)) /\ WF_vars(Receive(c))
          /\ WF_vars(Give(c) \/ RequestFails(c)) /\ SF_vars(Permit(c))
    /\ WF_vars(Tick)

LiveSpec == Spec /\ Fairness

-----------------------------------------------------------------------------
(* No more requests than MaxRequests are sent within the time of a window,  *)
(* retries included, whoever they are for (tmdb_service.py:150-168).        *)
WithinRate == Len(sent) <= MaxRequests

(* A cached answer is never served for longer than Ttl after TMDB gave      *)
(* another one, whichever of several answers was stored last                *)
(* (tmdb_service.py:269-287).                                               *)
AnswersFresh ==
    \A t \in Titles : cache[t].left > 0 => over[t, cache[t].v] + cache[t].left <= Ttl

(* A lookup ends, with an answer or an error: "获取请求许可", a permit is   *)
(* obtained (tmdb_service.py:151).  Not kept: who finds the limit reached   *)
(* keeps the lock, and with it everybody, for ever.                         *)
LookupEnds == \A c \in Callers : ~At(c, "idle") ~> At(c, "idle")

(* Not kept either: requests are sent with the key that is configured.      *)
KeyFollows == key # NoKey => key = conf
=============================================================================
