----------------------------- MODULE StreamProxy -----------------------------
(****************************************************************************)
(* The local proxy of a file's stream (app/api/proxy.py, proxy_stream_by_   *)
(* file_id) with the cache of first segments (app/services/first_segment_   *)
(* cache_service.py).  A request asks for the download or for the           *)
(* transcoding; where its link fails, the other one is taken.               *)
(*                                                                          *)
(* A request holds resources: the Quark service while it looks for a link,  *)
(* a session while it primes the cache, another one while it streams.       *)
(****************************************************************************)
EXTENDS Naturals, FiniteSets

CONSTANTS
    Callers,
    None,
    SegmentTtl

Sources == {"download", "transcoding"}

Other(s) == IF s = "download" THEN "transcoding" ELSE "download"

(* A first segment's range, any other GET, a HEAD                           *)
Kinds == {"first", "rest", "head"}

StreamAssumption == SegmentTtl \in Nat \ {0}

VARIABLES
    segments,   \* _entries: what the segment was read from, and its time left
    call,       \* each request: where it is, what it asks for and has a link to
    open,       \* what each request has open
    kept        \* kinds and places of requests that ended with something open

vars == <<segments, call, open, kept>>

NoSegment == [from |-> None, left |-> 0]

Idle == [at |-> "idle", kind |-> None, want |-> None, got |-> None]

Places == {"resolve", "prime", "open", "reopen", "start", "stream"}

TypeOK ==
    /\ segments \in [Sources -> [from : Sources \cup {None}, left : 0 .. SegmentTtl]]
    /\ call \in [Callers -> [at : Places \cup {"idle"},
                             kind : Kinds \cup {None},
                             want : Sources \cup {None}, got : Sources \cup {None}]]
    /\ open \in [Callers -> SUBSET {"service", "primer", "session"}]
    /\ kept \subseteq Kinds \X Places

Init ==
    /\ segments = [s \in Sources |-> NoSegment]
    /\ call = [c \in Callers |-> Idle]
    /\ open = [c \in Callers |-> {}]
    /\ kept = {}

-----------------------------------------------------------------------------
Holds(c, things) == open' = [open EXCEPT ![c] = things]

(* The request c ends with what it still has open.                          *)
Ends(c, things) ==
    /\ call' = [call EXCEPT ![c] = Idle]
    /\ Holds(c, {})
    /\ kept' = IF things = {} THEN kept ELSE kept \cup {<<call[c].kind, call[c].at>>}

Moves(c, place, things) ==
    /\ call' = [call EXCEPT ![c] = [call[c] EXCEPT !.at = place]]
    /\ Holds(c, things)
    /\ UNCHANGED kept

(* proxy_stream_by_file_id                                                  *)
Begin(c, kind, want) ==
    /\ call[c].at = "idle"
    /\ call' = [call EXCEPT ![c] = [at |-> "resolve", kind |-> kind, want |-> want, got |-> want]]
    /\ Holds(c, {"service"})
    /\ UNCHANGED <<segments, kept>>

(* _resolve_stream_link: the link asked for fails, the other is tried.      *)
LinkFails(c) ==
    /\ call[c].at = "resolve" /\ call[c].got = call[c].want
    /\ call' = [call EXCEPT ![c].got = Other(@)]
    /\ UNCHANGED <<segments, open, kept>>

(* Neither link is found, or the validator refuses the one that is: the     *)
(* finally closes the service.                                              *)
NoLink(c) ==
    /\ call[c].at = "resolve"
    /\ Ends(c, open[c] \ {"service"})
    /\ UNCHANGED segments

Cached(s) == segments[s].left > 0

(* A link is found; a first segment comes from the cache, or is to be read  *)
(* into it, or the cached one is shorter than the range asked for.          *)
LinkFound(c) ==
    LET k == call[c].kind  wanted == call[c].want  rest == open[c] \ {"service"} IN
    /\ call[c].at = "resolve"
    /\ \/ k = "first" /\ Cached(wanted) /\ Ends(c, rest)
       \/ k = "first" /\ ~Cached(wanted) /\ Moves(c, "prime", rest \cup {"primer"})
       \/ (k # "first" \/ Cached(wanted)) /\ Moves(c, "open", rest \cup {"session"})
    /\ UNCHANGED segments

-----------------------------------------------------------------------------
(* _prime_first_segment_cache: it is kept under the source asked for.       *)
Primed(c) ==
    /\ call[c].at = "prime"
    /\ segments' = [segments EXCEPT ![call[c].want] = [from |-> call[c].got, left |-> SegmentTtl]]
    /\ \/ Ends(c, open[c] \ {"primer"})
       \/ Moves(c, "open", (open[c] \ {"primer"}) \cup {"session"})

(* Upstream says no or has no bytes, and the request is streamed; or it     *)
(* breaks off, and the request fails.                                       *)
NotPrimed(c) ==
    /\ call[c].at = "prime"
    /\ \/ Moves(c, "open", (open[c] \ {"primer"}) \cup {"session"})
       \/ Ends(c, open[c] \ {"primer"})
    /\ UNCHANGED segments

-----------------------------------------------------------------------------
(* Wrong on purpose: a refusal that is raised leaves the session.           *)
LeftOpen(things) == things

(* _stream_from_url, on its way out by an exception                         *)
Closed(things) == things \ {"session"}

(* A HEAD whose redirect has too long a line is asked again as a GET.       *)
TooLong(c) ==
    /\ call[c].at = "open" /\ call[c].kind = "head"
    /\ Moves(c, "reopen", open[c])
    /\ UNCHANGED segments

(* Upstream answers with an error, or not at all.                           *)
Refused(c) ==
    /\ call[c].at \in {"open", "reopen"}
    /\ Ends(c, Closed(open[c]))
    /\ UNCHANGED segments

(* A HEAD is answered at once, and nothing closes its session.              *)
HeadAnswered(c) ==
    /\ call[c].at \in {"open", "reopen"} /\ call[c].kind = "head"
    /\ Ends(c, open[c])
    /\ UNCHANGED segments

Streams(c) ==
    /\ call[c].at = "open" /\ call[c].kind # "head"
    /\ Moves(c, "start", open[c])
    /\ UNCHANGED segments

(* The body's generator is taken up, and with it the finally that closes    *)
(* the session; a player that is gone by then leaves it unclosed.           *)
Starts(c) ==
    /\ call[c].at = "start"
    /\ Moves(c, "stream", open[c])
    /\ UNCHANGED segments

LeavesEarly(c) ==
    /\ call[c].at = "start"
    /\ Ends(c, open[c])
    /\ UNCHANGED segments

(* iter_stream ends: with the file, with an error, or with its player.      *)
Streamed(c) ==
    /\ call[c].at = "stream"
    /\ Ends(c, Closed(open[c]))
    /\ UNCHANGED segments

-----------------------------------------------------------------------------
Tick ==
    /\ segments' = [s \in Sources |->
          IF segments[s].left <= 1 THEN NoSegment ELSE [segments[s] EXCEPT !.left = @ - 1]]
    /\ UNCHANGED <<call, open, kept>>

(* POST /cache/clear                                                        *)
clear ==
    /\ segments' = [s \in Sources |-> NoSegment]
    /\ UNCHANGED <<call, open, kept>>

Next ==
    \/ Tick \/ clear
    \/ \E c \in Callers, k \in Kinds, s \in Sources : Begin(c, k, s)
    \/ \E c \in Callers :
         \/ LinkFails(c) \/ NoLink(c) \/ LinkFound(c) \/ Primed(c) \/ NotPrimed(c)
         \/ TooLong(c) \/ Refused(c) \/ HeadAnswered(c) \/ Streams(c)
         \/ Starts(c) \/ LeavesEarly(c) \/ Streamed(c)

Spec == Init /\ [][Next]_vars

-----------------------------------------------------------------------------
(* Whatever way a request ends, it has closed the service and the sessions  *)
(* it opened, but for two: a HEAD that is answered, and a player that is    *)
(* gone before the first byte.                                              *)
AllClosed == \A way \in kept : way[1] = "head" \/ way[2] = "start"

(* Claimed by the key of a first segment, "file:source"                     *)
(* (app/api/proxy.py:99): that it is a segment of that source.  The code    *)
(* does not keep it, as the segment of the other source is kept under it    *)
(* where the source's own link failed.                                      *)
SegmentOfSource == \A s \in Sources : segments[s].from \in {None, s}
=============================================================================
