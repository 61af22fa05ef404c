------------------------------ MODULE RateLimiter ----------------------------
(****************************************************************************)
(* RateLimiter (app/core/rate_limiter.py): for each client and kind of      *)
(* request a list of times and a block.  A check runs without awaits.       *)
(*                                                                          *)
(* Times are ages: how long ago a request was, how long a block will last,  *)
(* how long ago the last clean-up was.                                      *)
(****************************************************************************)
EXTENDS Naturals, Sequences, FiniteSets, SequencesExt

CONSTANTS
    Clients,             \* buckets: a client's reads, or its other requests
    Requests, Seconds,   \* the limit, and the window it is for
    Block,               \* block_duration
    CleanupInterval

LimiterAssumption ==
    {Requests, Seconds, Block, CleanupInterval} \subseteq Nat \ {0}

VARIABLES
    state,      \* _client_states: unknown, or times and block
    cleaned,    \* time since _last_cleanup
    allowed     \* the requests that were let through, by their ages, up to a window

vars == <<state, cleaned, allowed>>

(* An age that lies outside every window is as good as any other one.       *)
Ages == 0 .. Seconds

TypeOK ==
    /\ state \in [Clients -> [known : BOOLEAN, times : Seq(Ages), blocked : 0 .. Block]]
    /\ \A c \in Clients : Len(state[c].times) <= Requests
    /\ cleaned \in 0 .. CleanupInterval
    /\ allowed \in [Clients -> Seq(0 .. (Seconds - 1))]

NewState == [known |-> FALSE, times |-> <<>>, blocked |-> 0]

Init ==
    /\ state = [c \in Clients |-> NewState]
    /\ cleaned = 0
    /\ allowed = [c \in Clients |-> <<>>]

-----------------------------------------------------------------------------
(* Wrong on purpose: a client whose block is over is forgotten.             *)
ForgettableUnblocked(s) == s.known /\ s.blocked = 0

Forgettable(s) == s.known /\ s.blocked = 0 /\ s.times = <<>>

(* _cleanup_if_needed                                                       *)
Kept ==
    IF cleaned < CleanupInterval THEN state
    ELSE [c \in Clients |-> IF Forgettable(state[c]) THEN NewState ELSE state[c]]

(* Wrong on purpose: the age of a window is counted in.                     *)
RecentOrOn(times) == SelectSeq(times, LAMBDA t : t <= Seconds)

Recent(times) == SelectSeq(times, LAMBDA t : t < Seconds)

(* _check_rate_limit                                                        *)
Refused(c) ==
    /\ Kept[c].blocked > 0
    /\ state' = [Kept EXCEPT ![c].known = TRUE]
    /\ UNCHANGED allowed

Blocked(c) ==
    /\ Kept[c].blocked = 0
    /\ Len(Recent(Kept[c].times)) >= Requests
    /\ state' = [Kept EXCEPT ![c] = [known |-> TRUE, times |-> Recent(@.times),
                                     blocked |-> Block]]
    /\ UNCHANGED allowed

Allowed(c) ==
    /\ Kept[c].blocked = 0
    /\ Len(Recent(Kept[c].times)) < Requests
    /\ state' = [Kept EXCEPT ![c] = [known |-> TRUE, times |-> Append(Recent(@.times), 0),
                                     blocked |-> 0]]
    /\ allowed' = [allowed EXCEPT ![c] = Append(@, 0)]

_check_rate_limit(c) ==
    /\ Refused(c) \/ Blocked(c) \/ Allowed(c)
    /\ cleaned' = IF cleaned < CleanupInterval THEN cleaned ELSE 0

Aged(times, max) == [i \in DOMAIN times |-> IF times[i] = max THEN max ELSE times[i] + 1]

Tick ==
    /\ state' = [c \in Clients |->
          [state[c] EXCEPT !.times = Aged(@, Seconds), !.blocked = IF @ = 0 THEN 0 ELSE @ - 1]]
    /\ cleaned' = IF cleaned = CleanupInterval THEN cleaned ELSE cleaned + 1
    /\ allowed' = [c \in Clients |->
          Aged(SelectSeq(allowed[c], LAMBDA t : t < Seconds - 1), Seconds)]

Next == Tick \/ \E c \in Clients : _check_rate_limit(c)

Spec == Init /\ [][Next]_vars

-----------------------------------------------------------------------------
(* In no window of time are more requests let through than the limit, with  *)
(* blocks and clean-ups in between.                                         *)
WithinLimit == \A c \in Clients : Len(allowed[c]) <= Requests

(* A request is turned away only from a client that has lately been let     *)
(* through as often as the limit says, or that is blocked for that.         *)
RefusedForReason ==
    \A c \in Clients : state'[c].blocked = Block /\ state[c].blocked = 0 =>
       Len(allowed[c]) = Requests
=============================================================================
