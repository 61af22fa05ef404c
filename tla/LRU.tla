--------------------------------- MODULE LRU ---------------------------------
(****************************************************************************)
(* LRUCache (app/core/lru_cache.py) as operators on its OrderedDict: a      *)
(* sequence of entries, the least recently used first.  Every method holds  *)
(* the lock of its cache, and is one step wherever it is used.              *)
(*                                                                          *)
(* age is the time since an entry was set; it is expired when that exceeds  *)
(* its ttl.                                                                 *)
(****************************************************************************)
EXTENDS Naturals, Sequences, SequencesExt

Entry(k, v) == [key |-> k, val |-> v, age |-> 0]

Holds(c, k)       == \E i \in DOMAIN c : c[i].key = k
Lookup(c, k)      == c[SelectInSeq(c, LAMBDA e : e.key = k)]
Expired(e, ttl)   == e.age > ttl
Readable(c, k, ttl) == Holds(c, k) /\ ~Expired(Lookup(c, k), ttl)

Without(c, k) == SelectSeq(c, LAMBDA e : e.key # k)

(* delete                                                                   *)
Deleted(c, k) == Without(c, k)

(* Wrong on purpose: reading does not count as a use.                       *)
ReadInPlace(c, k, ttl) ==
    IF Holds(c, k) /\ Expired(Lookup(c, k), ttl) THEN Without(c, k) ELSE c

(* get, and the in operator: what is read moves to the end, what is found   *)
(* expired goes.                                                            *)
Read(c, k, ttl) ==
    CASE ~Holds(c, k)        -> c
      [] Readable(c, k, ttl) -> Append(Without(c, k), Lookup(c, k))
      [] OTHER               -> Without(c, k)

(* Wrong on purpose: one entry too many fits.                               *)
WriteOver(c, k, v, maxsize) ==
    LET rest == Without(c, k) IN
    Append(IF Len(rest) > maxsize THEN Tail(rest) ELSE rest, Entry(k, v))

(* set                                                                      *)
Write(c, k, v, maxsize) ==
    LET rest == Without(c, k) IN
    Append(IF Len(rest) >= maxsize THEN Tail(rest) ELSE rest, Entry(k, v))

(* cleanup_expired                                                          *)
Cleaned(c, ttl) == SelectSeq(c, LAMBDA e : ~Expired(e, ttl))

(* The clock, which stops when an entry has expired.                        *)
Older(c, ttl) ==
    [i \in DOMAIN c |-> [c[i] EXCEPT !.age = IF @ > ttl THEN @ ELSE @ + 1]]
=============================================================================
