----------------------------- MODULE MultiLevelLRU ---------------------------
(****************************************************************************)
(* MultiLevelLRUCache (app/core/lru_cache.py): a small cache with a short   *)
(* ttl before a large one with a long ttl.  The lock makes each call a step.*)
(*                                                                          *)
(* A value is the number of the set that wrote it and the time since then.  *)
(****************************************************************************)
EXTENDS LRU

CONSTANTS
    Keys,
    L1Max, L2Max, L1Ttl, L2Ttl,
    MaxSets      \* bound: different values

LevelAssumption ==
    /\ L1Max \in Nat \ {0} /\ L2Max \in Nat \ {0}
    /\ L1Ttl \in Nat /\ L2Ttl \in Nat

VARIABLES
    l1, l2,      \* l1_cache and l2_cache
    used         \* the keys in the order in which l1_cache has last used them

vars == <<l1, l2, used>>

(* A value's own age is counted until it is beyond every limit.             *)
Eldest == L1Ttl + L2Ttl + 1
Value  == [n : 1 .. MaxSets, age : 0 .. Eldest]
Entries(ttl) == [key : Keys, val : Value, age : 0 .. (ttl + 1)]

TypeOK ==
    /\ l1 \in Seq(Entries(L1Ttl)) /\ Len(l1) <= L1Max
    /\ l2 \in Seq(Entries(L2Ttl)) /\ Len(l2) <= L2Max
    /\ \A c \in {l1, l2} : \A i, j \in DOMAIN c : c[i].key = c[j].key => i = j
    /\ used \in Seq(Keys)

Init == l1 = <<>> /\ l2 = <<>> /\ used = <<>>

Used(k) == Append(SelectSeq(used, LAMBDA x : x # k), k)

(* Wrong on purpose: what is promoted is renewed in both.                   *)
PromotedTwice(k) ==
    /\ l1' = Write(Read(l1, k, L1Ttl), k, Lookup(l2, k).val, L1Max)
    /\ l2' = Write(l2, k, Lookup(l2, k).val, L2Max)

(* A hit in l2 is set in l1, where its time begins anew.                    *)
Promoted(k) ==
    /\ l1' = Write(Read(l1, k, L1Ttl), k, Lookup(l2, k).val, L1Max)
    /\ l2' = Read(l2, k, L2Ttl)

get(k) ==
    \/ /\ Readable(l1, k, L1Ttl)
       /\ l1' = Read(l1, k, L1Ttl)
       /\ used' = Used(k)
       /\ UNCHANGED l2
    \/ /\ ~Readable(l1, k, L1Ttl) /\ Readable(l2, k, L2Ttl)
       /\ Promoted(k)
       /\ used' = Used(k)
    \/ /\ ~Readable(l1, k, L1Ttl) /\ ~Readable(l2, k, L2Ttl)
       /\ l1' = Read(l1, k, L1Ttl)
       /\ l2' = Read(l2, k, L2Ttl)
       /\ UNCHANGED used

(* Wrong on purpose: what l1 holds already is left there.                   *)
WrittenIfHeld(k, v) ==
    /\ l1' = IF Readable(l1, k, L1Ttl) THEN l1 ELSE Write(l1, k, v, L1Max)
    /\ l2' = Write(l2, k, v, L2Max)

Written(k, v) ==
    /\ l1' = Write(l1, k, v, L1Max)
    /\ l2' = Write(l2, k, v, L2Max)

set(k) ==
    /\ \E n \in 1 .. MaxSets : Written(k, [n |-> n, age |-> 0])
    /\ used' = Used(k)

Grown(c, ttl) ==
    LET o == Older(c, ttl) IN
    [i \in DOMAIN o |-> [o[i] EXCEPT !.val.age = IF @ = Eldest THEN @ ELSE @ + 1]]

Tick ==
    /\ l1' = Grown(l1, L1Ttl)
    /\ l2' = Grown(l2, L2Ttl)
    /\ UNCHANGED used

cleanup_expired ==
    /\ l1' = Cleaned(l1, L1Ttl)
    /\ l2' = Cleaned(l2, L2Ttl)
    /\ UNCHANGED used

Next ==
    \/ \E k \in Keys : get(k) \/ set(k)
    \/ Tick \/ cleanup_expired

Spec == Init /\ [][Next]_vars

-----------------------------------------------------------------------------
(* However often a value goes from one level to the other, it is not read   *)
(* after both times together have passed.                                   *)
AgeBound ==
    \A k \in Keys :
        /\ Readable(l1, k, L1Ttl) => Lookup(l1, k).val.age <= L1Ttl + L2Ttl
        /\ Readable(l2, k, L2Ttl) => Lookup(l2, k).val.age <= L2Ttl

(* Where both levels hold a key they hold the same value of it.             *)
SameValue ==
    \A k \in Keys : Holds(l1, k) /\ Holds(l2, k) =>
        Lookup(l1, k).val.n = Lookup(l2, k).val.n

Place(k) == SelectInSeq(used, LAMBDA x : x = k)

(* A key leaves l1 unexpired only to make room for another when it is full, *)
(* as the one that has not been used for longest.                           *)
LeastRecent ==
    \A k \in Keys : Readable(l1, k, L1Ttl) /\ ~Holds(l1', k) =>
        /\ Len(l1) = L1Max /\ Len(l1') = L1Max
        /\ \A m \in Keys : Holds(l1, m) => Place(k) <= Place(m)

(* The first level holds its keys in the order of their last use.           *)
OldestFirst == \A i, j \in DOMAIN l1 : i < j => Place(l1[i].key) < Place(l1[j].key)
=============================================================================
