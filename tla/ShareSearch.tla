------------------------------- MODULE ShareSearch --------------------------
(****************************************************************************)
(* QuarkSizeFetcher (app/services/quark_size_fetcher.py): the size of a     *)
(* share of Quark, which is the sum of its files, found by listing its      *)
(* folders page by page, and kept for an hour.  Every request is a step,    *)
(* and so is every item of the first folder, which may need requests.       *)
(****************************************************************************)
EXTENDS Naturals, Sequences, FiniteSets, FiniteSetsExt, Integers, SequencesExt

CONSTANTS
    Callers,        \* searches under way
    Slots,          \* max_concurrent
    Files, Folders, Root,   \* external: what is shared; Root is its first folder
    Inside,         \* external: the items of each folder, in their order
    Size,           \* external: of each file
    PageSize,       \* 100
    MaxDepth,       \* max_depth, 10
    Ttl             \* ttl_seconds

SizesAssumption ==
    /\ {Slots, PageSize, Ttl} \subseteq Nat \ {0} /\ MaxDepth \in Nat
    /\ Root \in Folders /\ Files \cap Folders = {}
    /\ Inside \in [Folders -> Seq(Files \cup Folders)]
    /\ Size \in [Files -> Nat]

VARIABLES
    job,            \* the call of get_share_size of each caller
    kept            \* _cache: the size and its age; history: what it is the sum of

vars == <<job, kept>>

Nothing == [sum |-> 0, age |-> Ttl + 1, files |-> {}, whole |-> FALSE]
NoFolder == [f |-> Root, depth |-> 0, page |-> 0]

Idle == [at |-> "idle", page |-> 1, items |-> <<>>, stack |-> <<>>, now |-> NoFolder,
         seen |-> {}, sum |-> 0, files |-> {}, whole |-> TRUE]

Ats == {"idle", "waiting", "token", "list", "items", "folder"}

TypeOK ==
    /\ \A c \in Callers :
          /\ job[c].at \in Ats /\ job[c].page \in Nat \ {0}
          /\ job[c].seen \subseteq Folders /\ job[c].files \subseteq Files
          /\ job[c].sum \in Nat /\ job[c].whole \in BOOLEAN
    /\ kept.sum \in Nat /\ kept.age \in 0 .. Ttl + 1

Init ==
    /\ job = [c \in Callers |-> Idle]
    /\ kept = Nothing

-----------------------------------------------------------------------------
At(c, at) == job[c].at = at
Sum(fs)   == MapThenSumSet(LAMBDA f : Size[f], fs)

(* A page of a folder.                                                      *)
Page(f, n) ==
    LET to == n * PageSize
    IN  SubSeq(Inside[f], to - PageSize + 1, IF to < Len(Inside[f]) THEN to ELSE Len(Inside[f]))

(* get_share_size: what is kept is answered, if it is not too old.          *)
Ask(c) ==
    /\ At(c, "idle")
    /\ kept.age > Ttl
    /\ job' = [job EXCEPT ![c].at = "waiting"]
    /\ UNCHANGED kept

Working == {c \in Callers : ~At(c, "idle") /\ ~At(c, "waiting")}

Enter(c) ==
    /\ At(c, "waiting")
    /\ Cardinality(Working) < Slots
    /\ job' = [job EXCEPT ![c].at = "token"]
    /\ UNCHANGED kept

TokenGiven(c) ==
    /\ At(c, "token")
    /\ job' = [job EXCEPT ![c].at = "list"]
    /\ UNCHANGED kept

(* No token, no answer, or an exception while the first folder is listed.   *)
GivesUp(c) ==
    /\ At(c, "token") \/ At(c, "list")
    /\ job' = [job EXCEPT ![c] = Idle]
    /\ UNCHANGED kept

(* The sum is kept, whatever has been missed.                               *)
Finish(c) ==
    /\ kept' = [sum |-> job[c].sum, age |-> 0, files |-> job[c].files, whole |-> job[c].whole]
    /\ job' = [job EXCEPT ![c] = Idle]

PageListed(c) ==
    /\ At(c, "list")
    /\ LET items == Page(Root, job[c].page) IN
       IF items = <<>> THEN Finish(c)
       ELSE job' = [job EXCEPT ![c].at = "items", ![c].items = items] /\ UNCHANGED kept

(* Quark refuses a page: what has been counted so far is the size.          *)
PageRefused(c) ==
    /\ At(c, "list")
    /\ kept' = [sum |-> job[c].sum, age |-> 0, files |-> job[c].files, whole |-> FALSE]
    /\ job' = [job EXCEPT ![c] = Idle]

(* Wrong on purpose: a full page is taken for the last one.                 *)
FullIsLast(n) == Len(Page(Root, n)) <= PageSize

(* Is the page of the first folder the last one?                            *)
LastPage(n) == Len(Page(Root, n)) >= Len(Inside[Root]) \/ Len(Page(Root, n)) < PageSize

CountItem(c) ==
    /\ At(c, "items") /\ job[c].items # <<>>
    /\ LET i == Head(job[c].items) IN
       job' = [job EXCEPT ![c] =
          IF i \in Files
          THEN [@ EXCEPT !.items = Tail(@), !.sum = @ + Size[i], !.files = @ \cup {i}]
          ELSE [@ EXCEPT !.items = Tail(@), !.at = "folder", !.seen = {},
                         !.stack = <<[NoFolder EXCEPT !.f = i]>>]]
    /\ UNCHANGED kept

PageDone(c) ==
    /\ At(c, "items") /\ job[c].items = <<>>
    /\ IF LastPage(job[c].page) THEN Finish(c)
       ELSE job' = [job EXCEPT ![c].at = "list", ![c].page = @ + 1] /\ UNCHANGED kept

-----------------------------------------------------------------------------
(* _get_folder_size: a stack of folders and their depths.                   *)
InFolder(c) == At(c, "folder") /\ job[c].now.page > 0

(* Wrong on purpose: the deepest folders are left out.                      *)
PopTooShallow(c) ==
    LET top  == job[c].stack[Len(job[c].stack)]
        rest == SubSeq(job[c].stack, 1, Len(job[c].stack) - 1)
    IN  IF top.depth >= MaxDepth \/ top.f \in job[c].seen
        THEN [job[c] EXCEPT !.stack = rest]
        ELSE [job[c] EXCEPT !.stack = rest, !.seen = @ \cup {top.f}, !.now = [top EXCEPT !.page = 1]]

(* The next folder, unless it is too deep or has been listed.               *)
Pop(c) ==
    LET top == job[c].stack[Len(job[c].stack)]
        rest == SubSeq(job[c].stack, 1, Len(job[c].stack) - 1)
    IN  IF top.depth > MaxDepth \/ top.f \in job[c].seen
        THEN [job[c] EXCEPT !.stack = rest]
        ELSE [job[c] EXCEPT !.stack = rest, !.seen = @ \cup {top.f}, !.now = [top EXCEPT !.page = 1]]

PopFolder(c) ==
    /\ At(c, "folder") /\ ~InFolder(c)
    /\ job' = [job EXCEPT ![c] =
          IF job[c].stack = <<>> THEN [@ EXCEPT !.at = "items"] ELSE Pop(c)]
    /\ UNCHANGED kept

Pushed(stack, items, seen, depth) ==
    LET subs == SelectSeq(items, LAMBDA i : i \in Folders \ seen)
    IN  stack \o [n \in DOMAIN subs |-> [f |-> subs[n], depth |-> depth, page |-> 0]]

Counted(items) == {items[n] : n \in DOMAIN items} \cap Files

FolderListed(c) ==
    /\ InFolder(c)
    /\ LET now   == job[c].now
           items == Page(now.f, now.page)
       IN  job' = [job EXCEPT ![c] = [@ EXCEPT
              !.sum = @ + Sum(Counted(items)), !.files = @ \cup Counted(items),
              !.stack = Pushed(@, items, job[c].seen, now.depth + 1),
              !.now = IF Len(items) < PageSize THEN NoFolder ELSE [@ EXCEPT !.page = @ + 1]]]
    /\ UNCHANGED kept

(* A page is refused or gets lost: the rest of its folder is left out.      *)
FolderFails(c) ==
    /\ InFolder(c)
    /\ job' = [job EXCEPT ![c].now = NoFolder, ![c].whole = FALSE]
    /\ UNCHANGED kept

Tick ==
    /\ kept.age <= Ttl
    /\ kept' = [kept EXCEPT !.age = @ + 1]
    /\ UNCHANGED job

Clear == kept' = Nothing /\ UNCHANGED job

Next ==
    \/ \E c \in Callers :
          \/ Ask(c) \/ Enter(c) \/ TokenGiven(c) \/ GivesUp(c)
          \/ PageListed(c) \/ PageRefused(c) \/ CountItem(c) \/ PageDone(c)
          \/ PopFolder(c) \/ FolderListed(c) \/ FolderFails(c)
    \/ Tick \/ Clear

Spec == Init /\ [][Next]_vars

-----------------------------------------------------------------------------
(* The folders at most so deep below those of the first one.                *)
Below(fs) == UNION {{Inside[f][n] : n \in DOMAIN Inside[f]} : f \in fs} \cap Folders
Reached[d \in Nat] == IF d = 0 THEN Below({Root}) ELSE Reached[d - 1] \cup Below(Reached[d - 1])

All == Counted(Inside[Root]) \cup UNION {Counted(Inside[f]) : f \in Reached[MaxDepth]}

(* The size that is kept counts no file twice, and if every page has been   *)
(* answered none is missing down to the depth (quark_size_fetcher.py:       *)
(* 192-230, 263-322).                                                       *)
EachFileOnce ==
    kept # Nothing =>
        /\ kept.sum = Sum(kept.files)
        /\ kept.whole => kept.files = All

(* Not kept: a part of a size is kept for an hour like a whole one, when a  *)
(* page has failed (205-206, 297-298, 318-320).                             *)
KeptIsWhole == kept # Nothing => kept.whole

-----------------------------------------------------------------------------
(****************************************************************************)
(* ResourceSearchService (app/services/search_service.py): shares that      *)
(* PanSou finds, filtered by size, sorted and handed out page by page.  The *)
(* service keeps nothing: each page asks PanSou anew, and what the reader   *)
(* puts together of the pages is whatever they were cut from.               *)
(*                                                                          *)
(* Sizes are found by QuarkSizeFetcher, which keeps those it has got; any   *)
(* of the others may be missing from an answer.                             *)
(****************************************************************************)
CONSTANTS
    Offers,         \* external: PanSou's answers, sequences of results
    TopN,           \* whose sizes are looked at: 20
    PageSizes, MinSizes, MinScore, MinConfidence

NoDate == -1        \* external: a share without a date

Result == [id : STRING, cloud : {"quark", "other"}, score : Nat, confidence : Nat,
           date : Nat \cup {NoDate}, size : Nat]

SearchAssumption ==
    /\ TopN \in Nat \ {0} /\ PageSizes \subseteq Nat \ {0} /\ MinSizes \subseteq Nat
    /\ {MinScore, MinConfidence} \subseteq Nat
    /\ \A o \in Offers : o \in Seq(Result) /\ IsInjective([i \in DOMAIN o |-> o[i].id])

VARIABLES
    offer,          \* what PanSou answers now
    got,            \* the shares whose sizes the fetcher keeps
    reader          \* somebody who reads on as long as has_more says so

searchVars == <<offer, got, reader>>

Ids   == UNION {{o[i].id : i \in DOMAIN o} : o \in Offers}
Wants == [size : PageSizes, min : MinSizes, by : {"score", "time", "size", "none"}, filtered : BOOLEAN]

NoWant == [size |-> 0, min |-> 0, by |-> "none", filtered |-> FALSE]
NoReader == [wants |-> NoWant, page |-> 0, seen |-> <<>>, over |-> TRUE, error |-> FALSE,
             total |-> 0, of |-> <<>>, with |-> {}, steady |-> TRUE]

SearchTypeOK ==
    /\ offer \in Offers /\ got \subseteq Ids
    /\ reader.wants \in Wants \cup {NoWant} /\ reader.page \in Nat /\ reader.total \in Nat
    /\ reader.of \in Offers \cup {<<>>} /\ reader.with \subseteq Ids
    /\ {reader.over, reader.error, reader.steady} \subseteq BOOLEAN

SearchInit == offer \in Offers /\ got = {} /\ reader = NoReader

-----------------------------------------------------------------------------
(* sorted(..., reverse=True), which leaves equal results in their order.    *)
Ranked(rs, keys) ==
    LET Precedes(i, j) == keys[i] > keys[j] \/ (keys[i] = keys[j] /\ i < j)
        order == SetToSortSeq(DOMAIN rs, Precedes)
    IN  [i \in DOMAIN rs |-> rs[order[i]]]

(* The results whose sizes are looked at.                                   *)
Top(rs) ==
    LET ours == SelectSeq(rs, LAMBDA r : r.cloud = "quark")
        best == Ranked(ours, [i \in DOMAIN ours |-> ours[i].score])
    IN  {best[i] : i \in 1 .. Len(best) \cap 1 .. TopN}

(* batch_get_sizes: only what is large enough is in its answer.             *)
LargeEnough(rs, known, min) ==
    IF min = 0 THEN {} ELSE {r \in Top(rs) : r.id \in known /\ r.size >= min}

(* Wrong on purpose: results that were not looked at go as well.            *)
FilterAll(rs, known, min) ==
    IF min = 0 THEN rs
    ELSE SelectSeq(rs, LAMBDA r : r.cloud = "other" \/ r \in LargeEnough(rs, known, min))

(* _apply_size_filter                                                       *)
Filter(rs, known, min) ==
    LET large == LargeEnough(rs, known, min) IN
    IF min = 0 THEN rs
    ELSE SelectSeq(rs, LAMBDA r : r \notin Top(rs) \/ r \in large \/ large = {})

(* What _sort_results sorts by; a result has a size if the filter put it in.*)
KeyOf(r, rs, known, wants) ==
    CASE wants.by = "score" -> r.score
      [] wants.by = "time"  -> r.date
      [] wants.by = "size"  -> IF r \in LargeEnough(rs, known, wants.min) THEN r.size ELSE 0
      [] OTHER              -> 0

Sorted(rs, known, wants) ==
    LET left == Filter(rs, known, wants.min)
    IN  Ranked(left, [i \in DOMAIN left |-> KeyOf(left[i], rs, known, wants)])

(* Sorting by date raises if there is a result without one beside another.  *)
SortRaises(rs, known, wants) ==
    LET left == Filter(rs, known, wants.min)
    IN  wants.by = "time" /\ Len(left) > 1 /\ \E i \in DOMAIN left : left[i].date = NoDate

(* search_with_filters, which filters the page that search has cut.         *)
Good(r) == r.score >= MinScore /\ r.confidence >= MinConfidence

Shown(cut, wants) == IF wants.filtered THEN SelectSeq(cut, Good) ELSE cut

(* Wrong on purpose: pages are counted from 0.                              *)
CutFromZero(all, page, size) ==
    SubSeq(all, page * size + 1, IF page * size + size < Len(all) THEN page * size + size ELSE Len(all))

Cut(all, page, size) ==
    SubSeq(all, (page - 1) * size + 1, IF page * size < Len(all) THEN page * size ELSE Len(all))

-----------------------------------------------------------------------------
AskPage(wants) ==
    /\ reader.over
    /\ reader' = [NoReader EXCEPT !.wants = wants, !.page = 1, !.over = FALSE]
    /\ UNCHANGED <<offer, got>>

(* The sizes that are got of those that are asked for.                      *)
Fetched(new) ==
    IF reader.wants.min = 0 THEN new = {} ELSE new \subseteq {r.id : r \in Top(offer)} \ got

PageAnswered(new) ==
    LET known == got \cup new
        wants == reader.wants
        all   == Sorted(offer, known, wants)
        shown == Shown(Cut(all, reader.page, wants.size), wants)
        ids   == {r.id : r \in LargeEnough(offer, known, wants.min)}
    IN
    /\ ~reader.over /\ Fetched(new) /\ ~SortRaises(offer, known, wants)
    /\ got' = known
    /\ reader' = [reader EXCEPT
          !.page = @ + 1, !.error = FALSE, !.seen = @ \o shown,
          !.over = ~(reader.page * wants.size < Len(all)),
          !.total = IF wants.filtered THEN Len(shown) ELSE Len(all),
          !.of = IF reader.page = 1 THEN offer ELSE @,
          !.with = IF reader.page = 1 THEN ids ELSE @,
          !.steady = (reader.page = 1 \/ (@ /\ reader.of = offer /\ reader.with = ids))]
    /\ UNCHANGED offer

(* PanSou is not there or refuses, or sorting raises: an error, and no page.*)
PageFails ==
    /\ ~reader.over
    /\ reader' = [reader EXCEPT !.error = TRUE]
    /\ UNCHANGED <<offer, got>>

SortFails(new) ==
    /\ ~reader.over /\ Fetched(new) /\ SortRaises(offer, got \cup new, reader.wants)
    /\ got' = got \cup new
    /\ reader' = [reader EXCEPT !.error = TRUE]
    /\ UNCHANGED offer

Leaves ==
    /\ ~reader.over /\ reader' = NoReader
    /\ UNCHANGED <<offer, got>>

OfferChanges ==
    /\ offer' \in Offers
    /\ UNCHANGED <<got, reader>>

(* The fetcher's cache expires.                                             *)
Forget == got' = {} /\ UNCHANGED <<offer, reader>>

SearchNext ==
    \/ \E wants \in Wants : AskPage(wants)
    \/ \E new \in SUBSET Ids : PageAnswered(new) \/ SortFails(new)
    \/ PageFails \/ Leaves \/ OfferChanges \/ Forget

SearchSpec == SearchInit /\ [][SearchNext]_vars

-----------------------------------------------------------------------------
(* Whose pages were cut from one answer of PanSou, and with the same sizes. *)
Read == reader.over /\ reader.page > 1 /\ reader.steady

(* Who reads on while has_more says so sees no result twice, and misses     *)
(* none but those that were looked at and not found large enough, or that   *)
(* the filters exclude (search_service.py:299-310, 388-397).                *)
ReadsAll ==
    Read =>
        /\ \A i, j \in DOMAIN reader.seen : reader.seen[i] = reader.seen[j] => i = j
        /\ \A r \in Range(reader.of) :
              /\ r.cloud = "other" \/ r \notin Top(reader.of) \/ r.id \in reader.with
                 \/ reader.wants.min = 0
              /\ reader.wants.filtered => Good(r)
              => r \in Range(reader.seen)

(* ... and sees them in the order asked for, over all pages.                *)
InOrder ==
    Read => \A i, j \in DOMAIN reader.seen : i < j =>
        LET Key(r) == CASE reader.wants.by = "score" -> r.score
                        [] reader.wants.by = "time"  -> r.date
                        [] reader.wants.by = "size" /\ r.id \in reader.with -> r.size
                        [] OTHER -> 0
        IN  Key(reader.seen[i]) >= Key(reader.seen[j])

(* Not kept: results that are found too small are not shown                 *)
(* (search_service.py:186).  If all are, the answer of batch_get_sizes is   *)
(* empty, which is taken for none having been found (183-185).              *)
SmallGo ==
    Read /\ reader.wants.min > 0 /\ Cardinality(Top(reader.of)) > 0
    /\ {r.id : r \in Top(reader.of)} \subseteq got /\ reader.wants.by = "score"
    => \A r \in Range(reader.seen) : r \in Top(reader.of) => r.size >= reader.wants.min

(* Not kept: total is the number of results that there are to be read; with *)
(* search_with_filters it counts those of the page (392-394).               *)
TotalIsAll == Read => reader.total = Len(reader.seen)

(* Not kept: a search by time is answered when PanSou is; dates may be      *)
(* missing, and then sorting raises (211-212).                              *)
TimesSort == ~reader.over /\ reader.wants.by = "time" => ~SortRaises(offer, got, reader.wants)
=============================================================================
