---------------------------- MODULE Media_proofs ----------------------------
(****************************************************************************)
(* Proofs about the scenes of MCMedia, for any files, paths, callers and    *)
(* times.  Each scene has an invariant of its own; together they are        *)
(* SceneInv, which the steps of every scene keep.                           *)
(****************************************************************************)
EXTENDS MCMedia, SmartRename_proofs, FiniteSetTheorems, SequenceTheorems,
        WellFoundedInduction, TLAPS

(* The scene of the classic renames behaves as ClassicRename specifies.     *)
LEMMA ClassicScene == Media /\ scene = "classic" => [](scene = "classic") /\ Classic!Spec
  <1>1. scene = "classic" /\ AllInit => Classic!Init
    BY DEF AllInit
  <1>2. scene = "classic" /\ [AllNext]_all => (scene = "classic")' /\ [Classic!Next]_Classic!vars
    BY DEF AllNext, all, Classic!vars
  <1> QED
    BY <1>1, <1>2, PTL DEF Media, Classic!Spec

(* RenameService: no video is lost by execute and rollback of any number of *)
(* batches, and a rollback that meets no other batch puts every file back:  *)
(* ClassicSafe for the names and suffixes of the scene.                     *)
THEOREM ClassicInMedia == Media => []ClassicKeepsFiles
  <1>1. Classic!Spec => []Classic!ClassicKeepsFiles
    BY ClassicConstants, Classic!ClassicSafe
  <1>2. ~(scene = "classic") /\ [AllNext]_all => (~(scene = "classic"))'
    BY DEF AllNext, all
  <1>3. Media /\ ~(scene = "classic") => [](~(scene = "classic"))
    BY <1>2, PTL DEF Media
  <1>4. ~(scene = "classic") => ClassicKeepsFiles
    BY DEF ClassicKeepsFiles
  <1>5. Classic!ClassicKeepsFiles => ClassicKeepsFiles
    BY DEF ClassicKeepsFiles
  <1> QED
    BY <1>1, <1>3, <1>4, <1>5, ClassicScene, PTL

-----------------------------------------------------------------------------
(* What a request of StreamProxy has open, by where it is.                  *)
Opened(place) == CASE place = "idle" -> {}
                   [] place = "resolve" -> {"service"}
                   [] place = "prime" -> {"primer"}
                   [] OTHER -> {"session"}

Segment == [from : Stream!Sources \cup {None}, left : 0 .. SegmentTtl]
Request == [at : Stream!Places \cup {"idle"}, kind : Stream!Kinds \cup {None},
            want : Stream!Sources \cup {None}, got : Stream!Sources \cup {None}]

Asking(r) == r.at # "idle" => /\ r.kind \in Stream!Kinds
                              /\ r.want \in Stream!Sources /\ r.got \in Stream!Sources

StreamInv ==
    /\ m1 \in [Stream!Sources -> Segment]
    /\ m2 \in [Callers -> Request] /\ \A c \in Callers : Asking(m2[c])
    /\ m3 = [c \in Callers |-> Opened(m2[c].at)]
    /\ m4 \subseteq Stream!Kinds \X Stream!Places
    /\ Stream!AllClosed

LEMMA StreamTypes == StreamInv => Stream!TypeOK
  <1> SUFFICES ASSUME StreamInv PROVE Stream!TypeOK
    OBVIOUS
  <1>1. \A c \in Callers : Opened(m2[c].at) \in SUBSET {"service", "primer", "session"}
    BY DEF Opened
  <1> QED
    BY <1>1 DEF StreamInv, Stream!TypeOK, Segment, Request

LEMMA StreamInit == Stream!Init => StreamInv
  <1> SUFFICES ASSUME Stream!Init PROVE StreamInv
    OBVIOUS
  <1>1. Stream!NoSegment \in Segment
    BY StreamConstants DEF Stream!NoSegment, Segment, Stream!StreamAssumption
  <1>2. Stream!Idle \in Request /\ Asking(Stream!Idle) /\ Stream!Idle.at = "idle"
    BY DEF Stream!Idle, Request, Asking
  <1>3. Opened("idle") = {}
    BY DEF Opened
  <1> QED
    BY <1>1, <1>2, <1>3 DEF StreamInv, Stream!Init, Stream!AllClosed

(* One request moves, with what it should have open where it gets.          *)
LEMMA RequestMoves ==
    ASSUME StreamInv, NEW c \in Callers, NEW r \in Request, Asking(r),
           m2' = [m2 EXCEPT ![c] = r], m3' = [m3 EXCEPT ![c] = Opened(r.at)],
           m1' \in [Stream!Sources -> Segment],
           m4' = m4
    PROVE  StreamInv'
  <1>1. m2' \in [Callers -> Request] /\ \A d \in Callers : Asking(m2'[d])
    BY DEF StreamInv
  <1>2. m3' = [d \in Callers |-> Opened(m2'[d].at)]
    BY DEF StreamInv
  <1> QED
    BY <1>1, <1>2 DEF StreamInv, Stream!AllClosed

(* A request ends, with nothing open or as the two that may.                *)
LEMMA RequestEnds ==
    ASSUME StreamInv, NEW c \in Callers, NEW things, Stream!Ends(c, things),
           m2[c].at # "idle",
           things # {} => m2[c].kind = "head" \/ m2[c].at = "start",
           m1' \in [Stream!Sources -> Segment]
    PROVE  StreamInv'
  <1> DEFINE way == <<m2[c].kind, m2[c].at>>
  <1>1. m2[c] \in Request /\ m2[c].at \in Stream!Places /\ m2[c].kind \in Stream!Kinds
    BY DEF StreamInv, Asking, Request
  <1>2. Stream!Idle \in Request /\ Asking(Stream!Idle) /\ Stream!Idle.at = "idle"
    BY DEF Stream!Idle, Request, Asking
  <1>3. Opened("idle") = {}
    BY DEF Opened
  <1>4. m2' \in [Callers -> Request] /\ \A d \in Callers : Asking(m2'[d])
    BY <1>2 DEF StreamInv, Stream!Ends
  <1>5. m3' = [d \in Callers |-> Opened(m2'[d].at)]
    BY <1>2, <1>3 DEF StreamInv, Stream!Ends, Stream!Holds
  <1>6. m4' = m4 \/ (m4' = m4 \cup {way} /\ things # {})
    BY DEF Stream!Ends
  <1>7. /\ m4' \subseteq Stream!Kinds \X Stream!Places
        /\ \A w \in m4' : w[1] = "head" \/ w[2] = "start"
    BY <1>1, <1>6 DEF StreamInv, Stream!AllClosed
  <1> QED
    BY <1>4, <1>5, <1>7 DEF StreamInv, Stream!AllClosed

(* A request that goes on to another place.                                 *)
LEMMA RequestGoes ==
    ASSUME StreamInv, NEW c \in Callers, NEW place \in Stream!Places, NEW things,
           Stream!Moves(c, place, things), m2[c].at # "idle", things = Opened(place),
           m1' \in [Stream!Sources -> Segment]
    PROVE  StreamInv'
  <1> DEFINE r == [m2[c] EXCEPT !.at = place]
  <1>1. m2[c] \in Request /\ Asking(m2[c])
    BY DEF StreamInv
  <1>2. r \in Request /\ Asking(r) /\ r.at = place
    BY <1>1 DEF Request, Asking
  <1>3. m2' = [m2 EXCEPT ![c] = r] /\ m3' = [m3 EXCEPT ![c] = Opened(r.at)] /\ m4' = m4
    BY <1>2 DEF Stream!Moves, Stream!Holds
  <1> QED
    BY <1>2, <1>3, RequestMoves

LEMMA StreamStep == StreamInv /\ [Stream!Next]_Stream!vars => StreamInv'
  <1> SUFFICES ASSUME StreamInv, [Stream!Next]_Stream!vars PROVE StreamInv'
    OBVIOUS
  <1>1. m1 \in [Stream!Sources -> Segment]
    BY DEF StreamInv
  <1>2. SegmentTtl \in Nat \ {0}
    BY StreamConstants DEF Stream!StreamAssumption
  <1>3. Stream!NoSegment \in Segment
    BY <1>2 DEF Stream!NoSegment, Segment
  <1>4. CASE UNCHANGED Stream!vars
    BY <1>4 DEF StreamInv, Stream!vars, Stream!AllClosed
  <1>5. CASE Stream!Tick
    <2>1. m1' \in [Stream!Sources -> Segment]
      <3>1. ASSUME NEW s \in Stream!Sources, ~(m1[s].left <= 1)
            PROVE  [m1[s] EXCEPT !.left = @ - 1] \in Segment
        BY <1>1, <1>2, <3>1 DEF Segment
      <3> QED
        BY <1>3, <1>5, <3>1 DEF Stream!Tick
    <2> QED
      BY <1>5, <2>1 DEF Stream!Tick, StreamInv, Stream!AllClosed
  <1>6. CASE Stream!clear
    BY <1>3, <1>6 DEF Stream!clear, StreamInv, Stream!AllClosed
  <1>7. ASSUME NEW c \in Callers, NEW k \in Stream!Kinds, NEW s \in Stream!Sources,
               Stream!Begin(c, k, s)
        PROVE  StreamInv'
    <2> DEFINE r == [at |-> "resolve", kind |-> k, want |-> s, got |-> s]
    <2>1. r \in Request /\ Asking(r)
      BY DEF Request, Asking, Stream!Places
    <2>2. Opened(r.at) = {"service"}
      BY DEF Opened
    <2> QED
      BY <1>1, <1>7, <2>1, <2>2, RequestMoves DEF Stream!Begin, Stream!Holds
  <1>8. ASSUME NEW c \in Callers,
               \/ Stream!LinkFails(c) \/ Stream!NoLink(c) \/ Stream!LinkFound(c)
               \/ Stream!Primed(c) \/ Stream!NotPrimed(c) \/ Stream!TooLong(c)
               \/ Stream!Refused(c) \/ Stream!HeadAnswered(c) \/ Stream!Streams(c)
               \/ Stream!Starts(c) \/ Stream!LeavesEarly(c) \/ Stream!Streamed(c)
        PROVE  StreamInv'
    <2>1. m2[c] \in Request /\ Asking(m2[c]) /\ m3[c] = Opened(m2[c].at)
      BY DEF StreamInv
    <2>2. /\ Opened("resolve") = {"service"} /\ Opened("prime") = {"primer"}
          /\ \A p \in {"open", "reopen", "start", "stream"} : Opened(p) = {"session"}
          /\ {"prime", "open", "reopen", "start", "stream"} \subseteq Stream!Places
      BY DEF Opened, Stream!Places
    <2>3. CASE Stream!LinkFails(c)
      <3> DEFINE r == [m2[c] EXCEPT !.got = Stream!Other(@)]
      <3>1. m2[c].got \in Stream!Sources /\ Stream!Other(m2[c].got) \in Stream!Sources
        BY <2>1, <2>3 DEF Stream!LinkFails, Asking, Stream!Other, Stream!Sources
      <3>2. r \in Request /\ Asking(r) /\ r.at = m2[c].at
        BY <2>1, <3>1 DEF Request, Asking
      <3>3. m2' = [m2 EXCEPT ![c] = r] /\ m3' = m3 /\ m4' = m4 /\ m1' = m1
        BY <2>3 DEF Stream!LinkFails
      <3>4. m3' = [m3 EXCEPT ![c] = Opened(r.at)]
        BY <2>1, <3>2, <3>3 DEF StreamInv
      <3> QED
        BY <1>1, <3>2, <3>3, <3>4, RequestMoves
    <2>4. CASE Stream!NoLink(c)
      BY <1>1, <2>1, <2>2, <2>4, RequestEnds DEF Stream!NoLink
    <2>5. CASE Stream!LinkFound(c)
      <3> DEFINE rest == m3[c] \ {"service"}
      <3>1. rest = {} /\ rest \cup {"primer"} = {"primer"} /\ rest \cup {"session"} = {"session"}
        BY <2>1, <2>2, <2>5 DEF Stream!LinkFound
      <3>2. \/ Stream!Ends(c, rest)
            \/ Stream!Moves(c, "prime", rest \cup {"primer"})
            \/ Stream!Moves(c, "open", rest \cup {"session"})
        BY <2>5 DEF Stream!LinkFound
      <3>3. m2[c].at = "resolve" /\ m1' = m1
        BY <2>5 DEF Stream!LinkFound
      <3> QED
        BY <1>1, <2>2, <3>1, <3>2, <3>3, RequestEnds, RequestGoes
    <2>6. ASSUME m2[c].at = "prime", m1' \in [Stream!Sources -> Segment],
                 \/ Stream!Ends(c, m3[c] \ {"primer"})
                 \/ Stream!Moves(c, "open", (m3[c] \ {"primer"}) \cup {"session"})
          PROVE  StreamInv'
      <3>1. m3[c] \ {"primer"} = {} /\ (m3[c] \ {"primer"}) \cup {"session"} = {"session"}
        BY <2>1, <2>2, <2>6
      <3> QED
        BY <2>2, <2>6, <3>1, RequestEnds, RequestGoes
    <2>7. CASE Stream!Primed(c)
      <3>1. [from |-> m2[c].got, left |-> SegmentTtl] \in Segment
        BY <1>2, <2>1, <2>7 DEF Stream!Primed, Asking, Segment
      <3>2. m1' \in [Stream!Sources -> Segment]
        BY <1>1, <2>7, <3>1 DEF Stream!Primed
      <3> QED
        BY <2>6, <2>7, <3>2 DEF Stream!Primed
    <2>8. CASE Stream!NotPrimed(c)
      BY <1>1, <2>6, <2>8 DEF Stream!NotPrimed
    <2>9. ASSUME NEW from \in {"open", "start"} , NEW to \in {"reopen", "start", "stream"},
                 m2[c].at = from, Stream!Moves(c, to, m3[c]), m1' = m1
          PROVE  StreamInv'
      <3>1. m3[c] = Opened(to) /\ to \in Stream!Places
        BY <2>1, <2>2, <2>9
      <3> QED
        BY <1>1, <2>9, <3>1, RequestGoes
    <2>10. CASE Stream!TooLong(c) \/ Stream!Streams(c) \/ Stream!Starts(c)
      BY <2>9, <2>10 DEF Stream!TooLong, Stream!Streams, Stream!Starts
    <2>11. CASE Stream!Refused(c) \/ Stream!Streamed(c)
      <3>1. m2[c].at \in {"open", "reopen", "stream"} /\ m1' = m1
            /\ Stream!Ends(c, Stream!Closed(m3[c]))
        BY <2>11 DEF Stream!Refused, Stream!Streamed
      <3>2. Stream!Closed(m3[c]) = {}
        BY <2>1, <2>2, <3>1 DEF Stream!Closed
      <3> QED
        BY <1>1, <3>1, <3>2, RequestEnds
    <2>12. CASE Stream!HeadAnswered(c)
      BY <1>1, <2>12, RequestEnds DEF Stream!HeadAnswered
    <2>13. CASE Stream!LeavesEarly(c)
      BY <1>1, <2>13, RequestEnds DEF Stream!LeavesEarly
    <2> QED
      BY <1>8, <2>3, <2>4, <2>5, <2>7, <2>8, <2>10, <2>11, <2>12, <2>13
  <1> QED
    BY <1>4, <1>5, <1>6, <1>7, <1>8 DEF Stream!Next

-----------------------------------------------------------------------------
(* MediaOrganizeService.                                                    *)
Films == {v1, v2, X}
Titles == {a, b}
Of    == [x \in {v1, v2, X} |-> IF x = X THEN b ELSE a]

Counted == {"generated", "skipped", "errors"}

Attempt == [at : {"idle", "begin", "list", "video", "match", "matched", "end", "review"},
            attempt : 0 .. 2, open : BOOLEAN, listed : SUBSET Films, todo : SUBSET Films,
            now : Films \cup {None}, counts : [Counted -> Nat]]

Ended == {"completed", "partial_success", "failed", "cancelled"}

(* How many of its videos an attempt has ended with.                        *)
Past(r) == Cardinality(r.listed \ r.todo)

(* Whether a video has been counted that it has not ended with.             *)
Ahead(r) == r.at \in {"matched", "idle"} /\ r.now # None

(* An attempt by itself.                                                    *)
Sound(r) ==
    /\ r.todo \subseteq r.listed /\ r.now \in r.todo \cup {None}
    /\ r.open => r.at \in {"list", "video", "match", "matched", "end"}
    /\ r.at = "begin" => r.attempt < 2
    /\ r.at = "list" => r.counts = [k \in Counted |-> 0] /\ r.now = None
    /\ r.at \in {"match", "matched"} => r.now # None
    /\ r.at \in {"end", "review"} => r.todo = {}
    /\ r.counts["errors"] <= Past(r)
    /\ \A k \in {"generated", "skipped"} :
          r.counts[k] <= Past(r) + (IF Ahead(r) THEN 1 ELSE 0)

Leads(v) == m2[Of[v]] \in m4.listed /\ Of[m2[Of[v]]] = Of[v]

(* What it has written, if nothing has been skipped and nothing has failed. *)
Written ==
    /\ m4.at \in {"video", "match", "matched", "end", "review"} =>
          (m4.counts["errors"] = 0 /\ m4.counts["skipped"] = 0 =>
              \A v \in m4.listed :
                 v \notin m4.todo \/ (m4.at = "matched" /\ v = m4.now) => Leads(v))
    /\ m3 = "completed" => \A v \in m4.listed : Leads(v)

OrganizeInv ==
    /\ m1 \subseteq Films /\ m2 \in [Titles -> Films \cup {None, Empty}]
    /\ m3 \in Ended \cup {"queued", "running"} /\ (m3 = "running" <=> m4.at # "idle")
    /\ m4 \in Attempt /\ Sound(m4)
    /\ Written
    /\ m5 \in BOOLEAN /\ m6 \in {0, 1}
    /\ ~m5 \/ m4.at = "match" => m6 = 0

LEMMA FilmsCounted ==
    /\ IsFiniteSet(Films)
    /\ \A S \in SUBSET Films : /\ IsFiniteSet(S) /\ Cardinality(S) \in Nat
                               /\ Cardinality(S) <= Cardinality(Films)
    /\ \A S \in SUBSET Films : \A v \in Films \ S : Cardinality(S \cup {v}) = Cardinality(S) + 1
    /\ Cardinality({}) = 0
  <1>1. IsFiniteSet(Films)
    <2>1. IsFiniteSet({v1}) /\ IsFiniteSet({v2}) /\ IsFiniteSet({X})
      BY FS_Singleton
    <2>2. IsFiniteSet({v1} \cup {v2})
      BY <2>1, FS_Union
    <2>3. IsFiniteSet({v1} \cup {v2} \cup {X})
      BY <2>1, <2>2, FS_Union
    <2>4. Films = {v1} \cup {v2} \cup {X}
      BY DEF Films
    <2> QED
      BY <2>3, <2>4
  <1>2. \A S \in SUBSET Films : /\ IsFiniteSet(S) /\ Cardinality(S) \in Nat
                                /\ Cardinality(S) <= Cardinality(Films)
    BY <1>1, FS_Subset, FS_CardinalityType
  <1>3. \A S \in SUBSET Films : \A v \in Films \ S : Cardinality(S \cup {v}) = Cardinality(S) + 1
    BY <1>2, FS_AddElement
  <1> QED
    BY <1>1, <1>2, <1>3, FS_EmptySet

LEMMA OrganizeConst ==
    /\ None \notin Films /\ Empty \notin Films /\ None # Empty
    /\ Of \in [Films -> Titles]
  BY OrganizeConstants DEF Organizer!OrganizeAssumption, Films, Of, Titles

LEMMA CountsFun ==
    /\ Organizer!NoCounts = [k \in Counted |-> 0]
    /\ DOMAIN Organizer!NoCounts = Counted
  BY DEF Organizer!NoCounts, Counted

LEMMA SameCardinality == \A S : Organizer!Cardinality(S) = Cardinality(S)
  BY DEF Organizer!Cardinality, Cardinality

(* An attempt that has listed nothing.                                      *)
Fresh(r) ==
    /\ r.listed = {} /\ r.todo = {} /\ r.now = None
    /\ r.counts = [k \in Counted |-> 0]
    /\ r.at \in {"idle", "begin", "list"}
    /\ r.open => r.at = "list"
    /\ r.at = "begin" => r.attempt < 2

LEMMA FreshSound ==
    ASSUME NEW r \in Attempt, Fresh(r)
    PROVE  Sound(r)
  <1>1. Past(r) = 0
    <2>1. r.listed \ r.todo = {}
      BY DEF Fresh
    <2> QED
      BY <2>1, FS_EmptySet DEF Past
  <1>2. \A k \in {"generated", "skipped", "errors"} : r.counts[k] = 0
    BY DEF Fresh, Counted
  <1> QED
    BY <1>1, <1>2 DEF Sound, Fresh, Ahead

LEMMA NoRunFresh ==
    /\ Organizer!NoRun \in Attempt /\ Fresh(Organizer!NoRun) /\ Organizer!NoRun.at = "idle"
    /\ Organizer!NoRun.attempt = 0 /\ Organizer!NoRun.open = FALSE
  BY CountsFun DEF Organizer!NoRun, Fresh, Attempt, Counted

LEMMA OrganizeTypes == OrganizeInv => Organizer!TypeOK /\ Organizer!ClientClosed
  <1> SUFFICES ASSUME OrganizeInv PROVE Organizer!TypeOK /\ Organizer!ClientClosed
    OBVIOUS
  <1>1. m4 \in Attempt /\ Sound(m4)
    BY DEF OrganizeInv
  <1>2. m4.listed \ m4.todo \in SUBSET Films /\ m4.listed \subseteq Films /\ m4.todo \subseteq Films
    BY <1>1 DEF Attempt
  <1>3. Past(m4) \in Nat /\ Past(m4) <= Cardinality(Films) /\ Cardinality(Films) \in Nat
    BY <1>2, FilmsCounted DEF Past
  <1>4. Ahead(m4) => Past(m4) + 1 <= Cardinality(Films)
    <2> SUFFICES ASSUME Ahead(m4) PROVE Past(m4) + 1 <= Cardinality(Films)
      OBVIOUS
    <2>1. m4.now \in m4.todo
      BY <1>1 DEF Sound, Ahead
    <2>2. (m4.listed \ m4.todo) \cup {m4.now} \in SUBSET Films /\ m4.now \in Films \ (m4.listed \ m4.todo)
      BY <1>2, <2>1
    <2> QED
      BY <1>2, <2>2, FilmsCounted DEF Past
  <1>5. \A k \in Counted : m4.counts[k] \in 0 .. Cardinality(Films)
    BY <1>1, <1>3, <1>4 DEF Attempt, Sound, Counted
  <1>6. \A k \in DOMAIN Organizer!NoCounts : m4.counts[k] \in 0 .. Cardinality(Films)
    BY <1>5, CountsFun
  <1>7. Organizer!ClientClosed
    BY <1>1 DEF OrganizeInv, Sound, Organizer!ClientClosed
  <1>8. /\ m4.at \in {"idle", "begin", "list", "video", "match", "matched", "end", "review"}
        /\ m4.attempt \in 0 .. 2 /\ m4.open \in BOOLEAN
        /\ m4.todo \subseteq m4.listed /\ m4.now \in m4.todo \cup {None}
    BY <1>1 DEF Attempt, Sound
  <1>9. m2 \in [{a, b} -> Films \cup {None, Empty}] /\ m6 \in Nat /\ m5 \in BOOLEAN /\ m1 \subseteq Films
        /\ m3 \in {"queued", "running", "completed", "partial_success", "failed", "cancelled"}
    BY DEF OrganizeInv, Titles, Ended
  <1>10. Organizer!TypeOK
    <2>1. m1 \subseteq {v1, v2, X} /\ m2 \in [{a, b} -> {v1, v2, X} \cup {None, Empty}]
          /\ m4.listed \subseteq {v1, v2, X}
      BY <1>2, <1>9 DEF Films
    <2>2. \A k \in DOMAIN Organizer!NoCounts :
             m4.counts[k] \in 0 .. Organizer!Cardinality({v1, v2, X})
      BY <1>6, SameCardinality DEF Films
    <2> QED
      BY <1>8, <1>9, <2>1, <2>2 DEF Organizer!TypeOK
  <1> QED
    BY <1>7, <1>10

LEMMA OrganizeLeads == OrganizeInv => Organizer!CompletedLeads /\ Organizer!CancelStops
  BY DEF OrganizeInv, Written, Leads, Of, Organizer!CompletedLeads, Organizer!CancelStops

LEMMA OrganizeInit == Organizer!Init => OrganizeInv
  <1> SUFFICES ASSUME Organizer!Init PROVE OrganizeInv
    OBVIOUS
  <1>1. m4 = Organizer!NoRun /\ m3 = "queued" /\ m5 = FALSE /\ m6 = 0
        /\ m1 = Films /\ m2 \in [Titles -> Films \cup {None, Empty}]
    BY DEF Organizer!Init, Films, Titles
  <1>2. m4 \in Attempt /\ Sound(m4) /\ m4.at = "idle"
    BY <1>1, FreshSound, NoRunFresh
  <1>3. Written
    BY <1>1, <1>2 DEF Written
  <1> QED
    BY <1>1, <1>2, <1>3 DEF OrganizeInv, Ended
(* A video is done with, however it was counted.                            *)
LEMMA VideoDone ==
    ASSUME m4 \in Attempt, Sound(m4), NEW v \in m4.todo,
           m4.at \in {"video", "match", "matched"},
           NEW counts \in [Counted -> Nat], \A k \in Counted : counts[k] <= Past(m4) + 1,
           Organizer!Done(v, counts)
    PROVE  m4' \in Attempt /\ Sound(m4')
  <1>1. /\ m4'.todo = m4.todo \ {v} /\ m4'.listed = m4.listed /\ m4'.now = None
        /\ m4'.counts = counts /\ m4'.open = m4.open
        /\ m4'.at = IF m4.todo = {v} THEN "end" ELSE "video"
        /\ m4' \in Attempt
    BY DEF Organizer!Done, Attempt
  <1>2. m4.todo \subseteq Films /\ m4.listed \subseteq Films /\ m4.todo \subseteq m4.listed
    BY DEF Attempt, Sound
  <1>3. Past(m4') = Past(m4) + 1
    <2>1. m4'.listed \ m4'.todo = (m4.listed \ m4.todo) \cup {v}
      BY <1>1, <1>2
    <2>2. (m4.listed \ m4.todo) \in SUBSET Films /\ v \in Films \ (m4.listed \ m4.todo)
      BY <1>2
    <2> QED
      BY <2>1, <2>2, FilmsCounted DEF Past
  <1>4. Past(m4) \in Nat
    BY <1>2, FilmsCounted DEF Past
  <1>5. \A k \in Counted : counts[k] \in Nat /\ counts[k] <= Past(m4')
    BY <1>3, <1>4
  <1>6. counts["errors"] <= Past(m4') /\ \A k \in {"generated", "skipped"} :
              counts[k] <= Past(m4') + (IF Ahead(m4') THEN 1 ELSE 0)
    BY <1>1, <1>5, <1>3, <1>4 DEF Counted, Ahead
  <1> QED
    BY <1>1, <1>2, <1>6 DEF Sound

(* One more is counted.                                                     *)
LEMMA PlusIs ==
    ASSUME m4 \in Attempt, NEW which \in Counted
    PROVE  /\ Organizer!Plus(which) \in [Counted -> Nat]
           /\ \A k \in Counted : Organizer!Plus(which)[k] = m4.counts[k] + (IF k = which THEN 1 ELSE 0)
  <1>1. Organizer!Plus(which) = [k \in Counted |-> m4.counts[k] + IF k = which THEN 1 ELSE 0]
    BY CountsFun DEF Organizer!Plus
  <1> QED
    BY <1>1 DEF Attempt

(* An attempt that writes nothing more.                                     *)
LEMMA WrittenOff ==
    ASSUME m4'.at \in {"idle", "begin", "list"}, m3' # "completed"
    PROVE  Written'
  BY DEF Written

(* What an attempt is at or whether it is open changes nothing else.        *)
LEMMA AttemptLeft ==
    ASSUME m4 \in Attempt, Sound(m4), NEW r \in Attempt,
           r.listed = m4.listed, r.todo = m4.todo, r.now = m4.now, r.counts = m4.counts,
           r.at = "idle", r.open = FALSE
    PROVE  Sound(r)
  <1>1. m4.todo \subseteq Films /\ m4.listed \subseteq Films
    BY DEF Attempt
  <1>2. m4.listed \ m4.todo \in SUBSET Films
    BY <1>1
  <1>3. Past(r) = Past(m4) /\ Past(m4) \in Nat
    BY <1>2, FilmsCounted DEF Past
  <1>4. Ahead(m4) => Ahead(r)
    BY DEF Ahead
  <1>5. \A k \in {"generated", "skipped"} : r.counts[k] <= Past(r) + (IF Ahead(r) THEN 1 ELSE 0)
    <2>1. \A k \in {"generated", "skipped"} : r.counts[k] \in Nat
      BY DEF Attempt, Counted
    <2> QED
      BY <2>1, <1>3, <1>4 DEF Sound
  <1> QED
    BY <1>3, <1>5 DEF Sound

LEMMA OrganizeStep == OrganizeInv /\ [Organizer!Next]_Organizer!vars => OrganizeInv'
  <1> SUFFICES ASSUME OrganizeInv, [Organizer!Next]_Organizer!vars PROVE OrganizeInv'
    OBVIOUS
  <1>1. /\ m1 \subseteq Films /\ m2 \in [Titles -> Films \cup {None, Empty}]
        /\ m3 \in Ended \cup {"queued", "running"} /\ (m3 = "running" <=> m4.at # "idle")
        /\ m4 \in Attempt /\ Sound(m4) /\ Written
        /\ m5 \in BOOLEAN /\ m6 \in {0, 1}
        /\ ~m5 \/ m4.at = "match" => m6 = 0
    BY DEF OrganizeInv
  <1>2. /\ m4.todo \subseteq m4.listed /\ m4.listed \subseteq Films
        /\ m4.now \in m4.todo \cup {None}
    BY <1>1 DEF Sound, Attempt
  <1>3. Past(m4) \in Nat
    <2>1. m4.listed \ m4.todo \in SUBSET Films
      BY <1>2
    <2> QED
      BY <2>1, FilmsCounted DEF Past
  <1>4. m4.counts \in [Counted -> Nat] /\ \A k \in Counted : m4.counts[k] <= Past(m4) + 1
    BY <1>1, <1>3 DEF Attempt, Sound, Counted
  <1>5. CASE UNCHANGED Organizer!vars
    BY <1>1, <1>5 DEF OrganizeInv, Organizer!vars, Written, Leads
  <1>6. CASE Organizer!Start
    <2>1. /\ m1' = m1 /\ m2' = m2 /\ m3' = "running" /\ m5' = m5 /\ m6' = m6
          /\ m4' = [Organizer!NoRun EXCEPT !.at = "begin"] /\ m3 = "queued"
      BY <1>6 DEF Organizer!Start
    <2>2. m4' \in Attempt /\ Fresh(m4') /\ m4'.at = "begin"
      BY <2>1, NoRunFresh DEF Fresh, Attempt
    <2>3. Sound(m4') /\ Written'
      BY <2>1, <2>2, FreshSound, WrittenOff
    <2> QED
      BY <1>1, <2>1, <2>2, <2>3 DEF OrganizeInv, Ended
  <1>7. CASE Organizer!Begin
    <2>1. /\ m1' = m1 /\ m2' = m2 /\ m3' = m3 /\ m5' = m5 /\ m6' = m6 /\ m4.at = "begin"
          /\ m4' = [Organizer!NoRun EXCEPT !.at = "list", !.attempt = m4.attempt + 1, !.open = TRUE]
      BY <1>7 DEF Organizer!Begin, Organizer!Kept
    <2>2. m4.attempt + 1 \in 0 .. 2
      BY <1>1, <2>1 DEF Sound, Attempt
    <2>3. m4' \in Attempt /\ Fresh(m4') /\ m4'.at = "list"
      BY <2>1, <2>2, CountsFun DEF Organizer!NoRun, Fresh, Attempt
    <2>4. Sound(m4') /\ Written'
      BY <1>1, <2>1, <2>3, FreshSound, WrittenOff DEF Ended
    <2> QED
      BY <1>1, <2>1, <2>3, <2>4 DEF OrganizeInv
  <1>8. CASE Organizer!BeginFails
    <2>1. /\ m1' = m1 /\ m2' = m2 /\ m5' = m5 /\ m6' = m6 /\ m4.at = "begin"
          /\ \/ m4.attempt + 1 < 2 /\ m4' = [m4 EXCEPT !.attempt = @ + 1] /\ m3' = m3
             \/ m4' = [m4 EXCEPT !.at = "idle", !.attempt = @ + 1] /\ m3' = "failed"
      BY <1>8 DEF Organizer!BeginFails
    <2>2. m4.attempt \in 0 .. 2 /\ m4.attempt < 2 /\ m4.open = FALSE
      BY <1>1, <2>1 DEF Sound, Attempt
    <2>3. /\ m4' \in Attempt /\ m4'.at \in {"begin", "idle"}
          /\ m4'.listed = m4.listed /\ m4'.todo = m4.todo /\ m4'.now = m4.now
          /\ m4'.counts = m4.counts /\ m4'.open = FALSE
          /\ m4'.at = "begin" => m4'.attempt < 2 /\ m3' = m3
          /\ m4'.at = "idle" => m3' = "failed"
      <3>1. CASE m4.attempt + 1 < 2 /\ m4' = [m4 EXCEPT !.attempt = @ + 1] /\ m3' = m3
        <4>1. m4.attempt + 1 \in 0 .. 2
          BY <2>2
        <4> QED
          BY <1>1, <2>1, <2>2, <3>1, <4>1 DEF Attempt
      <3>2. CASE m4' = [m4 EXCEPT !.at = "idle", !.attempt = @ + 1] /\ m3' = "failed"
        <4>1. m4.attempt + 1 \in 0 .. 2
          BY <2>2
        <4> QED
          BY <1>1, <2>1, <2>2, <3>2, <4>1 DEF Attempt
      <3> QED
        BY <2>1, <3>1, <3>2
    <2>4. Sound(m4')
      <3>1. CASE m4'.at = "idle"
        BY <1>1, <2>3, <3>1, AttemptLeft
      <3>2. CASE m4'.at = "begin"
        <4>1. Past(m4') = Past(m4) /\ ~Ahead(m4') /\ ~Ahead(m4)
          BY <2>1, <2>3, <3>2 DEF Past, Ahead
        <4> QED
          BY <1>1, <2>3, <3>2, <4>1 DEF Sound
      <3> QED
        BY <2>3, <3>1, <3>2
    <2>5. Written'
      BY <1>1, <2>1, <2>3, WrittenOff DEF Ended
    <2> QED
      BY <1>1, <2>1, <2>3, <2>4, <2>5 DEF OrganizeInv, Ended
  <1>9. CASE Organizer!ListFails
    <2>1. /\ m1' = m1 /\ m2' = m2 /\ m5' = m5 /\ m6' = m6 /\ m4.at \in {"list", "end"}
          /\ \/ /\ m4.attempt < 2 /\ m3' = m3
                /\ m4' = [Organizer!NoRun EXCEPT !.at = "begin", !.attempt = m4.attempt]
             \/ /\ m4' = [[m4 EXCEPT !.open = FALSE] EXCEPT !.at = "idle"] /\ m3' = "failed"
      BY <1>9 DEF Organizer!ListFails, Organizer!Raises, Organizer!Closed
    <2>2. \/ /\ m4' \in Attempt /\ Fresh(m4') /\ m4'.at = "begin" /\ m3' = m3
          \/ /\ m4' \in Attempt /\ m4'.at = "idle" /\ m4'.open = FALSE
             /\ m4'.listed = m4.listed /\ m4'.todo = m4.todo /\ m4'.now = m4.now
             /\ m4'.counts = m4.counts /\ m3' = "failed"
      <3>1. CASE /\ m4.attempt < 2 /\ m3' = m3
                 /\ m4' = [Organizer!NoRun EXCEPT !.at = "begin", !.attempt = m4.attempt]
        BY <1>1, <3>1, NoRunFresh DEF Attempt, Fresh
      <3>2. CASE m4' = [[m4 EXCEPT !.open = FALSE] EXCEPT !.at = "idle"] /\ m3' = "failed"
        BY <1>1, <3>2 DEF Attempt
      <3> QED
        BY <2>1, <3>1, <3>2
    <2>3. Sound(m4')
      BY <1>1, <2>2, FreshSound, AttemptLeft
    <2>4. Written'
      BY <1>1, <2>1, <2>2, WrittenOff DEF Ended
    <2> QED
      BY <1>1, <2>1, <2>2, <2>3, <2>4 DEF OrganizeInv, Ended
  <1>10. CASE Organizer!CancelAtReport
    <2>1. /\ m1' = m1 /\ m2' = m2 /\ m5' = m5 /\ m6' = m6 /\ m3' = "cancelled"
          /\ m4' = [[m4 EXCEPT !.open = FALSE] EXCEPT !.at = "idle"]
      BY <1>10 DEF Organizer!CancelAtReport, Organizer!Cancelled, Organizer!Closed
    <2>2. /\ m4' \in Attempt /\ m4'.at = "idle" /\ m4'.open = FALSE
          /\ m4'.listed = m4.listed /\ m4'.todo = m4.todo /\ m4'.now = m4.now
          /\ m4'.counts = m4.counts
      BY <1>1, <2>1 DEF Attempt
    <2>3. Sound(m4') /\ Written'
      BY <1>1, <2>1, <2>2, AttemptLeft, WrittenOff
    <2> QED
      BY <1>1, <2>1, <2>2, <2>3 DEF OrganizeInv, Ended
  <1>11. CASE Organizer!Ended
    <2>1. /\ m1' = m1 /\ m2' = m2 /\ m3' = m3 /\ m5' = m5 /\ m6' = m6 /\ m4.at = "end"
          /\ m4' = [[m4 EXCEPT !.open = FALSE] EXCEPT !.at = "review"]
      BY <1>11 DEF Organizer!Ended, Organizer!Kept, Organizer!Closed
    <2>2. /\ m4' \in Attempt /\ m4'.at = "review" /\ m4'.open = FALSE
          /\ m4'.listed = m4.listed /\ m4'.todo = m4.todo /\ m4'.now = m4.now
          /\ m4'.counts = m4.counts
      BY <1>1, <2>1 DEF Attempt
    <2>3. Past(m4') = Past(m4) /\ ~Ahead(m4') /\ ~Ahead(m4)
      BY <2>1, <2>2 DEF Past, Ahead
    <2>4. Sound(m4')
      BY <1>1, <2>1, <2>2, <2>3 DEF Sound
    <2>5. Written'
      BY <1>1, <2>1, <2>2 DEF Written, Leads
    <2> QED
      BY <1>1, <2>1, <2>2, <2>4, <2>5 DEF OrganizeInv
  <1>12. CASE Organizer!Review
    <2>1. /\ m1' = m1 /\ m2' = m2 /\ m5' = m5 /\ m6' = m6 /\ m4.at = "review"
          /\ m3' = IF m5 THEN "cancelled" ELSE Organizer!Outcome
          /\ m4' = [m4 EXCEPT !.at = "idle"]
      BY <1>12 DEF Organizer!Review
    <2>2. /\ m4' \in Attempt /\ m4'.at = "idle" /\ m4'.open = m4.open
          /\ m4'.listed = m4.listed /\ m4'.todo = m4.todo /\ m4'.now = m4.now
          /\ m4'.counts = m4.counts
      BY <1>1, <2>1 DEF Attempt
    <2>3. m4.open = FALSE /\ m4.todo = {}
      BY <1>1, <2>1 DEF Sound, Attempt
    <2>4. Sound(m4')
      BY <1>1, <2>2, <2>3, AttemptLeft
    <2>5. m3' \in Ended
      BY <2>1 DEF Organizer!Outcome, Ended
    <2>6. m3' = "completed" => m4.counts["errors"] = 0 /\ m4.counts["skipped"] = 0
      <3>1. m4.counts["errors"] \in Nat /\ m4.counts["skipped"] \in Nat
        BY <1>4 DEF Counted
      <3>2. m3' = "completed" => ~(m4.counts["errors"] > 0 \/ m4.counts["skipped"] > 0)
        BY <2>1, CountsFun DEF Organizer!Outcome
      <3> QED
        BY <3>1, <3>2
    <2>7. Written'
      BY <1>1, <2>1, <2>2, <2>3, <2>6 DEF Written, Leads
    <2> QED
      BY <1>1, <2>1, <2>2, <2>4, <2>5, <2>7 DEF OrganizeInv, Ended
  <1>13. CASE Organizer!Generate
    <2>1. /\ m1' = m1 /\ m3' = m3 /\ m5' = m5 /\ m6' = m6 + (IF m5 THEN 1 ELSE 0)
          /\ m4.at = "match" /\ m2' = [m2 EXCEPT ![Of[m4.now]] = m4.now]
          /\ m4' = [m4 EXCEPT !.at = "matched", !.counts = Organizer!Plus("generated")]
      BY <1>13 DEF Organizer!Generate, Of
    <2>2. m4.now \in m4.todo /\ m4.now \in Films /\ m4.now # None
      BY <1>1, <1>2, <2>1 DEF Sound
    <2>3. /\ m4' \in Attempt /\ m4'.at = "matched" /\ m4'.open = m4.open
          /\ m4'.listed = m4.listed /\ m4'.todo = m4.todo /\ m4'.now = m4.now
          /\ m4'.counts = Organizer!Plus("generated")
      BY <1>1, <2>1, PlusIs DEF Attempt, Counted
    <2>4. Past(m4') = Past(m4) /\ Ahead(m4') /\ ~Ahead(m4)
      BY <2>1, <2>2, <2>3 DEF Past, Ahead
    <2>5. /\ m4'.counts["generated"] = m4.counts["generated"] + 1
          /\ m4'.counts["errors"] = m4.counts["errors"]
          /\ m4'.counts["skipped"] = m4.counts["skipped"]
      BY <1>1, <1>4, <2>3, PlusIs DEF Counted
    <2>6. Sound(m4')
      <3>1. \A k \in {"generated", "skipped"} : m4'.counts[k] <= Past(m4') + 1
        BY <1>1, <1>3, <1>4, <2>4, <2>5 DEF Sound, Counted
      <3>2. m4'.counts["errors"] <= Past(m4')
        BY <1>1, <2>4, <2>5 DEF Sound
      <3> QED
        BY <1>1, <1>2, <2>1, <2>2, <2>3, <2>4, <3>1, <3>2 DEF Sound
    <2>7. m2' \in [Titles -> Films \cup {None, Empty}] /\ m2'[Of[m4.now]] = m4.now
      BY <1>1, <2>1, <2>2, OrganizeConst
    <2>8. Written'
      <3>1. \A v \in Films : Leads(v) => Leads(v)'
        BY <1>1, <1>2, <2>1, <2>2, <2>3, OrganizeConst DEF Leads
      <3>2. Leads(m4.now)'
        BY <1>2, <2>2, <2>3, <2>7 DEF Leads
      <3>3. m3' # "completed"
        BY <1>1, <2>1
      <3> QED
        BY <1>1, <1>2, <2>1, <2>3, <2>5, <3>1, <3>2, <3>3 DEF Written
    <2>9. m6' \in {0, 1} /\ (~m5' => m6' = 0)
      BY <1>1, <2>1
    <2> QED
      BY <1>1, <2>1, <2>3, <2>6, <2>7, <2>8, <2>9 DEF OrganizeInv
  <1>14. CASE Organizer!Skip
    <2>1. /\ m1' = m1 /\ m2' = m2 /\ m3' = m3 /\ m5' = m5 /\ m6' = m6 /\ m4.at = "match"
          /\ m4' = [m4 EXCEPT !.at = "matched", !.counts = Organizer!Plus("skipped")]
      BY <1>14 DEF Organizer!Skip, Organizer!Kept
    <2>2. m4.now \in m4.todo /\ m4.now \in Films /\ m4.now # None
      BY <1>1, <1>2, <2>1 DEF Sound
    <2>3. /\ m4' \in Attempt /\ m4'.at = "matched" /\ m4'.open = m4.open
          /\ m4'.listed = m4.listed /\ m4'.todo = m4.todo /\ m4'.now = m4.now
          /\ m4'.counts = Organizer!Plus("skipped")
      BY <1>1, <2>1, PlusIs DEF Attempt, Counted
    <2>4. Past(m4') = Past(m4) /\ Ahead(m4') /\ ~Ahead(m4)
      BY <2>1, <2>2, <2>3 DEF Past, Ahead
    <2>5. /\ m4'.counts["generated"] = m4.counts["generated"]
          /\ m4'.counts["errors"] = m4.counts["errors"]
          /\ m4'.counts["skipped"] = m4.counts["skipped"] + 1
      BY <1>1, <1>4, <2>3, PlusIs DEF Counted
    <2>6. Sound(m4')
      <3>1. \A k \in {"generated", "skipped"} : m4'.counts[k] <= Past(m4') + 1
        BY <1>1, <1>3, <1>4, <2>4, <2>5 DEF Sound, Counted
      <3>2. m4'.counts["errors"] <= Past(m4')
        BY <1>1, <2>4, <2>5 DEF Sound
      <3> QED
        BY <1>1, <1>2, <2>1, <2>2, <2>3, <2>4, <3>1, <3>2 DEF Sound
    <2>7. m4'.counts["skipped"] # 0
      BY <1>4, <2>5 DEF Counted
    <2>8. Written'
      BY <1>1, <2>1, <2>3, <2>7 DEF Written
    <2> QED
      BY <1>1, <2>1, <2>3, <2>6, <2>8 DEF OrganizeInv
  <1>15. CASE Organizer!ReportMatched
    <2>1. /\ m1' = m1 /\ m2' = m2 /\ m3' = m3 /\ m5' = m5 /\ m6' = m6 /\ m4.at = "matched"
          /\ Organizer!Done(m4.now, m4.counts)
      BY <1>15 DEF Organizer!ReportMatched, Organizer!Kept
    <2>2. m4.now \in m4.todo
      BY <1>1, <1>2, <2>1 DEF Sound
    <2>3. m4' \in Attempt /\ Sound(m4')
      BY <1>1, <1>4, <2>1, <2>2, VideoDone
    <2>4. /\ m4'.at \in {"end", "video"} /\ m4'.listed = m4.listed /\ m4'.todo = m4.todo \ {m4.now}
          /\ m4'.counts = m4.counts
      BY <1>1, <2>1 DEF Organizer!Done, Attempt
    <2>5. Written'
      BY <1>1, <2>1, <2>4 DEF Written, Leads
    <2> QED
      BY <1>1, <2>1, <2>3, <2>4, <2>5 DEF OrganizeInv
  <1>16. ASSUME NEW v \in m4.todo, m4.at \in {"video", "match", "matched"},
                Organizer!Done(v, Organizer!Plus("errors")),
                m1' = m1, m3' = m3, m5' = m5, m6' = m6,
                m2' \in [Titles -> Films \cup {None, Empty}],
                \A k \in {"errors", "generated", "skipped"} :
                    Organizer!Plus("errors")[k] <= Past(m4) + 1
         PROVE  OrganizeInv'
    <2>1. Organizer!Plus("errors") \in [Counted -> Nat] /\ Organizer!Plus("errors")["errors"] # 0
      BY <1>1, <1>4, PlusIs DEF Counted
    <2>2. m4' \in Attempt /\ Sound(m4')
      BY <1>1, <1>16, <2>1, VideoDone DEF Counted
    <2>3. m4'.at \in {"end", "video"} /\ m4'.counts = Organizer!Plus("errors")
      BY <1>1, <1>16 DEF Organizer!Done, Attempt
    <2>4. Written'
      BY <1>1, <1>16, <2>1, <2>3 DEF Written
    <2> QED
      BY <1>1, <1>16, <2>2, <2>3, <2>4 DEF OrganizeInv
  <1>17. \A k \in {"errors", "generated", "skipped"} :
             Organizer!Plus("errors")[k] <= Past(m4) + 1
    BY <1>1, <1>3, <1>4, PlusIs DEF Counted, Sound
  <1>18. CASE Organizer!ReportFails
    <2>1. /\ m1' = m1 /\ m2' = m2 /\ m3' = m3 /\ m5' = m5 /\ m6' = m6
          /\ \/ \E v \in m4.todo : m4.at = "video" /\ Organizer!Done(v, Organizer!Plus("errors"))
             \/ m4.at = "matched" /\ Organizer!Done(m4.now, Organizer!Plus("errors"))
      BY <1>18 DEF Organizer!ReportFails, Organizer!Kept
    <2>2. m4.at = "matched" => m4.now \in m4.todo
      BY <1>1, <1>2 DEF Sound
    <2> QED
      BY <1>1, <1>16, <1>17, <2>1, <2>2
  <1>19. CASE Organizer!WriteFails
    <2>1. /\ m1' = m1 /\ m3' = m3 /\ m5' = m5 /\ m6' = m6 /\ m4.at = "match"
          /\ Organizer!Done(m4.now, Organizer!Plus("errors"))
          /\ m2' \in {m2, [m2 EXCEPT ![Of[m4.now]] = Empty]}
      BY <1>19 DEF Organizer!WriteFails, Of
    <2>2. m4.now \in m4.todo /\ m4.now \in Films
      BY <1>1, <1>2, <2>1 DEF Sound
    <2>3. m2' \in [Titles -> Films \cup {None, Empty}]
      BY <1>1, <2>1, <2>2
    <2> QED
      BY <1>16, <1>17, <2>1, <2>2, <2>3
  <1>20. CASE Organizer!Crash
    <2>1. /\ m1' = m1 /\ m3' = "queued" /\ m5' = m5 /\ m6' = m6 /\ m4' = Organizer!NoRun
          /\ m2' \in {m2, [m2 EXCEPT ![Of[m4.now]] = Empty]}
      BY <1>20 DEF Organizer!Crash, Of
    <2>2. m2' \in [Titles -> Films \cup {None, Empty}]
      BY <1>1, <2>1
    <2>3. m4' \in Attempt /\ Sound(m4') /\ m4'.at = "idle"
      BY <2>1, NoRunFresh, FreshSound
    <2>4. Written'
      BY <2>1, <2>3, WrittenOff
    <2> QED
      BY <1>1, <2>1, <2>2, <2>3, <2>4 DEF OrganizeInv, Ended
  <1>21. CASE Organizer!AskCancel
    BY <1>1, <1>21 DEF Organizer!AskCancel, OrganizeInv, Written, Leads
  <1>22. CASE Organizer!Another
    <2>1. /\ m1' = m1 /\ m2' = m2 /\ m3' = "queued" /\ m5' = FALSE /\ m6' = 0
          /\ m4' = Organizer!NoRun
      BY <1>22 DEF Organizer!Another
    <2>2. m4' \in Attempt /\ Sound(m4') /\ m4'.at = "idle"
      BY <2>1, NoRunFresh, FreshSound
    <2>3. Written'
      BY <2>1, <2>2, WrittenOff
    <2> QED
      BY <1>1, <2>1, <2>2, <2>3 DEF OrganizeInv, Ended
  <1>23. ASSUME NEW videos \in SUBSET Films, Organizer!Listed(videos) PROVE OrganizeInv'
    <2>1. /\ m1' = m1 /\ m2' = m2 /\ m3' = m3 /\ m5' = m5 /\ m6' = m6 /\ m4.at = "list"
          /\ m4' = [m4 EXCEPT !.at = IF videos = {} THEN "end" ELSE "video",
                              !.listed = videos, !.todo = videos]
      BY <1>23 DEF Organizer!Listed, Organizer!Kept
    <2>2. /\ m4' \in Attempt /\ m4'.at \in {"end", "video"} /\ m4'.open = m4.open
          /\ m4'.listed = videos /\ m4'.todo = videos /\ m4'.now = m4.now
          /\ m4'.counts = m4.counts /\ (m4'.at = "end" => videos = {})
      BY <1>1, <2>1 DEF Attempt
    <2>3. Past(m4') = 0 /\ ~Ahead(m4')
      <3>1. m4'.listed \ m4'.todo = {}
        BY <2>2
      <3> QED
        BY <2>2, <3>1, FilmsCounted DEF Past, Ahead
    <2>4. m4.now = None /\ \A k \in {"errors", "generated", "skipped"} : m4.counts[k] = 0
      BY <1>1, <2>1 DEF Sound, Counted
    <2>5. Sound(m4')
      BY <2>2, <2>3, <2>4 DEF Sound
    <2>6. Written'
      BY <1>1, <2>1, <2>2 DEF Written
    <2> QED
      BY <1>1, <2>1, <2>2, <2>5, <2>6 DEF OrganizeInv
  <1>24. ASSUME NEW v \in Films, Organizer!Report(v) PROVE OrganizeInv'
    <2>1. /\ m1' = m1 /\ m2' = m2 /\ m3' = m3 /\ m5' = m5 /\ m6' = m6 /\ m4.at = "video"
          /\ v \in m4.todo /\ ~m5 /\ m4' = [m4 EXCEPT !.at = "match", !.now = v]
      BY <1>24 DEF Organizer!Report, Organizer!Kept
    <2>2. /\ m4' \in Attempt /\ m4'.at = "match" /\ m4'.open = m4.open
          /\ m4'.listed = m4.listed /\ m4'.todo = m4.todo /\ m4'.now = v
          /\ m4'.counts = m4.counts
      BY <1>1, <2>1 DEF Attempt
    <2>3. Past(m4') = Past(m4) /\ ~Ahead(m4') /\ ~Ahead(m4)
      BY <2>1, <2>2 DEF Past, Ahead
    <2>4. Sound(m4')
      BY <1>1, <2>1, <2>2, <2>3, OrganizeConst DEF Sound
    <2>5. Written'
      BY <1>1, <2>1, <2>2 DEF Written, Leads
    <2> QED
      BY <1>1, <2>1, <2>2, <2>4, <2>5 DEF OrganizeInv
  <1>25. ASSUME NEW v \in Films, Organizer!Change(v) PROVE OrganizeInv'
    BY <1>1, <1>25 DEF Organizer!Change, OrganizeInv, Written, Leads
  <1> QED
    BY <1>5, <1>6, <1>7, <1>8, <1>9, <1>10, <1>11, <1>12, <1>13, <1>14, <1>15, <1>18, <1>19,
       <1>20, <1>21, <1>22, <1>23, <1>24, <1>25 DEF Organizer!Next, Films

-----------------------------------------------------------------------------
Versions == {a, b, Lib}
Strms    == {a, b, Lib} \ {Lib}

Text   == [mode : {"stable", "stream", "webdav"}, id : Files]
Addr   == [to : {"nowhere", "emby", "stream", "stable", "redirect"}, id : Files \cup {None}]
Player == [at : {"idle", "info", "item", "told", "locating", "playing", "failed"},
           web : BOOLEAN, source : Versions, url : Addr, file : Files \cup {None}]

(* A player of the item's own source has been told an address that names a  *)
(* file, and plays one that was named since it asked.                       *)
Led(p) ==
    p.source = a =>
        /\ p.at \in {"info", "item", "told", "locating"} => Gate!Named(a) \subseteq m7
        /\ p.at = "told" => /\ p.url.to # "emby"
                            /\ p.url.to = "stable" => m3[p.url.id] \in m7
                            /\ p.url.to = "redirect" => p.url.id \in m7 \cup {None}
        /\ p.at = "playing" => p.file \in m7

(* Emby's own files are streamed by Emby.                                   *)
Streamed(p) ==
    p.at = "locating" \/ (p.at = "told" /\ p.url.to = "stream") => p.source # Lib

GateInv ==
    /\ m1 \in [Strms -> Text] /\ m2 \in [Strms -> Text \cup {ByPath}]
    /\ m3 \in [Files -> Files] /\ m4 \in BOOLEAN
    /\ m5 \in Player /\ (m5.url.to = "stable" => m5.url.id \in Files)
    /\ m6 \subseteq {"emby", "quark"} /\ m7 \subseteq Files /\ m8 \in 0 .. Changes
    /\ m6 # {} => m5.at \in {"info", "item", "locating"}
    /\ Streamed(m5) /\ Led(m5)

LEMMA GateConst ==
    /\ a \in Strms /\ a # Lib /\ None \notin Files /\ ByPath \notin Files /\ None # ByPath
    /\ Changes \in Nat /\ Strms \subseteq Versions
    /\ Strms = Gate!Remote /\ Text = Gate!Texts
  BY GatewayConstants DEF Gate!GatewayAssumption, Strms, Versions, Gate!Remote, Text, Gate!Texts

(* Neither a text nor the file it names is another thing.                   *)
LEMMA TextsName ==
    ASSUME m3 \in [Files -> Files], NEW t \in Text
    PROVE  /\ Gate!FileOf(t) = IF t.mode = "stable" THEN m3[t.id]
                               ELSE IF t.mode = "stream" THEN t.id ELSE None
           /\ Gate!FileOf(t) \in Files \cup {None}
           /\ t.mode # "webdav" => Gate!FileOf(t) \in Files
           /\ t.id \in Files
  BY DEF Text, Gate!FileOf

LEMMA ToldText ==
    ASSUME m1 \in [Strms -> Text], m2 \in [Strms -> Text \cup {ByPath}], NEW s \in Strms
    PROVE  Gate!Told(s) \in Text
  BY DEF Gate!Told

LEMMA NamedFiles ==
    ASSUME m1 \in [Strms -> Text], m2 \in [Strms -> Text \cup {ByPath}],
           m3 \in [Files -> Files], NEW s \in Versions
    PROVE  Gate!Named(s) \subseteq Files
  <1>1. CASE s \in Gate!Remote
    <2>1. m1[s] \in Text /\ Gate!Told(s) \in Text
      BY <1>1, GateConst, ToldText
    <2> QED
      BY <1>1, <2>1, TextsName DEF Gate!Named
  <1>2. CASE s \notin Gate!Remote
    BY <1>2 DEF Gate!Named
  <1> QED
    BY <1>1, <1>2

(* What the item's own source is looked up as has been named.               *)
LEMMA NamedSource ==
    /\ m1 \in [Strms -> Text] /\ m2 \in [Strms -> Text \cup {ByPath}]
    /\ m3 \in [Files -> Files] /\ m5.source \in Versions
    => Gate!Named(m5.source) \subseteq Files
  BY NamedFiles

LEMMA LocatedNamed ==
    ASSUME GateInv
    PROVE  /\ Gate!Located(a) \in Gate!Named(a) \cup {None}
           /\ Gate!FileOf(m1[a]) \in Gate!Named(a) \cup {None}
           /\ Gate!FileOf(Gate!Told(a)) \in Gate!Named(a) \cup {None}
           /\ \A s \in Versions : Gate!Located(s) \in Files \cup {None} \/ s = Lib
  <1>1. /\ m1 \in [Strms -> Text] /\ m2 \in [Strms -> Text \cup {ByPath}]
        /\ m3 \in [Files -> Files]
    BY DEF GateInv
  <1>2. a \in Gate!Remote
    BY GateConst
  <1>3. /\ Gate!FileOf(m1[a]) \in Gate!Named(a) \cup {None}
        /\ Gate!FileOf(Gate!Told(a)) \in Gate!Named(a) \cup {None}
    BY <1>2 DEF Gate!Named
  <1>4. Gate!Located(a) \in {Gate!FileOf(m1[a]), Gate!FileOf(Gate!Told(a))}
    BY DEF Gate!Located
  <1>5. ASSUME NEW s \in Versions, s # Lib PROVE Gate!Located(s) \in Files \cup {None}
    <2>1. m1[s] \in Text /\ Gate!Told(s) \in Text /\ m1[a] \in Text
      BY <1>1, <1>5, GateConst, ToldText DEF Versions, Strms
    <2> QED
      BY <1>1, <2>1, TextsName DEF Gate!Located
  <1> QED
    BY <1>3, <1>4, <1>5

LEMMA UrlIs ==
    ASSUME GateInv, NEW s \in Versions, NEW w \in BOOLEAN
    PROVE  /\ Gate!Url(s, w) \in Addr
           /\ Gate!Url(s, w).to = "stable" => Gate!Url(s, w).id \in Files
           /\ Gate!Url(s, w).to = "stream" => s # Lib
           /\ s = a => /\ Gate!Url(s, w).to # "emby"
                       /\ Gate!Url(s, w).to = "stable" => m3[Gate!Url(s, w).id] \in Gate!Named(a)
                       /\ Gate!Url(s, w).to = "redirect" =>
                             Gate!Url(s, w).id \in Gate!Named(a) \cup {None}
  <1>1. /\ m1 \in [Strms -> Text] /\ m2 \in [Strms -> Text \cup {ByPath}]
        /\ m3 \in [Files -> Files]
    BY DEF GateInv
  <1>2. CASE s = Lib
    <2>1. Gate!Url(s, w) = [to |-> "emby", id |-> None]
      <3>1. s \in {Lib} /\ ~(s \in Gate!Remote /\ w)
        BY <1>2, GateConst DEF Strms
      <3> QED
        BY <3>1 DEF Gate!Url
    <2> QED
      BY <1>2, <2>1, GateConst DEF Addr
  <1>3. CASE s # Lib
    <2>1. s \in Strms /\ s \in Gate!Remote
      BY <1>3, GateConst DEF Strms, Versions
    <2>2. Gate!Told(s) \in Text
      BY <1>1, <2>1, ToldText
    <2>3. CASE w
      <3>1. Gate!Url(s, w) = [to |-> "stream", id |-> None]
        BY <1>3, <2>1, <2>3 DEF Gate!Url
      <3> QED
        BY <1>3, <3>1 DEF Addr
    <2>4. CASE ~w
      <3> DEFINE t == Gate!Told(s)
      <3>1. t.mode \in {"stable", "stream", "webdav"} /\ t.id \in Files
        BY <2>2 DEF Text
      <3>2. Gate!Url(s, w) = IF t.mode = "stable" THEN [to |-> "stable", id |-> t.id]
                             ELSE IF t.mode = "stream" THEN [to |-> "redirect", id |-> t.id]
                             ELSE [to |-> "redirect", id |-> None]
        BY <1>3, <2>1, <2>4, <3>1 DEF Gate!Url
      <3>3. /\ t.mode = "stable" => Gate!FileOf(t) = m3[t.id] /\ m3[t.id] \in Files
            /\ t.mode = "stream" => Gate!FileOf(t) = t.id
        BY <1>1, <2>2, TextsName
      <3>4. s = a => Gate!FileOf(t) \in Gate!Named(a) \cup {None}
        BY LocatedNamed
      <3>5. None \notin Files
        BY GateConst
      <3> HIDE DEF t
      <3>6. CASE t.mode = "stable"
        BY <1>3, <3>1, <3>2, <3>3, <3>4, <3>5, <3>6 DEF Addr
      <3>7. CASE t.mode = "stream"
        BY <1>3, <3>1, <3>2, <3>3, <3>4, <3>5, <3>7 DEF Addr
      <3>8. CASE t.mode = "webdav"
        BY <1>3, <3>1, <3>2, <3>3, <3>4, <3>5, <3>8 DEF Addr
      <3> QED
        BY <3>1, <3>6, <3>7, <3>8
    <2> QED
      BY <2>3, <2>4
  <1> QED
    BY <1>2, <1>3

LEMMA GateHolds ==
    GateInv => /\ Gate!TypeOK /\ Gate!PlaysWhatIsNamed /\ Gate!ModesAgree
               /\ Gate!BrowsersAreCurrent /\ Gate!ServicesClosed
  <1> SUFFICES ASSUME GateInv
               PROVE  /\ Gate!TypeOK /\ Gate!PlaysWhatIsNamed /\ Gate!ModesAgree
                      /\ Gate!BrowsersAreCurrent /\ Gate!ServicesClosed
    OBVIOUS
  <1>1. /\ m1 \in [Strms -> Text] /\ m2 \in [Strms -> Text \cup {ByPath}]
        /\ m3 \in [Files -> Files]
    BY DEF GateInv
  <1>2. Gate!TypeOK
    <2>1. Player = [at : {"idle", "info", "item", "told", "locating", "playing", "failed"},
                    web : BOOLEAN, source : {a, b, Lib},
                    url : [to : {"nowhere", "emby", "stream", "stable", "redirect"},
                           id : Files \cup {None}],
                    file : Files \cup {None}]
      BY DEF Player, Addr, Versions
    <2> QED
      BY <2>1, GateConst DEF GateInv, Gate!TypeOK
  <1>3. Gate!PlaysWhatIsNamed /\ Gate!ServicesClosed
    BY DEF GateInv, Led, Gate!PlaysWhatIsNamed, Gate!ServicesClosed
  <1>4. Gate!BrowsersAreCurrent
    BY DEF Gate!BrowsersAreCurrent, Gate!Located
  <1>5. Gate!ModesAgree
    <2> SUFFICES ASSUME m1[a].mode # "webdav", Gate!Told(a) = m1[a]
                 PROVE  Gate!Leads(a, Gate!Url(a, TRUE)) = Gate!Leads(a, Gate!Url(a, FALSE))
      BY DEF Gate!ModesAgree
    <2> DEFINE t == m1[a]
    <2>1. t \in Text /\ a \in Gate!Remote /\ a # Lib
      BY <1>1, GateConst
    <2>2. t.mode \in {"stable", "stream"} /\ t.id \in Files
      BY <2>1 DEF Text
    <2>3. Gate!FileOf(t) = (IF t.mode = "stable" THEN m3[t.id] ELSE t.id) /\ Gate!FileOf(t) # None
      BY <1>1, <2>1, <2>2, TextsName, GateConst
    <2>4. Gate!Leads(a, Gate!Url(a, TRUE)) = Gate!FileOf(t)
      <3>1. Gate!Url(a, TRUE).to = "stream"
        BY <2>1 DEF Gate!Url
      <3> QED
        BY <2>3, <3>1 DEF Gate!Leads, Gate!Located
    <2>5. Gate!Url(a, FALSE) = IF t.mode = "stable" THEN [to |-> "stable", id |-> t.id]
                               ELSE [to |-> "redirect", id |-> t.id]
      BY <2>1, <2>2 DEF Gate!Url
    <2>6. Gate!Leads(a, Gate!Url(a, FALSE)) = Gate!FileOf(t)
      <3>1. CASE t.mode = "stable"
        <4>0. Gate!Url(a, FALSE) = [to |-> "stable", id |-> t.id]
          BY <2>5, <3>1
        <4>1. Gate!Url(a, FALSE).to = "stable" /\ Gate!Url(a, FALSE).id = t.id
          <5> DEFINE u == Gate!Url(a, FALSE)
          <5>1. u = [to |-> "stable", id |-> t.id]
            BY <4>0
          <5> HIDE DEF u, t
          <5>2. u.to = "stable" /\ u.id = t.id
            BY <5>1
          <5> QED
            BY <5>2 DEF u
        <4> HIDE DEF t
        <4> QED
          BY <2>3, <3>1, <4>1 DEF Gate!Leads
      <3>2. CASE t.mode = "stream"
        <4>0. Gate!Url(a, FALSE) = [to |-> "redirect", id |-> t.id]
          BY <2>5, <3>2
        <4>1. Gate!Url(a, FALSE).to = "redirect" /\ Gate!Url(a, FALSE).id = t.id
          <5> DEFINE u == Gate!Url(a, FALSE)
          <5>1. u = [to |-> "redirect", id |-> t.id]
            BY <4>0
          <5> HIDE DEF u, t
          <5>2. u.to = "redirect" /\ u.id = t.id
            BY <5>1
          <5> QED
            BY <5>2 DEF u
        <4> HIDE DEF t
        <4> QED
          BY <2>3, <3>2, <4>1 DEF Gate!Leads
      <3> QED
        BY <2>2, <3>1, <3>2
    <2> QED
      BY <2>4, <2>6
  <1> QED
    BY <1>2, <1>3, <1>4, <1>5

LEMMA GateInit == Gate!Init => GateInv
  <1> SUFFICES ASSUME Gate!Init PROVE GateInv
    OBVIOUS
  <1>1. m5 = Gate!Idle /\ Gate!Idle \in Player /\ Gate!Idle.at = "idle"
        /\ Gate!Idle.url.to = "nowhere"
    BY DEF Gate!Init, Gate!Idle, Gate!NoUrl, Player, Addr, Versions
  <1>2. m1 \in [Strms -> Text] /\ m2 \in [Strms -> Text \cup {ByPath}]
    BY GateConst DEF Gate!Init
  <1>3. m3 = [m \in Files |-> m] /\ m4 = TRUE /\ m6 = {} /\ m7 = {} /\ m8 = 0
    BY DEF Gate!Init
  <1> QED
    BY <1>1, <1>2, <1>3, GateConst DEF GateInv, Led, Streamed
(* Only the player moves, and named things are named still.                 *)
LEMMA PlayerMoves ==
    ASSUME GateInv, NEW p \in Player, m5' = p,
           m1' = m1, m2' = m2, m3' = m3, m4' = m4, m8' = m8,
           m6' \subseteq {"emby", "quark"}, m6' # {} => p.at \in {"info", "item", "locating"},
           m7' \subseteq Files,
           p.url.to = "stable" => p.url.id \in Files, Streamed(p),
           p.source = a =>
              /\ p.at \in {"info", "item", "told", "locating"} => Gate!Named(a) \subseteq m7'
              /\ p.at = "told" => /\ p.url.to # "emby"
                                  /\ p.url.to = "stable" => m3[p.url.id] \in m7'
                                  /\ p.url.to = "redirect" => p.url.id \in m7' \cup {None}
              /\ p.at = "playing" => p.file \in m7'
    PROVE  GateInv'
  <1>1. Gate!Named(a)' = Gate!Named(a)
    BY DEF Gate!Named, Gate!FileOf, Gate!Told
  <1> QED
    BY <1>1 DEF GateInv, Led

LEMMA GateStep == GateInv /\ [Gate!Next]_Gate!vars => GateInv'
  <1> SUFFICES ASSUME GateInv, [Gate!Next]_Gate!vars PROVE GateInv'
    OBVIOUS
  <1>1. /\ m1 \in [Strms -> Text] /\ m2 \in [Strms -> Text \cup {ByPath}]
        /\ m3 \in [Files -> Files] /\ m4 \in BOOLEAN
        /\ m5 \in Player /\ (m5.url.to = "stable" => m5.url.id \in Files)
        /\ m6 \subseteq {"emby", "quark"} /\ m7 \subseteq Files /\ m8 \in 0 .. Changes
        /\ m6 # {} => m5.at \in {"info", "item", "locating"}
        /\ Led(m5) /\ Streamed(m5)
    BY DEF GateInv
  <1>2. m5.source \in Versions /\ m5.web \in BOOLEAN /\ m5.url \in Addr
        /\ m5.file \in Files \cup {None}
    BY <1>1 DEF Player
  <1>3. CASE UNCHANGED Gate!vars
    <2>1. m5' = m5 /\ m1' = m1 /\ m2' = m2 /\ m3' = m3 /\ m4' = m4 /\ m8' = m8 /\ m6' = m6 /\ m7' = m7
      BY <1>3 DEF Gate!vars
    <2> QED
      BY <1>1, <2>1, PlayerMoves DEF Led, Streamed
  <1>4. ASSUME NEW place \in {"idle", "info", "item", "told", "locating", "playing", "failed"},
               Gate!Goes(place)
        PROVE  /\ m5' \in Player /\ m5'.at = place /\ m5'.url = m5.url /\ m5'.source = m5.source
               /\ m5'.file = m5.file
    BY <1>1, <1>4 DEF Gate!Goes, Player
  <1>5. ASSUME NEW s \in Versions, NEW w \in BOOLEAN, Gate!Ask(s, w) PROVE GateInv'
    <2>1. Gate!Idle \in Player /\ Gate!Idle.url.to = "nowhere"
      BY DEF Gate!Idle, Gate!NoUrl, Player, Addr, Versions
    <2>2. CASE m4
      <3>1. /\ m5' = [Gate!Idle EXCEPT !.at = "info", !.web = w, !.source = s]
            /\ m6' = {"emby", "quark"} /\ m7' = Gate!Named(s)
            /\ m1' = m1 /\ m2' = m2 /\ m3' = m3 /\ m4' = m4 /\ m8' = m8
        BY <1>5, <2>2 DEF Gate!Ask, Gate!World
      <3>2. m5' \in Player /\ m5'.at = "info" /\ m5'.source = s /\ m5'.url.to = "nowhere"
        BY <2>1, <3>1 DEF Player
      <3>3. Gate!Named(s) \subseteq Files
        BY <1>1, NamedFiles
      <3> QED
        BY <3>1, <3>2, <3>3, PlayerMoves DEF Streamed
    <2>3. CASE ~m4
      <3>1. /\ m5' = [Gate!Idle EXCEPT !.at = "failed"] /\ m6' = m6 /\ m7' = m7
            /\ m1' = m1 /\ m2' = m2 /\ m3' = m3 /\ m4' = m4 /\ m8' = m8 /\ m5.at = "idle"
        BY <1>5, <2>3 DEF Gate!Ask, Gate!World
      <3>2. m5' \in Player /\ m5'.at = "failed" /\ m5'.url.to = "nowhere"
        BY <2>1, <3>1 DEF Player
      <3> QED
        BY <1>1, <3>1, <3>2, PlayerMoves DEF Streamed
    <2> QED
      BY <1>1, <2>2, <2>3
  <1>6. ASSUME m5.at \in {"info", "item"}, Gate!Rewritten PROVE GateInv'
    <2> DEFINE u == Gate!Url(m5.source, m5.web)
    <2>1. /\ m5' = [m5 EXCEPT !.at = "told", !.url = u]
          /\ m6' = {} /\ m7' = m7
          /\ m1' = m1 /\ m2' = m2 /\ m3' = m3 /\ m4' = m4 /\ m8' = m8
      BY <1>6 DEF Gate!Rewritten, Gate!Exit, Gate!World
    <2>2. /\ u \in Addr /\ (u.to = "stable" => u.id \in Files)
          /\ u.to = "stream" => m5.source # Lib
          /\ m5.source = a => /\ u.to # "emby"
                              /\ u.to = "stable" => m3[u.id] \in Gate!Named(a)
                              /\ u.to = "redirect" => u.id \in Gate!Named(a) \cup {None}
      BY <1>2, UrlIs
    <2> HIDE DEF u
    <2>3. m5' \in Player /\ m5'.at = "told" /\ m5'.url = u /\ m5'.source = m5.source
      BY <1>1, <2>1, <2>2 DEF Player
    <2>4. m5.source = a => Gate!Named(a) \subseteq m7
      BY <1>1, <1>6 DEF Led
    <2>5. m5.source = a => /\ Gate!Named(a) \subseteq m7' /\ m5'.url.to # "emby"
                           /\ m5'.url.to = "stable" => m3[m5'.url.id] \in m7'
                           /\ m5'.url.to = "redirect" => m5'.url.id \in m7' \cup {None}
      BY <2>1, <2>2, <2>3, <2>4
    <2>6. /\ m6' = {} /\ m7' \subseteq Files /\ Streamed(m5')
          /\ m5'.url.to = "stable" => m5'.url.id \in Files
      BY <1>1, <2>1, <2>2, <2>3 DEF Streamed
    <2> QED
      BY <2>1, <2>3, <2>5, <2>6, PlayerMoves
  <1>7. CASE Gate!InfoAnswered \/ Gate!ItemAnswered
    BY <1>6, <1>7 DEF Gate!InfoAnswered, Gate!ItemAnswered
  <1>8. CASE Gate!InfoFails
    <2>1. /\ Gate!Goes("item") /\ m6' = m6 /\ m7' = m7 /\ m5.at = "info"
          /\ m1' = m1 /\ m2' = m2 /\ m3' = m3 /\ m4' = m4 /\ m8' = m8
      BY <1>8 DEF Gate!InfoFails, Gate!World
    <2>2. /\ m5' \in Player /\ m5'.at = "item" /\ m5'.url = m5.url /\ m5'.source = m5.source
      BY <1>4, <2>1
    <2>3. m5.source = a => Gate!Named(a) \subseteq m7
      BY <1>1, <2>1 DEF Led
    <2> QED
      BY <1>1, <2>1, <2>2, <2>3, PlayerMoves DEF Streamed
  <1>9. ASSUME Gate!Goes("failed"), m6' = {}, m7' = m7,
               m1' = m1, m2' = m2, m3' = m3, m4' = m4, m8' = m8
        PROVE  GateInv'
    <2>1. /\ m5' \in Player /\ m5'.at = "failed" /\ m5'.url = m5.url /\ m5'.source = m5.source
      BY <1>4, <1>9
    <2> QED
      BY <1>1, <1>9, <2>1, PlayerMoves DEF Streamed
  <1>10. CASE Gate!ItemFails \/ Gate!ItemNotLocated
    BY <1>9, <1>10 DEF Gate!ItemFails, Gate!ItemNotLocated, Gate!Ends, Gate!Exit, Gate!World
  <1>11. m5.at = "told" => m6 = {}
    BY <1>1
  <1>12. CASE Gate!FollowToEmby
    <2>1. /\ m6' = m6 /\ m7' = m7 /\ m5.at = "told" /\ m5.url.to = "emby"
          /\ m1' = m1 /\ m2' = m2 /\ m3' = m3 /\ m4' = m4 /\ m8' = m8
          /\ Gate!Goes("playing") \/ Gate!Goes("failed")
      BY <1>12 DEF Gate!FollowToEmby, Gate!World
    <2>2. m5.source # a
      BY <1>1, <2>1 DEF Led
    <2>3. /\ m5' \in Player /\ m5'.at \in {"playing", "failed"} /\ m5'.url = m5.url
          /\ m5'.source = m5.source
      BY <1>4, <2>1
    <2> QED
      BY <1>1, <1>11, <2>1, <2>2, <2>3, PlayerMoves DEF Streamed
  <1>13. ASSUME NEW f \in Files, m5' = [m5 EXCEPT !.at = "playing", !.file = f],
                m5.source = a => f \in m7,
                m6' = {}, m7' = m7, m1' = m1, m2' = m2, m3' = m3, m4' = m4, m8' = m8
         PROVE  GateInv'
    <2>1. m5' \in Player /\ m5'.at = "playing" /\ m5'.url = m5.url /\ m5'.source = m5.source
          /\ m5'.file = f
      BY <1>1, <1>13 DEF Player
    <2>2. /\ m6' = {} /\ m7' = m7 /\ m1' = m1 /\ m2' = m2 /\ m3' = m3 /\ m4' = m4 /\ m8' = m8
          /\ m5.source = a => m5'.file \in m7'
      BY <1>13, <2>1
    <2> QED
      BY <1>1, <2>1, <2>2, PlayerMoves DEF Streamed
  <1>14. CASE Gate!FollowDirect
    <2> DEFINE f == Gate!Leads(m5.source, m5.url)
    <2>1. /\ m6' = m6 /\ m7' = m7 /\ m5.at = "told" /\ m5.url.to \in {"stable", "redirect"}
          /\ m1' = m1 /\ m2' = m2 /\ m3' = m3 /\ m4' = m4 /\ m8' = m8
          /\ \/ f # None /\ m5' = [m5 EXCEPT !.at = "playing", !.file = f]
             \/ Gate!Goes("failed")
      BY <1>14 DEF Gate!FollowDirect, Gate!World
    <2>2. f = IF m5.url.to = "stable" THEN m3[m5.url.id] ELSE m5.url.id
      BY <2>1 DEF Gate!Leads
    <2>3. f \in Files \cup {None} /\ (m5.source = a => f \in m7 \cup {None})
      BY <1>1, <1>2, <2>1, <2>2 DEF Led, Addr
    <2> HIDE DEF f
    <2>4. CASE f # None /\ m5' = [m5 EXCEPT !.at = "playing", !.file = f]
      BY <1>11, <1>13, <2>1, <2>3, <2>4
    <2>5. CASE Gate!Goes("failed")
      BY <1>9, <1>11, <2>1, <2>5
    <2> QED
      BY <2>1, <2>4, <2>5
  <1>15. CASE Gate!FollowStream
    <2>1. /\ m7' = m7 /\ m5.at = "told" /\ m5.url.to = "stream"
          /\ m1' = m1 /\ m2' = m2 /\ m3' = m3 /\ m4' = m4 /\ m8' = m8
          /\ \/ Gate!Goes("locating") /\ m6' = {"emby", "quark"}
             \/ Gate!Goes("failed") /\ m6' = m6
      BY <1>15 DEF Gate!FollowStream, Gate!World
    <2>2. CASE Gate!Goes("locating") /\ m6' = {"emby", "quark"}
      <3>1. /\ m5' \in Player /\ m5'.at = "locating" /\ m5'.url = m5.url /\ m5'.source = m5.source
        BY <1>4, <2>2
      <3>2. m5.source = a => Gate!Named(a) \subseteq m7
        BY <1>1, <2>1 DEF Led
      <3> QED
        BY <1>1, <2>1, <2>2, <3>1, <3>2, PlayerMoves DEF Streamed
    <2>3. CASE Gate!Goes("failed") /\ m6' = m6
      BY <1>9, <1>11, <2>1, <2>3
    <2> QED
      BY <2>1, <2>2, <2>3
  <1>16. CASE Gate!ItemLocated
    <2> DEFINE f == Gate!Located(m5.source)
    <2>1. /\ m6' = {} /\ m7' = m7 /\ m5.at = "locating"
          /\ m1' = m1 /\ m2' = m2 /\ m3' = m3 /\ m4' = m4 /\ m8' = m8
          /\ \/ f # None /\ m5' = [m5 EXCEPT !.at = "playing", !.file = f]
             \/ Gate!Goes("failed")
      BY <1>16 DEF Gate!ItemLocated, Gate!World, Gate!Exit, Gate!Ends
    <2>2. m5.source = a => f \in m7 \cup {None}
      BY <1>1, <2>1, LocatedNamed DEF Led
    <2>3. f \in Files \cup {None}
      BY <1>1, <1>2, <2>1, LocatedNamed DEF Streamed
    <2> HIDE DEF f
    <2>4. CASE f # None /\ m5' = [m5 EXCEPT !.at = "playing", !.file = f]
      BY <1>13, <2>1, <2>2, <2>3, <2>4
    <2>5. CASE Gate!Goes("failed")
      BY <1>9, <2>1, <2>5
    <2> QED
      BY <2>1, <2>4, <2>5
  <1>17. CASE Gate!Stops
    <2>1. /\ m5' = Gate!Idle /\ m7' = {} /\ m6' = m6 /\ m5.at \in {"told", "playing", "failed"}
          /\ m1' = m1 /\ m2' = m2 /\ m3' = m3 /\ m4' = m4 /\ m8' = m8
      BY <1>17 DEF Gate!Stops, Gate!World
    <2>2. Gate!Idle \in Player /\ Gate!Idle.at = "idle" /\ Gate!Idle.url.to = "nowhere"
      BY DEF Gate!Idle, Gate!NoUrl, Player, Addr, Versions
    <2>3. m6 = {}
      BY <1>1, <2>1
    <2> QED
      BY <2>1, <2>2, <2>3, PlayerMoves DEF Streamed
  <1>18. CASE Gate!Change
    <2>1. /\ m5' = m5 /\ m6' = m6 /\ m8' = m8 + 1 /\ m8 < Changes
          /\ m7' = m7 \cup IF m5.at = "idle" THEN {} ELSE (Gate!Named(m5.source) \cup Gate!OfUrl)'
      BY <1>18 DEF Gate!Change
    <2>2. /\ m1' \in [Strms -> Text] /\ m2' \in [Strms -> Text \cup {ByPath}]
          /\ m3' \in [Files -> Files] /\ m4' \in BOOLEAN
      <3>1. CASE \E s \in Gate!Remote, t \in Gate!Texts : m1' = [m1 EXCEPT ![s] = t]
                                         /\ UNCHANGED <<m2, m3, m4>>
        BY <1>1, <3>1, GateConst
      <3>2. CASE \E s \in Gate!Remote : \E k \in {m1[s], ByPath} : m2' = [m2 EXCEPT ![s] = k]
                                                       /\ UNCHANGED <<m1, m3, m4>>
        BY <1>1, <3>2, GateConst
      <3>3. CASE \E m \in Files, f \in Files : m3' = [m3 EXCEPT ![m] = f]
                                        /\ UNCHANGED <<m1, m2, m4>>
        BY <1>1, <3>3
      <3>4. CASE m4' = ~m4 /\ UNCHANGED <<m1, m2, m3>>
        BY <1>1, <3>4
      <3> QED
        BY <1>18, <3>1, <3>2, <3>3, <3>4 DEF Gate!Change
    <2>3. m8' \in 0 .. Changes
      BY <1>1, <2>1, GateConst
    <2>4. (Gate!Named(m5.source))' \subseteq Files
      <3>1. m5'.source \in Versions
        BY <1>2, <2>1
      <3>2. (/\ m1 \in [Strms -> Text] /\ m2 \in [Strms -> Text \cup {ByPath}]
             /\ m3 \in [Files -> Files] /\ m5.source \in Versions
             => Gate!Named(m5.source) \subseteq Files)'
        BY NamedSource, PTL
      <3> QED
        BY <2>2, <3>1, <3>2
    <2>5. Gate!OfUrl' = IF m5.url.to = "stable" THEN {m3'[m5.url.id]} ELSE {}
      BY <2>1 DEF Gate!OfUrl
    <2>6. m7' \subseteq Files
      BY <1>1, <2>1, <2>2, <2>4, <2>5
    <2>7. m5.at # "idle" => (Gate!Named(m5.source))' \subseteq m7' /\ Gate!OfUrl' \subseteq m7'
      BY <2>1
    <2>8. m5.source = a => (Gate!Named(m5.source))' = Gate!Named(a)'
      BY <2>1
    <2>9. Led(m5)'
      BY <1>1, <2>1, <2>5, <2>7, <2>8 DEF Led
    <2> QED
      BY <1>1, <2>1, <2>2, <2>3, <2>6, <2>9 DEF GateInv, Streamed
  <1> QED
    BY <1>3, <1>5, <1>7, <1>8, <1>10, <1>12, <1>14, <1>15, <1>16, <1>17, <1>18
       DEF Gate!Next, Versions

-----------------------------------------------------------------------------
LEMMA SameCount == \A S : Scan!Cardinality(S) = Cardinality(S)
  BY DEF Scan!Cardinality, Cardinality

MapRow   == [fid : Fids \cup {None}, path : Paths \cup {None}]
ScanCall == [on : BOOLEAN, list : SUBSET Paths, todo : SUBSET (Paths \X Fids), over : BOOLEAN]

(* No two rows are of one file, and an address that has been written has a  *)
(* row.                                                                     *)
ScanInv ==
    /\ m1 \in [Paths -> Fids \cup {None}] /\ m2 \subseteq Fids
    /\ m3 \in [Fids -> MapRow]
    /\ m4 \in [Paths -> Fids \cup {None, Empty}]
    /\ m5 \in [Scans -> ScanCall]
    /\ \A m, n \in Fids : m3[m].fid = m3[n].fid /\ m3[m].fid # None => m = n
    /\ \A p \in Paths : m4[p] \in Fids => Scan!Row(m4[p])

LEMMA ScanConst ==
    /\ None \notin Fids /\ None \notin Paths /\ Empty \notin Fids /\ Empty \notin Paths
    /\ Scan!NoRow = [fid |-> None, path |-> None]
  BY ScanConstants DEF Scan!ScanAssumption, Scan!NoRow

LEMMA ScanHolds ==
    ScanInv => Scan!TypeOK /\ Scan!OneAddress /\ Scan!LeadsSomewhere
  <1> SUFFICES ASSUME ScanInv PROVE Scan!TypeOK /\ Scan!OneAddress /\ Scan!LeadsSomewhere
    OBVIOUS
  <1>1. Scan!TypeOK /\ Scan!LeadsSomewhere
    BY DEF ScanInv, Scan!TypeOK, Scan!LeadsSomewhere, MapRow, ScanCall
  <1>2. ASSUME NEW f \in Fids PROVE Scan!Cardinality(Scan!OfFile(f)) <= 1
    <2>1. \A m, n \in Scan!OfFile(f) : m = n
      BY ScanConst DEF Scan!OfFile, ScanInv
    <2>2. CASE Scan!OfFile(f) = {}
      BY <2>2, SameCount, FS_EmptySet
    <2>3. CASE Scan!OfFile(f) # {}
      <3>1. PICK m \in Scan!OfFile(f) : TRUE
        BY <2>3
      <3>2. Scan!OfFile(f) = {m}
        BY <2>1, <3>1
      <3> QED
        BY <3>2, SameCount, FS_Singleton
    <2> QED
      BY <2>2, <2>3
  <1> QED
    BY <1>1, <1>2 DEF Scan!OneAddress

LEMMA ScanInit == Scan!Init => ScanInv
  <1> SUFFICES ASSUME Scan!Init PROVE ScanInv
    OBVIOUS
  <1>1. Scan!NoRow \in MapRow /\ Scan!Idle \in ScanCall
    BY DEF Scan!NoRow, MapRow, Scan!Idle, ScanCall
  <1>2. \A m \in Fids : m3[m].fid = None
    BY DEF Scan!Init, Scan!NoRow
  <1> QED
    BY <1>1, <1>2, ScanConst DEF ScanInv, Scan!Init

(* A row is brought up to date or made: no other one is of its file.        *)
LEMMA RowWritten ==
    ASSUME ScanInv, NEW m \in Fids, NEW f \in Fids, NEW p \in Paths, Scan!get_or_create(m, f, p)
    PROVE  /\ m3' \in [Fids -> MapRow]
           /\ \A k, n \in Fids : m3'[k].fid = m3'[n].fid /\ m3'[k].fid # None => k = n
           /\ \A k \in Fids : Scan!Row(k) \/ k = m => Scan!Row(k)'
           /\ Scan!KeepsOneEnd
  <1> DEFINE r == [fid |-> f, path |-> p]
  <1>1. m3' = [m3 EXCEPT ![m] = r] /\ r \in MapRow /\ r.fid = f /\ r.path = p
    BY DEF Scan!get_or_create, Scan!InTable, MapRow
  <1>2. m3 \in [Fids -> MapRow]
    BY DEF ScanInv
  <1>3. r # Scan!NoRow
    <2>1. Scan!NoRow.fid = None
      BY ScanConst
    <2> QED
      BY <1>1, <2>1, ScanConst
  <1>4. \/ m \in Scan!OfFile(f)
        \/ Scan!OfFile(f) = {} /\ (m \in Scan!OfPath(p) \/ ~Scan!Row(m))
    BY DEF Scan!get_or_create, Scan!Existing
  <1> HIDE DEF r
  <1>5. \A k \in Fids : m3'[k] = IF k = m THEN r ELSE m3[k]
    BY <1>1, <1>2
  <1>6. \A k \in Fids \ {m} : m3[k].fid # f
    BY <1>4, ScanConst DEF ScanInv, Scan!OfFile
  <1>7. \A k, n \in Fids : m3'[k].fid = m3'[n].fid /\ m3'[k].fid # None => k = n
    BY <1>1, <1>5, <1>6 DEF ScanInv
  <1>8. \A k \in Fids : Scan!Row(k) \/ k = m => Scan!Row(k)'
    BY <1>3, <1>5 DEF Scan!Row
  <1>9. Scan!KeepsOneEnd
    BY <1>1, <1>4, <1>5 DEF Scan!KeepsOneEnd, Scan!OfFile, Scan!OfPath
  <1> QED
    BY <1>1, <1>2, <1>7, <1>8, <1>9

LEMMA ScanStep == ScanInv /\ [Scan!Next]_Scan!vars => ScanInv' /\ Scan!KeepsOneEnd
  <1> SUFFICES ASSUME ScanInv, [Scan!Next]_Scan!vars PROVE ScanInv' /\ Scan!KeepsOneEnd
    OBVIOUS
  <1>1. /\ m1 \in [Paths -> Fids \cup {None}] /\ m2 \subseteq Fids
        /\ m3 \in [Fids -> MapRow]
        /\ m4 \in [Paths -> Fids \cup {None, Empty}]
        /\ m5 \in [Scans -> ScanCall]
        /\ \A m, n \in Fids : m3[m].fid = m3[n].fid /\ m3[m].fid # None => m = n
        /\ \A p \in Paths : m4[p] \in Fids => Scan!Row(m4[p])
    BY DEF ScanInv
  <1>2. ASSUME m3' = m3 PROVE Scan!KeepsOneEnd /\ \A m : Scan!Row(m)' <=> Scan!Row(m)
    BY <1>2 DEF Scan!KeepsOneEnd, Scan!Row
  <1>3. ASSUME m3' = m3, m4' = m4, m2' \subseteq Fids,
               m1' \in [Paths -> Fids \cup {None}], m5' \in [Scans -> ScanCall]
        PROVE  ScanInv' /\ Scan!KeepsOneEnd
    BY <1>1, <1>2, <1>3 DEF ScanInv
  <1>4. CASE UNCHANGED Scan!vars
    BY <1>1, <1>3, <1>4 DEF Scan!vars
  <1>5. CASE \E f \in Fids, p \in Paths : Scan!Upload(f, p)
    BY <1>1, <1>3, <1>5 DEF Scan!Upload
  <1>6. CASE \E p, q \in Paths : Scan!Move(p, q)
    BY <1>1, <1>3, <1>6 DEF Scan!Move
  <1>7. CASE \E p \in Paths : Scan!Delete(p)
    BY <1>1, <1>3, <1>7 DEF Scan!Delete
  <1>8. ASSUME NEW s \in Scans, NEW over \in BOOLEAN, Scan!Begin(s, over)
        PROVE  ScanInv' /\ Scan!KeepsOneEnd
    <2>1. [on |-> TRUE, list |-> Paths, todo |-> {}, over |-> over] \in ScanCall
      BY DEF ScanCall
    <2> QED
      BY <1>1, <1>3, <1>8, <2>1 DEF Scan!Begin
  <1>9. ASSUME NEW s \in Scans, NEW p \in Paths, Scan!List(s, p)
        PROVE  ScanInv' /\ Scan!KeepsOneEnd
    <2>1. PICK found \in SUBSET {<<p, f>> : f \in {m1[p]} \ {None}} :
             m5' = [m5 EXCEPT ![s].list = @ \ {p}, ![s].todo = @ \cup found]
      BY <1>9 DEF Scan!List
    <2>2. found \subseteq Paths \X Fids
      BY <1>1
    <2>3. m5[s] \in ScanCall /\ m5[s].todo \cup found \subseteq Paths \X Fids
      BY <1>1, <2>2 DEF ScanCall
    <2>4. m5' = [m5 EXCEPT ![s] = [m5[s] EXCEPT !.list = @ \ {p}, !.todo = @ \cup found]]
      BY <1>1, <2>1 DEF ScanCall
    <2>5. [m5[s] EXCEPT !.list = @ \ {p}, !.todo = @ \cup found] \in ScanCall
      BY <2>3 DEF ScanCall
    <2>6. m5' \in [Scans -> ScanCall]
      BY <1>1, <2>4, <2>5
    <2> QED
      BY <1>1, <1>3, <1>9, <2>6 DEF Scan!List
  <1>10. ASSUME NEW s \in Scans, NEW item, Scan!Done(s, item) PROVE m5' \in [Scans -> ScanCall]
    <2>1. [m5[s] EXCEPT !.todo = @ \ {item}] \in ScanCall
      BY <1>1 DEF ScanCall
    <2>2. m5' = [m5 EXCEPT ![s] = [m5[s] EXCEPT !.todo = @ \ {item}]]
      BY <1>10 DEF Scan!Done
    <2> QED
      BY <1>1, <2>1, <2>2
  <1>11. Scan!Idle \in ScanCall
    BY DEF Scan!Idle, ScanCall
  <1>12. ASSUME NEW s \in Scans, NEW p \in Paths, NEW f \in Fids,
                Scan!Skip(s, p, f) \/ Scan!NotMapped(s, p, f)
         PROVE  ScanInv' /\ Scan!KeepsOneEnd
    BY <1>1, <1>3, <1>10, <1>12 DEF Scan!Skip, Scan!NotMapped
  <1>13. ASSUME NEW m \in Fids, NEW p \in Paths, NEW f \in Fids, Scan!get_or_create(m, f, p),
                m4' \in {m4, [m4 EXCEPT ![p] = Empty], [m4 EXCEPT ![p] = m]},
                m1' = m1, m2' = m2, m5' \in [Scans -> ScanCall]
         PROVE  ScanInv' /\ Scan!KeepsOneEnd
    <2>1. /\ m3' \in [Fids -> MapRow]
          /\ \A k, n \in Fids : m3'[k].fid = m3'[n].fid /\ m3'[k].fid # None => k = n
          /\ \A k \in Fids : Scan!Row(k) \/ k = m => Scan!Row(k)'
          /\ Scan!KeepsOneEnd
      BY <1>13, RowWritten
    <2>2. m4' \in [Paths -> Fids \cup {None, Empty}]
          /\ \A q \in Paths : m4'[q] = m4[q] \/ m4'[q] = Empty \/ m4'[q] = m
      BY <1>1, <1>13
    <2>3. \A q \in Paths : m4'[q] \in Fids => (m3'[m4'[q]] # Scan!NoRow)
      BY <1>1, <2>1, <2>2, ScanConst DEF Scan!Row
    <2>4. \A q \in Paths : m4'[q] \in Fids => Scan!Row(m4[q])'
      BY <2>3 DEF Scan!Row
    <2> QED
      BY <1>1, <1>13, <2>1, <2>2, <2>4 DEF ScanInv
  <1>14. ASSUME NEW s \in Scans, NEW p \in Paths, NEW f \in Fids,
                Scan!Generate(s, p, f) \/ Scan!NotWritten(s, p, f)
         PROVE  ScanInv' /\ Scan!KeepsOneEnd
    <2>1. m5' \in [Scans -> ScanCall] /\ m1' = m1 /\ m2' = m2
      BY <1>10, <1>11, <1>14 DEF Scan!Generate, Scan!NotWritten
    <2>2. \E m \in Fids : /\ Scan!get_or_create(m, f, p)
                          /\ m4' \in {m4, [m4 EXCEPT ![p] = Empty], [m4 EXCEPT ![p] = m]}
      BY <1>14 DEF Scan!Generate, Scan!NotWritten
    <2> QED
      BY <1>13, <2>1, <2>2
  <1>15. ASSUME NEW s \in Scans, Scan!Ends(s) PROVE ScanInv' /\ Scan!KeepsOneEnd
    BY <1>1, <1>3, <1>11, <1>15 DEF Scan!Ends
  <1> QED
    BY <1>4, <1>5, <1>6, <1>7, <1>8, <1>9, <1>12, <1>14, <1>15 DEF Scan!Next

-----------------------------------------------------------------------------
Links  == {U, V}
Window == Threshold * StickyTtl + 1

Cached  == [url : Links \cup {None}, left : 0 .. LinkTtl]
Answer  == [held : BOOLEAN, ok : BOOLEAN, left : 0 .. ProbeTtl]
Health  == [count : 0 .. Threshold, left : 0 .. StickyTtl, since : 0 .. (StickyTtl + 1)]
Asks    == [at : Redirect!Places, url : Links \cup {None}]

(* What is kept of a probe is no older than the answer, a player's link has *)
(* been found playable, and a link that is probed or kept is one.           *)
AnswersFound ==
    \A u \in Links : m2[u].held /\ m2[u].ok /\ m2[u].left > 0 => m5[u] + m2[u].left <= ProbeTtl

AsksFound ==
    \A c \in Callers : /\ m4[c].at = "deliver" /\ m4[c].url # None => m5[m4[c].url] < ProbeTtl
                       /\ m4[c].at \in {"probing", "checking"} => m4[c].url \in Links

LinkFound == m1 \in Cached /\ (m1.left > 0 => m1.url \in Links)

(* The state of a route against the failures it has had: those that count   *)
(* are the latest, one within the time of a downgrade after the other, and  *)
(* all that are not so long ago count.                                      *)
Agrees(s, f) ==
    /\ f \in Seq(0 .. Window) /\ Len(f) <= Threshold
    /\ \A i, j \in DOMAIN f : i <= j => f[i] <= f[j]
    /\ s.count <= Len(f)
    /\ s.count > 0 => s.since = IF f[1] <= StickyTtl THEN f[1] ELSE StickyTtl + 1
    /\ s.count = 0 => s.since = 0
    /\ s.left = IF s.count = Threshold /\ s.since < StickyTtl THEN StickyTtl - s.since ELSE 0
    /\ \A i \in 1 .. (s.count - 1) : f[i + 1] <= f[i] + StickyTtl
    /\ \A i \in DOMAIN f : f[i] < StickyTtl => i <= s.count

HealthInv ==
    /\ m3 \in [{"h"} -> Health]
    /\ DOMAIN m6 = {"h"} /\ m6 = [h \in {"h"} |-> m6["h"]] /\ Agrees(m3["h"], m6["h"])

PlaybackInv ==
    /\ m2 \in [Links -> Answer] /\ m4 \in [Callers -> Asks] /\ m5 \in [Links -> 0 .. (ProbeTtl + 1)]
    /\ LinkFound /\ AnswersFound /\ AsksFound /\ HealthInv

LEMMA PlaybackConst ==
    /\ LinkTtl \in Nat /\ LinkTtl > 0 /\ ProbeTtl \in Nat /\ ProbeTtl > 0
    /\ MaxProbes \in Nat /\ MaxProbes > 0 /\ Threshold \in Nat /\ Threshold > 0
    /\ StickyTtl \in Nat /\ StickyTtl > 0
    /\ None \notin Links
  BY PlaybackConstants DEF Redirect!PlaybackAssumption, Links

LEMMA Elements ==
    ASSUME NEW S, NEW f \in Seq(S)
    PROVE  Len(f) \in Nat /\ DOMAIN f = 1 .. Len(f) /\ \A i \in DOMAIN f : f[i] \in S
  OBVIOUS

LEMMA WindowLong == Window \in Nat /\ Window >= StickyTtl + 1
  <1>1. Threshold * StickyTtl \in Nat /\ Threshold * StickyTtl >= StickyTtl
    <2>1. ASSUME NEW k \in Nat, NEW s \in Nat, k > 0 PROVE k * s \in Nat /\ k * s >= s
      BY <2>1
    <2> QED
      BY <2>1, PlaybackConst
  <1> QED
    BY <1>1, PlaybackConst DEF Window

LEMMA PlaybackHolds ==
    PlaybackInv => Redirect!TypeOK /\ Redirect!StickyForReason /\ Redirect!StickyWhenDue
  <1> SUFFICES ASSUME PlaybackInv
               PROVE  Redirect!TypeOK /\ Redirect!StickyForReason /\ Redirect!StickyWhenDue
    OBVIOUS
  <1> DEFINE s == m3["h"]
             f == m6["h"]
  <1>1. /\ Agrees(s, f)
        /\ s.count \in 0 .. Threshold /\ s.left \in 0 .. StickyTtl /\ s.since \in 0 .. (StickyTtl + 1)
    BY DEF PlaybackInv, HealthInv, Health
  <1>3. Redirect!Long = Window
    BY DEF Redirect!Long, Window
  <1> HIDE DEF s, f
  <1>2. f \in Seq(0 .. Window) /\ Len(f) \in Nat /\ DOMAIN f = 1 .. Len(f)
        /\ \A i \in DOMAIN f : f[i] \in 0 .. Window
    <2>1. f \in Seq(0 .. Window)
      BY <1>1 DEF Agrees
    <2> QED
      BY <2>1, Elements
  <1>4. Len(f) <= Threshold /\ \A i \in DOMAIN f : f[i] <= Window
    BY <1>1, <1>2, WindowLong DEF Agrees
  <1>5. s.left > 0 => /\ Len(f) = Threshold
                      /\ \A i \in 1 .. (Threshold - 1) : f[i + 1] <= f[i] + StickyTtl
    <2> SUFFICES ASSUME s.left > 0
                 PROVE  /\ Len(f) = Threshold
                        /\ \A i \in 1 .. (Threshold - 1) : f[i + 1] <= f[i] + StickyTtl
      OBVIOUS
    <2>1. s.count = Threshold
      BY <1>1, PlaybackConst DEF Agrees
    <2>2. Len(f) <= Threshold /\ s.count <= Len(f)
      BY <1>1 DEF Agrees
    <2>3. \A i \in 1 .. (s.count - 1) : f[i + 1] <= f[i] + StickyTtl
      BY <1>1 DEF Agrees
    <2>4. Len(f) = Threshold
      <3>1. Len(f) \in Nat
        BY <1>2
      <3>2. Threshold <= Len(f) /\ Threshold \in Nat
        BY <2>1, <2>2, PlaybackConst
      <3> QED
        BY <2>2, <3>1, <3>2
    <2>5. \A i \in 1 .. (Threshold - 1) : f[i + 1] <= f[i] + StickyTtl
      <3> SUFFICES ASSUME NEW i \in 1 .. (Threshold - 1) PROVE f[i + 1] <= f[i] + StickyTtl
        OBVIOUS
      <3>1. i \in 1 .. (s.count - 1)
        BY <2>1
      <3> QED
        BY <2>3, <3>1
    <2> QED
      BY <2>4, <2>5
  <1>6. Len(f) = Threshold /\ f[Threshold] < StickyTtl => s.left > 0
    <2> SUFFICES ASSUME Len(f) = Threshold, f[Threshold] < StickyTtl PROVE s.left > 0
      OBVIOUS
    <2>1. Threshold \in DOMAIN f /\ 1 \in DOMAIN f
      BY <1>2, PlaybackConst
    <2>2. s.count = Threshold
      BY <1>1, <2>1, PlaybackConst DEF Agrees
    <2>3. f[1] <= f[Threshold] /\ f[1] \in Nat /\ f[Threshold] \in Nat
      <3>1. \A i, j \in DOMAIN f : i <= j => f[i] <= f[j]
        BY <1>1 DEF Agrees
      <3>2. 1 <= Threshold
        BY PlaybackConst
      <3>3. \A i \in DOMAIN f : f[i] \in Nat
        BY <1>2, WindowLong
      <3> QED
        BY <2>1, <3>1, <3>2, <3>3
    <2>4. s.since = f[1] /\ f[1] < StickyTtl
      BY <1>1, <2>2, <2>3, PlaybackConst DEF Agrees
    <2>5. /\ s.left = IF s.count = Threshold /\ s.since < StickyTtl
                      THEN StickyTtl - s.since ELSE 0
          /\ StickyTtl \in Nat
      BY <1>1, PlaybackConst DEF Agrees
    <2>6. s.left = StickyTtl - f[1]
      BY <2>2, <2>4, <2>5
    <2> QED
      BY <2>3, <2>4, <2>5, <2>6
  <1>7. Redirect!StickyForReason /\ Redirect!StickyWhenDue
    BY <1>5, <1>6 DEF Redirect!StickyForReason, Redirect!StickyWhenDue, Redirect!Sticky, s, f
  <1>8. Redirect!TypeOK
    <2>1. \A h \in {"h"} : Len(m6[h]) <= Threshold
                           /\ \A i \in DOMAIN m6[h] : m6[h][i] <= Redirect!Long
      BY <1>3, <1>4 DEF f
    <2> QED
      BY <2>1 DEF PlaybackInv, HealthInv, LinkFound, Redirect!TypeOK, Cached, Answer, Health, Asks, Links
  <1> QED
    BY <1>7, <1>8

LEMMA PlaybackInit == Redirect!Init => PlaybackInv
  <1> SUFFICES ASSUME Redirect!Init PROVE PlaybackInv
    OBVIOUS
  <1>1. /\ m1 = [url |-> None, left |-> 0]
        /\ m2 = [u \in Links |-> [held |-> FALSE, ok |-> FALSE, left |-> 0]]
        /\ m3 = [h \in {"h"} |-> [count |-> 0, left |-> 0, since |-> 0]]
        /\ m4 = [c \in Callers |-> [at |-> "idle", url |-> None]]
        /\ m5 = [u \in Links |-> ProbeTtl + 1]
        /\ m6 = [h \in {"h"} |-> <<>>]
    BY DEF Redirect!Init, Redirect!NoLink, Redirect!NoProbe, Redirect!NoState, Links
  <1>2. m1 \in Cached /\ m2 \in [Links -> Answer] /\ m3 \in [{"h"} -> Health]
        /\ m4 \in [Callers -> Asks] /\ m5 \in [Links -> 0 .. (ProbeTtl + 1)]
    BY <1>1, PlaybackConst DEF Cached, Answer, Health, Asks, Redirect!Places
  <1>3. LinkFound /\ AnswersFound /\ AsksFound
    BY <1>1, <1>2, PlaybackConst DEF LinkFound, AnswersFound, AsksFound
  <1>4. Agrees(m3["h"], m6["h"])
    <2>1. m3["h"] = [count |-> 0, left |-> 0, since |-> 0] /\ m6["h"] = <<>>
      BY <1>1
    <2> QED
      BY <2>1, PlaybackConst DEF Agrees
  <1> QED
    BY <1>1, <1>2, <1>3, <1>4 DEF PlaybackInv, HealthInv

(* A failure is counted.                                                    *)
LEMMA FailureCounted ==
    ASSUME PlaybackInv, Redirect!record_direct_failure("h")
    PROVE  HealthInv'
  <1> DEFINE s == m3["h"]
             f == m6["h"]
             fresh == s.count = 0 \/ s.since > StickyTtl
             n == IF fresh THEN 1 ELSE IF s.count < Threshold THEN s.count + 1 ELSE Threshold
             l == IF n = Threshold THEN StickyTtl ELSE IF fresh THEN 0 ELSE s.left
             t == [count |-> n, left |-> l, since |-> 0]
             g == IF Len(f) = Threshold THEN <<0>> \o Redirect!Front(f) ELSE <<0>> \o f
  <1>1. m3' = [m3 EXCEPT !["h"] = t] /\ m6' = [m6 EXCEPT !["h"] = g]
    BY DEF Redirect!record_direct_failure, Redirect!Fresh
  <1>2. /\ Agrees(s, f) /\ m3 \in [{"h"} -> Health] /\ DOMAIN m6 = {"h"}
        /\ m6 = [h \in {"h"} |-> m6["h"]]
        /\ s.count \in 0 .. Threshold /\ s.left \in 0 .. StickyTtl /\ s.since \in 0 .. (StickyTtl + 1)
    BY DEF PlaybackInv, HealthInv, Health
  <1>3. f \in Seq(0 .. Window) /\ Len(f) \in Nat /\ DOMAIN f = 1 .. Len(f) /\ Len(f) <= Threshold
        /\ \A i \in 1 .. Len(f) : f[i] \in 0 .. Window
    <2> HIDE DEF s, f
    <2>1. f \in Seq(0 .. Window) /\ Len(f) <= Threshold
      BY <1>2 DEF Agrees
    <2> QED
      BY <2>1, Elements
  <1>4. 0 \in 0 .. Window /\ Threshold \in Nat /\ Threshold > 0 /\ StickyTtl \in Nat /\ StickyTtl > 0
    BY WindowLong, PlaybackConst
  <1> HIDE DEF s, f
  <1> DEFINE k == IF Len(f) = Threshold THEN Threshold - 1 ELSE Len(f)
  <1>5. /\ k \in Nat /\ k <= Len(f) /\ k < Threshold /\ (k = Len(f) \/ k = Threshold - 1)
        /\ g \in Seq(0 .. Window) /\ Len(g) = k + 1
        /\ g[1] = 0 /\ \A i \in 1 .. k : g[i + 1] = f[i]
    <2>1. CASE Len(f) = Threshold
      <3> DEFINE q == Redirect!Front(f)
      <3>1. q = SubSeq(f, 1, Len(f) - 1)
        BY DEF Redirect!Front
      <3>2. q \in Seq(0 .. Window) /\ Len(q) = Threshold - 1
            /\ \A i \in 1 .. (Threshold - 1) : q[i] = f[i]
        BY <1>3, <1>4, <2>1, <3>1
      <3>3. g = <<0>> \o q
        BY <2>1
      <3> HIDE DEF q, g
      <3>4. g \in Seq(0 .. Window) /\ Len(g) = Threshold /\ g[1] = 0
            /\ \A i \in 1 .. (Threshold - 1) : g[i + 1] = q[i]
        BY <1>4, <3>2, <3>3
      <3>5. k = Threshold - 1
        BY <2>1
      <3> HIDE DEF k
      <3> QED
        BY <1>3, <1>4, <2>1, <3>2, <3>4, <3>5
    <2>2. CASE Len(f) # Threshold
      <3>1. g = <<0>> \o f
        BY <2>2
      <3> HIDE DEF g
      <3>2. g \in Seq(0 .. Window) /\ Len(g) = Len(f) + 1 /\ g[1] = 0
            /\ \A i \in 1 .. Len(f) : g[i + 1] = f[i]
        BY <1>3, <1>4, <3>1
      <3>3. k = Len(f)
        BY <2>2
      <3> HIDE DEF k
      <3>4. k \in Nat /\ k <= Len(f) /\ k < Threshold
        <4>1. Len(f) \in Nat /\ Len(f) <= Threshold
          BY <1>3
        <4> QED
          BY <4>1, <1>4, <2>2, <3>3
      <3>5. Len(g) = k + 1 /\ \A i \in 1 .. k : g[i + 1] = f[i]
        BY <3>2, <3>3
      <3> QED
        BY <3>2, <3>3, <3>4, <3>5
    <2> QED
      BY <2>1, <2>2
  <1>6. /\ n \in 1 .. Threshold /\ l \in 0 .. StickyTtl
        /\ fresh => n = 1
        /\ ~fresh => \/ n = s.count + 1 /\ s.count < Threshold
                     \/ n = Threshold /\ s.count = Threshold
    BY <1>2, <1>4
  <1>7. l = IF n = Threshold THEN StickyTtl ELSE 0
    <2>1. s.left > 0 => s.count = Threshold
      BY <1>2, <1>4 DEF Agrees
    <2> QED
      BY <1>2, <1>4, <1>6, <2>1
  <1> HIDE DEF n, l, g, fresh, k
  <1>8. t \in Health /\ t.count = n /\ t.left = l /\ t.since = 0
    BY <1>4, <1>6 DEF Health
  <1> HIDE DEF t
  <1>9. Agrees(t, g)
    <2>1. DOMAIN g = 1 .. (k + 1) /\ \A i \in DOMAIN g : g[i] \in Nat
      <3>1. DOMAIN g = 1 .. Len(g) /\ \A i \in DOMAIN g : g[i] \in 0 .. Window
        BY <1>5, Elements
      <3> QED
        BY <1>5, <3>1, WindowLong
    <2>2. \A i, j \in DOMAIN g : i <= j => g[i] <= g[j]
      <3> SUFFICES ASSUME NEW i \in DOMAIN g, NEW j \in DOMAIN g, i <= j PROVE g[i] <= g[j]
        OBVIOUS
      <3>1. CASE i = 1
        BY <1>5, <2>1, <3>1
      <3>2. CASE i > 1
        <4>1. i - 1 \in 1 .. k /\ j - 1 \in 1 .. k /\ i - 1 <= j - 1
          BY <1>5, <2>1, <3>2
        <4>2. f[i - 1] <= f[j - 1]
          BY <1>2, <1>3, <1>5, <4>1 DEF Agrees
        <4>3. g[(i - 1) + 1] = f[i - 1] /\ g[(j - 1) + 1] = f[j - 1]
          BY <1>5, <4>1
        <4>4. (i - 1) + 1 = i /\ (j - 1) + 1 = j
          BY <2>1
        <4> QED
          BY <4>2, <4>3, <4>4
      <3> QED
        BY <2>1, <3>1, <3>2
    <2>3. n <= Len(g)
      BY <1>2, <1>3, <1>5, <1>6, <1>4 DEF Agrees
    <2>4. \A i \in 1 .. (n - 1) : g[i + 1] <= g[i] + StickyTtl
      <3> SUFFICES ASSUME NEW i \in 1 .. (n - 1) PROVE g[i + 1] <= g[i] + StickyTtl
        OBVIOUS
      <3>1. ~fresh /\ s.count > 0 /\ s.since <= StickyTtl
        BY <1>2, <1>4, <1>6 DEF fresh
      <3>2. i \in 1 .. k /\ i <= s.count /\ g[i + 1] = f[i]
        <4>1. n <= s.count + 1 /\ n <= k + 1 /\ k \in Nat /\ n \in Nat /\ s.count \in Nat
          BY <1>2, <1>4, <1>5, <1>6, <2>3, <3>1
        <4>2. i \in 1 .. k /\ i <= s.count
          BY <4>1
        <4> QED
          BY <1>5, <4>2
      <3>3. CASE i = 1
        <4>1. f[1] <= StickyTtl
          BY <1>2, <1>3, <1>4, <3>1, <3>2 DEF Agrees
        <4> QED
          BY <1>4, <1>5, <3>2, <3>3, <4>1
      <3>4. CASE i > 1
        <4>1. i - 1 \in 1 .. k /\ i - 1 \in 1 .. (s.count - 1)
          BY <1>2, <1>5, <3>2, <3>4
        <4>2. f[(i - 1) + 1] <= f[i - 1] + StickyTtl
          BY <1>2, <4>1 DEF Agrees
        <4>3. g[(i - 1) + 1] = f[i - 1] /\ (i - 1) + 1 = i
          BY <1>5, <4>1, <3>2
        <4> QED
          BY <3>2, <4>2, <4>3
      <3> QED
        BY <3>2, <3>3, <3>4
    <2>5. \A i \in DOMAIN g : g[i] < StickyTtl => i <= n
      <3> SUFFICES ASSUME NEW i \in DOMAIN g, g[i] < StickyTtl PROVE i <= n
        OBVIOUS
      <3>1. CASE i = 1
        BY <1>6, <3>1
      <3>2. CASE i > 1
        <4>1. i - 1 \in 1 .. k /\ (i - 1) + 1 = i /\ i <= Threshold /\ i - 1 \in 1 .. Len(f)
          <5>1. i \in 2 .. (k + 1)
            BY <1>5, <2>1, <3>2
          <5>2. k \in Nat /\ k <= Len(f) /\ k < Threshold
            BY <1>5
          <5> QED
            BY <1>3, <1>4, <5>1, <5>2
        <4>2. f[i - 1] < StickyTtl
          BY <1>5, <4>1
        <4>3. i - 1 <= s.count
          BY <1>2, <1>3, <4>1, <4>2 DEF Agrees
        <4>4. f[1] <= f[i - 1] /\ f[1] \in Nat /\ f[i - 1] \in Nat
          BY <1>2, <1>3, <4>1, WindowLong DEF Agrees
        <4>5. s.count > 0 /\ s.since = f[1] /\ f[1] < StickyTtl
          <5>1. s.count > 0
            BY <1>2, <4>1, <4>3
          <5>2. f[1] < StickyTtl
            BY <1>4, <4>2, <4>4
          <5>3. s.since = IF f[1] <= StickyTtl THEN f[1] ELSE StickyTtl + 1
            BY <1>2, <5>1 DEF Agrees
          <5> QED
            BY <1>4, <4>4, <5>1, <5>2, <5>3
        <4>6. ~fresh
          BY <1>2, <1>4, <4>5 DEF fresh
        <4> QED
          BY <1>2, <1>4, <1>6, <4>1, <4>3, <4>6
      <3> QED
        BY <2>1, <3>1, <3>2
    <2>6. Len(g) <= Threshold
      BY <1>4, <1>5
    <2>7. t.left = IF t.count = Threshold /\ t.since < StickyTtl THEN StickyTtl - t.since ELSE 0
      BY <1>4, <1>7, <1>8
    <2>8. t.count > 0 => t.since = IF g[1] <= StickyTtl THEN g[1] ELSE StickyTtl + 1
      BY <1>4, <1>5, <1>8
    <2> QED
      BY <1>5, <1>6, <1>8, <2>2, <2>3, <2>4, <2>5, <2>6, <2>7, <2>8 DEF Agrees
  <1>10. m3'["h"] = t /\ m6'["h"] = g
    BY <1>1, <1>2
  <1> QED
    BY <1>1, <1>2, <1>8, <1>9, <1>10 DEF HealthInv

LEMMA HealthSame == PlaybackInv /\ m3' = m3 /\ m6' = m6 => HealthInv'
  <1> SUFFICES ASSUME PlaybackInv, m3' = m3, m6' = m6 PROVE HealthInv'
    OBVIOUS
  <1> QED
    BY DEF PlaybackInv, HealthInv

(* Where a request goes.                                                    *)
Goes(c, place, u) == m4' = [m4 EXCEPT ![c] = [at |-> place, url |-> u]]

(* What a verdict leads to.                                                 *)
Judged(c, u, ok) ==
    \/ ok /\ Goes(c, "deliver", u)
    \/ Goes(c, "transcode", None)
    \/ Goes(c, "deliver", None)

LEMMA HostOf == \A u \in Links : [x \in {U, V} |-> "h"][u] = "h"
  BY DEF Links

LEMMA VerdictGoes ==
    ASSUME PlaybackInv, NEW c \in Callers, NEW u \in Links, NEW place, NEW ok \in BOOLEAN,
           Redirect!Verdict(c, u, place, ok)
    PROVE  HealthInv' /\ Judged(c, u, ok)
  <1>1. CASE place = "probing"
    <2>1. Redirect!First(c, u, ok)
      BY <1>1 DEF Redirect!Verdict
    <2>2. CASE ok
      <3>1. m3' = m3 /\ m6' = m6 /\ Goes(c, "deliver", u)
        BY <2>1, <2>2 DEF Redirect!First, Redirect!Goes, Goes
      <3> QED
        BY <2>2, <3>1, HealthSame DEF Judged
    <2>3. CASE ~ok
      <3>1. Goes(c, "transcode", None) /\ Redirect!record_direct_failure([x \in {U, V} |-> "h"][u])
        BY <2>1, <2>3 DEF Redirect!First, Redirect!Goes, Goes
      <3>2. Redirect!record_direct_failure("h")
        BY <3>1, HostOf
      <3> QED
        BY <3>1, <3>2, FailureCounted DEF Judged
    <2> QED
      BY <2>2, <2>3
  <1>2. CASE place # "probing"
    <2>1. Redirect!Second(c, u, ok)
      BY <1>2 DEF Redirect!Verdict
    <2>2. m3' = m3 /\ m6' = m6
      BY <2>1 DEF Redirect!Second
    <2>3. Judged(c, u, ok)
      <3>1. CASE ok
        BY <2>1, <3>1 DEF Redirect!Second, Redirect!Goes, Goes, Judged
      <3>2. CASE ~ok
        BY <2>1, <3>2 DEF Redirect!Second, Redirect!Goes, Goes, Judged
      <3> QED
        BY <3>1, <3>2
    <2> QED
      BY <2>2, <2>3, HealthSame
  <1> QED
    BY <1>1, <1>2

(* A request that has been sent its answer is sent no other.                *)
Sends == \A c \in Callers : m4[c].at = "deliver" => m4'[c].url \in {None, m4[c].url}

LEMMA AskGoes ==
    ASSUME PlaybackInv, NEW c \in Callers, m4[c].at # "deliver",
           NEW place \in Redirect!Places, NEW u \in Links \cup {None}, Goes(c, place, u),
           m5' \in [Links -> 0 .. (ProbeTtl + 1)],
           \A v \in Links : m5[v] < ProbeTtl => m5'[v] < ProbeTtl,
           place = "deliver" /\ u # None => m5'[u] < ProbeTtl,
           place \in {"probing", "checking"} => u # None
    PROVE  m4' \in [Callers -> Asks] /\ AsksFound' /\ Sends
  <1> DEFINE q == [at |-> place, url |-> u]
  <1>1. q \in Asks /\ q.at = place /\ q.url = u
    BY DEF Asks
  <1>2. m4' = [m4 EXCEPT ![c] = q]
    BY DEF Goes
  <1> HIDE DEF q
  <1>3. m4 \in [Callers -> Asks] /\ AsksFound /\ None \notin Links
    BY PlaybackConst DEF PlaybackInv
  <1>4. m4' \in [Callers -> Asks] /\ m4'[c] = q /\ \A d \in Callers : d # c => m4'[d] = m4[d]
    BY <1>1, <1>2, <1>3
  <1>5. AsksFound'
    <2> SUFFICES ASSUME NEW d \in Callers
                 PROVE  /\ m4'[d].at = "deliver" /\ m4'[d].url # None => m5'[m4'[d].url] < ProbeTtl
                        /\ m4'[d].at \in {"probing", "checking"} => m4'[d].url \in Links
      BY DEF AsksFound
    <2>1. CASE d = c
      BY <1>1, <1>4, <2>1
    <2>2. CASE d # c
      <3>1. m4'[d] = m4[d] /\ m4[d].url \in Links \cup {None}
        BY <1>3, <1>4, <2>2 DEF Asks
      <3> QED
        BY <1>3, <3>1 DEF AsksFound
    <2> QED
      BY <2>1, <2>2
  <1>6. Sends
    BY <1>4 DEF Sends
  <1> QED
    BY <1>4, <1>5, <1>6

LEMMA JudgedGoes ==
    ASSUME PlaybackInv, NEW c \in Callers, m4[c].at # "deliver", NEW u \in Links, NEW ok \in BOOLEAN,
           Judged(c, u, ok), m5' \in [Links -> 0 .. (ProbeTtl + 1)],
           \A v \in Links : m5[v] < ProbeTtl => m5'[v] < ProbeTtl, ok => m5'[u] < ProbeTtl
    PROVE  m4' \in [Callers -> Asks] /\ AsksFound' /\ Sends
  <1>1. /\ "deliver" \in Redirect!Places /\ "transcode" \in Redirect!Places
        /\ "deliver" \notin {"probing", "checking"} /\ "transcode" \notin {"probing", "checking"}
        /\ "transcode" # "deliver"
    BY DEF Redirect!Places
  <1>2. CASE ok /\ Goes(c, "deliver", u)
    BY <1>1, <1>2, AskGoes
  <1>3. CASE Goes(c, "transcode", None)
    BY <1>1, <1>3, AskGoes
  <1>4. CASE Goes(c, "deliver", None)
    BY <1>1, <1>4, AskGoes
  <1> QED
    BY <1>2, <1>3, <1>4 DEF Judged

LEMMA ProbeGoes ==
    ASSUME PlaybackInv, NEW c \in Callers, m4[c].at # "deliver", NEW u \in Links,
           NEW place \in {"probing", "checking"}, Redirect!Probe(c, u, place), m5' = m5
    PROVE  /\ m2' \in [Links -> Answer] /\ m4' \in [Callers -> Asks]
           /\ AnswersFound' /\ AsksFound' /\ HealthInv' /\ Sends
  <1>1. /\ m2 \in [Links -> Answer] /\ m5 \in [Links -> 0 .. (ProbeTtl + 1)] /\ AnswersFound
        /\ ProbeTtl \in Nat
    BY PlaybackConst DEF PlaybackInv
  <1>2. CASE Redirect!Known(u)
    <2>1. Redirect!Verdict(c, u, place, m2[u].ok) /\ m2' = m2
      BY <1>2 DEF Redirect!Probe
    <2>2. m2[u] \in Answer /\ m2[u].held /\ m2[u].left > 0
      BY <1>1, <1>2 DEF Redirect!Known
    <2>3. m2[u].ok \in BOOLEAN /\ m2[u].left \in Nat /\ m5[u] \in Nat
      BY <1>1, <2>2 DEF Answer
    <2>4. m2[u].ok => m5[u] < ProbeTtl
      BY <1>1, <2>2, <2>3 DEF AnswersFound
    <2> DEFINE o == m2[u].ok
    <2>5. o \in BOOLEAN /\ Redirect!Verdict(c, u, place, o) /\ (o => m5'[u] < ProbeTtl)
      BY <2>1, <2>3, <2>4
    <2> HIDE DEF o
    <2>6. HealthInv' /\ Judged(c, u, o)
      BY <2>5, VerdictGoes
    <2>7. m4' \in [Callers -> Asks] /\ AsksFound' /\ Sends
      BY <1>1, <2>5, <2>6, JudgedGoes
    <2>8. AnswersFound'
      BY <1>1, <2>1 DEF AnswersFound
    <2> QED
      BY <1>1, <2>1, <2>6, <2>7, <2>8
  <1>3. CASE ~Redirect!Known(u)
    <2>1. m2' = [m2 EXCEPT ![u] = Redirect!NoProbe] /\ Goes(c, place, u) /\ m3' = m3 /\ m6' = m6
      BY <1>3 DEF Redirect!Probe, Redirect!Goes, Goes
    <2> DEFINE n == Redirect!NoProbe
    <2>2. n \in Answer /\ n.held = FALSE
      BY <1>1 DEF Redirect!NoProbe, Answer
    <2>3. m2' = [m2 EXCEPT ![u] = n]
      BY <2>1
    <2> HIDE DEF n
    <2>4. m2' \in [Links -> Answer] /\ m2'[u] = n /\ \A v \in Links : v # u => m2'[v] = m2[v]
      BY <1>1, <2>2, <2>3
    <2>5. AnswersFound'
      <3> SUFFICES ASSUME NEW v \in Links, m2'[v].held, m2'[v].ok, m2'[v].left > 0
                   PROVE  m5'[v] + m2'[v].left <= ProbeTtl
        BY DEF AnswersFound
      <3>1. v # u
        BY <2>2, <2>4
      <3>2. m2'[v] = m2[v]
        BY <2>4, <3>1
      <3> QED
        BY <1>1, <3>2 DEF AnswersFound
    <2>6. place \in Redirect!Places /\ place # "deliver" /\ u # None
      BY PlaybackConst DEF Redirect!Places
    <2>7. m4' \in [Callers -> Asks] /\ AsksFound' /\ Sends
      BY <1>1, <2>1, <2>6, AskGoes
    <2> QED
      BY <2>1, <2>4, <2>5, <2>7, HealthSame
  <1> QED
    BY <1>2, <1>3


LEMMA RememberedGoes ==
    ASSUME PlaybackInv, NEW u \in Links, NEW ok \in BOOLEAN, Redirect!Remembered(u, ok)
    PROVE  /\ m2' \in [Links -> Answer]
           /\ m2'[u].ok = ok /\ m2'[u].left = ProbeTtl
           /\ \A w \in Links : w # u => m2'[w] = m2[w] \/ ~m2'[w].held
  <1> DEFINE n == [held |-> TRUE, ok |-> ok, left |-> ProbeTtl]
             e == Redirect!NoProbe
  <1>1. n \in Answer /\ n.ok = ok /\ n.left = ProbeTtl /\ e \in Answer /\ e.held = FALSE
    BY PlaybackConst DEF Answer, Redirect!NoProbe
  <1>2. m2 \in [Links -> Answer]
    BY DEF PlaybackInv
  <1>3. \/ m2' = [m2 EXCEPT ![u] = n]
        \/ \E v \in Links : m2' = [m2 EXCEPT ![v] = e, ![u] = n]
    <2>1. Redirect!Held \subseteq Links
      BY DEF Redirect!Held, Links
    <2>2. CASE u \in Redirect!Held \/ Redirect!Cardinality(Redirect!Held) < MaxProbes
      BY <2>2 DEF Redirect!Remembered
    <2>3. CASE ~(u \in Redirect!Held \/ Redirect!Cardinality(Redirect!Held) < MaxProbes)
      BY <2>1, <2>3 DEF Redirect!Remembered
    <2> QED
      BY <2>2, <2>3
  <1> HIDE DEF n, e
  <1>4. CASE m2' = [m2 EXCEPT ![u] = n]
    BY <1>1, <1>2, <1>4
  <1>5. ASSUME NEW v \in Links, m2' = [m2 EXCEPT ![v] = e, ![u] = n]
        PROVE  /\ m2' \in [Links -> Answer]
               /\ m2'[u].ok = ok /\ m2'[u].left = ProbeTtl
               /\ \A w \in Links : w # u => m2'[w] = m2[w] \/ ~m2'[w].held
    BY <1>1, <1>2, <1>5
  <1> QED
    BY <1>3, <1>4, <1>5

LEMMA ProbedGoes ==
    ASSUME PlaybackInv, NEW c \in Callers, NEW ok \in BOOLEAN, Redirect!Probed(c, ok)
    PROVE  PlaybackInv' /\ Sends
  <1> DEFINE u == m4[c].url
             place == m4[c].at
  <1>1. /\ m5 \in [Links -> 0 .. (ProbeTtl + 1)] /\ AnswersFound /\ AsksFound /\ LinkFound
        /\ ProbeTtl \in Nat /\ ProbeTtl > 0
    BY PlaybackConst DEF PlaybackInv
  <1>2. place \in {"probing", "checking"} /\ u \in Links
    BY <1>1 DEF Redirect!Probed, AsksFound
  <1>3. /\ Redirect!Remembered(u, ok) /\ Redirect!Verdict(c, u, place, ok)
        /\ m5' = IF ok THEN [m5 EXCEPT ![u] = 0] ELSE m5
        /\ m1' = m1
    BY DEF Redirect!Probed
  <1>4. place # "deliver"
    BY <1>2
  <1>5. HealthInv' /\ Judged(c, u, ok)
    <2> HIDE DEF u, place
    <2> QED
      BY <1>2, <1>3, VerdictGoes
  <1>6. /\ m2' \in [Links -> Answer]
        /\ m2'[u].ok = ok /\ m2'[u].left = ProbeTtl
        /\ \A w \in Links : w # u => m2'[w] = m2[w] \/ ~m2'[w].held
    <2> HIDE DEF u, place
    <2> QED
      BY <1>2, <1>3, RememberedGoes
  <1>7. m5' \in [Links -> 0 .. (ProbeTtl + 1)] /\ (ok => m5'[u] = 0)
        /\ \A v \in Links : m5'[v] = m5[v] \/ m5'[v] = 0
    <2> HIDE DEF u, place
    <2> QED
      BY <1>1, <1>2, <1>3
  <1>8. m4' \in [Callers -> Asks] /\ AsksFound' /\ Sends
    <2>1. /\ \A v \in Links : m5[v] < ProbeTtl => m5'[v] < ProbeTtl
          /\ ok => m5'[u] < ProbeTtl
      BY <1>1, <1>7
    <2>2. m4[c].at # "deliver"
      BY <1>4
    <2> HIDE DEF u, place
    <2> QED
      BY <1>2, <1>5, <1>7, <2>1, <2>2, JudgedGoes
  <1>9. AnswersFound'
    <2> SUFFICES ASSUME NEW v \in Links, m2'[v].held, m2'[v].ok, m2'[v].left > 0
                 PROVE  m5'[v] + m2'[v].left <= ProbeTtl
      BY DEF AnswersFound
    <2> HIDE DEF u, place
    <2>1. CASE v = u
      BY <1>1, <1>6, <1>7, <2>1
    <2>2. CASE v # u
      <3>1. m2'[v] = m2[v] /\ m2'[v] \in Answer
        BY <1>6, <2>2
      <3>2. m2[v].left \in Nat /\ m2[v].left <= ProbeTtl /\ m5[v] \in Nat
        BY <1>1, <3>1 DEF Answer
      <3>3. m5[v] + m2[v].left <= ProbeTtl
        BY <1>1, <3>1 DEF AnswersFound
      <3> QED
        BY <1>1, <1>7, <3>1, <3>2, <3>3
    <2> QED
      BY <2>1, <2>2
  <1>10. LinkFound'
    BY <1>1, <1>3 DEF LinkFound
  <1> QED
    BY <1>5, <1>6, <1>7, <1>8, <1>9, <1>10 DEF PlaybackInv

(* A downgrade that is over had its latest failure long enough ago.         *)
LEMMA DeliverGoes ==
    ASSUME PlaybackInv, NEW c \in Callers, Redirect!Deliver(c)
    PROVE  PlaybackInv' /\ Sends
  <1> DEFINE u == m4[c].url
  <1>1. /\ m1' = m1 /\ m2' = m2 /\ m5' = m5 /\ m6' = m6 /\ m4[c].at = "deliver"
        /\ m3' = IF Redirect!Asked(u) THEN [m3 EXCEPT ![[x \in {U, V} |-> "h"][u]] = Redirect!NoState]
                 ELSE m3
        /\ Goes(c, "idle", u) \/ Goes(c, "idle", None)
    BY DEF Redirect!Deliver, Redirect!Goes, Goes
  <1>2. /\ m4 \in [Callers -> Asks] /\ AsksFound /\ m3 \in [{"h"} -> Health] /\ None \notin Links
        /\ u \in Links \cup {None}
    BY PlaybackConst DEF PlaybackInv, HealthInv, Asks
  <1>3. m4' \in [Callers -> Asks] /\ AsksFound' /\ Sends
    <2>1. PICK w \in {u, None} : Goes(c, "idle", w)
      BY <1>1
    <2> DEFINE q == [at |-> "idle", url |-> w]
    <2>2. q \in Asks /\ q.at = "idle" /\ q.url = w
      BY <1>2 DEF Asks, Redirect!Places
    <2>3. m4' = [m4 EXCEPT ![c] = q]
      BY <2>1 DEF Goes
    <2> HIDE DEF q
    <2>4. m4' \in [Callers -> Asks] /\ m4'[c] = q /\ \A d \in Callers : d # c => m4'[d] = m4[d]
      BY <1>2, <2>2, <2>3
    <2> QED
      BY <1>1, <1>2, <2>2, <2>4 DEF AsksFound, Sends
  <1>4. HealthInv'
    <2>1. CASE Redirect!Asked(u)
      <3> DEFINE s == m3["h"]
                 f == m6["h"]
                 n == Redirect!NoState
      <3>1. u \in Links
        BY <1>2, <2>1 DEF Redirect!Asked
      <3>2. m3' = [m3 EXCEPT !["h"] = n] /\ s.count = Threshold /\ s.left = 0
        BY <1>1, <2>1, <3>1, HostOf DEF Redirect!Asked, Redirect!Over
      <3>3. n \in Health /\ n.count = 0 /\ n.left = 0 /\ n.since = 0
        BY PlaybackConst DEF Redirect!NoState, Health
      <3>4. Agrees(s, f) /\ s.since \in Nat
        BY <1>2 DEF PlaybackInv, HealthInv, Health
      <3> HIDE DEF s, f, n
      <3>5. f \in Seq(0 .. Window) /\ Len(f) <= Threshold
            /\ \A i, j \in DOMAIN f : i <= j => f[i] <= f[j]
        BY <3>4 DEF Agrees
      <3>6. DOMAIN f = 1 .. Len(f) /\ Len(f) \in Nat /\ \A i \in DOMAIN f : f[i] \in 0 .. Window
        BY <3>5, Elements
      <3>7. \A i \in DOMAIN f : f[i] >= StickyTtl
        <4> SUFFICES ASSUME NEW i \in DOMAIN f PROVE f[i] >= StickyTtl
          OBVIOUS
        <4>1. 1 \in DOMAIN f /\ 1 <= i
          BY <3>6
        <4>2. f[1] <= f[i] /\ f[1] \in Nat /\ f[i] \in Nat
          BY <3>5, <3>6, <4>1, WindowLong
        <4>3. s.since >= StickyTtl
          BY <3>2, <3>4, PlaybackConst DEF Agrees
        <4>4. s.since = IF f[1] <= StickyTtl THEN f[1] ELSE StickyTtl + 1
          BY <3>2, <3>4, PlaybackConst DEF Agrees
        <4> QED
          BY <4>2, <4>3, <4>4, PlaybackConst
      <3>8. Agrees(n, f)
        <4>1. \A i \in DOMAIN f : f[i] < StickyTtl => i <= n.count
          BY <3>6, <3>7, WindowLong, PlaybackConst
        <4>2. n.count <= Len(f) /\ (n.count > 0 => FALSE)
          BY <3>3, <3>6
        <4>3. n.left = IF n.count = Threshold /\ n.since < StickyTtl THEN StickyTtl - n.since ELSE 0
          BY <3>3, PlaybackConst
        <4>4. \A i \in 1 .. (n.count - 1) : f[i + 1] <= f[i] + StickyTtl
          BY <3>3
        <4>5. n.count = 0 => n.since = 0
          BY <3>3
        <4> QED
          BY <3>5, <4>1, <4>2, <4>3, <4>4, <4>5 DEF Agrees
      <3>9. m3' \in [{"h"} -> Health] /\ m3'["h"] = n /\ m6'["h"] = f
        BY <1>1, <1>2, <3>2, <3>3 DEF f
      <3> QED
        BY <1>1, <3>8, <3>9 DEF PlaybackInv, HealthInv
    <2>2. CASE ~Redirect!Asked(u)
      BY <1>1, <2>2, HealthSame
    <2> QED
      BY <2>1, <2>2
  <1>5. AnswersFound' /\ LinkFound' /\ m2' \in [Links -> Answer]
        /\ m5' \in [Links -> 0 .. (ProbeTtl + 1)]
    BY <1>1 DEF PlaybackInv, AnswersFound, LinkFound
  <1> QED
    BY <1>3, <1>4, <1>5 DEF PlaybackInv


LEMMA Ages ==
    ASSUME PlaybackInv, Redirect!Tick
    PROVE  /\ m2' \in [Links -> Answer] /\ m5' \in [Links -> 0 .. (ProbeTtl + 1)]
           /\ LinkFound' /\ AnswersFound'
  <1>1. /\ m1' = IF m1.left <= 1 THEN Redirect!NoLink ELSE [m1 EXCEPT !.left = @ - 1]
        /\ m2' = [u \in Links |-> [m2[u] EXCEPT !.left = Redirect!Less(@)]]
        /\ m5' = [u \in Links |-> Redirect!More(m5[u], ProbeTtl + 1)]
    BY DEF Redirect!Tick, Links
  <1>2. /\ m2 \in [Links -> Answer] /\ m5 \in [Links -> 0 .. (ProbeTtl + 1)] /\ AnswersFound
        /\ LinkFound /\ ProbeTtl \in Nat /\ ProbeTtl > 0 /\ LinkTtl \in Nat /\ LinkTtl > 0
    BY PlaybackConst DEF PlaybackInv
  <1>3. ASSUME NEW u \in Links
        PROVE  /\ m2'[u] \in Answer /\ m2'[u].held = m2[u].held /\ m2'[u].ok = m2[u].ok
               /\ m2'[u].left = Redirect!Less(m2[u].left) /\ m2[u].left \in 0 .. ProbeTtl
    <2>1. m2[u] \in Answer /\ m2'[u] = [m2[u] EXCEPT !.left = Redirect!Less(@)]
      BY <1>1, <1>2
    <2>2. m2[u].left \in 0 .. ProbeTtl /\ Redirect!Less(m2[u].left) \in 0 .. ProbeTtl
      BY <1>2, <2>1 DEF Answer, Redirect!Less
    <2> QED
      BY <2>1, <2>2 DEF Answer
  <1>4. ASSUME NEW u \in Links
        PROVE  m5'[u] \in 0 .. (ProbeTtl + 1) /\ m5[u] \in Nat /\ m5'[u] <= m5[u] + 1
    <2>1. m5[u] \in 0 .. (ProbeTtl + 1)
          /\ m5'[u] = IF m5[u] = ProbeTtl + 1 THEN ProbeTtl + 1 ELSE m5[u] + 1
      BY <1>1, <1>2 DEF Redirect!More
    <2> QED
      BY <1>2, <2>1
  <1>5. m2' \in [Links -> Answer] /\ m5' \in [Links -> 0 .. (ProbeTtl + 1)]
    BY <1>1, <1>3, <1>4
  <1>6. AnswersFound'
    <2> SUFFICES ASSUME NEW v \in Links, m2'[v].held, m2'[v].ok, m2'[v].left > 0
                 PROVE  m5'[v] + m2'[v].left <= ProbeTtl
      BY DEF AnswersFound
    <2>1. m2[v].left > 0 /\ m2'[v].left = m2[v].left - 1
      BY <1>3 DEF Redirect!Less
    <2>2. m5[v] + m2[v].left <= ProbeTtl
      BY <1>2, <1>3, <2>1 DEF AnswersFound
    <2> QED
      BY <1>2, <1>3, <1>4, <2>1, <2>2
  <1>7. LinkFound'
    <2>1. m1 \in Cached /\ m1.left \in 0 .. LinkTtl
      BY <1>2 DEF LinkFound, Cached
    <2>2. CASE m1.left <= 1
      <3>1. m1' \in Cached /\ m1'.left = 0
        <4>1. m1' = [url |-> None, left |-> 0]
          BY <1>1, <2>2 DEF Redirect!NoLink
        <4> QED
          BY <1>2, <4>1 DEF Cached
      <3> QED
        BY <3>1 DEF LinkFound
    <2>3. CASE m1.left > 1
      <3>1. m1' = [m1 EXCEPT !.left = m1.left - 1] /\ m1.left - 1 \in 0 .. LinkTtl
        <4>1. m1' = [m1 EXCEPT !.left = m1.left - 1]
          BY <1>1, <1>2, <2>1, <2>3
        <4>2. m1.left - 1 \in 0 .. LinkTtl
          BY <1>2, <2>1, <2>3
        <4> QED
          BY <4>1, <4>2
      <3>2. m1' \in Cached /\ m1'.url = m1.url
        <4> DEFINE l == m1.left - 1
        <4>1. m1' = [m1 EXCEPT !.left = l] /\ l \in 0 .. LinkTtl
          BY <3>1
        <4> HIDE DEF l
        <4> QED
          BY <2>1, <4>1 DEF Cached
      <3> QED
        <4>1. m1.left > 0
          BY <1>2, <2>1, <2>3
        <4>2. m1.url \in Links
          BY <1>2, <4>1 DEF LinkFound
        <4> QED
          BY <3>2, <4>2 DEF LinkFound
    <2> QED
      BY <2>1, <2>2, <2>3
  <1> QED
    BY <1>5, <1>6, <1>7

LEMMA HealthAges ==
    ASSUME PlaybackInv, Redirect!Tick
    PROVE  HealthInv'
  <1> DEFINE s == m3["h"]
             f == m6["h"]
             t == m3'["h"]
             g == m6'["h"]
  <1>1. /\ m3' = [h \in {"h"} |-> IF m3[h] = Redirect!NoState THEN Redirect!NoState
                    ELSE [m3[h] EXCEPT !.left = Redirect!Less(@), !.since = Redirect!More(@, StickyTtl + 1)]]
        /\ m6' = [h \in {"h"} |-> [i \in DOMAIN m6[h] |-> Redirect!More(m6[h][i], Redirect!Long)]]
        /\ Redirect!Long = Window
    BY DEF Redirect!Tick, Redirect!Long, Window
  <1>2. s \in Health /\ Agrees(s, f)
    BY DEF PlaybackInv, HealthInv
  <1>3. t = IF s = Redirect!NoState THEN Redirect!NoState
            ELSE [s EXCEPT !.left = Redirect!Less(@), !.since = Redirect!More(@, StickyTtl + 1)]
    BY <1>1
  <1>4. g = [i \in DOMAIN f |-> Redirect!More(f[i], Window)]
    BY <1>1
  <1>5. DOMAIN m6' = {"h"} /\ m6' = [h \in {"h"} |-> g] /\ m3' = [h \in {"h"} |-> t]
    BY <1>1
  <1> HIDE DEF s, f, t, g
  <1>6. /\ Threshold \in Nat /\ Threshold > 0 /\ StickyTtl \in Nat /\ StickyTtl > 0
        /\ Window \in Nat /\ Window >= StickyTtl + 1
    BY PlaybackConst, WindowLong
  <1>7. s.count \in 0 .. Threshold /\ s.left \in 0 .. StickyTtl /\ s.since \in 0 .. (StickyTtl + 1)
    BY <1>2 DEF Health
  <1>8. f \in Seq(0 .. Window) /\ Len(f) <= Threshold
        /\ \A i, j \in DOMAIN f : i <= j => f[i] <= f[j]
    BY <1>2 DEF Agrees
  <1>9. DOMAIN f = 1 .. Len(f) /\ Len(f) \in Nat /\ \A i \in DOMAIN f : f[i] \in 0 .. Window
    BY <1>8, Elements
  <1>10. \A i \in DOMAIN f : /\ g[i] = IF f[i] = Window THEN Window ELSE f[i] + 1
                             /\ g[i] \in 0 .. Window
    <2> SUFFICES ASSUME NEW i \in DOMAIN f
                 PROVE  g[i] = (IF f[i] = Window THEN Window ELSE f[i] + 1) /\ g[i] \in 0 .. Window
      OBVIOUS
    <2>1. g[i] = IF f[i] = Window THEN Window ELSE f[i] + 1
      BY <1>4 DEF Redirect!More
    <2>2. f[i] \in 0 .. Window
      BY <1>9
    <2> QED
      BY <1>6, <2>1, <2>2
  <1>11. g \in Seq(0 .. Window) /\ Len(g) = Len(f) /\ DOMAIN g = DOMAIN f
    <2>1. g \in [1 .. Len(f) -> 0 .. Window]
      BY <1>4, <1>9, <1>10
    <2>2. g = [i \in 1 .. Len(f) |-> g[i]]
      BY <2>1
    <2> DEFINE n == Len(f)
               W == 0 .. Window
    <2>3. n \in Nat /\ g \in [1 .. n -> W]
      BY <1>9, <2>1
    <2> HIDE DEF n, W
    <2>4. g \in Seq(W) /\ Len(g) = n
      BY <2>3
    <2> QED
      BY <1>9, <2>1, <2>4 DEF n, W
  <1>12. \A i, j \in DOMAIN g : i <= j => g[i] <= g[j]
    <2> SUFFICES ASSUME NEW i \in DOMAIN f, NEW j \in DOMAIN f, i <= j PROVE g[i] <= g[j]
      BY <1>11
    <2>1. f[i] <= f[j] /\ f[i] \in 0 .. Window /\ f[j] \in 0 .. Window
      BY <1>8, <1>9
    <2>2. /\ g[i] = IF f[i] = Window THEN Window ELSE f[i] + 1
          /\ g[j] = IF f[j] = Window THEN Window ELSE f[j] + 1
      BY <1>10
    <2> QED
      BY <1>6, <2>1, <2>2
  <1>13. s = Redirect!NoState <=> s.count = 0
    <2>1. s.count = 0 => s.left = 0 /\ s.since = 0
      BY <1>2, <1>6 DEF Agrees
    <2> QED
      BY <1>2, <2>1 DEF Health, Redirect!NoState
  <1>14. CASE s = Redirect!NoState
    <2>1. t = s /\ s.count = 0
      BY <1>3, <1>13, <1>14
    <2>2. s.left = 0 /\ s.since = 0
      BY <1>2, <1>6, <2>1 DEF Agrees
    <2>3. \A i \in DOMAIN g : g[i] < StickyTtl => i <= t.count
      <3> SUFFICES ASSUME NEW i \in DOMAIN f, g[i] < StickyTtl PROVE i <= s.count
        BY <1>11, <2>1
      <3>1. f[i] \in 0 .. Window /\ g[i] = IF f[i] = Window THEN Window ELSE f[i] + 1
        BY <1>9, <1>10
      <3>2. f[i] < StickyTtl
        BY <1>6, <3>1
      <3> QED
        BY <1>2, <3>2 DEF Agrees
    <2>4. t.left = IF t.count = Threshold /\ t.since < StickyTtl THEN StickyTtl - t.since ELSE 0
      BY <1>6, <2>1, <2>2
    <2>5. t.count <= Len(g)
      BY <1>9, <1>11, <2>1
    <2>6. t.count = 0 /\ t.since = 0
      BY <2>1, <2>2
    <2>7. \A i \in 1 .. (t.count - 1) : g[i + 1] <= g[i] + StickyTtl
      BY <2>6
    <2>8. Len(g) <= Threshold
      BY <1>8, <1>11
    <2>9. Agrees(t, g)
      BY <1>11, <1>12, <2>3, <2>4, <2>5, <2>6, <2>7, <2>8 DEF Agrees
    <2> QED
      BY <1>2, <1>5, <2>1, <2>9 DEF HealthInv
  <1>15. CASE s # Redirect!NoState
    <2>1. s.count > 0
      BY <1>7, <1>13, <1>15
    <2>2. t = [s EXCEPT !.left = Redirect!Less(s.left), !.since = Redirect!More(s.since, StickyTtl + 1)]
      BY <1>3, <1>15
    <2>3. /\ t.count = s.count
          /\ t.left = IF s.left = 0 THEN 0 ELSE s.left - 1
          /\ t.since = IF s.since = StickyTtl + 1 THEN StickyTtl + 1 ELSE s.since + 1
      BY <1>2, <2>2 DEF Health, Redirect!Less, Redirect!More
    <2>4. t.left \in 0 .. StickyTtl /\ t.since \in 0 .. (StickyTtl + 1)
      BY <1>6, <1>7, <2>3
    <2>5. t \in Health
      BY <1>2, <2>2, <2>3, <2>4 DEF Health
    <2>6. s.count <= Len(f) /\ 1 \in DOMAIN f
      BY <1>2, <1>7, <1>9, <2>1 DEF Agrees
    <2>7. /\ s.since = IF f[1] <= StickyTtl THEN f[1] ELSE StickyTtl + 1
          /\ f[1] \in 0 .. Window /\ g[1] = IF f[1] = Window THEN Window ELSE f[1] + 1
      BY <1>2, <1>9, <1>10, <2>1, <2>6 DEF Agrees
    <2>8. t.since = IF g[1] <= StickyTtl THEN g[1] ELSE StickyTtl + 1
      BY <1>6, <1>7, <2>3, <2>7
    <2>9. s.left = IF s.count = Threshold /\ s.since < StickyTtl THEN StickyTtl - s.since ELSE 0
      BY <1>2 DEF Agrees
    <2>10. t.left = IF t.count = Threshold /\ t.since < StickyTtl THEN StickyTtl - t.since ELSE 0
      BY <1>6, <1>7, <2>3, <2>9
    <2>11. \A i \in 1 .. (t.count - 1) : g[i + 1] <= g[i] + StickyTtl
      <3> SUFFICES ASSUME NEW i \in 1 .. (s.count - 1) PROVE g[i + 1] <= g[i] + StickyTtl
        BY <2>3
      <3>1. i \in DOMAIN f /\ i + 1 \in DOMAIN f
        BY <1>7, <1>9, <2>6
      <3>2. f[i + 1] <= f[i] + StickyTtl
        BY <1>2 DEF Agrees
      <3>3. /\ f[i] \in 0 .. Window /\ f[i + 1] \in 0 .. Window
            /\ g[i] = IF f[i] = Window THEN Window ELSE f[i] + 1
            /\ g[i + 1] = IF f[i + 1] = Window THEN Window ELSE f[i + 1] + 1
        BY <1>9, <1>10, <3>1
      <3> QED
        BY <1>6, <3>2, <3>3
    <2>12. \A i \in DOMAIN g : g[i] < StickyTtl => i <= t.count
      <3> SUFFICES ASSUME NEW i \in DOMAIN f, g[i] < StickyTtl PROVE i <= s.count
        BY <1>11, <2>3
      <3>1. f[i] \in 0 .. Window /\ g[i] = IF f[i] = Window THEN Window ELSE f[i] + 1
        BY <1>9, <1>10
      <3>2. f[i] < StickyTtl
        BY <1>6, <3>1
      <3> QED
        BY <1>2, <3>2 DEF Agrees
    <2>13. t.count <= Len(g) /\ ~(t.count = 0) /\ Len(g) <= Threshold
      BY <1>7, <1>8, <1>11, <2>1, <2>3, <2>6
    <2>14. Agrees(t, g)
      BY <1>11, <1>12, <2>8, <2>10, <2>11, <2>12, <2>13 DEF Agrees
    <2> QED
      BY <1>5, <2>5, <2>14 DEF HealthInv
  <1> QED
    BY <1>14, <1>15

LEMMA TickGoes ==
    ASSUME PlaybackInv, Redirect!Tick
    PROVE  PlaybackInv' /\ Sends
  <1>1. m4' = m4 /\ \A c \in Callers : m4[c].at # "deliver"
    BY DEF Redirect!Tick
  <1>2. m4' \in [Callers -> Asks] /\ AsksFound' /\ Sends
    BY <1>1 DEF PlaybackInv, AsksFound, Sends
  <1> QED
    BY <1>2, Ages, HealthAges DEF PlaybackInv

LEMMA PlaybackStep ==
    ASSUME PlaybackInv, [Redirect!Next]_(Redirect!vars)
    PROVE  PlaybackInv' /\ Redirect!DirectWasPlayable
  <1>1. /\ m1 \in Cached /\ m2 \in [Links -> Answer] /\ m4 \in [Callers -> Asks]
        /\ m5 \in [Links -> 0 .. (ProbeTtl + 1)]
        /\ LinkFound /\ AnswersFound /\ AsksFound /\ HealthInv /\ None \notin Links
    BY PlaybackConst DEF PlaybackInv, LinkFound
  <1>2. \A v \in Links : m5[v] < ProbeTtl => m5[v] < ProbeTtl
    OBVIOUS
  <1>3. ASSUME PlaybackInv' /\ Sends PROVE Redirect!DirectWasPlayable
    <2> SUFFICES ASSUME NEW c \in Callers, m4[c].at = "deliver", m4'[c].url # None
                 PROVE  m5[m4'[c].url] < ProbeTtl
      BY DEF Redirect!DirectWasPlayable
    <2>1. m4'[c].url = m4[c].url
      BY <1>3 DEF Sends
    <2> QED
      BY <1>1, <2>1 DEF AsksFound
  <1>4. PlaybackInv' /\ Sends
    <2>1. ASSUME NEW c \in Callers, Redirect!Begin(c) PROVE PlaybackInv' /\ Sends
      <3>1. m4[c].at # "deliver" /\ m1' = m1 /\ m5' = m5
        BY <2>1 DEF Redirect!Begin
      <3>2. CASE m1.left > 0
        <4>1. m1.url \in Links /\ Redirect!Probe(c, m1.url, "probing")
          BY <1>1, <2>1, <3>2 DEF Redirect!Begin, LinkFound
        <4>2. /\ m2' \in [Links -> Answer] /\ m4' \in [Callers -> Asks]
              /\ AnswersFound' /\ AsksFound' /\ HealthInv' /\ Sends
          BY <3>1, <4>1, ProbeGoes
        <4> QED
          BY <1>1, <3>1, <4>2 DEF PlaybackInv, LinkFound
      <3>3. CASE ~(m1.left > 0)
        <4>1. Goes(c, "resolve", None) /\ m2' = m2 /\ m3' = m3 /\ m6' = m6
          BY <2>1, <3>3 DEF Redirect!Begin, Redirect!Goes, Goes
        <4>2. m4' \in [Callers -> Asks] /\ AsksFound' /\ Sends
          BY <1>1, <1>2, <3>1, <4>1, AskGoes DEF Redirect!Places
        <4> QED
          BY <1>1, <3>1, <4>1, <4>2, HealthSame DEF PlaybackInv, LinkFound, AnswersFound
      <3> QED
        BY <3>2, <3>3
    <2>2. ASSUME NEW c \in Callers, Redirect!Resolved(c) PROVE PlaybackInv' /\ Sends
      <3>1. m4[c].at # "deliver" /\ m5' = m5
        BY <2>2 DEF Redirect!Resolved
      <3>2. PICK u \in Links : m1' = [url |-> u, left |-> LinkTtl] /\ Redirect!Probe(c, u, "probing")
        BY <2>2 DEF Redirect!Resolved, Links
      <3>3. /\ m2' \in [Links -> Answer] /\ m4' \in [Callers -> Asks]
            /\ AnswersFound' /\ AsksFound' /\ HealthInv' /\ Sends
        BY <3>1, <3>2, ProbeGoes
      <3>4. LinkFound'
        BY <3>2, PlaybackConst DEF LinkFound, Cached
      <3> QED
        BY <1>1, <3>1, <3>3, <3>4 DEF PlaybackInv
    <2>3. ASSUME NEW c \in Callers, Redirect!Unresolved(c) PROVE PlaybackInv' /\ Sends
      <3>1. /\ m4[c].at # "deliver" /\ m1' = m1 /\ m2' = m2 /\ m3' = m3 /\ m5' = m5 /\ m6' = m6
            /\ Goes(c, "deliver", None)
        BY <2>3 DEF Redirect!Unresolved, Redirect!Goes, Goes
      <3>2. m4' \in [Callers -> Asks] /\ AsksFound' /\ Sends
        BY <1>1, <1>2, <3>1, AskGoes DEF Redirect!Places
      <3> QED
        BY <1>1, <3>1, <3>2, HealthSame DEF PlaybackInv, LinkFound, AnswersFound
    <2>4. ASSUME NEW c \in Callers, Redirect!Transcoded(c) PROVE PlaybackInv' /\ Sends
      <3>1. m4[c].at # "deliver" /\ m1' = m1 /\ m5' = m5
        BY <2>4 DEF Redirect!Transcoded
      <3>2. ASSUME NEW u \in Links, Redirect!Probe(c, u, "checking") PROVE PlaybackInv' /\ Sends
        <4>1. /\ m2' \in [Links -> Answer] /\ m4' \in [Callers -> Asks]
              /\ AnswersFound' /\ AsksFound' /\ HealthInv' /\ Sends
          BY <3>1, <3>2, ProbeGoes
        <4> QED
          BY <1>1, <3>1, <4>1 DEF PlaybackInv, LinkFound
      <3>3. CASE Goes(c, "deliver", None) /\ m2' = m2 /\ m3' = m3 /\ m6' = m6
        <4>1. m4' \in [Callers -> Asks] /\ AsksFound' /\ Sends
          BY <1>1, <1>2, <3>1, <3>3, AskGoes DEF Redirect!Places
        <4> QED
          BY <1>1, <3>1, <3>3, <4>1, HealthSame DEF PlaybackInv, LinkFound, AnswersFound
      <3>4. \/ \E u \in Links : Redirect!Probe(c, u, "checking")
            \/ Goes(c, "deliver", None) /\ m2' = m2 /\ m3' = m3 /\ m6' = m6
        BY <2>4 DEF Redirect!Transcoded, Redirect!Second, Redirect!Goes, Goes, Links
      <3> QED
        BY <3>2, <3>3, <3>4
    <2>5. CASE Redirect!clear_cache
      <3>1. m1' = Redirect!NoLink /\ m2' = m2 /\ m3' = m3 /\ m4' = m4 /\ m5' = m5 /\ m6' = m6
        BY <2>5 DEF Redirect!clear_cache
      <3>2. LinkFound'
        BY <3>1, PlaybackConst DEF LinkFound, Cached, Redirect!NoLink
      <3>3. Sends
        BY <3>1 DEF Sends
      <3> QED
        BY <1>1, <3>1, <3>2, <3>3, HealthSame DEF PlaybackInv, AnswersFound, AsksFound
    <2>6. CASE UNCHANGED Redirect!vars
      <3>1. m1' = m1 /\ m2' = m2 /\ m3' = m3 /\ m4' = m4 /\ m5' = m5 /\ m6' = m6
        BY <2>6 DEF Redirect!vars
      <3> QED
        BY <1>1, <3>1, HealthSame DEF PlaybackInv, LinkFound, AnswersFound, AsksFound, Sends
    <2>7. \/ Redirect!Tick \/ Redirect!clear_cache \/ UNCHANGED Redirect!vars
          \/ \E c \in Callers : \/ Redirect!Begin(c) \/ Redirect!Resolved(c) \/ Redirect!Unresolved(c)
                                \/ Redirect!Transcoded(c) \/ Redirect!Deliver(c)
                                \/ \E ok \in BOOLEAN : Redirect!Probed(c, ok)
      BY DEF Redirect!Next
    <2> QED
      BY <2>1, <2>2, <2>3, <2>4, <2>5, <2>6, <2>7, TickGoes, DeliverGoes, ProbedGoes
  <1> QED
    BY <1>3, <1>4

-----------------------------------------------------------------------------
(* ScrapeService.                                                           *)
(* The order of the numbers is well-founded, so that a set of them has a    *)
(* least one.                                                               *)
LEMMA LessWellFounded == IsWellFoundedOn({p \in Nat \X Nat : p[1] < p[2]}, Nat)
  <1>1. OpToRel(<, Nat) = {p \in Nat \X Nat : p[1] < p[2]}
    BY DEF OpToRel
  <1> QED
    BY <1>1, NatLessThanWellFounded

LEMMA LeastNumber ==
    ASSUME NEW S, S \subseteq Nat, S # {}
    PROVE  \E n \in S : \A m \in S : n <= m
  <1> DEFINE R == {p \in Nat \X Nat : p[1] < p[2]}
  <1>1. PICK n \in S : \A m \in S : <<m, n>> \notin R
    BY LessWellFounded, WFMin
  <1>2. \A m \in S : m < n => <<m, n>> \in R
    OBVIOUS
  <1>3. \A m \in S : ~(m < n)
    BY <1>1, <1>2
  <1> QED
    BY <1>1, <1>3

(* Links can be followed, also if they went round: there is a function that *)
(* does.                                                                    *)
LEMMA LinksFollowed ==
    ASSUME NEW P, NEW f
    PROVE  \E r : r = [p \in P |-> IF f[p] \in P THEN r[f[p]] ELSE p]
  <1> DEFINE Closed(S) == \A x \in S : f[x] \in P => f[x] \in S
             Ends(p) == {q \in P : f[q] \notin P /\ \A S \in SUBSET P : p \in S /\ Closed(S) => q \in S}
             r == [p \in P |-> CHOOSE q : q \in Ends(p)]
  <1>1. ASSUME NEW p \in P, f[p] \in P PROVE Ends(p) = Ends(f[p])
    <2>1. ASSUME NEW q \in Ends(f[p]) PROVE q \in Ends(p)
      <3>1. \A S \in SUBSET P : p \in S /\ Closed(S) => f[p] \in S /\ Closed(S)
        BY <1>1
      <3> QED
        BY <2>1, <3>1
    <2>2. ASSUME NEW q \in Ends(p) PROVE q \in Ends(f[p])
      <3> SUFFICES ASSUME NEW S \in SUBSET P, f[p] \in S, Closed(S) PROVE q \in S
        BY <2>2
      <3>1. S \cup {p} \in SUBSET P /\ Closed(S \cup {p})
        BY <1>1
      <3>2. q \in S \cup {p}
        BY <2>2, <3>1
      <3> QED
        BY <1>1, <2>2, <3>2
    <2> QED
      BY <2>1, <2>2
  <1>2. ASSUME NEW p \in P, f[p] \notin P PROVE Ends(p) = {p}
    <2>1. Closed({p}) /\ {p} \in SUBSET P
      BY <1>2
    <2>2. \A q \in Ends(p) : q = p
      BY <2>1
    <2>3. p \in Ends(p)
      BY <1>2
    <2> QED
      BY <2>2, <2>3
  <1>3. \A p \in P : r[p] = CHOOSE q : q \in Ends(p)
    OBVIOUS
  <1> HIDE DEF Ends
  <1>4. \A p \in P : r[p] = IF f[p] \in P THEN r[f[p]] ELSE p
    <2> SUFFICES ASSUME NEW p \in P PROVE r[p] = IF f[p] \in P THEN r[f[p]] ELSE p
      OBVIOUS
    <2>1. CASE f[p] \in P
      BY <1>1, <1>3, <2>1
    <2>2. CASE f[p] \notin P
      <3>1. r[p] \in Ends(p)
        BY <1>2, <1>3, <2>2
      <3> QED
        BY <1>2, <2>2, <3>1
    <2> QED
      BY <2>1, <2>2
  <1>5. r = [p \in P |-> r[p]]
    OBVIOUS
  <1> HIDE DEF r
  <1>6. r = [p \in P |-> IF f[p] \in P THEN r[f[p]] ELSE p]
    BY <1>4, <1>5
  <1> QED
    BY <1>6
-----------------------------------------------------------------------------
LEMMA RealIs ==
    Scraped!Real = [p \in Scraped!Path |-> IF m1[p] \in Scraped!Path THEN Scraped!Real[m1[p]] ELSE p]
  <1> DEFINE P == Scraped!Path
             F(r) == [p \in P |-> IF m1[p] \in P THEN r[m1[p]] ELSE p]
  <1>1. \E r : r = F(r)
    BY LinksFollowed
  <1>2. Scraped!Real = CHOOSE r : r = F(r)
    BY DEF Scraped!Real
  <1> HIDE DEF F
  <1>3. Scraped!Real = F(Scraped!Real)
    BY <1>1, <1>2
  <1> QED
    BY <1>3 DEF F

LEMMA NoLink ==
    ASSUME NEW p \in Scraped!Path, m1[p] \notin Scraped!Path
    PROVE  Scraped!Exists(p) <=> m1[p] # None
  <1>1. Scraped!Real[p] = p
    BY RealIs
  <1> QED
    BY <1>1 DEF Scraped!Exists

(* What may be at a path, and the videos.                                   *)
Held   == {None} \cup Scraped!Whole \cup Scraped!Path
Order  == [at : {"pending", "running", "ended"}, todo : SUBSET Scraped!Path,
           mode : Scraped!RenameModes, force : BOOLEAN]

ScrapeInv == Scraped!TypeOK /\ Scraped!VideosKept

LEMMA ScrapeConst ==
    /\ None \notin Scraped!Path /\ None \notin Scraped!Videos /\ Part # None
    /\ MaxNumber \in Nat /\ None \notin Scraped!Whole
    /\ \A p \in Scraped!Targets, n \in 0 .. MaxNumber :
          p \in Scraped!Path /\ Scraped!Numbered(p, n) \in Scraped!Path
  <1>1. /\ None \notin Scraped!Path /\ None \notin Scraped!Videos /\ Part # None
        /\ MaxNumber \in Nat
    BY ScrapeConstants DEF Scraped!ScrapeFilesAssumption
  <1>2. None \notin Scraped!Whole
    BY <1>1 DEF Scraped!Whole
  <1>3. ASSUME NEW p \in Scraped!Targets, NEW n \in 0 .. MaxNumber
        PROVE  p \in Scraped!Path /\ Scraped!Numbered(p, n) \in Scraped!Path
    BY <1>1 DEF Scraped!Targets, Scraped!Numbered, Scraped!Path
  <1> QED
    BY <1>1, <1>2, <1>3

LEMMA ScrapeInit == Scraped!Init => ScrapeInv
  <1> SUFFICES ASSUME Scraped!Init PROVE ScrapeInv
    OBVIOUS
  <1> DEFINE H == [x \in {v1, v2} |-> <<Lib, IF x = v1 THEN X ELSE Y, 0>>]
             At(p) == IF \E v \in Scraped!Videos : H[v] = p
                      THEN CHOOSE v \in Scraped!Videos : H[v] = p ELSE None
  <1>1. /\ m1 = [p \in Scraped!Path |-> At(p)]
        /\ m2 = [j \in Jobs |-> Scraped!Pending] /\ m3 = {}
    BY DEF Scraped!Init
  <1>2. /\ \A v \in Scraped!Videos : H[v] \in Scraped!Path
        /\ \A v, w \in Scraped!Videos : H[v] = H[w] => v = w
    <2>1. /\ H \in [Scraped!Videos -> Scraped!Targets]
          /\ \A v, w \in Scraped!Videos : H[v] = H[w] => v = w
      BY ScrapeConstants DEF Scraped!ScrapeFilesAssumption, Scraped!Targets
    <2>2. \A p \in Scraped!Targets : p \in Scraped!Path
      BY ScrapeConst DEF Scraped!Path
    <2> QED
      BY <2>1, <2>2
  <1> HIDE DEF H
  <1>3. \A p \in Scraped!Path : At(p) \in Scraped!Videos \cup {None}
    OBVIOUS
  <1>4. \A v \in Scraped!Videos : At(H[v]) = v
    BY <1>2
  <1> HIDE DEF At
  <1>5. m1 \in [Scraped!Path -> {None} \cup Scraped!Whole \cup Scraped!Path]
    BY <1>1, <1>3 DEF Scraped!Whole
  <1>6. Scraped!VideosKept
    BY <1>1, <1>2, <1>4 DEF Scraped!VideosKept
  <1>7. Scraped!Pending \in Order
    BY DEF Scraped!Pending, Order, Scraped!RenameModes
  <1> QED
    BY <1>1, <1>5, <1>6, <1>7 DEF ScrapeInv, Scraped!TypeOK, Order

(* The files g after an operation from p to q, where there is nothing.      *)
LEMMA Operated ==
    ASSUME NEW g \in [Scraped!Path -> Held], NEW p \in Scraped!Path, NEW q \in Scraped!Path,
           NEW mode \in Scraped!RenameModes, NEW h \in Scraped!Outcomes(mode, g, p, q),
           g[p] # None, g[q] \in Scraped!Path \/ g[q] = None
    PROVE  /\ h \in [Scraped!Path -> Held]
           /\ \A v \in Scraped!Videos : (\E x \in Scraped!Path : g[x] = v)
                                          => \E x \in Scraped!Path : h[x] = v
           /\ \A x \in Scraped!Path : g[x] # None /\ h[x] # g[x] => x = p /\ mode = "move"
  <1>1. CASE h = g
    BY <1>1
  <1>2. CASE h # g
    <2>1. g[q] = None /\ p # q
      BY <1>2, ScrapeConst DEF Scraped!Outcomes
    <2>2. None \notin Scraped!Videos /\ g[q] \notin Scraped!Path
      BY <2>1, ScrapeConst
    <2>3. CASE mode = "move"
      <3>1. h = [g EXCEPT ![q] = g[p], ![p] = None]
        BY <1>2, <2>2, <2>3 DEF Scraped!Outcomes, Scraped!Moved
      <3>2. /\ h[q] = g[p] /\ h[p] = None /\ \A x \in Scraped!Path \ {p, q} : h[x] = g[x]
            /\ h \in [Scraped!Path -> Held]
        BY <2>1, <3>1 DEF Held
      <3> QED
        BY <2>1, <2>2, <2>3, <3>2
    <2>4. CASE mode # "move"
      <3>1. PICK y \in {g[p], Part, p} : h = [g EXCEPT ![q] = y]
        BY <1>2, <2>2, <2>4 DEF Scraped!Outcomes, Scraped!Copied, Scraped!Linked, Scraped!RenameModes
      <3>2. y \in Held
        BY DEF Held, Scraped!Whole
      <3>3. h \in [Scraped!Path -> Held] /\ \A x \in Scraped!Path \ {q} : h[x] = g[x]
        BY <3>1, <3>2
      <3> QED
        BY <2>1, <2>2, <3>3
    <2> QED
      BY <2>3, <2>4
  <1> QED
    BY <1>1, <1>2

(* A free number is the least, and free.                                    *)
LEMMA NextIs ==
    ASSUME ScrapeInv, NEW want \in Scraped!Targets, Scraped!HasRoom(want)
    PROVE  /\ Scraped!NextPath(want) \in Scraped!Path
           /\ ~Scraped!Exists(Scraped!NextPath(want))
  <1> DEFINE S == {n \in 1 .. MaxNumber : ~Scraped!Exists(Scraped!Numbered(want, n))}
             Least(n) == /\ ~Scraped!Exists(Scraped!Numbered(want, n))
                         /\ \A k \in 1 .. (n - 1) : Scraped!Exists(Scraped!Numbered(want, k))
  <1>1. S # {} /\ S \subseteq Nat /\ MaxNumber \in Nat
    BY ScrapeConst DEF Scraped!HasRoom
  <1>2. PICK n \in S : \A k \in S : n <= k
    BY <1>1, LeastNumber
  <1>3. \A k \in 1 .. (n - 1) : k \notin S /\ k \in 1 .. MaxNumber
    BY <1>1, <1>2
  <1>4. \E k \in 1 .. MaxNumber : Least(k)
    BY <1>2, <1>3
  <1> DEFINE c == CHOOSE k \in 1 .. MaxNumber : Least(k)
  <1>5. Scraped!NextPath(want) = Scraped!Numbered(want, c)
    BY DEF Scraped!NextPath
  <1>6. c \in 1 .. MaxNumber /\ Least(c)
    BY <1>4
  <1>7. c \in 0 .. MaxNumber /\ ~Scraped!Exists(Scraped!Numbered(want, c))
    BY <1>1, <1>6
  <1> HIDE DEF c
  <1> QED
    BY <1>5, <1>7, ScrapeConst

(* The rest of a job.                                                       *)
LEMMA RestIs ==
    ASSUME ScrapeInv, NEW j \in Jobs, NEW p, Scraped!Rest(j, p)
    PROVE  m2' \in [Jobs -> Order]
  <1> DEFINE o == m2[j]
             n == LET todo == o.todo \ {p}
                  IN  IF todo = {} THEN Scraped!Ended ELSE [o EXCEPT !.todo = todo]
  <1>1. m2 \in [Jobs -> Order] /\ m2' = [m2 EXCEPT ![j] = n]
    BY DEF ScrapeInv, Scraped!TypeOK, Order, Scraped!Rest
  <1>2. Scraped!Ended \in Order
    BY DEF Scraped!Ended, Scraped!Pending, Order, Scraped!RenameModes
  <1>3. o \in Order
    BY <1>1
  <1> HIDE DEF o
  <1>4. n \in Order
    BY <1>2, <1>3 DEF Order
  <1> HIDE DEF n
  <1> QED
    BY <1>1, <1>4

LEMMA ScrapeStep ==
    ASSUME ScrapeInv, [Scraped!Next]_(Scraped!vars)
    PROVE  ScrapeInv' /\ Scraped!TouchedByRequest
  <1>1. /\ m1 \in [Scraped!Path -> Held] /\ m2 \in [Jobs -> Order] /\ m3 \subseteq Scraped!Videos
        /\ Scraped!VideosKept
    BY DEF ScrapeInv, Scraped!TypeOK, Held, Order
  <1>2. ASSUME m1' = m1, m3' = m3, m2' \in [Jobs -> Order]
        PROVE  ScrapeInv' /\ Scraped!TouchedByRequest
    BY <1>1, <1>2 DEF ScrapeInv, Scraped!TypeOK, Scraped!VideosKept, Scraped!TouchedByRequest, Held, Order
  <1>3. ASSUME NEW j \in Jobs, NEW p \in m2[j].todo, NEW want \in Scraped!Targets,
               Scraped!Wanted(j, p, want)
        PROVE  /\ p \in Scraped!Path /\ want \in Scraped!Path /\ m1[p] # None /\ want # p
               /\ m1[want] \notin Scraped!Path /\ m2[j].mode \in Scraped!RenameModes
               /\ m1[p] \in Scraped!Whole
    <2>1. m2[j] \in Order /\ want \in Scraped!Path
      BY <1>1, <1>3, ScrapeConst DEF Scraped!Path, Scraped!Targets
    <2> QED
      BY <1>3, <2>1, ScrapeConst DEF Scraped!Wanted, Order
  <1>4. ASSUME NEW j \in Jobs, NEW p \in m2[j].todo, NEW q \in Scraped!Path,
               p \in Scraped!Path, m1[p] # None, m1[q] \in Scraped!Path \/ m1[q] = None,
               m2[j].mode \in Scraped!RenameModes,
               m1' \in Scraped!Outcomes(m2[j].mode, m1, p, q), m3' = m3, m2' \in [Jobs -> Order]
        PROVE  ScrapeInv' /\ Scraped!TouchedByRequest
    <2>1. /\ m1' \in [Scraped!Path -> Held]
          /\ \A v \in Scraped!Videos : (\E x \in Scraped!Path : m1[x] = v)
                                         => \E x \in Scraped!Path : m1'[x] = v
          /\ \A x \in Scraped!Path : m1[x] # None /\ m1'[x] # m1[x] => x = p /\ m2[j].mode = "move"
      BY <1>1, <1>4, Operated
    <2>2. ScrapeInv'
      BY <1>1, <1>4, <2>1 DEF ScrapeInv, Scraped!TypeOK, Scraped!VideosKept, Held, Order
    <2>3. Scraped!TouchedByRequest
      BY <1>4, <2>1 DEF Scraped!TouchedByRequest
    <2> QED
      BY <2>2, <2>3
  <1>5. ASSUME NEW j \in Jobs, NEW dirs \in SUBSET {Lib}, NEW mode \in Scraped!RenameModes,
               NEW force \in BOOLEAN, Scraped!Start(j, dirs, mode, force)
        PROVE  ScrapeInv' /\ Scraped!TouchedByRequest
    <2> DEFINE o == [at |-> "running", todo |-> Scraped!Discovered(dirs), mode |-> mode, force |-> force]
    <2>1. m1' = m1 /\ m3' = m3 /\ m2' = [m2 EXCEPT ![j] = o]
      BY <1>5 DEF Scraped!Start
    <2>2. o \in Order
      BY DEF Order, Scraped!Discovered
    <2> HIDE DEF o
    <2>3. m2' \in [Jobs -> Order]
      BY <1>1, <2>1, <2>2
    <2> QED
      BY <1>2, <2>1, <2>3
  <1>6. ASSUME NEW j \in Jobs, NEW p \in m2[j].todo, Scraped!LeftAlone(j, p)
        PROVE  ScrapeInv' /\ Scraped!TouchedByRequest
    BY <1>2, <1>6, RestIs DEF Scraped!LeftAlone
  <1>7. ASSUME NEW j \in Jobs, NEW p \in m2[j].todo, NEW want \in Scraped!Targets,
               Scraped!Place(j, p, want)
        PROVE  ScrapeInv' /\ Scraped!TouchedByRequest
    <2>1. /\ Scraped!Wanted(j, p, want) /\ ~Scraped!Exists(want) /\ m3' = m3
          /\ m1' \in Scraped!Outcomes(m2[j].mode, m1, p, want) /\ Scraped!Rest(j, p)
      BY <1>7 DEF Scraped!Place
    <2>2. /\ p \in Scraped!Path /\ want \in Scraped!Path /\ m1[p] # None
          /\ m1[want] \notin Scraped!Path /\ m2[j].mode \in Scraped!RenameModes
      BY <1>3, <2>1
    <2>3. m1[want] = None
      BY <2>1, <2>2, NoLink
    <2> QED
      BY <1>4, <2>1, <2>2, <2>3, RestIs
  <1>8. ASSUME NEW j \in Jobs, NEW p \in m2[j].todo, NEW want \in Scraped!Targets,
               Scraped!PlaceBeside(j, p, want)
        PROVE  ScrapeInv' /\ Scraped!TouchedByRequest
    <2> DEFINE q == Scraped!NextPath(want)
    <2>1. /\ Scraped!Wanted(j, p, want) /\ Scraped!HasRoom(want) /\ m3' = m3
          /\ m1' \in Scraped!Outcomes(m2[j].mode, m1, p, q) /\ Scraped!Rest(j, p)
      BY <1>8 DEF Scraped!PlaceBeside
    <2>2. p \in Scraped!Path /\ m1[p] # None /\ m2[j].mode \in Scraped!RenameModes
      BY <1>3, <2>1
    <2>3. q \in Scraped!Path /\ ~Scraped!Exists(q)
      BY <2>1, NextIs
    <2> HIDE DEF q
    <2>4. m1[q] \in Scraped!Path \/ m1[q] = None
      BY <2>3, NoLink
    <2> QED
      BY <1>4, <2>1, <2>2, <2>3, <2>4, RestIs
  <1>9. ASSUME NEW j \in Jobs, NEW p \in m2[j].todo, NEW want \in Scraped!Targets,
               Scraped!PlaceOver(j, p, want)
        PROVE  ScrapeInv' /\ Scraped!TouchedByRequest
    <2> DEFINE g == [m1 EXCEPT ![want] = None]
    <2>1. /\ Scraped!Wanted(j, p, want) /\ m2[j].force
          /\ m1' \in Scraped!Outcomes(m2[j].mode, g, p, want)
          /\ m3' = m3 \cup ({m1[want]} \cap (Scraped!Videos \ {m1[p]}))
          /\ Scraped!Rest(j, p)
      BY <1>9 DEF Scraped!PlaceOver
    <2>2. /\ p \in Scraped!Path /\ want \in Scraped!Path /\ m1[p] # None /\ want # p
          /\ m2[j].mode \in Scraped!RenameModes
      BY <1>3, <2>1
    <2>3. /\ g \in [Scraped!Path -> Held] /\ g[want] = None
          /\ \A x \in Scraped!Path \ {want} : g[x] = m1[x]
      BY <1>1, <2>2 DEF Held
    <2> HIDE DEF g
    <2>4. /\ m1' \in [Scraped!Path -> Held]
          /\ \A v \in Scraped!Videos : (\E x \in Scraped!Path : g[x] = v)
                                         => \E x \in Scraped!Path : m1'[x] = v
      BY <2>1, <2>2, <2>3, Operated
    <2>5. \A v \in Scraped!Videos \ m3' : \E x \in Scraped!Path : g[x] = v
      <3> SUFFICES ASSUME NEW v \in Scraped!Videos, v \notin m3'
                   PROVE  \E x \in Scraped!Path : g[x] = v
        OBVIOUS
      <3>1. PICK x \in Scraped!Path : m1[x] = v
        BY <1>1, <2>1 DEF Scraped!VideosKept
      <3>2. CASE x = want
        <4>1. v = m1[p]
          BY <2>1, <3>1, <3>2
        <4> QED
          BY <2>2, <2>3, <4>1
      <3>3. CASE x # want
        BY <2>3, <3>1, <3>3
      <3> QED
        BY <3>2, <3>3
    <2>6. ScrapeInv'
      <3>1. m2' \in [Jobs -> Order] /\ m3' \subseteq Scraped!Videos
        BY <1>1, <2>1, RestIs
      <3>2. Scraped!VideosKept'
        BY <2>4, <2>5 DEF Scraped!VideosKept
      <3> QED
        BY <2>4, <3>1, <3>2 DEF ScrapeInv, Scraped!TypeOK, Held, Order
    <2>7. Scraped!TouchedByRequest
      BY <2>1 DEF Scraped!TouchedByRequest
    <2> QED
      BY <2>6, <2>7
  <1>10. CASE Scraped!Crash
    <2>1. m1' = m1 /\ m3' = m3
          /\ m2' = [j \in Jobs |-> IF m2[j].at = "running" THEN Scraped!Ended ELSE m2[j]]
      BY <1>10 DEF Scraped!Crash
    <2>2. Scraped!Ended \in Order
      BY DEF Scraped!Ended, Scraped!Pending, Order, Scraped!RenameModes
    <2>3. m2' \in [Jobs -> Order]
      BY <1>1, <2>1, <2>2
    <2> QED
      BY <1>2, <2>1, <2>3
  <1>11. CASE UNCHANGED Scraped!vars
    BY <1>1, <1>2, <1>11 DEF Scraped!vars
  <1> QED
    BY <1>5, <1>6, <1>7, <1>8, <1>9, <1>10, <1>11 DEF Scraped!Next

-----------------------------------------------------------------------------
(* A call to the drive: what each place in the code says of its record.     *)
DriveFields == {"at", "ops", "results", "tries", "checks", "page", "got", "answer", "since", "quiet"}

RenamePlaces == {"info", "rename", "check"}

Replies(at) == IF at \in {"page", "first"} THEN Disk!Answer
               ELSE IF at \in {"info", "check"} THEN {a, b} ELSE BOOLEAN

DriveTypes(k) ==
    /\ DOMAIN k = DriveFields
    /\ k.at \in Disk!Waiting \cup {"idle", "told"}
    /\ k.ops \in Seq(Disk!Op) /\ k.results \in Seq(Disk!Results)
    /\ k.tries \in 0 .. (MaxAttempts - 1) /\ k.checks \in 0 .. MaxChecks
    /\ k.since \subseteq {a, b} /\ k.quiet \in BOOLEAN
    /\ k.answer # None => k.answer \in Replies(k.at)

(* A rename has a file whose name it has seen since it began.               *)
Renaming(k) ==
    /\ k.at \in RenamePlaces => k.ops # <<>> /\ m2[k.ops[1][1]] \in k.since
    /\ k.at \in {"info", "check"} /\ k.answer # None => k.answer \in k.since
    /\ k.at \in {"info", "rename"} => k.checks = 0
    /\ k.at = "check" => k.checks < MaxChecks
    /\ k.at \notin RenamePlaces => k.ops = <<>>
    /\ k.at \notin RenamePlaces \cup {"told"} => k.results = <<>>

(* A listing has the files before its page.                                 *)
Listing(k) ==
    /\ k.at = "page" =>
          /\ k.page \in Nat \ {0}
          /\ k.quiet => /\ (k.page - 1) * PageSize <= Len(m1)
                        /\ k.got = SubSeq(m1, 1, (k.page - 1) * PageSize)
                        /\ k.answer # None => k.answer = Disk!Page(k.page)
    /\ k.at = "told" /\ k.results = <<"whole">> /\ k.quiet => k.got = m1

(* A share is saved as often as it was asked for and not refused.           *)
Saving(k, n) ==
    /\ n \in 0 .. MaxAttempts
    /\ k.at \notin {"save", "told"} => n = 0
    /\ k.at = "save" => /\ n <= k.tries + 1 /\ (k.answer = None => n <= k.tries)
                        /\ k.answer # None => n > 0
    /\ k.at = "told" /\ k.results = <<"saved">> => n > 0

DriveCall(c, k) == DriveTypes(k) /\ Renaming(k) /\ Listing(k) /\ Saving(k, m4[c])

DriveInv ==
    /\ m1 \in Seq(Drive) /\ IsInjective(m1)
    /\ m2 \in [Drive -> {a, b}]
    /\ m3 \subseteq Disk!Op
    /\ m4 \in [Callers -> Nat]
    /\ m5 = [c \in Callers |-> m5[c]]
    /\ m6 \in 0 .. MaxChanges
    /\ \A c \in Callers : DriveCall(c, m5[c])

LEMMA DriveConst ==
    /\ PageSize \in Nat \ {0} /\ MaxAttempts \in Nat \ {0} /\ MaxChecks \in Nat \ {0}
    /\ MaxOps \in Nat /\ MaxChanges \in Nat
    /\ IsFiniteSet(Drive) /\ Shared \subseteq Drive
    /\ None \notin {a, b} /\ None \notin BOOLEAN
  <1>1. \A S : Disk!IsFiniteSet(S) => IsFiniteSet(S)
    BY DEF Disk!IsFiniteSet, IsFiniteSet
  <1> QED
    BY <1>1, DriveConstants DEF Disk!CloudAssumption

LEMMA DriveHas == DriveInv => Disk!TypeOK /\ Disk!WholeIsWhole /\ Disk!SavedIsSaved
  <1> SUFFICES ASSUME DriveInv PROVE Disk!TypeOK /\ Disk!WholeIsWhole /\ Disk!SavedIsSaved
    OBVIOUS
  <1>1. ASSUME NEW c \in Callers
        PROVE  /\ m5[c].at \in Disk!Waiting \cup {"idle", "told"}
               /\ m5[c].ops \in Seq(Disk!Op) /\ m5[c].results \in Seq(Disk!Results)
               /\ m5[c].tries \in 0 .. (MaxAttempts - 1) /\ m5[c].checks \in 0 .. MaxChecks
               /\ m5[c].answer # None =>
                    m5[c].answer \in CASE m5[c].at \in {"page", "first"} -> Disk!Answer
                                       [] m5[c].at \in {"info", "check"} -> {a, b}
                                       [] OTHER -> BOOLEAN
               /\ m5[c].since \subseteq {a, b} /\ m5[c].quiet \in BOOLEAN
               /\ m4[c] \in 0 .. MaxAttempts
    <2> DEFINE k == m5[c]
    <2>1. DriveTypes(k) /\ m4[c] \in 0 .. MaxAttempts
      BY DEF DriveInv, DriveCall, Saving
    <2>2. Replies(k.at) = CASE k.at \in {"page", "first"} -> Disk!Answer
                            [] k.at \in {"info", "check"} -> {a, b}
                            [] OTHER -> BOOLEAN
      BY DEF Replies
    <2> QED
      BY <2>1, <2>2 DEF DriveTypes
  <1>2. m4 \in [Callers -> 0 .. MaxAttempts]
    BY <1>1 DEF DriveInv
  <1>3. Disk!IsInjective(m1)
    BY DEF DriveInv, IsInjective, Disk!IsInjective
  <1>4. Disk!TypeOK
    BY <1>1, <1>2, <1>3 DEF DriveInv, Disk!TypeOK
  <1>5. Disk!WholeIsWhole
    BY DEF DriveInv, DriveCall, Listing, Disk!WholeIsWhole, Disk!Told
  <1>6. Disk!SavedIsSaved
    BY DEF DriveInv, DriveCall, Saving, Disk!SavedIsSaved, Disk!Told
  <1> QED
    BY <1>4, <1>5, <1>6

LEMMA DriveInit == Disk!Init => DriveInv
  <1> SUFFICES ASSUME Disk!Init PROVE DriveInv
    OBVIOUS
  <1> DEFINE S == Drive \ Shared
             n == Disk!Cardinality(S)
  <1>1. m1 \in Seq(Drive) /\ IsInjective(m1)
    <2>1. n = Cardinality(S)
      BY DEF Disk!Cardinality, Cardinality
    <2>2. IsFiniteSet(S)
      <3>1. S \in SUBSET Drive
        OBVIOUS
      <3> QED
        BY <3>1, DriveConst, FS_Subset
    <2>3. n \in Nat /\ ExistsBijection(1 .. n, S)
      BY <2>1, <2>2, FS_CardinalityType
    <2> HIDE DEF n
    <2>4. PICK f : f \in Bijection(1 .. n, S)
      BY <2>3 DEF ExistsBijection
    <2>5. f \in [1 .. n -> S] /\ Disk!IsInjective(f)
      BY <2>4 DEF Bijection, Injection, IsInjective, Disk!IsInjective
    <2>6. m1 = CHOOSE g \in [1 .. n -> S] : Disk!IsInjective(g)
      BY DEF Disk!Init, Disk!SetToSeq, n
    <2>7. m1 \in [1 .. n -> S] /\ Disk!IsInjective(m1)
      BY <2>5, <2>6
    <2> QED
      BY <2>3, <2>7 DEF Disk!IsInjective, IsInjective
  <1>2. m2 \in [Drive -> {a, b}]
    <2>1. (CHOOSE x \in {a, b} : TRUE) \in {a, b}
      OBVIOUS
    <2> QED
      BY <2>1 DEF Disk!Init
  <1>3. ASSUME NEW c \in Callers PROVE DriveCall(c, m5[c])
    <2>1. m5[c] = Disk!Idle /\ m4[c] = 0
      BY DEF Disk!Init
    <2>2. DriveTypes(Disk!Idle)
      BY DriveConst DEF DriveTypes, DriveFields, Disk!Idle
    <2>3. Renaming(Disk!Idle) /\ Listing(Disk!Idle) /\ Saving(Disk!Idle, 0)
      BY DriveConst DEF Renaming, RenamePlaces, Listing, Saving, Disk!Idle
    <2> QED
      BY <2>1, <2>2, <2>3 DEF DriveCall
  <1> QED
    BY <1>1, <1>2, <1>3, DriveConst DEF Disk!Init, DriveInv


(* What a step does to one call, and what it reports of it.                 *)
Reported(c, k) ==
    \/ k.results = m5[c].results
    \/ \E r \in Disk!Results :
          /\ k.results = Append(m5[c].results, r)
          /\ r \in {"success", "skipped"} => m5[c].ops[1][2] \in m5[c].since

LEMMA LastIsIt ==
    ASSUME NEW S, NEW s \in Seq(S), NEW r \in S
    PROVE  /\ Disk!Last(Append(s, r)) = r
           /\ \A x : Append(s, r) = <<x>> => r = x
  <1>1. Len(Append(s, r)) = Len(s) + 1 /\ Append(s, r)[Len(s) + 1] = r
    OBVIOUS
  <1>2. ASSUME NEW x, Append(s, r) = <<x>> PROVE r = x
    <2>1. Len(<<x>>) = 1 /\ <<x>>[1] = x
      OBVIOUS
    <2>2. Len(s) + 1 = 1
      BY <1>1, <1>2, <2>1
    <2> QED
      BY <1>1, <1>2, <2>1, <2>2
  <1> QED
    BY <1>1, <1>2 DEF Disk!Last

LEMMA DriveReports ==
    ASSUME DriveInv, NEW c \in Callers, NEW k, Reported(c, k), m5' = [m5 EXCEPT ![c] = k]
    PROVE  Disk!RenamedWasSeen
  <1> SUFFICES ASSUME NEW d \in Callers, Len(m5'[d].results) > Len(m5[d].results),
                      Disk!Last(m5'[d].results) \in {"success", "skipped"}
               PROVE  m5[d].ops[1][2] \in m5[d].since
    BY DEF Disk!RenamedWasSeen
  <1>1. m5[d].results \in Seq(Disk!Results)
    BY DEF DriveInv, DriveCall, DriveTypes
  <1>2. CASE d = c
    <2>1. m5'[d] = k
      BY <1>2 DEF DriveInv
    <2>2. k.results # m5[c].results
      <3>1. Len(m5[d].results) \in Nat
        BY <1>1
      <3> QED
        BY <1>2, <2>1, <3>1
    <2>3. PICK r \in Disk!Results : /\ k.results = Append(m5[c].results, r)
                                    /\ r \in {"success", "skipped"} =>
                                          m5[c].ops[1][2] \in m5[c].since
      BY <2>2 DEF Reported
    <2>4. Disk!Last(k.results) = r
      BY <1>1, <1>2, <2>3, LastIsIt
    <2> QED
      BY <1>2, <2>1, <2>3, <2>4
  <1>3. CASE d # c
    <2>1. m5'[d] = m5[d]
      BY <1>3 DEF DriveInv
    <2> QED
      BY <1>1, <2>1
  <1> QED
    BY <1>2, <1>3

LEMMA DriveMoves ==
    ASSUME DriveInv, NEW c \in Callers, NEW k, NEW n \in Nat,
           m5' = [m5 EXCEPT ![c] = k], m4' = [m4 EXCEPT ![c] = n], m3' \subseteq Disk!Op,
           UNCHANGED <<m1, m2, m6>>,
           DriveTypes(k), Renaming(k), Listing(k), Saving(k, n), Reported(c, k)
    PROVE  DriveInv' /\ Disk!RenamedWasSeen
  <1>1. m5' = [d \in Callers |-> m5'[d]] /\ m4' \in [Callers -> Nat]
    BY DEF DriveInv
  <1>2. ASSUME NEW d \in Callers PROVE DriveCall(d, m5[d])'
    <2>1. DriveTypes(m5'[d]) /\ Renaming(m5'[d]) /\ Listing(m5'[d]) /\ Saving(m5'[d], m4'[d])
      <3>1. CASE d = c
        <4>1. m5'[d] = k /\ m4'[d] = n
          BY <3>1 DEF DriveInv
        <4> QED
          BY <4>1
      <3>2. CASE d # c
        <4>1. m5'[d] = m5[d] /\ m4'[d] = m4[d]
          BY <3>2 DEF DriveInv
        <4> QED
          BY <4>1 DEF DriveInv, DriveCall
      <3> QED
        BY <3>1, <3>2
    <2> QED
      BY <2>1 DEF DriveCall, Renaming, Listing, Disk!Page
  <1> QED
    BY <1>1, <1>2, DriveReports DEF DriveInv

LEMMA DriveBecomes ==
    ASSUME DriveInv, NEW c \in Callers, NEW k, Disk!Becomes(c, k), DriveCall(c, k), Reported(c, k)
    PROVE  DriveInv' /\ Disk!RenamedWasSeen
  <1>1. m4' = [m4 EXCEPT ![c] = m4[c]] /\ m4[c] \in Nat /\ m3' \subseteq Disk!Op
    BY DEF DriveInv, Disk!Becomes
  <1>2. m5' = [m5 EXCEPT ![c] = k] /\ UNCHANGED <<m1, m2, m6>>
    BY DEF Disk!Becomes
  <1>3. DriveTypes(k) /\ Renaming(k) /\ Listing(k) /\ Saving(k, m4[c])
    BY DEF DriveCall
  <1> QED
    BY <1>1, <1>2, <1>3, DriveMoves

(* The next rename of a call, or its end.                                   *)
LEMMA NextOpIs ==
    ASSUME DriveInv, NEW c \in Callers, NEW r \in Disk!Results,
           m5[c].at \in Disk!Waiting,
           r \notin {"whole"},
           r = "saved" => m4[c] > 0,
           r \in {"success", "skipped"} => m5[c].ops[1][2] \in m5[c].since
    PROVE  DriveCall(c, Disk!NextOp(c, r)) /\ Reported(c, Disk!NextOp(c, r))
  <1> DEFINE k == m5[c]
             l == Disk!NextOp(c, r)
             m == [k EXCEPT !.results = Append(@, r), !.answer = None, !.tries = 0, !.checks = 0]
             rest == IF m.ops = <<>> THEN <<>> ELSE Tail(m.ops)
  <1>1. DriveCall(c, k) /\ DriveTypes(k)
    BY DEF DriveInv, DriveCall
  <1>2. /\ DOMAIN m = DriveFields
        /\ m.at = k.at /\ m.ops = k.ops /\ m.results = Append(k.results, r) /\ m.tries = 0
        /\ m.checks = 0 /\ m.answer = None /\ m.since = k.since /\ m.quiet = k.quiet
    BY <1>1 DEF DriveTypes, DriveFields
  <1>3. l = IF rest = <<>> THEN [m EXCEPT !.at = "told", !.ops = rest]
            ELSE [m EXCEPT !.at = "info", !.ops = rest, !.since = {m2[rest[1][1]]}]
    BY DEF Disk!NextOp
  <1>4. rest \in Seq(Disk!Op)
    BY <1>1, <1>2 DEF DriveTypes
  <1>5. Append(k.results, r) \in Seq(Disk!Results) /\ \A x : Append(k.results, r) = <<x>> => r = x
    BY <1>1, LastIsIt DEF DriveTypes
  <1>6. MaxAttempts > 0 /\ 0 \in 0 .. (MaxAttempts - 1) /\ 0 \in 0 .. MaxChecks /\ 0 < MaxChecks
    BY DriveConst
  <1> HIDE DEF m, rest, l
  <1>7. CASE rest = <<>>
    <2>1. /\ DOMAIN l = DriveFields /\ l.at = "told" /\ l.ops = <<>>
          /\ l.results = Append(k.results, r) /\ l.tries = 0 /\ l.checks = 0 /\ l.answer = None
          /\ l.since = k.since /\ l.quiet = k.quiet
      BY <1>2, <1>3, <1>7 DEF DriveFields
    <2>2. DriveTypes(l)
      BY <1>1, <1>4, <1>5, <1>6, <1>7, <2>1 DEF DriveTypes
    <2>3. Renaming(l) /\ Listing(l)
      BY <1>5, <2>1 DEF Renaming, RenamePlaces, Listing
    <2>4. Saving(l, m4[c])
      BY <1>1, <1>5, <2>1 DEF Saving, DriveCall
    <2> QED
      BY <2>1, <2>2, <2>3, <2>4 DEF DriveCall, Reported, l
  <1>8. CASE rest # <<>>
    <2>1. /\ DOMAIN l = DriveFields /\ l.at = "info" /\ l.ops = rest
          /\ l.results = Append(k.results, r) /\ l.tries = 0 /\ l.checks = 0 /\ l.answer = None
          /\ l.since = {m2[rest[1][1]]} /\ l.quiet = k.quiet
      BY <1>2, <1>3, <1>8 DEF DriveFields
    <2>2. rest[1] \in Disk!Op /\ m2[rest[1][1]] \in {a, b}
      <3>1. rest[1] \in Disk!Op
        BY <1>4, <1>8
      <3> QED
        BY <3>1 DEF Disk!Op, DriveInv
    <2>3. DriveTypes(l)
      BY <1>1, <1>4, <1>5, <1>6, <2>1, <2>2 DEF DriveTypes, Disk!Waiting
    <2>4. Renaming(l) /\ Listing(l)
      BY <1>8, <2>1 DEF Renaming, RenamePlaces, Listing
    <2>5. k.ops # <<>>
      BY <1>2, <1>8 DEF rest
    <2>6. m4[c] = 0
      BY <1>1, <2>5 DEF DriveCall, Renaming, RenamePlaces, Saving
    <2>7. Saving(l, m4[c])
      BY <2>1, <2>6, DriveConst DEF Saving
    <2> QED
      BY <2>1, <2>3, <2>4, <2>7 DEF DriveCall, Reported, l
  <1> QED
    BY <1>7, <1>8


(* Page p stands between the pages before it and those after it.            *)
LEMMA PageIs ==
    ASSUME DriveInv, NEW p \in Nat \ {0}
    PROVE  /\ Disk!Page(p) \in Disk!Answer
           /\ Disk!Page(p).total = Len(m1)
           /\ (p - 1) * PageSize \in Nat /\ p * PageSize \in Nat
           /\ (p - 1) * PageSize <= Len(m1) =>
                SubSeq(m1, 1, (p - 1) * PageSize) \o Disk!Page(p).files =
                SubSeq(m1, 1, IF p * PageSize < Len(m1) THEN p * PageSize ELSE Len(m1))
  <1> DEFINE x == (p - 1) * PageSize
             y == p * PageSize
             to == IF y < Len(m1) THEN y ELSE Len(m1)
  <1>1. x \in Nat /\ y \in Nat /\ y = x + PageSize /\ PageSize \in Nat
    <2>1. ASSUME NEW i \in Nat, NEW j \in Nat PROVE i * j \in Nat /\ (i + 1) * j = i * j + j
      BY <2>1
    <2>2. p - 1 \in Nat /\ p = (p - 1) + 1 /\ PageSize \in Nat
      BY DriveConst
    <2> HIDE DEF x, y
    <2> QED
      BY <2>1, <2>2 DEF x, y
  <1>2. m1 \in Seq(Drive) /\ Len(m1) \in Nat
    BY DEF DriveInv
  <1>3. Disk!Page(p) = [files |-> SubSeq(m1, x + 1, to), total |-> Len(m1)]
    BY DEF Disk!Page
  <1>6. Disk!Page(p).files = SubSeq(m1, x + 1, to) /\ Disk!Page(p).total = Len(m1)
    BY DEF Disk!Page
  <1> HIDE DEF x, y
  <1>4. SubSeq(m1, x + 1, to) \in Seq(Drive)
    <2>1. \A i \in (x + 1) .. to : m1[i] \in Drive
      BY <1>1, <1>2
    <2> QED
      BY <1>1, <1>2, <2>1, SubSeqProperties
  <1>5. x <= Len(m1) => SubSeq(m1, 1, x) \o SubSeq(m1, x + 1, to) = SubSeq(m1, 1, to)
    <2> SUFFICES ASSUME x <= Len(m1)
                 PROVE  SubSeq(m1, 1, x) \o SubSeq(m1, x + 1, to) = SubSeq(m1, 1, to)
      OBVIOUS
    <2>1. 1 \in 1 .. (Len(m1) + 1) /\ x \in (1 - 1) .. Len(m1) /\ to \in x .. Len(m1)
      BY <1>1, <1>2
    <2> HIDE DEF to
    <2> QED
      BY <1>2, <2>1, ConcatAdjacentSubSeq
  <1>7. Disk!Page(p) \in Disk!Answer
    BY <1>2, <1>3, <1>4 DEF Disk!Answer
  <1> QED
    BY <1>1, <1>5, <1>6, <1>7 DEF x, y, to

LEMMA ServeStep ==
    ASSUME DriveInv, NEW c \in Callers, Disk!Serve(c)
    PROVE  DriveInv' /\ Disk!RenamedWasSeen
  <1> DEFINE k == m5[c]
  <1>1. DriveTypes(k) /\ Renaming(k) /\ Listing(k) /\ Saving(k, m4[c]) /\ k.at \in Disk!Waiting
        /\ k.answer = None
    BY DEF DriveInv, DriveCall, Disk!Serve
  <1>2. PICK v : /\ v \in CASE k.at = "page" -> {Disk!Page(k.page)}
                            [] k.at = "first" -> {Disk!FirstPage}
                            [] k.at \in {"info", "check"} -> {m2[k.ops[1][1]]}
                            [] k.at = "target" -> BOOLEAN
                            [] k.at \in {"rename", "save"} -> {TRUE}
                 /\ m5' = [m5 EXCEPT ![c].answer = v]
    BY DEF Disk!Serve
  <1>3. /\ k.at = "page" => v = Disk!Page(k.page)
        /\ k.at = "first" => v = Disk!Page(1)
        /\ k.at \in {"info", "check"} => v = m2[k.ops[1][1]]
        /\ k.at \in {"target", "rename", "save"} => v \in BOOLEAN
        /\ k.at \in {"rename", "save"} => v = TRUE
    BY <1>1, <1>2 DEF Disk!Waiting, Disk!FirstPage
  <1> DEFINE l == [k EXCEPT !.answer = v]
             n == IF k.at = "save" THEN m4[c] + 1 ELSE m4[c]
  <1>4. /\ DOMAIN l = DriveFields /\ l.at = k.at /\ l.ops = k.ops /\ l.results = k.results
        /\ l.tries = k.tries /\ l.checks = k.checks /\ l.page = k.page /\ l.got = k.got
        /\ l.answer = v /\ l.since = k.since /\ l.quiet = k.quiet
    BY <1>1 DEF DriveTypes, DriveFields
  <1>5. m5' = [m5 EXCEPT ![c] = l]
    BY <1>2
  <1>6. /\ m4' = [m4 EXCEPT ![c] = n] /\ n \in Nat /\ m3' \subseteq Disk!Op
        /\ UNCHANGED <<m1, m2, m6>>
    <2>1. k.at = "rename" => k.ops[1] \in Disk!Op
      BY <1>1 DEF DriveTypes, Renaming, RenamePlaces
    <2>2. /\ UNCHANGED <<m1, m2, m6>>
          /\ m3' = IF k.at = "rename" THEN m3 \cup {k.ops[1]} ELSE m3
          /\ m4' = IF k.at = "save" THEN [m4 EXCEPT ![c] = @ + 1] ELSE m4
      BY DEF Disk!Serve
    <2>3. m4 \in [Callers -> Nat] /\ m3 \subseteq Disk!Op
      BY DEF DriveInv
    <2>4. CASE k.at = "save"
      BY <2>2, <2>3, <2>4
    <2>5. CASE k.at # "save"
      BY <2>1, <2>2, <2>3, <2>5
    <2> QED
      BY <2>4, <2>5
  <1>7. v \in Replies(k.at)
    <2>1. CASE k.at = "page"
      BY <1>1, <1>3, <2>1, PageIs DEF Listing, Replies
    <2>2. CASE k.at = "first"
      BY <1>3, <2>2, PageIs DEF Replies
    <2>3. CASE k.at \in {"info", "check"}
      BY <1>1, <1>3, <2>3 DEF Renaming, RenamePlaces, Replies, DriveTypes
    <2>4. CASE k.at \in {"target", "rename", "save"}
      BY <1>3, <2>4 DEF Replies
    <2> QED
      BY <1>1, <2>1, <2>2, <2>3, <2>4 DEF Disk!Waiting
  <1> HIDE DEF l, n
  <1>8. DriveTypes(l)
    BY <1>1, <1>4, <1>7 DEF DriveTypes
  <1>9. Renaming(l) /\ Reported(c, l)
    BY <1>1, <1>3, <1>4 DEF Renaming, RenamePlaces, Reported
  <1>10. Listing(l)
    BY <1>1, <1>3, <1>4 DEF Listing, Disk!Waiting
  <1>11. Saving(l, n)
    <2>1. CASE k.at = "save"
      <3>1. n = m4[c] + 1 /\ m4[c] \in Nat /\ m4[c] <= k.tries
        BY <1>1, <2>1 DEF Saving, n
      <3>2. k.tries \in 0 .. (MaxAttempts - 1) /\ v # None
        BY <1>1, <1>3, <2>1, DriveConst DEF DriveTypes
      <3> QED
        BY <1>4, <2>1, <3>1, <3>2, DriveConst DEF Saving
    <2>2. CASE k.at # "save"
      BY <1>1, <1>4, <2>2 DEF Saving, Disk!Waiting, n
    <2> QED
      BY <2>1, <2>2
  <1> QED
    BY <1>5, <1>6, <1>8, <1>9, <1>10, <1>11, DriveMoves


LEMMA StartStep ==
    ASSUME DriveInv, NEW c \in Callers, NEW at \in {"page", "first", "target", "info"},
           NEW ops \in Seq(Disk!Op), (at = "info") = (ops # <<>>), Disk!Start(c, at, ops)
    PROVE  DriveInv' /\ Disk!RenamedWasSeen
  <1> DEFINE k == [Disk!Idle EXCEPT !.at = at, !.ops = ops, !.page = 1,
                      !.since = IF ops = <<>> THEN {} ELSE {m2[ops[1][1]]}]
  <1>1. Disk!Becomes(c, k) /\ m5[c].at = "idle"
    BY DEF Disk!Start
  <1>2. /\ DOMAIN k = DriveFields /\ k.at = at /\ k.ops = ops /\ k.results = <<>>
        /\ k.tries = 0 /\ k.checks = 0 /\ k.page = 1 /\ k.got = <<>> /\ k.answer = None
        /\ k.since = (IF ops = <<>> THEN {} ELSE {m2[ops[1][1]]}) /\ k.quiet = TRUE
    BY DEF Disk!Idle, DriveFields
  <1>3. m5[c].results = <<>> /\ m4[c] = 0
    BY <1>1 DEF DriveInv, DriveCall, Renaming, RenamePlaces, Saving
  <1> HIDE DEF k
  <1>4. ops # <<>> => m2[ops[1][1]] \in {a, b}
    <2>1. ops # <<>> => ops[1] \in Disk!Op
      OBVIOUS
    <2> QED
      BY <2>1 DEF Disk!Op, DriveInv
  <1>5. DriveTypes(k)
    <2>1. k.at \in Disk!Waiting
      BY <1>2 DEF Disk!Waiting
    <2>2. k.since \subseteq {a, b}
      BY <1>2, <1>4
    <2>3. 0 \in 0 .. (MaxAttempts - 1) /\ 0 \in 0 .. MaxChecks
      BY DriveConst
    <2>4. <<>> \in Seq(Disk!Results)
      OBVIOUS
    <2> QED
      BY <1>2, <2>1, <2>2, <2>3, <2>4 DEF DriveTypes
  <1>6. Renaming(k)
    BY <1>2 DEF Renaming, RenamePlaces
  <1>7. Listing(k)
    <2>1. (1 - 1) * PageSize = 0 /\ m1 \in Seq(Drive) /\ Len(m1) >= 0
      BY DriveConst DEF DriveInv
    <2>2. SubSeq(m1, 1, 0) = <<>>
      BY SubSeqEmpty
    <2> QED
      BY <1>2, <2>1, <2>2 DEF Listing
  <1>8. Saving(k, m4[c])
    BY <1>2, <1>3, DriveConst DEF Saving
  <1> QED
    BY <1>1, <1>2, <1>3, <1>5, <1>6, <1>7, <1>8, DriveBecomes DEF DriveCall, Reported

(* The request raises, or its verdict is that it has failed.                *)
LEMMA FailsStep ==
    ASSUME DriveInv, NEW c \in Callers, NEW r \in {"part", "failed"}, m5[c].at \in Disk!Waiting,
           Disk!Becomes(c, Disk!NextOp(c, r))
    PROVE  DriveInv' /\ Disk!RenamedWasSeen
  <1>1. r \in Disk!Results
    BY DEF Disk!Results
  <1> QED
    BY <1>1, NextOpIs, DriveBecomes

LEMMA RaisedIs ==
    ASSUME NEW c
    PROVE  \E r \in {"part", "failed"} : Disk!Raised(c) = Disk!NextOp(c, r)
  <1>1. CASE m5[c].at \in {"page", "first"}
    <2>1. Disk!Raised(c) = Disk!NextOp(c, "part")
      BY <1>1 DEF Disk!Raised
    <2> QED
      BY <2>1
  <1>2. CASE m5[c].at \notin {"page", "first"}
    <2>1. Disk!Raised(c) = Disk!NextOp(c, "failed")
      BY <1>2 DEF Disk!Raised
    <2> QED
      BY <2>1
  <1> QED
    BY <1>1, <1>2

LEMMA LostStep ==
    ASSUME DriveInv, NEW c \in Callers, Disk!Lost(c) \/ Disk!Refused(c)
    PROVE  DriveInv' /\ Disk!RenamedWasSeen
  <1> DEFINE k == m5[c]
             l == [k EXCEPT !.tries = @ + 1, !.answer = None]
  <1>1. DriveTypes(k) /\ Renaming(k) /\ Listing(k) /\ Saving(k, m4[c]) /\ k.at \in Disk!Waiting
    BY DEF DriveInv, DriveCall, Disk!Lost, Disk!Refused
  <1>2. CASE Disk!Becomes(c, Disk!Raised(c))
    BY <1>1, <1>2, RaisedIs, FailsStep
  <1>3. CASE Disk!Becomes(c, l) /\ k.tries + 1 # MaxAttempts
    <2>1. /\ DOMAIN l = DriveFields /\ l.at = k.at /\ l.ops = k.ops /\ l.results = k.results
          /\ l.tries = k.tries + 1 /\ l.checks = k.checks /\ l.page = k.page /\ l.got = k.got
          /\ l.answer = None /\ l.since = k.since /\ l.quiet = k.quiet
      BY <1>1 DEF DriveTypes, DriveFields
    <2> HIDE DEF l
    <2>2. k.tries + 1 \in 0 .. (MaxAttempts - 1)
      BY <1>1, <1>3, DriveConst DEF DriveTypes
    <2>3. DriveTypes(l)
      BY <1>1, <2>1, <2>2 DEF DriveTypes
    <2>4. Renaming(l) /\ Listing(l) /\ Reported(c, l)
      BY <1>1, <2>1 DEF Renaming, Listing, Reported
    <2>5. Saving(l, m4[c])
      <3>1. m4[c] \in 0 .. MaxAttempts /\ k.tries \in Nat
        BY <1>1, DriveConst DEF Saving, DriveTypes
      <3> HIDE DEF k
      <3> QED
        BY <1>1, <2>1, <3>1, DriveConst DEF Saving
    <2> QED
      BY <1>3, <2>3, <2>4, <2>5, DriveBecomes DEF DriveCall
  <1> QED
    BY <1>2, <1>3 DEF Disk!Lost, Disk!Refused

(* The next request of a call.                                              *)
LEMMA AtIs ==
    ASSUME DriveInv, NEW c \in Callers, NEW at
    PROVE  LET k == m5[c]
               l == Disk!At(c, at)
           IN  /\ DOMAIN l = DriveFields /\ l.at = at /\ l.ops = k.ops /\ l.results = k.results
               /\ l.tries = 0 /\ l.checks = k.checks /\ l.page = k.page /\ l.got = k.got
               /\ l.answer = None /\ l.since = k.since /\ l.quiet = k.quiet
  <1>1. DriveTypes(m5[c])
    BY DEF DriveInv, DriveCall
  <1> QED
    BY <1>1 DEF DriveTypes, DriveFields, Disk!At

LEMMA AtTypes ==
    ASSUME DriveInv, NEW c \in Callers, NEW at \in Disk!Waiting, NEW l,
           DOMAIN l = DriveFields, l.at = at, l.ops = m5[c].ops, l.results = m5[c].results,
           l.tries = 0, l.checks \in 0 .. MaxChecks, l.answer = None, l.since = m5[c].since,
           l.quiet = m5[c].quiet
    PROVE  DriveTypes(l) /\ Reported(c, l)
  <1>1. DriveTypes(m5[c])
    BY DEF DriveInv, DriveCall
  <1>2. 0 \in 0 .. (MaxAttempts - 1)
    BY DriveConst
  <1> QED
    BY <1>1, <1>2 DEF DriveTypes, Reported


(* The end of a call that is not a rename.                                  *)
LEMMA EndIs ==
    ASSUME DriveInv, NEW c \in Callers, NEW r \in Disk!Results, NEW g,
           m5[c].at \in Disk!Waiting \ RenamePlaces, r \notin {"success", "skipped"},
           r = "whole" /\ m5[c].quiet => g = m1, r = "saved" => m4[c] > 0
    PROVE  LET l == [Disk!NextOp(c, r) EXCEPT !.got = g]
           IN  DriveCall(c, l) /\ Reported(c, l)
  <1> DEFINE k == m5[c]
             l == [Disk!NextOp(c, r) EXCEPT !.got = g]
  <1>1. DriveTypes(k) /\ Renaming(k) /\ Saving(k, m4[c])
    BY DEF DriveInv, DriveCall
  <1>2. k.ops = <<>> /\ k.results = <<>>
    BY <1>1 DEF Renaming, RenamePlaces, Disk!Waiting
  <1> DEFINE m == [k EXCEPT !.results = Append(@, r), !.answer = None, !.tries = 0, !.checks = 0]
  <1>3. /\ DOMAIN m = DriveFields /\ m.at = k.at /\ m.ops = <<>> /\ m.results = Append(k.results, r)
        /\ m.tries = 0 /\ m.checks = 0 /\ m.answer = None /\ m.since = k.since
        /\ m.quiet = k.quiet
    BY <1>1, <1>2 DEF DriveTypes, DriveFields
  <1>4. Disk!NextOp(c, r) = [m EXCEPT !.at = "told", !.ops = <<>>]
    <2>1. m.ops = <<>>
      BY <1>3
    <2> DEFINE rest == IF m.ops = <<>> THEN <<>> ELSE Tail(m.ops)
    <2>2. rest = <<>>
      BY <2>1
    <2>3. Disk!NextOp(c, r) = IF rest = <<>> THEN [m EXCEPT !.at = "told", !.ops = rest]
                              ELSE [m EXCEPT !.at = "info", !.ops = rest,
                                             !.since = {m2[rest[1][1]]}]
      BY DEF Disk!NextOp
    <2> HIDE DEF m, rest
    <2> QED
      BY <2>2, <2>3
  <1> HIDE DEF m
  <1>5. /\ DOMAIN l = DriveFields /\ l.at = "told" /\ l.ops = <<>> /\ l.results = Append(k.results, r)
        /\ l.tries = 0 /\ l.checks = 0 /\ l.answer = None /\ l.since = k.since
        /\ l.quiet = k.quiet /\ l.got = g
    BY <1>3, <1>4 DEF DriveFields
  <1> HIDE DEF l
  <1>6. Append(k.results, r) \in Seq(Disk!Results) /\ \A x : Append(k.results, r) = <<x>> => r = x
    BY <1>1, LastIsIt DEF DriveTypes
  <1>7. DriveTypes(l)
    <2>1. 0 \in 0 .. (MaxAttempts - 1) /\ 0 \in 0 .. MaxChecks
      BY DriveConst
    <2> QED
      BY <1>1, <1>5, <1>6, <2>1 DEF DriveTypes
  <1>8. Renaming(l)
    BY <1>5 DEF Renaming, RenamePlaces
  <1>9. Listing(l)
    BY <1>5, <1>6 DEF Listing
  <1>10. Saving(l, m4[c])
    BY <1>1, <1>5, <1>6 DEF Saving
  <1>11. Reported(c, l)
    BY <1>5 DEF Reported
  <1> QED
    BY <1>7, <1>8, <1>9, <1>10, <1>11 DEF DriveCall, l

LEMMA PageReadStep ==
    ASSUME DriveInv, NEW c \in Callers, Disk!PageRead(c)
    PROVE  DriveInv' /\ Disk!RenamedWasSeen
  <1> DEFINE k == m5[c]
             got == k.got \o k.answer.files
             to == IF k.page * PageSize < Len(m1) THEN k.page * PageSize ELSE Len(m1)
  <1>1. DriveTypes(k) /\ Renaming(k) /\ Listing(k) /\ Saving(k, m4[c])
        /\ k.at = "page" /\ k.answer # None
    BY DEF DriveInv, DriveCall, Disk!PageRead, Disk!Answered
  <1>2. Len(m1) \in Nat /\ m1 \in Seq(Drive)
    BY DEF DriveInv
  <1>3. k.page \in Nat \ {0} /\ k.page * PageSize \in Nat
    BY <1>1, PageIs DEF Listing
  <1>4. k.quiet => k.answer.total = Len(m1) /\ got = SubSeq(m1, 1, to)
    BY <1>1, <1>3, PageIs DEF Listing
  <1>5. k.answer \in Disk!Answer
    BY <1>1 DEF DriveTypes, Replies
  <1>6. k.answer.total \in Nat
    BY <1>5 DEF Disk!Answer
  <1>7. Disk!Becomes(c, IF Disk!IsLast(k.page, k.answer.total)
                          THEN [Disk!NextOp(c, "whole") EXCEPT !.got = got]
                        ELSE [Disk!At(c, "page") EXCEPT !.got = got, !.page = @ + 1])
    BY DEF Disk!PageRead
  <1>8. CASE Disk!IsLast(k.page, k.answer.total)
    <2>1. k.quiet => got = m1
      <3>1. k.quiet => to = Len(m1)
        BY <1>2, <1>3, <1>4, <1>8 DEF Disk!IsLast
      <3>2. SubSeq(m1, 1, Len(m1)) = m1
        BY <1>2, SubSeqFull
      <3> HIDE DEF to, got
      <3> QED
        BY <1>4, <3>1, <3>2
    <2>2. "whole" \in Disk!Results /\ k.at \in Disk!Waiting \ RenamePlaces
      BY <1>1 DEF Disk!Results, Disk!Waiting, RenamePlaces
    <2> HIDE DEF got
    <2>3. DriveCall(c, [Disk!NextOp(c, "whole") EXCEPT !.got = got])
          /\ Reported(c, [Disk!NextOp(c, "whole") EXCEPT !.got = got])
      BY <2>1, <2>2, EndIs
    <2> QED
      BY <1>7, <1>8, <2>3, DriveBecomes
  <1>9. CASE ~Disk!IsLast(k.page, k.answer.total)
    <2> DEFINE m == Disk!At(c, "page")
    <2>1. /\ DOMAIN m = DriveFields /\ m.at = "page" /\ m.ops = k.ops /\ m.results = k.results
          /\ m.tries = 0 /\ m.checks = k.checks /\ m.page = k.page
          /\ m.answer = None /\ m.since = k.since /\ m.quiet = k.quiet
      BY AtIs
    <2> HIDE DEF m, got
    <2> DEFINE l == [m EXCEPT !.got = got, !.page = @ + 1]
    <2>2. /\ DOMAIN l = DriveFields /\ l.at = "page" /\ l.ops = k.ops /\ l.results = k.results
          /\ l.tries = 0 /\ l.checks = k.checks /\ l.page = k.page + 1 /\ l.got = got
          /\ l.answer = None /\ l.since = k.since /\ l.quiet = k.quiet
      BY <2>1 DEF DriveFields
    <2> HIDE DEF l
    <2>3. DriveTypes(l) /\ Reported(c, l)
      BY <1>1, <2>2, AtTypes DEF DriveTypes, Disk!Waiting
    <2>4. Renaming(l)
      BY <1>1, <2>2 DEF Renaming, RenamePlaces
    <2>5. Listing(l)
      <3>1. k.page + 1 \in Nat \ {0} /\ (k.page + 1) - 1 = k.page
        BY <1>3
      <3>2. k.quiet => k.page * PageSize < Len(m1) /\ to = k.page * PageSize
        BY <1>2, <1>3, <1>4, <1>9 DEF Disk!IsLast
      <3>3. k.quiet => /\ k.page * PageSize <= Len(m1)
                       /\ got = SubSeq(m1, 1, k.page * PageSize)
        <4> HIDE DEF to
        <4> QED
          BY <1>2, <1>3, <1>4, <3>2
      <3> QED
        BY <2>2, <3>1, <3>3 DEF Listing
    <2>6. Saving(l, m4[c])
      BY <1>1, <2>2 DEF Saving
    <2> QED
      BY <1>7, <1>9, <2>3, <2>4, <2>5, <2>6, DriveBecomes DEF DriveCall, l, m
  <1> QED
    BY <1>8, <1>9


LEMMA EndsStep ==
    ASSUME DriveInv, NEW c \in Callers,
           Disk!Previewed(c) \/ Disk!PreviewFails(c) \/ Disk!Saved(c)
    PROVE  DriveInv' /\ Disk!RenamedWasSeen
  <1> DEFINE k == m5[c]
  <1>1. k.at \in {"first", "save"} /\ k.at \in Disk!Waiting \ RenamePlaces
    BY DEF Disk!Previewed, Disk!PreviewFails, Disk!Saved, Disk!Answered, Disk!Waiting, RenamePlaces
  <1>2. {"preview", "failed", "saved"} \subseteq Disk!Results
    BY DEF Disk!Results
  <1>3. ASSUME NEW g, Disk!Becomes(c, [Disk!NextOp(c, "preview") EXCEPT !.got = g])
        PROVE  DriveInv' /\ Disk!RenamedWasSeen
    <2>1. DriveCall(c, [Disk!NextOp(c, "preview") EXCEPT !.got = g])
          /\ Reported(c, [Disk!NextOp(c, "preview") EXCEPT !.got = g])
      BY <1>1, <1>2, EndIs
    <2> QED
      BY <1>3, <2>1, DriveBecomes
  <1>4. CASE Disk!Previewed(c)
    BY <1>3, <1>4 DEF Disk!Previewed
  <1>5. CASE Disk!PreviewFails(c)
    BY <1>1, <1>5, FailsStep DEF Disk!PreviewFails
  <1>6. CASE Disk!Saved(c)
    <2>1. k.at = "save" /\ k.answer # None /\ Disk!Becomes(c, Disk!NextOp(c, "saved"))
      BY <1>6 DEF Disk!Saved, Disk!Answered
    <2>2. m4[c] > 0
      BY <2>1 DEF DriveInv, DriveCall, Saving
    <2>3. DriveCall(c, Disk!NextOp(c, "saved")) /\ Reported(c, Disk!NextOp(c, "saved"))
      BY <1>1, <1>2, <2>2, NextOpIs
    <2> QED
      BY <2>1, <2>3, DriveBecomes
  <1> QED
    BY <1>4, <1>5, <1>6

LEMMA RenameSteps ==
    ASSUME DriveInv, NEW c \in Callers,
           Disk!InfoRead(c) \/ Disk!Renamed(c) \/ Disk!Checked(c)
    PROVE  DriveInv' /\ Disk!RenamedWasSeen
  <1> DEFINE k == m5[c]
  <1>1. DriveTypes(k) /\ Renaming(k) /\ Listing(k) /\ Saving(k, m4[c])
        /\ k.at \in RenamePlaces /\ k.at \in Disk!Waiting /\ k.answer # None
    BY DEF DriveInv, DriveCall, Disk!InfoRead, Disk!Renamed, Disk!Checked, Disk!Answered,
           Disk!Waiting, RenamePlaces
  <1>2. ASSUME NEW r \in {"success", "skipped"}, k.at \in {"info", "check"},
               k.answer = k.ops[1][2], Disk!Becomes(c, Disk!NextOp(c, r))
        PROVE  DriveInv' /\ Disk!RenamedWasSeen
    <2>1. r \in Disk!Results /\ r \notin {"whole"} /\ r # "saved"
      BY DEF Disk!Results
    <2>2. k.ops[1][2] \in k.since
      BY <1>1, <1>2 DEF Renaming
    <2>3. DriveCall(c, Disk!NextOp(c, r)) /\ Reported(c, Disk!NextOp(c, r))
      BY <1>1, <2>1, <2>2, NextOpIs
    <2> QED
      BY <1>2, <2>3, DriveBecomes
  <1>3. ASSUME NEW at \in RenamePlaces, NEW n \in 0 .. MaxChecks, at = "rename" => n = 0,
               at = "check" => n < MaxChecks, at # "info",
               Disk!Becomes(c, [Disk!At(c, at) EXCEPT !.checks = n])
        PROVE  DriveInv' /\ Disk!RenamedWasSeen
    <2> DEFINE l == [Disk!At(c, at) EXCEPT !.checks = n]
    <2>1. /\ DOMAIN l = DriveFields /\ l.at = at /\ l.ops = k.ops /\ l.results = k.results
          /\ l.tries = 0 /\ l.checks = n /\ l.answer = None /\ l.since = k.since
          /\ l.quiet = k.quiet
      BY AtIs DEF DriveFields
    <2> HIDE DEF l
    <2>2. at \in Disk!Waiting
      BY DEF RenamePlaces, Disk!Waiting
    <2>3. DriveTypes(l) /\ Reported(c, l)
      BY <2>1, <2>2, AtTypes
    <2>4. Renaming(l)
      BY <1>1, <1>3, <2>1 DEF Renaming, RenamePlaces
    <2>5. Listing(l) /\ Saving(l, m4[c])
      BY <1>1, <2>1 DEF Listing, Saving, RenamePlaces
    <2> QED
      BY <1>3, <2>3, <2>4, <2>5, DriveBecomes DEF DriveCall, l
  <1>4. CASE Disk!InfoRead(c)
    <2>1. k.at = "info" /\ k.checks = 0
      BY <1>1, <1>4 DEF Disk!InfoRead, Disk!Answered, Renaming
    <2>2. CASE k.answer = k.ops[1][2]
      BY <1>2, <1>4, <2>1, <2>2 DEF Disk!InfoRead
    <2>3. CASE k.answer # k.ops[1][2]
      <3>1. Disk!Becomes(c, Disk!At(c, "rename"))
        BY <1>4, <2>3 DEF Disk!InfoRead
      <3>2. Disk!At(c, "rename") = [Disk!At(c, "rename") EXCEPT !.checks = 0]
        BY <1>1, <2>1 DEF Disk!At, DriveTypes, DriveFields
      <3>3. 0 \in 0 .. MaxChecks
        BY DriveConst
      <3> QED
        BY <1>3, <3>1, <3>2, <3>3 DEF RenamePlaces
    <2> QED
      BY <2>2, <2>3
  <1>5. CASE Disk!Renamed(c)
    <2>1. k.at = "rename" /\ k.checks = 0 /\ Disk!Becomes(c, Disk!At(c, "check"))
      BY <1>1, <1>5 DEF Disk!Renamed, Disk!Answered, Renaming
    <2>2. Disk!At(c, "check") = [Disk!At(c, "check") EXCEPT !.checks = 0]
      BY <1>1, <2>1 DEF Disk!At, DriveTypes, DriveFields
    <2>3. 0 \in 0 .. MaxChecks /\ 0 < MaxChecks
      BY DriveConst
    <2> QED
      BY <1>3, <2>1, <2>2, <2>3 DEF RenamePlaces
  <1>6. CASE Disk!Checked(c)
    <2>1. k.at = "check" /\ k.checks < MaxChecks /\ k.checks \in Nat
      BY <1>1, <1>6, DriveConst DEF Disk!Checked, Disk!Answered, Renaming, DriveTypes
    <2>2. CASE k.answer = k.ops[1][2]
      BY <1>2, <1>6, <2>1, <2>2 DEF Disk!Checked
    <2>3. CASE k.answer # k.ops[1][2] /\ k.checks + 1 = MaxChecks
      <3>1. Disk!Becomes(c, Disk!NextOp(c, "failed"))
        BY <1>6, <2>3 DEF Disk!Checked, Disk!Verdict
      <3> QED
        BY <1>1, <3>1, FailsStep
    <2>4. CASE k.answer # k.ops[1][2] /\ k.checks + 1 # MaxChecks
      <3>1. Disk!Becomes(c, [Disk!At(c, "check") EXCEPT !.checks = @ + 1])
        BY <1>6, <2>4 DEF Disk!Checked
      <3>2. Disk!At(c, "check").checks = k.checks
        BY AtIs
      <3>3. k.checks + 1 \in 0 .. MaxChecks /\ k.checks + 1 < MaxChecks
        BY <2>1, <2>4, DriveConst
      <3> QED
        BY <1>3, <3>1, <3>2, <3>3 DEF RenamePlaces
    <2> QED
      BY <2>2, <2>3, <2>4
  <1> QED
    BY <1>4, <1>5, <1>6

LEMMA TargetStep ==
    ASSUME DriveInv, NEW c \in Callers, Disk!TargetRead(c)
    PROVE  DriveInv' /\ Disk!RenamedWasSeen
  <1> DEFINE k == m5[c]
  <1>1. DriveTypes(k) /\ Renaming(k) /\ Saving(k, m4[c]) /\ k.at = "target"
        /\ k.ops = <<>> /\ k.results = <<>> /\ m4[c] = 0 /\ k.checks \in 0 .. MaxChecks
    BY DEF DriveInv, DriveCall, Disk!TargetRead, Disk!Answered, Renaming, RenamePlaces, Saving, DriveTypes
  <1>2. ASSUME NEW at \in {"target", "save"}, NEW n \in 0 .. MaxChecks,
               Disk!Becomes(c, [Disk!At(c, at) EXCEPT !.checks = n])
        PROVE  DriveInv' /\ Disk!RenamedWasSeen
    <2> DEFINE l == [Disk!At(c, at) EXCEPT !.checks = n]
    <2>1. /\ DOMAIN l = DriveFields /\ l.at = at /\ l.ops = k.ops /\ l.results = k.results
          /\ l.tries = 0 /\ l.checks = n /\ l.answer = None /\ l.since = k.since
          /\ l.quiet = k.quiet
      BY AtIs DEF DriveFields
    <2> HIDE DEF l
    <2>2. at \in Disk!Waiting
      BY DEF Disk!Waiting
    <2>3. DriveTypes(l) /\ Reported(c, l)
      BY <2>1, <2>2, AtTypes
    <2>4. Renaming(l) /\ Listing(l)
      BY <1>1, <2>1 DEF Renaming, RenamePlaces, Listing
    <2>5. Saving(l, m4[c])
      BY <1>1, <2>1, DriveConst DEF Saving
    <2> QED
      BY <1>2, <2>3, <2>4, <2>5, DriveBecomes DEF DriveCall, l
  <1>3. CASE k.answer
    <2>1. Disk!Becomes(c, Disk!At(c, "save"))
      BY <1>3 DEF Disk!TargetRead
    <2>2. Disk!At(c, "save") = [Disk!At(c, "save") EXCEPT !.checks = k.checks]
      BY <1>1 DEF Disk!At, DriveTypes, DriveFields
    <2> QED
      BY <1>1, <1>2, <2>1, <2>2
  <1>4. CASE ~k.answer /\ k.checks = MaxChecks
    <2>1. Disk!Becomes(c, Disk!NextOp(c, "failed")) /\ k.at \in Disk!Waiting
      BY <1>1, <1>4 DEF Disk!TargetRead, Disk!Waiting
    <2> QED
      BY <2>1, FailsStep
  <1>5. CASE ~k.answer /\ k.checks # MaxChecks
    <2>1. Disk!Becomes(c, [Disk!At(c, "target") EXCEPT !.checks = @ + 1])
      BY <1>5 DEF Disk!TargetRead
    <2>2. Disk!At(c, "target").checks = k.checks
      BY AtIs
    <2>3. k.checks + 1 \in 0 .. MaxChecks
      BY <1>1, <1>5, DriveConst
    <2> QED
      BY <1>2, <2>1, <2>2, <2>3
  <1> QED
    BY <1>3, <1>4, <1>5

(* What the drive shows, and what others do to the folder.                  *)
LEMMA ShowsStep ==
    ASSUME DriveInv, NEW f \in Drive, NEW n \in {a, b}, Disk!Shows(f, n)
    PROVE  DriveInv' /\ Disk!RenamedWasSeen
  <1>1. /\ m3' \subseteq Disk!Op /\ m2' = [m2 EXCEPT ![f] = n] /\ m2' \in [Drive -> {a, b}]
        /\ UNCHANGED <<m1, m4, m6>>
    BY DEF Disk!Shows, DriveInv
  <1>2. m5' = [c \in Callers |->
                 IF m5[c].ops # <<>> /\ m5[c].ops[1][1] = f
                   THEN [m5[c] EXCEPT !.since = @ \cup {n}] ELSE m5[c]]
    BY DEF Disk!Shows, Disk!Seen
  <1>3. ASSUME NEW c \in Callers
        PROVE  DriveCall(c, m5[c])' /\ m5'[c].results = m5[c].results
    <2> DEFINE k == m5[c]
               l == m5'[c]
    <2>1. DriveTypes(k) /\ Renaming(k) /\ Listing(k) /\ Saving(k, m4[c])
      BY DEF DriveInv, DriveCall
    <2>2. /\ DOMAIN l = DriveFields /\ l.at = k.at /\ l.ops = k.ops /\ l.results = k.results
          /\ l.tries = k.tries /\ l.checks = k.checks /\ l.page = k.page /\ l.got = k.got
          /\ l.answer = k.answer /\ l.quiet = k.quiet
          /\ k.since \subseteq l.since /\ l.since \subseteq k.since \cup {n}
          /\ k.ops # <<>> /\ k.ops[1][1] = f => n \in l.since
      BY <1>2, <2>1 DEF DriveTypes, DriveFields
    <2> HIDE DEF l
    <2>3. k.at \in RenamePlaces => m2'[k.ops[1][1]] \in l.since
      <3>1. k.at \in RenamePlaces => k.ops[1] \in Disk!Op
        BY <2>1 DEF DriveTypes, Renaming
      <3>2. k.at \in RenamePlaces => k.ops[1][1] \in Drive
        BY <3>1 DEF Disk!Op
      <3>3. CASE k.ops[1][1] = f
        BY <1>1, <2>1, <2>2, <3>2, <3>3 DEF Renaming, DriveInv
      <3>4. CASE k.ops[1][1] # f
        BY <1>1, <2>1, <2>2, <3>2, <3>4 DEF Renaming, DriveInv
      <3> QED
        BY <3>3, <3>4
    <2>4. DriveTypes(l)
      BY <2>1, <2>2 DEF DriveTypes
    <2>5. Renaming(m5[c])'
      BY <2>1, <2>2, <2>3 DEF Renaming, l
    <2>6. Listing(m5[c])'
      BY <1>1, <2>1, <2>2 DEF Listing, Disk!Page, l
    <2>7. Saving(l, m4[c])
      BY <2>1, <2>2 DEF Saving
    <2> QED
      BY <1>1, <2>2, <2>4, <2>5, <2>6, <2>7 DEF DriveCall, l
  <1> QED
    BY <1>1, <1>2, <1>3 DEF DriveInv, Disk!RenamedWasSeen


LEMMA FolderStep ==
    ASSUME DriveInv, NEW f \in Drive, Disk!Arrives(f) \/ Disk!Removed(f)
    PROVE  DriveInv' /\ Disk!RenamedWasSeen
  <1>1. m6' \in 0 .. MaxChanges /\ UNCHANGED <<m2, m3, m4>>
        /\ m5' = [c \in Callers |-> [m5[c] EXCEPT !.quiet = FALSE]]
    BY DriveConst DEF Disk!Arrives, Disk!Removed, Disk!Disturbed, DriveInv
  <1>2. m1 \in Seq(Drive) /\ Len(m1) \in Nat /\ DOMAIN m1 = 1 .. Len(m1)
        /\ \A i, j \in DOMAIN m1 : m1[i] = m1[j] => i = j
    <2>1. m1 \in Seq(Drive) /\ IsInjective(m1)
      BY DEF DriveInv
    <2> QED
      BY <2>1 DEF IsInjective
  <1>3. m1' \in Seq(Drive) /\ IsInjective(m1')
    <2>1. CASE Disk!Arrives(f)
      <3>1. m1' = Append(m1, f) /\ \A i \in DOMAIN m1 : m1[i] # f
        BY <2>1 DEF Disk!Arrives, Disk!Range
      <3>2. /\ m1' \in Seq(Drive) /\ DOMAIN m1' = 1 .. (Len(m1) + 1)
            /\ m1'[Len(m1) + 1] = f /\ \A i \in 1 .. Len(m1) : m1'[i] = m1[i]
        BY <1>2, <3>1
      <3>3. ASSUME NEW i \in DOMAIN m1', NEW j \in DOMAIN m1', m1'[i] = m1'[j] PROVE i = j
        <4>1. CASE i = Len(m1) + 1 /\ j # Len(m1) + 1
          BY <1>2, <3>1, <3>2, <3>3, <4>1
        <4>2. CASE j = Len(m1) + 1 /\ i # Len(m1) + 1
          BY <1>2, <3>1, <3>2, <3>3, <4>2
        <4>3. CASE i \in 1 .. Len(m1) /\ j \in 1 .. Len(m1)
          BY <1>2, <3>2, <3>3, <4>3
        <4> QED
          BY <1>2, <3>2, <4>1, <4>2, <4>3
      <3> QED
        BY <3>2, <3>3 DEF IsInjective
    <2>2. CASE Disk!Removed(f)
      <3>1. PICK x \in DOMAIN m1 : m1' = Disk!RemoveAt(m1, x)
        BY <2>2 DEF Disk!Removed
      <3> DEFINE s == SubSeq(m1, 1, x - 1)
                 t == SubSeq(m1, x + 1, Len(m1))
      <3>2. m1' = s \o t
        BY <3>1 DEF Disk!RemoveAt
      <3>3. /\ s \in Seq(Drive) /\ Len(s) = x - 1
            /\ \A i \in 1 .. (x - 1) : s[i] = m1[i]
        <4>1. \A i \in 1 .. (x - 1) : m1[i] \in Drive
          BY <1>2
        <4>2. x \in Nat /\ x > 0 /\ x - 1 \in Int /\ 1 \in Int
          BY <1>2
        <4>3. /\ s \in Seq(Drive) /\ Len(s) = (IF 1 <= x - 1 THEN (x - 1) - 1 + 1 ELSE 0)
              /\ \A i \in 1 .. ((x - 1) - 1 + 1) : s[i] = m1[1 + i - 1]
          BY <4>1, <4>2, SubSeqProperties
        <4> HIDE DEF s
        <4> QED
          BY <4>2, <4>3
      <3>4. /\ t \in Seq(Drive) /\ Len(t) = Len(m1) - x
            /\ \A i \in 1 .. (Len(m1) - x) : t[i] = m1[x + i]
        <4>1. \A i \in (x + 1) .. Len(m1) : m1[i] \in Drive
          BY <1>2
        <4>2. x \in Nat /\ x > 0 /\ x <= Len(m1) /\ x + 1 \in Int /\ Len(m1) \in Int
          BY <1>2
        <4>3. /\ t \in Seq(Drive) /\ Len(t) = (IF x + 1 <= Len(m1) THEN Len(m1) - (x + 1) + 1 ELSE 0)
              /\ \A i \in 1 .. (Len(m1) - (x + 1) + 1) : t[i] = m1[(x + 1) + i - 1]
          BY <4>1, <4>2, SubSeqProperties
        <4> HIDE DEF t
        <4>4. Len(t) = Len(m1) - x
          BY <1>2, <4>2, <4>3
        <4>5. ASSUME NEW i \in 1 .. (Len(m1) - x) PROVE t[i] = m1[x + i]
          <5>1. i \in 1 .. (Len(m1) - (x + 1) + 1) /\ (x + 1) + i - 1 = x + i
            BY <1>2, <4>2
          <5> QED
            BY <4>3, <5>1
        <4> QED
          BY <4>3, <4>4, <4>5
      <3> HIDE DEF s, t
      <3>5. /\ m1' \in Seq(Drive) /\ Len(m1') = Len(m1) - 1
            /\ \A i \in 1 .. (Len(m1) - 1) : m1'[i] = m1[IF i < x THEN i ELSE i + 1]
        <4>1. /\ s \o t \in Seq(Drive) /\ Len(s \o t) = Len(s) + Len(t)
              /\ \A i \in 1 .. (Len(s) + Len(t)) :
                    (s \o t)[i] = IF i <= Len(s) THEN s[i] ELSE t[i - Len(s)]
          BY <3>3, <3>4, ConcatProperties
        <4>2. x \in Nat /\ x > 0 /\ x <= Len(m1) /\ Len(s) + Len(t) = Len(m1) - 1
          BY <1>2, <3>3, <3>4
        <4>3. ASSUME NEW i \in 1 .. (Len(m1) - 1)
              PROVE  m1'[i] = m1[IF i < x THEN i ELSE i + 1]
          <5>1. m1'[i] = IF i <= Len(s) THEN s[i] ELSE t[i - Len(s)]
            BY <3>2, <4>1, <4>2
          <5>2. CASE i < x
            <6>1. i \in 1 .. (x - 1) /\ i <= Len(s)
              BY <3>3, <4>2, <5>2
            <6> QED
              BY <3>3, <5>1, <5>2, <6>1
          <5>3. CASE ~(i < x)
            <6>1. i - Len(s) \in 1 .. (Len(m1) - x) /\ ~(i <= Len(s)) /\ x + (i - Len(s)) = i + 1
              BY <1>2, <3>3, <4>2, <5>3
            <6> QED
              BY <3>4, <5>1, <5>3, <6>1
          <5> QED
            BY <5>2, <5>3
        <4> QED
          BY <3>2, <4>1, <4>2, <4>3
      <3>6. ASSUME NEW i \in 1 .. (Len(m1) - 1), NEW j \in 1 .. (Len(m1) - 1), m1'[i] = m1'[j]
            PROVE  i = j
        <4> DEFINE p == IF i < x THEN i ELSE i + 1
                   q == IF j < x THEN j ELSE j + 1
        <4>1. p \in DOMAIN m1 /\ q \in DOMAIN m1 /\ m1[p] = m1[q]
          BY <1>2, <3>5, <3>6
        <4>2. p = q
          BY <1>2, <4>1
        <4> QED
          BY <1>2, <4>2
      <3>7. DOMAIN m1' = 1 .. (Len(m1) - 1)
        BY <3>5
      <3> QED
        BY <3>5, <3>6, <3>7 DEF IsInjective
    <2> QED
      BY <2>1, <2>2
  <1>4. ASSUME NEW c \in Callers
        PROVE  DriveCall(c, m5[c])' /\ m5'[c].results = m5[c].results
    <2> DEFINE k == m5[c]
               l == m5'[c]
    <2>1. DriveTypes(k) /\ Renaming(k) /\ Listing(k) /\ Saving(k, m4[c])
      BY DEF DriveInv, DriveCall
    <2>2. /\ DOMAIN l = DriveFields /\ l.at = k.at /\ l.ops = k.ops /\ l.results = k.results
          /\ l.tries = k.tries /\ l.checks = k.checks /\ l.page = k.page
          /\ l.answer = k.answer /\ l.since = k.since /\ l.quiet = FALSE
      BY <1>1, <2>1 DEF DriveTypes, DriveFields
    <2> HIDE DEF l
    <2>3. DriveTypes(l)
      BY <2>1, <2>2 DEF DriveTypes
    <2>4. Renaming(m5[c])'
      BY <1>1, <2>1, <2>2 DEF Renaming, l
    <2>5. Listing(m5[c])'
      BY <2>1, <2>2 DEF Listing, l
    <2>6. Saving(l, m4[c])
      BY <2>1, <2>2 DEF Saving
    <2> QED
      BY <1>1, <2>2, <2>3, <2>4, <2>5, <2>6 DEF DriveCall, l
  <1>5. m5' = [c \in Callers |-> m5'[c]]
    BY <1>1
  <1>6. Disk!RenamedWasSeen
    <2>1. \A c \in Callers : Len(m5[c].results) \in Nat
      <3>1. \A c \in Callers : m5[c].results \in Seq(Disk!Results)
        BY DEF DriveInv, DriveCall, DriveTypes
      <3> QED
        BY <3>1
    <2> QED
      BY <1>4, <2>1 DEF Disk!RenamedWasSeen
  <1> QED
    BY <1>1, <1>3, <1>4, <1>5, <1>6 DEF DriveInv

LEMMA DriveStep ==
    ASSUME DriveInv, [Disk!Next]_(Disk!vars)
    PROVE  DriveInv' /\ Disk!RenamedWasSeen
  <1>1. CASE UNCHANGED Disk!vars
    <2>1. UNCHANGED <<m1, m2, m3, m4, m5, m6>>
      BY <1>1 DEF Disk!vars
    <2>2. \A c \in Callers : m5[c].results \in Seq(Disk!Results)
      BY DEF DriveInv, DriveCall, DriveTypes
    <2>3. Disk!RenamedWasSeen
      BY <2>1, <2>2 DEF Disk!RenamedWasSeen
    <2>4. DriveInv'
      BY <2>1 DEF DriveInv, DriveCall, Renaming, Listing, Disk!Page
    <2> QED
      BY <2>3, <2>4
  <1>2. ASSUME NEW c \in Callers, Disk!get_files(c) \/ Disk!smart_rename_cloud_files(c)
                                  \/ Disk!transfer_share(c)
        PROVE  DriveInv' /\ Disk!RenamedWasSeen
    <2>1. PICK at \in {"page", "first", "target"} : Disk!Start(c, at, <<>>)
      BY <1>2 DEF Disk!get_files, Disk!smart_rename_cloud_files, Disk!transfer_share
    <2>2. <<>> \in Seq(Disk!Op)
      OBVIOUS
    <2> QED
      BY <2>1, <2>2, StartStep
  <1>3. ASSUME NEW c \in Callers, NEW ops \in Disk!BoundedSeq(Disk!Op, MaxOps),
               Disk!execute_cloud_rename(c, ops)
        PROVE  DriveInv' /\ Disk!RenamedWasSeen
    <2>1. ops \in Seq(Disk!Op)
      BY DriveConst DEF Disk!BoundedSeq, Disk!SeqOf
    <2>2. ops # <<>> /\ Disk!Start(c, "info", ops)
      BY <1>3 DEF Disk!execute_cloud_rename
    <2> QED
      BY <2>1, <2>2, StartStep
  <1>4. ASSUME NEW c \in Callers, Disk!Steps(c)
        PROVE  DriveInv' /\ Disk!RenamedWasSeen
    BY <1>4, ServeStep, LostStep, PageReadStep, EndsStep, RenameSteps, TargetStep DEF Disk!Steps
  <1>5. ASSUME NEW f \in Drive, NEW n \in {a, b}, Disk!Shows(f, n)
        PROVE  DriveInv' /\ Disk!RenamedWasSeen
    BY <1>5, ShowsStep
  <1>6. ASSUME NEW f \in Drive, Disk!Arrives(f) \/ Disk!Removed(f)
        PROVE  DriveInv' /\ Disk!RenamedWasSeen
    BY <1>6, FolderStep
  <1> QED
    BY <1>1, <1>2, <1>3, <1>4, <1>5, <1>6 DEF Disk!Next

-----------------------------------------------------------------------------
(* The scenes together.                                                     *)
SceneInv ==
    /\ scene = "stream" => StreamInv
    /\ scene = "gateway" => GateInv
    /\ scene = "organize" => OrganizeInv
    /\ scene = "scan" => ScanInv
    /\ scene = "redirect" => PlaybackInv
    /\ scene = "scrape" => ScrapeInv
    /\ scene = "drive" => DriveInv

LEMMA SceneInit == AllInit => SceneInv
  <1> SUFFICES ASSUME AllInit PROVE SceneInv
    OBVIOUS
  <1>1. /\ scene = "stream" => Stream!Init
        /\ scene = "gateway" => Gate!Init
        /\ scene = "organize" => Organizer!Init
        /\ scene = "scan" => Scan!Init
        /\ scene = "redirect" => Redirect!Init
        /\ scene = "scrape" => Scraped!Init
        /\ scene = "drive" => Disk!Init
    BY DEF AllInit
  <1> QED
    BY <1>1, StreamInit, GateInit, OrganizeInit, ScanInit, PlaybackInit, ScrapeInit, DriveInit
    DEF SceneInv

LEMMA SceneStep ==
    ASSUME SceneInv, [AllNext]_all
    PROVE  /\ SceneInv'
           /\ scene = "scan" => Scan!KeepsOneEnd
           /\ scene = "redirect" => Redirect!DirectWasPlayable
           /\ scene = "scrape" => Scraped!TouchedByRequest
           /\ scene = "drive" => Disk!RenamedWasSeen
  <1>1. scene' = scene
    BY DEF AllNext, all
  <1>2. CASE scene = "stream"
    <2>1. [Stream!Next]_(Stream!vars)
      BY <1>2 DEF AllNext, all, Stream!vars
    <2> QED
      BY <1>1, <1>2, <2>1, StreamStep DEF SceneInv
  <1>3. CASE scene = "gateway"
    <2>1. [Gate!Next]_(Gate!vars)
      BY <1>3 DEF AllNext, all, Gate!vars
    <2> QED
      BY <1>1, <1>3, <2>1, GateStep DEF SceneInv
  <1>4. CASE scene = "organize"
    <2>1. [Organizer!Next]_(Organizer!vars)
      BY <1>4 DEF AllNext, all, Organizer!vars
    <2> QED
      BY <1>1, <1>4, <2>1, OrganizeStep DEF SceneInv
  <1>5. CASE scene = "scan"
    <2>1. [Scan!Next]_(Scan!vars)
      BY <1>5 DEF AllNext, all, Scan!vars
    <2> QED
      BY <1>1, <1>5, <2>1, ScanStep DEF SceneInv
  <1>6. CASE scene = "redirect"
    <2>1. [Redirect!Next]_(Redirect!vars)
      BY <1>6 DEF AllNext, all, Redirect!vars
    <2> QED
      BY <1>1, <1>6, <2>1, PlaybackStep DEF SceneInv
  <1>7. CASE scene = "scrape"
    <2>1. [Scraped!Next]_(Scraped!vars)
      BY <1>7 DEF AllNext, all, Scraped!vars
    <2> QED
      BY <1>1, <1>7, <2>1, ScrapeStep DEF SceneInv
  <1>8. CASE scene = "drive"
    <2>1. [Disk!Next]_(Disk!vars)
      BY <1>8 DEF AllNext, all, Disk!vars
    <2> QED
      BY <1>1, <1>8, <2>1, DriveStep DEF SceneInv
  <1>9. CASE scene \notin {"stream", "gateway", "organize", "scan", "redirect", "scrape", "drive"}
    BY <1>1, <1>9 DEF SceneInv
  <1> QED
    BY <1>2, <1>3, <1>4, <1>5, <1>6, <1>7, <1>8, <1>9

LEMMA ScenesHold == Media => []SceneInv
  <1>1. SceneInv /\ [AllNext]_all => SceneInv'
    BY SceneStep
  <1> QED
    BY <1>1, SceneInit, PTL DEF Media

(* proxy_stream_by_file_id, EmbyProxyService, MediaOrganizeService: what a  *)
(* request or a task has opened is closed when it ends, whoever leaves and  *)
(* whatever fails, but for the two ways that StreamProxy names.             *)
THEOREM EveryoneCloses == Media => []AllClosed
  <1>1. StreamInv => Stream!TypeOK /\ Stream!AllClosed
    BY StreamTypes DEF StreamInv
  <1>2. SceneInv => AllClosed
    BY <1>1, GateHolds, OrganizeTypes DEF SceneInv, AllClosed
  <1> QED
    BY <1>2, ScenesHold, PTL

(* MediaMappingService, StrmGenerator, MediaOrganizeService: no file of the *)
(* cloud has two addresses, a row that is brought up to date keeps its file *)
(* or its path, and the addresses in STRM files have rows; a task is        *)
(* complete only with a file for every name it found, and writes one more   *)
(* at most once it is to be cancelled.                                      *)
THEOREM AddressesSound == Media => AddressesLead
  <1>1. SceneInv => (scene = "organize" => Organizer!CompletedLeads /\ Organizer!CancelStops)
    BY OrganizeLeads DEF SceneInv
  <1>2. SceneInv => (scene = "scan" => Scan!TypeOK /\ Scan!OneAddress /\ Scan!LeadsSomewhere)
    BY ScanHolds DEF SceneInv
  <1>3. SceneInv /\ [AllNext]_all => [scene = "scan" => Scan!KeepsOneEnd]_all
    BY SceneStep
  <1> QED
    BY <1>1, <1>2, <1>3, ScenesHold, PTL DEF Media, AddressesLead

(* PlaybackRouteHealthService, redirect_302, PlaybackInfoHook,              *)
(* EmbyProxyService: routes are downgraded when they are due and for no     *)
(* other reason, players are sent to links only that were found playable    *)
(* within the time a probe is kept, and all ways lead a player to the file  *)
(* its item names.                                                          *)
THEOREM RedirectsSound == Media => RedirectsHold
  <1>1. SceneInv => (scene = "redirect" => /\ Redirect!TypeOK /\ Redirect!StickyForReason
                                           /\ Redirect!StickyWhenDue)
    BY PlaybackHolds DEF SceneInv
  <1>2. SceneInv => (scene = "gateway" => /\ Gate!TypeOK /\ Gate!PlaysWhatIsNamed
                                          /\ Gate!ModesAgree /\ Gate!BrowsersAreCurrent)
    BY GateHolds DEF SceneInv
  <1>3. SceneInv /\ [AllNext]_all => [scene = "redirect" => Redirect!DirectWasPlayable]_all
    BY SceneStep
  <1> QED
    BY <1>1, <1>2, <1>3, ScenesHold, PTL DEF Media, RedirectsHold

(* ScrapeService: whatever jobs run, and however they are asked to treat    *)
(* what is in their way, every video keeps a place or was replaced because  *)
(* a job was told to; a job touches only the files it moves and those it    *)
(* may overwrite.                                                           *)
THEOREM ScrapeSound == Media => ScrapeKeepsFiles
  <1>1. SceneInv => (scene = "scrape" => Scraped!TypeOK /\ Scraped!VideosKept)
    BY DEF SceneInv, ScrapeInv
  <1>2. SceneInv /\ [AllNext]_all => [scene = "scrape" => Scraped!TouchedByRequest]_all
    BY SceneStep
  <1> QED
    BY <1>1, <1>2, ScenesHold, PTL DEF Media, ScrapeKeepsFiles

(* QuarkAPIClient and what is built on it, over a network that loses        *)
(* requests and answers: a listing without errors of a folder that nobody   *)
(* changes meanwhile has each of its files once and in order, whatever the  *)
(* size of its pages; a share told to be saved was saved; and a file is told*)
(* to be renamed only if it was seen under its new name during the call.    *)
THEOREM DriveSound == Media => DriveHolds
  <1>1. SceneInv => (scene = "drive" => Disk!TypeOK /\ Disk!WholeIsWhole /\ Disk!SavedIsSaved)
    BY DriveHas DEF SceneInv
  <1>2. SceneInv /\ [AllNext]_all => [scene = "drive" => Disk!RenamedWasSeen]_all
    BY SceneStep
  <1> QED
    BY <1>1, <1>2, ScenesHold, PTL DEF Media, DriveHolds

-----------------------------------------------------------------------------
(* The scene of the smart renames is SmartRename with other constants, of   *)
(* which SmartRename_proofs proves what it proves of any.                   *)
Renames == INSTANCE SmartRename_proofs WITH
             Names <- MoreNames, MaxSuffix <- FewerSuffixes, Sidecars <- {}, Faults <- {},
             video <- m1, side <- m2, status <- m3, rows <- m4, call <- m5, seen <- m6

LEMMA SameRowSteps ==
    ASSUME NEW i
    PROVE  Smart!RowStep(i) <=> Renames!RowStep(i)
  <1>1. Smart!MoveVideo(i) <=> Renames!MoveVideo(i)
    BY DEF Smart!MoveVideo, Renames!MoveVideo, Smart!Executing,
           Renames!Executing, Smart!Current, Renames!Current, Smart!row,
           Renames!row, Smart!IsFinal, Renames!IsFinal, Smart!Shift,
           Renames!Shift, Smart!Mark, Renames!Mark, Smart!Stem, Renames!Stem
  <1>2. Smart!MoveFails(i) <=> Renames!MoveFails(i)
    BY DEF Smart!MoveFails, Renames!MoveFails, Smart!Executing,
           Renames!Executing, Smart!Current, Renames!Current, Smart!row,
           Renames!row, Smart!Mark, Renames!Mark, Smart!NextRow,
           Renames!NextRow, Smart!disk, Renames!disk
  <1>3. Smart!MoveDone(i) <=> Renames!MoveDone(i)
    BY DEF Smart!MoveDone, Renames!MoveDone, Smart!Executing,
           Renames!Executing, Smart!Current, Renames!Current, Smart!row,
           Renames!row, Smart!Mark, Renames!Mark, Smart!NextRow,
           Renames!NextRow, Smart!disk, Renames!disk
  <1>4. Smart!RestoreVideo(i) <=> Renames!RestoreVideo(i)
    BY DEF Smart!RestoreVideo, Renames!RestoreVideo, Smart!RollingBack,
           Renames!RollingBack, Smart!Latest, Renames!Latest, Smart!row,
           Renames!row, Smart!CanRestore, Renames!CanRestore, Smart!Shift,
           Renames!Shift, Smart!Mark, Renames!Mark, Smart!Stem, Renames!Stem
  <1>5. Smart!RestoreFails(i) <=> Renames!RestoreFails(i)
    BY DEF Smart!RestoreFails, Renames!RestoreFails, Smart!RollingBack,
           Renames!RollingBack, Smart!Latest, Renames!Latest, Smart!row,
           Renames!row, Smart!CanRestore, Renames!CanRestore, Smart!NextRow,
           Renames!NextRow, Smart!disk, Renames!disk, Smart!tables,
           Renames!tables
  <1>6. Smart!RestoreDone(i) <=> Renames!RestoreDone(i)
    BY DEF Smart!RestoreDone, Renames!RestoreDone, Smart!RollingBack,
           Renames!RollingBack, Smart!Latest, Renames!Latest, Smart!row,
           Renames!row, Smart!Mark, Renames!Mark, Smart!NextRow,
           Renames!NextRow, Smart!disk, Renames!disk
  <1>7. \A e : Smart!MoveSidecar(i, e) <=> Renames!MoveSidecar(i, e)
    BY DEF Smart!MoveSidecar, Renames!MoveSidecar, Smart!Executing,
           Renames!Executing, Smart!Current, Renames!Current, Smart!row,
           Renames!row, Smart!Shift, Renames!Shift, Smart!tables,
           Renames!tables
  <1>8. \A e : Smart!RestoreSidecar(i, e) <=> Renames!RestoreSidecar(i, e)
    BY DEF Smart!RestoreSidecar, Renames!RestoreSidecar, Smart!RollingBack,
           Renames!RollingBack, Smart!Latest, Renames!Latest, Smart!row,
           Renames!row, Smart!Shift, Renames!Shift, Smart!tables,
           Renames!tables
  <1> QED
    BY <1>1, <1>2, <1>3, <1>4, <1>5, <1>6, <1>7, <1>8
       DEF Smart!RowStep, Renames!RowStep

LEMMA SameCalls ==
    ASSUME NEW c
    PROVE  /\ Smart!Preview(c) <=> Renames!Preview(c)
           /\ Smart!Execute(c) <=> Renames!Execute(c)
           /\ Smart!ExecuteOperations(c) <=> Renames!ExecuteOperations(c)
           /\ Smart!Rollback(c) <=> Renames!Rollback(c)
  <1>1. \A S : Smart!Cardinality(S) = Renames!Cardinality(S)
    BY DEF Smart!Cardinality, Renames!Cardinality
  <1>2. \A S : Smart!SetToSeqs(S) = Renames!SetToSeqs(S)
    BY <1>1 DEF Smart!SetToSeqs, Renames!SetToSeqs
  <1>3. Smart!Preview(c) <=> Renames!Preview(c)
    BY <1>2 DEF Smart!Preview, Renames!Preview, Smart!Busy, Renames!Busy,
           Smart!Found, Renames!Found, Smart!Stem, Renames!Stem,
           Smart!PlannedRow, Renames!PlannedRow, Smart!Plain, Renames!Plain,
           Smart!disk, Renames!disk
  <1>4. Smart!Execute(c) <=> Renames!Execute(c)
    BY DEF Smart!Execute, Renames!Execute, Smart!Busy, Renames!Busy,
           Smart!Begin, Renames!Begin, Smart!Idle, Renames!Idle,
           Smart!RowsIn, Renames!RowsIn, Smart!disk, Renames!disk
  <1>5. Smart!ExecuteOperations(c) <=> Renames!ExecuteOperations(c)
    BY DEF Smart!ExecuteOperations, Renames!ExecuteOperations, Smart!Busy,
           Renames!Busy, Smart!Begin, Renames!Begin, Smart!Idle,
           Renames!Idle, Smart!Plain, Renames!Plain, Smart!disk, Renames!disk
  <1>6. Smart!Rollback(c) <=> Renames!Rollback(c)
    BY DEF Smart!Rollback, Renames!Rollback, Smart!Busy, Renames!Busy,
           Smart!Begin, Renames!Begin, Smart!Idle, Renames!Idle,
           Smart!RowsIn, Renames!RowsIn, Smart!disk, Renames!disk,
           Smart!tables, Renames!tables
  <1> QED
    BY <1>3, <1>4, <1>5, <1>6

LEMMA SameNext == Smart!Next => Renames!Next
  <1>1. Smart!ExecuteEnds <=> Renames!ExecuteEnds
    BY DEF Smart!ExecuteEnds, Renames!ExecuteEnds, Smart!Outcome,
           Renames!Outcome, Smart!Idle, Renames!Idle, Smart!disk,
           Renames!disk
  <1>2. Smart!RollbackEnds <=> Renames!RollbackEnds
    BY DEF Smart!RollbackEnds, Renames!RollbackEnds, Smart!Idle,
           Renames!Idle, Smart!disk, Renames!disk
  <1>3. Smart!Crash <=> Renames!Crash
    BY DEF Smart!Crash, Renames!Crash, Smart!Busy, Renames!Busy, Smart!Idle,
           Renames!Idle, Smart!disk, Renames!disk, Smart!tables,
           Renames!tables
  <1>4. \A f : Smart!Arrive(f) <=> Renames!Arrive(f)
    BY DEF Smart!Arrive, Renames!Arrive, Smart!Stem, Renames!Stem,
           Smart!tables, Renames!tables
  <1>5. Smart!Step <=> Renames!Step
    BY <1>1, <1>2, SameRowSteps DEF Smart!Step, Renames!Step
  <1> QED
    BY <1>3, <1>4, <1>5, SameCalls DEF Smart!Next, Renames!Next

LEMMA SameStates ==
    /\ Smart!Init => Renames!Init
    /\ Renames!TypeOK => Smart!TypeOK
    /\ Renames!RollbackComplete => Smart!RollbackComplete
  <1>1. Smart!Init => Renames!Init
    BY DEF Smart!Init, Renames!Init, Smart!Stem, Renames!Stem, Smart!Content,
           Renames!Content, Smart!Idle, Renames!Idle
  <1>2. Renames!TypeOK => Smart!TypeOK
    BY DEF Smart!TypeOK, Renames!TypeOK, Smart!Stem, Renames!Stem,
           Smart!Content, Renames!Content, Smart!BatchStatus,
           Renames!BatchStatus, Smart!Row, Renames!Row, Smart!Call,
           Renames!Call, Smart!Busy, Renames!Busy
  <1>3. Renames!RollbackComplete => Smart!RollbackComplete
    BY DEF Smart!RollbackComplete, Renames!RollbackComplete, Smart!AsPlanned,
           Renames!AsPlanned, Smart!Done, Renames!Done, Smart!Restored,
           Renames!Restored, Smart!RowsIn, Renames!RowsIn
  <1> QED
    BY <1>1, <1>2, <1>3

LEMMA RenamesScene == Media /\ scene = "reverse" => [](scene = "reverse") /\ Renames!Spec
  <1>1. scene = "reverse" /\ AllInit => Renames!Init
    BY SameStates DEF AllInit
  <1>2. scene = "reverse" /\ [AllNext]_all =>
           (scene = "reverse")' /\ [Renames!Next]_Renames!vars
    BY SameNext DEF AllNext, all, Renames!vars
  <1> QED
    BY <1>1, <1>2, PTL DEF Media, Renames!Spec

(* SmartRenameService, RenameService: of a batch alone, where nothing has   *)
(* failed, a complete rollback leaves no row behind, whatever names the     *)
(* rows took from each other (rollback, executed_at.desc()); and the state  *)
(* of the renames with faults keeps its types.                              *)
THEOREM RollbacksComplete == ASSUME Alone PROVE Media => []NothingLeftBehind
  <1>1. Media => []TypeOK
    <2>1. AllInit => TypeOK
      BY InitTypes DEF AllInit
    <2>2. [AllNext]_all => [Next]_vars
      BY DEF AllNext, all, vars
    <2>3. TypeOK /\ [AllNext]_all => TypeOK'
      BY <2>2, StepTypes
    <2> QED
      BY <2>1, <2>3, PTL DEF Media
  <1>2. /\ NoFile \notin Files
        /\ Renames!IsFiniteSet(MoreNames)
        /\ FewerSuffixes \in Nat
        /\ {} \subseteq {"crash", "move", "others"}
    <2>1. Renames!IsFiniteSet(MoreNames)
      BY RenamesConstants DEF IsFiniteSet, Renames!IsFiniteSet
    <2> QED
      BY <2>1, RenameAssumption, RenamesConstants
  <1>3. Renames!Spec => [](Renames!TypeOK /\ Renames!RollbackComplete)
    <2>1. Renames!Spec => []Renames!TypeOK
      BY <1>2, Renames!RenameTypes
    <2>2. Renames!Spec => []Renames!RollbackComplete
      BY <1>2, Renames!NoneLeftBehind DEF Alone, Renames!Alone
    <2> QED
      BY <2>1, <2>2, PTL
  <1>4. Classic!Spec => []Classic!RollbackComplete
    BY ClassicConstants, Classic!ClassicBack
  <1>5. /\ ~(scene = "reverse") /\ [AllNext]_all => (~(scene = "reverse"))'
        /\ ~(scene = "classic") /\ [AllNext]_all => (~(scene = "classic"))'
    BY DEF AllNext, all
  <1>6. Media /\ ~(scene = "reverse") => [](~(scene = "reverse"))
    BY <1>5, PTL DEF Media
  <1>7. Media /\ ~(scene = "classic") => [](~(scene = "classic"))
    BY <1>5, PTL DEF Media
  <1>8. /\ scene = "reverse" /\ Renames!TypeOK /\ Renames!RollbackComplete
           => (scene = "reverse" => Smart!TypeOK /\ Smart!RollbackComplete)
    BY SameStates
  <1>9. TypeOK /\ (scene = "reverse" => Smart!TypeOK /\ Smart!RollbackComplete)
           /\ (scene = "classic" => Classic!RollbackComplete) => NothingLeftBehind
    BY DEF NothingLeftBehind
  <1> QED
    BY <1>1, <1>3, <1>4, <1>6, <1>7, <1>8, <1>9, RenamesScene, ClassicScene, PTL
=============================================================================
