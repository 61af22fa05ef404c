---------------------------- MODULE ClassicRename ----------------------------
(****************************************************************************)
(* RenameService (app/services/media/rename.py), the renaming of media      *)
(* files behind the routes /rename: preview plans a batch, execute moves    *)
(* its files and rollback moves them back.  Unlike SmartRenameService it    *)
(* writes down where each file really went.                                 *)
(*                                                                          *)
(* execute and rollback have no await between their first read and their    *)
(* last commit, so that one call runs at a time; the process may end        *)
(* between any two of its steps.  A path is a name, or a name with a        *)
(* counter _1, _2, ...; the related files that follow a video are left out, *)
(* except that moving them may fail.                                        *)
(****************************************************************************)
EXTENDS Naturals, Sequences, SequencesExt, FiniteSetTheorems, TLAPS

CONSTANTS
    Names, MaxSuffix,   \* plain paths, and bound: the counters added to one
    Files, NoFile,      \* contents of files, and a path with no file
    Batches

ClassicAssumption ==
    /\ NoFile \notin Files
    /\ IsFiniteSet(Names) /\ Names # {} /\ Batches # {}
    /\ MaxSuffix \in Nat
    /\ MaxSuffix + 1 >= Cardinality(Files)

Path    == Names \X (0 .. MaxSuffix)
Content == Files \cup {NoFile}

VARIABLES
    video,      \* the file at each path
    status,     \* rename_batches: the status of each
    rows,       \* rename_history: the rows of each batch
    call,       \* the call of execute or rollback under way
    faulty      \* history: a move has failed, or the process has ended in a call

vars == <<video, status, rows, call, faulty>>

(* own and back are history: what execute has moved and rollback put back.  *)
Row == [orig : Path, new : Path,
        status : {"matched", "success", "failed", "rolled_back"},
        own : Content, back : Content]

Idle == [kind |-> "none", b |-> CHOOSE b \in Batches : TRUE, todo |-> {},
         moved |-> FALSE, at |-> CHOOSE p \in Path : TRUE, failed |-> FALSE]

Call == [kind : {"none", "execute", "rollback"}, b : Batches, todo : SUBSET Nat,
         moved : BOOLEAN, at : Path, failed : BOOLEAN]

TypeOK ==
    /\ video \in [Path -> Content]
    /\ status \in [Batches -> {"none", "previewing", "executing", "completed",
                               "completed_with_errors", "rolled_back"}]
    /\ rows \in [Batches -> Seq(Row)]
    /\ call \in Call
    /\ call.todo \subseteq DOMAIN rows[call.b]
    /\ call.kind = "none" => call.todo = {}
    /\ faulty \in BOOLEAN

(* Every content is somewhere, under one of the plain names.                *)
Init ==
    /\ \E place \in [Files -> Names] :
         /\ IsInjective(place)
         /\ video = [p \in Path |->
              IF \E f \in Files : p = <<place[f], 0>>
              THEN CHOOSE f \in Files : p = <<place[f], 0>>
              ELSE NoFile]
    /\ status = [b \in Batches |-> "none"]
    /\ rows = [b \in Batches |-> <<>>]
    /\ call = Idle
    /\ faulty = FALSE

-----------------------------------------------------------------------------
Busy == call.kind # "none"

Found == {p \in Path : video[p] # NoFile}

(* preview: what TMDB and the files' names agree on decides which of them   *)
(* match and what they are to be called, maybe what they are called now.    *)
preview(b) ==
    /\ ~Busy /\ status[b] = "none"
    /\ \E matched \in SUBSET Found :
       \E order \in SetToSeqs(matched), name \in [matched -> Names] :
         rows' = [rows EXCEPT ![b] = [i \in DOMAIN order |->
            [orig |-> order[i], new |-> <<name[order[i]], 0>>, status |-> "matched",
             own |-> NoFile, back |-> NoFile]]]
    /\ status' = [status EXCEPT ![b] = "previewing"]
    /\ UNCHANGED <<video, call, faulty>>

RowsIn(b, state) == {i \in DOMAIN rows[b] : rows[b][i].status = state}

Starts(kind, b, todo) ==
    call' = [Idle EXCEPT !.kind = kind, !.b = b, !.todo = todo]

execute(b) ==
    /\ ~Busy /\ status[b] = "previewing"
    /\ status' = [status EXCEPT ![b] = "executing"]
    /\ Starts("execute", b, RowsIn(b, "matched"))
    /\ UNCHANGED <<video, rows, faulty>>

rollback(b) ==
    /\ ~Busy /\ status[b] \notin {"none", "rolled_back"}
    /\ Starts("rollback", b, RowsIn(b, "success"))
    /\ UNCHANGED <<video, status, rows, faulty>>

-----------------------------------------------------------------------------
row(i) == rows[call.b][i]

(* Wrong on purpose: the first one executed is the first one taken back.    *)
TurnInOrder(i) == i \in call.todo /\ \A j \in call.todo : i <= j

(* Rows are executed in their order, and taken back by executed_at.desc().  *)
Turn(i) ==
    /\ i \in call.todo
    /\ \A j \in call.todo : IF call.kind = "execute" THEN i <= j ELSE j <= i

Executing(i) == call.kind = "execute" /\ Turn(i)

RollingBack(i) == call.kind = "rollback" /\ Turn(i)

Saves(i, new) == rows' = [rows EXCEPT ![call.b][i] = new]

NextRow(i, bad) ==
    call' = [call EXCEPT !.todo = @ \ {i}, !.moved = FALSE,
                           !.at = Idle.at, !.failed = @ \/ bad]

Shift(from, to) == video' = [video EXCEPT ![to] = video[from], ![from] = NoFile]

(* The planned path where it is free, or else its first free counter: a     *)
(* file that has its name already counts as another one.                    *)
Free(new) ==
    IF video[new] = NoFile THEN {new}
    ELSE {p \in Path : /\ p[1] = new[1] /\ video[p] = NoFile
                       /\ \A k \in 1 .. p[2] - 1 : video[<<p[1], k>>] # NoFile}

(* Wrong on purpose: the path planned stays in the row.                     *)
WentAsPlanned(r, p) == r

Went(r, p) == [r EXCEPT !.new = p]

(* The look, and the move of the video to the path found.                   *)
Move(i) ==
    /\ Executing(i) /\ ~call.moved /\ video[row(i).orig] # NoFile
    /\ \E p \in Free(row(i).new) :
         /\ Shift(row(i).orig, p)
         /\ Saves(i, [row(i) EXCEPT !.own = video[row(i).orig]])
         /\ call' = [call EXCEPT !.moved = TRUE, !.at = p]
    /\ UNCHANGED <<status, faulty>>

(* The related files have followed it: the row is committed with the path.  *)
Moved(i) ==
    /\ Executing(i) /\ call.moved
    /\ Saves(i, [Went(row(i), call.at) EXCEPT !.status = "success"])
    /\ NextRow(i, FALSE)
    /\ UNCHANGED <<video, status, faulty>>

(* The video has gone, or a move raises, of the video or, after it, of a    *)
(* related file.                                                            *)
MoveFails(i) ==
    /\ Executing(i)
    /\ \E p \in IF call.moved THEN {call.at} ELSE {row(i).new} \cup Free(row(i).new) :
         Saves(i, [Went(row(i), p) EXCEPT !.status = "failed"])
    /\ NextRow(i, TRUE)
    /\ faulty' = TRUE
    /\ UNCHANGED <<video, status>>

executed ==
    /\ call.kind = "execute" /\ call.todo = {}
    /\ status' = [status EXCEPT ![call.b] =
                    IF call.failed THEN "completed_with_errors" ELSE "completed"]
    /\ call' = Idle
    /\ UNCHANGED <<video, rows, faulty>>

-----------------------------------------------------------------------------
(* Wrong on purpose: a file at the original path is in nobody's way.        *)
VacantAnyway(r) == video[r.new] # NoFile

Vacant(r) == video[r.new] # NoFile /\ video[r.orig] = NoFile

Restore(i) ==
    /\ RollingBack(i) /\ ~call.moved /\ Vacant(row(i))
    /\ Shift(row(i).new, row(i).orig)
    /\ Saves(i, [row(i) EXCEPT !.back = video[row(i).new]])
    /\ call' = [call EXCEPT !.moved = TRUE]
    /\ UNCHANGED <<status, faulty>>

Restored(i) ==
    /\ RollingBack(i) /\ call.moved
    /\ Saves(i, [row(i) EXCEPT !.status = "rolled_back"])
    /\ NextRow(i, FALSE)
    /\ UNCHANGED <<video, status, faulty>>

(* The new path is empty, the original one is not ...                       *)
NotRestored(i) ==
    /\ RollingBack(i) /\ ~call.moved /\ ~Vacant(row(i))
    /\ NextRow(i, TRUE)
    /\ UNCHANGED <<video, status, rows, faulty>>

(* ... or a move raises: the row stays as it was.                           *)
RestoreFails(i) ==
    /\ RollingBack(i)
    /\ NextRow(i, TRUE)
    /\ faulty' = TRUE
    /\ UNCHANGED <<video, status, rows>>

rolled_back ==
    /\ call.kind = "rollback" /\ call.todo = {}
    /\ status' = [status EXCEPT ![call.b] = "rolled_back"]
    /\ call' = Idle
    /\ UNCHANGED <<video, rows, faulty>>

(* The process ends in the middle of a call: what is not committed is not   *)
(* in the row.                                                              *)
Crash ==
    /\ Busy
    /\ call' = Idle
    /\ faulty' = TRUE
    /\ UNCHANGED <<video, status, rows>>

Next ==
    \/ \E b \in Batches : preview(b) \/ execute(b) \/ rollback(b)
    \/ \E i \in call.todo : \/ Move(i) \/ Moved(i) \/ MoveFails(i)
                            \/ Restore(i) \/ Restored(i) \/ NotRestored(i) \/ RestoreFails(i)
    \/ executed \/ rolled_back \/ Crash

Spec == Init /\ [][Next]_vars

-----------------------------------------------------------------------------
(* No video is lost, whatever fails on the way and however the batches name *)
(* each other's files.                                                      *)
VideosKept == \A f \in Files : \E p \in Path : video[p] = f

Alone(b) == \A a \in Batches \ {b} : status[a] \in {"none", "previewing"}

(* A batch that nothing else interferes with puts no file in the place of   *)
(* another, through counters, failed moves, crashes and repeated rollbacks. *)
RestoresOwn ==
    \A b \in Batches : Alone(b) =>
        \A i \in DOMAIN rows[b] : rows[b][i].back \in {NoFile, rows[b][i].own}

(* If besides nothing has failed, a rollback leaves nothing behind, though  *)
(* rows may have taken each other's names.                                  *)
RollbackComplete ==
    \A b \in Batches :
        Alone(b) /\ ~faulty /\ status[b] = "rolled_back" => RowsIn(b, "success") = {}

(* All of it that no fault excuses.                                         *)
ClassicKeepsFiles == TypeOK /\ VideosKept /\ RestoresOwn

-----------------------------------------------------------------------------
(* Proofs, for any names, contents, batches and bound on the counters.  The *)
(* inductive invariant of ClassicSafe: no content is at two paths.          *)
Unique ==
    \A p, q \in Path : video[p] = video[q] /\ video[p] # NoFile => p = q

(* Which rows there are while a batch has not begun, and which a call takes.*)
Phases ==
    /\ \A b \in Batches : /\ status[b] \in {"none", "previewing"} =>
                               RowsIn(b, "matched") = DOMAIN rows[b]
                          /\ \A i \in RowsIn(b, "matched") : rows[b][i].back = NoFile
    /\ call.kind = "execute" =>
          /\ status[call.b] = "executing"
          /\ call.todo \subseteq RowsIn(call.b, "matched")
    /\ call.kind = "rollback" => call.todo \subseteq RowsIn(call.b, "success")

(* The row whose video execute has moved and has not committed yet, those   *)
(* whose videos are out, where these have gone, and the rows still to come. *)
Moving(b)   == {i \in call.todo : call.b = b /\ Executing(i) /\ call.moved}
Out(b)      == RowsIn(b, "success") \cup Moving(b)
Where(b, i) == IF i \in Moving(b) THEN call.at ELSE rows[b][i].new
Waiting(b)  == {i \in DOMAIN rows[b] :
                   \/ status[b] = "previewing"
                   \/ call.kind = "execute" /\ call.b = b /\ i \in call.todo \ Moving(b)}

(* What waits is where it was found and is out for no other row; what is    *)
(* out is where it went, or already back, though the row may not know.      *)
Kept(b) ==
    /\ \A i, j \in DOMAIN rows[b] : rows[b][i].orig = rows[b][j].orig => i = j
    /\ \A i \in Waiting(b) :
          /\ video[rows[b][i].orig] # NoFile
          /\ \A j \in Out(b) : video[rows[b][i].orig] # rows[b][j].own
    /\ \A i \in Out(b) :
          /\ rows[b][i].own # NoFile
          /\ \/ video[Where(b, i)] = rows[b][i].own
             \/ video[rows[b][i].orig] = rows[b][i].own
    /\ \A i, j \in Out(b) : rows[b][i].own = rows[b][j].own => i = j
    /\ \A i \in DOMAIN rows[b] : rows[b][i].back \in {NoFile, rows[b][i].own}

IInv == /\ TypeOK /\ VideosKept /\ Unique /\ Phases
        /\ \A b \in Batches : Alone(b) => Kept(b)

LEMMA Chosen ==
    ASSUME ClassicAssumption
    PROVE  /\ Idle \in Call /\ Idle.todo = {} /\ Idle.kind = "none" /\ Idle.moved = FALSE
           /\ Idle.b \in Batches /\ Idle.at \in Path
           /\ \A n \in Names : <<n, 0>> \in Path
  <1>1. \A n \in Names : <<n, 0>> \in Path
    BY DEF ClassicAssumption, Path
  <1>2. (CHOOSE b \in Batches : TRUE) \in Batches
    BY DEF ClassicAssumption
  <1>3. (CHOOSE p \in Path : TRUE) \in Path
    BY <1>1 DEF ClassicAssumption
  <1> QED
    BY <1>1, <1>2, <1>3 DEF Idle, Call

(* Moving a file to a path where there is none loses none and doubles none  *)
(* (shutil.move in execute and rollback).                                   *)
LEMMA ShiftKeeps ==
    ASSUME ClassicAssumption, TypeOK, NEW from \in Path, NEW to \in Path,
           video[from] # NoFile, video[to] = NoFile, Shift(from, to)
    PROVE  /\ video' \in [Path -> Content]
           /\ video'[to] = video[from] /\ video'[from] = NoFile
           /\ \A p \in Path \ {from, to} : video'[p] = video[p]
           /\ VideosKept => VideosKept'
           /\ Unique => Unique'
  <1>1. video \in [Path -> Content] /\ from # to
    BY DEF TypeOK
  <1>2. /\ video' \in [Path -> Content]
        /\ video'[to] = video[from] /\ video'[from] = NoFile
        /\ \A p \in Path \ {from, to} : video'[p] = video[p]
    BY <1>1 DEF Shift, Content
  <1>3. ASSUME VideosKept, NEW f \in Files PROVE \E p \in Path : video'[p] = f
    <2>1. PICK p \in Path : video[p] = f
      BY <1>3 DEF VideosKept
    <2>2. f # NoFile
      BY DEF ClassicAssumption
    <2>3. p # to
      BY <2>1, <2>2
    <2>4. CASE p = from
      BY <1>2, <2>1, <2>4
    <2>5. CASE p # from
      BY <1>2, <2>1, <2>3, <2>5
    <2> QED
      BY <2>4, <2>5
  <1>4. ASSUME Unique, NEW p \in Path, NEW q \in Path,
               video'[p] = video'[q], video'[p] # NoFile
        PROVE  p = q
    <2>1. p # from /\ q # from
      BY <1>2, <1>4
    <2>2. CASE p = to
      BY <1>2, <1>4, <2>1, <2>2 DEF Unique
    <2>3. CASE q = to
      BY <1>2, <1>4, <2>1, <2>3 DEF Unique
    <2>4. CASE p # to /\ q # to
      BY <1>2, <1>4, <2>1, <2>4 DEF Unique
    <2> QED
      BY <2>2, <2>3, <2>4
  <1>5. VideosKept => VideosKept'
    BY <1>3 DEF VideosKept
  <1>6. Unique => Unique'
    BY <1>4 DEF Unique
  <1> QED
    BY <1>2, <1>5, <1>6

(* The row at hand becomes the new one, every other row stays (db.commit in *)
(* the loops of execute and rollback).                                      *)
LEMMA SavesRow ==
    ASSUME TypeOK, NEW i \in call.todo, NEW new \in Row, Saves(i, new)
    PROVE  /\ rows' \in [Batches -> Seq(Row)]
           /\ call.b \in Batches /\ i \in DOMAIN rows[call.b]
           /\ DOMAIN rows'[call.b] = DOMAIN rows[call.b]
           /\ rows'[call.b][i] = new
           /\ \A j \in DOMAIN rows[call.b] \ {i} : rows'[call.b][j] = rows[call.b][j]
           /\ \A c \in Batches \ {call.b} : rows'[c] = rows[c]
  <1>1. /\ rows \in [Batches -> Seq(Row)]
        /\ call.b \in Batches
        /\ i \in DOMAIN rows[call.b]
    BY DEF TypeOK, Call
  <1>2. rows' = [rows EXCEPT ![call.b] = [rows[call.b] EXCEPT ![i] = new]]
    BY <1>1 DEF Saves
  <1>3. /\ [rows[call.b] EXCEPT ![i] = new] \in Seq(Row)
        /\ DOMAIN [rows[call.b] EXCEPT ![i] = new] = DOMAIN rows[call.b]
    BY <1>1
  <1> QED
    BY <1>1, <1>2, <1>3

LEMMA RowType ==
    ASSUME TypeOK, NEW i \in call.todo
    PROVE  /\ row(i) \in Row /\ row(i) = rows[call.b][i]
           /\ row(i).orig \in Path /\ row(i).new \in Path
           /\ video[row(i).orig] \in Content /\ video[row(i).new] \in Content
           /\ call.at \in Path /\ call.b \in Batches
  <1>1. call.at \in Path /\ call.b \in Batches
    BY DEF TypeOK, Call
  <1>2. row(i) \in Row /\ row(i) = rows[call.b][i]
    BY <1>1 DEF TypeOK, row
  <1>3. row(i).orig \in Path /\ row(i).new \in Path
    BY <1>2 DEF Row
  <1> QED
    BY <1>1, <1>2, <1>3 DEF TypeOK

(* Of the row, a save keeps all but what it sets.                           *)
LEMMA SetOwn ==
    ASSUME NEW r \in Row, NEW v \in Content, NEW n, n = [r EXCEPT !.own = v]
    PROVE  /\ n \in Row /\ n.own = v /\ n.orig = r.orig /\ n.new = r.new
           /\ n.status = r.status /\ n.back = r.back
  BY DEF Row

LEMMA SetBack ==
    ASSUME NEW r \in Row, NEW v \in Content, NEW n, n = [r EXCEPT !.back = v]
    PROVE  /\ n \in Row /\ n.back = v /\ n.orig = r.orig /\ n.new = r.new
           /\ n.status = r.status /\ n.own = r.own
  BY DEF Row

LEMMA SetStatus ==
    ASSUME NEW r \in Row, NEW s \in {"matched", "success", "failed", "rolled_back"},
           NEW n, n = [r EXCEPT !.status = s]
    PROVE  /\ n \in Row /\ n.status = s /\ n.orig = r.orig /\ n.new = r.new
           /\ n.own = r.own /\ n.back = r.back
  BY DEF Row

LEMMA SetWent ==
    ASSUME NEW r \in Row, NEW p \in Path,
           NEW s \in {"matched", "success", "failed", "rolled_back"},
           NEW n, n = [Went(r, p) EXCEPT !.status = s]
    PROVE  /\ n \in Row /\ n.status = s /\ n.orig = r.orig /\ n.new = p
           /\ n.own = r.own /\ n.back = r.back
  BY DEF Row, Went

(* What the calls become.                                                   *)
LEMMA CallSet ==
    ASSUME ClassicAssumption, TypeOK, NEW i \in call.todo
    PROVE  /\ \A bad \in BOOLEAN : NextRow(i, bad) =>
                 /\ call' \in Call /\ call'.b = call.b /\ call'.kind = call.kind
                 /\ call'.todo = call.todo \ {i} /\ call'.moved = FALSE
           /\ \A p \in Path : call' = [call EXCEPT !.moved = TRUE, !.at = p] =>
                 /\ call' \in Call /\ call'.b = call.b /\ call'.kind = call.kind
                 /\ call'.todo = call.todo /\ call'.moved = TRUE /\ call'.at = p
           /\ call' = [call EXCEPT !.moved = TRUE] =>
                 /\ call' \in Call /\ call'.b = call.b /\ call'.kind = call.kind
                 /\ call'.todo = call.todo
  <1>1. call \in Call
    BY DEF TypeOK
  <1>2. ASSUME NEW bad \in BOOLEAN, NextRow(i, bad)
        PROVE  /\ call' \in Call /\ call'.b = call.b /\ call'.kind = call.kind
               /\ call'.todo = call.todo \ {i} /\ call'.moved = FALSE
    <2> DEFINE at == Idle.at
               failed == call.failed \/ bad
    <2>1. at \in Path
      BY Chosen
    <2>2. failed \in BOOLEAN /\ call.todo \ {i} \in SUBSET Nat
      BY <1>1 DEF Call
    <2>3. call' = [call EXCEPT !.todo = call.todo \ {i}, !.moved = FALSE,
                               !.at = at, !.failed = failed]
      BY <1>2 DEF NextRow
    <2> HIDE DEF at, failed
    <2> QED
      BY <1>1, <2>1, <2>2, <2>3 DEF Call
  <1>3. ASSUME NEW p \in Path, call' = [call EXCEPT !.moved = TRUE, !.at = p]
        PROVE  /\ call' \in Call /\ call'.b = call.b /\ call'.kind = call.kind
               /\ call'.todo = call.todo /\ call'.moved = TRUE /\ call'.at = p
    BY <1>1, <1>3 DEF Call
  <1>4. ASSUME call' = [call EXCEPT !.moved = TRUE]
        PROVE  /\ call' \in Call /\ call'.b = call.b /\ call'.kind = call.kind
               /\ call'.todo = call.todo
    BY <1>1, <1>4 DEF Call
  <1> QED
    BY <1>2, <1>3, <1>4

LEMMA CallBegun ==
    ASSUME ClassicAssumption, TypeOK, NEW b \in Batches,
           NEW kind \in {"execute", "rollback"}, NEW todo \in SUBSET Nat,
           Starts(kind, b, todo)
    PROVE  /\ call' \in Call /\ call'.b = b /\ call'.kind = kind
           /\ call'.todo = todo /\ call'.moved = FALSE
  BY Chosen DEF Starts, Call

LEMMA PathsFinite == ASSUME ClassicAssumption PROVE IsFiniteSet(Path)
  <1>1. IsFiniteSet(0 .. MaxSuffix)
    BY FS_Interval DEF ClassicAssumption
  <1> QED
    BY <1>1, FS_Product DEF ClassicAssumption, Path

(* preview lists each file it matches once, where it is.                    *)
LEMMA PreviewRows ==
    ASSUME ClassicAssumption, TypeOK, NEW b \in Batches, preview(b)
    PROVE  /\ rows' \in [Batches -> Seq(Row)]
           /\ \A c \in Batches \ {b} : rows'[c] = rows[c]
           /\ \A i \in DOMAIN rows'[b] :
                  /\ video[rows'[b][i].orig] # NoFile
                  /\ rows'[b][i].status = "matched"
                  /\ rows'[b][i].own = NoFile /\ rows'[b][i].back = NoFile
           /\ \A i, j \in DOMAIN rows'[b] :
                  rows'[b][i].orig = rows'[b][j].orig => i = j
  <1> DEFINE planned(p, n) == [orig |-> p, new |-> <<n, 0>>, status |-> "matched",
                               own |-> NoFile, back |-> NoFile]
  <1>1. PICK matched \in SUBSET Found :
          \E order \in SetToSeqs(matched), name \in [matched -> Names] :
             rows' = [rows EXCEPT ![b] = [i \in DOMAIN order |->
                planned(order[i], name[order[i]])]]
    BY DEF preview
  <1>2. PICK order \in SetToSeqs(matched), name \in [matched -> Names] :
             rows' = [rows EXCEPT ![b] = [i \in DOMAIN order |->
                planned(order[i], name[order[i]])]]
    BY <1>1
  <1>3. matched \subseteq Path
    BY DEF Found
  <1>4. Cardinality(matched) \in Nat
    BY <1>3, PathsFinite, FS_Subset, FS_CardinalityType
  <1>5. /\ order \in [1 .. Cardinality(matched) -> matched]
        /\ \A i, j \in DOMAIN order : i # j => order[i] # order[j]
    BY DEF SetToSeqs
  <1>6. \A p \in Path, n \in Names : planned(p, n) \in Row
    BY Chosen DEF Row, Content
  <1> DEFINE new == [i \in DOMAIN order |-> planned(order[i], name[order[i]])]
  <1>7. \A i \in DOMAIN order : /\ order[i] \in matched /\ order[i] \in Path
                                /\ name[order[i]] \in Names
                                /\ video[order[i]] # NoFile
    BY <1>3, <1>5 DEF Found
  <1>8. /\ DOMAIN new = DOMAIN order
        /\ \A i \in DOMAIN new : /\ new[i].orig = order[i] /\ new[i].status = "matched"
                                 /\ new[i].own = NoFile /\ new[i].back = NoFile
    OBVIOUS
  <1>9. new \in Seq(Row)
    <2>1. DOMAIN order = 1 .. Cardinality(matched)
      BY <1>5
    <2>2. \A i \in 1 .. Cardinality(matched) : new[i] \in Row
      BY <1>6, <1>7, <2>1
    <2>3. new = [i \in 1 .. Cardinality(matched) |-> new[i]]
      BY <2>1
    <2> HIDE DEF new
    <2> QED
      BY <1>4, <2>2, <2>3
  <1> HIDE DEF new, planned
  <1>10. rows' = [rows EXCEPT ![b] = new]
    BY <1>2 DEF new
  <1>11. /\ rows' \in [Batches -> Seq(Row)] /\ rows'[b] = new
         /\ \A c \in Batches \ {b} : rows'[c] = rows[c]
    BY <1>9, <1>10 DEF TypeOK
  <1>12. /\ \A i \in DOMAIN new : video[new[i].orig] # NoFile
         /\ \A i, j \in DOMAIN new : new[i].orig = new[j].orig => i = j
    BY <1>5, <1>7, <1>8
  <1> QED
    BY <1>8, <1>11, <1>12

(* Rows of a batch, by their status, are rows of it.                        *)
LEMMA RowsInRange ==
    ASSUME TypeOK, NEW b \in Batches, NEW state
    PROVE  RowsIn(b, state) \in SUBSET Nat /\ RowsIn(b, state) \subseteq DOMAIN rows[b]
  BY DEF RowsIn, TypeOK

-----------------------------------------------------------------------------
LEMMA InitTypes == ASSUME ClassicAssumption PROVE Init => TypeOK /\ VideosKept /\ Unique
  <1> SUFFICES ASSUME Init PROVE TypeOK /\ VideosKept /\ Unique
    OBVIOUS
  <1>1. PICK place \in [Files -> Names] :
          /\ IsInjective(place)
          /\ video = [p \in Path |->
               IF \E f \in Files : p = <<place[f], 0>>
               THEN CHOOSE f \in Files : p = <<place[f], 0>>
               ELSE NoFile]
    BY DEF Init
  <1>2. video \in [Path -> Content]
    BY <1>1 DEF Content
  <1>3. ASSUME NEW f \in Files PROVE <<place[f], 0>> \in Path /\ video[<<place[f], 0>>] = f
    <2>1. <<place[f], 0>> \in Path
      BY Chosen
    <2>2. \A g \in Files : <<place[f], 0>> = <<place[g], 0>> => g = f
      BY <1>1 DEF IsInjective
    <2> QED
      BY <1>1, <2>1, <2>2
  <1>4. ASSUME NEW p \in Path, video[p] # NoFile
        PROVE  video[p] \in Files /\ p = <<place[video[p]], 0>>
    BY <1>1, <1>4
  <1>5. VideosKept
    BY <1>3 DEF VideosKept
  <1>6. Unique
    BY <1>4 DEF Unique
  <1>7. /\ status \in [Batches -> {"none"}] /\ rows \in [Batches -> Seq(Row)]
        /\ call = Idle /\ faulty = FALSE
    BY DEF Init
  <1>8. TypeOK
    BY <1>2, <1>7, Chosen DEF TypeOK
  <1> QED
    BY <1>5, <1>6, <1>8

(* Free finds paths that are free.                                          *)
LEMMA FreeIsFree ==
    ASSUME TypeOK, NEW new \in Path
    PROVE  \A p \in Free(new) : p \in Path /\ (video[new] = NoFile => p = new)
                                /\ video[p] = NoFile
  BY DEF Free

(* A step on the row at hand keeps the types.                               *)
LEMMA RowStepTypes ==
    ASSUME ClassicAssumption, TypeOK, NEW i \in call.todo, NEW bad \in BOOLEAN,
           video' \in [Path -> Content], faulty' \in BOOLEAN, status' = status,
           \/ rows' = rows
           \/ \E new \in Row : Saves(i, new),
           \/ NextRow(i, bad)
           \/ \E p \in Path : call' = [call EXCEPT !.moved = TRUE, !.at = p]
           \/ call' = [call EXCEPT !.moved = TRUE]
    PROVE  TypeOK'
  <1>1. /\ call' \in Call /\ call'.b = call.b /\ call'.kind = call.kind
        /\ call'.todo \subseteq call.todo
    BY CallSet
  <1>2. rows' \in [Batches -> Seq(Row)] /\ DOMAIN rows'[call.b] = DOMAIN rows[call.b]
    <2>1. CASE rows' = rows
      BY <2>1 DEF TypeOK
    <2>2. ASSUME NEW new \in Row, Saves(i, new)
          PROVE rows' \in [Batches -> Seq(Row)] /\ DOMAIN rows'[call.b] = DOMAIN rows[call.b]
      BY <2>2, SavesRow
    <2> QED
      BY <2>1, <2>2
  <1> QED
    BY <1>1, <1>2 DEF TypeOK

(* Each step keeps the types, every file, and every file once.              *)
LEMMA StepTypes ==
    ASSUME ClassicAssumption, TypeOK, VideosKept, Unique, [Next]_vars
    PROVE  TypeOK' /\ VideosKept' /\ Unique'
  <1> DEFINE Goal == TypeOK' /\ VideosKept' /\ Unique'
             Statuses == {"none", "previewing", "executing", "completed",
                          "completed_with_errors", "rolled_back"}
  <1>1. /\ call \in Call /\ call.b \in Batches /\ call.todo \in SUBSET Nat
        /\ status \in [Batches -> Statuses] /\ video \in [Path -> Content]
        /\ rows \in [Batches -> Seq(Row)] /\ faulty \in BOOLEAN
        /\ call.todo \subseteq DOMAIN rows[call.b]
        /\ call.kind = "none" => call.todo = {}
    BY DEF TypeOK, Call
  <1>2. ASSUME video' = video, TypeOK' PROVE Goal
    BY <1>2 DEF VideosKept, Unique
  <1>3. ASSUME NEW b \in Batches, preview(b) PROVE Goal
    <2>1. rows' \in [Batches -> Seq(Row)]
      BY <1>3, PreviewRows
    <2>2. /\ call' = call /\ faulty' = faulty /\ video' = video /\ call.todo = {}
          /\ status' \in [Batches -> Statuses]
      BY <1>1, <1>3 DEF preview, Busy
    <2> QED
      BY <1>1, <1>2, <2>1, <2>2 DEF TypeOK
  <1>4. ASSUME NEW b \in Batches, NEW todo \in SUBSET Nat,
               NEW kind \in {"execute", "rollback"},
               Starts(kind, b, todo), todo \subseteq DOMAIN rows[b],
               status' \in [Batches -> Statuses],
               UNCHANGED <<video, rows, faulty>>
        PROVE  Goal
    <2>1. Starts(kind, b, todo)
      BY <1>4
    <2>2. call' \in Call /\ call'.b = b /\ call'.kind = kind /\ call'.todo = todo
      BY <2>1, CallBegun
    <2> QED
      BY <1>1, <1>2, <1>4, <2>2 DEF TypeOK
  <1>5. ASSUME NEW b \in Batches, execute(b) \/ rollback(b) PROVE Goal
    <2>1. CASE execute(b)
      <3>1. status' \in [Batches -> Statuses]
        BY <1>1, <2>1 DEF execute
      <3> QED
        BY <1>4, <2>1, <3>1, RowsInRange DEF execute
    <2>2. CASE rollback(b)
      BY <1>1, <1>4, <2>2, RowsInRange DEF rollback
    <2> QED
      BY <1>5, <2>1, <2>2
  <1>6. ASSUME call' = Idle, status' \in [Batches -> Statuses], faulty' \in BOOLEAN,
               UNCHANGED <<video, rows>>
        PROVE  Goal
    <2>1. TypeOK'
      BY <1>1, <1>6, Chosen DEF TypeOK
    <2> QED
      BY <1>2, <1>6, <2>1
  <1>7. CASE executed \/ rolled_back \/ Crash
    <2>1. status' \in [Batches -> Statuses] /\ faulty' \in BOOLEAN
      <3>1. CASE executed
        BY <1>1, <3>1 DEF executed
      <3>2. CASE rolled_back
        BY <1>1, <3>2 DEF rolled_back
      <3>3. CASE Crash
        BY <1>1, <3>3 DEF Crash
      <3> QED
        BY <1>7, <3>1, <3>2, <3>3
    <2> QED
      BY <1>6, <1>7, <2>1 DEF executed, rolled_back, Crash
  <1>8. ASSUME NEW i \in call.todo, Move(i) PROVE Goal
    <2>1. PICK p \in Free(row(i).new) :
             /\ Shift(row(i).orig, p)
             /\ Saves(i, [row(i) EXCEPT !.own = video[row(i).orig]])
             /\ call' = [call EXCEPT !.moved = TRUE, !.at = p]
      BY <1>8 DEF Move
    <2>2. p \in Path /\ video[p] = NoFile
      BY <2>1, RowType, FreeIsFree
    <2>3. video' \in [Path -> Content] /\ VideosKept' /\ Unique'
      BY <1>8, <2>1, <2>2, RowType, ShiftKeeps DEF Move
    <2>4. [row(i) EXCEPT !.own = video[row(i).orig]] \in Row
      BY RowType, SetOwn
    <2>5. status' = status /\ faulty' = faulty
      BY <1>8 DEF Move
    <2> QED
      BY <1>1, <2>1, <2>2, <2>3, <2>4, <2>5, RowStepTypes
  <1>9. ASSUME NEW i \in call.todo, Restore(i) PROVE Goal
    <2>1. video' \in [Path -> Content] /\ VideosKept' /\ Unique'
      BY <1>9, RowType, ShiftKeeps DEF Restore, Vacant
    <2>2. [row(i) EXCEPT !.back = video[row(i).new]] \in Row
      BY RowType, SetBack
    <2> QED
      BY <1>1, <1>9, <2>1, <2>2, RowStepTypes DEF Restore
  <1>10. ASSUME NEW i \in call.todo, Moved(i) PROVE Goal
    <2>1. [Went(row(i), call.at) EXCEPT !.status = "success"] \in Row
      BY RowType, SetWent
    <2> QED
      BY <1>1, <1>2, <1>10, <2>1, RowStepTypes DEF Moved
  <1>11. ASSUME NEW i \in call.todo, MoveFails(i) PROVE Goal
    <2>1. PICK p \in IF call.moved THEN {call.at} ELSE {row(i).new} \cup Free(row(i).new) :
            Saves(i, [Went(row(i), p) EXCEPT !.status = "failed"])
      BY <1>11 DEF MoveFails
    <2>2. p \in Path
      BY <2>1, RowType, FreeIsFree
    <2>3. [Went(row(i), p) EXCEPT !.status = "failed"] \in Row
      BY <2>2, RowType, SetWent
    <2> QED
      BY <1>1, <1>2, <1>11, <2>1, <2>3, RowStepTypes DEF MoveFails
  <1>12. ASSUME NEW i \in call.todo, Restored(i) PROVE Goal
    <2>1. [row(i) EXCEPT !.status = "rolled_back"] \in Row
      BY RowType, SetStatus
    <2> QED
      BY <1>1, <1>2, <1>12, <2>1, RowStepTypes DEF Restored
  <1>13. ASSUME NEW i \in call.todo, NotRestored(i) \/ RestoreFails(i) PROVE Goal
    <2>1. NextRow(i, TRUE) /\ rows' = rows /\ status' = status /\ video' = video
          /\ faulty' \in BOOLEAN
      BY <1>1, <1>13 DEF NotRestored, RestoreFails
    <2> QED
      BY <1>1, <1>2, <2>1, RowStepTypes
  <1>14. CASE UNCHANGED vars
    BY <1>14 DEF vars, TypeOK, VideosKept, Unique
  <1> QED
    BY <1>3, <1>5, <1>7, <1>8, <1>9, <1>10, <1>11, <1>12, <1>13, <1>14 DEF Next

(* A call that has rows to do has begun with its batch.                     *)
LEMMA Begun ==
    ASSUME TypeOK, Phases, NEW i \in call.todo
    PROVE  /\ status[call.b] \notin {"none", "previewing"}
           /\ call.kind = "execute" => row(i).status = "matched" /\ row(i).back = NoFile
                                       /\ status[call.b] = "executing"
           /\ call.kind = "rollback" => row(i).status = "success"
           /\ call.kind \in {"execute", "rollback"}
           /\ i \in DOMAIN rows[call.b]
  <1>1. call.b \in Batches /\ i \in DOMAIN rows[call.b] /\ call.kind \in {"execute", "rollback"}
    BY DEF TypeOK, Call
  <1>2. /\ call.kind = "execute" => row(i).status = "matched" /\ row(i).back = NoFile
                                    /\ status[call.b] = "executing"
        /\ call.kind = "rollback" => row(i).status = "success"
    BY <1>1 DEF Phases, RowsIn, row
  <1>3. ASSUME call.kind = "rollback", status[call.b] \in {"none", "previewing"} PROVE FALSE
    <2>1. row(i).status = "matched"
      BY <1>1, <1>3 DEF Phases, RowsIn, row
    <2> QED
      BY <1>2, <1>3, <2>1
  <1> QED
    BY <1>1, <1>2, <1>3

(* A step on the row at hand keeps the phases.                              *)
LEMMA RowStepPhases ==
    ASSUME TypeOK, Phases, NEW i \in call.todo, NEW new \in Row, Saves(i, new),
           status' = status, call'.b = call.b, call'.kind = call.kind,
           call'.todo \subseteq call.todo,
           \/ new.status # "matched"
           \/ new.status = row(i).status /\ new.back = row(i).back,
           i \in call'.todo => new.status = row(i).status
    PROVE  Phases'
  <1>0. PICK c \in Batches : c = call.b /\ c = call'.b
    BY DEF TypeOK, Call
  <1>1. /\ c \in Batches /\ i \in DOMAIN rows[c]
        /\ DOMAIN rows'[c] = DOMAIN rows[c]
        /\ rows'[c][i] = new
        /\ \A j \in DOMAIN rows[c] \ {i} : rows'[c][j] = rows[c][j]
        /\ \A b \in Batches \ {c} : rows'[b] = rows[b]
    BY <1>0, SavesRow
  <1>2. /\ status[c] \notin {"none", "previewing"} /\ row(i) = rows[c][i]
        /\ row(i).status = "matched" => row(i).back = NoFile
    BY <1>0, <1>1, Begun DEF row, Phases, RowsIn
  <1>3. ASSUME NEW b \in Batches
        PROVE  /\ status'[b] \in {"none", "previewing"} => RowsIn(b, "matched")' = DOMAIN rows'[b]
               /\ \A j \in RowsIn(b, "matched")' : rows'[b][j].back = NoFile
    <2>1. CASE b # c
      BY <1>1, <2>1 DEF Phases, RowsIn
    <2>2. CASE b = c
      <3>1. ASSUME NEW j \in DOMAIN rows'[c], rows'[c][j].status = "matched"
            PROVE  rows'[c][j].back = NoFile
        <4>1. CASE j = i
          BY <1>0, <1>1, <1>2, <3>1, <4>1
        <4>2. CASE j # i
          BY <1>1, <3>1, <4>2 DEF Phases, RowsIn
        <4> QED
          BY <4>1, <4>2
      <3> QED
        BY <1>2, <2>2, <3>1 DEF RowsIn
    <2> QED
      BY <2>1, <2>2
  <1>4. ASSUME NEW j \in call'.todo, NEW s, row(j).status = s
        PROVE  j \in RowsIn(c, s)'
    <2>1. j \in DOMAIN rows'[c]
      BY <1>0, <1>1 DEF TypeOK
    <2>2. rows'[c][j].status = s
      <3>1. CASE j = i
        BY <1>0, <1>1, <1>4, <3>1
      <3>2. CASE j # i
        BY <1>0, <1>1, <1>4, <2>1, <3>2 DEF row
      <3> QED
        BY <3>1, <3>2
    <2> QED
      BY <2>1, <2>2 DEF RowsIn
  <1>5. /\ call'.kind = "execute" => /\ status'[c] = "executing"
                                     /\ call'.todo \subseteq RowsIn(c, "matched")'
        /\ call'.kind = "rollback" => call'.todo \subseteq RowsIn(c, "success")'
    <2>1. ASSUME call'.kind = "execute", NEW j \in call'.todo
          PROVE j \in RowsIn(c, "matched")'
      <3>1. row(j).status = "matched"
        BY <2>1, Begun
      <3> QED
        BY <3>1, <1>4
    <2>2. ASSUME call'.kind = "rollback", NEW j \in call'.todo
          PROVE j \in RowsIn(c, "success")'
      <3>1. row(j).status = "success"
        BY <2>2, Begun
      <3> QED
        BY <3>1, <1>4
    <2> QED
      BY <1>0, <2>1, <2>2 DEF Phases
  <1> QED
    BY <1>0, <1>3, <1>5 DEF Phases

(* execute takes the rows that match, rollback those that have succeeded.   *)
LEMMA Begins ==
    ASSUME ClassicAssumption, TypeOK, NEW b \in Batches
    PROVE  /\ execute(b) => /\ call'.b = b /\ call'.kind = "execute"
                            /\ call'.todo = RowsIn(b, "matched") /\ call'.moved = FALSE
           /\ rollback(b) => /\ call'.b = b /\ call'.kind = "rollback"
                             /\ call'.todo = RowsIn(b, "success") /\ call'.moved = FALSE
  <1>1. ASSUME NEW kind \in {"execute", "rollback"}, NEW state,
               Starts(kind, b, RowsIn(b, state))
        PROVE  /\ call'.b = b /\ call'.kind = kind
               /\ call'.todo = RowsIn(b, state) /\ call'.moved = FALSE
    <2>1. PICK todo : todo = RowsIn(b, state)
      OBVIOUS
    <2>2. todo \in SUBSET Nat /\ Starts(kind, b, todo)
      BY <1>1, <2>1, RowsInRange
    <2>3. call'.b = b /\ call'.kind = kind /\ call'.todo = todo /\ call'.moved = FALSE
      BY <2>2, CallBegun
    <2> QED
      BY <2>1, <2>3
  <1> QED
    BY <1>1 DEF execute, rollback

(* Each step keeps the phases.                                              *)
LEMMA StepPhases ==
    ASSUME ClassicAssumption, TypeOK, Phases, [Next]_vars
    PROVE  Phases'
  <1>1. /\ call \in Call /\ call.b \in Batches
        /\ rows \in [Batches -> Seq(Row)] /\ DOMAIN status = Batches
        /\ call.kind = "none" => call.todo = {}
    BY DEF TypeOK, Call
  <1>2. ASSUME rows' = rows, call'.kind = call.kind, call'.b = call.b,
               call'.todo \subseteq call.todo, status' = status
        PROVE  Phases'
    <2>1. \A s : RowsIn(call.b, s)' = RowsIn(call.b, s)
      BY <1>2 DEF RowsIn
    <2>2. \A b \in Batches : \A s : RowsIn(b, s)' = RowsIn(b, s)
      BY <1>2 DEF RowsIn
    <2> QED
      BY <1>2, <2>1, <2>2 DEF Phases
  <1>3. ASSUME rows' = rows, NEW c \in Batches, \A b \in Batches \ {c} : status'[b] = status[b],
               status'[c] = status[c] \/ status'[c] \notin {"none", "previewing"},
               call'.kind # "none" =>
                  /\ call'.b = c
                  /\ call'.kind = "execute" => /\ status'[c] = "executing"
                                               /\ call'.todo = RowsIn(c, "matched")
                  /\ call'.kind = "rollback" => call'.todo = RowsIn(c, "success")
        PROVE  Phases'
    <2>1. \A b \in Batches : \A s : RowsIn(b, s)' = RowsIn(b, s)
      BY <1>3 DEF RowsIn
    <2>2. \A b \in Batches : /\ status'[b] \in {"none", "previewing"} =>
                                   RowsIn(b, "matched")' = DOMAIN rows'[b]
                             /\ \A j \in RowsIn(b, "matched")' : rows'[b][j].back = NoFile
      BY <1>3, <2>1 DEF Phases
    <2>3. /\ call'.kind = "execute" => /\ status'[call'.b] = "executing"
                                       /\ call'.todo \subseteq {j \in DOMAIN rows'[call'.b] :
                                                        rows'[call'.b][j].status = "matched"}
          /\ call'.kind = "rollback" => call'.todo \subseteq {j \in DOMAIN rows'[call'.b] :
                                                        rows'[call'.b][j].status = "success"}
      <3>1. CASE call'.kind = "execute"
        BY <1>3, <2>1, <3>1 DEF RowsIn
      <3>2. CASE call'.kind = "rollback"
        BY <1>3, <2>1, <3>2 DEF RowsIn
      <3> QED
        BY <3>1, <3>2
    <2> QED
      BY <2>2, <2>3 DEF Phases, RowsIn
  <1>4. ASSUME NEW b \in Batches, preview(b) PROVE Phases'
    <2>1. /\ call' = call /\ call.kind = "none"
          /\ \A c \in Batches \ {b} : status'[c] = status[c]
      BY <1>1, <1>4 DEF preview, Busy
    <2>2. ASSUME NEW c \in Batches
          PROVE  /\ status'[c] \in {"none", "previewing"} =>
                        RowsIn(c, "matched")' = DOMAIN rows'[c]
                 /\ \A j \in RowsIn(c, "matched")' : rows'[c][j].back = NoFile
      <3>1. CASE c = b
        BY <1>4, <3>1, PreviewRows DEF RowsIn
      <3>2. CASE c # b
        BY <1>4, <2>1, <3>2, PreviewRows DEF RowsIn, Phases
      <3> QED
        BY <3>1, <3>2
    <2> QED
      BY <2>1, <2>2 DEF Phases
  <1>5. ASSUME NEW b \in Batches, execute(b) PROVE Phases'
    <2>1. call'.b = b /\ call'.kind = "execute" /\ call'.todo = RowsIn(b, "matched")
      BY <1>5, Begins
    <2> QED
      BY <1>1, <1>3, <1>5, <2>1 DEF execute
  <1>6. ASSUME NEW b \in Batches, rollback(b) PROVE Phases'
    <2>1. call'.b = b /\ call'.kind = "rollback" /\ call'.todo = RowsIn(b, "success")
      BY <1>6, Begins
    <2> QED
      BY <1>1, <1>3, <1>6, <2>1 DEF rollback
  <1>7. CASE executed \/ rolled_back \/ Crash
    <2>1. call'.kind = "none" /\ rows' = rows
      BY <1>7, Chosen DEF executed, rolled_back, Crash
    <2>2. PICK c \in Batches : c = call.b
      BY <1>1
    <2>3. /\ \A b \in Batches \ {c} : status'[b] = status[b]
          /\ status'[c] = status[c] \/ status'[c] \notin {"none", "previewing"}
      BY <1>1, <1>7, <2>2 DEF executed, rolled_back, Crash
    <2> QED
      BY <1>3, <2>1, <2>3
  <1>8. ASSUME NEW i \in call.todo, Move(i) PROVE Phases'
    <2>1. PICK p \in Free(row(i).new) :
             /\ Saves(i, [row(i) EXCEPT !.own = video[row(i).orig]])
             /\ call' = [call EXCEPT !.moved = TRUE, !.at = p]
      BY <1>8 DEF Move
    <2>2. p \in Path
      BY <2>1, RowType, FreeIsFree
    <2>3. call'.b = call.b /\ call'.kind = call.kind /\ call'.todo = call.todo
      BY <2>1, <2>2, CallSet
    <2>n. PICK new : new = [row(i) EXCEPT !.own = video[row(i).orig]]
      OBVIOUS
    <2>4. new \in Row /\ new.status = row(i).status /\ new.back = row(i).back
      BY RowType, <2>n, SetOwn
    <2>5. Saves(i, new) /\ status' = status
      BY <1>8, <2>1, <2>n DEF Move
    <2> QED
      BY <2>3, <2>4, <2>5, RowStepPhases
  <1>9. ASSUME NEW i \in call.todo, Restore(i) PROVE Phases'
    <2>n. PICK new : new = [row(i) EXCEPT !.back = video[row(i).new]]
      OBVIOUS
    <2>1. call'.b = call.b /\ call'.kind = call.kind /\ call'.todo = call.todo
      BY <1>9, CallSet DEF Restore
    <2>2. new \in Row /\ new.status = row(i).status
      BY RowType, <2>n, SetBack
    <2>3. Saves(i, new) /\ status' = status /\ call.kind = "rollback"
      BY <1>9, <2>n DEF Restore, RollingBack
    <2>4. new.status # "matched"
      BY <2>2, <2>3, Begun
    <2> QED
      BY <2>1, <2>2, <2>3, <2>4, RowStepPhases
  <1>10. ASSUME NEW i \in call.todo, NEW new \in Row, Saves(i, new), NEW bad \in BOOLEAN,
                NextRow(i, bad), status' = status, new.status # "matched"
         PROVE  Phases'
    <2>1. call'.b = call.b /\ call'.kind = call.kind /\ call'.todo = call.todo \ {i}
      BY <1>10, CallSet
    <2> QED
      BY <1>10, <2>1, RowStepPhases
  <1>11. ASSUME NEW i \in call.todo, Moved(i) PROVE Phases'
    <2>n. PICK new : new = [Went(row(i), call.at) EXCEPT !.status = "success"]
      OBVIOUS
    <2>1. new \in Row /\ new.status = "success"
      BY RowType, <2>n, SetWent
    <2>2. Saves(i, new) /\ NextRow(i, FALSE) /\ status' = status
      BY <1>11, <2>n DEF Moved
    <2> QED
      BY <1>10, <2>1, <2>2
  <1>12. ASSUME NEW i \in call.todo, MoveFails(i) PROVE Phases'
    <2>1. PICK p \in IF call.moved THEN {call.at} ELSE {row(i).new} \cup Free(row(i).new) :
            Saves(i, [Went(row(i), p) EXCEPT !.status = "failed"])
      BY <1>12 DEF MoveFails
    <2>2. p \in Path
      BY <2>1, RowType, FreeIsFree
    <2>n. PICK new : new = [Went(row(i), p) EXCEPT !.status = "failed"]
      OBVIOUS
    <2>3. new \in Row /\ new.status = "failed"
      BY <2>2, RowType, <2>n, SetWent
    <2>4. Saves(i, new) /\ NextRow(i, TRUE) /\ status' = status
      BY <1>12, <2>1, <2>n DEF MoveFails
    <2> QED
      BY <1>10, <2>3, <2>4
  <1>13. ASSUME NEW i \in call.todo, Restored(i) PROVE Phases'
    <2>n. PICK new : new = [row(i) EXCEPT !.status = "rolled_back"]
      OBVIOUS
    <2>1. new \in Row /\ new.status = "rolled_back"
      BY RowType, <2>n, SetStatus
    <2>2. Saves(i, new) /\ NextRow(i, FALSE) /\ status' = status
      BY <1>13, <2>n DEF Restored
    <2> QED
      BY <1>10, <2>1, <2>2
  <1>14. ASSUME NEW i \in call.todo, NotRestored(i) \/ RestoreFails(i) PROVE Phases'
    <2>1. NextRow(i, TRUE) /\ rows' = rows /\ status' = status
      BY <1>14 DEF NotRestored, RestoreFails
    <2>2. call'.b = call.b /\ call'.kind = call.kind /\ call'.todo \subseteq call.todo
      BY <2>1, CallSet
    <2> QED
      BY <1>2, <2>1, <2>2
  <1>15. CASE UNCHANGED vars
    BY <1>15, <1>2 DEF vars
  <1> QED
    BY <1>4, <1>5, <1>6, <1>7, <1>8, <1>9, <1>11, <1>12, <1>13, <1>14, <1>15 DEF Next

-----------------------------------------------------------------------------
LEMMA OutSets ==
    ASSUME TypeOK, Phases, NEW b \in Batches
    PROVE  /\ Out(b) \subseteq DOMAIN rows[b]
           /\ \A i \in RowsIn(b, "success") : i \notin Moving(b) /\ Where(b, i) = rows[b][i].new
           /\ \A i, j \in Moving(b) : i = j
           /\ call.kind # "execute" \/ ~call.moved \/ call.b # b => Moving(b) = {}
           /\ Waiting(b) \subseteq DOMAIN rows[b]
  <1>1. /\ call.todo \subseteq Nat /\ call.todo \subseteq DOMAIN rows[call.b]
        /\ call.b \in Batches
    BY DEF TypeOK, Call
  <1>2. Moving(b) \subseteq DOMAIN rows[b] /\ Waiting(b) \subseteq DOMAIN rows[b]
    BY <1>1 DEF Moving, Waiting
  <1>3. ASSUME NEW i \in RowsIn(b, "success") PROVE i \notin Moving(b)
    BY <1>3 DEF Moving, Executing, Phases, RowsIn
  <1>4. ASSUME NEW i \in Moving(b), NEW j \in Moving(b) PROVE i = j
    <2>1. i \in Nat /\ j \in Nat /\ i <= j /\ j <= i
      BY <1>1, <1>4 DEF Moving, Executing, Turn
    <2> QED
      BY <2>1
  <1>5. call.kind # "execute" \/ ~call.moved \/ call.b # b => Moving(b) = {}
    BY DEF Moving, Executing
  <1>6. \A i \in RowsIn(b, "success") : Where(b, i) = rows[b][i].new
    BY <1>3 DEF Where
  <1>7. Out(b) \subseteq DOMAIN rows[b]
    BY <1>2, RowsInRange DEF Out
  <1> QED
    BY <1>2, <1>3, <1>4, <1>5, <1>6, <1>7

(* A step that moves no video, and sets in rows no more than their status   *)
(* and where they are now.                                                  *)
LEMMA StillKept ==
    ASSUME TypeOK, Phases, NEW b \in Batches, Kept(b), video' = video,
           DOMAIN rows'[b] = DOMAIN rows[b],
           \A i \in DOMAIN rows[b] : /\ rows'[b][i].orig = rows[b][i].orig
                                     /\ rows'[b][i].own = rows[b][i].own
                                     /\ rows'[b][i].back = rows[b][i].back,
           Out(b)' \subseteq Out(b),
           Waiting(b)' \subseteq Waiting(b),
           \A i \in Out(b)' : Where(b, i)' = Where(b, i)
    PROVE  Kept(b)'
  <1>1. Out(b) \subseteq DOMAIN rows[b] /\ Waiting(b) \subseteq DOMAIN rows[b]
    BY OutSets
  <1>2. \A i, j \in DOMAIN rows'[b] : rows'[b][i].orig = rows'[b][j].orig => i = j
    BY DEF Kept
  <1>3. \A i \in Waiting(b)' :
          /\ video'[rows'[b][i].orig] # NoFile
          /\ \A j \in Out(b)' : video'[rows'[b][i].orig] # rows'[b][j].own
    BY <1>1 DEF Kept
  <1>4. \A i \in Out(b)' :
          /\ rows'[b][i].own # NoFile
          /\ \/ video'[Where(b, i)'] = rows'[b][i].own
             \/ video'[rows'[b][i].orig] = rows'[b][i].own
    BY <1>1 DEF Kept
  <1>5. \A i, j \in Out(b)' : rows'[b][i].own = rows'[b][j].own => i = j
    BY <1>1 DEF Kept
  <1>6. \A i \in DOMAIN rows'[b] : rows'[b][i].back \in {NoFile, rows'[b][i].own}
    BY DEF Kept
  <1> QED
    BY <1>2, <1>3, <1>4, <1>5, <1>6 DEF Kept

(* Calls that begin or end, or leave a row.                                 *)
LEMMA CallKept ==
    ASSUME TypeOK, Phases, NEW b \in Batches, Kept(b),
           video' = video, rows'[b] = rows[b],
           call'.kind # "execute" \/ ~call'.moved \/ call'.b # b,
           Waiting(b)' \subseteq Waiting(b)
    PROVE  Kept(b)'
  <1>1. Moving(b)' = {}
    BY DEF Moving, Executing
  <1>2. Out(b)' = RowsIn(b, "success")
    BY <1>1 DEF Out, RowsIn
  <1>3. \A i \in Out(b)' : Where(b, i)' = Where(b, i)
    BY <1>1, <1>2, OutSets DEF Where
  <1>4. Out(b)' \subseteq Out(b)
    BY <1>2 DEF Out
  <1> QED
    BY <1>3, <1>4, StillKept

(* A batch stays alone no longer than it is.                                *)
LEMMA WasAlone ==
    ASSUME TypeOK, [Next]_vars, NEW b \in Batches, Alone(b)'
    PROVE  Alone(b)
  <1>1. DOMAIN status = Batches /\ call.b \in Batches
    BY DEF TypeOK, Call
  <1>2. \A c \in Batches : status'[c] \in {"none", "previewing"} =>
                              status[c] \in {"none", "previewing"}
    <2> SUFFICES ASSUME NEW c \in Batches, status'[c] \in {"none", "previewing"}
                 PROVE  status[c] \in {"none", "previewing"}
      OBVIOUS
    <2>1. CASE status' = status
      BY <2>1
    <2>2. ASSUME NEW a \in Batches, preview(a) \/ execute(a)
          PROVE  status[c] \in {"none", "previewing"}
      BY <1>1, <2>2 DEF preview, execute
    <2>3. CASE executed \/ rolled_back
      BY <1>1, <2>3 DEF executed, rolled_back
    <2> QED
      BY <2>1, <2>2, <2>3 DEF Next, vars, rollback, Move, Moved, MoveFails, Restore,
                              Restored, NotRestored, RestoreFails, Crash
  <1> QED
    BY <1>2 DEF Alone

(* The call that has rows to do is that of the batch alone.                 *)
LEMMA OwnCall ==
    ASSUME TypeOK, Phases, NEW b \in Batches, Alone(b),
           call.kind = "execute" \/ call.todo # {}
    PROVE  call.b = b
  <1>1. call.b \in Batches
    BY DEF TypeOK, Call
  <1>2. status[call.b] \notin {"none", "previewing"}
    <2>1. CASE call.kind = "execute"
      BY <2>1 DEF Phases
    <2>2. CASE call.todo # {}
      BY <2>2, Begun
    <2> QED
      BY <2>1, <2>2
  <1> QED
    BY <1>1, <1>2 DEF Alone

(* A row is left with its file where it was (the commits of the loops).     *)
LEMMA RowKept ==
    ASSUME ClassicAssumption, TypeOK, Phases, NEW b \in Batches, Alone(b), Kept(b),
           NEW i \in call.todo, Turn(i), NEW bad \in BOOLEAN, NextRow(i, bad),
           NEW new \in Row, Saves(i, new), video' = video, status' = status,
           /\ new.orig = row(i).orig
           /\ new.own = row(i).own
           /\ new.back = row(i).back,
           \/ new.status \in {"failed", "rolled_back"}
           \/ i \in Moving(b) /\ new.new = call.at
    PROVE  Kept(b)'
  <1>1. call.b = b
    BY OwnCall
  <1>2. /\ i \in DOMAIN rows[b] /\ DOMAIN rows'[b] = DOMAIN rows[b]
        /\ rows'[b][i] = new
        /\ \A j \in DOMAIN rows[b] \ {i} : rows'[b][j] = rows[b][j]
    BY <1>1, SavesRow
  <1>3. /\ call'.b = call.b /\ call'.kind = call.kind
        /\ call'.todo = call.todo \ {i} /\ call'.moved = FALSE
    BY CallSet
  <1>4. Moving(b)' = {}
    BY <1>3 DEF Moving
  <1>5. Out(b)' = {j \in DOMAIN rows[b] : rows'[b][j].status = "success"}
    BY <1>2, <1>4 DEF Out, RowsIn
  <1>6. ASSUME NEW j \in Out(b)'
        PROVE  j \in Out(b) /\ Where(b, j)' = Where(b, j)
    <2>1. Where(b, j)' = rows'[b][j].new
      BY <1>4 DEF Where
    <2>2. CASE j = i
      <3>1. i \in Moving(b) /\ new.new = call.at
        BY <1>2, <1>5, <1>6, <2>2
      <3> QED
        BY <1>2, <2>1, <2>2, <3>1 DEF Where, Out
    <2>3. CASE j # i
      <3>1. j \in RowsIn(b, "success") /\ rows'[b][j] = rows[b][j]
        BY <1>2, <1>5, <1>6, <2>3 DEF RowsIn
      <3> QED
        BY <2>1, <3>1, OutSets DEF Out
    <2> QED
      BY <2>2, <2>3
  <1>7. \A j \in Moving(b) : j = i
    <2> SUFFICES ASSUME NEW j \in Moving(b) PROVE j = i
      OBVIOUS
    <2>1. /\ call.todo \subseteq Nat /\ j \in call.todo
          /\ Turn(j) /\ call.kind = "execute"
      BY DEF TypeOK, Call, Moving, Executing
    <2>2. i \in Nat /\ j \in Nat /\ i <= j /\ j <= i
      BY <2>1 DEF Turn
    <2> QED
      BY <2>2
  <1>8. Waiting(b)' \subseteq Waiting(b)
    BY <1>1, <1>2, <1>3, <1>4, <1>7 DEF Waiting
  <1>9. \A j \in DOMAIN rows[b] : /\ rows'[b][j].orig = rows[b][j].orig
                                  /\ rows'[b][j].own = rows[b][j].own
                                  /\ rows'[b][j].back = rows[b][j].back
    BY <1>1, <1>2 DEF row
  <1> QED
    BY <1>2, <1>6, <1>8, <1>9, StillKept

(* execute moves a video that waits to a path where there is none.          *)
LEMMA MoveKeeps ==
    ASSUME ClassicAssumption, TypeOK, Unique, Phases, NEW b \in Batches,
           Alone(b), Kept(b), NEW i \in call.todo, Move(i)
    PROVE  Kept(b)'
  <1>1. call.b = b
    BY OwnCall
  <1>2. PICK p \in Free(row(i).new) :
           /\ Shift(row(i).orig, p)
           /\ Saves(i, [row(i) EXCEPT !.own = video[row(i).orig]])
           /\ call' = [call EXCEPT !.moved = TRUE, !.at = p]
    BY DEF Move
  <1>3. PICK new : new = [row(i) EXCEPT !.own = video[row(i).orig]]
    OBVIOUS
  <1> DEFINE o(j) == rows[b][j].orig
             v == video[o(i)]
  <1>4. /\ p \in Path /\ video[p] = NoFile
        /\ o(i) \in Path /\ v \in Content /\ v # NoFile
        /\ row(i) = rows[b][i]
    BY <1>1, <1>2, RowType, FreeIsFree DEF Move
  <1>5. /\ new \in Row /\ new.own = v /\ new.orig = rows[b][i].orig
        /\ new.new = rows[b][i].new /\ new.status = rows[b][i].status
        /\ new.back = rows[b][i].back
    BY <1>3, <1>4, RowType, SetOwn
  <1>6. Saves(i, new) /\ status' = status /\ Executing(i) /\ ~call.moved
    BY <1>2, <1>3 DEF Move
  <1>7. /\ i \in DOMAIN rows[b] /\ DOMAIN rows'[b] = DOMAIN rows[b]
        /\ rows'[b][i] = new
        /\ \A j \in DOMAIN rows[b] \ {i} : rows'[b][j] = rows[b][j]
    BY <1>1, <1>5, <1>6, SavesRow
  <1>8. /\ call'.b = b /\ call'.kind = call.kind /\ call.kind = "execute"
        /\ call'.todo = call.todo /\ call'.moved = TRUE /\ call'.at = p
        /\ Turn(i)
    BY <1>1, <1>2, <1>4, <1>6, CallSet DEF Executing
  <1>9. /\ video'[p] = v /\ \A q \in Path \ {o(i), p} : video'[q] = video[q]
    BY <1>2, <1>4, ShiftKeeps
  <1>10. Moving(b) = {} /\ \A j \in Moving(b)' : j = i
    <2>1. Moving(b) = {}
      BY <1>6, OutSets
    <2>2. ASSUME NEW j \in Moving(b)' PROVE j = i
      <3>1. /\ call.todo \subseteq Nat /\ j \in call.todo
            /\ \A k \in call.todo : j <= k
        BY <1>8, <2>2 DEF TypeOK, Call, Moving, Executing, Turn
      <3>2. i \in Nat /\ j \in Nat /\ i <= j /\ j <= i
        BY <1>8, <3>1 DEF Turn
      <3> QED
        BY <3>2
    <2> QED
      BY <2>1, <2>2
  <1>11. i \in Moving(b)'
    BY <1>8 DEF Moving, Executing, Turn
  <1>12. /\ Out(b) = RowsIn(b, "success") /\ i \notin RowsIn(b, "success")
         /\ Out(b)' = Out(b) \cup {i}
    <2>1. rows[b][i].status = "matched"
      BY <1>4, <1>8, Begun
    <2>2. RowsIn(b, "success")' = RowsIn(b, "success") /\ i \notin RowsIn(b, "success")
      BY <1>5, <1>7, <2>1 DEF RowsIn
    <2> QED
      BY <1>10, <1>11, <2>2 DEF Out
  <1>13. /\ i \in Waiting(b) /\ Waiting(b)' \subseteq Waiting(b) \ {i}
    <2>1. status[b] # "previewing"
      BY <1>1, <1>8 DEF Phases
    <2>2. i \in Waiting(b)
      BY <1>1, <1>7, <1>8, <1>10 DEF Waiting
    <2>3. ASSUME NEW j \in Waiting(b)' PROVE j \in Waiting(b) /\ j # i
      <3>1. j \in DOMAIN rows[b] /\ j \in call.todo /\ j \notin Moving(b)'
        BY <1>6, <1>7, <1>8, <2>1, <2>3 DEF Waiting
      <3> QED
        BY <1>1, <1>8, <1>10, <1>11, <3>1 DEF Waiting
    <2> QED
      BY <2>2, <2>3
  <1>14. \A j \in DOMAIN rows[b] : o(j) \in Path /\ rows'[b][j].orig = o(j)
    <2>1. \A j \in DOMAIN rows[b] : rows[b][j] \in Row
      BY DEF TypeOK
    <2> QED
      BY <1>5, <1>7, <2>1 DEF Row
  <1>15. Out(b) \subseteq DOMAIN rows[b] /\ Waiting(b) \subseteq DOMAIN rows[b]
    BY OutSets
  <1>16. \A j \in Out(b) : /\ j # i /\ rows'[b][j] = rows[b][j]
                           /\ rows[b][j].own # v /\ rows[b][j].own # NoFile
    BY <1>7, <1>12, <1>13, <1>15 DEF Kept
  <1> HIDE DEF v, o
  <1>17. ASSUME NEW k \in Waiting(b)'
         PROVE  /\ video'[o(k)] = video[o(k)] /\ video[o(k)] # NoFile
                /\ video[o(k)] # v
                /\ \A j \in Out(b) : video[o(k)] # rows[b][j].own
    <2>1. k \in Waiting(b) /\ k # i /\ k \in DOMAIN rows[b]
      BY <1>13, <1>15, <1>17
    <2>2. video[o(k)] # NoFile /\ \A j \in Out(b) : video[o(k)] # rows[b][j].own
      BY <2>1 DEF Kept, o
    <2>3. o(k) # o(i) /\ o(k) # p
      BY <1>4, <1>7, <2>1, <2>2 DEF Kept, o
    <2>4. video'[o(k)] = video[o(k)]
      BY <1>9, <1>14, <2>1, <2>3
    <2>5. video[o(k)] # v
      BY <1>4, <1>14, <2>1, <2>2, <2>3 DEF Unique, v
    <2> QED
      BY <2>2, <2>4, <2>5
  <1>18. \A k \in Waiting(b)' :
           /\ video'[rows'[b][k].orig] # NoFile
           /\ \A j \in Out(b)' : video'[rows'[b][k].orig] # rows'[b][j].own
    <2> SUFFICES ASSUME NEW k \in Waiting(b)'
                 PROVE  /\ video'[o(k)] # NoFile
                        /\ \A j \in Out(b)' : video'[o(k)] # rows'[b][j].own
      BY <1>13, <1>14, <1>15
    <2>1. \A j \in Out(b) : video'[o(k)] # rows'[b][j].own
      BY <1>16, <1>17
    <2>2. video'[o(k)] # rows'[b][i].own
      BY <1>5, <1>7, <1>17
    <2> QED
      BY <1>12, <1>17, <2>1, <2>2
  <1>19. ASSUME NEW j \in Out(b)'
         PROVE  /\ rows'[b][j].own # NoFile
                /\ \/ video'[Where(b, j)'] = rows'[b][j].own
                   \/ video'[rows'[b][j].orig] = rows'[b][j].own
    <2>1. CASE j = i
      <3>1. Where(b, j)' = p
        BY <1>8, <1>11, <2>1 DEF Where
      <3> QED
        BY <1>4, <1>5, <1>7, <1>9, <2>1, <3>1
    <2>2. CASE j # i
      <3>1. j \in Out(b) /\ j \in DOMAIN rows[b]
        BY <1>12, <1>15, <1>19, <2>2
      <3>2. Where(b, j) = rows[b][j].new /\ Where(b, j)' = rows[b][j].new
        BY <1>10, <1>12, <1>16, <2>2, <3>1, OutSets DEF Where
      <3>3. rows[b][j].new \in Path
        <4>1. rows[b][j] \in Row
          BY <3>1 DEF TypeOK
        <4> QED
          BY <4>1 DEF Row
      <3>4. ASSUME NEW q \in Path, video[q] = rows[b][j].own PROVE video'[q] = rows'[b][j].own
        <4>1. q # o(i) /\ q # p
          BY <1>4, <1>16, <3>1, <3>4 DEF v
        <4> QED
          BY <1>9, <1>16, <3>1, <3>4, <4>1
      <3>5. video[rows[b][j].new] = rows[b][j].own \/ video[o(j)] = rows[b][j].own
        BY <3>1, <3>2 DEF Kept, o
      <3> QED
        BY <1>14, <1>16, <3>1, <3>2, <3>3, <3>4, <3>5
    <2> QED
      BY <2>1, <2>2
  <1>20. \A j, k \in Out(b)' : rows'[b][j].own = rows'[b][k].own => j = k
    <2>1. \A j, k \in Out(b) : rows'[b][j].own = rows'[b][k].own => j = k
      BY <1>16 DEF Kept
    <2>2. \A j \in Out(b) : rows'[b][j].own # rows'[b][i].own
      BY <1>5, <1>7, <1>16
    <2> QED
      BY <1>12, <2>1, <2>2
  <1>21. \A j \in DOMAIN rows'[b] : rows'[b][j].back \in {NoFile, rows'[b][j].own}
    <2>1. rows[b][i].back = NoFile
      BY <1>4, <1>8, Begun
    <2> QED
      BY <1>5, <1>7, <2>1 DEF Kept
  <1>22. \A j, k \in DOMAIN rows'[b] : rows'[b][j].orig = rows'[b][k].orig => j = k
    BY <1>7, <1>14 DEF Kept, o
  <1> QED
    BY <1>18, <1>19, <1>20, <1>21, <1>22 DEF Kept

(* rollback moves a video back to its path, where there is none: it is the  *)
(* one that was moved from there.                                           *)
LEMMA RestoreKeeps ==
    ASSUME ClassicAssumption, TypeOK, Phases, NEW b \in Batches,
           Alone(b), Kept(b), NEW i \in call.todo, Restore(i)
    PROVE  Kept(b)'
  <1>1. call.b = b
    BY OwnCall
  <1> DEFINE o(j) == rows[b][j].orig
             n(j) == rows[b][j].new
             own(j) == rows[b][j].own
  <1>2. PICK new : new = [row(i) EXCEPT !.back = video[row(i).new]]
    OBVIOUS
  <1>3. /\ row(i) = rows[b][i] /\ o(i) \in Path /\ n(i) \in Path
        /\ video[o(i)] = NoFile /\ video[n(i)] # NoFile
        /\ video[n(i)] \in Content /\ Shift(n(i), o(i))
    BY <1>1, RowType DEF Restore, Vacant
  <1>4. /\ new \in Row /\ new.back = video[n(i)] /\ new.orig = o(i)
        /\ new.new = n(i) /\ new.status = rows[b][i].status /\ new.own = own(i)
    BY <1>2, <1>3, RowType, SetBack
  <1>5. Saves(i, new) /\ status' = status /\ call.kind = "rollback"
    BY <1>2 DEF Restore, RollingBack
  <1>6. /\ i \in DOMAIN rows[b] /\ DOMAIN rows'[b] = DOMAIN rows[b]
        /\ rows'[b][i] = new
        /\ \A j \in DOMAIN rows[b] \ {i} : rows'[b][j] = rows[b][j]
    BY <1>1, <1>4, <1>5, SavesRow
  <1>7. call'.b = b /\ call'.kind = "rollback"
    BY <1>1, <1>5, CallSet DEF Restore
  <1>8. /\ video'[o(i)] = video[n(i)] /\ \A q \in Path \ {o(i), n(i)} : video'[q] = video[q]
    BY <1>3, ShiftKeeps
  <1>9. /\ Moving(b) = {} /\ Moving(b)' = {}
        /\ Out(b) = RowsIn(b, "success") /\ Out(b)' = Out(b)
        /\ i \in Out(b)
    <2>1. Moving(b) = {} /\ Moving(b)' = {}
      BY <1>5, <1>7 DEF Moving, Executing
    <2>2. RowsIn(b, "success")' = RowsIn(b, "success")
      BY <1>4, <1>6 DEF RowsIn
    <2>3. i \in RowsIn(b, "success")
      BY <1>3, <1>5, <1>6, Begun DEF RowsIn
    <2> QED
      BY <2>1, <2>2, <2>3 DEF Out
  <1>10. Waiting(b)' = {}
    <2>1. status[b] # "previewing"
      BY <1>1, Begun
    <2> QED
      BY <1>5, <1>7, <2>1 DEF Waiting
  <1>11. Out(b) \subseteq DOMAIN rows[b] /\ \A j \in Out(b) : Where(b, j) = n(j)
    BY <1>9, OutSets
  <1>12. \A j \in DOMAIN rows[b] :
            /\ o(j) \in Path /\ n(j) \in Path
            /\ rows'[b][j].orig = o(j) /\ rows'[b][j].new = n(j)
            /\ rows'[b][j].own = own(j)
    <2>1. \A j \in DOMAIN rows[b] : rows[b][j] \in Row
      BY DEF TypeOK
    <2> QED
      BY <1>4, <1>6, <2>1 DEF Row
  <1>13. \A j \in Out(b) : own(j) # NoFile /\ (video[n(j)] = own(j) \/ video[o(j)] = own(j))
    BY <1>11 DEF Kept
  <1>14. video[n(i)] = own(i)
    BY <1>3, <1>9, <1>13
  <1>15. \A j, k \in Out(b) : own(j) = own(k) => j = k
    BY DEF Kept
  <1>16. \A j \in DOMAIN rows[b] : rows[b][j].back \in {NoFile, own(j)}
    BY DEF Kept
  <1>17. \A j, k \in DOMAIN rows[b] : o(j) = o(k) => j = k
    BY DEF Kept
  <1> HIDE DEF o, n, own
  <1>18. ASSUME NEW j \in Out(b)'
         PROVE  /\ own(j) # NoFile
                /\ video'[n(j)] = own(j) \/ video'[o(j)] = own(j)
    <2>1. j \in Out(b) /\ j \in DOMAIN rows[b]
      BY <1>9, <1>11, <1>18
    <2>2. CASE j = i
      BY <1>8, <1>13, <1>14, <2>1, <2>2
    <2>3. CASE j # i
      <3>1. own(j) # own(i)
        BY <1>9, <1>15, <2>1, <2>3
      <3>2. ASSUME NEW q \in Path, video[q] = own(j) PROVE video'[q] = own(j)
        <4>1. q # n(i) /\ q # o(i)
          BY <1>3, <1>13, <1>14, <2>1, <3>1, <3>2
        <4> QED
          BY <1>8, <3>2, <4>1
      <3> QED
        BY <1>12, <1>13, <2>1, <3>2
    <2> QED
      BY <2>2, <2>3
  <1>19. ASSUME NEW j \in Out(b)'
         PROVE  /\ rows'[b][j].own # NoFile
                /\ \/ video'[Where(b, j)'] = rows'[b][j].own
                   \/ video'[rows'[b][j].orig] = rows'[b][j].own
    <2>1. j \in DOMAIN rows[b]
      BY <1>9, <1>11, <1>19
    <2>2. Where(b, j)' = n(j)
      BY <1>9, <1>12, <2>1 DEF Where
    <2> QED
      BY <1>12, <1>18, <1>19, <2>1, <2>2
  <1>20. \A j, k \in Out(b)' : rows'[b][j].own = rows'[b][k].own => j = k
    BY <1>9, <1>11, <1>12, <1>15
  <1>21. \A j \in DOMAIN rows'[b] : rows'[b][j].back \in {NoFile, rows'[b][j].own}
    <2>1. rows'[b][i].back = own(i)
      BY <1>4, <1>6, <1>14
    <2> QED
      BY <1>6, <1>12, <1>16, <2>1
  <1>22. \A j, k \in DOMAIN rows'[b] : rows'[b][j].orig = rows'[b][k].orig => j = k
    BY <1>6, <1>12, <1>17
  <1> QED
    BY <1>10, <1>19, <1>20, <1>21, <1>22 DEF Kept

-----------------------------------------------------------------------------
LEMMA InitIInv == ASSUME ClassicAssumption PROVE Init => IInv
  <1> SUFFICES ASSUME Init PROVE IInv
    OBVIOUS
  <1>1. TypeOK /\ VideosKept /\ Unique
    BY InitTypes
  <1>2. /\ \A b \in Batches : rows[b] = <<>> /\ status[b] = "none"
        /\ call.kind = "none" /\ call.todo = {}
    BY Chosen DEF Init
  <1>3. \A b \in Batches : DOMAIN rows[b] = {}
    BY <1>2
  <1>4. Phases
    BY <1>2, <1>3 DEF Phases, RowsIn
  <1>5. ASSUME NEW b \in Batches PROVE Kept(b)
    <2>1. Out(b) = {} /\ Waiting(b) = {}
      BY <1>2, <1>3 DEF Out, Waiting, Moving, RowsIn
    <2> QED
      BY <1>3, <2>1 DEF Kept
  <1> QED
    BY <1>1, <1>4, <1>5 DEF IInv

LEMMA StepIInv == ASSUME ClassicAssumption PROVE IInv /\ [Next]_vars => IInv'
  <1> SUFFICES ASSUME IInv, [Next]_vars PROVE IInv'
    OBVIOUS
  <1>1. TypeOK /\ VideosKept /\ Unique /\ Phases
    BY DEF IInv
  <1>2. TypeOK' /\ VideosKept' /\ Unique'
    BY <1>1, StepTypes
  <1>3. Phases'
    BY <1>1, StepPhases
  <1>4. ASSUME NEW b \in Batches, Alone(b)' PROVE Kept(b)'
    <2>1. Alone(b) /\ Kept(b)
      BY <1>1, <1>4, WasAlone DEF IInv
    <2>2. DOMAIN status = Batches /\ call.b \in Batches
      BY <1>1 DEF TypeOK, Call
    <2>3. ASSUME NEW c \in Batches, preview(c) PROVE Kept(b)'
      <3>1. /\ video' = video /\ call' = call /\ call.kind = "none"
            /\ \A a \in Batches \ {c} : status'[a] = status[a]
        BY <2>2, <2>3 DEF preview, Busy
      <3>2. CASE c = b
        <4>1. Moving(b)' = {}
          BY <3>1 DEF Moving, Executing
        <4>2. \A j \in DOMAIN rows'[b] :
                  /\ video[rows'[b][j].orig] # NoFile
                  /\ rows'[b][j].status = "matched" /\ rows'[b][j].back = NoFile
          BY <1>1, <2>3, <3>2, PreviewRows
        <4>3. \A j, k \in DOMAIN rows'[b] : rows'[b][j].orig = rows'[b][k].orig => j = k
          BY <1>1, <2>3, <3>2, PreviewRows
        <4>4. Out(b)' = {} /\ Waiting(b)' \subseteq DOMAIN rows'[b]
          BY <4>1, <4>2 DEF Out, RowsIn, Waiting
        <4> QED
          BY <3>1, <4>2, <4>3, <4>4 DEF Kept
      <3>3. CASE c # b
        <4>1. rows'[b] = rows[b] /\ status'[b] = status[b]
          BY <1>1, <2>3, <3>1, <3>3, PreviewRows
        <4>2. Waiting(b)' \subseteq Waiting(b)
          BY <3>1, <4>1 DEF Waiting
        <4> QED
          BY <1>1, <2>1, <3>1, <4>1, <4>2, CallKept
      <3> QED
        BY <3>2, <3>3
    <2>4. ASSUME NEW c \in Batches, execute(c) PROVE Kept(b)'
      <3>1. c = b
        BY <1>4, <2>2, <2>4 DEF Alone, execute
      <3>2. call'.moved = FALSE
        BY <1>1, <2>4, Begins
      <3>3. Waiting(b)' \subseteq Waiting(b)
        BY <2>4, <3>1 DEF Waiting, execute
      <3> QED
        BY <1>1, <2>1, <2>4, <3>2, <3>3, CallKept DEF execute
    <2>5. ASSUME NEW c \in Batches, rollback(c) PROVE Kept(b)'
      <3>1. call'.kind = "rollback"
        BY <1>1, <2>5, Begins
      <3>2. Waiting(b)' \subseteq Waiting(b)
        BY <2>5, <3>1 DEF Waiting, rollback
      <3> QED
        BY <1>1, <2>1, <2>5, <3>1, <3>2, CallKept DEF rollback
    <2>6. CASE executed \/ rolled_back \/ Crash
      <3>1. /\ call'.kind = "none" /\ rows' = rows /\ video' = video
            /\ status'[b] = "previewing" => status[b] = "previewing"
        BY <2>2, <2>6, Chosen DEF executed, rolled_back, Crash
      <3>2. Waiting(b)' \subseteq Waiting(b)
        BY <3>1 DEF Waiting
      <3> QED
        BY <1>1, <2>1, <3>1, <3>2, CallKept
    <2>7. ASSUME NEW i \in call.todo, NotRestored(i) \/ RestoreFails(i) PROVE Kept(b)'
      <3>1. NextRow(i, TRUE) /\ rows' = rows /\ status' = status /\ video' = video
            /\ call.kind = "rollback"
        BY <2>7 DEF NotRestored, RestoreFails, RollingBack
      <3>2. call'.kind = "rollback"
        BY <1>1, <3>1, CallSet
      <3>3. Waiting(b)' \subseteq Waiting(b)
        BY <3>1, <3>2 DEF Waiting
      <3> QED
        BY <1>1, <2>1, <3>1, <3>2, <3>3, CallKept
    <2>8. ASSUME NEW i \in call.todo, Move(i) \/ Restore(i) PROVE Kept(b)'
      BY <1>1, <2>1, <2>8, MoveKeeps, RestoreKeeps
    <2>9. ASSUME NEW i \in call.todo, Moved(i) PROVE Kept(b)'
      <3>1. PICK new : new = [Went(row(i), call.at) EXCEPT !.status = "success"]
        OBVIOUS
      <3>2. /\ new \in Row /\ new.orig = row(i).orig /\ new.new = call.at
            /\ new.own = row(i).own /\ new.back = row(i).back
        <4>1. row(i) \in Row /\ call.at \in Path
          BY <1>1, RowType
        <4> QED
          BY <3>1, <4>1 DEF Row, Went
      <3>3. /\ Saves(i, new) /\ NextRow(i, FALSE) /\ status' = status /\ video' = video
            /\ Turn(i)
        BY <2>9, <3>1 DEF Moved, Executing
      <3>4. i \in Moving(b)
        <4>1. call.b = b
          BY <1>1, <2>1, <2>9, OwnCall
        <4> QED
          BY <2>9, <4>1 DEF Moving, Moved
      <3> QED
        BY <1>1, <2>1, <3>2, <3>3, <3>4, RowKept
    <2>10. ASSUME NEW i \in call.todo, MoveFails(i) PROVE Kept(b)'
      <3>1. PICK p \in IF call.moved THEN {call.at} ELSE {row(i).new} \cup Free(row(i).new) :
              Saves(i, [Went(row(i), p) EXCEPT !.status = "failed"])
        BY <2>10 DEF MoveFails
      <3>2. p \in Path
        BY <1>1, <3>1, RowType, FreeIsFree
      <3>3. PICK new : new = [Went(row(i), p) EXCEPT !.status = "failed"]
        OBVIOUS
      <3>4. /\ new \in Row /\ new.orig = row(i).orig /\ new.status = "failed"
            /\ new.own = row(i).own /\ new.back = row(i).back
        <4>1. row(i) \in Row
          BY <1>1, RowType
        <4> QED
          BY <3>2, <3>3, <4>1 DEF Row, Went
      <3>5. /\ Saves(i, new) /\ NextRow(i, TRUE) /\ status' = status /\ video' = video
            /\ Turn(i)
        BY <2>10, <3>1, <3>3 DEF MoveFails, Executing
      <3> QED
        BY <1>1, <2>1, <3>4, <3>5, RowKept
    <2>11. ASSUME NEW i \in call.todo, Restored(i) PROVE Kept(b)'
      <3>1. PICK new : new = [row(i) EXCEPT !.status = "rolled_back"]
        OBVIOUS
      <3>2. /\ new \in Row /\ new.orig = row(i).orig /\ new.status = "rolled_back"
            /\ new.own = row(i).own /\ new.back = row(i).back
        BY <1>1, <3>1, RowType, SetStatus
      <3>3. /\ Saves(i, new) /\ NextRow(i, FALSE) /\ status' = status /\ video' = video
            /\ Turn(i)
        BY <2>11, <3>1 DEF Restored, RollingBack
      <3> QED
        BY <1>1, <2>1, <3>2, <3>3, RowKept
    <2>12. CASE UNCHANGED vars
      BY <2>1, <2>12 DEF vars, Kept, Waiting, Out, Where, Moving, RowsIn, Executing, Turn
    <2> QED
      BY <2>3, <2>4, <2>5, <2>6, <2>7, <2>8, <2>9, <2>10, <2>11, <2>12 DEF Next
  <1> QED
    BY <1>2, <1>3, <1>4 DEF IInv

(* RenameService loses no video, however batches, failing moves, crashes and*)
(* repeated rollbacks meet; and rollback, where the other batches have not  *)
(* begun, puts back each video where it came from or none (execute and      *)
(* rollback, which look for a free path and look at it again).              *)
THEOREM ClassicSafe == ASSUME ClassicAssumption PROVE Spec => []ClassicKeepsFiles
  <1>1. IInv => ClassicKeepsFiles
    BY DEF IInv, Kept, RestoresOwn, ClassicKeepsFiles
  <1> QED
    BY <1>1, InitIInv, StepIInv, PTL DEF Spec

-----------------------------------------------------------------------------
(* Where nothing fails.  The rows of a batch whose videos are out: those    *)
(* that rollback has put back, and not committed yet, are no longer.        *)
Back(b) == {i \in call.todo : call.b = b /\ RollingBack(i) /\ call.moved}
Gone(b) == Out(b) \ Back(b)

(* rollback has all rows that are out still before it, execute those after  *)
(* the ones that are out, and a batch rolled back has none.                 *)
Ends(b) ==
    /\ status[b] = "rolled_back" => RowsIn(b, "success") = {}
    /\ call.kind = "rollback" /\ call.b = b => call.todo = RowsIn(b, "success")
    /\ call.kind = "execute" /\ call.b = b =>
          \A i \in RowsIn(b, "success"), j \in call.todo : j > i

(* Each video that is out is where it went, and no other is there or comes  *)
(* there; its own path is free or taken by that of a later row.             *)
Chain(b) ==
    /\ \A i \in Gone(b) : video[Where(b, i)] # NoFile
    /\ \A i, j \in Gone(b) : Where(b, i) = Where(b, j) => i = j
    /\ \A i \in Waiting(b), j \in Gone(b) : Where(b, j) # rows[b][i].orig
    /\ \A i \in Gone(b) : \/ video[rows[b][i].orig] = NoFile
                          \/ \E j \in Gone(b) : j > i /\ Where(b, j) = rows[b][i].orig

FaultlessInv == \A b \in Batches : Alone(b) /\ ~faulty => Ends(b) /\ Chain(b)

(* A step that moves no video, and only writes down where one has gone.     *)
LEMMA ChainStays ==
    ASSUME TypeOK, Phases, NEW b \in Batches, Chain(b), video' = video,
           Gone(b)' = Gone(b), Waiting(b)' \subseteq Waiting(b),
           \A i \in DOMAIN rows[b] : rows'[b][i].orig = rows[b][i].orig,
           \A i \in Gone(b) : Where(b, i)' = Where(b, i)
    PROVE  Chain(b)'
  <1>1. Gone(b) \subseteq DOMAIN rows[b] /\ Waiting(b) \subseteq DOMAIN rows[b]
    BY OutSets DEF Gone
  <1>2. \A i \in Gone(b)' : video'[Where(b, i)'] # NoFile
    BY DEF Chain
  <1>3. \A i, j \in Gone(b)' : Where(b, i)' = Where(b, j)' => i = j
    BY DEF Chain
  <1>4. \A i \in Waiting(b)', j \in Gone(b)' : Where(b, j)' # rows'[b][i].orig
    BY <1>1 DEF Chain
  <1>5. ASSUME NEW i \in Gone(b)', video'[rows'[b][i].orig] # NoFile
        PROVE  \E j \in Gone(b)' : j > i /\ Where(b, j)' = rows'[b][i].orig
    <2>1. i \in Gone(b) /\ rows'[b][i].orig = rows[b][i].orig
      BY <1>1, <1>5
    <2>2. PICK j \in Gone(b) : j > i /\ Where(b, j) = rows[b][i].orig
      BY <1>5, <2>1 DEF Chain
    <2> QED
      BY <2>1, <2>2
  <1> QED
    BY <1>2, <1>3, <1>4, <1>5 DEF Chain

(* While no row is between its move and its commit, the rows that are out   *)
(* are those that succeeded.                                                *)
LEMMA GoneIs ==
    ASSUME TypeOK, Phases, NEW b \in Batches, ~call.moved \/ call.b # b \/ call.kind = "none"
    PROVE  /\ Gone(b) = RowsIn(b, "success")
           /\ Moving(b) = {} /\ Back(b) = {}
           /\ \A i \in Gone(b) : Where(b, i) = rows[b][i].new
  <1>1. Moving(b) = {} /\ Back(b) = {}
    BY DEF Moving, Back, Executing, RollingBack
  <1>2. Gone(b) = RowsIn(b, "success")
    BY <1>1 DEF Gone, Out
  <1> QED
    BY <1>1, <1>2, OutSets

(* Calls that begin or end between the moves of videos.                     *)
LEMMA BetweenCalls ==
    ASSUME TypeOK, Phases, TypeOK', Phases', NEW b \in Batches, Chain(b),
           video' = video, rows'[b] = rows[b],
           ~call.moved \/ call.b # b \/ call.kind = "none",
           ~call'.moved \/ call'.b # b \/ call'.kind = "none",
           Waiting(b)' \subseteq Waiting(b)
    PROVE  Chain(b)'
  <1>1. /\ Gone(b) = RowsIn(b, "success")
        /\ \A i \in Gone(b) : Where(b, i) = rows[b][i].new
    BY GoneIs
  <1>2. Moving(b)' = {} /\ Back(b)' = {}
    BY DEF Moving, Back, Executing, RollingBack
  <1>3. Gone(b)' = RowsIn(b, "success")
    BY <1>2 DEF Gone, Out, RowsIn
  <1>4. \A i \in Gone(b) : Where(b, i)' = Where(b, i)
    BY <1>1, <1>2 DEF Where
  <1> QED
    BY <1>1, <1>3, <1>4, ChainStays

(* execute moves the video of a row to a path where there is none: what     *)
(* went to the path it leaves would have done so later.                     *)
LEMMA MoveChains ==
    ASSUME ClassicAssumption, TypeOK, Unique, Phases, NEW b \in Batches,
           Alone(b), Kept(b), Ends(b), Chain(b), NEW i \in call.todo, Move(i)
    PROVE  Ends(b)' /\ Chain(b)'
  <1>1. call.b = b
    BY OwnCall
  <1>2. PICK p \in Free(row(i).new) :
           /\ Shift(row(i).orig, p)
           /\ Saves(i, [row(i) EXCEPT !.own = video[row(i).orig]])
           /\ call' = [call EXCEPT !.moved = TRUE, !.at = p]
    BY DEF Move
  <1>3. PICK new : new = [row(i) EXCEPT !.own = video[row(i).orig]]
    OBVIOUS
  <1> DEFINE o(j) == rows[b][j].orig
             n(j) == rows[b][j].new
             S == RowsIn(b, "success")
  <1>4. /\ p \in Path /\ video[p] = NoFile
        /\ o(i) \in Path /\ video[o(i)] # NoFile
        /\ row(i) = rows[b][i]
    BY <1>1, <1>2, RowType, FreeIsFree DEF Move
  <1>5. /\ new \in Row /\ new.orig = o(i) /\ new.new = n(i)
        /\ new.status = rows[b][i].status
    BY <1>3, <1>4, RowType, SetOwn
  <1>6. Saves(i, new) /\ status' = status /\ Executing(i) /\ ~call.moved
    BY <1>2, <1>3 DEF Move
  <1>7. /\ i \in DOMAIN rows[b] /\ DOMAIN rows'[b] = DOMAIN rows[b]
        /\ rows'[b][i] = new
        /\ \A j \in DOMAIN rows[b] \ {i} : rows'[b][j] = rows[b][j]
    BY <1>1, <1>5, <1>6, SavesRow
  <1>8. /\ call'.b = b /\ call'.kind = "execute" /\ call.kind = "execute"
        /\ call'.todo = call.todo /\ call'.moved = TRUE /\ call'.at = p
        /\ Turn(i)
    BY <1>1, <1>2, <1>4, <1>6, CallSet DEF Executing
  <1>9. /\ video'[p] # NoFile /\ video'[o(i)] = NoFile
        /\ \A q \in Path \ {o(i), p} : video'[q] = video[q]
    BY <1>2, <1>4, ShiftKeeps
  <1>10. /\ S = Gone(b) /\ i \notin S /\ S \subseteq DOMAIN rows[b]
         /\ RowsIn(b, "success")' = S
         /\ \A j \in S : Where(b, j) = n(j)
    <2>1. rows[b][i].status = "matched"
      BY <1>4, <1>8, Begun
    <2>2. RowsIn(b, "success")' = RowsIn(b, "success") /\ i \notin RowsIn(b, "success")
      BY <1>5, <1>7, <2>1 DEF RowsIn
    <2>3. S \subseteq DOMAIN rows[b]
      BY RowsInRange
    <2> QED
      BY <1>6, <2>2, <2>3, GoneIs
  <1>11. \A j \in Moving(b)' : j = i
    <2> SUFFICES ASSUME NEW j \in Moving(b)' PROVE j = i
      OBVIOUS
    <2>1. /\ call.todo \subseteq Nat /\ j \in call.todo
          /\ \A k \in call.todo : j <= k
      BY <1>8 DEF TypeOK, Call, Moving, Executing, Turn
    <2>2. i \in Nat /\ j \in Nat /\ i <= j /\ j <= i
      BY <1>8, <2>1 DEF Turn
    <2> QED
      BY <2>2
  <1>12. i \in Moving(b)'
    BY <1>8 DEF Moving, Executing, Turn
  <1>13. Gone(b)' = S \cup {i}
    <2>1. Back(b)' = {}
      BY <1>8 DEF Back, RollingBack
    <2>2. Moving(b)' = {i}
      BY <1>11, <1>12
    <2> QED
      BY <1>10, <2>1, <2>2 DEF Gone, Out
  <1>14. \A j \in DOMAIN rows[b] : o(j) \in Path /\ n(j) \in Path /\ rows'[b][j].orig = o(j)
                                   /\ rows'[b][j].new = n(j)
    <2>1. \A j \in DOMAIN rows[b] : rows[b][j] \in Row
      BY DEF TypeOK
    <2> QED
      BY <1>5, <1>7, <2>1 DEF Row
  <1>15. Where(b, i)' = p /\ \A j \in S : Where(b, j)' = n(j)
    <2>1. Where(b, i)' = p
      BY <1>8, <1>12 DEF Where
    <2>2. \A j \in S : j \notin Moving(b)'
      BY <1>10, <1>11
    <2> QED
      BY <1>10, <1>14, <2>1, <2>2 DEF Where
  <1>16. i \in Waiting(b) /\ Waiting(b)' \subseteq Waiting(b) \ {i}
         /\ Waiting(b) \subseteq DOMAIN rows[b]
    <2>1. status[b] # "previewing"
      BY <1>1, <1>8 DEF Phases
    <2>2. Moving(b) = {} /\ Waiting(b) \subseteq DOMAIN rows[b]
      BY <1>6, OutSets
    <2>3. i \in Waiting(b)
      BY <1>1, <1>7, <1>8, <2>2 DEF Waiting
    <2>4. ASSUME NEW j \in Waiting(b)' PROVE j \in Waiting(b) /\ j # i
      <3>1. j \in DOMAIN rows[b] /\ j \in call.todo /\ j \notin Moving(b)'
        BY <1>6, <1>7, <1>8, <2>1, <2>4 DEF Waiting
      <3> QED
        BY <1>1, <1>8, <2>2, <1>12, <3>1 DEF Waiting
    <2> QED
      BY <2>2, <2>3, <2>4
  <1>17. /\ \A j \in S : video[n(j)] # NoFile
         /\ \A j, k \in S : n(j) = n(k) => j = k
         /\ \A k \in Waiting(b), j \in S : n(j) # o(k)
         /\ \A j \in S : video[o(j)] # NoFile => \E k \in S : k > j /\ n(k) = o(j)
         /\ \A j \in S : i > j
    BY <1>1, <1>8, <1>10 DEF Chain, Ends
  <1>18. /\ \A j, k \in DOMAIN rows[b] : o(j) = o(k) => j = k
         /\ \A k \in Waiting(b) : video[o(k)] # NoFile
    BY DEF Kept
  <1> HIDE DEF o, n, S
  <1>19. \A j \in S : n(j) # p /\ n(j) # o(i) /\ video'[n(j)] # NoFile
    BY <1>4, <1>9, <1>10, <1>14, <1>16, <1>17
  <1>20. \A j \in Gone(b)' : video'[Where(b, j)'] # NoFile
    BY <1>9, <1>13, <1>15, <1>19
  <1>21. \A j, k \in Gone(b)' : Where(b, j)' = Where(b, k)' => j = k
    BY <1>13, <1>15, <1>17, <1>19
  <1>22. \A k \in Waiting(b)', j \in Gone(b)' : Where(b, j)' # rows'[b][k].orig
    BY <1>4, <1>13, <1>14, <1>15, <1>16, <1>17, <1>18
  <1>23. ASSUME NEW j \in Gone(b)', video'[rows'[b][j].orig] # NoFile
         PROVE  \E k \in Gone(b)' : k > j /\ Where(b, k)' = rows'[b][j].orig
    <2>1. j \in S /\ j \in DOMAIN rows[b] /\ rows'[b][j].orig = o(j)
      BY <1>7, <1>9, <1>10, <1>13, <1>14, <1>23
    <2>2. CASE o(j) = p
      BY <1>13, <1>15, <1>17, <2>1, <2>2
    <2>3. CASE o(j) # p
      <3>1. o(j) # o(i) /\ o(j) \in Path
        BY <1>7, <1>10, <1>14, <1>18, <2>1
      <3>2. video[o(j)] # NoFile
        BY <1>9, <1>23, <2>1, <2>3, <3>1
      <3>3. PICK k \in S : k > j /\ n(k) = o(j)
        BY <1>17, <2>1, <3>2
      <3> QED
        BY <1>13, <1>15, <2>1, <3>3
    <2> QED
      BY <2>2, <2>3
  <1>24. Chain(b)'
    BY <1>20, <1>21, <1>22, <1>23 DEF Chain
  <1>25. Ends(b)'
    BY <1>1, <1>6, <1>8, <1>10 DEF Ends, S
  <1> QED
    BY <1>24, <1>25

(* rollback finds what it looks for: the video of the last row where it     *)
(* went, and nothing at its own path, for what came there has gone back.    *)
LEMMA IsVacant ==
    ASSUME TypeOK, Phases, NEW b \in Batches, Alone(b), Ends(b), Chain(b),
           NEW i \in call.todo, RollingBack(i), ~call.moved
    PROVE  Vacant(row(i))
  <1>1. call.b = b /\ call.kind = "rollback" /\ Turn(i) /\ row(i) = rows[b][i]
    BY OwnCall, RowType DEF RollingBack
  <1>2. Gone(b) = call.todo /\ \A j \in Gone(b) : Where(b, j) = rows[b][j].new
    BY <1>1, GoneIs DEF Ends
  <1>3. video[row(i).new] # NoFile
    BY <1>1, <1>2 DEF Chain
  <1>4. ASSUME video[row(i).orig] # NoFile PROVE FALSE
    <2>1. PICK j \in call.todo : j > i
      BY <1>1, <1>2, <1>4 DEF Chain
    <2>2. j <= i /\ i \in Nat /\ j \in Nat
      BY <1>1 DEF Turn, TypeOK, Call
    <2> QED
      BY <2>1, <2>2
  <1> QED
    BY <1>3, <1>4 DEF Vacant

(* rollback moves it back.                                                  *)
LEMMA RestoreChains ==
    ASSUME ClassicAssumption, TypeOK, Phases, NEW b \in Batches,
           Alone(b), Kept(b), Ends(b), Chain(b), NEW i \in call.todo, Restore(i)
    PROVE  Ends(b)' /\ Chain(b)'
  <1>1. call.b = b
    BY OwnCall
  <1> DEFINE o(j) == rows[b][j].orig
             n(j) == rows[b][j].new
             S == RowsIn(b, "success")
  <1>2. PICK new : new = [row(i) EXCEPT !.back = video[row(i).new]]
    OBVIOUS
  <1>3. /\ row(i) = rows[b][i] /\ o(i) \in Path /\ n(i) \in Path
        /\ video[o(i)] = NoFile /\ video[n(i)] # NoFile
        /\ Shift(n(i), o(i))
    BY <1>1, RowType DEF Restore, Vacant
  <1>4. /\ new \in Row /\ new.orig = o(i) /\ new.new = n(i)
        /\ new.status = rows[b][i].status
    BY <1>2, <1>3, RowType, SetBack
  <1>5. /\ Saves(i, new) /\ status' = status /\ call.kind = "rollback"
        /\ Turn(i) /\ ~call.moved
    BY <1>2 DEF Restore, RollingBack
  <1>6. /\ i \in DOMAIN rows[b] /\ DOMAIN rows'[b] = DOMAIN rows[b]
        /\ rows'[b][i] = new
        /\ \A j \in DOMAIN rows[b] \ {i} : rows'[b][j] = rows[b][j]
    BY <1>1, <1>4, <1>5, SavesRow
  <1>7. /\ call'.b = b /\ call'.kind = "rollback" /\ call'.todo = call.todo
        /\ call'.moved = TRUE
    BY <1>1, <1>5, CallSet DEF Restore, TypeOK, Call
  <1>8. /\ video'[o(i)] # NoFile /\ video'[n(i)] = NoFile
        /\ \A q \in Path \ {o(i), n(i)} : video'[q] = video[q]
    BY <1>3, ShiftKeeps
  <1>9. /\ S = call.todo /\ S = Gone(b) /\ RowsIn(b, "success")' = S
        /\ S \subseteq DOMAIN rows[b]
        /\ \A j \in S : Where(b, j) = n(j)
    <2>1. RowsIn(b, "success")' = S
      BY <1>4, <1>6 DEF RowsIn
    <2>2. S \subseteq DOMAIN rows[b]
      BY RowsInRange
    <2> QED
      BY <1>1, <1>5, <2>1, <2>2, GoneIs DEF Ends
  <1>10. Back(b)' = {i} /\ Moving(b)' = {}
    <2>1. Moving(b)' = {} /\ i \in Back(b)'
      BY <1>5, <1>7 DEF Moving, Executing, Back, RollingBack, Turn
    <2>2. ASSUME NEW j \in Back(b)' PROVE j = i
      <3>1. /\ call.todo \subseteq Nat /\ j \in call.todo
            /\ \A k \in call.todo : k <= j
        BY <1>7, <2>2 DEF TypeOK, Call, Back, RollingBack, Turn
      <3>2. i \in Nat /\ j \in Nat /\ i <= j /\ j <= i
        BY <1>5, <3>1 DEF Turn
      <3> QED
        BY <3>2
    <2> QED
      BY <2>1, <2>2
  <1>11. Gone(b)' = S \ {i} /\ i \in S
    BY <1>9, <1>10 DEF Gone, Out
  <1>12. Waiting(b)' = {}
    <2>1. status[b] # "previewing"
      BY <1>1, Begun
    <2> QED
      BY <1>5, <1>7, <2>1 DEF Waiting
  <1>13. \A j \in DOMAIN rows[b] : o(j) \in Path /\ n(j) \in Path /\ rows'[b][j].orig = o(j)
                                   /\ rows'[b][j].new = n(j)
    <2>1. \A j \in DOMAIN rows[b] : rows[b][j] \in Row
      BY DEF TypeOK
    <2> QED
      BY <1>4, <1>6, <2>1 DEF Row
  <1>14. \A j \in S : Where(b, j)' = n(j)
    BY <1>9, <1>10, <1>13 DEF Where
  <1>15. /\ \A j \in S : video[n(j)] # NoFile
         /\ \A j, k \in S : n(j) = n(k) => j = k
         /\ \A j \in S : video[o(j)] # NoFile => \E k \in S : k > j /\ n(k) = o(j)
    BY <1>9 DEF Chain
  <1>16. \A j, k \in DOMAIN rows[b] : o(j) = o(k) => j = k
    BY DEF Kept
  <1>17. Ends(b)'
    <2>1. status[b] = "rolled_back" => S = {}
      BY DEF Ends
    <2> QED
      BY <1>5, <1>7, <1>9, <2>1 DEF Ends
  <1> HIDE DEF o, n, S
  <1>18. \A j \in Gone(b)' : video'[Where(b, j)'] # NoFile
    <2> SUFFICES ASSUME NEW j \in S, j # i PROVE video'[n(j)] # NoFile
      BY <1>11, <1>14
    <2>1. n(j) # n(i) /\ n(j) # o(i) /\ n(j) \in Path
      BY <1>3, <1>9, <1>11, <1>13, <1>15
    <2> QED
      BY <1>8, <1>15, <2>1
  <1>19. \A j, k \in Gone(b)' : Where(b, j)' = Where(b, k)' => j = k
    BY <1>11, <1>14, <1>15
  <1>20. ASSUME NEW j \in Gone(b)', video'[rows'[b][j].orig] # NoFile
         PROVE  \E k \in Gone(b)' : k > j /\ Where(b, k)' = rows'[b][j].orig
    <2>1. j \in S /\ j # i /\ j \in DOMAIN rows[b] /\ rows'[b][j].orig = o(j) /\ o(j) \in Path
      BY <1>9, <1>11, <1>13, <1>20
    <2>2. o(j) # n(i) /\ o(j) # o(i)
      BY <1>6, <1>8, <1>16, <1>20, <2>1
    <2>3. video[o(j)] # NoFile
      BY <1>8, <1>20, <2>1, <2>2
    <2>4. PICK k \in S : k > j /\ n(k) = o(j)
      BY <1>15, <2>1, <2>3
    <2>5. k \in Gone(b)'
      BY <1>11, <2>2, <2>4
    <2> QED
      BY <1>14, <2>1, <2>4, <2>5
  <1> QED
    BY <1>12, <1>17, <1>18, <1>19, <1>20 DEF Chain

(* The commit that ends a row of execute, and that which ends one of        *)
(* rollback.                                                                *)
LEMMA MovedChains ==
    ASSUME ClassicAssumption, TypeOK, Phases, NEW b \in Batches,
           Alone(b), Ends(b), Chain(b), NEW i \in call.todo, Moved(i)
    PROVE  Ends(b)' /\ Chain(b)'
  <1>1. call.b = b
    BY OwnCall
  <1>2. PICK new : new = [Went(row(i), call.at) EXCEPT !.status = "success"]
    OBVIOUS
  <1>3. /\ row(i) = rows[b][i] /\ rows[b][i].status = "matched"
        /\ call.todo \subseteq Nat /\ status[b] = "executing" /\ call.kind = "execute"
    BY <1>1, RowType, Begun DEF Moved, Executing, TypeOK, Call
  <1>4. /\ new \in Row /\ new.orig = rows[b][i].orig /\ new.new = call.at
        /\ new.status = "success"
    <2>1. row(i) \in Row /\ call.at \in Path
      BY RowType
    <2> QED
      BY <1>2, <1>3, <2>1 DEF Row, Went
  <1>5. Saves(i, new) /\ status' = status /\ Turn(i) /\ call.moved /\ video' = video
    BY <1>2 DEF Moved, Executing
  <1>6. /\ i \in DOMAIN rows[b] /\ DOMAIN rows'[b] = DOMAIN rows[b]
        /\ rows'[b][i] = new
        /\ \A j \in DOMAIN rows[b] \ {i} : rows'[b][j] = rows[b][j]
    BY <1>1, <1>4, <1>5, SavesRow
  <1>7. /\ call'.b = b /\ call'.kind = "execute" /\ call'.todo = call.todo \ {i}
        /\ call'.moved = FALSE
    BY <1>1, <1>3, CallSet DEF Moved
  <1>8. Moving(b) = {i} /\ Back(b) = {}
    <2>1. i \in Moving(b)
      BY <1>1, <1>3, <1>5 DEF Moving, Executing
    <2> QED
      BY <1>3, <2>1, OutSets DEF Back, RollingBack
  <1>9. Moving(b)' = {} /\ Back(b)' = {}
    BY <1>7 DEF Moving, Back
  <1>10. RowsIn(b, "success")' = RowsIn(b, "success") \cup {i}
    BY <1>4, <1>6 DEF RowsIn
  <1>11. Gone(b)' = Gone(b)
    BY <1>8, <1>9, <1>10 DEF Gone, Out
  <1>12. \A j \in Gone(b) : Where(b, j)' = Where(b, j)
    <2> SUFFICES ASSUME NEW j \in Gone(b) PROVE Where(b, j)' = Where(b, j)
      OBVIOUS
    <2>1. Where(b, j)' = rows'[b][j].new
      BY <1>9 DEF Where
    <2>2. CASE j = i
      BY <1>4, <1>6, <1>8, <2>1, <2>2 DEF Where
    <2>3. CASE j # i
      <3>1. j \in RowsIn(b, "success") /\ j \in DOMAIN rows[b]
        BY <1>8, <2>3, RowsInRange DEF Gone, Out
      <3> QED
        BY <1>6, <2>1, <2>3, <3>1, OutSets
    <2> QED
      BY <2>2, <2>3
  <1>13. Waiting(b)' \subseteq Waiting(b)
    BY <1>1, <1>3, <1>5, <1>6, <1>7, <1>8 DEF Waiting
  <1>14. \A j \in DOMAIN rows[b] : rows'[b][j].orig = rows[b][j].orig
    BY <1>4, <1>6
  <1>15. Ends(b)'
    <2>1. \A j \in call'.todo : j > i
      BY <1>3, <1>5, <1>7 DEF Turn
    <2>2. \A k \in RowsIn(b, "success"), j \in call.todo : j > k
      BY <1>1, <1>3 DEF Ends
    <2> QED
      BY <1>3, <1>5, <1>7, <1>10, <2>1, <2>2 DEF Ends
  <1> QED
    BY <1>5, <1>11, <1>12, <1>13, <1>14, <1>15, ChainStays

LEMMA RestoredChains ==
    ASSUME ClassicAssumption, TypeOK, Phases, NEW b \in Batches,
           Alone(b), Ends(b), Chain(b), NEW i \in call.todo, Restored(i)
    PROVE  Ends(b)' /\ Chain(b)'
  <1>1. call.b = b
    BY OwnCall
  <1>2. PICK new : new = [row(i) EXCEPT !.status = "rolled_back"]
    OBVIOUS
  <1>3. /\ row(i) = rows[b][i] /\ call.kind = "rollback"
        /\ call.todo = RowsIn(b, "success") /\ call.todo \subseteq Nat
    BY <1>1, RowType DEF Restored, RollingBack, TypeOK, Call, Ends
  <1>4. /\ new \in Row /\ new.orig = rows[b][i].orig /\ new.new = rows[b][i].new
        /\ new.status = "rolled_back"
    BY <1>2, <1>3, RowType, SetStatus
  <1>5. Saves(i, new) /\ status' = status /\ Turn(i) /\ call.moved /\ video' = video
    BY <1>2 DEF Restored, RollingBack
  <1>6. /\ i \in DOMAIN rows[b] /\ DOMAIN rows'[b] = DOMAIN rows[b]
        /\ rows'[b][i] = new
        /\ \A j \in DOMAIN rows[b] \ {i} : rows'[b][j] = rows[b][j]
    BY <1>1, <1>4, <1>5, SavesRow
  <1>7. /\ call'.b = b /\ call'.kind = "rollback" /\ call'.todo = call.todo \ {i}
        /\ call'.moved = FALSE
    BY <1>1, <1>3, CallSet DEF Restored
  <1>8. Moving(b) = {} /\ Back(b) = {i}
    <2>1. Moving(b) = {} /\ i \in Back(b)
      BY <1>1, <1>3, <1>5 DEF Moving, Executing, Back, RollingBack
    <2>2. ASSUME NEW j \in Back(b) PROVE j = i
      <3>1. j \in call.todo /\ i <= j /\ j <= i
        BY <1>3, <1>5, <2>2 DEF Back, RollingBack, Turn
      <3> QED
        BY <1>3, <3>1
    <2> QED
      BY <2>1, <2>2
  <1>9. Moving(b)' = {} /\ Back(b)' = {}
    BY <1>7 DEF Moving, Back
  <1>10. RowsIn(b, "success")' = RowsIn(b, "success") \ {i}
    BY <1>4, <1>6 DEF RowsIn
  <1>11. Gone(b)' = Gone(b)
    BY <1>8, <1>9, <1>10 DEF Gone, Out
  <1>12. \A j \in DOMAIN rows[b] : /\ rows'[b][j].orig = rows[b][j].orig
                                   /\ rows'[b][j].new = rows[b][j].new
    BY <1>4, <1>6
  <1>13. \A j \in Gone(b) : Where(b, j)' = Where(b, j)
    BY <1>8, <1>9, <1>12, OutSets DEF Where, Gone
  <1>14. Waiting(b)' \subseteq Waiting(b)
    BY <1>3, <1>5, <1>6, <1>7 DEF Waiting
  <1>15. Ends(b)'
    BY <1>3, <1>5, <1>7, <1>10 DEF Ends
  <1> QED
    BY <1>5, <1>11, <1>12, <1>13, <1>14, <1>15, ChainStays

LEMMA FaultlessInit == ASSUME ClassicAssumption PROVE Init => FaultlessInv
  <1> SUFFICES ASSUME Init, NEW b \in Batches PROVE Ends(b) /\ Chain(b)
    BY DEF FaultlessInv
  <1>1. /\ rows[b] = <<>> /\ status[b] = "none" /\ call.kind = "none" /\ call.todo = {}
    BY Chosen DEF Init
  <1>2. RowsIn(b, "success") = {} /\ Moving(b) = {}
    BY <1>1 DEF RowsIn, Moving
  <1> QED
    BY <1>1, <1>2 DEF Ends, Chain, Gone, Out

LEMMA FaultlessStep ==
    ASSUME ClassicAssumption
    PROVE  IInv /\ FaultlessInv /\ [Next]_vars => FaultlessInv'
  <1> SUFFICES ASSUME IInv, FaultlessInv, [Next]_vars,
                      NEW b \in Batches, Alone(b)', ~faulty'
               PROVE  Ends(b)' /\ Chain(b)'
    BY DEF FaultlessInv
  <1>1. TypeOK /\ Unique /\ Phases /\ faulty \in BOOLEAN
    BY DEF IInv, TypeOK
  <1>2. TypeOK' /\ Phases'
    BY StepIInv DEF IInv
  <1>3. Alone(b) /\ ~faulty
    BY <1>1, WasAlone DEF Next, vars, preview, execute, rollback, Move, Moved, MoveFails,
       Restore, Restored, NotRestored, RestoreFails, executed, rolled_back, Crash
  <1>4. Kept(b) /\ Ends(b) /\ Chain(b)
    BY <1>3 DEF IInv, FaultlessInv
  <1>5. DOMAIN status = Batches /\ call.b \in Batches
    BY <1>1 DEF TypeOK, Call
  <1>6. ASSUME NEW c \in Batches, preview(c) PROVE Ends(b)' /\ Chain(b)'
    <2>1. /\ video' = video /\ call' = call /\ call.kind = "none"
          /\ \A a \in Batches \ {c} : status'[a] = status[a]
          /\ status'[c] = "previewing"
      BY <1>5, <1>6 DEF preview, Busy
    <2>2. CASE c = b
      <3>1. RowsIn(b, "success")' = {}
        BY <1>1, <1>6, <2>2, PreviewRows DEF RowsIn
      <3>2. Gone(b)' = {}
        BY <1>2, <2>1, <3>1, GoneIs DEF Gone, Out, Moving, Executing
      <3> QED
        BY <2>1, <2>2, <3>1, <3>2 DEF Ends, Chain
    <2>3. CASE c # b
      <3>1. rows'[b] = rows[b] /\ status'[b] = status[b]
        BY <1>1, <1>6, <2>1, <2>3, PreviewRows
      <3>2. Waiting(b)' \subseteq Waiting(b)
        BY <2>1, <3>1 DEF Waiting
      <3>3. Ends(b)'
        BY <1>4, <2>1, <3>1 DEF Ends, RowsIn
      <3> QED
        BY <1>1, <1>2, <1>4, <2>1, <3>1, <3>2, <3>3, BetweenCalls
    <2> QED
      BY <2>2, <2>3
  <1>7. ASSUME NEW c \in Batches, execute(c) PROVE Ends(b)' /\ Chain(b)'
    <2>1. c = b
      BY <1>5, <1>7 DEF Alone, execute
    <2>2. call'.moved = FALSE /\ call'.kind = "execute" /\ call.kind = "none" /\ rows' = rows
      BY <1>1, <1>7, Begins DEF execute, Busy
    <2>3. Waiting(b)' \subseteq Waiting(b)
      BY <1>7, <2>1 DEF Waiting, execute
    <2>4. RowsIn(b, "success")' = {} /\ status'[b] = "executing"
      BY <1>1, <1>5, <1>7, <2>1, <2>2 DEF Phases, RowsIn, execute
    <2>5. Ends(b)'
      BY <2>2, <2>4 DEF Ends
    <2> QED
      BY <1>1, <1>2, <1>4, <1>7, <2>2, <2>3, <2>5, BetweenCalls DEF execute
  <1>8. ASSUME NEW c \in Batches, rollback(c) PROVE Ends(b)' /\ Chain(b)'
    <2>1. /\ call'.moved = FALSE /\ call'.kind = "rollback" /\ call.kind = "none"
          /\ call'.b = c /\ call'.todo = RowsIn(c, "success")
          /\ rows' = rows /\ status' = status
      BY <1>1, <1>8, Begins DEF rollback, Busy
    <2>2. Waiting(b)' \subseteq Waiting(b)
      BY <2>1 DEF Waiting
    <2>3. Ends(b)'
      BY <1>4, <2>1 DEF Ends, RowsIn
    <2> QED
      BY <1>1, <1>2, <1>4, <1>8, <2>1, <2>2, <2>3, BetweenCalls DEF rollback
  <1>9. CASE executed \/ rolled_back
    <2>1. /\ call'.kind = "none" /\ rows' = rows /\ video' = video /\ call.todo = {}
          /\ call'.moved = FALSE /\ status'[call.b] # "previewing"
          /\ \A a \in Batches \ {call.b} : status'[a] = status[a]
      BY <1>5, <1>9, Chosen DEF executed, rolled_back
    <2>2. call.b = b
      <3>1. CASE executed
        BY <1>1, <1>3, <3>1, OwnCall DEF executed
      <3>2. CASE rolled_back
        BY <1>5, <3>2 DEF Alone, rolled_back
      <3> QED
        BY <1>9, <3>1, <3>2
    <2>3. Waiting(b)' \subseteq Waiting(b)
      BY <2>1, <2>2 DEF Waiting
    <2>4. Moving(b) = {} /\ Back(b) = {} /\ Moving(b)' = {} /\ Back(b)' = {}
      BY <2>1 DEF Moving, Back, Executing, RollingBack
    <2>5. Gone(b)' = Gone(b) /\ \A i \in Gone(b) : Where(b, i)' = Where(b, i)
      BY <2>1, <2>4 DEF Gone, Out, RowsIn, Where
    <2>6. Chain(b)'
      BY <1>1, <1>4, <2>1, <2>3, <2>5, ChainStays
    <2>7. status'[b] = "rolled_back" => RowsIn(b, "success")' = {}
      <3>1. CASE executed
        BY <1>5, <2>2, <3>1 DEF executed
      <3>2. CASE rolled_back
        BY <1>4, <2>1, <2>2, <3>2 DEF rolled_back, Ends, RowsIn
      <3> QED
        BY <1>9, <3>1, <3>2
    <2> QED
      BY <2>1, <2>6, <2>7 DEF Ends
  <1>10. ASSUME NEW i \in call.todo, NotRestored(i) PROVE FALSE
    BY <1>1, <1>3, <1>4, <1>10, IsVacant DEF NotRestored
  <1>11. ASSUME NEW i \in call.todo, Move(i) \/ Restore(i) \/ Moved(i) \/ Restored(i)
         PROVE  Ends(b)' /\ Chain(b)'
    BY <1>1, <1>3, <1>4, <1>11, MoveChains, RestoreChains, MovedChains, RestoredChains
  <1>12. ASSUME NEW i \in call.todo PROVE ~MoveFails(i) /\ ~RestoreFails(i)
    BY DEF MoveFails, RestoreFails
  <1>13. ~Crash
    BY DEF Crash
  <1>14. CASE UNCHANGED vars
    BY <1>4, <1>14 DEF vars, Ends, Chain, Gone, Back, Waiting, Out, Where, Moving, RowsIn,
                       Executing, RollingBack, Turn
  <1> QED
    BY <1>6, <1>7, <1>8, <1>9, <1>10, <1>11, <1>12, <1>13, <1>14 DEF Next

(* Where no move has failed and no call was cut short, a rollback that is   *)
(* complete leaves no row of its batch behind: rows that have taken each    *)
(* other's names are taken back last to first, each finding its own path    *)
(* free (rollback, executed_at.desc()).                                     *)
THEOREM ClassicBack == ASSUME ClassicAssumption PROVE Spec => []RollbackComplete
  <1>1. IInv /\ FaultlessInv => RollbackComplete
    BY DEF FaultlessInv, Ends, RollbackComplete
  <1>2. IInv /\ FaultlessInv /\ [Next]_vars => IInv' /\ FaultlessInv'
    BY StepIInv, FaultlessStep
  <1> QED
    BY <1>1, <1>2, InitIInv, FaultlessInit, PTL DEF Spec
=============================================================================
