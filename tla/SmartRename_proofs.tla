-------------------------- MODULE SmartRename_proofs --------------------------
(****************************************************************************)
(* Proofs about SmartRename, for every set of names, contents and batches,  *)
(* any bound on the counters and every set of faults.                       *)
(****************************************************************************)
EXTENDS SmartRename, FiniteSetTheorems, TLAPS

(* A move to a free stem keeps every content (shutil.move of the video in   *)
(* execute and in rollback).                                                *)
LEMMA ShiftKeeps ==
    ASSUME NEW f \in [Stem -> Content], NEW from \in Stem, NEW to \in Stem,
           f[from] # NoFile, f[to] = NoFile
    PROVE  /\ Shift(f, from, to) \in [Stem -> Content]
           /\ \A x \in Files : (\E s \in Stem : f[s] = x)
                               => \E s \in Stem : Shift(f, from, to)[s] = x
  <1> DEFINE g == Shift(f, from, to)
  <1>1. from # to
    OBVIOUS
  <1>2. g \in [Stem -> Content]
    BY DEF Shift, Content
  <1>3. g[to] = f[from]
    BY <1>1 DEF Shift
  <1>4. \A s \in Stem \ {from, to} : g[s] = f[s]
    BY DEF Shift
  <1>5. ASSUME NEW x \in Files, NEW s \in Stem, f[s] = x
        PROVE  \E t \in Stem : g[t] = x
    <2>1. x # NoFile
      BY RenameAssumption
    <2>2. CASE s = from
      BY <1>3, <1>5, <2>2
    <2>3. CASE s # from
      <3>1. s # to
        BY <1>5, <2>1
      <3> QED
        BY <1>4, <1>5, <2>3, <3>1
    <2> QED
      BY <2>2, <2>3
  <1> QED
    BY <1>2, <1>5

(* A step on a row rewrites that row and no other (db.commit in the loops   *)
(* of execute and rollback).                                                *)
LEMMA MarkTypes ==
    ASSUME TypeOK, Busy, NEW i \in call.todo, NEW new \in Row, Mark(i, new)
    PROVE  /\ rows' \in [Batches -> Seq(Row)]
           /\ DOMAIN rows'[call.b] = DOMAIN rows[call.b]
  <1>1. /\ rows \in [Batches -> Seq(Row)]
        /\ call.b \in Batches
        /\ i \in DOMAIN rows[call.b]
    BY DEF TypeOK, Call
  <1>2. rows' = [rows EXCEPT ![call.b] = [rows[call.b] EXCEPT ![i] = new]]
    BY <1>1 DEF Mark
  <1>3. /\ [rows[call.b] EXCEPT ![i] = new] \in Seq(Row)
        /\ DOMAIN [rows[call.b] EXCEPT ![i] = new] = DOMAIN rows[call.b]
    BY <1>1
  <1> QED
    BY <1>1, <1>2, <1>3

(* The row at hand is a row.                                                *)
LEMMA RowType ==
    ASSUME TypeOK, Busy, NEW i \in call.todo
    PROVE  row(i) \in Row
  BY DEF TypeOK, Call, row

(* What a call record may become.                                           *)
LEMMA CallTypes ==
    ASSUME TypeOK
    PROVE  /\ \A b \in Batches : Idle(b) \in Call /\ Idle(b).kind = "none"
           /\ \A i : \A bad \in BOOLEAN : NextRow(i, bad) \in Call
           /\ \A i : \A bad \in BOOLEAN :
                 /\ NextRow(i, bad).b = call.b
                 /\ NextRow(i, bad).kind = call.kind
                 /\ NextRow(i, bad).todo \subseteq call.todo
  BY DEF TypeOK, Call, Idle, NextRow

LEMMA MovedTypes ==
    ASSUME TypeOK, NEW next,
           \/ next = [call EXCEPT !.moved = TRUE, !.exts = Sidecars]
           \/ \E e : next = [call EXCEPT !.exts = @ \ {e}]
    PROVE  next \in Call /\ next.b = call.b /\ next.todo = call.todo
  BY DEF TypeOK, Call

(* There are finitely many stems, and so a batch has finitely many rows.    *)
LEMMA StemsFinite == IsFiniteSet(Stem)
  <1>1. IsFiniteSet(0 .. MaxSuffix)
    BY FS_Interval, RenameAssumption
  <1> QED
    BY <1>1, FS_Product, RenameAssumption DEF Stem

(* preview writes well-formed rows.                                         *)
LEMMA PreviewTypes ==
    ASSUME TypeOK, NEW b \in Batches, Preview(b)
    PROVE  rows' \in [Batches -> Seq(Row)]
  <1>1. PICK parsed \in SUBSET Found :
          \E order \in SetToSeqs(parsed), new \in [parsed -> Names],
             state \in [parsed -> {"matched", "needs_confirmation"}] :
             rows' = [rows EXCEPT ![b] = [i \in DOMAIN order |->
                 PlannedRow(order[i], new[order[i]], state[order[i]])]]
    BY DEF Preview
  <1>2. PICK order \in SetToSeqs(parsed), new \in [parsed -> Names],
             state \in [parsed -> {"matched", "needs_confirmation"}] :
             rows' = [rows EXCEPT ![b] = [i \in DOMAIN order |->
                 PlannedRow(order[i], new[order[i]], state[order[i]])]]
    BY <1>1
  <1>3. parsed \subseteq Stem
    BY DEF Found
  <1>4. Cardinality(parsed) \in Nat
    BY <1>3, StemsFinite, FS_Subset, FS_CardinalityType
  <1>5. order \in [1 .. Cardinality(parsed) -> parsed]
    BY DEF SetToSeqs
  <1>6. ASSUME NEW i \in DOMAIN order
        PROVE  PlannedRow(order[i], new[order[i]], state[order[i]]) \in Row
    <2>1. /\ order[i] \in parsed
          /\ new[order[i]] \in Names
          /\ state[order[i]] \in {"matched", "needs_confirmation"}
      BY <1>5
    <2>2. Plain(new[order[i]]) \in Stem
      BY <2>1, RenameAssumption DEF Plain, Stem
    <2> QED
      BY <1>3, <2>1, <2>2 DEF PlannedRow, Row, Content
  <1>7. [i \in DOMAIN order |->
             PlannedRow(order[i], new[order[i]], state[order[i]])] \in Seq(Row)
    BY <1>4, <1>5, <1>6
  <1> QED
    BY <1>2, <1>7 DEF TypeOK

(* Operations rename well-formed rows into well-formed rows.                *)
LEMMA OperationTypes ==
    ASSUME TypeOK, NEW b \in Batches, ExecuteOperations(b)
    PROVE  /\ rows' \in [Batches -> Seq(Row)]
           /\ call'.todo \subseteq DOMAIN rows'[b]
           /\ call' \in Call /\ call'.b = b
  <1>1. PICK picked \in SUBSET DOMAIN rows[b] : \E name \in [picked -> Names] :
          /\ Begin("execute", b, picked)
          /\ rows' = [rows EXCEPT ![b] = [i \in DOMAIN rows[b] |->
                IF i \in picked
                THEN [rows[b][i] EXCEPT !.new = Plain(name[i]), !.status = "matched"]
                ELSE rows[b][i]]]
    BY DEF ExecuteOperations
  <1>2. PICK name \in [picked -> Names] :
          /\ Begin("execute", b, picked)
          /\ rows' = [rows EXCEPT ![b] = [i \in DOMAIN rows[b] |->
                IF i \in picked
                THEN [rows[b][i] EXCEPT !.new = Plain(name[i]), !.status = "matched"]
                ELSE rows[b][i]]]
    BY <1>1
  <1> DEFINE new == [i \in DOMAIN rows[b] |->
                IF i \in picked
                THEN [rows[b][i] EXCEPT !.new = Plain(name[i]), !.status = "matched"]
                ELSE rows[b][i]]
  <1>3. rows[b] \in Seq(Row) /\ DOMAIN rows[b] \subseteq Nat
    BY DEF TypeOK
  <1>4. ASSUME NEW i \in DOMAIN rows[b] PROVE new[i] \in Row
    <2>1. rows[b][i] \in Row
      BY <1>3
    <2>2. ASSUME i \in picked PROVE Plain(name[i]) \in Stem
      BY <2>2, RenameAssumption DEF Plain, Stem
    <2> QED
      BY <2>1, <2>2 DEF Row
  <1>5. new \in Seq(Row) /\ DOMAIN new = DOMAIN rows[b]
    <2>1. Len(rows[b]) \in Nat /\ DOMAIN rows[b] = 1 .. Len(rows[b])
      BY <1>3
    <2> HIDE DEF new
    <2>2. new = [i \in 1 .. Len(rows[b]) |-> new[i]]
      BY <2>1 DEF new
    <2> QED
      BY <2>1, <2>2, <1>4
  <1>6. rows' = [rows EXCEPT ![b] = new]
    BY <1>2
  <1> HIDE DEF new
  <1>7. rows' \in [Batches -> Seq(Row)] /\ DOMAIN rows'[b] = DOMAIN rows[b]
    BY <1>5, <1>6 DEF TypeOK
  <1>8. call' \in Call /\ call'.b = b /\ call'.todo = picked
    BY <1>2, <1>3 DEF Begin, Idle, Call
  <1> QED
    BY <1>7, <1>8

(* The conjuncts of the type invariant hold of an empty database.           *)
LEMMA InitTypes == Init => TypeOK
  <1> SUFFICES ASSUME Init PROVE TypeOK
    OBVIOUS
  <1>1. PICK c \in Batches : call = Idle(c)
    BY DEF Init
  <1>2. call \in Call /\ ~Busy
    BY <1>1 DEF Idle, Call, Busy
  <1>3. status \in [Batches -> BatchStatus] /\ rows \in [Batches -> Seq(Row)]
    <2>1. /\ status = [b \in Batches |-> "none"]
          /\ rows = [b \in Batches |-> <<>>]
      BY DEF Init
    <2> QED
      BY <2>1 DEF BatchStatus
  <1>4. /\ video \in [Stem -> Content]
        /\ side \in [Stem \X Sidecars -> Content]
    BY DEF Init
  <1>5. seen \subseteq Files
    BY DEF Init, Content
  <1> QED
    BY <1>2, <1>3, <1>4, <1>5 DEF TypeOK

(* Each step keeps the types.                                               *)
LEMMA StepTypes == TypeOK /\ [Next]_vars => TypeOK'
  <1> SUFFICES ASSUME TypeOK, [Next]_vars PROVE TypeOK'
    OBVIOUS
  <1>a. /\ video \in [Stem -> Content]
        /\ side \in [Stem \X Sidecars -> Content]
        /\ status \in [Batches -> BatchStatus]
        /\ rows \in [Batches -> Seq(Row)]
        /\ call \in Call /\ call.b \in Batches
        /\ seen \subseteq Files
        /\ Busy => call.todo \subseteq DOMAIN rows[call.b]
    BY DEF TypeOK, Call
  <1>0. CASE UNCHANGED vars
    BY <1>0 DEF TypeOK, Busy, vars
  <1>1. ASSUME NEW i \in call.todo, MoveVideo(i) PROVE TypeOK'
    <2>1. Busy
      BY <1>1 DEF MoveVideo, Executing, Busy
    <2>2. PICK s \in Stem :
            /\ IsFinal(s, row(i).new)
            /\ video' = Shift(video, row(i).orig, s)
            /\ Mark(i, [row(i) EXCEPT !.was = video[row(i).orig], !.at = s])
      BY <1>1 DEF MoveVideo
    <2>3. row(i) \in Row /\ row(i).orig \in Stem
      BY <2>1, RowType DEF Row
    <2>4. [row(i) EXCEPT !.was = video[row(i).orig], !.at = s] \in Row
      BY <1>a, <2>3 DEF Row
    <2>5. /\ rows' \in [Batches -> Seq(Row)]
          /\ DOMAIN rows'[call.b] = DOMAIN rows[call.b]
      BY <2>1, <2>2, <2>4, MarkTypes
    <2>6. video' \in [Stem -> Content]
      BY <1>1, <1>a, <2>2, <2>3, ShiftKeeps DEF MoveVideo, IsFinal
    <2>7. call' \in Call /\ call'.b = call.b /\ call'.todo = call.todo
      BY <1>1, MovedTypes DEF MoveVideo
    <2> QED
      BY <1>1, <1>a, <2>1, <2>5, <2>6, <2>7 DEF MoveVideo, TypeOK
  <1>2. ASSUME NEW i \in call.todo, NEW e \in Sidecars, MoveSidecar(i, e)
        PROVE  TypeOK'
    <2>1. Busy
      BY <1>2 DEF MoveSidecar, Executing, Busy
    <2>2. row(i) \in Row /\ row(i).orig \in Stem /\ row(i).at \in Stem
      BY <2>1, RowType DEF Row
    <2>3. side' \in [Stem \X Sidecars -> Content]
      BY <1>2, <1>a, <2>2 DEF MoveSidecar, Shift, Content
    <2>4. call' \in Call /\ call'.b = call.b /\ call'.todo = call.todo
      BY <1>2, MovedTypes DEF MoveSidecar
    <2> QED
      BY <1>2, <1>a, <2>1, <2>3, <2>4 DEF MoveSidecar, TypeOK, tables
  <1>3. ASSUME NEW i \in call.todo, MoveFails(i) PROVE TypeOK'
    <2>1. Busy
      BY <1>3 DEF MoveFails, Executing, Busy
    <2>2. [row(i) EXCEPT !.status = "failed"] \in Row
      BY <2>1, RowType DEF Row
    <2>3. /\ rows' \in [Batches -> Seq(Row)]
          /\ DOMAIN rows'[call.b] = DOMAIN rows[call.b]
      BY <1>3, <2>1, <2>2, MarkTypes DEF MoveFails
    <2>4. call' \in Call /\ call'.b = call.b /\ call'.todo \subseteq call.todo
      BY <1>3, CallTypes DEF MoveFails
    <2> QED
      BY <1>3, <1>a, <2>1, <2>3, <2>4 DEF MoveFails, TypeOK, disk
  <1>4. ASSUME NEW i \in call.todo, MoveDone(i) PROVE TypeOK'
    <2>1. Busy
      BY <1>4 DEF MoveDone, Executing, Busy
    <2>2. [row(i) EXCEPT !.status = "success"] \in Row
      BY <2>1, RowType DEF Row
    <2>3. /\ rows' \in [Batches -> Seq(Row)]
          /\ DOMAIN rows'[call.b] = DOMAIN rows[call.b]
      BY <1>4, <2>1, <2>2, MarkTypes DEF MoveDone
    <2>4. call' \in Call /\ call'.b = call.b /\ call'.todo \subseteq call.todo
      BY <1>4, CallTypes DEF MoveDone
    <2> QED
      BY <1>4, <1>a, <2>1, <2>3, <2>4 DEF MoveDone, TypeOK, disk
  <1>5. ASSUME NEW i \in call.todo, RestoreVideo(i) PROVE TypeOK'
    <2>1. Busy
      BY <1>5 DEF RestoreVideo, RollingBack, Busy
    <2>2. row(i) \in Row /\ row(i).orig \in Stem /\ row(i).new \in Stem
      BY <2>1, RowType DEF Row
    <2>3. [row(i) EXCEPT !.back = video[row(i).new]] \in Row
      BY <1>a, <2>2 DEF Row
    <2>4. /\ rows' \in [Batches -> Seq(Row)]
          /\ DOMAIN rows'[call.b] = DOMAIN rows[call.b]
      BY <1>5, <2>1, <2>3, MarkTypes DEF RestoreVideo
    <2>5. video' \in [Stem -> Content]
      BY <1>5, <1>a, <2>2, ShiftKeeps DEF RestoreVideo, CanRestore
    <2>6. call' \in Call /\ call'.b = call.b /\ call'.todo = call.todo
      BY <1>5, MovedTypes DEF RestoreVideo
    <2> QED
      BY <1>5, <1>a, <2>1, <2>4, <2>5, <2>6 DEF RestoreVideo, TypeOK
  <1>6. ASSUME NEW i \in call.todo, NEW e \in Sidecars, RestoreSidecar(i, e)
        PROVE  TypeOK'
    <2>1. Busy
      BY <1>6 DEF RestoreSidecar, RollingBack, Busy
    <2>2. row(i) \in Row /\ row(i).orig \in Stem /\ row(i).new \in Stem
      BY <2>1, RowType DEF Row
    <2>3. side' \in [Stem \X Sidecars -> Content]
      BY <1>6, <1>a, <2>2 DEF RestoreSidecar, Shift, Content
    <2>4. call' \in Call /\ call'.b = call.b /\ call'.todo = call.todo
      BY <1>6, MovedTypes DEF RestoreSidecar
    <2> QED
      BY <1>6, <1>a, <2>1, <2>3, <2>4 DEF RestoreSidecar, TypeOK, tables
  <1>7. ASSUME NEW i \in call.todo, RestoreFails(i) PROVE TypeOK'
    <2>1. Busy
      BY <1>7 DEF RestoreFails, RollingBack, Busy
    <2>2. call' \in Call /\ call'.b = call.b /\ call'.todo \subseteq call.todo
      BY <1>7, CallTypes DEF RestoreFails
    <2> QED
      BY <1>7, <1>a, <2>1, <2>2 DEF RestoreFails, TypeOK, disk, tables
  <1>8. ASSUME NEW i \in call.todo, RestoreDone(i) PROVE TypeOK'
    <2>1. Busy
      BY <1>8 DEF RestoreDone, RollingBack, Busy
    <2>2. [row(i) EXCEPT !.status = "rolled_back"] \in Row
      BY <2>1, RowType DEF Row
    <2>3. /\ rows' \in [Batches -> Seq(Row)]
          /\ DOMAIN rows'[call.b] = DOMAIN rows[call.b]
      BY <1>8, <2>1, <2>2, MarkTypes DEF RestoreDone
    <2>4. call' \in Call /\ call'.b = call.b /\ call'.todo \subseteq call.todo
      BY <1>8, CallTypes DEF RestoreDone
    <2> QED
      BY <1>8, <1>a, <2>1, <2>3, <2>4 DEF RestoreDone, TypeOK, disk
  <1>9. CASE ExecuteEnds
    <2>1. call' \in Call /\ ~Busy'
      BY <1>9, <1>a, CallTypes DEF ExecuteEnds, Busy
    <2>2. status' \in [Batches -> BatchStatus]
      BY <1>9, <1>a DEF ExecuteEnds, Outcome, BatchStatus
    <2> QED
      BY <1>9, <1>a, <2>1, <2>2 DEF ExecuteEnds, TypeOK, disk
  <1>10. CASE RollbackEnds
    <2>1. call' \in Call /\ ~Busy'
      BY <1>10, <1>a, CallTypes DEF RollbackEnds, Busy
    <2>2. status' \in [Batches -> BatchStatus]
      BY <1>10, <1>a DEF RollbackEnds, BatchStatus
    <2> QED
      BY <1>10, <1>a, <2>1, <2>2 DEF RollbackEnds, TypeOK, disk
  <1>11. ASSUME NEW b \in Batches, Preview(b) PROVE TypeOK'
    <2>1. call' = call /\ ~Busy /\ ~Busy'
      BY <1>11 DEF Preview, Busy
    <2>2. status' \in [Batches -> BatchStatus]
      BY <1>11, <1>a DEF Preview, BatchStatus
    <2> QED
      BY <1>11, <1>a, <2>1, <2>2, PreviewTypes DEF Preview, TypeOK, disk
  <1>12. ASSUME NEW b \in Batches, Execute(b) PROVE TypeOK'
    <2>1. RowsIn(b, "matched") \subseteq DOMAIN rows[b] /\ DOMAIN rows[b] \subseteq Nat
      BY <1>a DEF RowsIn
    <2>2. /\ call' \in Call /\ call'.b = b
          /\ call'.todo \subseteq DOMAIN rows[b]
      BY <1>12, <2>1 DEF Execute, Begin, Idle, Call
    <2>3. status' \in [Batches -> BatchStatus]
      BY <1>12, <1>a DEF Execute, BatchStatus
    <2> QED
      BY <1>12, <1>a, <2>2, <2>3 DEF Execute, TypeOK, disk
  <1>13. ASSUME NEW b \in Batches, ExecuteOperations(b) PROVE TypeOK'
    <2>1. status' \in [Batches -> BatchStatus]
      BY <1>13, <1>a DEF ExecuteOperations, BatchStatus
    <2> QED
      BY <1>13, <1>a, <2>1, OperationTypes DEF ExecuteOperations, TypeOK, disk
  <1>14. ASSUME NEW b \in Batches, Rollback(b) PROVE TypeOK'
    <2>1. RowsIn(b, "success") \subseteq DOMAIN rows[b] /\ DOMAIN rows[b] \subseteq Nat
      BY <1>a DEF RowsIn
    <2>2. /\ call' \in Call /\ call'.b = b
          /\ call'.todo \subseteq DOMAIN rows[b]
      BY <1>14, <2>1 DEF Rollback, Begin, Idle, Call
    <2> QED
      BY <1>14, <1>a, <2>2 DEF Rollback, TypeOK, disk, tables
  <1>15. CASE Crash
    <2>1. call' \in Call /\ ~Busy'
      BY <1>15, <1>a, CallTypes DEF Crash, Busy
    <2> QED
      BY <1>15, <1>a, <2>1 DEF Crash, TypeOK, disk, tables
  <1>16. ASSUME NEW f \in Files, Arrive(f) PROVE TypeOK'
    <2>1. video' \in [Stem -> Content] /\ seen' \subseteq Files
      BY <1>16, <1>a DEF Arrive, Content
    <2>2. call' = call /\ (Busy' <=> Busy)
      BY <1>16 DEF Arrive, Busy
    <2> QED
      BY <1>16, <1>a, <2>1, <2>2 DEF Arrive, TypeOK, tables
  <1>17. CASE \E i \in call.todo : RowStep(i)
    BY <1>17, <1>1, <1>2, <1>3, <1>4, <1>5, <1>6, <1>7, <1>8 DEF RowStep
  <1> QED
    BY <1>0, <1>9, <1>10, <1>11, <1>12, <1>13, <1>14, <1>15, <1>16, <1>17
       DEF Next, Step

-----------------------------------------------------------------------------
(* At the start what has been on disk is what is there.                     *)
LEMMA InitKept == Init => VideosKept
  BY DEF Init, VideosKept

(* Only three actions write video files.  Two of them move one to a free    *)
(* stem, and the third adds one on a free stem.                             *)
LEMMA StepKept == TypeOK /\ VideosKept /\ [Next]_vars => VideosKept'
  <1> SUFFICES ASSUME TypeOK, VideosKept, [Next]_vars PROVE VideosKept'
    OBVIOUS
  <1>a. /\ video \in [Stem -> Content]
        /\ seen \subseteq Files
    BY DEF TypeOK
  <1>1. ASSUME NEW i \in call.todo, MoveVideo(i) PROVE VideosKept'
    <2>1. Busy
      BY <1>1 DEF MoveVideo, Executing, Busy
    <2>2. PICK s \in Stem :
            /\ IsFinal(s, row(i).new)
            /\ video' = Shift(video, row(i).orig, s)
      BY <1>1 DEF MoveVideo
    <2>3. row(i).orig \in Stem
      BY <2>1, RowType DEF Row
    <2>4. video[row(i).orig] # NoFile /\ video[s] = NoFile
      BY <1>1, <2>2 DEF MoveVideo, IsFinal
    <2>5. seen' = seen
      BY <1>1 DEF MoveVideo
    <2> QED
      BY <1>a, <2>2, <2>3, <2>4, <2>5, ShiftKeeps DEF VideosKept
  <1>2. ASSUME NEW i \in call.todo, RestoreVideo(i) PROVE VideosKept'
    <2>1. Busy
      BY <1>2 DEF RestoreVideo, RollingBack, Busy
    <2>2. row(i).orig \in Stem /\ row(i).new \in Stem
      BY <2>1, RowType DEF Row
    <2>3. video[row(i).new] # NoFile /\ video[row(i).orig] = NoFile
      BY <1>2 DEF RestoreVideo, CanRestore
    <2>4. seen' = seen /\ video' = Shift(video, row(i).new, row(i).orig)
      BY <1>2 DEF RestoreVideo
    <2> QED
      BY <1>a, <2>2, <2>3, <2>4, ShiftKeeps DEF VideosKept
  <1>3. ASSUME NEW f \in Files, Arrive(f) PROVE VideosKept'
    <2>1. PICK s \in Stem : video[s] = NoFile /\ video' = [video EXCEPT ![s] = f]
      BY <1>3 DEF Arrive
    <2>2. video'[s] = f /\ \A t \in Stem \ {s} : video'[t] = video[t]
      BY <1>a, <2>1
    <2>3. ASSUME NEW g \in seen PROVE \E t \in Stem : video'[t] = g
      <3>1. PICK t \in Stem : video[t] = g
        BY DEF VideosKept
      <3>2. t # s
        BY <1>a, <2>1, <3>1, RenameAssumption
      <3> QED
        BY <2>2, <3>1, <3>2
    <2> QED
      BY <1>3, <2>2, <2>3 DEF Arrive, VideosKept
  <1>4. CASE UNCHANGED <<video, seen>>
    BY <1>4 DEF VideosKept
  <1>5. ASSUME NEW i \in call.todo, RowStep(i) PROVE VideosKept'
    BY <1>5, <1>1, <1>2, <1>4
       DEF RowStep, MoveFails, MoveDone, RestoreFails, RestoreDone,
           MoveSidecar, RestoreSidecar, disk
  <1>6. CASE ExecuteEnds \/ RollbackEnds \/ Crash
    BY <1>6, <1>4 DEF ExecuteEnds, RollbackEnds, Crash, disk
  <1>7. ASSUME NEW b \in Batches,
               Preview(b) \/ Execute(b) \/ ExecuteOperations(b) \/ Rollback(b)
        PROVE  VideosKept'
    BY <1>7, <1>4 DEF Preview, Execute, ExecuteOperations, Rollback, disk
  <1>8. CASE UNCHANGED vars
    BY <1>8, <1>4 DEF vars
  <1> QED
    BY <1>3, <1>5, <1>6, <1>7, <1>8 DEF Next, Step

(* Every table, file and call keeps its type, whatever execute and rollback *)
(* do to the batches.                                                       *)
THEOREM RenameTypes == Spec => []TypeOK
  BY InitTypes, StepTypes, PTL DEF Spec

(* No video is lost: execute moves a video to a stem where there is none,   *)
(* rollback puts one back where there is none, and nothing else writes.     *)
THEOREM VideosSafe == Spec => []VideosKept
  <1>1. Spec => [](TypeOK /\ VideosKept)
    BY InitTypes, StepTypes, InitKept, StepKept, PTL DEF Spec
  <1> QED
    BY <1>1, PTL
-----------------------------------------------------------------------------
(* The inductive invariant of OwnFilesBack, of the one batch there is.      *)
Alone == \A b, c \in Batches : b = c

(* No content is at two stems, and none was there before it was seen.       *)
Unique ==
    /\ \A s, t \in Stem : video[s] = video[t] /\ video[s] # NoFile => s = t
    /\ \A s \in Stem : video[s] \in seen \cup {NoFile}

(* The rows of a batch are about different files.                           *)
OrigsApart ==
    \A b \in Batches : \A i, j \in DOMAIN rows[b] :
        rows[b][i].orig = rows[b][j].orig => i = j

(* The row whose video execute has moved and whose related files it moves.  *)
Moving == {i \in call.todo : call.kind = "execute" /\ call.moved /\ Current(i)}

(* The rows whose videos execute has moved, and those it may still move.    *)
Out     == Done(call.b) \cup Restored(call.b) \cup Moving
Waiting == {j \in DOMAIN rows[call.b] :
               \/ status[call.b] = "previewing"
               \/ call.kind = "execute" /\ j \in call.todo \ Moving}

(* Which rows a call takes.                                                 *)
Phases ==
    /\ status[call.b] \in {"none", "previewing"} =>
          Done(call.b) \cup Restored(call.b) = {}
    /\ call.kind = "execute" =>
          /\ status[call.b] = "executing"
          /\ call.todo \cap (Done(call.b) \cup Restored(call.b)) = {}
    /\ call.kind = "rollback" => call.todo \subseteq Done(call.b)

(* What waits is where it was found, and nothing has been moved there.      *)
Waits ==
    \A j \in Waiting :
        /\ video[row(j).orig] # NoFile
        /\ \A k \in Out : k # j /\ row(k).at # row(j).orig

(* What has been moved is where it went, or back; and what has been put     *)
(* back is what was moved.                                                  *)
Placed ==
    /\ \A k \in Out : /\ row(k).was # NoFile
                      /\ \/ video[row(k).at] = row(k).was
                         \/ video[row(k).orig] = row(k).was
    /\ \A k, l \in Out : row(k).was = row(l).was => k = l
    /\ \A k \in Restored(call.b) : row(k).back = row(k).was
    /\ call.kind = "rollback" /\ call.moved =>
          \A k \in call.todo : Latest(k) => row(k).back = row(k).was

IInv == /\ TypeOK /\ Unique /\ OrigsApart /\ Phases /\ Waits
        /\ AsPlanned(call.b) => Placed

(* A move to a free stem brings no content twice and none that is new.      *)
LEMMA ShiftUnique ==
    ASSUME NEW f \in [Stem -> Content], NEW from \in Stem, NEW to \in Stem,
           f[from] # NoFile, f[to] = NoFile,
           \A s, t \in Stem : f[s] = f[t] /\ f[s] # NoFile => s = t
    PROVE  /\ \A s, t \in Stem :
                  /\ Shift(f, from, to)[s] = Shift(f, from, to)[t]
                  /\ Shift(f, from, to)[s] # NoFile
                  => s = t
           /\ \A s \in Stem : \/ Shift(f, from, to)[s] = NoFile
                              \/ \E t \in Stem : Shift(f, from, to)[s] = f[t]
  <1> DEFINE g == Shift(f, from, to)
  <1>1. /\ from # to
        /\ g[to] = f[from] /\ g[from] = NoFile
        /\ \A s \in Stem \ {from, to} : g[s] = f[s]
    BY DEF Shift, Content
  <1> HIDE DEF g
  <1>2. ASSUME NEW s \in Stem, NEW t \in Stem, g[s] = g[t], g[s] # NoFile
        PROVE  s = t
    <2>1. s # from /\ t # from
      BY <1>1, <1>2
    <2>2. CASE s = to
      BY <1>1, <1>2, <2>1, <2>2
    <2>3. CASE t = to
      BY <1>1, <1>2, <2>1, <2>3
    <2>4. CASE s # to /\ t # to
      BY <1>1, <1>2, <2>1, <2>4
    <2> QED
      BY <2>2, <2>3, <2>4
  <1>3. \A s \in Stem : g[s] = NoFile \/ \E t \in Stem : g[s] = f[t]
    BY <1>1
  <1> QED
    BY <1>2, <1>3 DEF g

(* No content is twice on disk, through moves and new files.                *)
LEMMA StepUnique == TypeOK /\ Unique /\ [Next]_vars => Unique'
  <1> SUFFICES ASSUME TypeOK, Unique, [Next]_vars PROVE Unique'
    OBVIOUS
  <1>a. video \in [Stem -> Content]
    BY DEF TypeOK
  <1>1. ASSUME NEW i \in call.todo, MoveVideo(i) PROVE Unique'
    <2>1. Busy
      BY <1>1 DEF MoveVideo, Executing, Busy
    <2>2. PICK s \in Stem :
            /\ IsFinal(s, row(i).new)
            /\ video' = Shift(video, row(i).orig, s)
      BY <1>1 DEF MoveVideo
    <2>3. row(i).orig \in Stem
      BY <2>1, RowType DEF Row
    <2>4. /\ video[row(i).orig] # NoFile /\ video[s] = NoFile
          /\ seen' = seen
      BY <1>1, <2>2 DEF MoveVideo, IsFinal
    <2> QED
      BY <1>a, <2>2, <2>3, <2>4, ShiftUnique DEF Unique
  <1>2. ASSUME NEW i \in call.todo, RestoreVideo(i) PROVE Unique'
    <2>1. Busy
      BY <1>2 DEF RestoreVideo, RollingBack, Busy
    <2>2. row(i).orig \in Stem /\ row(i).new \in Stem
      BY <2>1, RowType DEF Row
    <2>3. /\ video[row(i).new] # NoFile /\ video[row(i).orig] = NoFile
          /\ seen' = seen /\ video' = Shift(video, row(i).new, row(i).orig)
      BY <1>2 DEF RestoreVideo, CanRestore
    <2> QED
      BY <1>a, <2>2, <2>3, ShiftUnique DEF Unique
  <1>3. ASSUME NEW f \in Files, Arrive(f) PROVE Unique'
    <2>1. PICK s \in Stem : video[s] = NoFile /\ video' = [video EXCEPT ![s] = f]
      BY <1>3 DEF Arrive
    <2>2. /\ video'[s] = f /\ \A t \in Stem \ {s} : video'[t] = video[t]
          /\ f \notin seen /\ seen' = seen \cup {f} /\ f # NoFile
      BY <1>3, <1>a, <2>1, RenameAssumption DEF Arrive
    <2> QED
      BY <2>2 DEF Unique
  <1>4. CASE UNCHANGED <<video, seen>>
    BY <1>4 DEF Unique
  <1>5. ASSUME NEW i \in call.todo, RowStep(i) PROVE Unique'
    BY <1>5, <1>1, <1>2, <1>4
       DEF RowStep, MoveFails, MoveDone, RestoreFails, RestoreDone,
           MoveSidecar, RestoreSidecar, disk
  <1>6. CASE ExecuteEnds \/ RollbackEnds \/ Crash
    BY <1>6, <1>4 DEF ExecuteEnds, RollbackEnds, Crash, disk
  <1>7. ASSUME NEW b \in Batches,
               Preview(b) \/ Execute(b) \/ ExecuteOperations(b) \/ Rollback(b)
        PROVE  Unique'
    BY <1>7, <1>4 DEF Preview, Execute, ExecuteOperations, Rollback, disk
  <1>8. CASE UNCHANGED vars
    BY <1>8, <1>4 DEF vars
  <1> QED
    BY <1>3, <1>5, <1>6, <1>7, <1>8 DEF Next, Step

(* The row at hand becomes the new one, every other row stays.              *)
LEMMA MarkRow ==
    ASSUME TypeOK, Busy, NEW i \in call.todo, NEW new \in Row, Mark(i, new)
    PROVE  /\ i \in DOMAIN rows[call.b]
           /\ rows'[call.b][i] = new
           /\ \A j \in DOMAIN rows[call.b] \ {i} :
                  rows'[call.b][j] = rows[call.b][j]
           /\ DOMAIN rows'[call.b] = DOMAIN rows[call.b]
           /\ \A c \in Batches \ {call.b} : rows'[c] = rows[c]
  <1>1. /\ rows \in [Batches -> Seq(Row)]
        /\ call.b \in Batches
        /\ i \in DOMAIN rows[call.b]
    BY DEF TypeOK, Call
  <1>2. rows' = [rows EXCEPT ![call.b] = [rows[call.b] EXCEPT ![i] = new]]
    BY <1>1 DEF Mark
  <1> QED
    BY <1>1, <1>2

(* preview lists each file once, where it is.                               *)
LEMMA PreviewRows ==
    ASSUME TypeOK, NEW b \in Batches, Preview(b)
    PROVE  /\ \A i, j \in DOMAIN rows'[b] :
                  rows'[b][i].orig = rows'[b][j].orig => i = j
           /\ \A i \in DOMAIN rows'[b] :
                  /\ video[rows'[b][i].orig] # NoFile
                  /\ rows'[b][i].status \in {"matched", "needs_confirmation"}
           /\ \A c \in Batches \ {b} : rows'[c] = rows[c]
  <1>1. PICK parsed \in SUBSET Found :
          \E order \in SetToSeqs(parsed), new \in [parsed -> Names],
             state \in [parsed -> {"matched", "needs_confirmation"}] :
             rows' = [rows EXCEPT ![b] = [i \in DOMAIN order |->
                 PlannedRow(order[i], new[order[i]], state[order[i]])]]
    BY DEF Preview
  <1>2. PICK order \in SetToSeqs(parsed), new \in [parsed -> Names],
             state \in [parsed -> {"matched", "needs_confirmation"}] :
             rows' = [rows EXCEPT ![b] = [i \in DOMAIN order |->
                 PlannedRow(order[i], new[order[i]], state[order[i]])]]
    BY <1>1
  <1>3. /\ order \in [1 .. Cardinality(parsed) -> parsed]
        /\ \A i, j \in DOMAIN order : i # j => order[i] # order[j]
    BY DEF SetToSeqs
  <1>4. /\ rows'[b] = [i \in DOMAIN order |->
                 PlannedRow(order[i], new[order[i]], state[order[i]])]
        /\ \A c \in Batches \ {b} : rows'[c] = rows[c]
    BY <1>2 DEF TypeOK
  <1>5. \A i \in DOMAIN order : /\ order[i] \in parsed
                                /\ video[order[i]] # NoFile
                                /\ state[order[i]] \in {"matched", "needs_confirmation"}
    BY <1>3 DEF Found
  <1> QED
    BY <1>3, <1>4, <1>5 DEF PlannedRow

(* Operations leave each row its original path, and set no row to done.     *)
LEMMA OperationRows ==
    ASSUME TypeOK, NEW b \in Batches, ExecuteOperations(b)
    PROVE  /\ DOMAIN rows'[b] = DOMAIN rows[b]
           /\ \A i \in DOMAIN rows[b] :
                  /\ rows'[b][i].orig = rows[b][i].orig
                  /\ rows'[b][i].status \in {"matched", rows[b][i].status}
           /\ \A c \in Batches \ {b} : rows'[c] = rows[c]
  <1>1. PICK picked \in SUBSET DOMAIN rows[b] : \E name \in [picked -> Names] :
          rows' = [rows EXCEPT ![b] = [i \in DOMAIN rows[b] |->
                IF i \in picked
                THEN [rows[b][i] EXCEPT !.new = Plain(name[i]), !.status = "matched"]
                ELSE rows[b][i]]]
    BY DEF ExecuteOperations
  <1>2. PICK name \in [picked -> Names] :
          rows' = [rows EXCEPT ![b] = [i \in DOMAIN rows[b] |->
                IF i \in picked
                THEN [rows[b][i] EXCEPT !.new = Plain(name[i]), !.status = "matched"]
                ELSE rows[b][i]]]
    BY <1>1
  <1>3. /\ rows'[b] = [i \in DOMAIN rows[b] |->
                IF i \in picked
                THEN [rows[b][i] EXCEPT !.new = Plain(name[i]), !.status = "matched"]
                ELSE rows[b][i]]
        /\ \A c \in Batches \ {b} : rows'[c] = rows[c]
    BY <1>2 DEF TypeOK
  <1>4. ASSUME NEW i \in DOMAIN rows[b]
        PROVE  /\ rows'[b][i].orig = rows[b][i].orig
               /\ rows'[b][i].status \in {"matched", rows[b][i].status}
    <2>1. rows[b][i] \in Row
      BY DEF TypeOK
    <2>2. CASE i \in picked
      <3>1. rows'[b][i] = [rows[b][i] EXCEPT !.new = Plain(name[i]), !.status = "matched"]
        BY <1>3, <2>2
      <3> QED
        BY <2>1, <3>1 DEF Row
    <2>3. CASE i \notin picked
      BY <1>3, <2>3
    <2> QED
      BY <2>2, <2>3
  <1> QED
    BY <1>3, <1>4

(* Rows of a batch stay about different files.                              *)
LEMMA StepOrigs == TypeOK /\ OrigsApart /\ [Next]_vars => OrigsApart'
  <1> SUFFICES ASSUME TypeOK, OrigsApart, [Next]_vars PROVE OrigsApart'
    OBVIOUS
  <1>1. CASE UNCHANGED rows
    BY <1>1 DEF OrigsApart
  <1>2. ASSUME Busy, NEW i \in call.todo, NEW new \in Row, Mark(i, new),
               new.orig = row(i).orig
        PROVE  OrigsApart'
    <2>1. /\ DOMAIN rows'[call.b] = DOMAIN rows[call.b]
          /\ \A j \in DOMAIN rows[call.b] : rows'[call.b][j].orig = rows[call.b][j].orig
          /\ \A c \in Batches \ {call.b} : rows'[c] = rows[c]
      BY <1>2, MarkRow DEF row
    <2> QED
      BY <2>1 DEF OrigsApart
  <1>3. ASSUME NEW i \in call.todo, RowStep(i) PROVE OrigsApart'
    <2>1. CASE UNCHANGED rows
      BY <2>1, <1>1
    <2>2. Busy
      BY <1>3 DEF RowStep, MoveVideo, MoveFails, MoveDone, RestoreVideo, RestoreFails,
                  RestoreDone, MoveSidecar, RestoreSidecar, Executing, RollingBack, Busy
    <2>3. row(i) \in Row /\ video \in [Stem -> Content]
      BY <2>2, RowType DEF TypeOK
    <2>4. CASE MoveVideo(i)
      <3>1. PICK s \in Stem :
              Mark(i, [row(i) EXCEPT !.was = video[row(i).orig], !.at = s])
        BY <2>4 DEF MoveVideo
      <3> QED
        BY <3>1, <2>2, <2>3, <1>2 DEF Row
    <2>5. CASE RestoreVideo(i)
      BY <2>5, <2>2, <2>3, <1>2 DEF RestoreVideo, Row
    <2>6. CASE MoveFails(i)
      BY <2>6, <2>2, <2>3, <1>2 DEF MoveFails, Row
    <2>7. CASE MoveDone(i)
      BY <2>7, <2>2, <2>3, <1>2 DEF MoveDone, Row
    <2>8. CASE RestoreDone(i)
      BY <2>8, <2>2, <2>3, <1>2 DEF RestoreDone, Row
    <2> QED
      BY <1>3, <2>1, <2>4, <2>5, <2>6, <2>7, <2>8
         DEF RowStep, RestoreFails, MoveSidecar, RestoreSidecar, tables
  <1>4. ASSUME NEW b \in Batches, Preview(b) PROVE OrigsApart'
    BY <1>4, PreviewRows DEF OrigsApart
  <1>5. ASSUME NEW b \in Batches, ExecuteOperations(b) PROVE OrigsApart'
    BY <1>5, OperationRows DEF OrigsApart
  <1> QED
    BY <1>1, <1>3, <1>4, <1>5
       DEF Next, Step, ExecuteEnds, RollbackEnds, Execute, Rollback, Crash, Arrive,
           tables, vars

-----------------------------------------------------------------------------
(* A step that moves no video, and of a row changes the status at most.     *)
Restated ==
    \A k \in DOMAIN rows[call.b] :
        rows'[call.b][k] = [rows[call.b][k] EXCEPT !.status = rows'[call.b][k].status]

Steady ==
    /\ video' = video
    /\ call'.b = call.b
    /\ DOMAIN rows'[call.b] = DOMAIN rows[call.b] /\ Restated
    /\ Out' \subseteq Out
    /\ Waiting' \subseteq Waiting
    /\ Done(call.b) \cup Restored(call.b) \subseteq (Done(call.b) \cup Restored(call.b))'
    /\ call'.kind = "rollback" /\ call'.moved =>
          call.kind = "rollback" /\ call.moved /\ call'.todo = call.todo
    /\ \A k \in Restored(call.b)' \ Restored(call.b) :
          call.kind = "rollback" /\ call.moved /\ k \in call.todo /\ Latest(k)

(* Sets of rows are sets of indices of rows.                                *)
LEMMA OutRows ==
    ASSUME TypeOK
    PROVE  /\ call.b \in Batches
           /\ \A k \in DOMAIN rows[call.b] : row(k) \in Row
           /\ Out \subseteq DOMAIN rows[call.b]
           /\ Waiting \subseteq DOMAIN rows[call.b]
           /\ Restored(call.b) \subseteq Out
           /\ Done(call.b) \subseteq Out
  BY DEF TypeOK, Call, Busy, Out, Waiting, Moving, Done, Restored, RowsIn, row

LEMMA SteadyKeeps ==
    ASSUME TypeOK, TypeOK', Waits, AsPlanned(call.b) => Placed, Steady
    PROVE  /\ Waits'
           /\ AsPlanned(call.b)' => Placed'
  <1> DEFINE r(k) == rows[call.b][k]
             q(k) == rows'[call.b][k]
  <1>1. \A k \in DOMAIN rows[call.b] :
            /\ q(k).orig = r(k).orig /\ q(k).new = r(k).new /\ q(k).at = r(k).at
            /\ q(k).was = r(k).was /\ q(k).back = r(k).back
    <2>1. \A k \in DOMAIN rows[call.b] :
              /\ r(k) \in Row
              /\ q(k) = [r(k) EXCEPT !.status = q(k).status]
      BY OutRows DEF row, Steady, Restated
    <2> HIDE DEF r, q
    <2> QED
      BY <2>1 DEF Row
  <1>2. /\ \A k : row(k) = r(k)
        /\ \A k : row(k)' = q(k)
    BY DEF row, Steady
  <1> HIDE DEF r, q
  <1>3. /\ Out \subseteq DOMAIN rows[call.b] /\ Waiting \subseteq DOMAIN rows[call.b]
        /\ Restored(call.b) \subseteq Out
        /\ Out' \subseteq Out /\ Waiting' \subseteq Waiting
        /\ video' = video
    BY OutRows DEF Steady
  <1>4. Waits'
    <2>1. ASSUME NEW j \in Waiting'
          PROVE  /\ video'[q(j).orig] # NoFile
                 /\ \A k \in Out' : k # j /\ q(k).at # q(j).orig
      <3>1. j \in Waiting /\ j \in DOMAIN rows[call.b]
        BY <1>3
      <3>2. /\ video[r(j).orig] # NoFile
            /\ \A k \in Out : k # j /\ r(k).at # r(j).orig
        BY <3>1, <1>2 DEF Waits
      <3> QED
        BY <1>1, <1>3, <3>1, <3>2
    <2> QED
      BY <1>2, <2>1 DEF Waits
  <1>5. ASSUME AsPlanned(call.b)' PROVE Placed'
    <2>1. AsPlanned(call.b)
      <3>1. \A i \in Done(call.b) \cup Restored(call.b) :
                /\ i \in DOMAIN rows[call.b]
                /\ q(i).at = q(i).new
        <4>1. \A i \in (Done(call.b) \cup Restored(call.b))' : q(i).at = q(i).new
          BY <1>5 DEF AsPlanned, q, Steady
        <4> QED
          BY <4>1, OutRows DEF Steady
      <3> QED
        BY <1>1, <3>1 DEF AsPlanned, r
    <2>2. Placed
      BY <2>1
    <2>3. /\ \A k \in Out : /\ r(k).was # NoFile
                            /\ \/ video[r(k).at] = r(k).was
                               \/ video[r(k).orig] = r(k).was
          /\ \A k, l \in Out : r(k).was = r(l).was => k = l
          /\ \A k \in Restored(call.b) : r(k).back = r(k).was
          /\ call.kind = "rollback" /\ call.moved =>
                \A k \in call.todo : Latest(k) => r(k).back = r(k).was
      BY <1>2, <2>2 DEF Placed
    <2>4. \A k \in Out' : /\ q(k).was # NoFile
                          /\ \/ video'[q(k).at] = q(k).was
                             \/ video'[q(k).orig] = q(k).was
      BY <1>1, <1>3, <2>3
    <2>5. \A k, l \in Out' : q(k).was = q(l).was => k = l
      BY <1>1, <1>3, <2>3
    <2>6. ASSUME NEW k \in Restored(call.b)' PROVE q(k).back = q(k).was
      <3>1. k \in Out'
        BY <2>6 DEF Out, Steady
      <3>2. r(k).back = r(k).was
        BY <2>3 DEF Steady
      <3> QED
        BY <1>1, <1>3, <3>1, <3>2
    <2>7. ASSUME call'.kind = "rollback", call'.moved, NEW k \in call'.todo, Latest(k)'
          PROVE  q(k).back = q(k).was
      <3>1. /\ call.kind = "rollback" /\ call.moved /\ k \in call.todo
            /\ Latest(k)
        BY <2>7 DEF Steady, Latest
      <3>2. k \in DOMAIN rows[call.b]
        BY <3>1 DEF TypeOK, Busy
      <3> QED
        BY <1>1, <2>3, <3>1, <3>2
    <2> QED
      BY <1>2, <2>4, <2>5, <2>6, <2>7 DEF Placed
  <1> QED
    BY <1>4, <1>5

(* What becomes of the rows that succeeded and of those rolled back.        *)
LEMMA MarkSets ==
    ASSUME TypeOK, Busy, NEW i \in call.todo, NEW new \in Row, Mark(i, new),
           call'.b = call.b
    PROVE  /\ Done(call.b)' = IF new.status = "success" THEN Done(call.b) \cup {i}
                              ELSE Done(call.b) \ {i}
           /\ Restored(call.b)' = IF new.status = "rolled_back"
                                  THEN Restored(call.b) \cup {i}
                                  ELSE Restored(call.b) \ {i}
  BY MarkRow DEF Done, Restored, RowsIn

(* A new status alone restates the row.                                     *)
LEMMA MarkRestates ==
    ASSUME TypeOK, Busy, NEW i \in call.todo, NEW new \in Row, Mark(i, new),
           new = [row(i) EXCEPT !.status = new.status]
    PROVE  Restated
  BY MarkRow, OutRows DEF Restated, row, Row

LEMMA SameRows ==
    ASSUME TypeOK, UNCHANGED rows, call'.b = call.b
    PROVE  /\ DOMAIN rows'[call.b] = DOMAIN rows[call.b] /\ Restated
           /\ Done(call.b)' = Done(call.b) /\ Restored(call.b)' = Restored(call.b)
  <1>1. \A k \in DOMAIN rows[call.b] : rows[call.b][k] \in Row
    BY OutRows DEF row
  <1>2. Restated
    BY <1>1 DEF Restated, Row
  <1> QED
    BY <1>2 DEF Done, Restored, RowsIn

(* There is one current row, and one latest.                                *)
LEMMA OneAtATime ==
    ASSUME TypeOK, Busy, NEW i \in call.todo, NEW j \in call.todo
    PROVE  /\ Current(i) /\ Current(j) => i = j
           /\ Latest(i) /\ Latest(j) => i = j
  <1>1. i \in Nat /\ j \in Nat
    BY DEF TypeOK, Call
  <1> QED
    BY <1>1 DEF Current, Latest

(* The steps of execute that move no video.                                 *)
LEMMA ExecuteSteady ==
    ASSUME TypeOK, Phases, NEW i \in call.todo,
           \/ MoveFails(i) \/ MoveDone(i)
           \/ \E e \in Sidecars : MoveSidecar(i, e)
    PROVE  Steady /\ Phases'
  <1>1. /\ Busy /\ call.kind = "execute" /\ Current(i)
        /\ call.b \in Batches /\ call \in Call
        /\ row(i) \in Row
    BY RowType DEF MoveFails, MoveDone, MoveSidecar, Executing, Busy, TypeOK, Call
  <1>2. /\ i \notin Done(call.b) /\ i \notin Restored(call.b)
        /\ status[call.b] = "executing"
        /\ call.todo \cap (Done(call.b) \cup Restored(call.b)) = {}
    BY <1>1 DEF Phases
  <1>3. ASSUME NEW e \in Sidecars, MoveSidecar(i, e) PROVE Steady /\ Phases'
    <2>1. /\ video' = video /\ rows' = rows /\ status' = status
          /\ call'.b = call.b /\ call'.todo = call.todo
          /\ call'.kind = call.kind /\ call'.moved = call.moved
      BY <1>1, <1>3 DEF MoveSidecar, tables, Call
    <2>2. Moving' = Moving
      BY <2>1 DEF Moving, Current
    <2>3. /\ Done(call.b)' = Done(call.b) /\ Restored(call.b)' = Restored(call.b)
          /\ DOMAIN rows'[call.b] = DOMAIN rows[call.b] /\ Restated
      BY <2>1, SameRows
    <2>4. Out' = Out /\ Waiting' = Waiting
      BY <2>1, <2>2, <2>3 DEF Out, Waiting
    <2>5. Steady
      BY <1>1, <2>1, <2>3, <2>4 DEF Steady
    <2> QED
      BY <1>1, <1>2, <2>1, <2>3, <2>5 DEF Phases
  <1>4. ASSUME NEW s \in {"success", "failed"}, NEW bad \in BOOLEAN,
               Mark(i, [row(i) EXCEPT !.status = s]),
               call' = NextRow(i, bad), UNCHANGED <<disk, status, seen>>,
               s = "success" => call.moved
        PROVE  Steady /\ Phases'
    <2> DEFINE new == [row(i) EXCEPT !.status = s]
    <2>1. new \in Row /\ new.status = s
      BY <1>1 DEF Row
    <2>2. /\ call'.b = call.b /\ call'.kind = "execute"
          /\ call'.todo = call.todo \ {i} /\ call'.moved = FALSE
          /\ video' = video /\ status' = status
      BY <1>1, <1>4 DEF NextRow, Call, disk
    <2>3. Mark(i, new) /\ new = [row(i) EXCEPT !.status = new.status]
      BY <1>4, <2>1
    <2> HIDE DEF new
    <2>4. /\ Restated
          /\ DOMAIN rows'[call.b] = DOMAIN rows[call.b]
          /\ Done(call.b)' = IF s = "success" THEN Done(call.b) \cup {i}
                             ELSE Done(call.b)
          /\ Restored(call.b)' = Restored(call.b)
      <3>1. /\ Restated /\ DOMAIN rows'[call.b] = DOMAIN rows[call.b]
        BY <1>1, <2>1, <2>3, MarkRestates, MarkRow
      <3>2. /\ Done(call.b)' = IF s = "success" THEN Done(call.b) \cup {i}
                               ELSE Done(call.b) \ {i}
            /\ Restored(call.b)' = Restored(call.b) \ {i}
        BY <1>1, <2>1, <2>2, <2>3, MarkSets
      <3> QED
        BY <1>2, <3>1, <3>2
    <2>5. Moving' = {} /\ (call.moved => i \in Moving) /\ Moving \subseteq {i}
      BY <1>1, <2>2, OneAtATime DEF Moving
    <2>6. Out' \subseteq Out
      BY <1>4, <2>4, <2>5 DEF Out
    <2>7. Waiting' \subseteq Waiting
      BY <1>1, <1>2, <2>2, <2>4, <2>5 DEF Waiting
    <2>8. Steady
      BY <1>1, <2>2, <2>4, <2>6, <2>7 DEF Steady
    <2> QED
      BY <1>2, <2>2, <2>4, <2>8 DEF Phases
  <1>5. CASE MoveFails(i)
    BY <1>4, <1>5 DEF MoveFails
  <1>6. CASE MoveDone(i)
    BY <1>4, <1>6 DEF MoveDone
  <1> QED
    BY <1>3, <1>5, <1>6

(* The steps of rollback that move no video.                                *)
LEMMA RollbackSteady ==
    ASSUME TypeOK, Phases, NEW i \in call.todo,
           \/ RestoreFails(i) \/ RestoreDone(i)
           \/ \E e \in Sidecars : RestoreSidecar(i, e)
    PROVE  Steady /\ Phases'
  <1>1. /\ Busy /\ call.kind = "rollback" /\ Latest(i)
        /\ call.b \in Batches /\ call \in Call
        /\ row(i) \in Row
    BY RowType DEF RestoreFails, RestoreDone, RestoreSidecar, RollingBack, Busy,
                   TypeOK, Call
  <1>2. i \in Done(call.b) /\ call.todo \subseteq Done(call.b)
    BY <1>1 DEF Phases
  <1>3. /\ video' = video /\ status' = status
        /\ call'.b = call.b /\ call'.kind = "rollback"
        /\ call'.todo \subseteq call.todo
        /\ call'.moved => call.moved /\ call'.todo = call.todo
    <2>1. CASE RestoreFails(i)
      BY <1>1, <2>1 DEF RestoreFails, NextRow, Call, disk, tables
    <2>2. CASE RestoreDone(i)
      BY <1>1, <2>2 DEF RestoreDone, NextRow, Call, disk
    <2>3. CASE \E e \in Sidecars : RestoreSidecar(i, e)
      BY <1>1, <2>3 DEF RestoreSidecar, Call, tables
    <2> QED
      BY <2>1, <2>2, <2>3
  <1>4. Moving = {} /\ Moving' = {}
    BY <1>1, <1>3 DEF Moving
  <1>5. CASE UNCHANGED rows
    <2>1. /\ Done(call.b)' = Done(call.b) /\ Restored(call.b)' = Restored(call.b)
          /\ DOMAIN rows'[call.b] = DOMAIN rows[call.b] /\ Restated
      BY <1>3, <1>5, SameRows
    <2>2. Out' = Out /\ Waiting' = Waiting
      BY <1>1, <1>3, <1>4, <2>1 DEF Out, Waiting
    <2>3. Steady
      BY <1>1, <1>3, <2>1, <2>2 DEF Steady
    <2> QED
      BY <1>1, <1>2, <1>3, <2>1, <2>3 DEF Phases
  <1>6. CASE RestoreDone(i)
    <2> DEFINE new == [row(i) EXCEPT !.status = "rolled_back"]
    <2>1. new \in Row /\ new.status = "rolled_back" /\ Mark(i, new)
      BY <1>1, <1>6 DEF Row, RestoreDone
    <2>2. new = [row(i) EXCEPT !.status = new.status]
      BY <2>1
    <2>3. call.moved /\ call'.todo = call.todo \ {i} /\ call'.moved = FALSE
      BY <1>1, <1>6 DEF RestoreDone, NextRow, Call
    <2> HIDE DEF new
    <2>4. /\ Restated
          /\ DOMAIN rows'[call.b] = DOMAIN rows[call.b]
      BY <1>1, <2>1, <2>2, MarkRestates, MarkRow
    <2>5. /\ Done(call.b)' = Done(call.b) \ {i}
          /\ Restored(call.b)' = Restored(call.b) \cup {i}
      BY <1>1, <1>3, <2>1, MarkSets
    <2>6. Out' \subseteq Out
      BY <1>2, <1>4, <2>5 DEF Out
    <2>7. Waiting' = Waiting
      BY <1>1, <1>3, <2>4 DEF Waiting
    <2>8. Steady
      BY <1>1, <1>2, <1>3, <2>3, <2>4, <2>5, <2>6, <2>7 DEF Steady
    <2>9. status[call.b] \notin {"none", "previewing"}
      BY <1>2 DEF Phases
    <2> QED
      BY <1>1, <1>2, <1>3, <2>3, <2>5, <2>8, <2>9 DEF Phases
  <1> QED
    BY <1>5, <1>6 DEF RestoreFails, RestoreSidecar, tables

(* The beginnings and ends of calls.                                        *)
LEMMA CallsSteady ==
    ASSUME Alone, TypeOK, Phases,
           \/ ExecuteEnds \/ RollbackEnds \/ Crash
           \/ \E b \in Batches : Execute(b) \/ Rollback(b)
           \/ UNCHANGED vars
    PROVE  Steady /\ Phases'
  <1>1. /\ call.b \in Batches /\ call \in Call
        /\ status \in [Batches -> BatchStatus]
    BY DEF TypeOK, Call
  <1>2. video' = video /\ rows' = rows
    BY DEF ExecuteEnds, RollbackEnds, Crash, Execute, Rollback, disk, tables, vars
  <1>3. CASE UNCHANGED vars
    <2>1. /\ call' = call /\ status' = status
      BY <1>3 DEF vars
    <2>2. /\ Done(call.b)' = Done(call.b) /\ Restored(call.b)' = Restored(call.b)
          /\ DOMAIN rows'[call.b] = DOMAIN rows[call.b] /\ Restated
      BY <1>2, <2>1, SameRows
    <2>3. Moving' = Moving
      BY <2>1 DEF Moving, Current
    <2>4. Out' = Out /\ Waiting' = Waiting
      BY <1>2, <2>1, <2>2, <2>3 DEF Out, Waiting
    <2> QED
      BY <1>2, <2>1, <2>2, <2>4 DEF Steady, Phases
  <1>4. CASE ExecuteEnds \/ RollbackEnds \/ Crash
    <2>1. /\ call'.b = call.b /\ call'.kind = "none"
          /\ \A b \in Batches : status'[b] = "previewing" => status[b] = "previewing"
          /\ \A b \in Batches : status'[b] = "none" => status[b] = "none"
      BY <1>1, <1>4 DEF ExecuteEnds, RollbackEnds, Crash, Idle, Outcome, tables
    <2>2. /\ Done(call.b)' = Done(call.b) /\ Restored(call.b)' = Restored(call.b)
          /\ DOMAIN rows'[call.b] = DOMAIN rows[call.b] /\ Restated
      BY <1>2, <2>1, SameRows
    <2>3. Moving' = {}
      BY <2>1 DEF Moving
    <2>4. Out' \subseteq Out /\ Waiting' \subseteq Waiting
      BY <1>1, <1>2, <2>1, <2>2, <2>3 DEF Out, Waiting
    <2> QED
      BY <1>1, <1>2, <2>1, <2>2, <2>4 DEF Steady, Phases
  <1>5. ASSUME NEW b \in Batches, Execute(b) \/ Rollback(b) PROVE Steady /\ Phases'
    <2>1. b = call.b
      BY <1>1 DEF Alone
    <2>2. /\ call'.b = call.b /\ call'.moved = FALSE /\ ~Busy
          /\ call'.kind \in {"execute", "rollback"}
          /\ call'.kind = "execute" =>
                /\ status[call.b] = "previewing" /\ status'[call.b] = "executing"
                /\ call'.todo = RowsIn(call.b, "matched")
          /\ call'.kind = "rollback" =>
                status' = status /\ call'.todo = Done(call.b)
      BY <1>1, <1>5, <2>1 DEF Execute, Rollback, Begin, Idle, tables, Done
    <2>3. /\ Done(call.b)' = Done(call.b) /\ Restored(call.b)' = Restored(call.b)
          /\ DOMAIN rows'[call.b] = DOMAIN rows[call.b] /\ Restated
      BY <1>2, <2>2, SameRows
    <2>4. Moving' = {} /\ Moving = {}
      BY <2>2 DEF Moving, Busy
    <2>5. Out' \subseteq Out
      BY <2>3, <2>4 DEF Out
    <2>6. Waiting' \subseteq Waiting
      BY <1>2, <2>2 DEF Waiting
    <2>7. Steady
      BY <1>2, <2>2, <2>3, <2>5, <2>6 DEF Steady, Busy
    <2>8. RowsIn(call.b, "matched") \cap (Done(call.b) \cup Restored(call.b)) = {}
      BY DEF Done, Restored, RowsIn
    <2> QED
      BY <2>2, <2>3, <2>7, <2>8 DEF Phases
  <1> QED
    BY <1>3, <1>4, <1>5

-----------------------------------------------------------------------------
(* preview and the choice of operations begin a batch, of which no video    *)
(* has been moved yet.                                                      *)
LEMMA BatchBegins ==
    ASSUME Alone, TypeOK, Phases, Waits, NEW b \in Batches,
           Preview(b) \/ ExecuteOperations(b)
    PROVE  Phases' /\ Waits' /\ Placed'
  <1>1. status \in [Batches -> BatchStatus] /\ call \in Call
    BY DEF TypeOK
  <1>2. CASE Preview(b)
    <2>1. /\ b = call.b /\ video' = video /\ call' = call /\ call.kind = "none"
          /\ status'[call.b] = "previewing"
      BY <1>1, <1>2 DEF Alone, Call, Preview, disk, Busy
    <2>2. \A i \in DOMAIN rows'[call.b] :
              /\ video[rows'[call.b][i].orig] # NoFile
              /\ rows'[call.b][i].status \in {"matched", "needs_confirmation"}
      BY <1>2, <2>1, PreviewRows
    <2>3. Done(call.b)' = {} /\ Restored(call.b)' = {} /\ Moving' = {}
      BY <2>1, <2>2 DEF Done, Restored, RowsIn, Moving
    <2>4. Waits'
      BY <2>1, <2>2, <2>3 DEF Waits, Waiting, Out, row
    <2>5. Placed'
      BY <2>1, <2>3 DEF Placed, Out
    <2> QED
      BY <2>1, <2>3, <2>4, <2>5 DEF Phases
  <1>3. CASE ExecuteOperations(b)
    <2>1. /\ b = call.b /\ video' = video /\ call'.b = call.b
          /\ call'.kind = "execute" /\ call'.moved = FALSE
          /\ status[call.b] = "previewing" /\ status'[call.b] = "executing"
      BY <1>1, <1>3 DEF Alone, Call, ExecuteOperations, disk, Begin, Idle
    <2>2. /\ DOMAIN rows'[call.b] = DOMAIN rows[call.b]
          /\ \A i \in DOMAIN rows[call.b] :
                  /\ rows'[call.b][i].orig = rows[call.b][i].orig
                  /\ rows'[call.b][i].status \in {"matched", rows[call.b][i].status}
      BY <1>3, <2>1, OperationRows
    <2>3. Done(call.b) = {} /\ Restored(call.b) = {}
      BY <2>1 DEF Phases
    <2>4. Done(call.b)' = {} /\ Restored(call.b)' = {} /\ Moving' = {}
      BY <2>1, <2>2, <2>3 DEF Done, Restored, RowsIn, Moving
    <2>5. \A j \in DOMAIN rows[call.b] : video[rows[call.b][j].orig] # NoFile
      BY <2>1 DEF Waits, Waiting, row
    <2>6. Waits'
      BY <2>1, <2>2, <2>4, <2>5 DEF Waits, Waiting, Out, row
    <2>7. Placed'
      BY <2>1, <2>4 DEF Placed, Out
    <2> QED
      BY <2>1, <2>4, <2>6, <2>7 DEF Phases
  <1> QED
    BY <1>2, <1>3

(* execute moves a video: what waits stays, and the video moved is at its   *)
(* new place, with a content no other row has moved.                        *)
LEMMA MoveKeeps ==
    ASSUME TypeOK, Unique, OrigsApart, Phases, Waits, AsPlanned(call.b) => Placed,
           NEW i \in call.todo, MoveVideo(i)
    PROVE  /\ Phases' /\ Waits'
           /\ AsPlanned(call.b)' => Placed'
  <1>1. /\ Busy /\ call.kind = "execute" /\ Current(i) /\ ~call.moved
        /\ call.b \in Batches /\ call \in Call
        /\ row(i) \in Row /\ row(i).orig \in Stem
        /\ video \in [Stem -> Content]
        /\ video[row(i).orig] # NoFile
        /\ i \in DOMAIN rows[call.b]
    BY RowType DEF MoveVideo, Executing, Busy, TypeOK, Call, Row
  <1>2. PICK s \in Stem :
          /\ IsFinal(s, row(i).new)
          /\ video' = Shift(video, row(i).orig, s)
          /\ Mark(i, [row(i) EXCEPT !.was = video[row(i).orig], !.at = s])
    BY DEF MoveVideo
  <1>3. /\ call'.b = call.b /\ call'.kind = "execute" /\ call'.moved = TRUE
        /\ call'.todo = call.todo /\ status' = status
    BY <1>1 DEF MoveVideo, Call
  <1> DEFINE o == row(i).orig
             new == [row(i) EXCEPT !.was = video[o], !.at = s]
             r(k) == rows[call.b][k]
             q(k) == rows'[call.b][k]
  <1>4. /\ new \in Row /\ new.orig = o /\ new.was = video[o] /\ new.at = s
        /\ new.status = row(i).status /\ new.new = row(i).new
    BY <1>1, <1>2 DEF Row
  <1>5. /\ DOMAIN rows'[call.b] = DOMAIN rows[call.b]
        /\ q(i) = new
        /\ \A k \in DOMAIN rows[call.b] \ {i} : q(k) = r(k)
    BY <1>1, <1>2, <1>4, MarkRow
  <1>6. /\ video[s] = NoFile /\ s # o /\ video[o] # NoFile
        /\ video'[s] = video[o]
        /\ \A x \in Stem \ {o, s} : video'[x] = video[x]
    BY <1>1, <1>2 DEF Shift, IsFinal
  <1>7. /\ i \notin Done(call.b) /\ i \notin Restored(call.b)
        /\ row(i).status # "success" /\ row(i).status # "rolled_back"
        /\ status[call.b] = "executing"
        /\ call.todo \cap (Done(call.b) \cup Restored(call.b)) = {}
    BY <1>1 DEF Phases, Done, Restored, RowsIn, row
  <1>8. /\ Done(call.b)' = Done(call.b) /\ Restored(call.b)' = Restored(call.b)
    <2>1. Mark(i, new)
      BY <1>2
    <2> HIDE DEF new
    <2> QED
      BY <1>1, <1>3, <1>4, <1>7, <2>1, MarkSets
  <1>9. /\ Moving = {} /\ Moving' = {i}
        /\ Out = Done(call.b) \cup Restored(call.b)
        /\ Out' = Out \cup {i} /\ i \notin Out
    <2>1. Moving = {}
      BY <1>1 DEF Moving
    <2>2. Moving' = {i}
      BY <1>1, <1>3, OneAtATime DEF Moving, Current
    <2> QED
      BY <1>7, <1>8, <2>1, <2>2 DEF Out
  <1>10. /\ i \in Waiting /\ i \notin Waiting'
         /\ Waiting' \subseteq Waiting
         /\ Waiting \subseteq DOMAIN rows[call.b] /\ Out \subseteq DOMAIN rows[call.b]
    <2>1. Waiting \subseteq DOMAIN rows[call.b] /\ Out \subseteq DOMAIN rows[call.b]
      BY OutRows
    <2> QED
      BY <1>1, <1>3, <1>5, <1>7, <1>9, <2>1 DEF Waiting
  <1>11. \A k \in DOMAIN rows[call.b] :
            /\ r(k).orig \in Stem /\ r(k).at \in Stem
            /\ r(k).orig = o => k = i
    <2>1. \A k \in DOMAIN rows[call.b] : r(k) \in Row
      BY OutRows DEF row
    <2>2. \A k \in DOMAIN rows[call.b] : r(k).orig = r(i).orig => k = i
      BY <1>1 DEF OrigsApart
    <2> QED
      BY <2>1, <2>2 DEF Row, row
  <1>12. /\ \A k : row(k) = r(k)
         /\ \A k : row(k)' = q(k)
    BY <1>3 DEF row
  <1>13. Phases'
    BY <1>3, <1>7, <1>8 DEF Phases
  <1> HIDE DEF r, q, o, new
  <1>14. \A j \in Waiting : /\ video[r(j).orig] # NoFile
                            /\ \A k \in Out : k # j /\ r(k).at # r(j).orig
    BY <1>12 DEF Waits
  <1>15. Waits'
    <2>1. ASSUME NEW j \in Waiting'
          PROVE  /\ video'[q(j).orig] # NoFile
                 /\ \A k \in Out' : k # j /\ q(k).at # q(j).orig
      <3>1. j \in Waiting /\ j # i /\ j \in DOMAIN rows[call.b] /\ q(j) = r(j)
        BY <1>5, <1>10
      <3>2. r(j).orig # o /\ r(j).orig # s /\ r(j).orig \in Stem
        BY <1>6, <1>11, <1>14, <3>1
      <3>3. ASSUME NEW k \in Out PROVE k # j /\ q(k).at # q(j).orig
        BY <1>5, <1>9, <1>10, <1>14, <3>1, <3>3
      <3>4. i # j /\ q(i).at # q(j).orig
        BY <1>4, <1>5, <3>1, <3>2
      <3> QED
        BY <1>6, <1>9, <1>14, <3>1, <3>2, <3>3, <3>4
    <2> QED
      BY <1>12, <2>1 DEF Waits
  <1>16. ASSUME AsPlanned(call.b)' PROVE Placed'
    <2>1. AsPlanned(call.b)
      <3>1. \A k \in Done(call.b) \cup Restored(call.b) : q(k).at = q(k).new
        BY <1>3, <1>8, <1>16 DEF AsPlanned, q
      <3>2. \A k \in Done(call.b) \cup Restored(call.b) : q(k) = r(k)
        BY <1>5, <1>9, <1>10
      <3> QED
        BY <3>1, <3>2 DEF AsPlanned, r
    <2>2. /\ \A k \in Out : /\ r(k).was # NoFile
                            /\ \/ video[r(k).at] = r(k).was
                               \/ video[r(k).orig] = r(k).was
          /\ \A k, l \in Out : r(k).was = r(l).was => k = l
          /\ \A k \in Restored(call.b) : r(k).back = r(k).was
      BY <1>12, <2>1 DEF Placed
    <2>3. ASSUME NEW k \in Out
          PROVE  /\ q(k) = r(k) /\ k # i
                 /\ \E x \in {r(k).at, r(k).orig} \ {o, s} :
                        /\ x \in Stem
                        /\ video[x] = r(k).was /\ video'[x] = r(k).was
      <3>1. q(k) = r(k) /\ k # i /\ k \in DOMAIN rows[call.b]
        BY <1>5, <1>9, <1>10
      <3>2. r(k).at # o /\ r(k).orig # o
        <4>1. r(i).orig = o
          BY <1>12 DEF o
        <4> QED
          BY <1>10, <1>11, <1>14, <3>1, <4>1
      <3>3. PICK x \in {r(k).at, r(k).orig} : video[x] = r(k).was
        BY <2>2
      <3>4. x # o /\ x # s /\ x \in Stem
        BY <1>6, <1>11, <2>2, <3>1, <3>2, <3>3
      <3> QED
        BY <1>6, <3>1, <3>3, <3>4
    <2>4. \A k \in Out' : /\ q(k).was # NoFile
                          /\ \/ video'[q(k).at] = q(k).was
                             \/ video'[q(k).orig] = q(k).was
      BY <1>4, <1>5, <1>6, <1>9, <2>2, <2>3
    <2>5. \A k \in Out : r(k).was # video[o]
      <3> SUFFICES ASSUME NEW k \in Out, r(k).was = video[o] PROVE FALSE
        OBVIOUS
      <3>1. PICK x \in {r(k).at, r(k).orig} \ {o, s} : x \in Stem /\ video[x] = r(k).was
        BY <2>3
      <3>2. o \in Stem
        BY <1>1 DEF o
      <3> QED
        BY <1>6, <3>1, <3>2 DEF Unique
    <2>6. \A k, l \in Out' : q(k).was = q(l).was => k = l
      BY <1>4, <1>5, <1>9, <2>2, <2>3, <2>5
    <2>7. \A k \in Restored(call.b)' : q(k).back = q(k).was
      BY <1>8, <1>9, <2>2, <2>3
    <2> QED
      BY <1>3, <1>12, <2>4, <2>6, <2>7 DEF Placed
  <1> QED
    BY <1>13, <1>15, <1>16

(* rollback moves a video: the original path is free, so that the video is  *)
(* still where execute left it, and that is where the row planned it.       *)
LEMMA RestoreKeeps ==
    ASSUME TypeOK, Phases, Waits, AsPlanned(call.b) => Placed,
           NEW i \in call.todo, RestoreVideo(i)
    PROVE  /\ Phases' /\ Waits'
           /\ AsPlanned(call.b)' => Placed'
  <1>1. /\ Busy /\ call.kind = "rollback" /\ Latest(i) /\ ~call.moved
        /\ call.b \in Batches /\ call \in Call
        /\ row(i) \in Row /\ row(i).orig \in Stem /\ row(i).new \in Stem
        /\ video \in [Stem -> Content]
        /\ video[row(i).new] # NoFile /\ video[row(i).orig] = NoFile
        /\ i \in DOMAIN rows[call.b]
    BY RowType DEF RestoreVideo, RollingBack, CanRestore, Busy, TypeOK, Call, Row
  <1>2. /\ call'.b = call.b /\ call'.kind = "rollback" /\ call'.moved = TRUE
        /\ call'.todo = call.todo /\ status' = status
    BY <1>1 DEF RestoreVideo, Call
  <1> DEFINE o == row(i).orig
             n == row(i).new
             new == [row(i) EXCEPT !.back = video[n]]
             r(k) == rows[call.b][k]
             q(k) == rows'[call.b][k]
  <1>3. /\ new \in Row /\ new.orig = o /\ new.new = n /\ new.at = row(i).at
        /\ new.was = row(i).was /\ new.back = video[n]
        /\ new.status = row(i).status
    BY <1>1 DEF Row
  <1>4. Mark(i, new)
    BY DEF RestoreVideo
  <1>5. /\ DOMAIN rows'[call.b] = DOMAIN rows[call.b]
        /\ q(i) = new
        /\ \A k \in DOMAIN rows[call.b] \ {i} : q(k) = r(k)
    BY <1>1, <1>3, <1>4, MarkRow
  <1>6. /\ video[n] # NoFile /\ video[o] = NoFile /\ n # o
        /\ video'[o] = video[n]
        /\ \A x \in Stem \ {o, n} : video'[x] = video[x]
    BY <1>1 DEF RestoreVideo, Shift
  <1>7. /\ i \in Done(call.b) /\ i \notin Restored(call.b)
        /\ row(i).status = "success"
        /\ call.todo \subseteq Done(call.b)
        /\ status[call.b] \notin {"none", "previewing"}
    BY <1>1 DEF Phases, Done, Restored, RowsIn, row
  <1>8. /\ Done(call.b)' = Done(call.b) /\ Restored(call.b)' = Restored(call.b)
    <2>1. Busy /\ new \in Row /\ new.status = "success"
      BY <1>1, <1>3, <1>7
    <2> HIDE DEF new, o, n, r, q
    <2>2. /\ Done(call.b)' = Done(call.b) \cup {i}
          /\ Restored(call.b)' = Restored(call.b) \ {i}
      BY <1>2, <1>4, <2>1, MarkSets
    <2> QED
      BY <1>7, <2>2
  <1>9. /\ Moving = {} /\ Moving' = {}
        /\ Out = Done(call.b) \cup Restored(call.b) /\ Out' = Out
        /\ i \in Out /\ Out \subseteq DOMAIN rows[call.b]
        /\ Waiting' = {}
    <2>1. Moving = {} /\ Moving' = {}
      BY <1>1, <1>2 DEF Moving
    <2>2. Waiting' = {}
      BY <1>2, <1>7 DEF Waiting
    <2> QED
      BY <1>7, <1>8, <2>1, <2>2, OutRows DEF Out
  <1>10. \A k \in DOMAIN rows[call.b] : r(k).orig \in Stem /\ r(k).at \in Stem
    <2>1. \A k \in DOMAIN rows[call.b] : r(k) \in Row
      BY OutRows DEF row
    <2> QED
      BY <2>1 DEF Row
  <1>11. /\ \A k : row(k) = r(k)
         /\ \A k : row(k)' = q(k)
    BY <1>2 DEF row
  <1>12. Phases' /\ Waits'
    BY <1>2, <1>7, <1>8, <1>9 DEF Phases, Waits
  <1> HIDE DEF r, q, o, n, new
  <1>13. ASSUME AsPlanned(call.b)' PROVE Placed'
    <2>1. AsPlanned(call.b)
      <3>1. \A k \in Done(call.b) \cup Restored(call.b) : q(k).at = q(k).new
        BY <1>2, <1>8, <1>13 DEF AsPlanned, q
      <3>2. \A k \in Done(call.b) \cup Restored(call.b) :
                q(k).at = r(k).at /\ q(k).new = r(k).new
        <4>1. r(i).new = n /\ r(i).at = new.at
          BY <1>3, <1>11 DEF n
        <4> QED
          BY <1>3, <1>5, <1>9, <4>1
      <3> QED
        BY <3>1, <3>2 DEF AsPlanned, r
    <2>2. /\ \A k \in Out : /\ r(k).was # NoFile
                            /\ \/ video[r(k).at] = r(k).was
                               \/ video[r(k).orig] = r(k).was
          /\ \A k, l \in Out : r(k).was = r(l).was => k = l
          /\ \A k \in Restored(call.b) : r(k).back = r(k).was
      BY <1>11, <2>1 DEF Placed
    <2>3. /\ r(i).at = n /\ r(i).orig = o /\ r(i).was = new.was
          /\ r(i).was = video[n]
      <3>1. r(i).at = r(i).new
        BY <1>7, <2>1 DEF AsPlanned, r
      <3>2. r(i).new = n /\ r(i).orig = o /\ r(i).was = new.was
        BY <1>3, <1>11 DEF n, o
      <3> QED
        BY <1>6, <1>9, <2>2, <3>1, <3>2
    <2>4. ASSUME NEW k \in Out, k # i
          PROVE  /\ q(k) = r(k)
                 /\ \/ video'[q(k).at] = q(k).was
                    \/ video'[q(k).orig] = q(k).was
      <3>1. q(k) = r(k) /\ k \in DOMAIN rows[call.b]
        BY <1>5, <1>9, <2>4
      <3>2. PICK x \in {r(k).at, r(k).orig} : video[x] = r(k).was
        BY <2>2
      <3>3. x # n /\ x # o
        BY <1>6, <1>9, <2>2, <2>3, <2>4, <3>2
      <3>4. video'[x] = r(k).was
        BY <1>6, <1>10, <3>1, <3>2, <3>3
      <3> QED
        BY <3>1, <3>2, <3>4
    <2>5. /\ q(i).was = r(i).was /\ q(i).orig = o /\ q(i).back = r(i).was
          /\ video'[q(i).orig] = q(i).was
      BY <1>3, <1>5, <1>6, <2>3
    <2>6. \A k \in Out' : /\ q(k).was # NoFile
                          /\ \/ video'[q(k).at] = q(k).was
                             \/ video'[q(k).orig] = q(k).was
      BY <1>9, <2>2, <2>4, <2>5
    <2>7. \A k, l \in Out' : q(k).was = q(l).was => k = l
      BY <1>9, <2>2, <2>4, <2>5
    <2>8. \A k \in Restored(call.b)' : q(k).back = q(k).was
      BY <1>7, <1>8, <1>9, <2>2, <2>4
    <2>9. ASSUME NEW k \in call'.todo, Latest(k)' PROVE q(k).back = q(k).was
      <3>1. Latest(k) /\ k \in call.todo
        BY <1>2, <2>9 DEF Latest
      <3>2. k = i
        BY <1>1, <3>1, OneAtATime
      <3> QED
        BY <2>5, <3>2
    <2> QED
      BY <1>2, <1>11, <2>6, <2>7, <2>8, <2>9 DEF Placed
  <1> QED
    BY <1>12, <1>13

(* A file that another program adds is in nobody's way.                     *)
LEMMA ArriveKeeps ==
    ASSUME TypeOK, Phases, Waits, AsPlanned(call.b) => Placed,
           NEW f \in Files, Arrive(f)
    PROVE  /\ Phases' /\ Waits'
           /\ AsPlanned(call.b)' => Placed'
  <1>1. /\ rows' = rows /\ call' = call /\ status' = status
        /\ \A x \in Stem : video[x] # NoFile => video'[x] = video[x]
    BY DEF Arrive, TypeOK, tables
  <1>2. /\ Done(call.b)' = Done(call.b) /\ Restored(call.b)' = Restored(call.b)
        /\ AsPlanned(call.b)' <=> AsPlanned(call.b)
    BY <1>1 DEF Done, Restored, RowsIn, AsPlanned
  <1>3. Moving' = Moving
    BY <1>1 DEF Moving, Current
  <1>4. Out' = Out /\ Waiting' = Waiting
    BY <1>1, <1>2, <1>3 DEF Out, Waiting
  <1>5. /\ \A k \in Out \cup Waiting : row(k).orig \in Stem /\ row(k).at \in Stem
        /\ \A k : row(k)' = row(k)
    BY <1>1, OutRows DEF Row, row
  <1>6. Phases'
    BY <1>1, <1>2 DEF Phases
  <1>7. Waits'
    BY <1>1, <1>4, <1>5 DEF Waits
  <1>8. Placed => Placed'
    <2>1. \A k : Latest(k)' <=> Latest(k)
      BY <1>1 DEF Latest
    <2> QED
      BY <1>1, <1>2, <1>4, <1>5, <2>1 DEF Placed
  <1> QED
    BY <1>2, <1>6, <1>7, <1>8

LEMMA InitIInv == Init => IInv
  <1> SUFFICES ASSUME Init PROVE IInv
    OBVIOUS
  <1>1. PICK c \in Batches : call = Idle(c)
    BY DEF Init
  <1>2. /\ call.kind = "none" /\ call.todo = {} /\ call.b \in Batches
        /\ status[call.b] = "none"
        /\ \A b \in Batches : rows[b] = <<>>
    BY <1>1 DEF Init, Idle
  <1>3. /\ Done(call.b) = {} /\ Restored(call.b) = {} /\ Moving = {}
        /\ Waiting = {}
    BY <1>2 DEF Done, Restored, RowsIn, Moving, Waiting
  <1>4. Unique
    BY DEF Init, Unique
  <1>5. OrigsApart /\ Phases /\ Waits /\ Placed
    BY <1>2, <1>3 DEF OrigsApart, Phases, Waits, Placed, Out
  <1> QED
    BY <1>4, <1>5, InitTypes DEF IInv

(* Every step keeps the inductive invariant.                                *)
LEMMA StepIInv == Alone /\ IInv /\ [Next]_vars => IInv'
  <1> SUFFICES ASSUME Alone, IInv, [Next]_vars PROVE IInv'
    OBVIOUS
  <1>1. /\ TypeOK /\ Unique /\ OrigsApart /\ Phases /\ Waits
        /\ AsPlanned(call.b) => Placed
    BY DEF IInv
  <1>2. TypeOK' /\ Unique' /\ OrigsApart'
    BY <1>1, StepTypes, StepUnique, StepOrigs
  <1>3. ASSUME Steady, Phases' PROVE IInv'
    BY <1>1, <1>2, <1>3, SteadyKeeps DEF IInv
  <1>4. ASSUME NEW i \in call.todo, RowStep(i) PROVE IInv'
    <2>1. CASE MoveVideo(i)
      BY <2>1, <1>1, <1>2, MoveKeeps DEF IInv
    <2>2. CASE RestoreVideo(i)
      BY <2>2, <1>1, <1>2, RestoreKeeps DEF IInv
    <2>3. CASE MoveFails(i) \/ MoveDone(i) \/ \E e \in Sidecars : MoveSidecar(i, e)
      BY <2>3, <1>1, <1>3, ExecuteSteady
    <2>4. CASE \/ RestoreFails(i) \/ RestoreDone(i)
               \/ \E e \in Sidecars : RestoreSidecar(i, e)
      BY <2>4, <1>1, <1>3, RollbackSteady
    <2> QED
      BY <1>4, <2>1, <2>2, <2>3, <2>4 DEF RowStep
  <1>5. ASSUME NEW b \in Batches, Preview(b) \/ ExecuteOperations(b) PROVE IInv'
    BY <1>5, <1>1, <1>2, BatchBegins DEF IInv
  <1>6. CASE \/ ExecuteEnds \/ RollbackEnds \/ Crash
             \/ \E b \in Batches : Execute(b) \/ Rollback(b)
             \/ UNCHANGED vars
    BY <1>6, <1>1, <1>3, CallsSteady
  <1>7. ASSUME NEW f \in Files, Arrive(f) PROVE IInv'
    BY <1>7, <1>1, <1>2, ArriveKeeps DEF IInv
  <1> QED
    BY <1>4, <1>5, <1>6, <1>7 DEF Next, Step

(* A batch alone whose renames all got the names they planned: what is said *)
(* to be rolled back is its own file, through failures, crashes between any *)
(* two commits, rollbacks begun again and files that arrive (execute and    *)
(* rollback).  With other batches it is not so: each may move the other's.  *)
THEOREM OwnFilesBack ==
    ASSUME Alone
    PROVE  Spec => []PlannedRestores
  <1>1. IInv => PlannedRestores
    <2>1. ASSUME IInv, NEW b \in Batches, AsPlanned(b) PROVE HasItsOwn(b)
      <3>1. b = call.b
        BY <2>1 DEF IInv, TypeOK, Call, Alone
      <3> QED
        BY <2>1, <3>1 DEF IInv, Placed, HasItsOwn, row
    <2> QED
      BY <2>1 DEF PlannedRestores
  <1>2. IInv /\ [Next]_vars => IInv'
    BY StepIInv
  <1> QED
    BY <1>1, <1>2, InitIInv, PTL DEF Spec

-----------------------------------------------------------------------------
(* Where nothing fails.  The row whose video rollback has put back, and the *)
(* rows whose videos are away.                                              *)
Back == {i \in call.todo : RollingBack(i) /\ call.moved}
Away == (Done(call.b) \cup Moving) \ Back

(* rollback has before it all rows that are still done, execute those after *)
(* the ones that are, and a batch rolled back has none.                     *)
InOrder ==
    /\ status[call.b] = "rolled_back" => Done(call.b) = {}
    /\ call.kind = "rollback" => call.todo = Done(call.b)
    /\ call.kind = "execute" => \A i \in Done(call.b), j \in call.todo : j > i

(* Each video that is away is where it went, and no other is there; its own *)
(* path is free, or taken by that of a later row.                           *)
Chain ==
    /\ \A i \in Away : video[row(i).at] # NoFile
    /\ \A i, j \in Away : row(i).at = row(j).at => i = j
    /\ \A i \in Away : \/ video[row(i).orig] = NoFile
                       \/ \E j \in Away : j > i /\ row(j).at = row(i).orig

FaultlessInv == AsPlanned(call.b) => InOrder /\ Chain

(* A step that moves no video, and only writes down where one is.           *)
LEMMA ChainStays ==
    ASSUME TypeOK, Steady, Away' = Away, Chain
    PROVE  Chain'
  <1>1. Away \subseteq DOMAIN rows[call.b]
    BY OutRows DEF Away, Out
  <1>2. \A k \in Away : /\ rows[call.b][k] \in Row
                        /\ rows'[call.b][k] = [rows[call.b][k] EXCEPT
                                                  !.status = rows'[call.b][k].status]
    BY <1>1, OutRows DEF Steady, Restated, row
  <1>3. \A k \in Away : row(k)'.orig = row(k).orig /\ row(k)'.at = row(k).at
    <2>1. \A k \in Away : row(k) = rows[call.b][k] /\ row(k)' = rows'[call.b][k]
      BY DEF row, Steady
    <2>2. ASSUME NEW r \in Row, NEW t
          PROVE  [r EXCEPT !.status = t].orig = r.orig /\ [r EXCEPT !.status = t].at = r.at
      BY DEF Row
    <2>3. ASSUME NEW k \in Away
          PROVE  /\ rows'[call.b][k].orig = rows[call.b][k].orig
                 /\ rows'[call.b][k].at = rows[call.b][k].at
      <3>1. PICK r, t : r = rows[call.b][k] /\ t = rows'[call.b][k].status
        OBVIOUS
      <3>2. r \in Row /\ rows'[call.b][k] = [r EXCEPT !.status = t]
        BY <1>2, <3>1
      <3> QED
        BY <2>2, <3>1, <3>2
    <2> QED
      BY <2>1, <2>3
  <1>4. video' = video
    BY DEF Steady
  <1>5. \A i \in Away' : video'[row(i)'.at] # NoFile
    BY <1>3, <1>4 DEF Chain
  <1>6. \A i, j \in Away' : row(i)'.at = row(j)'.at => i = j
    BY <1>3 DEF Chain
  <1>7. \A i \in Away' : \/ video'[row(i)'.orig] = NoFile
                         \/ \E j \in Away' : j > i /\ row(j)'.at = row(i)'.orig
    BY <1>3, <1>4 DEF Chain
  <1> QED
    BY <1>5, <1>6, <1>7 DEF Chain

(* A batch whose names are as planned after a step had them so before.      *)
LEMMA WasPlanned ==
    ASSUME TypeOK, Steady, AsPlanned(call.b)'
    PROVE  AsPlanned(call.b)
  <1>1. \A k \in (Done(call.b) \cup Restored(call.b))' :
            rows'[call.b][k].at = rows'[call.b][k].new
    BY DEF AsPlanned, Steady
  <1>2. ASSUME NEW k \in Done(call.b) \cup Restored(call.b)
        PROVE  rows[call.b][k].at = rows[call.b][k].new
    <2>1. /\ k \in DOMAIN rows[call.b] /\ rows[call.b][k] \in Row
          /\ rows'[call.b][k] = [rows[call.b][k] EXCEPT
                                    !.status = rows'[call.b][k].status]
      BY OutRows DEF Steady, Restated, row
    <2>2. rows'[call.b][k].at = rows'[call.b][k].new
      BY <1>1 DEF Steady
    <2> QED
      BY <2>1, <2>2 DEF Row
  <1> QED
    BY <1>2 DEF AsPlanned

LEMMA MarkPlanned ==
    ASSUME TypeOK, Busy, NEW i \in call.todo, NEW new \in Row, Mark(i, new),
           call'.b = call.b, AsPlanned(call.b)', new.status = row(i).status,
           row(i).status \in {"success", "rolled_back"} =>
              new.at = row(i).at /\ new.new = row(i).new
    PROVE  AsPlanned(call.b)
  <1>1. \A k \in (Done(call.b) \cup Restored(call.b))' :
            rows'[call.b][k].at = rows'[call.b][k].new
    BY DEF AsPlanned
  <1>2. /\ DOMAIN rows'[call.b] = DOMAIN rows[call.b]
        /\ rows'[call.b][i] = new
        /\ \A k \in DOMAIN rows[call.b] \ {i} : rows'[call.b][k] = rows[call.b][k]
    BY MarkRow
  <1>3. ASSUME NEW k \in Done(call.b) \cup Restored(call.b)
        PROVE  rows[call.b][k].at = rows[call.b][k].new
    <2>1. /\ k \in DOMAIN rows[call.b]
          /\ rows[call.b][k].status \in {"success", "rolled_back"}
      BY DEF Done, Restored, RowsIn
    <2>2. k \in (Done(call.b) \cup Restored(call.b))'
      BY <1>2, <2>1 DEF Done, Restored, RowsIn, row
    <2> QED
      BY <1>1, <1>2, <2>1, <2>2 DEF row
  <1> QED
    BY <1>3 DEF AsPlanned

LEMMA MovePlanned ==
    ASSUME TypeOK, Phases, NEW i \in call.todo, MoveVideo(i) \/ RestoreVideo(i),
           AsPlanned(call.b)'
    PROVE  AsPlanned(call.b)
  <1>1. /\ Busy /\ row(i) \in Row /\ call \in Call
        /\ video \in [Stem -> Content] /\ call'.b = call.b
    BY RowType DEF MoveVideo, RestoreVideo, Executing, RollingBack, Busy, TypeOK, Call
  <1>2. CASE MoveVideo(i)
    <2>1. PICK s \in Stem :
             Mark(i, [row(i) EXCEPT !.was = video[row(i).orig], !.at = s])
      BY <1>2 DEF MoveVideo
    <2>2. PICK new : new = [row(i) EXCEPT !.was = video[row(i).orig], !.at = s]
      OBVIOUS
    <2>3. new \in Row /\ new.status = row(i).status /\ Mark(i, new)
      BY <1>1, <2>1, <2>2 DEF Row
    <2>4. row(i).status \notin {"success", "rolled_back"}
      BY <1>1, <1>2 DEF MoveVideo, Executing, Phases, Done, Restored, RowsIn, row,
                        TypeOK, Busy
    <2> QED
      BY <1>1, <2>3, <2>4, MarkPlanned
  <1>3. CASE RestoreVideo(i)
    <2>1. PICK new : new = [row(i) EXCEPT !.back = video[row(i).new]]
      OBVIOUS
    <2>2. /\ new \in Row /\ new.status = row(i).status /\ Mark(i, new)
          /\ new.at = row(i).at /\ new.new = row(i).new
      BY <1>1, <1>3, <2>1 DEF Row, RestoreVideo
    <2> QED
      BY <1>1, <2>2, MarkPlanned
  <1> QED
    BY <1>2, <1>3

(* While no row is between its move and its commit, the rows that are away  *)
(* are those that are done.                                                 *)
LEMMA AwayIs ==
    ASSUME ~call.moved \/ call.kind = "none" \/ call.todo = {}
    PROVE  Away = Done(call.b) /\ Moving = {} /\ Back = {}
  BY DEF Away, Moving, Back, RollingBack

(* The commit that ends a row of execute, and the moves before it.          *)
LEMMA DoneChains ==
    ASSUME TypeOK, Phases, InOrder, Chain, Steady, NEW i \in call.todo,
           MoveDone(i) \/ \E e \in Sidecars : MoveSidecar(i, e)
    PROVE  InOrder' /\ Chain'
  <1>1. /\ Busy /\ call.kind = "execute" /\ Current(i) /\ call \in Call
        /\ status[call.b] = "executing" /\ row(i) \in Row
        /\ call.todo \subseteq Nat /\ i \in Nat
        /\ \A k \in Done(call.b), j \in call.todo : j > k
    BY RowType DEF MoveDone, MoveSidecar, Executing, Busy, TypeOK, Call, Phases, InOrder
  <1>2. CASE \E e \in Sidecars : MoveSidecar(i, e)
    <2>1. /\ rows' = rows /\ status' = status
          /\ call'.b = call.b /\ call'.todo = call.todo
          /\ call'.kind = call.kind /\ call'.moved = call.moved
      BY <1>1, <1>2 DEF MoveSidecar, tables, Call
    <2>2. /\ Done(call.b)' = Done(call.b) /\ Moving' = Moving
          /\ Back = {} /\ Back' = {}
      BY <1>1, <2>1, SameRows DEF Moving, Current, Back, RollingBack
    <2>3. Away' = Away
      BY <2>2 DEF Away
    <2>4. InOrder'
      BY <1>1, <2>1, <2>2 DEF InOrder
    <2> QED
      BY <2>3, <2>4, ChainStays
  <1>3. CASE MoveDone(i)
    <2>1. PICK new : new = [row(i) EXCEPT !.status = "success"]
      OBVIOUS
    <2>2. new \in Row /\ new.status = "success" /\ Mark(i, new)
      BY <1>1, <1>3, <2>1 DEF Row, MoveDone
    <2>3. /\ call'.b = call.b /\ call'.kind = "execute" /\ call.moved
          /\ call'.todo = call.todo \ {i} /\ call'.moved = FALSE
          /\ status' = status
      BY <1>1, <1>3 DEF MoveDone, NextRow, Call
    <2>4. Done(call.b)' = Done(call.b) \cup {i}
      BY <1>1, <2>2, <2>3, MarkSets
    <2>5. Moving = {i} /\ Back = {} /\ Moving' = {} /\ Back' = {}
      BY <1>1, <2>3, OneAtATime DEF Moving, Back, RollingBack
    <2>6. Away' = Away
      BY <2>4, <2>5 DEF Away
    <2>7. \A j \in call'.todo : j > i
      BY <1>1, <2>3 DEF Current
    <2>8. InOrder'
      BY <1>1, <2>3, <2>4, <2>7 DEF InOrder
    <2> QED
      BY <2>6, <2>8, ChainStays
  <1> QED
    BY <1>2, <1>3

(* The commit that ends a row of rollback, and the moves before it.         *)
LEMMA RestoredChains ==
    ASSUME TypeOK, Phases, InOrder, Chain, Steady, NEW i \in call.todo,
           RestoreDone(i) \/ \E e \in Sidecars : RestoreSidecar(i, e)
    PROVE  InOrder' /\ Chain'
  <1>1. /\ Busy /\ call.kind = "rollback" /\ Latest(i) /\ call \in Call
        /\ row(i) \in Row /\ call.todo = Done(call.b)
        /\ status[call.b] # "rolled_back"
    <2>1. call.kind = "rollback" /\ Latest(i) /\ Busy
      BY DEF RestoreDone, RestoreSidecar, RollingBack, Busy
    <2>2. call \in Call /\ row(i) \in Row
      BY <2>1, RowType DEF TypeOK
    <2>3. call.todo = Done(call.b) /\ status[call.b] # "rolled_back"
      BY <2>1 DEF InOrder
    <2> QED
      BY <2>1, <2>2, <2>3
  <1>2. CASE \E e \in Sidecars : RestoreSidecar(i, e)
    <2>1. /\ rows' = rows /\ status' = status
          /\ call'.b = call.b /\ call'.todo = call.todo
          /\ call'.kind = call.kind /\ call'.moved = call.moved
      BY <1>1, <1>2 DEF RestoreSidecar, tables, Call
    <2>2. /\ Done(call.b)' = Done(call.b) /\ Moving' = {} /\ Moving = {}
          /\ Back' = Back
      BY <1>1, <2>1, SameRows DEF Moving, Latest, Back, RollingBack
    <2>3. Away' = Away
      BY <2>2 DEF Away
    <2>4. InOrder'
      BY <1>1, <2>1, <2>2 DEF InOrder
    <2> QED
      BY <2>3, <2>4, ChainStays
  <1>3. CASE RestoreDone(i)
    <2>1. PICK new : new = [row(i) EXCEPT !.status = "rolled_back"]
      OBVIOUS
    <2>2. new \in Row /\ new.status = "rolled_back" /\ Mark(i, new)
      BY <1>1, <1>3, <2>1 DEF Row, RestoreDone
    <2>3. /\ call'.b = call.b /\ call'.kind = "rollback" /\ call.moved
          /\ call'.todo = call.todo \ {i} /\ call'.moved = FALSE
          /\ status' = status
      BY <1>1, <1>3 DEF RestoreDone, NextRow, Call
    <2>4. Done(call.b)' = Done(call.b) \ {i}
      BY <1>1, <2>2, <2>3, MarkSets
    <2>5. Moving = {} /\ Back = {i} /\ Moving' = {} /\ Back' = {}
      BY <1>1, <2>3, OneAtATime DEF Moving, Back, RollingBack
    <2>6. Away' = Away
      BY <2>4, <2>5 DEF Away
    <2>7. InOrder'
      BY <1>1, <2>3, <2>4 DEF InOrder
    <2> QED
      BY <2>6, <2>7, ChainStays
  <1> QED
    BY <1>2, <1>3

(* Calls that begin and end.                                                *)
LEMMA CallsChain ==
    ASSUME Alone, TypeOK, Phases, InOrder, Chain, Steady,
           \/ ExecuteEnds \/ RollbackEnds
           \/ \E b \in Batches : Execute(b) \/ Rollback(b)
           \/ UNCHANGED vars
    PROVE  InOrder' /\ Chain'
  <1>1. /\ call.b \in Batches /\ call \in Call
        /\ status \in [Batches -> BatchStatus]
    BY DEF TypeOK, Call
  <1>2. /\ rows' = rows /\ call'.b = call.b
        /\ Done(call.b)' = Done(call.b)
    <2>1. rows' = rows
      BY DEF ExecuteEnds, RollbackEnds, Execute, Rollback, disk, tables, vars
    <2> QED
      BY <2>1, SameRows DEF Steady
  <1>3. CASE UNCHANGED vars
    <2>1. call' = call /\ status' = status /\ Moving' = Moving /\ Back' = Back
      BY <1>3 DEF vars, Moving, Current, Back, RollingBack, Latest
    <2> QED
      BY <1>2, <2>1, ChainStays DEF InOrder, Away
  <1>4. CASE ExecuteEnds \/ RollbackEnds
    <2>1. /\ call'.kind = "none" /\ call.todo = {} /\ call'.todo = {}
          /\ status'[call.b] = "rolled_back" => call.kind = "rollback"
      BY <1>1, <1>4 DEF ExecuteEnds, RollbackEnds, Idle, Outcome
    <2>2. Away = Done(call.b) /\ Away' = Done(call.b)
      BY <1>2, <2>1 DEF Away, Moving, Back
    <2>3. InOrder'
      BY <1>2, <2>1 DEF InOrder
    <2> QED
      BY <2>2, <2>3, ChainStays
  <1>5. ASSUME NEW b \in Batches, Execute(b) \/ Rollback(b) PROVE InOrder' /\ Chain'
    <2>1. b = call.b
      BY <1>1 DEF Alone
    <2>2. /\ call'.moved = FALSE /\ call.kind = "none"
          /\ call'.kind \in {"execute", "rollback"}
          /\ call'.kind = "execute" =>
                status[call.b] = "previewing" /\ status'[call.b] = "executing"
          /\ call'.kind = "rollback" =>
                status' = status /\ call'.todo = Done(call.b)
      BY <1>1, <1>5, <2>1 DEF Execute, Rollback, Begin, Idle, tables, Done, Busy
    <2>3. call'.kind = "execute" => Done(call.b) = {}
      BY <2>2 DEF Phases
    <2>4. Away = Done(call.b) /\ Away' = Done(call.b)
      BY <1>2, <2>2 DEF Away, Moving, Back, RollingBack
    <2>5. InOrder'
      BY <1>2, <2>2, <2>3 DEF InOrder
    <2> QED
      BY <2>4, <2>5, ChainStays
  <1> QED
    BY <1>3, <1>4, <1>5

(* execute moves the video of a row to a path where there is none: what     *)
(* went to the path it leaves would have done so later.                     *)
LEMMA MoveChains ==
    ASSUME TypeOK, OrigsApart, Phases, Waits, InOrder, Chain,
           NEW i \in call.todo, MoveVideo(i)
    PROVE  InOrder' /\ Chain'
  <1>1. /\ Busy /\ call.kind = "execute" /\ Current(i) /\ ~call.moved
        /\ call.b \in Batches /\ call \in Call
        /\ row(i) \in Row /\ row(i).orig \in Stem
        /\ video \in [Stem -> Content]
        /\ video[row(i).orig] # NoFile
        /\ i \in DOMAIN rows[call.b]
        /\ status[call.b] = "executing"
    BY RowType DEF MoveVideo, Executing, Busy, TypeOK, Call, Row, Phases
  <1>2. PICK s \in Stem :
          /\ IsFinal(s, row(i).new)
          /\ video' = Shift(video, row(i).orig, s)
          /\ Mark(i, [row(i) EXCEPT !.was = video[row(i).orig], !.at = s])
    BY DEF MoveVideo
  <1>3. /\ call'.b = call.b /\ call'.kind = "execute" /\ call'.moved = TRUE
        /\ call'.todo = call.todo /\ status' = status
    BY <1>1 DEF MoveVideo, Call
  <1>4. PICK new : new = [row(i) EXCEPT !.was = video[row(i).orig], !.at = s]
    OBVIOUS
  <1>5. /\ new \in Row /\ new.orig = row(i).orig /\ new.at = s
        /\ new.status = row(i).status /\ Mark(i, new)
    BY <1>1, <1>2, <1>4 DEF Row
  <1> DEFINE D == Done(call.b)
             o(k) == rows[call.b][k].orig
             at(k) == rows[call.b][k].at
  <1>6. /\ DOMAIN rows'[call.b] = DOMAIN rows[call.b]
        /\ rows'[call.b][i] = new
        /\ \A k \in DOMAIN rows[call.b] \ {i} : rows'[call.b][k] = rows[call.b][k]
    BY <1>1, <1>5, MarkRow
  <1>7. /\ i \notin Done(call.b) /\ i \notin Restored(call.b)
        /\ row(i).status # "success" /\ row(i).status # "rolled_back"
    BY <1>1 DEF Phases, Done, Restored, RowsIn, row
  <1>8. /\ Done(call.b)' = Done(call.b) /\ Restored(call.b)' = Restored(call.b)
    BY <1>1, <1>3, <1>5, <1>7, MarkSets
  <1>9. /\ Away = D /\ Away' = D \cup {i} /\ D \subseteq DOMAIN rows[call.b]
    <2>1. Moving' = {i} /\ Back' = {}
      BY <1>1, <1>3, OneAtATime DEF Moving, Current, Back, RollingBack
    <2> QED
      BY <1>1, <1>8, <2>1, AwayIs, OutRows DEF Away, Out
  <1>10. /\ video[s] = NoFile /\ s # o(i) /\ video'[s] # NoFile
         /\ video'[o(i)] = NoFile
         /\ \A x \in Stem \ {o(i), s} : video'[x] = video[x]
    BY <1>1, <1>2 DEF Shift, IsFinal, row
  <1>11. /\ \A k \in DOMAIN rows[call.b] : o(k) \in Stem /\ at(k) \in Stem
         /\ \A k \in DOMAIN rows[call.b] : o(k) = o(i) => k = i
         /\ \A k \in D : i > k
    <2>1. \A k \in DOMAIN rows[call.b] : rows[call.b][k] \in Row
      BY OutRows DEF row
    <2> QED
      BY <1>1, <2>1 DEF Row, OrigsApart, InOrder
  <1>12. /\ \A k \in D : video[at(k)] # NoFile
         /\ \A k, l \in D : at(k) = at(l) => k = l
         /\ \A k \in D : video[o(k)] = NoFile \/ \E l \in D : l > k /\ at(l) = o(k)
    BY <1>9 DEF Chain, row
  <1>13. /\ row(i)'.orig = o(i) /\ row(i)'.at = s
         /\ \A k \in D : row(k)'.orig = o(k) /\ row(k)'.at = at(k)
    BY <1>3, <1>5, <1>6, <1>7, <1>9 DEF row
  <1>15. InOrder'
    BY <1>1, <1>3, <1>8 DEF InOrder
  <1> HIDE DEF D, o, at
  <1>16. \A k \in D : at(k) # s /\ at(k) # o(i) /\ video'[at(k)] # NoFile
    <2>1. \A k \in D : at(k) # o(i)
      <3>1. i \in Waiting
        BY <1>1, <1>9, AwayIs DEF Waiting
      <3>2. D \subseteq Out
        BY OutRows DEF D
      <3> QED
        BY <3>1, <3>2 DEF Waits, row, o, at
    <2> QED
      BY <1>9, <1>10, <1>11, <1>12, <2>1
  <1>17. \A k \in Away' : video'[row(k)'.at] # NoFile
    BY <1>9, <1>10, <1>13, <1>16
  <1>18. \A k, l \in Away' : row(k)'.at = row(l)'.at => k = l
    BY <1>9, <1>12, <1>13, <1>16
  <1>19. ASSUME NEW k \in Away', video'[row(k)'.orig] # NoFile
         PROVE  \E l \in Away' : l > k /\ row(l)'.at = row(k)'.orig
    <2>1. k \in D /\ k # i /\ row(k)'.orig = o(k) /\ k \in DOMAIN rows[call.b]
      BY <1>9, <1>10, <1>13, <1>19
    <2>2. CASE o(k) = s
      BY <1>9, <1>11, <1>13, <2>1, <2>2
    <2>3. CASE o(k) # s
      <3>1. video[o(k)] # NoFile
        BY <1>10, <1>11, <1>19, <2>1, <2>3
      <3>2. PICK l \in D : l > k /\ at(l) = o(k)
        BY <1>12, <2>1, <3>1
      <3> QED
        BY <1>9, <1>13, <2>1, <3>2
    <2> QED
      BY <2>2, <2>3
  <1>20. Chain'
    BY <1>17, <1>18, <1>19 DEF Chain
  <1> QED
    BY <1>15, <1>20

(* rollback finds what it looks for: the video of the latest row where it   *)
(* went, and nothing at its own path, for what came there has gone back.    *)
LEMMA IsVacant ==
    ASSUME TypeOK, InOrder, Chain, AsPlanned(call.b),
           NEW i \in call.todo, RollingBack(i), ~call.moved
    PROVE  CanRestore(row(i))
  <1>1. /\ call.kind = "rollback" /\ Latest(i) /\ call.todo = Done(call.b)
        /\ Away = call.todo /\ call.todo \subseteq Nat
    BY AwayIs DEF RollingBack, InOrder, TypeOK, Call
  <1>2. row(i).new = row(i).at /\ video[row(i).at] # NoFile
    BY <1>1 DEF AsPlanned, row, Chain
  <1>3. ASSUME video[row(i).orig] # NoFile PROVE FALSE
    <2>1. PICK j \in call.todo : j > i
      BY <1>1, <1>3 DEF Chain
    <2>2. j <= i /\ i \in Nat /\ j \in Nat
      BY <1>1 DEF Latest
    <2> QED
      BY <2>1, <2>2
  <1> QED
    BY <1>2, <1>3 DEF CanRestore

(* rollback moves it back.                                                  *)
LEMMA RestoreChains ==
    ASSUME TypeOK, OrigsApart, Phases, InOrder,
           AsPlanned(call.b), Chain, NEW i \in call.todo, RestoreVideo(i)
    PROVE  InOrder' /\ Chain'
  <1>1. /\ Busy /\ call.kind = "rollback" /\ Latest(i) /\ ~call.moved
        /\ call.b \in Batches /\ call \in Call
        /\ row(i) \in Row /\ row(i).orig \in Stem /\ row(i).new \in Stem
        /\ video \in [Stem -> Content]
        /\ video[row(i).new] # NoFile /\ video[row(i).orig] = NoFile
        /\ i \in DOMAIN rows[call.b] /\ call.todo = Done(call.b)
        /\ status[call.b] # "rolled_back"
    BY RowType DEF RestoreVideo, RollingBack, CanRestore, Busy, TypeOK, Call, Row, InOrder
  <1>2. /\ call'.b = call.b /\ call'.kind = "rollback" /\ call'.moved = TRUE
        /\ call'.todo = call.todo /\ status' = status
    BY <1>1 DEF RestoreVideo, Call
  <1>3. PICK new : new = [row(i) EXCEPT !.back = video[row(i).new]]
    OBVIOUS
  <1>4. /\ new \in Row /\ new.orig = row(i).orig /\ new.new = row(i).new
        /\ new.at = row(i).at /\ new.status = row(i).status /\ Mark(i, new)
    BY <1>1, <1>3 DEF Row, RestoreVideo
  <1> DEFINE D == Done(call.b)
             o(k) == rows[call.b][k].orig
             n(k) == rows[call.b][k].new
             at(k) == rows[call.b][k].at
  <1>5. /\ DOMAIN rows'[call.b] = DOMAIN rows[call.b]
        /\ rows'[call.b][i] = new
        /\ \A k \in DOMAIN rows[call.b] \ {i} : rows'[call.b][k] = rows[call.b][k]
    BY <1>1, <1>4, MarkRow
  <1>6. /\ Done(call.b)' = Done(call.b) /\ Restored(call.b)' = Restored(call.b)
    <2>1. i \in Done(call.b) /\ i \notin Restored(call.b) /\ row(i).status = "success"
      BY <1>1 DEF Done, Restored, RowsIn, row
    <2> QED
      BY <1>1, <1>2, <1>4, <2>1, MarkSets
  <1>7. /\ Away = D /\ Away' = D \ {i} /\ i \in D /\ D \subseteq DOMAIN rows[call.b]
    <2>1. Moving' = {} /\ Back' = {i}
      BY <1>1, <1>2, OneAtATime DEF Moving, Back, RollingBack, Latest
    <2> QED
      BY <1>1, <1>6, <2>1, AwayIs, OutRows DEF Away, Out
  <1>8. \A k \in DOMAIN rows[call.b] :
            /\ row(k)'.orig = o(k) /\ row(k)'.at = at(k)
            /\ rows'[call.b][k].new = n(k) /\ rows'[call.b][k].at = at(k)
            /\ o(k) \in Stem /\ at(k) \in Stem
    <2>1. \A k \in DOMAIN rows[call.b] : rows[call.b][k] \in Row
      BY OutRows DEF row
    <2> QED
      BY <1>2, <1>4, <1>5, <2>1 DEF row, Row
  <1>10. n(i) = at(i)
    BY <1>7 DEF AsPlanned
  <1>11. /\ video[at(i)] # NoFile /\ video[o(i)] = NoFile /\ at(i) # o(i)
         /\ video'[at(i)] = NoFile
         /\ \A x \in Stem \ {o(i), at(i)} : video'[x] = video[x]
    <2>1. row(i).new = at(i) /\ row(i).orig = o(i)
      BY <1>10 DEF row
    <2> QED
      BY <1>1, <2>1 DEF RestoreVideo, Shift
  <1>12. /\ \A k \in D : video[at(k)] # NoFile
         /\ \A k, l \in D : at(k) = at(l) => k = l
         /\ \A k \in D : video[o(k)] = NoFile \/ \E l \in D : l > k /\ at(l) = o(k)
    BY <1>7 DEF Chain, row
  <1>13. \A k \in DOMAIN rows[call.b] : o(k) = o(i) => k = i
    BY <1>1 DEF OrigsApart
  <1>14. InOrder'
    BY <1>1, <1>2, <1>6 DEF InOrder
  <1> HIDE DEF D, o, n, at
  <1>15. \A k \in Away' : video'[row(k)'.at] # NoFile
    <2> SUFFICES ASSUME NEW k \in D, k # i PROVE video'[at(k)] # NoFile
      BY <1>7, <1>8
    <2>1. at(k) # at(i) /\ at(k) # o(i) /\ at(k) \in Stem
      BY <1>7, <1>8, <1>11, <1>12
    <2> QED
      BY <1>11, <1>12, <2>1
  <1>16. \A k, l \in Away' : row(k)'.at = row(l)'.at => k = l
    BY <1>7, <1>8, <1>12
  <1>17. ASSUME NEW k \in Away', video'[row(k)'.orig] # NoFile
         PROVE  \E l \in Away' : l > k /\ row(l)'.at = row(k)'.orig
    <2>1. /\ k \in D /\ k # i /\ k \in DOMAIN rows[call.b]
          /\ row(k)'.orig = o(k) /\ o(k) \in Stem
      BY <1>7, <1>8, <1>17
    <2>2. o(k) # at(i) /\ o(k) # o(i)
      BY <1>11, <1>13, <1>17, <2>1
    <2>3. video[o(k)] # NoFile
      BY <1>11, <1>17, <2>1, <2>2
    <2>4. PICK l \in D : l > k /\ at(l) = o(k)
      BY <1>12, <2>1, <2>3
    <2>5. l \in Away' /\ row(l)'.at = at(l)
      BY <1>7, <1>8, <2>2, <2>4
    <2> QED
      BY <2>1, <2>4, <2>5
  <1> QED
    BY <1>14, <1>15, <1>16, <1>17 DEF Chain

LEMMA FaultlessInit == Init => FaultlessInv
  <1> SUFFICES ASSUME Init PROVE InOrder /\ Chain
    BY DEF FaultlessInv
  <1>1. PICK c \in Batches : call = Idle(c)
    BY DEF Init
  <1>2. /\ call.kind = "none" /\ call.b \in Batches /\ rows[call.b] = <<>>
        /\ status[call.b] = "none" /\ ~call.moved
    BY <1>1 DEF Init, Idle
  <1>3. Done(call.b) = {} /\ Away = {}
    BY <1>2, AwayIs DEF Done, RowsIn
  <1> QED
    BY <1>2, <1>3 DEF InOrder, Chain

LEMMA FaultlessStep ==
    ASSUME Alone, Faults = {}
    PROVE  IInv /\ FaultlessInv /\ [Next]_vars => FaultlessInv'
  <1> SUFFICES ASSUME IInv, FaultlessInv, [Next]_vars, AsPlanned(call.b)'
               PROVE  InOrder' /\ Chain'
    BY DEF FaultlessInv
  <1>1. /\ TypeOK /\ Unique /\ OrigsApart /\ Phases /\ Waits
        /\ call.b \in Batches /\ call \in Call /\ status \in [Batches -> BatchStatus]
    BY DEF IInv, TypeOK, Call
  <1>2. AsPlanned(call.b) => InOrder /\ Chain
    BY DEF FaultlessInv
  <1>3. TypeOK' /\ call'.b = call.b
    <2>1. TypeOK'
      BY <1>1, StepTypes
    <2> QED
      BY <1>1, <2>1 DEF TypeOK, Call, Alone
  <1>5. Steady => InOrder /\ Chain
    BY <1>1, <1>2, WasPlanned
  <1>6. ASSUME NEW i \in call.todo, MoveFails(i) PROVE FALSE
    <2>1. /\ call.kind = "execute" /\ ~call.moved /\ video[row(i).orig] = NoFile
      BY <1>6 DEF MoveFails, Executing
    <2>2. i \in Waiting
      BY <1>1, <2>1 DEF Waiting, Moving, TypeOK, Busy
    <2> QED
      BY <1>1, <2>1, <2>2 DEF Waits
  <1>7. ASSUME NEW i \in call.todo, RestoreFails(i) PROVE FALSE
    <2>1. RollingBack(i) /\ ~call.moved /\ ~CanRestore(row(i))
      BY <1>7 DEF RestoreFails
    <2>2. Steady
      BY <1>1, <1>7, RollbackSteady
    <2>3. InOrder /\ Chain /\ AsPlanned(call.b)
      BY <1>1, <1>5, <2>2, WasPlanned
    <2> QED
      BY <1>1, <2>1, <2>3, IsVacant
  <1>8. ASSUME NEW i \in call.todo, RowStep(i) PROVE InOrder' /\ Chain'
    <2>1. CASE MoveVideo(i)
      <3>1. AsPlanned(call.b)
        BY <1>1, <2>1, MovePlanned
      <3> QED
        BY <1>1, <1>2, <2>1, <3>1, MoveChains
    <2>2. CASE RestoreVideo(i)
      <3>1. AsPlanned(call.b)
        BY <1>1, <2>2, MovePlanned
      <3> QED
        BY <1>1, <1>2, <2>2, <3>1, RestoreChains
    <2>3. CASE MoveDone(i) \/ \E e \in Sidecars : MoveSidecar(i, e)
      BY <1>1, <1>5, <2>3, ExecuteSteady, DoneChains
    <2>4. CASE RestoreDone(i) \/ \E e \in Sidecars : RestoreSidecar(i, e)
      BY <1>1, <1>5, <2>4, RollbackSteady, RestoredChains
    <2> QED
      BY <1>6, <1>7, <1>8, <2>1, <2>2, <2>3, <2>4 DEF RowStep
  <1>9. ASSUME NEW b \in Batches, Preview(b) \/ ExecuteOperations(b)
        PROVE  InOrder' /\ Chain'
    <2>1. Phases' /\ b = call.b
      BY <1>1, <1>9, BatchBegins DEF Alone
    <2>2. CASE Preview(b)
      <3>1. call' = call /\ call.kind = "none" /\ status'[call.b] = "previewing"
        BY <1>1, <2>1, <2>2 DEF Preview, Busy
      <3>2. Done(call.b)' = {}
        BY <1>3, <2>1, <3>1 DEF Phases
      <3>3. Away' = {}
        BY <1>3, <3>1, <3>2 DEF Away, Moving
      <3> QED
        BY <1>3, <3>1, <3>2, <3>3 DEF InOrder, Chain
    <2>3. CASE ExecuteOperations(b)
      <3>1. /\ call'.kind = "execute" /\ ~call'.moved
            /\ status'[call.b] = "executing"
        BY <1>1, <2>1, <2>3 DEF ExecuteOperations, Begin, Idle
      <3>2. Done(call.b)' = {}
        <4>1. Done(call.b) = {}
          BY <1>1, <2>1, <2>3 DEF ExecuteOperations, Phases
        <4>2. /\ DOMAIN rows'[call.b] = DOMAIN rows[call.b]
              /\ \A k \in DOMAIN rows[call.b] :
                    rows'[call.b][k].status \in {"matched", rows[call.b][k].status}
          BY <1>1, <2>1, <2>3, OperationRows
        <4> QED
          BY <1>3, <4>1, <4>2 DEF Done, RowsIn
      <3>3. Away' = {}
        BY <1>3, <3>1, <3>2 DEF Away, Moving
      <3> QED
        BY <1>3, <3>1, <3>2, <3>3 DEF InOrder, Chain
    <2> QED
      BY <1>9, <2>2, <2>3
  <1>10. CASE \/ ExecuteEnds \/ RollbackEnds
              \/ \E b \in Batches : Execute(b) \/ Rollback(b)
              \/ UNCHANGED vars
    <2>1. Steady
      BY <1>1, <1>10, CallsSteady
    <2> QED
      BY <1>1, <1>5, <1>10, <2>1, CallsChain
  <1>11. ~Crash /\ \A f \in Files : ~Arrive(f)
    BY DEF Crash, Arrive
  <1> QED
    BY <1>8, <1>9, <1>10, <1>11 DEF Next, Step

(* Where nothing fails and no other program writes, a rollback of a batch   *)
(* alone, whose renames got the names they planned, leaves no row behind:   *)
(* rows that took each other's names are taken back last to first, each     *)
(* finding its own path free (rollback, executed_at.desc()).           *)
THEOREM NoneLeftBehind ==
    ASSUME Alone, Faults = {}
    PROVE  Spec => []RollbackComplete
  <1>1. ASSUME IInv, FaultlessInv PROVE RollbackComplete
    <2>1. \A b \in Batches : b = call.b
      BY <1>1 DEF IInv, TypeOK, Call, Alone
    <2> QED
      BY <1>1, <2>1 DEF FaultlessInv, InOrder, RollbackComplete
  <1>2. IInv /\ FaultlessInv /\ [Next]_vars => IInv' /\ FaultlessInv'
    BY StepIInv, FaultlessStep
  <1> QED
    BY <1>1, <1>2, InitIInv, FaultlessInit, PTL DEF Spec
=============================================================================
