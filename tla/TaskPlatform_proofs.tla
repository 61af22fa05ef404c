------------------------- MODULE TaskPlatform_proofs -------------------------
(****************************************************************************)
(* Proofs about TaskPlatform, for every number of tasks, owners, slots and  *)
(* cancel requests and every set of environment moves.                      *)
(****************************************************************************)
EXTENDS TaskPlatform, TLAPS

(* The row operators of the model keep rows well formed (the columns that    *)
(* claim_next_task, recover_expired_leases, cancel_task and                 *)
(* _clear_finished_lease assign).                                           *)
LEMMA RowTypes ==
    /\ NoRow \in Row
    /\ \A max \in Nat \ {0} : NewRow(max) \in Row
    /\ \A row \in Row :
          /\ Released(row) \in Row
          /\ Rearmed(row) \in Row
          /\ \A o \in Owners : Claimed(row, o) \in Row
          /\ \A v \in {"cancelled", "failed", "retry_scheduled"} :
                Recovered(row, v) \in Row
          /\ \A s \in Status : [row EXCEPT !.status = s] \in Row
          /\ [row EXCEPT !.lease = "live"] \in Row
          /\ [row EXCEPT !.lease = "expired"] \in Row
          /\ [row EXCEPT !.due = TRUE] \in Row
  <1> USE DEF Row, Status, Leaseable, Active, Terminal
  <1>1. NoRow \in Row
    BY DEF NoRow
  <1>2. ASSUME NEW max \in Nat \ {0} PROVE NewRow(max) \in Row
    BY DEF NoRow, NewRow
  <1>3. ASSUME NEW row \in Row PROVE Released(row) \in Row
    BY DEF Released
  <1>4. ASSUME NEW row \in Row PROVE Rearmed(row) \in Row
    BY <1>3 DEF Rearmed
  <1>5. ASSUME NEW row \in Row, NEW o \in Owners PROVE Claimed(row, o) \in Row
    <2>1. row.attempt + 1 \in Nat
      OBVIOUS
    <2> QED
      BY <2>1 DEF Claimed
  <1>6. ASSUME NEW row \in Row,
               NEW v \in {"cancelled", "failed", "retry_scheduled"}
        PROVE  Recovered(row, v) \in Row
    BY <1>3 DEF Recovered
  <1>7. ASSUME NEW row \in Row
        PROVE  /\ \A s \in Status : [row EXCEPT !.status = s] \in Row
               /\ [row EXCEPT !.lease = "live"] \in Row
               /\ [row EXCEPT !.lease = "expired"] \in Row
               /\ [row EXCEPT !.due = TRUE] \in Row
    OBVIOUS
  <1> HIDE DEF Row, Status, Leaseable, Active, Terminal
  <1> QED
    BY <1>1, <1>2, <1>3, <1>4, <1>5, <1>6, <1>7

(* What the same operators do to the retry budget.                          *)
LEMMA RowBudgets ==
    /\ BudgetLeft(NoRow)
    /\ \A max \in Nat \ {0} : BudgetLeft(NewRow(max))
    /\ \A row \in Row : BudgetLeft(row) =>
          /\ BudgetLeft(Released(row))
          /\ row.attempt < row.max => BudgetLeft(Rearmed(row))
          /\ \A o \in Owners : Claimable(row) => BudgetLeft(Claimed(row, o))
          /\ \A v \in {"cancelled", "failed", "retry_scheduled"} :
                (v = "retry_scheduled" => row.attempt < row.max)
                    => BudgetLeft(Recovered(row, v))
          /\ \A s \in Status \ Leaseable : BudgetLeft([row EXCEPT !.status = s])
          /\ BudgetLeft([row EXCEPT !.lease = "live"])
          /\ BudgetLeft([row EXCEPT !.lease = "expired"])
          /\ BudgetLeft([row EXCEPT !.due = TRUE])
  BY DEF NoRow, Row, NewRow, Released, Rearmed, Claimed, Recovered, Status,
         Leaseable, Active, Terminal, BudgetLeft, Claimable

(* Initially nothing is in the table and no process has started.            *)
LEMMA InvInit == Init => Inv
  <1> SUFFICES ASSUME Init PROVE Inv
    OBVIOUS
  <1>1. TypeOK
    BY RowTypes, PlatformAssumption
    DEF Init, TypeOK, ProcState, NoVerdicts, Idle, RunRec, PC, NoCancel,
        CancelRec
  <1>2. RunHasTask
    BY DEF Init, RunHasTask, Idle
  <1>3. RunsNeedProcess /\ RecoveringIsIdle
    BY DEF Init, RunsNeedProcess, RecoveringIsIdle, Idle
  <1>4. CancelsAreReal
    BY DEF Init, CancelsAreReal
  <1>5. \A t \in Tasks : BudgetLeft(table[t])
    BY RowBudgets DEF Init
  <1>6. OneProcess
    BY DEF Init, OneProcess, Alive
  <1>7. RearmAffordable
    BY DEF Init, RearmAffordable, Idle
  <1>8. RecoveryAffordable
    BY DEF Init, RecoveryAffordable, NoVerdicts
  <1> QED
    BY <1>1, <1>2, <1>3, <1>4, <1>5, <1>6, <1>7, <1>8 DEF Inv

-----------------------------------------------------------------------------
(* Every step but a claim, a start and the read of _clear_finished_lease    *)
(* has this shape: rows keep an attempt if they had one, and no run newly   *)
(* decides on a retry.                                                      *)
Recovering == \E o \in Owners : proc[o] = "recovering"

TableStep ==
    /\ table' \in [Tasks -> Row]
    /\ \A t \in Tasks :
          /\ BudgetLeft(table'[t])
          /\ table[t].attempt < table[t].max =>
                table'[t].attempt < table'[t].max
          /\ Recovering /\ table'[t].status \in Leaseable =>
                table[t].status \in Leaseable

Quiet ==
    /\ TableStep
    /\ UNCHANGED <<proc, snapshot, candidate>>
    /\ run' \in [Runs -> RunRec]
    /\ \A r \in Runs :
          /\ run'[r].pc # "idle" => run'[r].task \in Tasks
          /\ run'[r].pc # "idle" => run[r].pc # "idle"
          /\ run'[r].pc = "rearm" => run'[r] = run[r]
    /\ cancel' \in [Requests -> CancelRec]
    /\ CancelsAreReal'
    /\ gen' \in [Tasks -> Nat]
    /\ asked' \subseteq Tasks
    /\ finished' \subseteq Tasks

LEMMA InvQuiet == Inv /\ Quiet => Inv'
  <1> SUFFICES ASSUME Inv, Quiet PROVE Inv'
    OBVIOUS
  <1>1. TypeOK'
    BY DEF Inv, Quiet, TableStep, TypeOK
  <1>2. RunHasTask'
    BY DEF Quiet, RunHasTask
  <1>3. RunsNeedProcess' /\ RecoveringIsIdle'
    BY DEF Inv, Quiet, RunsNeedProcess, RecoveringIsIdle, Alive
  <1>4. CancelsAreReal'
    BY DEF Quiet, CancelsAreReal
  <1>5. (\A t \in Tasks : BudgetLeft(table[t]))'
    BY DEF Quiet, TableStep
  <1>6. OneProcess'
    BY DEF Inv, Quiet, OneProcess, Alive
  <1>7. RearmAffordable'
    <2> SUFFICES ASSUME NEW r \in Runs, run'[r].pc = "rearm"
                 PROVE  /\ candidate'[r[1]] = NoTask
                        /\ table'[run'[r].task].attempt <
                              table'[run'[r].task].max
      BY DEF RearmAffordable
    <2>1. run'[r] = run[r] /\ run[r].task \in Tasks
      BY DEF Quiet
    <2>2. /\ candidate[r[1]] = NoTask
          /\ table[run[r].task].attempt < table[run[r].task].max
      BY <2>1 DEF Inv, RearmAffordable
    <2> QED
      BY <2>1, <2>2 DEF Quiet, TableStep
  <1>8. RecoveryAffordable'
    <2>1. \A o \in Owners : proc[o] # "recovering" => snapshot[o] = NoVerdicts
      BY DEF Inv, RecoveryAffordable
    <2>2. \A o \in Owners, t \in Tasks : snapshot[o][t] # "none" => Recovering
      BY <2>1 DEF Recovering, NoVerdicts
    <2> QED
      BY <2>2 DEF Inv, Quiet, TableStep, RecoveryAffordable
  <1> QED
    BY <1>1, <1>2, <1>3, <1>4, <1>5, <1>6, <1>7, <1>8 DEF Inv

LEMMA RunOwner == \A r \in Runs : r[1] \in Owners
  BY DEF Runs

(* The common case of a Quiet step: one row changes.                        *)
LEMMA OneRow ==
  ASSUME Inv, NEW t \in Tasks, NEW new \in Row, BudgetLeft(new),
         table[t].attempt < table[t].max => new.attempt < new.max,
         Recovering /\ new.status \in Leaseable => table[t].status \in Leaseable,
         table' = [table EXCEPT ![t] = new]
  PROVE  TableStep
  BY DEF Inv, TypeOK, TableStep

(* ... and the other: the table stays as it is.                             *)
LEMMA SameTable ==
  ASSUME Inv, UNCHANGED table
  PROVE  TableStep
  BY DEF Inv, TypeOK, TableStep

(* A run moves on, and may write a status that cannot be claimed.           *)
LEMMA StatusWrite ==
  ASSUME Inv, NEW t \in Tasks, NEW s \in Status \ Leaseable,
         table' = [table EXCEPT ![t].status = s]
  PROVE  TableStep
  <1> DEFINE new == [table[t] EXCEPT !.status = s]
  <1>1. table[t] \in Row /\ BudgetLeft(table[t])
    BY DEF Inv, TypeOK
  <1>2. new \in Row /\ BudgetLeft(new)
    BY <1>1, RowTypes, RowBudgets
  <1>3. /\ new.attempt = table[t].attempt /\ new.max = table[t].max
        /\ new.status \notin Leaseable
    BY <1>1 DEF Row
  <1>4. table' = [table EXCEPT ![t] = new]
    BY DEF Inv, TypeOK
  <1> HIDE DEF new
  <1> QED
    BY <1>2, <1>3, <1>4, OneRow

LEMMA GotoQuiet ==
  ASSUME Inv, NEW r \in Runs, run[r].pc # "idle",
         NEW pc \in PC \ {"idle", "rearm"}, Goto(r, pc)
  PROVE  /\ run' \in [Runs -> RunRec]
         /\ \A x \in Runs :
               /\ run'[x].pc # "idle" => run'[x].task \in Tasks
               /\ run'[x].pc # "idle" => run[x].pc # "idle"
               /\ run'[x].pc = "rearm" => run'[x] = run[x]
  BY DEF Inv, TypeOK, RunHasTask, Goto, RunRec

LEMMA EndQuiet ==
  ASSUME Inv, NEW r \in Runs, EndRun(r)
  PROVE  /\ run' \in [Runs -> RunRec]
         /\ \A x \in Runs :
               /\ run'[x].pc # "idle" => run'[x].task \in Tasks
               /\ run'[x].pc # "idle" => run[x].pc # "idle"
               /\ run'[x].pc = "rearm" => run'[x] = run[x]
  BY DEF Inv, TypeOK, RunHasTask, EndRun, RunRec, Idle, PC

LEMMA SameRun ==
  ASSUME Inv, UNCHANGED run
  PROVE  /\ run' \in [Runs -> RunRec]
         /\ \A x \in Runs :
               /\ run'[x].pc # "idle" => run'[x].task \in Tasks
               /\ run'[x].pc # "idle" => run[x].pc # "idle"
               /\ run'[x].pc = "rearm" => run'[x] = run[x]
  BY DEF Inv, TypeOK, RunHasTask

-----------------------------------------------------------------------------
(* The steps of the API threads and of time. *)

LEMMA ApiInv == Inv /\ ApiStep => Inv'
  <1> SUFFICES ASSUME Inv, ApiStep PROVE Inv'
    OBVIOUS
  <1> USE DEF history
  <1>1. ASSUME NEW t \in Tasks, NEW max \in AttemptLimits, Create(t, max)
        PROVE  Inv'
    <2>1. max \in Nat \ {0}
      BY PlatformAssumption
    <2>2. NewRow(max) \in Row /\ BudgetLeft(NewRow(max))
      BY <2>1, RowTypes, RowBudgets
    <2>3. NewRow(max).attempt < NewRow(max).max
      BY <2>1 DEF NewRow, NoRow
    <2>4. ~Recovering
      BY <1>1 DEF Create, ApiUp, Inv, OneProcess, Recovering, Alive, Serving
    <2>5. table' = [table EXCEPT ![t] = NewRow(max)]
      BY <1>1 DEF Create
    <2>6. gen' \in [Tasks -> Nat]
      BY <1>1 DEF Create, Inv, TypeOK
    <2> QED
      BY <1>1, <2>2, <2>3, <2>4, <2>5, <2>6, OneRow, SameRun, InvQuiet
      DEF Create, CancelsAreReal, Quiet, Inv, TypeOK
  <1>2. ASSUME NEW t \in Tasks, Delete(t) PROVE Inv'
    <2>1. /\ NoRow \in Row /\ BudgetLeft(NoRow) /\ NoRow.attempt < NoRow.max
          /\ NoRow.status \notin Leaseable
      BY RowTypes, RowBudgets DEF NoRow, Leaseable
    <2> QED
      BY <1>2, <2>1, OneRow, SameRun, InvQuiet DEF Delete, CancelsAreReal, Quiet, Inv, TypeOK
  <1>3. ASSUME NEW t \in Tasks, CancelAgain(t) PROVE Inv'
    BY <1>3, SameTable, SameRun, InvQuiet DEF CancelAgain, CancelsAreReal, Quiet, Inv, TypeOK
  <1>4. ASSUME NEW t \in Tasks, NEW q \in Requests, NEW o \in Owners,
               ReadForCancel(q, o, t)
        PROVE  Inv'
    <2>1. cancel' \in [Requests -> CancelRec]
      BY <1>4 DEF ReadForCancel, Inv, TypeOK, CancelRec, CancelWrite
    <2> QED
      BY <1>4, <2>1, SameTable, SameRun, InvQuiet
      DEF ReadForCancel, CancelsAreReal, CancelWrite, StopAsked, Quiet, Inv, TypeOK
  <1>5. ASSUME NEW q \in Requests, CommitCancel(q) PROVE Inv'
    <2> DEFINE t == cancel[q].task
    <2>1. cancel' \in [Requests -> CancelRec]
      BY <1>5 DEF CommitCancel, Inv, TypeOK, CancelRec, NoCancel
    <2>2. CASE ~Present(table[t])
      BY <1>5, <2>1, <2>2, SameTable, SameRun, InvQuiet
      DEF CommitCancel, CancelsAreReal, Quiet, Inv, TypeOK
    <2>3. CASE Present(table[t])
      <3>1. t \in Tasks /\ cancel[q].write \in Status \ Leaseable
        BY <1>5 DEF CommitCancel, Inv, CancelsAreReal, StopAsked, Status,
                    Leaseable, Terminal, CancelRec
      <3> QED
        BY <1>5, <2>1, <2>3, <3>1, StatusWrite, SameRun, InvQuiet
        DEF CommitCancel, CancelsAreReal, Quiet, Inv, TypeOK
    <2> QED
      BY <2>2, <2>3
  <1> QED
    BY <1>1, <1>2, <1>3, <1>4, <1>5 DEF ApiStep

LEMMA TimeInv == Inv /\ TimeStep => Inv'
  <1> SUFFICES ASSUME Inv, NEW t \in Tasks, LeaseExpires(t) \/ BecomesDue(t)
               PROVE  Inv'
    BY DEF TimeStep
  <1> USE DEF history
  <1> DEFINE expired == [table[t] EXCEPT !.lease = "expired"]
             due     == [table[t] EXCEPT !.due = TRUE]
  <1>1. table[t] \in Row /\ BudgetLeft(table[t])
    BY DEF Inv, TypeOK
  <1>2. /\ expired \in Row /\ BudgetLeft(expired)
        /\ due \in Row /\ BudgetLeft(due)
    BY <1>1, RowTypes, RowBudgets
  <1>3. /\ expired.attempt = table[t].attempt /\ expired.max = table[t].max
        /\ due.attempt = table[t].attempt /\ due.max = table[t].max
        /\ expired.status = table[t].status /\ due.status = table[t].status
    BY <1>1 DEF Row
  <1>4. \/ table' = [table EXCEPT ![t] = expired]
        \/ table' = [table EXCEPT ![t] = due]
    BY DEF LeaseExpires, BecomesDue, Inv, TypeOK
  <1> HIDE DEF expired, due
  <1>5. TableStep
    BY <1>2, <1>3, <1>4, OneRow
  <1> QED
    BY <1>5, SameRun, InvQuiet
    DEF LeaseExpires, BecomesDue, CancelsAreReal, Quiet, Inv, TypeOK

-----------------------------------------------------------------------------
(* The steps of a run. *)

(* A run moves and leaves the table alone.                                  *)
LEMMA RunMoves ==
  ASSUME Inv, NEW r \in Runs, run[r].pc # "idle",
         EndRun(r) \/ \E pc \in PC \ {"idle", "rearm"} : Goto(r, pc),
         UNCHANGED <<table, proc, snapshot, candidate, cancel, history>>
  PROVE  Inv'
  BY SameTable, GotoQuiet, EndQuiet, InvQuiet
  DEF Quiet, Inv, TypeOK, CancelsAreReal, history

(* A run moves and writes a status, if its row is still there.              *)
LEMMA RunWrites ==
  ASSUME Inv, NEW r \in Runs, run[r].pc # "idle",
         NEW s \in Status \ Leaseable,
         \E pc \in PC \ {"idle", "rearm"} : Goto(r, pc),
         \/ UNCHANGED table
         \/ table' = [table EXCEPT ![run[r].task].status = s],
         UNCHANGED <<proc, snapshot, candidate, cancel, gen, asked>>,
         finished' \subseteq Tasks
  PROVE  Inv'
  <1>1. run[r].task \in Tasks
    BY DEF Inv, RunHasTask
  <1> QED
    BY <1>1, SameTable, StatusWrite, GotoQuiet, InvQuiet
    DEF Quiet, Inv, TypeOK, CancelsAreReal

LEMMA PutInv ==
  ASSUME Inv, NEW r \in Runs,
         NEW from \in PC \ {"idle"}, NEW s \in Status \ Leaseable,
         NEW to \in PC \ {"idle", "rearm"}, Put(r, from, s, to)
  PROVE  Inv'
  <1>1. run[r].pc # "idle" /\ run[r].task \in Tasks
    BY DEF Put, Inv, RunHasTask
  <1>2. finished' \subseteq Tasks
    BY <1>1 DEF Put, Inv, TypeOK
  <1>3. \E pc \in PC \ {"idle", "rearm"} : Goto(r, pc)
    BY DEF Put, PC, Tail
  <1> QED
    BY <1>1, <1>2, <1>3, RunWrites DEF Put

LEMMA CheckInv ==
  ASSUME Inv, NEW r \in Runs, NEW from \in PC \ {"idle"},
         NEW to \in PC \ {"idle", "rearm"}, Check(r, from, to)
  PROVE  Inv'
  <1>1. \E pc \in PC \ {"idle", "rearm"} : Goto(r, pc)
    BY DEF Check, PC, Straight, Tail
  <1> QED
    BY <1>1, RunMoves DEF Check

LEMMA HandleInv ==
  ASSUME Inv, NEW r \in Runs, NEW from \in PC \ {"idle"},
         NEW s \in Status \ Leaseable, Handle(r, from, s)
  PROVE  Inv'
  <1>1. \E pc \in PC \ {"idle", "rearm"} : Goto(r, pc)
    BY DEF Handle, PC, Tail
  <1> QED
    BY <1>1, RunWrites DEF Handle, history, Inv, TypeOK

(* Setting the try counter besides the place is still a move.               *)
LEMMA TryInv ==
  ASSUME Inv, NEW r \in Runs, NEW n \in Nat, run[r].pc # "idle",
         run' = [run EXCEPT ![r].pc = "work", ![r].try = n],
         UNCHANGED <<table, proc, snapshot, candidate, cancel, history>>
  PROVE  Inv'
  <1>1. /\ run' \in [Runs -> RunRec]
        /\ \A x \in Runs :
              /\ run'[x].pc # "idle" => run'[x].task \in Tasks
              /\ run'[x].pc # "idle" => run[x].pc # "idle"
              /\ run'[x].pc = "rearm" => run'[x] = run[x]
    BY DEF Inv, TypeOK, RunHasTask, RunRec, PC, Awaiting
  <1> QED
    BY <1>1, SameTable, InvQuiet
    DEF Quiet, Inv, TypeOK, CancelsAreReal, history

(* The one step of a run that does not have the Quiet shape: a retry is     *)
(* decided, while an attempt is left and nothing of this process can claim. *)
LEMMA ReadForClearInv ==
  ASSUME Inv, NEW r \in Runs, ReadForClear(r)
  PROVE  Inv'
  <1> DEFINE row == table[run[r].task]
  <1>1. run[r].pc = "clear" /\ run[r].task \in Tasks
    BY DEF ReadForClear, Inv, RunHasTask
  <1>2. CASE EndRun(r)
    BY <1>1, <1>2, RunMoves DEF ReadForClear
  <1>3. CASE Goto(r, "release")
    BY <1>1, <1>3, RunMoves DEF ReadForClear, PC, Tail
  <1>4. CASE Goto(r, "rearm") /\ row.owner = r[1] /\ ~Exhausted(row)
    <2>1. row.attempt < row.max
      BY <1>1, <1>4 DEF Inv, TypeOK, Row, Exhausted
    <2>2. Alive(r[1]) /\ candidate[r[1]] = NoTask
      BY <1>1 DEF ReadForClear, Inv, RunsNeedProcess
    <2>3. run' \in [Runs -> RunRec] /\ RunHasTask'
      BY <1>1, <1>4 DEF Inv, TypeOK, RunHasTask, Goto, RunRec, PC, Tail
    <2>4. TypeOK' /\ CancelsAreReal' /\ OneProcess' /\ RecoveryAffordable'
          /\ \A t \in Tasks : BudgetLeft(table[t])'
      BY <2>3 DEF ReadForClear, Inv, TypeOK, CancelsAreReal, OneProcess,
                  RecoveryAffordable, Alive, history
    <2>5. RearmAffordable'
      BY <1>4, <2>1, <2>2 DEF ReadForClear, Inv, TypeOK, RearmAffordable,
                              Goto, Alive, RunRec
    <2>6. RunsNeedProcess' /\ RecoveringIsIdle'
      BY <1>1, <1>4, <2>2 DEF ReadForClear, Inv, TypeOK, RunsNeedProcess,
                              RecoveringIsIdle, Goto, Alive, RunRec
    <2> QED
      BY <2>3, <2>4, <2>5, <2>6 DEF Inv
  <1> QED
    BY <1>2, <1>3, <1>4 DEF ReadForClear

LEMMA RunInv == ASSUME Inv, NEW r \in Runs, RunStep(r) PROVE Inv'
  <1> USE DEF PC, Awaiting, Straight, Tail
  <1>0. {"planning", "running", "reviewing", "failed", "cancelled"} \cup Succeeded
            \subseteq Status \ Leaseable
    BY DEF Status, Leaseable, Active, Terminal, Succeeded
  <1>1. CASE BeginMissing(r)
    BY <1>1, RunMoves DEF BeginMissing
  <1>2. CASE Begin(r)
    BY <1>0, <1>2, PutInv DEF Begin
  <1>3. CASE CheckPlan(r)
    BY <1>3, CheckInv DEF CheckPlan
  <1>4. CASE Route(r)
    BY <1>0, <1>4, PutInv DEF Route
  <1>5. CASE CheckRoute(r)
    <2>1. \/ \E pc \in PC \ {"idle", "rearm"} : Goto(r, pc)
          \/ run' = [run EXCEPT ![r].pc = "work", ![r].try = 1]
      BY <1>5 DEF CheckRoute
    <2> QED
      BY <1>5, <2>1, RunMoves, TryInv DEF CheckRoute
  <1>6. CASE WorkDone(r)
    BY <1>6, RunMoves DEF WorkDone
  <1>7. CASE WorkCancelled(r)
    BY <1>7, RunMoves DEF WorkCancelled
  <1>8. CASE WorkRaises(r)
    <2>1. CASE run' = [run EXCEPT ![r].try = @ + 1]
      <3>1. run[r].try + 1 \in Nat
        BY DEF Inv, TypeOK, RunRec
      <3>2. run' = [run EXCEPT ![r].pc = "work", ![r].try = run[r].try + 1]
        BY <1>8, <2>1 DEF WorkRaises, Inv, TypeOK, RunRec
      <3> QED
        BY <1>8, <3>1, <3>2, TryInv DEF WorkRaises
    <2>2. CASE Goto(r, "failing") \/ Goto(r, "clear")
      BY <1>8, <2>2, RunMoves DEF WorkRaises
    <2> QED
      BY <1>8, <2>1, <2>2 DEF WorkRaises
  <1>9. CASE CheckWork(r)
    BY <1>9, CheckInv DEF CheckWork
  <1>10. CASE Review(r)
    BY <1>0, <1>10, PutInv DEF Review
  <1>11. CASE Finish(r)
    BY <1>0, <1>11, PutInv DEF Finish
  <1>12. CASE Announce(r)
    BY <1>12, RunMoves DEF Announce
  <1>13. CASE OnCancelled(r) \/ OnException(r)
    BY <1>0, <1>13, HandleInv DEF OnCancelled, OnException
  <1>14. CASE ReadForClear(r) \/ BadParams(r)
    BY <1>14, ReadForClearInv, RunMoves DEF BadParams
  <1>15. CASE Rearm(r) \/ Release(r)
    <2> DEFINE t   == run[r].task
               new == IF Rearm(r) THEN Rearmed(table[t]) ELSE Released(table[t])
    <2>1. t \in Tasks /\ run[r].pc # "idle"
      BY <1>15 DEF Rearm, Release, Clear, Inv, RunHasTask
    <2>2. table[t] \in Row /\ BudgetLeft(table[t])
      BY <2>1 DEF Inv, TypeOK
    <2>3. /\ Rearmed(table[t]) \in Row /\ Released(table[t]) \in Row
          /\ BudgetLeft(Released(table[t]))
      BY <2>2, RowTypes, RowBudgets
    <2>4. Rearm(r) => BudgetLeft(Rearmed(table[t]))
      BY <2>2, RowBudgets DEF Rearm, Clear, Inv, RearmAffordable
    <2>5. /\ Rearmed(table[t]).attempt = table[t].attempt
          /\ Released(table[t]).attempt = table[t].attempt
          /\ Rearmed(table[t]).max = table[t].max
          /\ Released(table[t]).max = table[t].max
      BY <2>2 DEF Row, Rearmed, Released
    <2>6. UNCHANGED table \/ table' = [table EXCEPT ![t] = new]
      BY <1>15 DEF Rearm, Release, Clear
    <2>7. new \in Row /\ BudgetLeft(new)
          /\ (table[t].attempt < table[t].max => new.attempt < new.max)
      BY <2>3, <2>4, <2>5
    <2> HIDE DEF new
    <2>8. ~Recovering
      <3>1. proc[r[1]] # "recovering" /\ Alive(r[1])
        BY <2>1 DEF Inv, RecoveringIsIdle, RunsNeedProcess
      <3> QED
        BY <3>1, RunOwner DEF Inv, OneProcess, Recovering, Alive
    <2>9. TableStep
      BY <2>1, <2>6, <2>7, <2>8, OneRow, SameTable
    <2> QED
      BY <1>15, <2>9, EndQuiet, InvQuiet
      DEF Rearm, Release, Clear, Quiet, Inv, TypeOK, CancelsAreReal, history
  <1> HIDE DEF PC, Awaiting, Straight, Tail
  <1> QED
    BY <1>1, <1>2, <1>3, <1>4, <1>5, <1>6, <1>7, <1>8, <1>9, <1>10, <1>11,
       <1>12, <1>13, <1>14, <1>15 DEF RunStep

LEMMA HeartbeatInv == ASSUME Inv, NEW r \in Runs, Heartbeat(r) PROVE Inv'
  <1> DEFINE t   == run[r].task
             new == [table[t] EXCEPT !.lease = "live"]
  <1>1. t \in Tasks
    BY DEF Heartbeat, Awaiting, Inv, RunHasTask
  <1>2. table[t] \in Row /\ BudgetLeft(table[t])
    BY <1>1 DEF Inv, TypeOK
  <1>3. new \in Row /\ BudgetLeft(new)
    BY <1>2, RowTypes, RowBudgets
  <1>4. /\ new.attempt = table[t].attempt /\ new.max = table[t].max
        /\ new.status = table[t].status
    BY <1>2 DEF Row
  <1>5. table' = [table EXCEPT ![t] = new]
    BY DEF Heartbeat, Inv, TypeOK
  <1> HIDE DEF new
  <1> QED
    BY <1>1, <1>3, <1>4, <1>5, OneRow, SameRun, InvQuiet
    DEF Heartbeat, Quiet, Inv, TypeOK, CancelsAreReal, history

LEMMA RunDbErrorInv == ASSUME Inv, NEW r \in Runs, RunDbError(r) PROVE Inv'
  <1>1. EndRun(r) \/ \E pc \in PC \ {"idle", "rearm"} : Goto(r, pc)
    BY DEF RunDbError, PC, Straight, Tail
  <1>2. run[r].pc # "idle"
    BY DEF RunDbError, Tail
  <1> QED
    BY <1>1, <1>2, RunMoves DEF RunDbError

-----------------------------------------------------------------------------
(* The steps of a process.  SingleProcess is needed from here on: a second  *)
(* process could claim between a recovery's read and its commit.            *)

(* recover_expired_leases decides on a retry only with an attempt left.     *)
LEMMA StartInv ==
  ASSUME SingleProcess, Inv, NEW o \in Owners, Start(o)
  PROVE  Inv'
  <1> USE DEF Inv, Start, history
  <1>1. \A t \in Tasks :
           /\ table[t] \in Row
           /\ RecoveryVerdict(table[t]) \in {"cancelled", "failed",
                                             "retry_scheduled"}
           /\ RecoveryVerdict(table[t]) = "retry_scheduled" =>
                 table[t].attempt < table[t].max
           /\ NeedsRecovery(table[t]) => table[t].status \notin Leaseable
    BY DEF TypeOK, RecoveryVerdict, Exhausted, NeedsRecovery, Active, Leaseable,
           Row
  <1>2. TypeOK'
    BY <1>1 DEF TypeOK, ProcState
  <1>3. OneProcess'
    BY DEF TypeOK, OneProcess, Alive
  <1>4. RunHasTask' /\ CancelsAreReal' /\ \A t \in Tasks : BudgetLeft(table[t])'
    BY DEF RunHasTask, CancelsAreReal
  <1>5. RunsNeedProcess' /\ RecoveringIsIdle'
    BY DEF TypeOK, RunsNeedProcess, RecoveringIsIdle, Alive
  <1>6. RearmAffordable'
    BY DEF RearmAffordable
  <1>7. RecoveryAffordable'
    BY <1>1 DEF TypeOK, RecoveryAffordable
  <1> QED
    BY <1>2, <1>3, <1>4, <1>5, <1>6, <1>7

LEMMA FinishRecoveryInv ==
  ASSUME Inv, NEW o \in Owners, FinishRecovery(o)
  PROVE  Inv'
  <1> DEFINE hit == {t \in Tasks : snapshot[o][t] # "none"}
             new == [t \in Tasks |-> IF t \in hit
                                     THEN Recovered(table[t], snapshot[o][t])
                                     ELSE table[t]]
  <1> USE DEF Inv
  <1>1. ASSUME NEW t \in Tasks
        PROVE  /\ new[t] \in Row /\ BudgetLeft(new[t])
               /\ new[t].attempt = table[t].attempt
               /\ new[t].max = table[t].max
    <2>1. table[t] \in Row /\ BudgetLeft(table[t])
      BY DEF TypeOK
    <2>2. CASE snapshot[o][t] = "none"
      BY <2>1, <2>2
    <2>3. CASE snapshot[o][t] # "none"
      <3>1. snapshot[o][t] \in {"cancelled", "failed", "retry_scheduled"}
        BY <2>3 DEF TypeOK
      <3>2. snapshot[o][t] = "retry_scheduled" => table[t].attempt < table[t].max
        BY DEF RecoveryAffordable
      <3>3. new[t] = Recovered(table[t], snapshot[o][t])
        BY <2>3
      <3>4. /\ Recovered(table[t], snapshot[o][t]).attempt = table[t].attempt
            /\ Recovered(table[t], snapshot[o][t]).max = table[t].max
        BY <2>1 DEF Recovered, Released, Row
      <3> QED
        BY <2>1, <3>1, <3>2, <3>3, <3>4, RowTypes, RowBudgets
    <2> QED
      BY <2>2, <2>3
  <1>2. table' = new \/ table' = table
    BY DEF FinishRecovery
  <1> HIDE DEF new
  <1>3. /\ table' \in [Tasks -> Row]
        /\ \A t \in Tasks :
              /\ BudgetLeft(table'[t])
              /\ table'[t].attempt = table[t].attempt
              /\ table'[t].max = table[t].max
    <2>1. new \in [Tasks -> Row]
      BY <1>1 DEF new
    <2> QED
      BY <1>1, <1>2, <2>1 DEF TypeOK
  <1>4. /\ proc[o] = "recovering"
        /\ \/ proc' = [proc EXCEPT ![o] = "up"]
           \/ proc' = [proc EXCEPT ![o] = "gone"]
        /\ snapshot' = [snapshot EXCEPT ![o] = NoVerdicts]
        /\ UNCHANGED <<candidate, run, cancel, gen, asked, finished>>
    BY DEF FinishRecovery, history
  <1>5. TypeOK'
    <2>1. NoVerdicts \in [Tasks -> {"none", "cancelled", "failed",
                                    "retry_scheduled"}]
      BY DEF NoVerdicts
    <2> QED
      BY <1>3, <1>4, <2>1 DEF TypeOK, ProcState
  <1>6. \A r \in Runs : r[1] = o => run[r].pc = "idle"
    BY <1>4 DEF RecoveringIsIdle
  <1>7. OneProcess' /\ RecoveringIsIdle'
    BY <1>4, <1>6, RunOwner DEF TypeOK, OneProcess, RecoveringIsIdle, Alive
  <1>8. RunHasTask' /\ CancelsAreReal'
    BY <1>4 DEF RunHasTask, CancelsAreReal
  <1>9. RunsNeedProcess'
    BY <1>4, <1>6, RunOwner DEF TypeOK, RunsNeedProcess, Alive
  <1>10. RearmAffordable'
    BY <1>3, <1>4 DEF RunHasTask, RearmAffordable
  <1>11. RecoveryAffordable'
    <2>1. \A p \in Owners : snapshot'[p] = IF p = o THEN NoVerdicts
                                                    ELSE snapshot[p]
      BY <1>4 DEF TypeOK
    <2>2. \A p \in Owners : proc'[p] # "recovering" => snapshot'[p] = NoVerdicts
      BY <1>4, <2>1 DEF TypeOK, RecoveryAffordable
    <2>3. \A p \in Owners : \A t \in Tasks : snapshot'[p][t] = "none"
      <3>1. \A p \in Owners \ {o} : proc[p] # "recovering"
        BY <1>4 DEF OneProcess, Alive
      <3> QED
        BY <2>1, <3>1 DEF RecoveryAffordable, NoVerdicts
    <2> QED
      BY <1>3, <2>2, <2>3 DEF RecoveryAffordable
  <1> QED
    BY <1>3, <1>5, <1>7, <1>8, <1>9, <1>10, <1>11

LEMMA SelectInv ==
  ASSUME Inv, NEW o \in Owners, NEW t \in Tasks, SelectCandidate(o, t)
  PROVE  Inv'
  <1> USE DEF Inv, SelectCandidate, history
  <1>1. TypeOK' /\ RunHasTask' /\ CancelsAreReal' /\ RunsNeedProcess'
        /\ (\A u \in Tasks : BudgetLeft(table[u])')
        /\ RecoveringIsIdle'
    BY DEF TypeOK, RunHasTask, CancelsAreReal, RunsNeedProcess, Alive,
           RecoveringIsIdle
  <1>2. OneProcess' /\ RecoveryAffordable'
    BY DEF TypeOK, OneProcess, RecoveryAffordable, Alive
  <1>3. ASSUME NEW r \in Runs, run[r].pc = "rearm" PROVE r[1] # o
    <2>1. r[2] \in Slots /\ (r[1] = o => r = <<o, r[2]>>)
      BY DEF Runs
    <2> QED
      BY <1>3, <2>1 DEF Clearing
  <1>4. RearmAffordable'
    BY <1>3 DEF TypeOK, RearmAffordable
  <1> QED
    BY <1>1, <1>2, <1>4

(* The UPDATE of a claim spends an attempt the row still had; a retry some  *)
(* run has decided on is of another row, or of a process without a claim.   *)
LEMMA ClaimInv ==
  ASSUME Inv, NEW o \in Owners, NEW s \in Slots, ClaimCandidate(o, s)
  PROVE  Inv'
  <1> USE DEF Inv, ClaimCandidate, history
  <1> DEFINE t == candidate[o]
             rec == [pc |-> "claimed", task |-> t, gen |-> gen[t], try |-> 0]
  <1>1. t \in Tasks /\ proc[o] = "up" /\ <<o, s>> \in Runs
    BY DEF TypeOK, OneProcess, Runs
  <1>2. /\ table[t] \in Row /\ BudgetLeft(table[t])
        /\ Claimed(table[t], o) \in Row
        /\ Claimable(table[t]) => BudgetLeft(Claimed(table[t], o))
    BY <1>1, RowTypes, RowBudgets DEF TypeOK
  <1>3. rec \in RunRec
    BY <1>1 DEF TypeOK, RunRec, PC, Straight
  <1> HIDE DEF rec
  <1>4. /\ table' \in [Tasks -> Row]
        /\ \A u \in Tasks : BudgetLeft(table'[u])
    BY <1>1, <1>2 DEF TypeOK
  <1>5. run' = run \/ run' = [run EXCEPT ![<<o, s>>] = rec]
    BY DEF rec
  <1>6. TypeOK'
    BY <1>1, <1>3, <1>4, <1>5 DEF TypeOK
  <1>7. OneProcess' /\ CancelsAreReal' /\ (\A u \in Tasks : BudgetLeft(table[u])')
    BY <1>1, <1>4 DEF TypeOK, OneProcess, CancelsAreReal, Alive
  <1>8. \A r \in Runs :
            run'[r] = run[r] \/ (run'[r] = rec /\ r = <<o, s>>)
    <2>1. CASE run' = run
      BY <2>1
    <2>2. CASE run' = [run EXCEPT ![<<o, s>>] = rec]
      BY <2>2 DEF TypeOK
    <2> QED
      BY <1>5, <2>1, <2>2
  <1>9. RunHasTask' /\ RunsNeedProcess' /\ RecoveringIsIdle'
    <2>1. \A r \in Runs : run'[r] = run[r] \/ (r[1] = o /\ run'[r].task = t)
      BY <1>8 DEF rec
    <2>2. proc' = proc
      OBVIOUS
    <2> QED
      BY <1>1, <2>1, <2>2 DEF RunHasTask, RunsNeedProcess, RecoveringIsIdle, Alive
  <1>10. \A r \in Runs : run[r].pc # "rearm"
    BY <1>1, RunOwner DEF OneProcess, RearmAffordable, RunsNeedProcess, Alive
  <1>11. RearmAffordable'
    <2>1. \A r \in Runs : run'[r] = run[r] \/ run'[r].pc = "claimed"
      BY <1>8 DEF rec
    <2> QED
      BY <1>10, <2>1 DEF RearmAffordable
  <1>12. \A p \in Owners : snapshot[p] = NoVerdicts
    BY <1>1 DEF OneProcess, RecoveryAffordable, Alive
  <1>13. RecoveryAffordable'
    BY <1>12 DEF RecoveryAffordable, NoVerdicts
  <1> QED
    BY <1>6, <1>7, <1>9, <1>11, <1>13

(* The steps that end a process, or its loop, only take away.               *)
Ending(o) ==
    /\ Alive(o)
    /\ \E s \in {"stopping", "draining", "gone", "loopless"} :
          proc' = [proc EXCEPT ![o] = s]
    /\ \A p \in Owners : snapshot'[p] = snapshot[p] \/ snapshot'[p] = NoVerdicts
    /\ snapshot' \in [Owners -> [Tasks -> {"none", "cancelled", "failed",
                                           "retry_scheduled"}]]
    /\ snapshot'[o] = NoVerdicts
    /\ candidate' = [candidate EXCEPT ![o] = NoTask]
    /\ run' \in [Runs -> RunRec]
    /\ \A r \in Runs :
          /\ run'[r].pc # "idle" => run[r].pc # "idle"
          /\ run'[r].pc # "idle" => run'[r].task = run[r].task
          /\ run'[r].pc = "rearm" => run[r].pc = "rearm"
          /\ r[1] = o /\ proc'[o] = "gone" => run'[r].pc = "idle"
    /\ cancel' \in [Requests -> CancelRec]
    /\ \A q \in Requests : cancel'[q] = cancel[q] \/ cancel'[q] = NoCancel
    /\ UNCHANGED <<table, gen, asked, finished>>

LEMMA EndingInv ==
  ASSUME Inv, NEW o \in Owners, Ending(o)
  PROVE  Inv'
  <1> USE DEF Inv
  <1>1. /\ proc'[o] \in {"stopping", "draining", "gone", "loopless"}
        /\ \A p \in Owners \ {o} : proc'[p] = proc[p]
        /\ candidate'[o] = NoTask
        /\ \A p \in Owners \ {o} : candidate'[p] = candidate[p]
    BY DEF Ending, TypeOK
  <1>2. TypeOK'
    BY DEF Ending, TypeOK, ProcState
  <1>3. RunHasTask' /\ CancelsAreReal' /\ (\A u \in Tasks : BudgetLeft(table[u])')
    BY DEF Ending, RunHasTask, CancelsAreReal
  <1>4. RunsNeedProcess' /\ RecoveringIsIdle'
    BY <1>1, RunOwner DEF Ending, RunsNeedProcess, RecoveringIsIdle, Alive
  <1>5. OneProcess'
    BY <1>1 DEF Ending, OneProcess, Alive
  <1>6. RearmAffordable'
    BY <1>1, RunOwner DEF Ending, RearmAffordable
  <1>7. RecoveryAffordable'
    BY <1>1 DEF Ending, RecoveryAffordable, NoVerdicts
  <1> QED
    BY <1>2, <1>3, <1>4, <1>5, <1>6, <1>7

LEMMA StopInv ==
  ASSUME Inv, NEW o \in Owners,
         Stop(o) \/ CancelRuns(o) \/ Exit(o) \/ Crash(o) \/ LoopFails(o)
  PROVE  Inv'
  <1> USE DEF Inv
  <1> SUFFICES Ending(o)
    BY EndingInv
  <1>1. NoVerdicts \in [Tasks -> {"none", "cancelled", "failed",
                                  "retry_scheduled"}]
    BY DEF NoVerdicts
  <1>2. proc[o] # "recovering" => snapshot[o] = NoVerdicts
    BY DEF RecoveryAffordable
  <1>3. proc[o] # "up" => candidate[o] = NoTask
    BY DEF OneProcess
  <1>4. candidate[o] = NoTask => candidate = [candidate EXCEPT ![o] = NoTask]
    BY DEF TypeOK
  <1>5. Idle \in RunRec /\ Idle.pc = "idle"
    BY DEF Idle, RunRec, PC
  <1>6. NoCancel \in CancelRec
    BY DEF NoCancel, CancelRec
  <1>7. CASE Stop(o)
    BY <1>2, <1>4, <1>7
    DEF Stop, Ending, Alive, Serving, TypeOK, history
  <1>8. CASE CancelRuns(o)
    <2> DEFINE Thrown(rec) == CASE rec.pc \in Awaiting -> [rec EXCEPT !.pc = "cancelling"]
                                [] OTHER -> Idle
    <2>1. ASSUME NEW rec \in RunRec
          PROVE  /\ Thrown(rec) \in RunRec
                 /\ Thrown(rec).pc # "idle" =>
                       rec.pc # "idle" /\ Thrown(rec).task = rec.task
                 /\ Thrown(rec).pc # "rearm"
      BY <1>5 DEF RunRec, PC, Awaiting, Straight
    <2>2. run' = [r \in Runs |-> IF r[1] = o THEN Thrown(run[r]) ELSE run[r]]
      BY <1>8 DEF CancelRuns
    <2> HIDE DEF Thrown
    <2>3. /\ run' \in [Runs -> RunRec]
          /\ \A r \in Runs :
                /\ run'[r].pc # "idle" => run[r].pc # "idle"
                /\ run'[r].pc # "idle" => run'[r].task = run[r].task
                /\ run'[r].pc = "rearm" => run[r].pc = "rearm"
      BY <2>1, <2>2 DEF TypeOK
    <2> QED
      BY <1>2, <1>3, <1>4, <1>8, <2>3
      DEF CancelRuns, Ending, Alive, TypeOK, history
  <1>9. CASE Exit(o)
    <2>1. \A r \in Runs : r[1] = o => run[r].pc = "idle"
      BY <1>5, <1>9 DEF Exit, Runs
    <2> QED
      BY <1>2, <1>3, <1>4, <1>9, <2>1
      DEF Exit, Ending, Alive, TypeOK, history
  <1>10. CASE Crash(o)
    BY <1>1, <1>5, <1>6, <1>10 DEF Crash, Ending, Alive, TypeOK, history
  <1>11. CASE LoopFails(o)
    BY <1>2, <1>11 DEF LoopFails, Ending, Alive, TypeOK, history
  <1> QED
    BY <1>7, <1>8, <1>9, <1>10, <1>11

LEMMA WorkerInv ==
  ASSUME SingleProcess, Inv, NEW o \in Owners, WorkerStep(o)
  PROVE  Inv'
  BY StartInv, FinishRecoveryInv, SelectInv, ClaimInv, StopInv DEF WorkerStep

LEMMA InvNext == SingleProcess /\ Inv /\ [Next]_vars => Inv'
  <1> SUFFICES ASSUME SingleProcess, Inv, [Next]_vars PROVE Inv'
    OBVIOUS
  <1>1. CASE UNCHANGED vars
    BY <1>1, SameTable, SameRun, InvQuiet
    DEF vars, Quiet, Inv, TypeOK, CancelsAreReal
  <1>2. CASE ApiStep
    BY <1>2, ApiInv
  <1>3. ASSUME NEW o \in Owners, WorkerStep(o) PROVE Inv'
    BY <1>3, WorkerInv
  <1>4. ASSUME NEW r \in Runs, RunStep(r) \/ Heartbeat(r) \/ RunDbError(r)
        PROVE  Inv'
    BY <1>4, RunInv, HeartbeatInv, RunDbErrorInv
  <1>5. CASE TimeStep
    BY <1>5, TimeInv
  <1> QED
    BY <1>1, <1>2, <1>3, <1>4, <1>5 DEF Next

-----------------------------------------------------------------------------
(* With one process at a time the invariant holds throughout (the tasks     *)
(* table, the workers and the API threads together).                        *)
THEOREM Invariance ==
  ASSUME SingleProcess
  PROVE  Spec => []Inv
  <1>1. Inv /\ [Next]_vars => Inv'
    BY InvNext
  <1> QED
    BY <1>1, InvInit, PTL DEF Spec

(* Every column of the table, every worker and every run keeps its type.    *)
THEOREM TypeCorrect ==
  ASSUME SingleProcess
  PROVE  Spec => []TypeOK
  <1>1. Inv => TypeOK
    BY DEF Inv
  <1> QED
    BY <1>1, Invariance, PTL

(* A task is executed at most max_attempts times, whatever fails, expires,  *)
(* is cancelled, deleted or restarted in between.                           *)
THEOREM AttemptsBounded ==
  ASSUME SingleProcess
  PROVE  Spec => []AttemptBound
  <1>1. Inv => AttemptBound
    BY DEF Inv, AttemptBound, BudgetLeft
  <1> QED
    BY <1>1, Invariance, PTL
-----------------------------------------------------------------------------
(* TaskPlatform implements TaskPromise. *)

(* What a step must do to one row to be a stutter of the promise.           *)
SamePromise(t) ==
    /\ Phase(table'[t]) = Phase(table[t])
    /\ table'[t].attempt = table[t].attempt
    /\ table'[t].max = table[t].max

LEMMA PhaseCases ==
  \A row \in Row :
     /\ Phase(row) = "absent" <=> ~Present(row)
     /\ Phase(row) = "waiting" <=> row.status \in Leaseable
     /\ Phase(row) = "out" <=> Present(row) /\ row.status \notin Leaseable
  BY DEF Phase, Present, Leaseable

LEMMA StutterRefines ==
  ASSUME \A t \in Tasks : SamePromise(t)
  PROVE  UNCHANGED Promise!promise
  BY DEF SamePromise, Promise!promise

(* A step that leaves every row but t alone changes the abstract functions  *)
(* at t only.                                                               *)
LEMMA ExceptAt ==
  ASSUME NEW S, NEW f, NEW g, NEW t \in S,
         f = [u \in S |-> f[u]], g = [u \in S |-> g[u]],
         \A u \in S \ {t} : g[u] = f[u]
  PROVE  g = [f EXCEPT ![t] = g[t]]
  OBVIOUS

LEMMA OneRowAbstract ==
  ASSUME NEW t \in Tasks, \A u \in Tasks \ {t} : table'[u] = table[u]
  PROVE  /\ [u \in Tasks |-> Phase(table'[u])] =
              [[u \in Tasks |-> Phase(table[u])] EXCEPT ![t] = Phase(table'[t])]
         /\ [u \in Tasks |-> table'[u].attempt] =
              [[u \in Tasks |-> table[u].attempt] EXCEPT ![t] = table'[t].attempt]
  <1>1. ASSUME NEW f, NEW g,
               f = [u \in Tasks |-> Phase(table[u])],
               g = [u \in Tasks |-> Phase(table'[u])]
        PROVE  g = [f EXCEPT ![t] = Phase(table'[t])]
    <2>1. /\ f = [u \in Tasks |-> f[u]] /\ g = [u \in Tasks |-> g[u]]
          /\ \A u \in Tasks \ {t} : g[u] = f[u]
          /\ g[t] = Phase(table'[t])
      BY <1>1
    <2> QED
      BY <2>1, ExceptAt
  <1>2. ASSUME NEW f, NEW g,
               f = [u \in Tasks |-> table[u].attempt],
               g = [u \in Tasks |-> table'[u].attempt]
        PROVE  g = [f EXCEPT ![t] = table'[t].attempt]
    <2>1. /\ f = [u \in Tasks |-> f[u]] /\ g = [u \in Tasks |-> g[u]]
          /\ \A u \in Tasks \ {t} : g[u] = f[u]
          /\ g[t] = table'[t].attempt
      BY <1>2
    <2> QED
      BY <2>1, ExceptAt
  <1> QED
    BY <1>1, <1>2

(* A status written over a row still there is a stutter, or withdraws a     *)
(* task that was waiting.                                                   *)
LEMMA WriteRefines ==
  ASSUME Inv, NEW t \in Tasks, NEW s \in Status \ Leaseable,
         Present(table[t]), table' = [table EXCEPT ![t].status = s]
  PROVE  [Promise!Next]_(Promise!promise)
  <1>1. \A u \in Tasks \ {t} : table'[u] = table[u]
    BY DEF Inv, TypeOK
  <1>2. /\ table'[t].status = s
        /\ table'[t].attempt = table[t].attempt
        /\ table'[t].max = table[t].max
    BY DEF Inv, TypeOK, Row
  <1>3. Phase(table'[t]) = "out"
    BY <1>2 DEF Phase, Status, Active, Terminal
  <1>4. CASE Phase(table[t]) = "waiting"
    <2>1. [u \in Tasks |-> Phase(table'[u])] =
             [[u \in Tasks |-> Phase(table[u])] EXCEPT ![t] = "out"]
      BY <1>1, <1>3, OneRowAbstract
    <2>2. /\ [u \in Tasks |-> table'[u].attempt] = [u \in Tasks |-> table[u].attempt]
          /\ [u \in Tasks |-> table'[u].max] = [u \in Tasks |-> table[u].max]
      BY <1>1, <1>2
    <2>3. Promise!Withdraw(t)
      BY <1>4, <2>1, <2>2 DEF Promise!Withdraw
    <2> QED
      BY <2>3 DEF Promise!Next
  <1>5. CASE Phase(table[t]) # "waiting"
    <2>1. Phase(table[t]) = "out"
      BY <1>5 DEF Phase, Present
    <2> QED
      BY <1>1, <1>2, <1>3, <2>1, StutterRefines DEF SamePromise
  <1> QED
    BY <1>4, <1>5

(* A row whose lease or due date alone changes keeps its phase.             *)
LEMMA ClockRefines ==
  ASSUME Inv, NEW t \in Tasks,
         \/ \E l \in {"live", "expired"} : table' = [table EXCEPT ![t].lease = l]
         \/ table' = [table EXCEPT ![t].due = TRUE]
         \/ table' = [table EXCEPT ![t] = Released(@)]
  PROVE  [Promise!Next]_(Promise!promise)
  <1>0. table[t] \in Row /\ table \in [Tasks -> Row]
    BY DEF Inv, TypeOK
  <1>1. /\ \A u \in Tasks \ {t} : table'[u] = table[u]
        /\ table'[t].status = table[t].status
        /\ table'[t].attempt = table[t].attempt
        /\ table'[t].max = table[t].max
    <2>1. CASE \E l \in {"live", "expired"} : table' = [table EXCEPT ![t].lease = l]
      BY <1>0, <2>1 DEF Row
    <2>2. CASE table' = [table EXCEPT ![t].due = TRUE]
      BY <1>0, <2>2 DEF Row
    <2>3. CASE table' = [table EXCEPT ![t] = Released(@)]
      BY <1>0, <2>3 DEF Row, Released
    <2> QED
      BY <2>1, <2>2, <2>3
  <1> QED
    BY <1>1, StutterRefines DEF SamePromise, Phase

LEMMA SameTableRefines ==
  ASSUME UNCHANGED table
  PROVE  [Promise!Next]_(Promise!promise)
  BY StutterRefines DEF SamePromise

LEMMA CreateRefines ==
  ASSUME Inv, Inv', NEW t \in Tasks, NEW max \in AttemptLimits, Create(t, max)
  PROVE  [Promise!Next]_(Promise!promise)
  <1>1. max \in Nat \ {0}
    BY PlatformAssumption
  <1>2. /\ \A u \in Tasks \ {t} : table'[u] = table[u]
        /\ table'[t] = NewRow(max)
    BY DEF Create, Inv, TypeOK
  <1>3. Phase(table[t]) = "absent" /\ Phase(table'[t]) = "waiting"
    <2>1. ~Present(table[t])
      BY DEF Create, IsNextId, Tasks
    <2>2. table'[t].status \in Leaseable
      BY <1>2 DEF NewRow, NoRow, Leaseable
    <2> QED
      BY <2>1, <2>2, PhaseCases DEF Inv, TypeOK
  <1>4. table'[t].attempt = 0
    BY <1>2 DEF NewRow, NoRow
  <1>5. Promise!NewBudget(t)
    BY <1>2 DEF Promise!NewBudget, Inv, TypeOK, Row
  <1>6. Promise!Submit(t)
    BY <1>2, <1>3, <1>4, <1>5 DEF Promise!Submit
  <1> QED
    BY <1>6 DEF Promise!Next

LEMMA DeleteRefines ==
  ASSUME Inv, Inv', NEW t \in Tasks, Delete(t)
  PROVE  [Promise!Next]_(Promise!promise)
  <1>1. /\ \A u \in Tasks \ {t} : table'[u] = table[u]
        /\ table'[t] = NoRow
    BY DEF Delete, Inv, TypeOK
  <1>2. Phase(table[t]) # "absent" /\ Phase(table'[t]) = "absent"
    BY <1>1, PhaseCases DEF Delete, Present, NoRow, Inv, TypeOK
  <1>3. table'[t].attempt = 0
    BY <1>1 DEF NoRow
  <1>4. Promise!NewBudget(t)
    BY <1>1 DEF Promise!NewBudget, Inv, TypeOK, Row
  <1>5. [u \in Tasks |-> Phase(table'[u])] =
           [[u \in Tasks |-> Phase(table[u])] EXCEPT ![t] = "absent"]
    BY <1>1, <1>2, OneRowAbstract
  <1>6. [u \in Tasks |-> table'[u].attempt] =
           [[u \in Tasks |-> table[u].attempt] EXCEPT ![t] = 0]
    BY <1>1, <1>3, OneRowAbstract
  <1>7. Promise!Remove(t)
    BY <1>2, <1>4, <1>5, <1>6 DEF Promise!Remove
  <1> QED
    BY <1>7 DEF Promise!Next

LEMMA DispatchRefines ==
  ASSUME Inv, NEW t \in Tasks, NEW o \in Owners,
         Claimable(table[t]), table' = [table EXCEPT ![t] = Claimed(@, o)]
  PROVE  [Promise!Next]_(Promise!promise)
  <1>1. /\ \A u \in Tasks \ {t} : table'[u] = table[u]
        /\ table'[t] = Claimed(table[t], o)
    BY DEF Inv, TypeOK
  <1>2. /\ table'[t].status = "leased"
        /\ table'[t].attempt = table[t].attempt + 1
        /\ table'[t].max = table[t].max
    BY <1>1 DEF Claimed, Inv, TypeOK, Row
  <1>3. Phase(table[t]) = "waiting" /\ Phase(table'[t]) = "out"
    BY <1>2 DEF Claimable, Phase, Leaseable
  <1>4. table[t].attempt < table[t].max
    BY DEF Inv, BudgetLeft, Claimable
  <1>5. /\ [u \in Tasks |-> Phase(table'[u])] =
              [[u \in Tasks |-> Phase(table[u])] EXCEPT ![t] = "out"]
        /\ [u \in Tasks |-> table'[u].attempt] =
              [[u \in Tasks |-> table[u].attempt] EXCEPT
                 ![t] = [u \in Tasks |-> table[u].attempt][t] + 1]
        /\ [u \in Tasks |-> table'[u].max] = [u \in Tasks |-> table[u].max]
    <2>1. [u \in Tasks |-> table'[u].max] = [u \in Tasks |-> table[u].max]
      BY <1>1, <1>2
    <2> QED
      BY <1>1, <1>2, <1>3, <2>1, OneRowAbstract
  <1>6. Promise!Dispatch(t)
    BY <1>3, <1>4, <1>5 DEF Promise!Dispatch
  <1> QED
    BY <1>6 DEF Promise!Next

LEMMA ClaimRefines ==
  ASSUME Inv, NEW o \in Owners, NEW s \in Slots, ClaimCandidate(o, s)
  PROVE  [Promise!Next]_(Promise!promise)
  <1>1. CASE ~Claimable(table[candidate[o]])
    BY <1>1, SameTableRefines DEF ClaimCandidate
  <1>2. CASE Claimable(table[candidate[o]])
    <2>1. PICK t \in Tasks : t = candidate[o]
      BY DEF ClaimCandidate, Inv, TypeOK
    <2>2. Claimable(table[t]) /\ table' = [table EXCEPT ![t] = Claimed(@, o)]
      BY <1>2, <2>1 DEF ClaimCandidate
    <2> QED
      BY <2>2, DispatchRefines
  <1> QED
    BY <1>1, <1>2

(* Only what is out comes back, and only with budget left.                  *)
LEMMA ReturnRefines ==
  ASSUME Inv, NEW back \in SUBSET Tasks,
         \A t \in back : /\ Phase(table[t]) = "out"
                         /\ table[t].attempt < table[t].max
                         /\ Phase(table'[t]) = "waiting",
         \A t \in Tasks \ back : Phase(table'[t]) = Phase(table[t]),
         \A t \in Tasks : /\ table'[t].attempt = table[t].attempt
                          /\ table'[t].max = table[t].max
  PROVE  [Promise!Next]_(Promise!promise)
  <1>1. back \in SUBSET {k \in Tasks :
            /\ [t \in Tasks |-> Phase(table[t])][k] = "out"
            /\ [t \in Tasks |-> table[t].attempt][k] < [t \in Tasks |-> table[t].max][k]}
    OBVIOUS
  <1>2. [t \in Tasks |-> Phase(table'[t])] =
           [k \in Tasks |-> IF k \in back THEN "waiting"
                            ELSE [t \in Tasks |-> Phase(table[t])][k]]
    OBVIOUS
  <1>3. /\ [t \in Tasks |-> table'[t].attempt] = [t \in Tasks |-> table[t].attempt]
        /\ [t \in Tasks |-> table'[t].max] = [t \in Tasks |-> table[t].max]
    OBVIOUS
  <1>4. Promise!Return
    BY <1>1, <1>2, <1>3 DEF Promise!Return
  <1> QED
    BY <1>4 DEF Promise!Next

LEMMA RecoveryRefines ==
  ASSUME Inv, NEW o \in Owners, FinishRecovery(o)
  PROVE  [Promise!Next]_(Promise!promise)
  <1> DEFINE hit  == {t \in Tasks : snapshot[o][t] # "none"}
             back == {t \in hit : snapshot[o][t] = "retry_scheduled"}
  <1>1. CASE \E t \in hit : ~Present(table[t])
    BY <1>1, SameTableRefines DEF FinishRecovery
  <1>2. CASE \A t \in hit : Present(table[t])
    <2>1. ASSUME NEW t \in Tasks
          PROVE  /\ table[t] \in Row /\ Present(table'[t]) = Present(table[t])
                 /\ table'[t] \in Row
                 /\ table'[t].attempt = table[t].attempt
                 /\ table'[t].max = table[t].max
                 /\ t \notin hit => table'[t] = table[t]
                 /\ t \in hit => table'[t].status = snapshot[o][t]
      <3>1. table[t] \in Row
        BY DEF Inv, TypeOK
      <3>2. CASE t \notin hit
        BY <1>2, <3>1, <3>2 DEF FinishRecovery
      <3>3. CASE t \in hit
        <4>1. table'[t] = Recovered(table[t], snapshot[o][t])
          BY <1>2, <3>3 DEF FinishRecovery
        <4>2. snapshot[o][t] \in {"cancelled", "failed", "retry_scheduled"}
          BY <3>3 DEF Inv, TypeOK
        <4>3. table'[t].status = snapshot[o][t]
          BY <3>1, <4>1 DEF Recovered, Released, Row
        <4>4. /\ table'[t].attempt = table[t].attempt
              /\ table'[t].max = table[t].max
          BY <3>1, <4>1 DEF Recovered, Released, Row
        <4>5. table'[t] \in Row
          BY <3>1, <4>1, <4>2, RowTypes
        <4>6. Present(table[t]) /\ Present(table'[t])
          BY <1>2, <3>3, <4>2, <4>3 DEF Present
        <4> QED
          BY <3>1, <3>3, <4>3, <4>4, <4>5, <4>6
      <3> QED
        BY <3>2, <3>3
    <2> HIDE DEF hit
    <2>2. ASSUME NEW t \in hit
          PROVE  /\ t \in Tasks
                 /\ snapshot[o][t] = "retry_scheduled" =>
                       /\ table[t].attempt < table[t].max
                       /\ Phase(table'[t]) = "waiting"
                 /\ snapshot[o][t] # "retry_scheduled" => Phase(table'[t]) = "out"
      <3>1. t \in Tasks
        BY DEF hit
      <3>2. Present(table'[t]) /\ table'[t].status = snapshot[o][t]
        BY <1>2, <2>1, <3>1
      <3>3. snapshot[o][t] = "retry_scheduled" =>
               table[t].attempt < table[t].max
        BY <3>1 DEF Inv, RecoveryAffordable
      <3>4. snapshot[o][t] \in {"cancelled", "failed", "retry_scheduled"}
        BY <3>1 DEF hit, Inv, TypeOK
      <3> QED
        BY <2>1, <3>1, <3>2, <3>3, <3>4, PhaseCases DEF Leaseable
    <2>3. ASSUME NEW t \in hit PROVE Phase(table[t]) = "out"
      <3>1. t \in Tasks /\ table[t].status \notin Leaseable
        BY DEF hit, Inv, RecoveryAffordable
      <3> QED
        BY <1>2, <2>1, <3>1, PhaseCases
    <2>4. back \in SUBSET Tasks
      BY DEF hit
    <2>5. \A t \in Tasks \ back : Phase(table'[t]) = Phase(table[t])
      BY <2>1, <2>2, <2>3
    <2> QED
      BY <2>1, <2>2, <2>3, <2>4, <2>5, ReturnRefines
  <1> QED
    BY <1>1, <1>2
LEMMA RearmRefines ==
  ASSUME Inv, NEW r \in Runs, Rearm(r)
  PROVE  [Promise!Next]_(Promise!promise)
  <1>1. PICK t \in Tasks : t = run[r].task
    BY DEF Rearm, Clear, Inv, RunHasTask
  <1>2. CASE ~Present(table[t])
    BY <1>1, <1>2, SameTableRefines DEF Rearm, Clear
  <1>3. CASE Present(table[t])
    <2>1. /\ table[t] \in Row /\ table[t].attempt < table[t].max
          /\ table' = [table EXCEPT ![t] = Rearmed(@)]
      BY <1>1, <1>3 DEF Rearm, Clear, Inv, TypeOK, RearmAffordable
    <2>2. /\ \A u \in Tasks \ {t} : table'[u] = table[u]
          /\ table'[t] = Rearmed(table[t])
      BY <2>1 DEF Inv, TypeOK
    <2>3. /\ table'[t].status = "retry_scheduled"
          /\ table'[t].attempt = table[t].attempt
          /\ table'[t].max = table[t].max
      <3>1. Released(table[t]) \in Row /\ Released(table[t]).attempt = table[t].attempt
            /\ Released(table[t]).max = table[t].max
        BY <2>1 DEF Released, Row
      <3>2. Rearmed(table[t]) = [Released(table[t]) EXCEPT
                                   !.status = "retry_scheduled", !.due = FALSE]
        BY DEF Rearmed
      <3> QED
        BY <2>2, <3>1, <3>2 DEF Row
    <2>4. Phase(table'[t]) = "waiting"
      BY <2>3 DEF Phase, Leaseable
    <2>5. CASE Phase(table[t]) = "waiting"
      BY <2>2, <2>3, <2>4, <2>5, StutterRefines DEF SamePromise
    <2>6. CASE Phase(table[t]) = "out"
      BY <2>1, <2>2, <2>3, <2>4, <2>6, ReturnRefines
    <2> QED
      BY <1>3, <2>5, <2>6 DEF Phase, Present
  <1> QED
    BY <1>2, <1>3

LEMMA PutRefines ==
  ASSUME Inv, NEW r \in Runs, NEW from \in PC \ {"idle"}, NEW to,
         NEW s \in Status \ Leaseable,
         Put(r, from, s, to) \/ Handle(r, from, s)
  PROVE  [Promise!Next]_(Promise!promise)
  <1>1. PICK t \in Tasks : t = run[r].task
    BY DEF Put, Handle, Inv, RunHasTask
  <1>2. CASE ~Present(table[t])
    BY <1>1, <1>2, SameTableRefines DEF Put, Handle
  <1>3. CASE Present(table[t])
    <2>1. table' = [table EXCEPT ![t].status = s]
      BY <1>1, <1>3 DEF Put, Handle
    <2> QED
      BY <1>3, <2>1, WriteRefines
  <1> QED
    BY <1>2, <1>3

(* One case per step of a run: it leaves the table alone, writes a status,  *)
(* or clears the lease.                                                     *)
LEMMA RunRefines ==
  ASSUME Inv, NEW r \in Runs,
         RunStep(r) \/ Heartbeat(r) \/ RunDbError(r)
  PROVE  [Promise!Next]_(Promise!promise)
  <1>1. CASE \/ BeginMissing(r) \/ BadParams(r) \/ CheckPlan(r) \/ CheckRoute(r)
             \/ WorkDone(r) \/ WorkCancelled(r) \/ WorkRaises(r)
             \/ CheckWork(r) \/ Announce(r) \/ ReadForClear(r) \/ RunDbError(r)
    BY <1>1, SameTableRefines
    DEF BeginMissing, BadParams, CheckPlan, CheckRoute, WorkDone, WorkCancelled, WorkRaises,
        CheckWork, Check, Announce, ReadForClear, RunDbError
  <1>2. CASE Begin(r) \/ Route(r) \/ Review(r) \/ OnCancelled(r) \/ OnException(r)
    <2>1. {"planning", "running", "reviewing", "cancelled", "failed"}
             \subseteq Status \ Leaseable
      BY DEF Status, Active, Terminal, Leaseable
    <2>2. {"claimed", "route", "review", "cancelling", "failing"}
             \subseteq PC \ {"idle"}
      BY DEF PC, Straight
    <2> QED
      BY <1>2, <2>1, <2>2, PutRefines
      DEF Begin, Route, Review, OnCancelled, OnException
  <1>3. CASE Finish(r)
    <2>1. PICK s \in Succeeded : Put(r, "reviewing", s, "done")
      BY <1>3 DEF Finish
    <2>2. s \in Status \ Leaseable /\ "reviewing" \in PC \ {"idle"}
      BY DEF Succeeded, Status, Terminal, Leaseable, PC, Awaiting
    <2> QED
      BY <2>1, <2>2, PutRefines
  <1>4. CASE Rearm(r)
    BY <1>4, RearmRefines
  <1>5. CASE Release(r)
    <2>1. PICK t \in Tasks : t = run[r].task
      BY <1>5 DEF Release, Clear, Inv, RunHasTask
    <2>2. UNCHANGED table \/ table' = [table EXCEPT ![t] = Released(@)]
      BY <1>5, <2>1 DEF Release, Clear
    <2> QED
      BY <2>2, ClockRefines, SameTableRefines
  <1>6. CASE Heartbeat(r)
    <2>1. PICK t \in Tasks : t = run[r].task
      BY <1>6 DEF Heartbeat, Inv, RunHasTask, Awaiting
    <2>2. table' = [table EXCEPT ![t].lease = "live"]
      BY <1>6, <2>1 DEF Heartbeat
    <2> QED
      BY <2>2, ClockRefines
  <1> QED
    BY <1>1, <1>2, <1>3, <1>4, <1>5, <1>6 DEF RunStep

LEMMA ApiRefines ==
  ASSUME Inv, Inv', ApiStep
  PROVE  [Promise!Next]_(Promise!promise)
  <1>1. ASSUME NEW t \in Tasks, NEW max \in AttemptLimits, Create(t, max)
        PROVE  [Promise!Next]_(Promise!promise)
    BY <1>1, CreateRefines
  <1>2. ASSUME NEW t \in Tasks, Delete(t)
        PROVE  [Promise!Next]_(Promise!promise)
    BY <1>2, DeleteRefines
  <1>3. ASSUME NEW t \in Tasks,
               \/ CancelAgain(t)
               \/ \E q \in Requests, o \in Owners : ReadForCancel(q, o, t)
        PROVE  [Promise!Next]_(Promise!promise)
    BY <1>3, SameTableRefines DEF CancelAgain, ReadForCancel
  <1>4. ASSUME NEW q \in Requests, CommitCancel(q)
        PROVE  [Promise!Next]_(Promise!promise)
    <2>1. cancel[q].task \in Tasks /\ cancel[q].write \in Status \ Leaseable
      BY <1>4 DEF CommitCancel, Inv, CancelsAreReal, StopAsked, Status,
                  Terminal, Leaseable
    <2>2. CASE ~Present(table[cancel[q].task])
      BY <1>4, <2>2, SameTableRefines DEF CommitCancel
    <2>3. CASE Present(table[cancel[q].task])
      <3>1. table' = [table EXCEPT ![cancel[q].task].status = cancel[q].write]
        BY <1>4, <2>3 DEF CommitCancel
      <3> QED
        BY <2>1, <2>3, <3>1, WriteRefines
    <2> QED
      BY <2>2, <2>3
  <1> QED
    BY <1>1, <1>2, <1>3, <1>4 DEF ApiStep

LEMMA WorkerRefines ==
  ASSUME Inv, NEW o \in Owners, WorkerStep(o)
  PROVE  [Promise!Next]_(Promise!promise)
  <1>1. CASE \/ Start(o) \/ Stop(o) \/ CancelRuns(o) \/ Exit(o) \/ Crash(o)
             \/ LoopFails(o) \/ \E t \in Tasks : SelectCandidate(o, t)
    BY <1>1, SameTableRefines
    DEF Start, Stop, CancelRuns, Exit, Crash, LoopFails, SelectCandidate
  <1>2. CASE FinishRecovery(o)
    BY <1>2, RecoveryRefines
  <1>3. CASE \E s \in Slots : ClaimCandidate(o, s)
    BY <1>3, ClaimRefines
  <1> QED
    BY <1>1, <1>2, <1>3 DEF WorkerStep

(* Every step of the platform is a step of the promise or a stutter.        *)
LEMMA StepRefines ==
  ASSUME Inv, Inv', [Next]_vars
  PROVE  [Promise!Next]_(Promise!promise)
  <1>1. CASE UNCHANGED vars
    BY <1>1, SameTableRefines DEF vars
  <1>2. CASE ApiStep
    BY <1>2, ApiRefines
  <1>3. ASSUME NEW o \in Owners, WorkerStep(o)
        PROVE  [Promise!Next]_(Promise!promise)
    BY <1>3, WorkerRefines
  <1>4. ASSUME NEW r \in Runs, RunStep(r) \/ Heartbeat(r) \/ RunDbError(r)
        PROVE  [Promise!Next]_(Promise!promise)
    BY <1>4, RunRefines
  <1>5. CASE TimeStep
    BY <1>5, ClockRefines DEF TimeStep, LeaseExpires, BecomesDue
  <1> QED
    BY <1>1, <1>2, <1>3, <1>4, <1>5 DEF Next

(* With one process at a time, claims, retries, cancels, deletions,         *)
(* shutdowns and recoveries together keep the retry budget of TaskPromise:  *)
(* every execution is paid for once and nothing revives a spent task.       *)
THEOREM Refinement ==
  ASSUME SingleProcess
  PROVE  Spec => KeepsPromise
  <1>1. Init => Promise!Init
    <2> SUFFICES ASSUME Init PROVE Promise!Init
      OBVIOUS
    <2>1. \A t \in Tasks : /\ table[t].status = "absent"
                           /\ table[t].attempt = 0 /\ table[t].max = 1
      BY DEF Init, NoRow
    <2>2. \A t \in Tasks : Phase(table[t]) = "absent"
      BY <2>1 DEF Phase, Leaseable
    <2>3. [t \in Tasks |-> table[t].max] \in [Tasks -> Nat \ {0}]
      BY <2>1
    <2>4. [t \in Tasks |-> Phase(table[t])] = [t \in Tasks |-> "absent"]
      BY <2>2
    <2>5. [t \in Tasks |-> table[t].attempt] = [t \in Tasks |-> 0]
      BY <2>1
    <2> QED
      BY <2>3, <2>4, <2>5 DEF Promise!Init
  <1>2. Inv /\ Inv' /\ [Next]_vars => [Promise!Next]_(Promise!promise)
    BY StepRefines
  <1> QED
    BY <1>1, <1>2, Invariance, PTL DEF Spec, KeepsPromise, Promise!Spec

-----------------------------------------------------------------------------
(* The second inductive invariant, Kept, and what it keeps apart, for one   *)
(* process or several: wherever Exclusive holds.                            *)
LEMMA KeptInit == Init => Kept
  <1> SUFFICES ASSUME Init PROVE Kept
    OBVIOUS
  <1>1. Inv
    BY InvInit
  <1>2. ActorsKnown
    BY DEF Init, ActorsKnown, Alive, NoRow
  <1>3. \A t \in Tasks : ~Present(table[t]) /\ table[t].status = "absent"
    BY DEF Init, Present, NoRow
  <1>4. GenerationsKnown /\ OneRunPerTask /\ HoldsLease
    BY <1>3, PlatformAssumption
    DEF Init, GenerationsKnown, OneRunPerTask, HoldsLease, RunsRow, Live
  <1>5. FinishedStays
    BY DEF Init, FinishedStays, Unfinished, Idle
  <1>6. RecoveryAlone
    BY DEF Init, RecoveryAlone, NoVerdicts
  <1>7. QueuedIsFree /\ ActiveHasLease
    BY <1>3 DEF QueuedIsFree, ActiveHasLease, Leaseable, Active
  <1> QED
    BY <1>1, <1>2, <1>4, <1>5, <1>6, <1>7 DEF Kept, Inv

(* Who is alive and not starting leaves no verdict of a recovery open.      *)
LEMMA NoVerdictOpen ==
  ASSUME Exclusive, Kept, NEW o \in Owners, Alive(o), proc[o] # "recovering"
  PROVE  \A p \in Owners, t \in Tasks : snapshot[p][t] = "none"
  <1> SUFFICES ASSUME NEW p \in Owners, NEW t \in Tasks, snapshot[p][t] # "none"
               PROVE  FALSE
    OBVIOUS
  <1>1. proc[p] = "recovering" /\ "expire" \in Env
    BY DEF Kept, RecoveryAlone
  <1>2. SingleProcess
    BY <1>1 DEF Exclusive
  <1> QED
    BY <1>1, <1>2 DEF Kept, ActorsKnown, Alive

LEMMA RunAlive ==
  ASSUME Kept, NEW r \in Runs, run[r].pc # "idle"
  PROVE  /\ r[1] \in Owners /\ Alive(r[1]) /\ proc[r[1]] # "recovering"
         /\ run[r].task \in Tasks
  BY RunOwner DEF Kept, RunsNeedProcess, RecoveringIsIdle, RunHasTask

LEMMA LiveIsNotIdle ==
  ASSUME Kept, NEW r \in Runs
  PROVE  Live(r) <=> run[r].pc # "idle"
  BY DEF Kept, ActorsKnown, Live, Idle

(* One row changes, and no run.                                             *)
LEMMA OneRowKept ==
  ASSUME Kept, NEW t \in Tasks, NEW new \in Row,
         table' = [table EXCEPT ![t] = new],
         new.owner = table[t].owner,
         new.lease = "none" => table[t].lease = "none",
         new.status \in Leaseable /\ table[t].lease = "none" => new.lease = "none",
         Present(new) <=> Present(table[t]),
         new.status = table[t].status \/ new.status \in StopAsked,
         new.status = table[t].status
             \/ \A o \in Owners : snapshot[o][t] = "none",
         "expire" \notin Env => new.lease # "expired",
         UNCHANGED <<proc, snapshot, candidate, run, gen, finished>>,
         cancel' \in [Requests -> CancelRec],
         \A q \in Requests : cancel'[q] = cancel[q] \/ cancel'[q] = NoCancel,
         asked' \subseteq Tasks
  PROVE  Kept'
  <1>1. /\ table'[t] = new
        /\ \A u \in Tasks \ {t} : table'[u] = table[u]
    BY DEF Kept, TypeOK
  <1>2. StopAsked \cap (Leaseable \cup Active) = {}
    BY DEF StopAsked, Leaseable, Active
  <1>3. TypeOK'
    BY DEF Kept, TypeOK
  <1>4. RunHasTask' /\ RunsNeedProcess' /\ RecoveringIsIdle' /\ CancelsAreReal'
    BY DEF Kept, RunHasTask, RunsNeedProcess, RecoveringIsIdle, CancelsAreReal, Alive
  <1>5. ActorsKnown'
    BY <1>1 DEF Kept, ActorsKnown, Alive
  <1>6. GenerationsKnown' /\ OneRunPerTask'
    BY <1>1 DEF Kept, GenerationsKnown, OneRunPerTask, Live
  <1>7. HoldsLease'
    BY <1>1, <1>2 DEF Kept, HoldsLease, RunsRow, Live
  <1>8. FinishedStays'
    BY <1>1 DEF Kept, TypeOK, FinishedStays
  <1>9. RecoveryAlone'
    BY <1>1 DEF Kept, RecoveryAlone
  <1>10. QueuedIsFree' /\ ActiveHasLease'
    BY <1>1, <1>2 DEF Kept, QueuedIsFree, ActiveHasLease, RunsRow, Live
  <1> QED
    BY <1>3, <1>4, <1>5, <1>6, <1>7, <1>8, <1>9, <1>10 DEF Kept

-----------------------------------------------------------------------------
LEMMA CreateKept ==
  ASSUME Exclusive, Kept, NEW t \in Tasks, NEW max \in AttemptLimits, Create(t, max)
  PROVE  Kept'
  <1>1. max \in Nat \ {0} /\ NewRow(max) \in Row
    BY RowTypes, PlatformAssumption
  <1>2. /\ table'[t] = NewRow(max)
        /\ \A u \in Tasks \ {t} : table'[u] = table[u]
        /\ gen'[t] = gen[t] + 1 /\ gen[t] < MaxGen
        /\ \A u \in Tasks \ {t} : gen'[u] = gen[u]
        /\ ~Present(table[t])
        /\ UNCHANGED <<proc, snapshot, candidate, run, cancel, asked, finished>>
    BY DEF Kept, TypeOK, Create, IsNextId, Tasks
  <1>3. /\ NewRow(max).status = "pending" /\ NewRow(max).owner = NoOwner
        /\ NewRow(max).lease = "none"
    BY DEF NewRow, NoRow
  <1>4. \A o \in Owners, u \in Tasks : snapshot[o][u] = "none"
    BY NoVerdictOpen DEF Create, ApiUp, Serving, Alive
  <1>5. TypeOK'
    BY <1>1 DEF Kept, TypeOK, Create
  <1>6. RunHasTask' /\ RunsNeedProcess' /\ RecoveringIsIdle' /\ CancelsAreReal'
    BY <1>2 DEF Kept, RunHasTask, RunsNeedProcess, RecoveringIsIdle, CancelsAreReal, Alive
  <1>7. ActorsKnown'
    BY <1>2, <1>3 DEF Kept, ActorsKnown, Alive
  <1>8. \A u \in Tasks : gen[u] \in Nat /\ MaxGen \in Nat
    BY PlatformAssumption DEF Kept, TypeOK
  <1>9. \A r \in Runs : Live(r) =>
            /\ run[r].task \in Tasks /\ run[r].gen \in Nat
            /\ run[r].gen >= 1 /\ run[r].gen <= gen[run[r].task]
    BY LiveIsNotIdle, RunAlive DEF Kept, TypeOK, RunRec, GenerationsKnown
  <1>10. GenerationsKnown' /\ OneRunPerTask'
    BY <1>2, <1>8, <1>9 DEF Kept, GenerationsKnown, OneRunPerTask, Live
  <1>11. \A r \in Runs : ~RunsRow(r, t)'
    BY <1>2, <1>8, <1>9 DEF RunsRow, Live
  <1>12. HoldsLease' /\ QueuedIsFree' /\ ActiveHasLease'
    BY <1>2, <1>3, <1>11
    DEF Kept, HoldsLease, QueuedIsFree, ActiveHasLease, RunsRow, Live, Active
  <1>13. FinishedStays'
    BY <1>2 DEF Kept, TypeOK, FinishedStays, Present, Succeeded, StopAsked
  <1>14. RecoveryAlone'
    BY <1>2, <1>4 DEF RecoveryAlone
  <1> QED
    BY <1>5, <1>6, <1>7, <1>10, <1>12, <1>13, <1>14 DEF Kept

LEMMA DeleteKept ==
  ASSUME Exclusive, Kept, NEW t \in Tasks, Delete(t)
  PROVE  Kept'
  <1>1. /\ table'[t] = NoRow /\ NoRow.status = "absent" /\ NoRow.lease = "none"
        /\ \A u \in Tasks \ {t} : table'[u] = table[u]
        /\ finished' = finished \ {t}
        /\ UNCHANGED <<proc, snapshot, candidate, run, cancel, gen>>
    BY DEF Kept, TypeOK, Delete, NoRow
  <1>2. \A o \in Owners, u \in Tasks : snapshot[o][u] = "none"
    BY NoVerdictOpen DEF Delete, ApiUp, Serving, Alive
  <1>3. TypeOK'
    BY RowTypes DEF Kept, TypeOK, Delete
  <1>4. RunHasTask' /\ RunsNeedProcess' /\ RecoveringIsIdle' /\ CancelsAreReal'
    BY <1>1 DEF Kept, RunHasTask, RunsNeedProcess, RecoveringIsIdle, CancelsAreReal, Alive
  <1>5. ActorsKnown'
    BY <1>1 DEF Kept, ActorsKnown, Alive
  <1>6. GenerationsKnown' /\ OneRunPerTask'
    BY <1>1 DEF Kept, GenerationsKnown, OneRunPerTask, Live, Present
  <1>7. HoldsLease' /\ QueuedIsFree' /\ ActiveHasLease'
    BY <1>1 DEF Kept, HoldsLease, QueuedIsFree, ActiveHasLease, RunsRow, Live,
                Active, Leaseable, Present
  <1>8. FinishedStays'
    BY <1>1 DEF Kept, TypeOK, FinishedStays
  <1>9. RecoveryAlone'
    BY <1>1, <1>2 DEF RecoveryAlone
  <1> QED
    BY <1>3, <1>4, <1>5, <1>6, <1>7, <1>8, <1>9 DEF Kept

(* Nothing changes but requests to cancel, and what they are known for.     *)
LEMMA SameRowsKept ==
  ASSUME Kept, UNCHANGED <<table, proc, snapshot, candidate, run, gen, finished>>,
         cancel' \in [Requests -> CancelRec], CancelsAreReal',
         \A q \in Requests : cancel'[q] # NoCancel =>
            cancel'[q].proc \in Owners /\ proc[cancel'[q].proc] \in Serving,
         asked' \subseteq Tasks
  PROVE  Kept'
  <1>1. TypeOK'
    BY DEF Kept, TypeOK
  <1>2. RunHasTask' /\ RunsNeedProcess' /\ RecoveringIsIdle'
    BY DEF Kept, RunHasTask, RunsNeedProcess, RecoveringIsIdle, Alive
  <1>3. ActorsKnown' /\ GenerationsKnown' /\ OneRunPerTask'
    BY DEF Kept, ActorsKnown, GenerationsKnown, OneRunPerTask, Live, Alive
  <1>4. HoldsLease' /\ QueuedIsFree' /\ ActiveHasLease'
    BY DEF Kept, HoldsLease, QueuedIsFree, ActiveHasLease, RunsRow, Live
  <1>5. FinishedStays' /\ RecoveryAlone'
    BY DEF Kept, FinishedStays, RecoveryAlone
  <1> QED
    BY <1>1, <1>2, <1>3, <1>4, <1>5 DEF Kept

LEMMA ApiKept == ASSUME Exclusive, Kept, ApiStep PROVE Kept'
  <1>1. ASSUME NEW t \in Tasks, CancelAgain(t) PROVE Kept'
    BY <1>1, SameRowsKept
    DEF CancelAgain, Kept, TypeOK, CancelsAreReal, ActorsKnown
  <1>2. ASSUME NEW t \in Tasks, NEW q \in Requests, NEW o \in Owners,
               ReadForCancel(q, o, t)
        PROVE  Kept'
    <2>1. /\ cancel' \in [Requests -> CancelRec]
          /\ cancel'[q].task = t /\ cancel'[q].proc = o /\ cancel'[q].write \in StopAsked
          /\ \A x \in Requests \ {q} : cancel'[x] = cancel[x]
      BY <1>2 DEF ReadForCancel, Kept, TypeOK, CancelRec, CancelWrite, StopAsked
    <2>2. CancelsAreReal'
      BY <2>1 DEF Kept, CancelsAreReal
    <2>3. \A x \in Requests : cancel'[x] # NoCancel =>
              cancel'[x].proc \in Owners /\ proc[cancel'[x].proc] \in Serving
      BY <1>2, <2>1 DEF ReadForCancel, Kept, ActorsKnown
    <2> QED
      BY <1>2, <2>1, <2>2, <2>3, SameRowsKept DEF ReadForCancel, history, Kept, TypeOK
  <1>3. ASSUME NEW q \in Requests, CommitCancel(q) PROVE Kept'
    <2> DEFINE t == cancel[q].task
               new == [table[t] EXCEPT !.status = cancel[q].write]
    <2>1. /\ t \in Tasks /\ cancel[q].write \in StopAsked
          /\ cancel[q].proc \in Owners /\ proc[cancel[q].proc] \in Serving
      BY <1>3 DEF CommitCancel, Kept, CancelsAreReal, ActorsKnown
    <2>2. /\ cancel' \in [Requests -> CancelRec]
          /\ \A x \in Requests : cancel'[x] = cancel[x] \/ cancel'[x] = NoCancel
      BY <1>3 DEF CommitCancel, Kept, TypeOK, CancelRec, NoCancel
    <2>3. CASE ~Present(table[t])
      BY <1>3, <2>2, <2>3, SameRowsKept
      DEF CommitCancel, Kept, TypeOK, CancelsAreReal, ActorsKnown
    <2>4. CASE Present(table[t])
      <3>1. \A o \in Owners : snapshot[o][t] = "none"
        BY <2>1, NoVerdictOpen DEF Serving, Alive
      <3>2. /\ table[t] \in Row /\ cancel[q].write \in Status
            /\ cancel[q].write # "absent"
        BY <2>1 DEF Kept, TypeOK, StopAsked, Status, Terminal
      <3>3. /\ new \in Row /\ new.owner = table[t].owner
            /\ new.lease = table[t].lease /\ new.status = cancel[q].write
        BY <3>2, RowTypes DEF Row
      <3>4. table' = [table EXCEPT ![t] = new] /\ asked' \subseteq Tasks
        BY <1>3, <2>1, <2>4 DEF CommitCancel, Kept, TypeOK
      <3>5. Present(new) /\ ("expire" \notin Env => new.lease # "expired")
        BY <2>1, <3>2, <3>3 DEF Present, Kept, ActorsKnown
      <3> HIDE DEF new
      <3> QED
        BY <1>3, <2>1, <2>2, <2>4, <3>1, <3>3, <3>4, <3>5, OneRowKept DEF CommitCancel
    <2> QED
      BY <2>3, <2>4
  <1> QED
    BY <1>1, <1>2, <1>3, CreateKept, DeleteKept DEF ApiStep

LEMMA TimeKept == ASSUME Kept, TimeStep PROVE Kept'
  <1>1. PICK t \in Tasks : LeaseExpires(t) \/ BecomesDue(t)
    BY DEF TimeStep
  <1> DEFINE expired == [table[t] EXCEPT !.lease = "expired"]
             due     == [table[t] EXCEPT !.due = TRUE]
  <1>2. table[t] \in Row
    BY DEF Kept, TypeOK
  <1>3. /\ expired \in Row /\ expired.owner = table[t].owner
        /\ expired.status = table[t].status /\ expired.lease = "expired"
        /\ due \in Row /\ due.owner = table[t].owner
        /\ due.status = table[t].status /\ due.lease = table[t].lease
    <2>1. expired \in Row /\ due \in Row
      BY <1>2, RowTypes
    <2>2. /\ expired.owner = table[t].owner /\ expired.status = table[t].status
          /\ expired.lease = "expired"
      BY <1>2 DEF Row
    <2>3. /\ due.owner = table[t].owner /\ due.status = table[t].status
          /\ due.lease = table[t].lease
      BY <1>2 DEF Row
    <2> QED
      BY <2>1, <2>2, <2>3
  <1>4. /\ UNCHANGED <<proc, snapshot, candidate, run, gen, finished, cancel, asked>>
        /\ cancel \in [Requests -> CancelRec] /\ asked \subseteq Tasks
    BY <1>1 DEF LeaseExpires, BecomesDue, history, Kept, TypeOK
  <1>5. CASE LeaseExpires(t)
    <2>1. table' = [table EXCEPT ![t] = expired] /\ table[t].lease = "live" /\ "expire" \in Env
      BY <1>5 DEF LeaseExpires, Kept, TypeOK
    <2> HIDE DEF expired
    <2> QED
      BY <1>3, <1>4, <2>1, OneRowKept DEF Present
  <1>6. CASE BecomesDue(t)
    <2>1. table' = [table EXCEPT ![t] = due] /\ ("expire" \notin Env => due.lease # "expired")
      BY <1>3, <1>6 DEF BecomesDue, Kept, TypeOK, ActorsKnown
    <2> HIDE DEF due
    <2> QED
      BY <1>3, <1>4, <2>1, OneRowKept DEF Present
  <1> QED
    BY <1>1, <1>5, <1>6

LEMMA HeartbeatKept == ASSUME Kept, NEW r \in Runs, Heartbeat(r) PROVE Kept'
  <1> DEFINE t   == run[r].task
             new == [table[t] EXCEPT !.lease = "live"]
  <1>1. t \in Tasks /\ run[r].pc # "idle"
    BY DEF Heartbeat, Awaiting, Kept, RunHasTask
  <1>2. table[t] \in Row /\ table[t].status \in Active /\ table[t].owner = r[1]
    BY <1>1 DEF Heartbeat, Renewable, Kept, TypeOK
  <1>3. /\ new \in Row /\ new.owner = table[t].owner
        /\ new.status = table[t].status /\ new.lease = "live"
    BY <1>2, RowTypes DEF Row
  <1>4. table' = [table EXCEPT ![t] = new]
    BY DEF Heartbeat, Kept, TypeOK
  <1> HIDE DEF new
  <1>5. /\ UNCHANGED <<proc, snapshot, candidate, run, gen, finished, cancel, asked>>
        /\ cancel \in [Requests -> CancelRec] /\ asked \subseteq Tasks
    BY DEF Heartbeat, history, Kept, TypeOK
  <1>6. new.status \notin Leaseable
    BY <1>2, <1>3 DEF Active, Leaseable
  <1> QED
    BY <1>1, <1>3, <1>4, <1>5, <1>6, OneRowKept DEF Present

-----------------------------------------------------------------------------
(* A run ends or moves on, and writes at most a status of its own row: who  *)
(* else is live has another task, and no recovery is open.                  *)
LEMMA RunKeeps ==
  ASSUME Exclusive, Kept, NEW r \in Runs, run[r].pc # "idle",
         NEW t \in Tasks, t = run[r].task,
         NEW rec \in RunRec,
         rec = Idle \/ (rec.task = t /\ rec.gen = run[r].gen /\ rec.pc # "idle"),
         run' = [run EXCEPT ![r] = rec],
         NEW new \in Row, new.owner = table[t].owner, new.lease = table[t].lease,
         \/ new.status = table[t].status
         \/ Present(table[t]) /\ new.status \in Status \ Leaseable,
         rec.pc \in {"rearm", "release"} => new.status \notin Active,
         table' = [table EXCEPT ![t] = new],
         finished' \subseteq Tasks,
         \A u \in finished' : u = t \/ u \in finished,
         t \in finished' => new.status \in Succeeded \cup StopAsked,
         rec.pc \in Unfinished => t \notin finished',
         UNCHANGED <<proc, snapshot, candidate, cancel, gen, asked>>
  PROVE  Kept'
  <1>1. /\ table'[t] = new /\ run'[r] = rec
        /\ \A u \in Tasks \ {t} : table'[u] = table[u]
        /\ \A x \in Runs \ {r} : run'[x] = run[x]
    BY DEF Kept, TypeOK
  <1>2. \A o \in Owners, u \in Tasks : snapshot[o][u] = "none"
    BY RunAlive, NoVerdictOpen
  <1>3. Live(r) /\ \A x \in Runs \ {r} : Live(x) => run[x].task # t
    BY LiveIsNotIdle DEF Kept, OneRunPerTask
  <1>4. Present(new) => Present(table[t])
    BY DEF Present
  <1>5. TypeOK'
    BY DEF Kept, TypeOK
  <1>6. RunHasTask' /\ CancelsAreReal'
    BY <1>1 DEF Kept, RunHasTask, CancelsAreReal, Idle
  <1>7. RunsNeedProcess' /\ RecoveringIsIdle'
    <2>1. Alive(r[1]) /\ proc[r[1]] # "recovering"
      BY RunAlive
    <2> QED
      BY <1>1, <2>1 DEF Kept, RunsNeedProcess, RecoveringIsIdle, Alive
  <1>8. ActorsKnown'
    BY <1>1 DEF Kept, ActorsKnown, Alive
  <1>9. GenerationsKnown'
    BY <1>1, <1>3, <1>4 DEF Kept, GenerationsKnown, Live
  <1>10. OneRunPerTask'
    BY <1>1, <1>3 DEF Kept, OneRunPerTask, Live
  <1>11. HoldsLease'
    BY <1>1, <1>3, <1>4 DEF Kept, HoldsLease, RunsRow, Live
  <1>12. FinishedStays'
    <2>1. \A x \in Runs \ {r} : run[x].pc \in Unfinished => Live(x)
      BY LiveIsNotIdle DEF Unfinished
    <2>2. rec.pc \in Unfinished => rec.task = t
      BY DEF Unfinished, Idle
    <2> QED
      BY <1>1, <1>3, <2>1, <2>2 DEF Kept, TypeOK, FinishedStays
  <1>13. RecoveryAlone'
    BY <1>1, <1>2 DEF RecoveryAlone
  <1>14. QueuedIsFree'
    BY <1>1, <1>3 DEF Kept, QueuedIsFree, RunsRow, Live
  <1>15. ActiveHasLease'
    <2>1. \A u \in Tasks : gen[u] \in Nat
      BY DEF Kept, TypeOK
    <2>2. run[r].gen \in Nat /\ run[r].gen >= 1 /\ run[r].gen <= gen[t]
      BY <1>3 DEF Kept, TypeOK, RunRec, GenerationsKnown
    <2>3. gen[t] = 1 => RunsRow(r, t)
      BY <1>3, <2>1, <2>2 DEF RunsRow
    <2>4. gen[t] = 1 /\ Present(table[t])
             => table[t].owner # NoOwner /\ table[t].lease # "none"
      BY <2>3, RunOwner, OwnerAssumption DEF Kept, HoldsLease
    <2> QED
      BY <1>1, <2>4 DEF Kept, ActiveHasLease
  <1> QED
    BY <1>5, <1>6, <1>7, <1>8, <1>9, <1>10, <1>11, <1>12, <1>13, <1>14, <1>15
    DEF Kept

(* ... when the table stays as it is, ...                                   *)
LEMMA MoveKeeps ==
  ASSUME Exclusive, Kept, NEW r \in Runs, run[r].pc # "idle",
         NEW rec \in RunRec,
         \/ rec = Idle
         \/ rec.task = run[r].task /\ rec.gen = run[r].gen /\ rec.pc # "idle",
         run' = [run EXCEPT ![r] = rec],
         rec.pc \in {"rearm", "release"}
            => table[run[r].task].status \notin Active,
         rec.pc \in Unfinished
            => run[r].pc \in Unfinished \/ run[r].task \notin finished,
         UNCHANGED <<table, proc, snapshot, candidate, cancel, history>>
  PROVE  Kept'
  <1>1. PICK t \in Tasks : t = run[r].task
    BY RunAlive
  <1> DEFINE row == table[t]
  <1>2. /\ row \in Row /\ table' = [table EXCEPT ![t] = row]
        /\ row.owner = table[t].owner /\ row.lease = table[t].lease
        /\ row.status = table[t].status
    BY DEF Kept, TypeOK
  <1>3. /\ t \in finished => table[t].status \in Succeeded \cup StopAsked
        /\ run[r].pc \in Unfinished => t \notin finished
        /\ finished \subseteq Tasks
    BY <1>1 DEF Kept, TypeOK, FinishedStays
  <1>4. UNCHANGED <<proc, snapshot, candidate, cancel, gen, asked>> /\ finished' = finished
    BY DEF history
  <1>5. /\ rec = Idle \/ (rec.task = t /\ rec.gen = run[r].gen /\ rec.pc # "idle")
        /\ rec.pc \in {"rearm", "release"} => row.status \notin Active
    BY <1>1
  <1>6. /\ finished' \subseteq Tasks
        /\ \A u \in finished' : u = t \/ u \in finished
        /\ t \in finished' => row.status \in Succeeded \cup StopAsked
        /\ rec.pc \in Unfinished => t \notin finished'
    BY <1>1, <1>3, <1>4
  <1> HIDE DEF row
  <1> QED
    BY <1>1, <1>2, <1>4, <1>5, <1>6, RunKeeps

LEMMA GotoKeeps ==
  ASSUME Exclusive, Kept, NEW r \in Runs, run[r].pc # "idle",
         NEW pc \in PC \ {"idle"}, Goto(r, pc),
         pc \in {"rearm", "release"} => table[run[r].task].status \notin Active,
         pc \in Unfinished
            => run[r].pc \in Unfinished \/ run[r].task \notin finished,
         UNCHANGED <<table, proc, snapshot, candidate, cancel, history>>
  PROVE  Kept'
  <1> DEFINE rec == [run[r] EXCEPT !.pc = pc]
  <1>1. run[r] \in RunRec
    BY DEF Kept, TypeOK
  <1>2. /\ rec \in RunRec /\ rec.pc = pc
        /\ rec.task = run[r].task /\ rec.gen = run[r].gen
    BY <1>1 DEF RunRec
  <1>3. run' = [run EXCEPT ![r] = rec]
    BY DEF Goto
  <1> HIDE DEF rec
  <1> QED
    BY <1>2, <1>3, MoveKeeps

LEMMA EndKeeps ==
  ASSUME Exclusive, Kept, NEW r \in Runs, run[r].pc # "idle", EndRun(r),
         UNCHANGED <<table, proc, snapshot, candidate, cancel, history>>
  PROVE  Kept'
  <1>1. Idle \in RunRec /\ Idle.pc = "idle" /\ "idle" \notin Unfinished
    BY DEF Idle, RunRec, PC, Unfinished
  <1>2. run' = [run EXCEPT ![r] = Idle]
    BY DEF EndRun
  <1> QED
    BY <1>1, <1>2, MoveKeeps

(* ... and when a status is written.                                        *)
LEMMA WriteKeeps ==
  ASSUME Exclusive, Kept, NEW r \in Runs, run[r].pc # "idle",
         NEW s \in Status \ Leaseable, NEW pc \in PC \ {"idle", "rearm", "release"},
         Goto(r, pc), Present(table[run[r].task]),
         table' = [table EXCEPT ![run[r].task].status = s],
         \/ finished' = finished
         \/ s \in Succeeded /\ finished' = finished \cup {run[r].task},
         s \in Succeeded \cup StopAsked \/ run[r].task \notin finished,
         pc \in Unfinished
            => run[r].task \notin finished /\ finished' = finished,
         UNCHANGED <<proc, snapshot, candidate, cancel, gen, asked>>
  PROVE  Kept'
  <1>1. PICK t \in Tasks : t = run[r].task
    BY RunAlive
  <1> DEFINE rec == [run[r] EXCEPT !.pc = pc]
             new == [table[t] EXCEPT !.status = s]
  <1>2. run[r] \in RunRec /\ table[t] \in Row
    BY DEF Kept, TypeOK
  <1>3. /\ rec \in RunRec /\ rec.pc = pc
        /\ rec.task = run[r].task /\ rec.gen = run[r].gen
    BY <1>2 DEF RunRec
  <1>4. new \in Row
    BY <1>2, RowTypes
  <1>5. new.owner = table[t].owner /\ new.lease = table[t].lease /\ new.status = s
    BY <1>2 DEF Row
  <1>6. run' = [run EXCEPT ![r] = rec] /\ table' = [table EXCEPT ![t] = new]
    BY <1>1 DEF Goto
  <1>7. finished' \subseteq Tasks /\ \A u \in finished' : u = t \/ u \in finished
    BY <1>1 DEF Kept, TypeOK
  <1>8. t \in finished' => s \in Succeeded \cup StopAsked
    BY <1>1
  <1>9. /\ rec.task = t /\ rec.pc # "idle"
        /\ rec.pc \in {"rearm", "release"} => new.status \notin Active
        /\ Present(table[t]) /\ new.status \in Status \ Leaseable
        /\ t \in finished' => new.status \in Succeeded \cup StopAsked
        /\ rec.pc \in Unfinished => t \notin finished'
    BY <1>1, <1>3, <1>5, <1>8
  <1> HIDE DEF rec, new
  <1> QED
    BY <1>1, <1>3, <1>4, <1>5, <1>6, <1>7, <1>9, RunKeeps

LEMMA PutKeeps ==
  ASSUME Exclusive, Kept, NEW r \in Runs, NEW from \in Unfinished,
         NEW s \in Status \ Leaseable, NEW to \in PC \ {"idle", "rearm", "release"},
         s \in Succeeded => to \notin Unfinished, Put(r, from, s, to)
  PROVE  Kept'
  <1>1. run[r].pc # "idle" /\ run[r].task \notin finished
    BY DEF Put, Kept, FinishedStays, Unfinished
  <1>2. CASE ~Present(table[run[r].task])
    <2>1. /\ Goto(r, "clear") /\ UNCHANGED <<table, proc, snapshot, candidate, cancel>>
          /\ UNCHANGED history
      BY <1>2 DEF Put, history
    <2>2. "clear" \in PC \ {"idle"} /\ "clear" \notin Unfinished
      BY DEF PC, Tail, Unfinished
    <2> QED
      BY <1>1, <2>1, <2>2, GotoKeeps
  <1>3. CASE Present(table[run[r].task])
    <2>1. /\ Goto(r, to) /\ table' = [table EXCEPT ![run[r].task].status = s]
          /\ UNCHANGED <<proc, snapshot, candidate, cancel, gen, asked>>
          /\ finished' = IF s \in Succeeded THEN finished \cup {run[r].task}
                                            ELSE finished
      BY <1>3 DEF Put
    <2> QED
      BY <1>1, <1>3, <2>1, WriteKeeps
  <1> QED
    BY <1>2, <1>3

LEMMA CheckKeeps ==
  ASSUME Exclusive, Kept, NEW r \in Runs, NEW from \in Unfinished,
         NEW to \in PC \ {"idle", "rearm", "release"}, Check(r, from, to)
  PROVE  Kept'
  <1>1. run[r].pc # "idle" /\ run[r].pc \in Unfinished
    BY DEF Check, Unfinished
  <1>2. \E pc \in PC \ {"idle", "rearm", "release"} : Goto(r, pc)
    BY DEF Check, PC, Straight, Tail
  <1>3. UNCHANGED <<table, proc, snapshot, candidate, cancel, history>>
    BY DEF Check
  <1> QED
    BY <1>1, <1>2, <1>3, GotoKeeps

LEMMA HandleKeeps ==
  ASSUME Exclusive, Kept, NEW r \in Runs, NEW from \in PC \ {"idle"},
         NEW s \in Status \ Leaseable, s \in StopAsked \/ from \in Unfinished,
         Handle(r, from, s)
  PROVE  Kept'
  <1>1. /\ run[r].pc # "idle" /\ run[r].pc = from /\ Goto(r, "clear")
        /\ UNCHANGED <<proc, snapshot, candidate, cancel, history>>
    BY DEF Handle
  <1>2. s \in StopAsked \/ run[r].task \notin finished
    BY <1>1 DEF Kept, FinishedStays
  <1>3. "clear" \in PC \ {"idle", "rearm", "release"} /\ "clear" \notin Unfinished
    BY DEF PC, Tail, Unfinished
  <1>4. CASE ~Present(table[run[r].task])
    BY <1>1, <1>3, <1>4, GotoKeeps DEF Handle
  <1>5. CASE Present(table[run[r].task])
    <2>1. /\ table' = [table EXCEPT ![run[r].task].status = s]
          /\ UNCHANGED <<proc, snapshot, candidate, cancel, gen, asked>>
          /\ finished' = finished
      BY <1>1, <1>5 DEF Handle, history
    <2> QED
      BY <1>1, <1>2, <1>3, <1>5, <2>1, WriteKeeps
  <1> QED
    BY <1>4, <1>5

(* CheckRoute and WorkRaises also count the tries of a stage.               *)
LEMMA TryKeeps ==
  ASSUME Exclusive, Kept, NEW r \in Runs, NEW n \in Nat, run[r].pc \in Unfinished,
         \/ run' = [run EXCEPT ![r].pc = "work", ![r].try = n]
         \/ run' = [run EXCEPT ![r].try = n] /\ run[r].pc = "work",
         UNCHANGED <<table, proc, snapshot, candidate, cancel, history>>
  PROVE  Kept'
  <1> DEFINE rec == [pc |-> "work", task |-> run[r].task, gen |-> run[r].gen, try |-> n]
  <1>1. run[r] \in RunRec
    BY DEF Kept, TypeOK
  <1>2. "work" \in PC
    BY DEF PC, Awaiting
  <1>3. rec \in RunRec
    BY <1>1, <1>2 DEF RunRec
  <1>4. /\ rec.pc = "work" /\ rec.task = run[r].task /\ rec.gen = run[r].gen
    OBVIOUS
  <1>5. run' = [run EXCEPT ![r] = rec]
    BY <1>1 DEF RunRec
  <1>6. run[r].pc # "idle"
    BY DEF Unfinished
  <1> HIDE DEF rec
  <1> QED
    BY <1>3, <1>4, <1>5, <1>6, MoveKeeps

LEMMA ReadForClearKeeps ==
  ASSUME Exclusive, Kept, NEW r \in Runs, ReadForClear(r)
  PROVE  Kept'
  <1> DEFINE row == table[run[r].task]
  <1>1. /\ run[r].pc # "idle"
        /\ UNCHANGED <<table, proc, snapshot, candidate, cancel, history>>
    BY DEF ReadForClear
  <1>2. CASE EndRun(r)
    BY <1>1, <1>2, EndKeeps
  <1>3. CASE Goto(r, "rearm") /\ row.status = "failed"
    <2>1. run[r].task \notin finished
      BY <1>3 DEF Kept, FinishedStays, Succeeded, StopAsked
    <2>2. "rearm" \in PC \ {"idle"} /\ row.status \notin Active
      BY <1>3 DEF PC, Tail, Active
    <2> QED
      BY <1>1, <1>3, <2>1, <2>2, GotoKeeps
  <1>4. CASE Goto(r, "release") /\ row.status \in Terminal
    <2>1. /\ "release" \in PC \ {"idle"} /\ row.status \notin Active
          /\ "release" \notin Unfinished
      BY <1>4 DEF PC, Tail, Active, Terminal, Unfinished
    <2> QED
      BY <1>1, <1>4, <2>1, GotoKeeps
  <1> QED
    BY <1>2, <1>3, <1>4 DEF ReadForClear

(* The lease is given up by the only run that has the task: the row is free *)
(* for the claim loop, or finished for good.                                *)
LEMMA ClearKeeps ==
  ASSUME Exclusive, Kept, NEW r \in Runs, Rearm(r) \/ Release(r)
  PROVE  Kept'
  <1>1. PICK t \in Tasks : t = run[r].task
    BY DEF Rearm, Release, Clear, Kept, RunHasTask
  <1>2. /\ run[r].pc \in {"rearm", "release"} /\ run[r].pc # "idle"
        /\ Rearm(r) => run[r].pc = "rearm"
        /\ run' = [run EXCEPT ![r] = Idle]
        /\ UNCHANGED <<proc, snapshot, candidate, cancel, gen, asked, finished>>
    BY DEF Rearm, Release, Clear, EndRun, history
  <1>3. Live(r) /\ \A x \in Runs \ {r} : Live(x) => run[x].task # t
    BY <1>1, <1>2, LiveIsNotIdle DEF Kept, OneRunPerTask
  <1>4. CASE UNCHANGED table
    <2>1. EndRun(r) /\ UNCHANGED <<table, proc, snapshot, candidate, cancel, history>>
      BY <1>2, <1>4 DEF EndRun, history
    <2> QED
      BY <1>2, <2>1, EndKeeps
  <1>5. ASSUME NEW new,
               \/ new = Rearmed(table[t]) /\ run[r].pc = "rearm"
               \/ new = Released(table[t]),
               Present(table[t]), table' = [table EXCEPT ![t] = new]
        PROVE  Kept'
    <2>1. table[t] \in Row /\ Released(table[t]) \in Row /\ new \in Row
      BY <1>5, RowTypes DEF Kept, TypeOK
    <2>2. /\ new.owner = NoOwner /\ new.lease = "none"
          /\ \/ new.status = table[t].status
             \/ new.status = "retry_scheduled" /\ run[r].pc = "rearm"
      <3>1. /\ Released(table[t]).owner = NoOwner /\ Released(table[t]).lease = "none"
            /\ Released(table[t]).status = table[t].status
        BY <2>1 DEF Released, Row
      <3>2. CASE new = Released(table[t])
        BY <3>1, <3>2
      <3>3. CASE new = Rearmed(table[t]) /\ run[r].pc = "rearm"
        BY <1>5, <2>1, <3>1, <3>3 DEF Rearmed, Row
      <3> QED
        BY <1>5, <3>2, <3>3
    <2>3. /\ table'[t] = new /\ run'[r] = Idle
          /\ \A u \in Tasks \ {t} : table'[u] = table[u]
          /\ \A x \in Runs \ {r} : run'[x] = run[x]
      BY <1>2, <1>5 DEF Kept, TypeOK
    <2>4. \A o \in Owners, u \in Tasks : snapshot[o][u] = "none"
      BY <1>2, RunAlive, NoVerdictOpen
    <2>5. TypeOK'
      BY <1>2, <1>5, <2>1 DEF Kept, TypeOK, Idle, RunRec, PC
    <2>6. RunHasTask' /\ CancelsAreReal' /\ RunsNeedProcess' /\ RecoveringIsIdle'
      BY <1>2, <2>3 DEF Kept, RunHasTask, CancelsAreReal, RunsNeedProcess,
                        RecoveringIsIdle, Alive, Idle
    <2>7. ActorsKnown'
      BY <1>2, <2>2, <2>3 DEF Kept, ActorsKnown, Alive
    <2>8. GenerationsKnown' /\ OneRunPerTask'
      BY <1>2, <1>5, <2>3 DEF Kept, GenerationsKnown, OneRunPerTask, Live
    <2>9. \A x \in Runs : ~RunsRow(x, t)'
      BY <1>3, <2>3 DEF RunsRow, Live
    <2>10. HoldsLease' /\ QueuedIsFree'
      BY <1>2, <2>2, <2>3, <2>9 DEF Kept, HoldsLease, QueuedIsFree, RunsRow, Live
    <2>11. FinishedStays'
      <3>1. run[r].pc = "rearm" => t \notin finished
        BY <1>1 DEF Kept, FinishedStays, Unfinished, PC, Tail
      <3> QED
        BY <1>2, <2>2, <2>3, <3>1 DEF Kept, TypeOK, FinishedStays, Unfinished, Idle
    <2>12. RecoveryAlone'
      BY <1>2, <2>3, <2>4 DEF RecoveryAlone
    <2>13. gen[t] = 1 => table[t].status \notin Active
      <3>1. run[r].gen \in Nat /\ run[r].gen >= 1 /\ run[r].gen <= gen[t]
        BY <1>1, <1>3 DEF Kept, TypeOK, RunRec, GenerationsKnown
      <3>2. gen[t] = 1 => RunsRow(r, t)
        BY <1>1, <1>3, <3>1 DEF RunsRow, Kept, TypeOK
      <3> QED
        BY <1>2, <1>5, <3>2 DEF Kept, HoldsLease
    <2>14. ActiveHasLease'
      BY <1>2, <2>2, <2>3, <2>13 DEF Kept, ActiveHasLease, Active
    <2> QED
      BY <2>5, <2>6, <2>7, <2>8, <2>10, <2>11, <2>12, <2>14 DEF Kept
  <1>6. \/ UNCHANGED table
        \/ /\ Present(table[t])
           /\ \/ table' = [table EXCEPT ![t] = Rearmed(table[t])] /\ run[r].pc = "rearm"
              \/ table' = [table EXCEPT ![t] = Released(table[t])] /\ run[r].pc = "release"
    BY <1>1, <1>2 DEF Rearm, Release, Clear
  <1> QED
    BY <1>4, <1>5, <1>6

LEMMA RunStepKept == ASSUME Exclusive, Kept, NEW r \in Runs, RunStep(r) PROVE Kept'
  <1> USE DEF PC, Awaiting, Straight, Tail, Unfinished
  <1>1. CASE BeginMissing(r)
    BY <1>1, GotoKeeps DEF BeginMissing
  <1>2. CASE Begin(r) \/ Route(r) \/ Review(r)
    <2>1. /\ {"planning", "running", "reviewing"} \subseteq Status \ Leaseable
          /\ {"planning", "running", "reviewing"} \cap Succeeded = {}
      BY DEF Status, Active, Leaseable, Succeeded
    <2> QED
      BY <1>2, <2>1, PutKeeps DEF Begin, Route, Review
  <1>3. CASE BadParams(r)
    BY <1>3, GotoKeeps DEF BadParams
  <1>4. CASE CheckPlan(r) \/ CheckWork(r)
    BY <1>4, CheckKeeps DEF CheckPlan, CheckWork
  <1>5. CASE CheckRoute(r)
    BY <1>5, GotoKeeps, TryKeeps DEF CheckRoute
  <1>6. CASE WorkDone(r)
    BY <1>6, GotoKeeps DEF WorkDone
  <1>7. CASE WorkCancelled(r)
    BY <1>7, GotoKeeps DEF WorkCancelled
  <1>8. CASE WorkRaises(r)
    <2>1. run[r].try + 1 \in Nat
      BY DEF Kept, TypeOK, RunRec
    <2>2. /\ run[r].pc = "work"
          /\ UNCHANGED <<table, proc, snapshot, candidate, cancel, history>>
          /\ \/ Goto(r, "clear") \/ Goto(r, "failing")
             \/ run' = [run EXCEPT ![r].try = run[r].try + 1]
      BY <1>8 DEF WorkRaises
    <2> QED
      BY <2>1, <2>2, GotoKeeps, TryKeeps
  <1>9. CASE Finish(r)
    <2>1. PICK s \in Succeeded : Put(r, "reviewing", s, "done")
      BY <1>9 DEF Finish
    <2>2. s \in Status \ Leaseable
      BY DEF Succeeded, Status, Terminal, Leaseable
    <2> QED
      BY <2>1, <2>2, PutKeeps
  <1>10. CASE Announce(r)
    BY <1>10, GotoKeeps DEF Announce
  <1>11. CASE OnCancelled(r)
    <2>1. "cancelled" \in Status \ Leaseable /\ "cancelled" \in StopAsked
      BY DEF Status, Terminal, Leaseable, StopAsked
    <2> QED
      BY <1>11, <2>1, HandleKeeps DEF OnCancelled
  <1>12. CASE OnException(r)
    <2>1. "failed" \in Status \ Leaseable
      BY DEF Status, Terminal, Leaseable
    <2> QED
      BY <1>12, <2>1, HandleKeeps DEF OnException
  <1>13. CASE ReadForClear(r)
    BY <1>13, ReadForClearKeeps
  <1>14. CASE Rearm(r) \/ Release(r)
    BY <1>14, ClearKeeps
  <1> HIDE DEF PC, Awaiting, Straight, Tail, Unfinished
  <1> QED
    BY <1>1, <1>2, <1>3, <1>4, <1>5, <1>6, <1>7, <1>8, <1>9, <1>10, <1>11,
       <1>12, <1>13, <1>14 DEF RunStep

LEMMA RunDbErrorKept ==
  ASSUME Exclusive, Kept, NEW r \in Runs, RunDbError(r) PROVE Kept'
  <1> USE DEF PC, Awaiting, Straight, Tail, Unfinished
  <1>1. UNCHANGED <<table, proc, snapshot, candidate, cancel, history>>
    BY DEF RunDbError
  <1>2. CASE run[r].pc \in {"claimed", "planning", "running", "worked"} /\ Goto(r, "failing")
    BY <1>1, <1>2, GotoKeeps
  <1>3. CASE run[r].pc \notin Tail \cup {"idle", "worked"} /\ Goto(r, "clear")
    BY <1>1, <1>3, GotoKeeps
  <1>4. CASE run[r].pc \in Tail /\ EndRun(r)
    BY <1>1, <1>4, EndKeeps
  <1> QED
    BY <1>2, <1>3, <1>4 DEF RunDbError

-----------------------------------------------------------------------------
(* The steps of a process.                                                  *)

(* A process goes through a stage of its life, or ends: runs of its own may *)
(* end or be told to stop with it, and nothing else happens to the rows.    *)
Ends(o, life) ==
    /\ Alive(o)
    /\ proc' = [proc EXCEPT ![o] = life]
    /\ \/ snapshot' = snapshot /\ proc[o] # "recovering"
       \/ snapshot' = [snapshot EXCEPT ![o] = NoVerdicts]
    /\ \/ candidate' = candidate /\ (candidate[o] = NoTask \/ life = "up")
       \/ candidate' = [candidate EXCEPT ![o] = NoTask]
    /\ run' \in [Runs -> RunRec]
    /\ \A r \in Runs :
          \/ run'[r] = run[r] /\ (r[1] = o /\ run[r].pc # "idle" => life # "gone")
          \/ run'[r] = Idle
          \/ /\ r[1] = o /\ run[r].pc # "idle" /\ run'[r].pc = "cancelling"
             /\ run'[r].task = run[r].task /\ run'[r].gen = run[r].gen
             /\ life # "gone"
    /\ cancel' \in [Requests -> CancelRec]
    /\ \A q \in Requests :
          \/ cancel'[q] = NoCancel
          \/ cancel'[q] = cancel[q] /\ (cancel[q].proc = o => life \in Serving)
    /\ UNCHANGED <<table, history>>

LEMMA EndingKeeps ==
  ASSUME Exclusive, Kept, NEW o \in Owners,
         NEW life \in ProcState \ {"unborn", "recovering"}, Ends(o, life)
  PROVE  Kept'
  <1> USE DEF Ends
  <1>1. /\ proc'[o] = life
        /\ \A p \in Owners \ {o} : proc'[p] = proc[p] /\ candidate'[p] = candidate[p]
                                   /\ snapshot'[p] = snapshot[p]
        /\ candidate'[o] # NoTask => life = "up"
        /\ UNCHANGED <<gen, asked, finished>>
    BY DEF Kept, TypeOK, history
  <1>2. /\ \A r \in Runs : run'[r].pc # "idle" =>
            /\ Live(r) /\ run[r].pc # "idle"
            /\ run'[r].task = run[r].task /\ run'[r].gen = run[r].gen
            /\ run'[r].pc = run[r].pc \/ run'[r].pc = "cancelling"
            /\ r[1] = o => life # "gone"
        /\ \A r \in Runs : run'[r].pc = "idle" => run'[r] = Idle
        /\ \A r \in Runs : Live(r)' <=> run'[r].pc # "idle"
    BY LiveIsNotIdle DEF Kept, ActorsKnown, Live, Idle
  <1>3. TypeOK'
    <2>1. NoVerdicts \in [Tasks -> {"none", "cancelled", "failed", "retry_scheduled"}]
      BY DEF NoVerdicts
    <2>2. proc' \in [Owners -> ProcState]
      BY DEF Kept, TypeOK
    <2>3. candidate' \in [Owners -> Tasks \cup {NoTask}]
      BY DEF Kept, TypeOK
    <2>4. snapshot' \in [Owners -> [Tasks -> {"none", "cancelled", "failed",
                                             "retry_scheduled"}]]
      BY <2>1 DEF Kept, TypeOK
    <2>5. run' \in [Runs -> RunRec] /\ cancel' \in [Requests -> CancelRec]
      OBVIOUS
    <2>6. table' = table
      OBVIOUS
    <2> HIDE DEF Ends
    <2> QED
      BY <1>1, <2>2, <2>3, <2>4, <2>5, <2>6 DEF Kept, TypeOK
  <1>4. RunHasTask' /\ CancelsAreReal'
    BY <1>2 DEF Kept, RunHasTask, CancelsAreReal
  <1>5. RunsNeedProcess'
    BY <1>1, <1>2, RunOwner DEF Kept, RunsNeedProcess, Alive
  <1>6. RecoveringIsIdle'
    BY <1>1, <1>2, RunOwner DEF Kept, RecoveringIsIdle
  <1>7. ActorsKnown'
    BY <1>1, <1>2 DEF Kept, ActorsKnown, Alive
  <1>8. GenerationsKnown' /\ OneRunPerTask'
    BY <1>1, <1>2 DEF Kept, GenerationsKnown, OneRunPerTask
  <1>9. HoldsLease' /\ QueuedIsFree'
    BY <1>1, <1>2 DEF Kept, HoldsLease, QueuedIsFree, RunsRow
  <1>10. FinishedStays'
    BY <1>1, <1>2 DEF Kept, FinishedStays, Unfinished
  <1>11. RecoveryAlone'
    BY <1>1 DEF Kept, TypeOK, RecoveryAlone, NoVerdicts
  <1>12. ActiveHasLease'
    BY <1>1 DEF Kept, ActiveHasLease
  <1> QED
    BY <1>3, <1>4, <1>5, <1>6, <1>7, <1>8, <1>9, <1>10, <1>11, <1>12 DEF Kept

LEMMA StopKept ==
  ASSUME Exclusive, Kept, NEW o \in Owners,
         Stop(o) \/ CancelRuns(o) \/ Exit(o) \/ Crash(o) \/ LoopFails(o)
  PROVE  Kept'
  <1>1. /\ run \in [Runs -> RunRec] /\ cancel \in [Requests -> CancelRec]
        /\ Idle \in RunRec /\ NoCancel \in CancelRec
        /\ \A r \in Runs : r[1] \in Owners /\ r = <<r[1], r[2]>> /\ r[2] \in Slots
        /\ \A r \in Runs : run[r].pc = "idle" => run[r] = Idle
        /\ \A q \in Requests : cancel[q].proc \in Owners
              => cancel[q] # NoCancel /\ proc[cancel[q].proc] \in Serving
        /\ candidate[o] # NoTask => proc[o] = "up"
    BY OwnerAssumption
    DEF Kept, TypeOK, ActorsKnown, Idle, RunRec, PC, NoCancel, CancelRec, Runs
  <1>2. Idle.pc = "idle"
    BY DEF Idle
  <1>3. CASE Stop(o)
    <2>1. /\ Alive(o) /\ proc[o] # "recovering" /\ candidate[o] = NoTask
          /\ proc' = [proc EXCEPT ![o] = "stopping"]
          /\ \A q \in Requests : cancel[q].proc # o
          /\ UNCHANGED <<table, history>> /\ snapshot' = snapshot
          /\ candidate' = candidate /\ run' = run /\ cancel' = cancel
      BY <1>3 DEF Stop, Alive, Serving
    <2>2. "stopping" \in ProcState \ {"unborn", "recovering"}
      BY DEF ProcState
    <2>3. /\ run' \in [Runs -> RunRec] /\ cancel' \in [Requests -> CancelRec]
          /\ \A r \in Runs :
                run'[r] = run[r] /\ (r[1] = o /\ run[r].pc # "idle" => "stopping" # "gone")
          /\ \A q \in Requests :
                cancel'[q] = cancel[q] /\ (cancel[q].proc = o => "stopping" \in Serving)
      BY <1>1, <2>1
    <2>9. Ends(o, "stopping")
      BY <2>1, <2>2, <2>3 DEF Ends
    <2> QED
      BY <2>2, <2>9, EndingKeeps
  <1>4. CASE CancelRuns(o)
    <2>1. /\ Alive(o) /\ proc[o] = "stopping" /\ proc[o] # "recovering"
          /\ candidate[o] = NoTask
          /\ proc' = [proc EXCEPT ![o] = "draining"]
          /\ UNCHANGED <<table, history>> /\ snapshot' = snapshot
          /\ candidate' = candidate /\ cancel' = cancel
      BY <1>1, <1>4 DEF CancelRuns, Alive
    <2>2. /\ "draining" \in ProcState \ {"unborn", "recovering"} /\ "draining" # "gone"
          /\ "stopping" \notin Serving
      BY DEF ProcState, Serving
    <2>3. \A q \in Requests : cancel[q].proc # o
      BY <1>1, <2>1, <2>2
    <2>4. ASSUME NEW r \in Runs
          PROVE  /\ run'[r] \in RunRec
                 /\ \/ run'[r] = run[r]
                    \/ run'[r] = Idle
                    \/ /\ r[1] = o /\ run[r].pc # "idle" /\ run'[r].pc = "cancelling"
                       /\ run'[r].task = run[r].task /\ run'[r].gen = run[r].gen
      <3>1. run[r] \in RunRec
        BY <1>1
      <3>2. CASE r[1] # o
        BY <1>4, <3>1, <3>2 DEF CancelRuns
      <3>3. CASE r[1] = o /\ run[r].pc \in Awaiting
        <4>1. run'[r] = [run[r] EXCEPT !.pc = "cancelling"]
          BY <1>4, <3>3 DEF CancelRuns
        <4>2. "cancelling" \in PC /\ "idle" \notin Awaiting
          BY DEF PC, Straight, Awaiting
        <4> QED
          BY <3>1, <3>3, <4>1, <4>2 DEF RunRec
      <3>4. CASE r[1] = o /\ run[r].pc \notin Awaiting
        BY <1>1, <1>4, <3>4 DEF CancelRuns
      <3> QED
        BY <3>2, <3>3, <3>4
    <2>5. run' \in [Runs -> RunRec]
      BY <1>4, <2>4 DEF CancelRuns
    <2>6. \A r \in Runs :
            \/ run'[r] = run[r] /\ (r[1] = o /\ run[r].pc # "idle" => "draining" # "gone")
            \/ run'[r] = Idle
            \/ /\ r[1] = o /\ run[r].pc # "idle" /\ run'[r].pc = "cancelling"
               /\ run'[r].task = run[r].task /\ run'[r].gen = run[r].gen
               /\ "draining" # "gone"
      BY <2>2, <2>4
    <2>7. /\ cancel' \in [Requests -> CancelRec]
          /\ \A q \in Requests :
                cancel'[q] = cancel[q] /\ (cancel[q].proc = o => "draining" \in Serving)
      BY <1>1, <2>1, <2>3
    <2>9. Ends(o, "draining")
      BY <2>1, <2>2, <2>5, <2>6, <2>7 DEF Ends
    <2> QED
      BY <2>2, <2>9, EndingKeeps
  <1>5. CASE Exit(o)
    <2>1. /\ Alive(o) /\ proc[o] # "recovering" /\ candidate[o] = NoTask
          /\ proc[o] \notin Serving
          /\ proc' = [proc EXCEPT ![o] = "gone"]
          /\ UNCHANGED <<table, history>> /\ snapshot' = snapshot
          /\ candidate' = candidate /\ run' = run /\ cancel' = cancel
      BY <1>1, <1>5 DEF Exit, Alive, Serving
    <2>2. "gone" \in ProcState \ {"unborn", "recovering"}
      BY DEF ProcState
    <2>3. \A r \in Runs : r[1] = o => run[r] = Idle
      BY <1>1, <1>5 DEF Exit
    <2>4. /\ run' \in [Runs -> RunRec] /\ cancel' \in [Requests -> CancelRec]
          /\ \A r \in Runs :
                run'[r] = run[r] /\ (r[1] = o /\ run[r].pc # "idle" => "gone" # "gone")
          /\ \A q \in Requests :
                cancel'[q] = cancel[q] /\ (cancel[q].proc = o => "gone" \in Serving)
      BY <1>1, <1>2, <2>1, <2>3
    <2>9. Ends(o, "gone")
      BY <2>1, <2>2, <2>4 DEF Ends
    <2> QED
      BY <2>2, <2>9, EndingKeeps
  <1>6. CASE Crash(o)
    <2>1. /\ Alive(o)
          /\ proc' = [proc EXCEPT ![o] = "gone"]
          /\ snapshot' = [snapshot EXCEPT ![o] = NoVerdicts]
          /\ snapshot'[o] = NoVerdicts
          /\ candidate' = [candidate EXCEPT ![o] = NoTask]
          /\ UNCHANGED <<table, history>>
      BY <1>6 DEF Crash, Alive, Kept, TypeOK
    <2>2. "gone" \in ProcState \ {"unborn", "recovering"}
      BY DEF ProcState
    <2>3. /\ run' \in [Runs -> RunRec]
          /\ \A r \in Runs : IF r[1] = o THEN run'[r] = Idle ELSE run'[r] = run[r]
      BY <1>1, <1>6 DEF Crash
    <2>4. /\ cancel' \in [Requests -> CancelRec]
          /\ \A q \in Requests : \/ cancel'[q] = NoCancel
                                 \/ cancel'[q] = cancel[q] /\ cancel[q].proc # o
      BY <1>1, <1>6 DEF Crash
    <2>9. Ends(o, "gone")
      BY <1>1, <2>1, <2>2, <2>3, <2>4 DEF Ends
    <2> QED
      BY <2>2, <2>9, EndingKeeps
  <1>7. CASE LoopFails(o)
    <2>1. /\ Alive(o) /\ proc[o] # "recovering"
          /\ proc' = [proc EXCEPT ![o] = "loopless"]
          /\ UNCHANGED <<table, history>> /\ snapshot' = snapshot
          /\ candidate' = [candidate EXCEPT ![o] = NoTask]
          /\ run' = run /\ cancel' = cancel
      BY <1>7 DEF LoopFails, Alive
    <2>2. "loopless" \in ProcState \ {"unborn", "recovering"} /\ "loopless" \in Serving
      BY DEF ProcState, Serving
    <2>9. Ends(o, "loopless")
      BY <1>1, <2>1, <2>2 DEF Ends
    <2> QED
      BY <2>2, <2>9, EndingKeeps
  <1> QED
    BY <1>3, <1>4, <1>5, <1>6, <1>7

(* start() decides only on rows whose lease has run out.                    *)
LEMMA StartKept ==
  ASSUME Kept, NEW o \in Owners, Start(o)
  PROVE  Kept'
  <1>1. /\ proc[o] = "unborn" /\ proc'[o] = "recovering"
        /\ \A p \in Owners \ {o} : proc'[p] = proc[p] /\ snapshot'[p] = snapshot[p]
        /\ UNCHANGED <<table, candidate, run, cancel, gen, asked, finished>>
    BY DEF Start, Kept, TypeOK, history
  <1>2. \A t \in Tasks : snapshot'[o][t] =
           IF NeedsRecovery(table[t]) THEN RecoveryVerdict(table[t]) ELSE "none"
    BY DEF Start, Kept, TypeOK
  <1>3. \A t \in Tasks : RecoveryVerdict(table[t]) \in
           {"cancelled", "failed", "retry_scheduled"}
    BY DEF RecoveryVerdict
  <1>4. TypeOK'
    BY <1>3 DEF Start, history, Kept, TypeOK, ProcState
  <1>5. RunHasTask' /\ CancelsAreReal'
    BY <1>1 DEF Kept, RunHasTask, CancelsAreReal
  <1>6. \A r \in Runs : r[1] = o => run[r].pc = "idle"
    BY <1>1 DEF Kept, RunsNeedProcess, Alive
  <1>7. RunsNeedProcess' /\ RecoveringIsIdle'
    BY <1>1, <1>6, RunOwner DEF Kept, RunsNeedProcess, RecoveringIsIdle, Alive
  <1>8. ActorsKnown'
    <2>1. SingleProcess => \A p \in Owners : ~Alive(p)
      BY DEF Start, Alive
    <2>2. "unborn" \notin Serving
      BY DEF Serving
    <2> QED
      BY <1>1, <2>1, <2>2 DEF Kept, ActorsKnown, Alive
  <1>9. GenerationsKnown' /\ OneRunPerTask'
    BY <1>1 DEF Kept, GenerationsKnown, OneRunPerTask, Live
  <1>10. HoldsLease' /\ QueuedIsFree' /\ ActiveHasLease'
    BY <1>1 DEF Kept, HoldsLease, QueuedIsFree, ActiveHasLease, RunsRow, Live
  <1>11. FinishedStays'
    BY <1>1 DEF Kept, FinishedStays
  <1>12. RecoveryAlone'
    <2> SUFFICES ASSUME NEW p \in Owners, NEW t \in Tasks, snapshot'[p][t] # "none"
                 PROVE  /\ proc'[p] = "recovering" /\ "expire" \in Env
                        /\ table'[t].status \in Active \cup {"cancel_requested"}
                        /\ t \in finished' => snapshot'[p][t] = "cancelled"
      BY DEF RecoveryAlone
    <2>1. CASE p # o
      BY <1>1, <2>1 DEF Kept, RecoveryAlone
    <2>2. CASE p = o
      <3>1. /\ table[t].status \in Active \cup {"cancel_requested"}
            /\ table[t].lease = "expired"
            /\ snapshot'[o][t] = RecoveryVerdict(table[t])
        BY <1>2, <2>2 DEF NeedsRecovery
      <3>2. "expire" \in Env
        BY <3>1 DEF Kept, ActorsKnown
      <3>3. t \in finished => table[t].status = "cancel_requested"
        BY <3>1 DEF Kept, FinishedStays, Active, Succeeded, StopAsked
      <3> QED
        BY <1>1, <2>2, <3>1, <3>2, <3>3 DEF RecoveryVerdict
    <2> QED
      BY <2>1, <2>2
  <1> QED
    BY <1>4, <1>5, <1>7, <1>8, <1>9, <1>10, <1>11, <1>12 DEF Kept

(* When the verdicts are committed no run is left that could write to the   *)
(* rows, and no other start has decided on them.                            *)
LEMMA FinishRecoveryKept ==
  ASSUME Exclusive, Kept, NEW o \in Owners, FinishRecovery(o)
  PROVE  Kept'
  <1> DEFINE hit == {t \in Tasks : snapshot[o][t] # "none"}
  <1>1. /\ proc[o] = "recovering" /\ Alive(o) /\ candidate[o] = NoTask
        /\ snapshot' = [snapshot EXCEPT ![o] = NoVerdicts]
        /\ UNCHANGED <<history, gen, asked, finished>>
        /\ candidate' = candidate /\ run' = run /\ cancel' = cancel
    BY DEF FinishRecovery, Alive, Kept, ActorsKnown, history
  <1>2. \A r \in Runs : r[1] = o => run[r].pc = "idle"
    BY <1>1 DEF Kept, RecoveringIsIdle
  <1>3. \A q \in Requests : cancel[q].proc # o
    BY <1>1, OwnerAssumption DEF Kept, TypeOK, ActorsKnown, NoCancel, Serving
  <1>4. /\ run \in [Runs -> RunRec] /\ cancel \in [Requests -> CancelRec]
    BY DEF Kept, TypeOK
  <1>5. CASE ~(\A t \in hit : Present(table[t]))
    <2>1. proc' = [proc EXCEPT ![o] = "gone"] /\ UNCHANGED table
      BY <1>5 DEF FinishRecovery
    <2>2. Ends(o, "gone")
      BY <1>1, <1>2, <1>3, <1>4, <2>1 DEF Ends
    <2>3. "gone" \in ProcState \ {"unborn", "recovering"}
      BY DEF ProcState
    <2> QED
      BY <2>2, <2>3, EndingKeeps
  <1>6. CASE (\A t \in hit : Present(table[t])) /\ hit = {}
    <2>1. table \in [Tasks -> Row]
      BY DEF Kept, TypeOK
    <2>2. proc' = [proc EXCEPT ![o] = "up"] /\ table' = table
      BY <1>6, <2>1 DEF FinishRecovery
    <2>3. Ends(o, "up")
      BY <1>1, <1>2, <1>3, <1>4, <2>2 DEF Ends
    <2>4. "up" \in ProcState \ {"unborn", "recovering"}
      BY DEF ProcState
    <2> QED
      BY <2>3, <2>4, EndingKeeps
  <1>7. CASE (\A t \in hit : Present(table[t])) /\ hit # {}
    <2>1. "expire" \in Env
      BY <1>7 DEF Kept, RecoveryAlone
    <2>2. SingleProcess /\ \A p \in Owners : Alive(p) => p = o
      BY <1>1, <2>1 DEF Exclusive, Kept, ActorsKnown
    <2>3. \A r \in Runs : run[r].pc = "idle" /\ ~Live(r)
      BY <1>2, <2>2, RunOwner, LiveIsNotIdle DEF Kept, RunsNeedProcess
    <2>4. \A q \in Requests : cancel[q] = NoCancel
      BY <1>3, <2>2 DEF Kept, ActorsKnown, Alive, Serving
    <2>5. /\ proc' = [proc EXCEPT ![o] = "up"]
          /\ table' = [t \in Tasks |->
                IF t \in hit THEN Recovered(table[t], snapshot[o][t]) ELSE table[t]]
      BY <1>7 DEF FinishRecovery
    <2>6. \A t \in hit :
            /\ t \in Tasks /\ table[t] \in Row
            /\ snapshot[o][t] \in {"cancelled", "failed", "retry_scheduled"}
            /\ t \in finished => snapshot[o][t] = "cancelled"
      BY DEF Kept, TypeOK, RecoveryAlone
    <2>7. ASSUME NEW t \in hit
          PROVE  /\ t \in Tasks /\ table'[t] \in Row
                 /\ table'[t].status = snapshot[o][t]
                 /\ table'[t].owner = NoOwner /\ table'[t].lease = "none"
      <3>1. table'[t] = Recovered(table[t], snapshot[o][t])
        BY <2>5, <2>6
      <3>2. table[t] \in Row /\ Released(table[t]) \in Row /\ table'[t] \in Row
        BY <2>6, <3>1, RowTypes
      <3>3. Released(table[t]).owner = NoOwner /\ Released(table[t]).lease = "none"
        BY <3>2 DEF Released, Row
      <3>4. /\ table'[t].status = snapshot[o][t]
            /\ table'[t].owner = Released(table[t]).owner
            /\ table'[t].lease = Released(table[t]).lease
        BY <3>1, <3>2 DEF Recovered, Row
      <3> QED
        BY <2>6, <3>2, <3>3, <3>4
    <2>8. \A t \in Tasks \ hit : table'[t] = table[t]
      BY <2>5
    <2>9. table' \in [Tasks -> Row]
      BY <2>5, <2>7, <2>8 DEF Kept, TypeOK
    <2>10. \A p \in Owners, t \in Tasks : snapshot'[p][t] = "none"
      BY <1>1, <2>2 DEF Kept, TypeOK, RecoveryAlone, Alive, NoVerdicts
    <2>11. TypeOK'
      <3>1. NoVerdicts \in [Tasks -> {"none", "cancelled", "failed", "retry_scheduled"}]
        BY DEF NoVerdicts
      <3> QED
        BY <1>1, <2>5, <2>9, <3>1 DEF Kept, TypeOK, ProcState
    <2> HIDE DEF hit
    <2>12. /\ RunHasTask' /\ CancelsAreReal' /\ RunsNeedProcess' /\ RecoveringIsIdle'
           /\ OneRunPerTask' /\ HoldsLease'
      BY <1>1, <2>3, <2>4 DEF RunHasTask, CancelsAreReal, RunsNeedProcess,
                              RecoveringIsIdle, OneRunPerTask, HoldsLease, RunsRow, Live
    <2>13. ActorsKnown'
      <3>1. \A p, u \in Owners : Alive(p)' /\ Alive(u)' => p = u
        BY <2>2, <2>5 DEF Alive, Kept, TypeOK
      <3>2. \A p \in Owners : candidate[p] = NoTask
        BY <1>1, <2>2 DEF Kept, ActorsKnown, Alive
      <3> QED
        BY <1>1, <2>1, <2>4, <3>1, <3>2 DEF Kept, ActorsKnown
    <2>14. GenerationsKnown'
      BY <1>1, <1>7, <2>3, <2>6, <2>7, <2>8 DEF Kept, GenerationsKnown, Live
    <2>15. FinishedStays'
      BY <1>1, <2>3, <2>6, <2>7, <2>8
      DEF Kept, TypeOK, FinishedStays, Unfinished, StopAsked
    <2>16. RecoveryAlone'
      BY <2>10 DEF RecoveryAlone
    <2>17. QueuedIsFree' /\ ActiveHasLease'
      BY <1>1, <2>3, <2>6, <2>7, <2>8
      DEF Kept, QueuedIsFree, ActiveHasLease, RunsRow, Live, Active, Leaseable
    <2> QED
      BY <2>11, <2>12, <2>13, <2>14, <2>15, <2>16, <2>17 DEF Kept
  <1> QED
    BY <1>5, <1>6, <1>7

LEMMA SelectKept ==
  ASSUME Kept, NEW o \in Owners, NEW t \in Tasks, SelectCandidate(o, t)
  PROVE  Kept'
  <1>1. /\ proc[o] = "up" /\ candidate' = [candidate EXCEPT ![o] = t]
        /\ UNCHANGED <<table, proc, snapshot, run, cancel, gen, asked, finished>>
    BY DEF SelectCandidate, history
  <1>2. TypeOK'
    BY <1>1 DEF Kept, TypeOK
  <1>3. ActorsKnown'
    BY <1>1 DEF Kept, TypeOK, ActorsKnown, Alive
  <1>4. /\ RunHasTask' /\ CancelsAreReal' /\ RunsNeedProcess' /\ RecoveringIsIdle'
        /\ GenerationsKnown' /\ OneRunPerTask'
    BY <1>1 DEF Kept, RunHasTask, CancelsAreReal, RunsNeedProcess, RecoveringIsIdle,
                GenerationsKnown, OneRunPerTask, Live, Alive
  <1>5. HoldsLease' /\ QueuedIsFree' /\ ActiveHasLease'
    BY <1>1 DEF Kept, HoldsLease, QueuedIsFree, ActiveHasLease, RunsRow, Live
  <1>6. FinishedStays' /\ RecoveryAlone'
    BY <1>1 DEF Kept, FinishedStays, RecoveryAlone
  <1> QED
    BY <1>2, <1>3, <1>4, <1>5, <1>6 DEF Kept

(* The heart of it: whoever claims a row finds it free of other runs.       *)
LEMMA ClaimKept ==
  ASSUME Exclusive, Kept, NEW o \in Owners, NEW s \in Slots, ClaimCandidate(o, s)
  PROVE  Kept'
  <1> DEFINE r == <<o, s>>
  <1>1. PICK t \in Tasks : t = candidate[o]
    BY DEF ClaimCandidate, Kept, TypeOK
  <1>2. /\ proc[o] = "up" /\ Alive(o) /\ r \in Runs /\ r[1] = o /\ r[2] = s
        /\ run[r] = Idle
        /\ candidate' = [candidate EXCEPT ![o] = NoTask]
        /\ UNCHANGED <<proc, snapshot, cancel, gen, asked, finished>>
    BY DEF ClaimCandidate, Kept, ActorsKnown, Alive, Runs, history
  <1>3. CASE ~Claimable(table[t])
    <2>1. UNCHANGED <<table, run>>
      BY <1>1, <1>3 DEF ClaimCandidate
    <2>2. TypeOK'
      BY <1>2, <2>1 DEF Kept, TypeOK
    <2>3. ActorsKnown'
      BY <1>2, <2>1 DEF Kept, TypeOK, ActorsKnown, Alive
    <2>4. /\ RunHasTask' /\ CancelsAreReal' /\ RunsNeedProcess' /\ RecoveringIsIdle'
          /\ GenerationsKnown' /\ OneRunPerTask'
      BY <1>2, <2>1 DEF Kept, RunHasTask, CancelsAreReal, RunsNeedProcess,
                  RecoveringIsIdle, GenerationsKnown, OneRunPerTask, Live, Alive
    <2>5. HoldsLease' /\ QueuedIsFree' /\ ActiveHasLease'
      BY <1>2, <2>1 DEF Kept, HoldsLease, QueuedIsFree, ActiveHasLease, RunsRow, Live
    <2>6. FinishedStays' /\ RecoveryAlone'
      BY <1>2, <2>1 DEF Kept, FinishedStays, RecoveryAlone
    <2> QED
      BY <2>2, <2>3, <2>4, <2>5, <2>6 DEF Kept
  <1>4. CASE Claimable(table[t])
    <2> DEFINE new == Claimed(table[t], o)
               rec == [pc |-> "claimed", task |-> t, gen |-> gen[t], try |-> 0]
    <2>1. /\ table' = [table EXCEPT ![t] = new] /\ run' = [run EXCEPT ![r] = rec]
      BY <1>1, <1>4 DEF ClaimCandidate
    <2>2. table[t] \in Row /\ table[t].status \in Leaseable /\ Present(table[t])
      BY <1>4 DEF Claimable, Kept, TypeOK, Present, Leaseable
    <2>3. new \in Row
      BY <2>2, RowTypes
    <2>4. new.status = "leased" /\ new.owner = o /\ new.lease = "live"
      BY <2>2 DEF Claimed, Row
    <2>5. rec \in RunRec /\ rec.pc = "claimed" /\ rec # Idle
      BY DEF RunRec, PC, Straight, Kept, TypeOK, Idle
    <2>6. rec.task = t /\ rec.gen = gen[t] /\ gen[t] \in Nat /\ gen[t] >= 1
      BY <2>2 DEF Kept, TypeOK, GenerationsKnown
    <2> HIDE DEF new, rec, r
    <2>7. /\ table'[t] = new /\ run'[r] = rec
          /\ \A u \in Tasks \ {t} : table'[u] = table[u]
          /\ \A x \in Runs \ {r} : run'[x] = run[x]
      BY <1>2, <2>1 DEF Kept, TypeOK
    <2>8. ASSUME NEW x \in Runs, Live(x), run[x].task = t PROVE FALSE
      <3>1. run[x].pc # "idle" /\ Alive(x[1])
        BY <2>8, LiveIsNotIdle, RunAlive
      <3>2. CASE SingleProcess /\ \A a, b \in Slots : a = b
        <4>1. x[1] = o /\ x[2] = s
          BY <1>2, <3>1, <3>2, RunOwner DEF Kept, ActorsKnown, Runs
        <4>2. x = r
          BY <1>2, <4>1 DEF Runs, r
        <4> QED
          BY <1>2, <2>8, <4>2 DEF Live
      <3>3. CASE MaxGen <= 1
        <4>1. /\ run[x].gen >= 1 /\ run[x].gen <= gen[t] /\ gen[t] <= MaxGen
              /\ run[x].gen \in Nat /\ gen[t] \in Nat /\ MaxGen \in Nat
          BY <2>8, PlatformAssumption DEF Kept, TypeOK, RunRec, GenerationsKnown
        <4>2. RunsRow(x, t)
          BY <2>8, <3>3, <4>1 DEF RunsRow
        <4> QED
          BY <2>2, <3>1, <4>2 DEF Kept, QueuedIsFree
      <3> QED
        BY <3>2, <3>3 DEF Exclusive
    <2>9. \A p \in Owners, u \in Tasks : snapshot[p][u] = "none"
      BY <1>2, NoVerdictOpen
    <2>10. TypeOK'
      BY <1>2, <2>1, <2>3, <2>5 DEF Kept, TypeOK
    <2>11. RunHasTask' /\ CancelsAreReal' /\ RunsNeedProcess' /\ RecoveringIsIdle'
      BY <1>2, <2>6, <2>7 DEF Kept, RunHasTask, CancelsAreReal, RunsNeedProcess,
                              RecoveringIsIdle, Alive
    <2>12. ActorsKnown'
      <3>1. ActorsKnown
        BY DEF Kept
      <3>2. \A x \in Runs : run'[x].pc = "idle" => run'[x] = Idle
        BY <2>5, <2>7, <3>1 DEF ActorsKnown
      <3>3. \A p \in Owners : candidate'[p] # NoTask => candidate[p] # NoTask
        BY <1>2 DEF Kept, TypeOK
      <3>4. \A u \in Tasks : table'[u].lease = "expired" => table[u].lease = "expired"
        BY <2>4, <2>7
      <3> QED
        BY <1>2, <3>1, <3>2, <3>3, <3>4 DEF ActorsKnown, Alive
    <2>13. GenerationsKnown'
      BY <1>2, <2>2, <2>6, <2>7 DEF Kept, GenerationsKnown, Live
    <2>14. OneRunPerTask'
      BY <2>6, <2>7, <2>8 DEF Kept, OneRunPerTask, Live
    <2>15. HoldsLease'
      BY <1>2, <2>4, <2>5, <2>6, <2>7, <2>8 DEF Kept, HoldsLease, RunsRow, Live
    <2>16. FinishedStays'
      <3>1. t \notin finished
        BY <2>2 DEF Kept, FinishedStays, Leaseable, Succeeded, StopAsked
      <3> QED
        BY <1>2, <2>6, <2>7, <3>1 DEF Kept, TypeOK, FinishedStays
    <2>17. RecoveryAlone'
      BY <1>2, <2>9 DEF RecoveryAlone
    <2>18. QueuedIsFree' /\ ActiveHasLease'
      BY <1>2, <2>4, <2>6, <2>7, OwnerAssumption
      DEF Kept, QueuedIsFree, ActiveHasLease, RunsRow, Live, Leaseable
    <2> QED
      BY <2>10, <2>11, <2>12, <2>13, <2>14, <2>15, <2>16, <2>17, <2>18 DEF Kept
  <1> QED
    BY <1>3, <1>4

LEMMA KeptNext == ASSUME Exclusive, Kept, [Next]_vars PROVE Kept'
  <1>1. CASE UNCHANGED vars
    BY <1>1, SameRowsKept DEF vars, Kept, TypeOK, CancelsAreReal, ActorsKnown
  <1>2. CASE ApiStep
    BY <1>2, ApiKept
  <1>3. ASSUME NEW o \in Owners, WorkerStep(o) PROVE Kept'
    BY <1>3, StartKept, FinishRecoveryKept, SelectKept, ClaimKept, StopKept
    DEF WorkerStep
  <1>4. ASSUME NEW r \in Runs, RunStep(r) \/ Heartbeat(r) \/ RunDbError(r)
        PROVE  Kept'
    BY <1>4, RunStepKept, HeartbeatKept, RunDbErrorKept
  <1>5. CASE TimeStep
    BY <1>5, TimeKept
  <1> QED
    BY <1>1, <1>2, <1>3, <1>4, <1>5 DEF Next

(* Kept is an invariant wherever keys, slots, processes and leases cannot   *)
(* bring two runs to one row (Exclusive).                                   *)
THEOREM KeptAlways ==
  ASSUME Exclusive
  PROVE  Spec => []Kept
  <1>1. Kept /\ [Next]_vars => Kept'
    BY KeptNext
  <1> QED
    BY <1>1, KeptInit, PTL DEF Spec

(* No two coroutines execute the same row at once: claim_next_task's UPDATE *)
(* repeats its condition, a lease ends only when its holder is gone, and    *)
(* start() recovers before it claims.                                       *)
THEOREM RunsApart ==
  ASSUME Exclusive
  PROVE  Spec => []OneRunPerRow
  <1>1. Kept => OneRunPerRow
    BY DEF Kept, OneRunPerTask, OneRunPerRow, RunsRow
  <1> QED
    BY <1>1, KeptAlways, PTL

(* A row waiting to be claimed has no lease and no coroutine, and a row     *)
(* being executed has a lease for a later start to find.                    *)
THEOREM LeasesFollow ==
  ASSUME Exclusive
  PROVE  Spec => []LeaseFollowsStatus
  <1>1. Kept => LeaseFollowsStatus
    BY DEF Kept, LeaseFollowsStatus
  <1> QED
    BY <1>1, KeptAlways, PTL

(* What a run has finished is never queued or executed again, whatever      *)
(* cancels, shutdowns, crashes and recoveries do to its row afterwards.     *)
THEOREM FinishedForGood ==
  ASSUME Exclusive
  PROVE  Spec => []NoRerunAfterSuccess
  <1>1. Kept => NoRerunAfterSuccess
    BY DEF Kept, FinishedStays, NoRerunAfterSuccess, Succeeded, StopAsked,
           Leaseable, Active
  <1> QED
    BY <1>1, KeptAlways, PTL

(* A step on rows nobody has cancelled, or that leaves them out of the      *)
(* queue.                                                                   *)
Spares(t) == table[t].status = "cancelled" /\ (\A r \in Runs : run[r].task # t)
                => table'[t].status \notin Active \cup Leaseable

LEMMA StepSpares ==
  ASSUME Exclusive, Kept, [Next]_vars, NEW t \in Tasks
  PROVE  Spares(t)
  <1> USE DEF Leaseable, Active, StopAsked
  <1>1. table \in [Tasks -> Row]
    BY DEF Kept, TypeOK
  <1>2. CASE UNCHANGED vars
    BY <1>2 DEF vars, Spares
  <1>3. ASSUME NEW u \in Tasks, NEW max \in AttemptLimits, Create(u, max)
        PROVE  Spares(t)
    BY <1>1, <1>3 DEF Create, IsNextId, Spares, Present, Tasks
  <1>4. ASSUME NEW u \in Tasks, Delete(u) PROVE Spares(t)
    BY <1>1, <1>4 DEF Delete, Spares, NoRow
  <1>5. ASSUME NEW u \in Tasks,
               \/ CancelAgain(u)
               \/ \E q \in Requests, o \in Owners : ReadForCancel(q, o, u)
        PROVE  Spares(t)
    BY <1>5 DEF CancelAgain, ReadForCancel, Spares
  <1>6. ASSUME NEW q \in Requests, CommitCancel(q) PROVE Spares(t)
    <2>1. cancel[q].write \in StopAsked
      BY <1>6 DEF CommitCancel, Kept, CancelsAreReal
    <2> QED
      BY <1>1, <1>6, <2>1 DEF CommitCancel, Spares, Row
  <1>7. ASSUME NEW o \in Owners, NEW s \in Slots, ClaimCandidate(o, s)
        PROVE  Spares(t)
    BY <1>1, <1>7 DEF ClaimCandidate, Spares, Claimable
  <1>8. ASSUME NEW o \in Owners, FinishRecovery(o) PROVE Spares(t)
    <2>1. snapshot[o][t] # "none" => table[t].status # "cancelled"
      BY DEF Kept, RecoveryAlone
    <2> QED
      BY <1>1, <1>8, <2>1 DEF FinishRecovery, Spares
  <1>9. ASSUME NEW o \in Owners,
               \/ Start(o) \/ Stop(o) \/ CancelRuns(o) \/ Exit(o) \/ Crash(o)
               \/ LoopFails(o) \/ \E u \in Tasks : SelectCandidate(o, u)
        PROVE  Spares(t)
    BY <1>9 DEF Start, Stop, CancelRuns, Exit, Crash, LoopFails, SelectCandidate,
                Spares
  <1>10. ASSUME NEW r \in Runs, RunStep(r) \/ Heartbeat(r) \/ RunDbError(r)
         PROVE  Spares(t)
    <2>1. run[r].task # t => table'[t] = table[t]
      BY <1>1, <1>10
      DEF RunStep, BeginMissing, Begin, BadParams, CheckPlan, Route, CheckRoute,
          WorkDone, WorkCancelled, WorkRaises, CheckWork, Review, Finish, Announce,
          OnCancelled, OnException, ReadForClear, Rearm, Release, Check, Put,
          Handle, Clear, Heartbeat, RunDbError
    <2> QED
      BY <2>1 DEF Spares
  <1>11. ASSUME TimeStep PROVE Spares(t)
    <2>1. table'[t].status = table[t].status
      BY <1>1, <1>11 DEF TimeStep, LeaseExpires, BecomesDue, Row
    <2> QED
      BY <2>1 DEF Spares
  <1> QED
    BY <1>2, <1>3, <1>4, <1>5, <1>6, <1>7, <1>8, <1>9, <1>10, <1>11
    DEF Next, ApiStep, WorkerStep

(* The cancel of a row that no coroutine has taken wins over the claim that *)
(* selected the row before it and over the verdict of a start.              *)
THEOREM CancelWins ==
  ASSUME Exclusive
  PROVE  Spec => CancelBeatsClaim
  <1>1. Kept /\ [Next]_vars =>
           [\A t \in Tasks :
              /\ table[t].status = "cancelled"
              /\ \A r \in Runs : run[r].task # t
              => table'[t].status \notin Active \cup Leaseable]_vars
    BY StepSpares DEF Spares
  <1> QED
    BY <1>1, KeptAlways, PTL DEF Spec, CancelBeatsClaim
=============================================================================
