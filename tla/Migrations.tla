------------------------------- MODULE Migrations ----------------------------
(****************************************************************************)
(* run_migrations (app/migrations/runner.py) in processes that start on one *)
(* database at the same time.                                               *)
(*                                                                          *)
(* The driver opens a transaction before INSERT, UPDATE and DELETE only, so *)
(* that every ALTER TABLE, CREATE and PRAGMA user_version is committed for  *)
(* itself: a process may end, and another one work, between any two of them.*)
(****************************************************************************)
EXTENDS Naturals, FiniteSets, TLAPS

CONSTANTS
    Procs,      \* processes
    Target,     \* target_version
    Columns,    \* what migrations add: tables, columns and indexes
    Adds,       \* what each migration adds
    Before,     \* what a database may have from before there were versions
    Brings      \* what comes with a thing that is added: a new table has the
                \* columns that later migrations add to an old one

MigrationsAssumption ==
    /\ Target \in Nat
    /\ Adds \in [1 .. Target -> SUBSET Columns]
    /\ Brings \in [Columns -> SUBSET Columns]
    /\ \A c \in Columns : c \in Brings[c]
    /\ Before \subseteq SUBSET Columns

ASSUME MigrationsConstants == MigrationsAssumption

VARIABLES
    version,    \* PRAGMA user_version
    columns,    \* what the database has
    proc,       \* each process: where it is, current_version, the migration it is
                \* at, what that has still to add, and what it found missing
    alone       \* nobody else has run since the process started

vars == <<version, columns, proc, alone>>

State(at, current, next, todo, missing) ==
    [at |-> at, current |-> current, next |-> next, todo |-> todo, missing |-> missing]

Off == State("off", 0, 1, {}, {})

Running == {"loop", "apply", "add"}

TypeOK ==
    /\ version \in 0 .. (Target + 1)
    /\ columns \subseteq Columns
    /\ proc \in [Procs -> [at : Running \cup {"off", "done", "failed", "error"},
                           current : 0 .. (Target + 1), next : 1 .. (Target + 1),
                           todo : SUBSET Columns, missing : SUBSET Columns]]
    /\ alone \in [Procs -> BOOLEAN]

(* A new database, an old one from before there were versions, or the one   *)
(* of a newer program.                                                      *)
Init ==
    /\ version \in {0, Target + 1}
    /\ columns \in IF version = 0 THEN Before ELSE {Columns}
    /\ proc = [p \in Procs |-> Off]
    /\ alone = [p \in Procs |-> FALSE]

-----------------------------------------------------------------------------
Idle(p) == proc[p].at \notin Running

Goes(p, r) == proc' = [proc EXCEPT ![p] = r]

(* The version is read; that of a newer program is refused.                 *)
run_migrations(p) ==
    /\ Idle(p)
    /\ Goes(p, State(IF version > Target THEN "failed" ELSE "loop", version, 1, {}, {}))
    /\ alone' = [q \in Procs |-> IF q = p THEN \A r \in Procs \ {p} : Idle(r) ELSE FALSE]
    /\ UNCHANGED <<version, columns>>

(* A migration that is done already is passed over.                         *)
Skip(p) ==
    /\ proc[p].at = "loop" /\ proc[p].next <= Target
    /\ proc[p].next <= proc[p].current
    /\ Goes(p, State("loop", proc[p].current, proc[p].next + 1, {}, {}))
    /\ UNCHANGED <<version, columns, alone>>

(* The version is read again, as another process may have moved it.         *)
Begin(p) ==
    /\ proc[p].at = "loop" /\ proc[p].next <= Target
    /\ proc[p].next > proc[p].current
    /\ IF version # proc[p].current /\ proc[p].next <= version
       THEN Goes(p, State("loop", version, proc[p].next + 1, {}, {}))
       ELSE Goes(p, State("apply", version, proc[p].next, Adds[proc[p].next], {}))
    /\ UNCHANGED <<version, columns, alone>>

(* Wrong on purpose: the version alone says what is there.                  *)
PresentByVersion(c) == \E v \in 1 .. Target : v <= version /\ c \in Adds[v]

Present(c) == c \in columns

(* A column is looked for before it is added; what is there is left alone.  *)
Look(p, c) ==
    /\ proc[p].at = "apply" /\ c \in proc[p].todo
    /\ IF Present(c)
       THEN Goes(p, State("apply", proc[p].current, proc[p].next, proc[p].todo \ {c}, {}))
       ELSE Goes(p, State("add", proc[p].current, proc[p].next, proc[p].todo, {c}))
    /\ UNCHANGED <<version, columns, alone>>

(* Adding what has come meanwhile is an error.                              *)
Add(p) ==
    /\ proc[p].at = "add"
    /\ IF proc[p].missing \cap columns # {}
       THEN Goes(p, State("failed", 0, 1, {}, {})) /\ UNCHANGED columns
       ELSE /\ columns' = columns \cup UNION {Brings[c] : c \in proc[p].missing}
            /\ Goes(p, State("apply", proc[p].current, proc[p].next,
                             proc[p].todo \ proc[p].missing, {}))
    /\ UNCHANGED <<version, alone>>

(* Wrong on purpose: the version is set before the last thing is added.     *)
AlmostApplied(p) == Cardinality(proc[p].todo) <= 1

Applied(p) == proc[p].todo = {}

SetVersion(p) ==
    /\ proc[p].at = "apply" /\ Applied(p)
    /\ version' = proc[p].next
    /\ Goes(p, State("loop", proc[p].next, proc[p].next + 1, {}, {}))
    /\ UNCHANGED <<columns, alone>>

Finish(p) ==
    /\ proc[p].at = "loop" /\ proc[p].next > Target
    /\ Goes(p, State("done", 0, 1, {}, {}))
    /\ UNCHANGED <<version, columns, alone>>

(* The database is locked for longer than it waits, or the process ends.    *)
Interrupted(p) ==
    /\ proc[p].at \in Running
    /\ \E at \in {"error", "off"} : Goes(p, State(at, 0, 1, {}, {}))
    /\ UNCHANGED <<version, columns, alone>>

Step(p) ==
    \/ Skip(p) \/ Begin(p) \/ Add(p) \/ SetVersion(p) \/ Finish(p)
    \/ \E c \in Columns : Look(p, c)

Next == \E p \in Procs : run_migrations(p) \/ Step(p) \/ Interrupted(p)

Spec == Init /\ [][Next]_vars

-----------------------------------------------------------------------------
(* What the version says has been added is there, whoever was interrupted   *)
(* where.                                                                   *)
VersionIsTrue ==
    \A v \in 1 .. Target : v <= version => Adds[v] \subseteq columns

(* A program that goes on after its migrations finds all it needs.          *)
DoneIsComplete ==
    \A p \in Procs : proc[p].at = "done" => \A v \in 1 .. Target : Adds[v] \subseteq columns

(* A process that nobody disturbs fails on the database of a newer program  *)
(* only: what an interrupted one has left does not stop it.                 *)
AloneSucceeds ==
    \A p \in Procs : proc[p].at = "failed" => ~alone[p] \/ version > Target

(* What the version says, what a migrated program finds, and that a process *)
(* left alone can go on, together.                                          *)
MigrationHolds == TypeOK /\ VersionIsTrue /\ DoneIsComplete /\ AloneSucceeds

-----------------------------------------------------------------------------
(* Proofs, for any number of processes and migrations, any things they add  *)
(* and any database they find.                                              *)

Record == [at : Running \cup {"off", "done", "failed", "error"},
           current : 0 .. (Target + 1), next : 1 .. (Target + 1),
           todo : SUBSET Columns, missing : SUBSET Columns]

Complete(cols) == \A v \in 1 .. Target : Adds[v] \subseteq cols

(* What a process in state r takes to be in the database: the migrations    *)
(* before the one it is at and those that its current_version names, and of *)
(* the one it is at all but what it has left to add.                        *)
Believes(r, cols) ==
    r.at \in Running =>
        /\ \A v \in 1 .. Target :
              v < r.next \/ v <= r.current => Adds[v] \subseteq cols
        /\ r.at \in {"apply", "add"} =>
              r.next <= Target /\ Adds[r.next] \subseteq cols \cup r.todo

BeliefTrue == \A p \in Procs : Believes(proc[p], columns)

Inv == TypeOK /\ VersionIsTrue /\ BeliefTrue /\ DoneIsComplete

(* Before any process runs there are no versions, or the newer program has  *)
(* brought everything.                                                      *)
LEMMA InitInv == Init => Inv
  <1> USE MigrationsConstants DEF MigrationsAssumption
  <1> SUFFICES ASSUME Init PROVE Inv
    OBVIOUS
  <1>1. TypeOK
    BY DEF Init, TypeOK, Off, State, Running
  <1>2. VersionIsTrue
    BY DEF Init, VersionIsTrue
  <1>3. BeliefTrue
    BY DEF Init, BeliefTrue, Believes, Off, State, Running
  <1>4. DoneIsComplete
    BY DEF Init, DoneIsComplete, Off, State
  <1> QED
    BY <1>1, <1>2, <1>3, <1>4 DEF Inv

(* What is in the database stays there, so that a step of one process       *)
(* leaves the others right about it.                                        *)
LEMMA StepKeeps ==
    ASSUME Inv, NEW p \in Procs, NEW r \in Record,
           proc' = [proc EXCEPT ![p] = r],
           columns \subseteq columns', columns' \subseteq Columns,
           version' \in 0 .. (Target + 1), alone' \in [Procs -> BOOLEAN],
           VersionIsTrue', Believes(r, columns'),
           r.at = "done" => Complete(columns')
    PROVE  Inv'
  <1>1. proc' \in [Procs -> Record]
    BY DEF Inv, TypeOK, Record
  <1>2. TypeOK'
    BY <1>1 DEF TypeOK, Record
  <1>3. ASSUME NEW q \in Procs PROVE Believes(proc'[q], columns')
    <2>1. CASE q = p
      BY <2>1 DEF Inv, TypeOK
    <2>2. CASE q # p
      BY <2>2 DEF Inv, TypeOK, BeliefTrue, Believes
    <2> QED
      BY <2>1, <2>2
  <1>4. ASSUME NEW q \in Procs, proc'[q].at = "done" PROVE Complete(columns')
    <2>1. CASE q = p
      BY <1>4, <2>1 DEF Inv, TypeOK
    <2>2. CASE q # p
      BY <1>4, <2>2 DEF Inv, TypeOK, DoneIsComplete, Complete
    <2> QED
      BY <2>1, <2>2
  <1> QED
    BY <1>2, <1>3, <1>4 DEF Inv, BeliefTrue, DoneIsComplete, Complete

(* The same where the database does not change either.                      *)
LEMMA QuietStepKeeps ==
    ASSUME Inv, NEW p \in Procs, NEW r \in Record,
           proc' = [proc EXCEPT ![p] = r],
           UNCHANGED <<version, columns>>, alone' \in [Procs -> BOOLEAN],
           Believes(r, columns),
           r.at = "done" => Complete(columns)
    PROVE  Inv'
  <1>1. VersionIsTrue'
    BY DEF Inv, VersionIsTrue
  <1> QED
    BY <1>1, StepKeeps DEF Inv, TypeOK

(* A process's record has its fields.                                       *)
LEMMA RecordType ==
    ASSUME Inv, NEW p \in Procs
    PROVE  proc[p] \in Record /\ Believes(proc[p], columns)
  BY DEF Inv, TypeOK, Record, BeliefTrue

(* run_migrations: current_version is the version, which is true.           *)
LEMMA StartKeeps ==
    ASSUME Inv, NEW p \in Procs, run_migrations(p)
    PROVE  Inv'
  <1> DEFINE r == State(IF version > Target THEN "failed" ELSE "loop", version, 1, {}, {})
  <1> USE MigrationsConstants DEF MigrationsAssumption
  <1>1. r \in Record
    BY DEF Record, Running, State, Inv, TypeOK
  <1>2. Believes(r, columns) /\ r.at # "done"
    BY DEF Believes, State, Running, Inv, TypeOK, VersionIsTrue
  <1>3. /\ alone' \in [Procs -> BOOLEAN] /\ UNCHANGED <<version, columns>>
        /\ proc' = [proc EXCEPT ![p] = r]
    BY DEF run_migrations, Goes
  <1> HIDE DEF r
  <1> QED
    BY <1>1, <1>2, <1>3, QuietStepKeeps

(* A migration is passed over when current_version names it.                *)
LEMMA SkipKeeps ==
    ASSUME Inv, NEW p \in Procs, Skip(p)
    PROVE  Inv'
  <1> DEFINE r == State("loop", proc[p].current, proc[p].next + 1, {}, {})
  <1> USE MigrationsConstants DEF MigrationsAssumption
  <1>1. proc[p] \in Record /\ Believes(proc[p], columns)
    BY RecordType
  <1>2. /\ proc[p].at = "loop" /\ proc[p].next <= Target /\ proc[p].next <= proc[p].current
        /\ proc' = [proc EXCEPT ![p] = r]
        /\ UNCHANGED <<version, columns, alone>>
    BY DEF Skip, Goes
  <1>3. r \in Record
    BY <1>1, <1>2 DEF Record, State, Running
  <1>4. Believes(r, columns) /\ r.at # "done"
    BY <1>1, <1>2 DEF Believes, State, Running, Record
  <1>5. alone' \in [Procs -> BOOLEAN]
    BY <1>2 DEF Inv, TypeOK
  <1> HIDE DEF r
  <1> QED
    BY <1>2, <1>3, <1>4, <1>5, QuietStepKeeps

(* The version that is read again is true as well: a migration that another *)
(* process has applied is passed over, any other begins with all to add.    *)
LEMMA BeginKeeps ==
    ASSUME Inv, NEW p \in Procs, Begin(p)
    PROVE  Inv'
  <1> DEFINE passed == State("loop", version, proc[p].next + 1, {}, {})
             begun  == State("apply", version, proc[p].next, Adds[proc[p].next], {})
             other  == version # proc[p].current /\ proc[p].next <= version
  <1> USE MigrationsConstants DEF MigrationsAssumption
  <1>1. proc[p] \in Record /\ Believes(proc[p], columns)
    BY RecordType
  <1>2. /\ proc[p].at = "loop" /\ proc[p].next \in 1 .. Target
        /\ version \in 0 .. (Target + 1)
    BY <1>1 DEF Begin, Record, Inv, TypeOK
  <1>3. \A v \in 1 .. Target : v <= version => Adds[v] \subseteq columns
    BY DEF Inv, VersionIsTrue
  <1>4. alone' \in [Procs -> BOOLEAN] /\ UNCHANGED <<version, columns>>
    BY DEF Begin, Inv, TypeOK
  <1>5. CASE other
    <2>1. passed \in Record
      BY <1>1, <1>2 DEF Record, State, Running
    <2>2. Believes(passed, columns) /\ passed.at # "done"
      BY <1>1, <1>2, <1>3, <1>5 DEF Believes, State, Running, Record
    <2>3. proc' = [proc EXCEPT ![p] = passed]
      BY <1>5 DEF Begin, Goes
    <2> HIDE DEF passed
    <2> QED
      BY <1>4, <2>1, <2>2, <2>3, QuietStepKeeps
  <1>6. CASE ~other
    <2>1. begun \in Record
      BY <1>1, <1>2 DEF Record, State, Running
    <2>2. Believes(begun, columns) /\ begun.at # "done"
      BY <1>1, <1>2, <1>3 DEF Believes, State, Running, Record
    <2>3. proc' = [proc EXCEPT ![p] = begun]
      BY <1>6 DEF Begin, Goes
    <2> HIDE DEF begun
    <2> QED
      BY <1>4, <2>1, <2>2, <2>3, QuietStepKeeps
  <1> QED
    BY <1>5, <1>6

(* What is found there need not be added.                                   *)
LEMMA LookKeeps ==
    ASSUME Inv, NEW p \in Procs, NEW c \in Columns, Look(p, c)
    PROVE  Inv'
  <1> DEFINE found   == State("apply", proc[p].current, proc[p].next, proc[p].todo \ {c}, {})
             lacking == State("add", proc[p].current, proc[p].next, proc[p].todo, {c})
  <1>1. proc[p] \in Record /\ Believes(proc[p], columns)
    BY RecordType
  <1>2. proc[p].at = "apply" /\ UNCHANGED <<version, columns, alone>>
    BY DEF Look
  <1>3. alone' \in [Procs -> BOOLEAN]
    BY <1>2 DEF Inv, TypeOK
  <1>4. CASE Present(c)
    <2>1. found \in Record
      BY <1>1 DEF Record, State, Running
    <2>2. Believes(found, columns) /\ found.at # "done"
      BY <1>1, <1>2, <1>4 DEF Believes, State, Present, Running, Record
    <2>3. proc' = [proc EXCEPT ![p] = found]
      BY <1>4 DEF Look, Goes
    <2> HIDE DEF found
    <2> QED
      BY <1>2, <1>3, <2>1, <2>2, <2>3, QuietStepKeeps
  <1>5. CASE ~Present(c)
    <2>1. lacking \in Record
      BY <1>1 DEF Record, State, Running
    <2>2. Believes(lacking, columns) /\ lacking.at # "done"
      BY <1>1, <1>2 DEF Believes, State, Running, Record
    <2>3. proc' = [proc EXCEPT ![p] = lacking]
      BY <1>5 DEF Look, Goes
    <2> HIDE DEF lacking
    <2> QED
      BY <1>2, <1>3, <2>1, <2>2, <2>3, QuietStepKeeps
  <1> QED
    BY <1>4, <1>5

(* What is added is there, and all that comes with it.                      *)
LEMMA AddKeeps ==
    ASSUME Inv, NEW p \in Procs, Add(p)
    PROVE  Inv'
  <1> DEFINE broken == State("failed", 0, 1, {}, {})
             added  == State("apply", proc[p].current, proc[p].next,
                             proc[p].todo \ proc[p].missing, {})
             come   == proc[p].missing \cap columns # {}
  <1> USE MigrationsConstants DEF MigrationsAssumption
  <1>1. proc[p] \in Record /\ Believes(proc[p], columns)
    BY RecordType
  <1>2. proc[p].at = "add" /\ UNCHANGED <<version, alone>>
    BY DEF Add
  <1>3. alone' \in [Procs -> BOOLEAN] /\ version' \in 0 .. (Target + 1)
    BY <1>2 DEF Inv, TypeOK
  <1>4. CASE come
    <2>1. broken \in Record
      BY DEF Record, State
    <2>2. Believes(broken, columns) /\ broken.at # "done"
      BY DEF Believes, State, Running
    <2>3. proc' = [proc EXCEPT ![p] = broken] /\ UNCHANGED columns
      BY <1>4 DEF Add, Goes
    <2> HIDE DEF broken
    <2> QED
      BY <1>2, <1>3, <2>1, <2>2, <2>3, QuietStepKeeps
  <1>5. CASE ~come
    <2>1. /\ proc' = [proc EXCEPT ![p] = added]
          /\ columns' = columns \cup UNION {Brings[c] : c \in proc[p].missing}
      BY <1>5 DEF Add, Goes
    <2>2. proc[p].missing \subseteq Columns
      BY <1>1 DEF Record
    <2>3. columns \cup proc[p].missing \subseteq columns'
      BY <2>1, <2>2
    <2>4. columns' \subseteq Columns
      BY <2>1, <2>2 DEF Inv, TypeOK
    <2>5. added \in Record
      BY <1>1, <1>2 DEF Record, State, Running
    <2>6. Believes(added, columns') /\ added.at # "done"
      BY <1>1, <1>2, <2>3 DEF Believes, State, Running, Record
    <2>7. VersionIsTrue'
      BY <1>2, <2>3 DEF Inv, VersionIsTrue
    <2> HIDE DEF added
    <2> QED
      BY <1>3, <2>1, <2>3, <2>4, <2>5, <2>6, <2>7, StepKeeps
  <1> QED
    BY <1>4, <1>5

(* The version is set when nothing is left to add, and the migrations       *)
(* before it are there: it stays true, even when it goes back.              *)
LEMMA SetVersionKeeps ==
    ASSUME Inv, NEW p \in Procs, SetVersion(p)
    PROVE  Inv'
  <1> DEFINE r == State("loop", proc[p].next, proc[p].next + 1, {}, {})
  <1> USE MigrationsConstants DEF MigrationsAssumption
  <1>1. proc[p] \in Record /\ Believes(proc[p], columns)
    BY RecordType
  <1>2. /\ proc[p].at = "apply" /\ proc[p].todo = {}
        /\ version' = proc[p].next
        /\ proc' = [proc EXCEPT ![p] = r]
        /\ UNCHANGED <<columns, alone>>
    BY DEF SetVersion, Applied, Goes
  <1>3. /\ proc[p].next \in 1 .. Target
        /\ \A v \in 1 .. Target : v <= proc[p].next => Adds[v] \subseteq columns
    BY <1>1, <1>2 DEF Believes, Running, Record
  <1>4. r \in Record
    BY <1>3 DEF Record, State, Running
  <1>5. Believes(r, columns') /\ r.at # "done"
    BY <1>2, <1>3 DEF Believes, State, Running
  <1>6. VersionIsTrue'
    BY <1>2, <1>3 DEF VersionIsTrue
  <1>7. /\ alone' \in [Procs -> BOOLEAN] /\ version' \in 0 .. (Target + 1)
        /\ columns \subseteq columns' /\ columns' \subseteq Columns
    BY <1>2, <1>3 DEF Inv, TypeOK
  <1> HIDE DEF r
  <1> QED
    BY <1>2, <1>4, <1>5, <1>6, <1>7, StepKeeps

(* When the loop is over, every migration lies before the next one.         *)
LEMMA FinishKeeps ==
    ASSUME Inv, NEW p \in Procs, Finish(p)
    PROVE  Inv'
  <1> DEFINE r == State("done", 0, 1, {}, {})
  <1> USE MigrationsConstants DEF MigrationsAssumption
  <1>1. proc[p] \in Record /\ Believes(proc[p], columns)
    BY RecordType
  <1>2. /\ proc[p].at = "loop" /\ proc[p].next > Target
        /\ proc' = [proc EXCEPT ![p] = r]
        /\ UNCHANGED <<version, columns, alone>>
    BY DEF Finish, Goes
  <1>3. r \in Record
    BY DEF Record, State
  <1>4. Complete(columns)
    BY <1>1, <1>2 DEF Complete, Believes, Running, Record
  <1>5. Believes(r, columns)
    BY DEF Believes, State, Running
  <1>6. alone' \in [Procs -> BOOLEAN]
    BY <1>2 DEF Inv, TypeOK
  <1> HIDE DEF r
  <1> QED
    BY <1>2, <1>3, <1>4, <1>5, <1>6, QuietStepKeeps

LEMMA InterruptedKeeps ==
    ASSUME Inv, NEW p \in Procs, Interrupted(p)
    PROVE  Inv'
  <1> USE MigrationsConstants DEF MigrationsAssumption
  <1>1. PICK at \in {"error", "off"} : Goes(p, State(at, 0, 1, {}, {}))
    BY DEF Interrupted
  <1> DEFINE r == State(at, 0, 1, {}, {})
  <1>2. r \in Record
    BY DEF Record, State
  <1>3. Believes(r, columns) /\ r.at # "done"
    BY DEF Believes, State, Running
  <1>4. /\ proc' = [proc EXCEPT ![p] = r]
        /\ UNCHANGED <<version, columns>> /\ alone' \in [Procs -> BOOLEAN]
    BY <1>1 DEF Goes, Interrupted, Inv, TypeOK
  <1> HIDE DEF r
  <1> QED
    BY <1>2, <1>3, <1>4, QuietStepKeeps

LEMMA NextInv == Inv /\ [Next]_vars => Inv'
  <1> SUFFICES ASSUME Inv, [Next]_vars PROVE Inv'
    OBVIOUS
  <1>1. CASE UNCHANGED vars
    BY <1>1 DEF vars, Inv, TypeOK, VersionIsTrue, BeliefTrue, Believes, DoneIsComplete
  <1>2. CASE Next
    <2>1. PICK p \in Procs : run_migrations(p) \/ Step(p) \/ Interrupted(p)
      BY <1>2 DEF Next
    <2>2. CASE Step(p)
      BY <2>2, SkipKeeps, BeginKeeps, LookKeeps, AddKeeps, SetVersionKeeps, FinishKeeps
      DEF Step
    <2> QED
      BY <2>1, <2>2, StartKeeps, InterruptedKeeps
  <1> QED
    BY <1>1, <1>2

THEOREM Invariance == Spec => []Inv
  BY InitInv, NextInv, PTL DEF Spec

(* The variables of run_migrations have their types.                        *)
THEOREM MigrationTypes == Spec => []TypeOK
  <1>1. Inv => TypeOK
    BY DEF Inv
  <1> QED
    BY <1>1, Invariance, PTL

(* PRAGMA user_version never names a migration whose things are not all     *)
(* there, however many processes migrate and wherever they are interrupted. *)
THEOREM VersionTrue == Spec => []VersionIsTrue
  <1>1. Inv => VersionIsTrue
    BY DEF Inv
  <1> QED
    BY <1>1, Invariance, PTL

(* A run_migrations that returns leaves a database with all it needs.       *)
THEOREM DoneComplete == Spec => []DoneIsComplete
  <1>1. Inv => DoneIsComplete
    BY DEF Inv
  <1> QED
    BY <1>1, Invariance, PTL

-----------------------------------------------------------------------------
(* While a process is alone the others rest, and what it has found missing  *)
(* stays missing; and a process fails alone only on the database of a newer *)
(* program, whose version nobody changes.                                   *)
Undisturbed ==
    \A p \in Procs : alone[p] =>
        /\ \A q \in Procs \ {p} : proc[q].at \notin Running
        /\ proc[p].at = "add" => proc[p].missing \cap columns = {}
        /\ proc[p].at = "failed" => version > Target

LEMMA UndisturbedStep == Inv /\ Undisturbed /\ [Next]_vars => Undisturbed'
  <1> SUFFICES ASSUME Inv, Undisturbed, [Next]_vars PROVE Undisturbed'
    OBVIOUS
  <1> USE MigrationsConstants DEF MigrationsAssumption
  <1>1. CASE UNCHANGED vars
    BY <1>1 DEF vars, Undisturbed
  <1>2. CASE Next
    <2>1. PICK p \in Procs : run_migrations(p) \/ Step(p) \/ Interrupted(p)
      BY <1>2 DEF Next
    <2>2. \A q \in Procs \ {p} : proc'[q] = proc[q]
      <3>1. ASSUME NEW s, Goes(p, s)
            PROVE  \A q \in Procs \ {p} : proc'[q] = proc[q]
        BY <3>1 DEF Goes, Inv, TypeOK
      <3> QED
        BY <2>1, <3>1
        DEF run_migrations, Step, Skip, Begin, Look, Add, SetVersion, Finish, Interrupted
    <2>3. proc \in [Procs -> Record]
      BY DEF Inv, TypeOK, Record
    <2>4. CASE run_migrations(p)
      <3>1. /\ proc'[p].at # "add"
            /\ proc'[p].at = "failed" => version > Target
            /\ version' = version
            /\ \A q \in Procs \ {p} : ~alone'[q]
            /\ alone'[p] => \A q \in Procs \ {p} : proc[q].at \notin Running
        BY <2>3, <2>4 DEF run_migrations, Goes, State, Idle
      <3> QED
        BY <2>2, <3>1 DEF Undisturbed
    <2>5. CASE Step(p) \/ Interrupted(p)
      <3>1. proc[p].at \in Running /\ alone' = alone
        BY <2>5 DEF Step, Skip, Begin, Look, Add, SetVersion, Finish, Interrupted, Running
      <3>2. \A q \in Procs \ {p} : ~alone[q]
        BY <3>1 DEF Undisturbed
      <3>3. alone[p] /\ proc'[p].at = "add" => proc'[p].missing \cap columns' = {}
        <4>1. CASE \E c \in Columns : Look(p, c)
          BY <2>3, <4>1 DEF Look, Goes, State, Present
        <4>2. CASE ~\E c \in Columns : Look(p, c)
          BY <2>3, <2>5, <4>2
          DEF Step, Skip, Begin, Add, SetVersion, Finish, Interrupted, Goes, State
        <4> QED
          BY <4>1, <4>2
      <3>4. alone[p] => proc'[p].at # "failed"
        <4>1. CASE Add(p)
          BY <2>3, <4>1 DEF Add, Goes, State, Undisturbed
        <4>2. CASE ~Add(p)
          BY <2>3, <2>5, <4>2
          DEF Step, Skip, Begin, Look, SetVersion, Finish, Interrupted, Goes, State
        <4> QED
          BY <4>1, <4>2
      <3> QED
        BY <2>2, <3>1, <3>2, <3>3, <3>4 DEF Undisturbed
    <2> QED
      BY <2>1, <2>4, <2>5
  <1> QED
    BY <1>1, <1>2

(* What an interrupted migration has left never stops a later one that      *)
(* nobody disturbs: each looks at what is there before it adds.             *)
THEOREM AloneFailsNot == Spec => []AloneSucceeds
  <1>1. Init => Undisturbed
    BY DEF Init, Undisturbed
  <1>2. Undisturbed => AloneSucceeds
    BY DEF Undisturbed, AloneSucceeds
  <1> QED
    BY <1>1, <1>2, Invariance, UndisturbedStep, PTL DEF Spec

(* Together: a migrated database is what its version says, and what was     *)
(* interrupted can be taken up again, for any number of processes,          *)
(* migrations and things they add.                                          *)
THEOREM SchemaSound == Spec => []MigrationHolds
  <1>1. TypeOK /\ VersionIsTrue /\ DoneIsComplete /\ AloneSucceeds => MigrationHolds
    BY DEF MigrationHolds
  <1> QED
    BY <1>1, MigrationTypes, VersionTrue, DoneComplete, AloneFailsNot, PTL
=============================================================================
