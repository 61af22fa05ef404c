----------------------------- MODULE ConfigService ---------------------------
(****************************************************************************)
(* ConfigService (app/services/config_service.py): the configuration in     *)
(* memory and its file, which update_config saves, reload reads, a watcher  *)
(* thread follows, and the user edits.                                      *)
(*                                                                          *)
(* update_config and reload hold the lock from their beginning to their     *)
(* end; the watcher looks at the file and at _last_mtime without it, and    *)
(* takes it to install what it has read.                                    *)
(****************************************************************************)
EXTENDS Naturals

CONSTANTS
    Configs,     \* configurations
    Defaults,    \* the one without a file: from_env_overrides
    Bad, Gone,   \* what is in a file that does not validate, or not there
    MaxEdits     \* bound: writes to the file, and as many again by rollbacks

ConfigAssumption ==
    /\ Defaults \in Configs /\ Bad \notin Configs /\ Gone \notin Configs
    /\ MaxEdits \in Nat

MaxTime == 2 * MaxEdits

VARIABLES
    file,      \* the file: what is in it and its mtime
    clock,     \* mtime of the last write
    active,    \* _config
    good,      \* _last_good_config
    mtime,     \* _last_mtime; 0 is None
    call,      \* the update_config or reload that holds the lock
    watch,     \* the watcher thread
    heard,     \* the configuration the callbacks have last been called with
    astray     \* a save has failed, or the user wrote the file between a read
               \* or write of it and the look at its mtime

vars == <<file, clock, active, good, mtime, call, watch, heard, astray>>

TypeOK ==
    /\ file \in [is : Configs \cup {Bad, Gone}, at : 0 .. MaxTime]
    /\ clock \in 0 .. MaxTime
    /\ active \in Configs /\ good \in Configs /\ heard \in Configs
    /\ mtime \in 0 .. MaxTime
    /\ call \in {"none", "saving", "replaced", "loaded"}
    /\ watch \in [at : {"idle", "read", "install", "defaults", "rollback", "rolled",
                        "notify"}, mtime : 0 .. MaxTime, config : Configs]
    /\ astray \in BOOLEAN

Init ==
    /\ file = [is |-> Gone, at |-> 0] /\ clock = 0
    /\ active = Defaults /\ good = Defaults /\ heard = Defaults
    /\ mtime = 0
    /\ call = "none"
    /\ watch = [at |-> "idle", mtime |-> 0, config |-> Defaults]
    /\ astray = FALSE

-----------------------------------------------------------------------------
Written(is, max) ==
    /\ clock < max
    /\ clock' = clock + 1
    /\ file' = [is |-> is, at |-> clock + 1]

Between == call \in {"replaced", "loaded"} \/ watch.at = "rolled"

(* The user writes the file, or a part of it, or removes it.                *)
UserWrites(is) ==
    /\ Written(is, MaxEdits)
    /\ astray' = (astray \/ Between)
    /\ UNCHANGED <<active, good, mtime, call, watch, heard>>

UserRemoves ==
    /\ file.is # Gone
    /\ clock < MaxEdits
    /\ clock' = clock + 1
    /\ file' = [is |-> Gone, at |-> 0]
    /\ astray' = (astray \/ Between)
    /\ UNCHANGED <<active, good, mtime, call, watch, heard>>

-----------------------------------------------------------------------------
LockFree == call = "none" /\ watch.at # "rolled"

(* The new configuration is in force before it is saved.                    *)
update_config(c) ==
    /\ LockFree
    /\ active' = c
    /\ call' = "saving"
    /\ UNCHANGED <<file, clock, good, mtime, watch, heard, astray>>

SaveFails ==
    /\ call = "saving"
    /\ call' = "none"
    /\ astray' = TRUE
    /\ UNCHANGED <<file, clock, active, good, mtime, watch, heard>>

Replaced ==
    /\ call = "saving"
    /\ Written(active, MaxEdits)
    /\ call' = "replaced"
    /\ astray' = FALSE
    /\ UNCHANGED <<active, good, mtime, watch, heard>>

(* The look at the mtime raises if the file is gone.                        *)
Saved ==
    /\ call = "replaced"
    /\ IF file.is = Gone
       THEN UNCHANGED <<good, mtime, heard>>
       ELSE good' = active /\ mtime' = file.at /\ heard' = active
    /\ call' = "none"
    /\ UNCHANGED <<file, clock, active, watch, astray>>

(* reload: a file that does not validate changes nothing.                   *)
reload ==
    /\ LockFree
    /\ file.is # Bad
    /\ active' = IF file.is = Gone THEN Defaults ELSE file.is
    /\ good' = active'
    /\ IF file.is = Gone
       THEN mtime' = 0 /\ heard' = Defaults /\ UNCHANGED call
       ELSE call' = "loaded" /\ UNCHANGED <<mtime, heard>>
    /\ astray' = FALSE
    /\ UNCHANGED <<file, clock, watch>>

Reloaded ==
    /\ call = "loaded"
    /\ IF file.is = Gone
       THEN UNCHANGED <<mtime, heard>>
       ELSE mtime' = file.at /\ heard' = active
    /\ call' = "none"
    /\ UNCHANGED <<file, clock, active, good, watch, astray>>

-----------------------------------------------------------------------------
Goes(at) == watch' = [watch EXCEPT !.at = at]

_check_for_changes ==
    /\ watch.at = "idle"
    /\ \/ file.is = Gone /\ mtime # 0 /\ Goes("defaults")
       \/ file.is # Gone /\ (mtime = 0 \/ file.at > mtime)
          /\ watch' = [watch EXCEPT !.at = "read", !.mtime = file.at]
    /\ UNCHANGED <<file, clock, active, good, mtime, call, heard, astray>>

ReadFile ==
    /\ watch.at = "read"
    /\ watch' = IF file.is \in {Bad, Gone} THEN [watch EXCEPT !.at = "rollback"]
                ELSE [watch EXCEPT !.at = "install", !.config = file.is]
    /\ UNCHANGED <<file, clock, active, good, mtime, call, heard, astray>>

Takes(c, m) == active' = c /\ good' = c /\ mtime' = m

(* Wrong on purpose: the mtime is looked at when all is done.               *)
MtimeNow == file.at

MtimeRead == watch.mtime

(* What was read is installed with the mtime seen before it was read.       *)
Install ==
    /\ watch.at = "install" /\ LockFree
    /\ Takes(watch.config, MtimeRead)
    /\ Goes("notify")
    /\ astray' = FALSE
    /\ UNCHANGED <<file, clock, call, heard>>

InstallDefaults ==
    /\ watch.at = "defaults" /\ LockFree
    /\ Takes(Defaults, 0)
    /\ Goes("notify")
    /\ astray' = FALSE
    /\ UNCHANGED <<file, clock, call, heard>>

(* The file is replaced by the last good configuration, whatever is in it   *)
(* by now.                                                                  *)
_rollback_to_last_good ==
    /\ watch.at = "rollback" /\ LockFree
    /\ active' = good
    /\ Written(good, MaxTime)
    /\ Goes("rolled")
    /\ astray' = FALSE
    /\ UNCHANGED <<good, mtime, call, heard>>

RolledBack ==
    /\ watch.at = "rolled"
    /\ IF file.is = Gone
       THEN Goes("idle") /\ UNCHANGED mtime
       ELSE Goes("notify") /\ mtime' = file.at
    /\ UNCHANGED <<file, clock, active, good, call, heard, astray>>

(* Wrong on purpose: the callbacks are called with what was installed.      *)
HeardInstalled == watch.config

HeardNow == active

(* The callbacks ask for the configuration, which takes the lock.           *)
Notify ==
    /\ watch.at = "notify" /\ LockFree
    /\ heard' = HeardNow
    /\ Goes("idle")
    /\ UNCHANGED <<file, clock, active, good, mtime, call, astray>>

WatcherStep ==
    \/ _check_for_changes \/ ReadFile \/ Install \/ InstallDefaults
    \/ _rollback_to_last_good \/ RolledBack \/ Notify

CallStep == SaveFails \/ Replaced \/ Saved \/ Reloaded

Next ==
    \/ \E is \in Configs \cup {Bad} : UserWrites(is)
    \/ UserRemoves
    \/ \E c \in Configs : update_config(c)
    \/ reload \/ CallStep \/ WatcherStep

Spec == Init /\ [][Next]_vars

Fairness == WF_vars(WatcherStep) /\ WF_vars(CallStep)

-----------------------------------------------------------------------------
(* When the edits and the calls end, the configuration in force becomes     *)
(* that of the file, however updates, reloads, rollbacks and the watcher    *)
(* have overlapped, unless something has gone astray.                       *)
InFile == IF file.is = Gone THEN Defaults ELSE file.is

Converges == <>[](call = "none") => <>[](astray \/ active = InFile)

(* Whoever listens to changes has been told of the configuration in force   *)
(* when no change is under way.                                             *)
CallbacksHeard ==
    call = "none" /\ watch.at \notin {"rolled", "notify"} /\ ~astray => heard = active
=============================================================================
