------------------------------ MODULE Lifecycle ------------------------------
(****************************************************************************)
(* lifespan (app/config/lifecycle.py) with the service container it starts  *)
(* and stops (app/core/service_container.py): what runs when the program    *)
(* is ready, when a step of its start fails, and when it has shut down.     *)
(*                                                                          *)
(* The container is global and outlives a lifespan: a program that is       *)
(* started twice in one process meets the flags of the first time.          *)
(****************************************************************************)
EXTENDS Naturals, Sequences, SequencesExt

CONSTANTS
    Order,      \* _get_startup_order: the services that have start and stop
    MaxLives    \* bound: lifespans in one process

LifecycleAssumption == IsInjective(Order)

VARIABLES
    stage,      \* where the lifespan is
    at,         \* in start_services or stop_services: the service it is at
    running,    \* what runs: the watcher, services, the worker
    has,        \* what the lifespan holds: watcher_started, container, task_worker
    flags,      \* the container's _started and _stopped
    ready,      \* app.state.ready
    spoiled,    \* something has failed that the cleanup does not cover
    lives       \* lifespans so far

vars == <<stage, at, running, has, flags, ready, spoiled, lives>>

Services == ToSet(Order)
Parts    == {"watcher", "container", "worker"}

Starting == {"watch", "database", "container", "starting", "pool", "worker"}
Stages   == Starting \cup {"up", "cleanup", "stopping", "watcher", "down"}

TypeOK ==
    /\ stage \in Stages
    /\ at \in 1 .. Len(Order) + 1
    /\ running \subseteq Services \cup {"watcher", "worker"}
    /\ has \subseteq Parts
    /\ flags \subseteq {"started", "stopped"}
    /\ {ready, spoiled} \subseteq BOOLEAN
    /\ lives \in 0 .. MaxLives

Init ==
    /\ stage = "down" /\ at = 1
    /\ running = {} /\ has = {} /\ flags = {}
    /\ ready = FALSE /\ spoiled = FALSE
    /\ lives = 0

-----------------------------------------------------------------------------
Begin ==
    /\ stage = "down" /\ lives < MaxLives
    /\ stage' = "watch" /\ lives' = lives + 1
    /\ at' = 1 /\ has' = {}
    /\ ready' = FALSE
    /\ UNCHANGED <<running, flags, spoiled>>

(* There may be no config service to watch for.                             *)
Watch ==
    /\ stage = "watch" /\ stage' = "database"
    /\ \/ /\ running' = running \cup {"watcher"}
          /\ has' = has \cup {"watcher"}
       \/ UNCHANGED <<running, has>>
    /\ UNCHANGED <<at, flags, ready, spoiled, lives>>

(* initialize_database, initialize_auth_system                              *)
Database ==
    /\ stage = "database" /\ stage' = "container"
    /\ UNCHANGED <<at, running, has, flags, ready, spoiled, lives>>

(* start_services, unless the container says it has been done               *)
StartServices ==
    /\ stage = "container"
    /\ stage' = "starting"
    /\ at' = IF "started" \in flags THEN Len(Order) + 1 ELSE 1
    /\ UNCHANGED <<running, has, flags, ready, spoiled, lives>>

(* Wrong on purpose: the flag goes up with the first service.               *)
FlagsEarly == flags \cup {"started"}

FlagsMeanwhile == flags

StartNext ==
    /\ stage = "starting" /\ at <= Len(Order)
    /\ running' = running \cup {Order[at]}
    /\ at' = at + 1
    /\ flags' = FlagsMeanwhile
    /\ UNCHANGED <<stage, has, ready, spoiled, lives>>

ServicesStarted ==
    /\ stage = "starting" /\ at > Len(Order)
    /\ stage' = "pool"
    /\ flags' = flags \cup {"started"}
    /\ has' = has \cup {"container"}
    /\ UNCHANGED <<at, running, ready, spoiled, lives>>

Pool ==
    /\ stage = "pool" /\ stage' = "worker"
    /\ UNCHANGED <<at, running, has, flags, ready, spoiled, lives>>

(* Wrong on purpose: the worker is handed to the cleanup once it is ready   *)
(* to be asked about, not when it runs.                                     *)
HeldLater == has

HeldNow == has \cup {"worker"}

Worker ==
    /\ stage = "worker" /\ stage' = "up"
    /\ running' = running \cup {"worker"}
    /\ has' = HeldNow
    /\ ready' = TRUE
    /\ UNCHANGED <<at, flags, spoiled, lives>>

(* A step fails; nothing in the start waits, so that it is not cancelled.   *)
(* The container reaches the lifespan only when all its services run: those *)
(* that run by then are forgotten.                                          *)
StartFails ==
    /\ stage \in Starting
    /\ stage' = "cleanup"
    /\ ready' = FALSE
    /\ spoiled' = (spoiled \/ (stage = "starting" /\ running \cap Services # {}))
    /\ UNCHANGED <<at, running, has, flags, lives>>

Shutdown ==
    /\ stage = "up" /\ stage' = "cleanup"
    /\ ready' = FALSE
    /\ UNCHANGED <<at, running, has, flags, spoiled, lives>>

-----------------------------------------------------------------------------
(* Wrong on purpose: the services are stopped in the order they started.    *)
FirstFirst(i) == Order[Len(Order) + 1 - i]

LastFirst(i) == Order[i]

(* stop_services does its work once.                                        *)
StopServicesFrom ==
    IF "container" \in has /\ "stopped" \notin flags THEN Len(Order) ELSE 0

(* _cleanup_lifespan_resources: the worker, then the services of a          *)
(* container that the lifespan holds, then the watcher                      *)
StopWorker ==
    /\ stage = "cleanup"
    /\ running' = IF "worker" \in has THEN running \ {"worker"} ELSE running
    /\ stage' = "stopping"
    /\ at' = StopServicesFrom + 1
    /\ UNCHANGED <<has, flags, ready, spoiled, lives>>

(* What PersistentTaskWorker.stop raises ends the cleanup.                  *)
StopWorkerFails ==
    /\ stage = "cleanup" /\ "worker" \in has
    /\ stage' = "down"
    /\ spoiled' = TRUE
    /\ UNCHANGED <<at, running, has, flags, ready, lives>>

(* A service that fails to stop does not keep the others from it.           *)
StopNext ==
    /\ stage = "stopping" /\ at > 1
    /\ at' = at - 1
    /\ \/ running' = running \ {LastFirst(at - 1)} /\ UNCHANGED spoiled
       \/ UNCHANGED running /\ spoiled' = TRUE
    /\ UNCHANGED <<stage, has, flags, ready, lives>>

ServicesStopped ==
    /\ stage = "stopping" /\ at = 1
    /\ stage' = "watcher"
    /\ flags' = IF "container" \in has THEN flags \cup {"stopped"} ELSE flags
    /\ UNCHANGED <<at, running, has, ready, spoiled, lives>>

StopWatcher ==
    /\ stage = "watcher" /\ stage' = "down"
    /\ running' = IF "watcher" \in has THEN running \ {"watcher"} ELSE running
    /\ UNCHANGED <<at, has, flags, ready, spoiled, lives>>

Next ==
    \/ Begin \/ Watch \/ Database
    \/ StartServices \/ StartNext \/ ServicesStarted \/ Pool \/ Worker
    \/ StartFails \/ Shutdown
    \/ StopWorker \/ StopWorkerFails \/ StopNext \/ ServicesStopped \/ StopWatcher

Spec == Init /\ [][Next]_vars

-----------------------------------------------------------------------------
(* A program that is ready has its worker and, until its container has been *)
(* stopped once, all its services: what a failed start began is begun again. *)
ReadyIsWhole ==
    ready => /\ "worker" \in running
             /\ "stopped" \in flags \/ Services \subseteq running

(* After a shutdown, and after a start that failed, nothing runs, save what *)
(* the cleanup does not reach: services of a start that broke off among     *)
(* them, what comes after a worker that fails to stop, a service that does. *)
NothingLeft == stage = "down" => running = {} \/ spoiled

(* What uses a service is stopped before it: the worker, and the services   *)
(* that were started later.                                                 *)
UsersFirst ==
    \A i \in DOMAIN Order : Order[i] \in running \ running' =>
      \/ spoiled
      \/ running' \cap ({"worker"} \cup {Order[j] : j \in (i + 1) .. Len(Order)}) = {}

(* The code's own claim: "Release startup resources in both shutdown and    *)
(* startup-failure paths".                                                  *)
Released == stage = "down" => running = {}

-----------------------------------------------------------------------------
(****************************************************************************)
(* ServiceContainer (app/core/service_container.py): services by type, made *)
(* by get when they are first asked for, from several threads.              *)
(*                                                                          *)
(* get looks the type up under the lock, gives the lock back, and takes it  *)
(* again to make the instance: what it has looked up may be old by then.    *)
(* register takes "iface" with the class "impl", and so registers both.     *)
(****************************************************************************)
CONSTANTS
    Threads,
    MaxRegistered,  \* bound: calls of register
    MaxMade         \* bound: instances made

ContainerAssumption == MaxRegistered \in Nat /\ MaxMade \in Nat

Faces       == {"iface", "impl"}
Lifetimes   == {"singleton", "transient"}
Descriptors == 1 .. MaxRegistered
Made        == 1 .. MaxMade
Nil         == 0

VARIABLES
    services,   \* _services: the descriptor of each type
    lifetime,   \* of each descriptor
    own,        \* _instance of each descriptor
    instances,  \* _instances of each type
    overrides,  \* _overrides: is there one for each type
    maker,      \* the descriptor that each instance was made for
    reg, made,  \* calls of register, instances made so far
    call        \* the calls of get, and what the last ones returned

containerVars == <<services, lifetime, own, instances, overrides, maker, reg, made, call>>

Idle == [at |-> "idle", type |-> "iface", by |-> Nil, got |-> Nil, forced |-> FALSE]

ContainerTypeOK ==
    /\ services \in [Faces -> 0 .. MaxRegistered] /\ lifetime \in [Descriptors -> Lifetimes]
    /\ own \in [Descriptors -> 0 .. MaxMade] /\ instances \in [Faces -> 0 .. MaxMade]
    /\ overrides \subseteq Faces /\ maker \in [Made -> 0 .. MaxRegistered]
    /\ reg \in 0 .. MaxRegistered /\ made \in 0 .. MaxMade
    /\ call \in [Threads -> [at : {"idle", "make", "got"}, type : Faces, by : 0 .. MaxRegistered,
                             got : 0 .. MaxMade, forced : BOOLEAN]]

ContainerInit ==
    /\ services = [t \in Faces |-> Nil] /\ instances = [t \in Faces |-> Nil]
    /\ lifetime = [d \in Descriptors |-> "singleton"]
    /\ own = [d \in Descriptors |-> Nil] /\ maker = [i \in Made |-> Nil]
    /\ overrides = {} /\ reg = 0 /\ made = 0
    /\ call = [c \in Threads |-> Idle]

-----------------------------------------------------------------------------
(* register, add_singleton, add_transient; a scoped service is made anew    *)
(* each time as well.  An instance that there is already stays.             *)
Register(life) ==
    /\ reg < MaxRegistered /\ reg' = reg + 1
    /\ lifetime' = [lifetime EXCEPT ![reg + 1] = life]
    /\ services' = [t \in Faces |-> reg + 1]
    /\ UNCHANGED <<own, instances, overrides, maker, made, call>>

(* add_instance, which makes a descriptor for it, and does not tell it of   *)
(* the instance: its implementation is the instance.                        *)
AddInstance(t) ==
    /\ reg < MaxRegistered /\ made < MaxMade
    /\ reg' = reg + 1 /\ made' = made + 1
    /\ services' = [services EXCEPT ![t] = reg + 1]
    /\ lifetime' = [lifetime EXCEPT ![reg + 1] = "singleton"]
    /\ instances' = [instances EXCEPT ![t] = made + 1]
    /\ maker' = [maker EXCEPT ![made + 1] = reg + 1]
    /\ UNCHANGED <<own, overrides, call>>

(* override, clear_override; clear_all_overrides                            *)
Override(t) ==
    /\ overrides' = (IF t \in overrides THEN overrides \ {t} ELSE overrides \cup {t})
    /\ UNCHANGED <<services, lifetime, own, instances, maker, reg, made, call>>

ClearOverrides ==
    /\ overrides' = {}
    /\ UNCHANGED <<services, lifetime, own, instances, maker, reg, made, call>>

-----------------------------------------------------------------------------
Returns(c, t, i, forced) ==
    call' = [call EXCEPT ![c] = [Idle EXCEPT !.at = "got", !.type = t, !.got = i, !.forced = forced]]

Kept == UNCHANGED <<services, lifetime, overrides, reg>>

(* get: an override, else an instance, else the descriptor.                 *)
Get(c, t) ==
    /\ call[c].at \in {"idle", "got"} /\ services[t] # Nil
    /\ IF t \in overrides THEN Returns(c, t, Nil, TRUE)
       ELSE IF instances[t] # Nil THEN Returns(c, t, instances[t], FALSE)
       ELSE call' = [call EXCEPT ![c] = [Idle EXCEPT !.at = "make", !.type = t, !.by = services[t]]]
    /\ UNCHANGED <<own, instances, maker, made>> /\ Kept

Makes(c) ==
    /\ made < MaxMade /\ made' = made + 1
    /\ maker' = [maker EXCEPT ![made + 1] = call[c].by]
    /\ Returns(c, call[c].type, made + 1, FALSE)

(* Wrong on purpose: a singleton is made without another look.              *)
MadeNever(d) == FALSE

MadeAlready(d) == own[d] # Nil

(* _create_instance of a singleton, under the lock.                         *)
CreateSingleton(c) ==
    LET d == call[c].by  t == call[c].type IN
    /\ call[c].at = "make" /\ lifetime[d] = "singleton"
    /\ IF MadeAlready(d)
       THEN /\ Returns(c, t, own[d], FALSE)
            /\ instances' = IF instances[t] = Nil THEN [instances EXCEPT ![t] = own[d]] ELSE instances
            /\ UNCHANGED <<own, maker, made>>
       ELSE /\ Makes(c)
            /\ own' = [own EXCEPT ![d] = made + 1]
            /\ instances' = [instances EXCEPT ![t] = made + 1]
    /\ Kept

CreateTransient(c) ==
    /\ call[c].at = "make" /\ lifetime[call[c].by] = "transient"
    /\ Makes(c) /\ UNCHANGED <<own, instances>> /\ Kept

(* The factory raises: nothing is kept, and the next get tries again.       *)
CreateFails(c) ==
    /\ call[c].at = "make" /\ ~(lifetime[call[c].by] = "singleton" /\ MadeAlready(call[c].by))
    /\ call' = [call EXCEPT ![c] = Idle]
    /\ UNCHANGED <<own, instances, maker, made>> /\ Kept

ContainerNext ==
    \/ \E life \in Lifetimes : Register(life)
    \/ \E t \in Faces : AddInstance(t) \/ Override(t)
    \/ ClearOverrides
    \/ \E c \in Threads :
          \/ \E t \in Faces : Get(c, t)
          \/ CreateSingleton(c) \/ CreateTransient(c) \/ CreateFails(c)

ContainerSpec == ContainerInit /\ [][ContainerNext]_vars

-----------------------------------------------------------------------------
(* A singleton's registration is made one instance of, however many threads *)
(* ask for it, by either of its types (service_container.py:226-280).       *)
OneInstance ==
    \A i, j \in Made : maker[i] = maker[j] /\ maker[i] # Nil /\ i # j =>
        lifetime[maker[i]] = "transient"

(* A thread that gets a singleton gets the instance that its type then      *)
(* has, and those of both types are the same, unless they were registered   *)
(* apart.                                                                   *)
SharedByTypes ==
    \A t, u \in Faces :
        services[t] = services[u] /\ instances[t] # Nil /\ instances[u] # Nil
        /\ maker[instances[t]] = services[t] /\ maker[instances[u]] = services[u]
        => instances[t] = instances[u]

(* Not kept: after a service is registered anew, get returns one of the new *)
(* registration; an instance that there is hides it (service_container.py:  *)
(* 133-137, 243), and a get under way puts one of the old one in its place  *)
(* (277).                                                                   *)
NewestServes == \A t \in Faces : instances[t] # Nil => maker[instances[t]] = services[t]
=============================================================================
