------------------------------- MODULE HttpPool ------------------------------
(****************************************************************************)
(* HTTPConnectionPool (app/core/http_pool.py): one client per service, made *)
(* when first asked for, made again when it was closed.                     *)
(*                                                                          *)
(* The lock is held across an await only while a client is being closed;    *)
(* everything else that takes it is done within the step that gets it.      *)
(****************************************************************************)
EXTENDS Naturals, FiniteSets, FiniteSetTheorems, TLAPS

CONSTANTS
    Types,      \* ClientType
    Common,     \* the types that initialize makes
    Callers,    \* tasks of the event loop
    None,       \* no client, no type, no caller
    MaxMade     \* bound: clients made

PoolAssumption ==
    /\ Common \subseteq Types /\ IsFiniteSet(Types)
    /\ MaxMade \in Nat
    /\ None \notin Types \cup Callers \cup (1 .. MaxMade)

VARIABLES
    clients,        \* _clients
    closed,         \* the clients that are closed
    made,           \* clients made so far: they are numbered
    initialized,    \* _initialized
    holder,         \* who holds _lock
    call,           \* what each caller is at
    early           \* the pool was used before it was initialized

vars == <<clients, closed, made, initialized, holder, call, early>>

Made == 1 .. made

Idle == [op |-> "idle", type |-> None]

TypeOK ==
    /\ clients \in [Types -> 0 .. MaxMade \cup {None}]
    /\ closed \subseteq Made
    /\ made \in 0 .. MaxMade
    /\ {initialized, early} \subseteq BOOLEAN
    /\ holder \in Callers \cup {None}
    /\ call \in [Callers -> [op : {"idle", "wait", "reset", "resetting"},
                             type : Types \cup {None}]]
    /\ holder # None => call[holder].op = "resetting"

Init ==
    /\ clients = [t \in Types |-> None]
    /\ closed = {}
    /\ made = 0
    /\ initialized = FALSE
    /\ holder = None
    /\ call = [c \in Callers |-> Idle]
    /\ early = FALSE

-----------------------------------------------------------------------------
Held(t) == clients[t] # None

Usable(t) == Held(t) /\ clients[t] \notin closed

(* initialize: within one step, as making a client awaits nothing; what is  *)
(* in the table already is replaced.                                        *)
initialize ==
    /\ ~initialized
    /\ made + Cardinality(Common) <= MaxMade
    /\ \E new \in [Common -> (made + 1) .. (made + Cardinality(Common))] :
         /\ \A s, t \in Common : new[s] = new[t] => s = t
         /\ clients' = [t \in Types |-> IF t \in Common THEN new[t] ELSE clients[t]]
    /\ made' = made + Cardinality(Common)
    /\ initialized' = TRUE
    /\ UNCHANGED <<closed, holder, call, early>>

(* get_client, up to its lock; get_instance_sync lets it come before        *)
(* initialize.                                                              *)
Get(c, t) ==
    /\ call[c].op = "idle"
    /\ call' = [call EXCEPT ![c] =
         IF Usable(t) THEN Idle ELSE [op |-> "wait", type |-> t]]
    /\ early' = (early \/ ~initialized)
    /\ UNCHANGED <<clients, closed, made, initialized, holder>>

(* Wrong on purpose: who has waited does not look again.                    *)
LookOnce(t) == FALSE

LookAgain(t) == Usable(t)

(* get_client, with the lock                                                *)
Served(c) ==
    LET t == call[c].type IN
    /\ call[c].op = "wait" /\ holder = None
    /\ IF LookAgain(t)
       THEN UNCHANGED <<clients, made>>
       ELSE /\ made < MaxMade
            /\ made' = made + 1
            /\ clients' = [clients EXCEPT ![t] = made + 1]
    /\ call' = [call EXCEPT ![c] = Idle]
    /\ UNCHANGED <<closed, initialized, holder, early>>

-----------------------------------------------------------------------------
(* reset_client: a client counts as closed from the first step of aclose.   *)
Reset(c, t) ==
    /\ call[c].op = "idle"
    /\ call' = [call EXCEPT ![c] = [op |-> "reset", type |-> t]]
    /\ early' = (early \/ ~initialized)
    /\ UNCHANGED <<clients, closed, made, initialized, holder>>

Dropped(t) == [clients EXCEPT ![t] = None]

ResetLocked(c) ==
    LET t == call[c].type IN
    /\ call[c].op = "reset" /\ holder = None
    /\ IF Usable(t)
       THEN /\ closed' = closed \cup {clients[t]}
            /\ holder' = c
            /\ call' = [call EXCEPT ![c].op = "resetting"]
            /\ UNCHANGED clients
       ELSE /\ clients' = Dropped(t)
            /\ call' = [call EXCEPT ![c] = Idle]
            /\ UNCHANGED <<closed, holder>>
    /\ UNCHANGED <<made, initialized, early>>

(* What is in the table by now is taken out of it.                          *)
ResetDone(c) ==
    /\ call[c].op = "resetting"
    /\ clients' = Dropped(call[c].type)
    /\ holder' = None
    /\ call' = [call EXCEPT ![c] = Idle]
    /\ UNCHANGED <<closed, made, initialized, early>>

-----------------------------------------------------------------------------
Next ==
    \/ initialize
    \/ \E c \in Callers : Served(c) \/ ResetLocked(c) \/ ResetDone(c)
    \/ \E c \in Callers, t \in Types : Get(c, t) \/ Reset(c, t)

Spec == Init /\ [][Next]_vars

(* A client that is open is in the table, where it is used and closed, if   *)
(* the pool has been initialized before it was used: callers that wait for  *)
(* a reset make one client between them.                                    *)
NoLeak == early \/ \A k \in Made \ closed : \E t \in Types : clients[t] = k

-----------------------------------------------------------------------------
(* Proofs, for any service types and callers. *)

(* Who closes a client has the lock, and meanwhile nobody makes another of  *)
(* its type, ...                                                            *)
Resetting(c) ==
    call[c].op = "resetting" => holder = c /\ (early \/ ~Usable(call[c].type))

(* ... and before it is initialized, a pool not used early is empty.        *)
Empty == made = 0 /\ (\A c \in Callers : call[c] = Idle) /\ \A t \in Types : clients[t] = None

TableSound ==
    /\ TypeOK
    /\ \A c \in Callers : call[c].op # "idle" => call[c].type \in Types
    /\ \A t \in Types : Held(t) => clients[t] \in Made
    /\ \A c \in Callers : Resetting(c)
    /\ early \/ initialized \/ Empty

(* As many clients as there are types, each of another, are all in use.     *)
LEMMA AllMade ==
    ASSUME PoolAssumption, NEW n \in Nat, n = Cardinality(Common), NEW new \in [Common -> 1 .. n],
           \A s, t \in Common : new[s] = new[t] => s = t
    PROVE  \A k \in 1 .. n : \E t \in Common : new[t] = k
<1>1. IsFiniteSet(Common)
  BY FS_Subset DEF PoolAssumption
<1>2. IsFiniteSet(1 .. n) /\ Cardinality(1 .. n) = n
  BY FS_Interval
<1>3. new \in Injection(Common, 1 .. n)
  BY DEF Injection, IsInjective
<1>4. new \in Surjection(Common, 1 .. n)
  BY <1>2, <1>3, FS_Injection
<1> QED
  BY <1>4 DEF Surjection

LEMMA InitSound ==
    ASSUME PoolAssumption, Init
    PROVE  TableSound /\ NoLeak
<1>1. Made = {} /\ Idle.op = "idle"
      /\ Idle \in [op : {"idle", "wait", "reset", "resetting"}, type : Types \cup {None}]
  BY DEF Init, Made, Idle
<1>2. TypeOK
  <2>1. clients \in [Types -> 0 .. MaxMade \cup {None}] /\ made \in 0 .. MaxMade
    BY DEF PoolAssumption, Init
  <2>2. call \in [Callers -> [op : {"idle", "wait", "reset", "resetting"},
                              type : Types \cup {None}]]
    BY <1>1 DEF Init
  <2> QED
    BY <1>1, <2>1, <2>2 DEF Init, TypeOK
<1>3. NoLeak
  BY <1>1 DEF NoLeak
<1>4. Empty
  BY DEF Init, Empty
<1>5. \A c \in Callers : call[c] = Idle
  BY DEF Init
<1>6. \A t \in Types : ~Held(t)
  BY DEF Init, Held
<1> QED
  BY <1>1, <1>2, <1>3, <1>4, <1>5, <1>6 DEF TableSound, Resetting

LEMMA InitializeSound ==
    ASSUME PoolAssumption, TableSound, NoLeak, initialize
    PROVE  TableSound' /\ NoLeak'
<1> DEFINE n == Cardinality(Common)
<1>1. n \in Nat
  <2>1. IsFiniteSet(Common)
    BY FS_Subset DEF PoolAssumption
  <2> QED
    BY <2>1, FS_CardinalityType
<1>2. PICK new \in [Common -> (made + 1) .. (made + n)] :
         /\ \A s, t \in Common : new[s] = new[t] => s = t
         /\ clients' = [t \in Types |-> IF t \in Common THEN new[t] ELSE clients[t]]
  BY DEF initialize
<1>3. /\ made + n <= MaxMade /\ made' = made + n /\ ~initialized /\ initialized' = TRUE
      /\ UNCHANGED <<closed, holder, call, early>>
  BY DEF initialize
<1> HIDE DEF n
<1>t. TypeOK /\ made \in Nat /\ MaxMade \in Nat
  BY DEF TableSound, TypeOK, PoolAssumption
<1>4. Made \subseteq Made' /\ \A t \in Common : new[t] \in Made'
  BY <1>1, <1>2, <1>3, <1>t DEF Made
<1>5. TypeOK'
  <2>1. \A t \in Types : clients'[t] \in 0 .. MaxMade \cup {None}
    BY <1>1, <1>2, <1>3, <1>t DEF TypeOK
  <2>2. clients' \in [Types -> 0 .. MaxMade \cup {None}]
    BY <1>2, <2>1
  <2>3. made' \in 0 .. MaxMade /\ closed' \subseteq Made'
    BY <1>1, <1>3, <1>4, <1>t DEF TypeOK
  <2> QED
    BY <1>3, <1>t, <2>2, <2>3 DEF TypeOK
<1>6. \A t \in Types : Held(t)' => clients'[t] \in Made'
  BY <1>2, <1>4 DEF TableSound, Held
<1>7. early \/ Empty
  BY <1>3 DEF TableSound
<1>8. \A c \in Callers : Resetting(c)'
  BY <1>3, <1>7 DEF TableSound, Resetting, Empty, Idle
<1>9. NoLeak'
  <2>1. CASE early
    BY <1>3, <2>1 DEF NoLeak
  <2>2. CASE Empty
    <3>1. made = 0 /\ made' = n /\ new \in [Common -> 1 .. n]
      BY <1>1, <1>2, <1>3, <2>2 DEF Empty
    <3>2. \A k \in 1 .. n : \E t \in Common : new[t] = k
      BY <1>1, <1>2, <3>1, AllMade DEF n
    <3>3. \A k \in Made' : \E t \in Types : clients'[t] = k
      BY <1>2, <3>1, <3>2 DEF Made, PoolAssumption
    <3> QED
      BY <3>3 DEF NoLeak
  <2> QED
    BY <1>7, <2>1, <2>2
<1> QED
  BY <1>3, <1>5, <1>6, <1>8, <1>9 DEF TableSound

LEMMA CallSound ==
    ASSUME PoolAssumption, TableSound, NoLeak, NEW c \in Callers,
           Served(c) \/ ResetLocked(c) \/ ResetDone(c)
    PROVE  TableSound' /\ NoLeak'
<1>t. /\ TypeOK /\ made \in Nat /\ MaxMade \in Nat /\ None \notin Callers /\ None \notin Made
      /\ Made \subseteq 0 .. MaxMade
  BY DEF TableSound, TypeOK, PoolAssumption, Made
<1>c. call[c].op # "idle" /\ call[c].type \in Types
  BY DEF TableSound, Served, ResetLocked, ResetDone
<1>r. PICK t \in Types : t = call[c].type
  BY <1>c
<1>i. Idle \in [op : {"idle", "wait", "reset", "resetting"}, type : Types \cup {None}]
      /\ Idle.op = "idle"
  BY DEF Idle
<1>e. early \/ initialized
  BY <1>c DEF TableSound, Empty, Idle
<1>l. \A d \in Callers : call[d].op = "resetting" => holder = d
  BY DEF TableSound, Resetting
<1>1. CASE Served(c)
  <2>1. holder = None /\ \A d \in Callers : call[d].op # "resetting"
    BY <1>1, <1>l, <1>t DEF Served
  <2>2. call' = [call EXCEPT ![c] = Idle] /\ UNCHANGED <<closed, initialized, holder, early>>
    BY <1>1 DEF Served
  <2>3. \A d \in Callers : call'[d] = call[d] \/ call'[d] = Idle
    BY <1>t, <2>2 DEF TypeOK
  <2>4. \A d \in Callers : Resetting(d)'
    BY <1>i, <2>1, <2>3 DEF Resetting
  <2>5. call' \in [Callers -> [op : {"idle", "wait", "reset", "resetting"},
                               type : Types \cup {None}]]
    BY <1>i, <1>t, <2>2 DEF TypeOK
  <2>6. CASE Usable(t)
    <3>1. UNCHANGED <<clients, made>>
      BY <1>1, <1>r, <2>6 DEF Served, LookAgain
    <3> QED
      BY <1>e, <1>i, <1>t, <2>1, <2>2, <2>3, <2>4, <2>5, <3>1
         DEF TableSound, TypeOK, NoLeak, Made, Held
  <2>7. CASE ~Usable(t)
    <3>1. made < MaxMade /\ made' = made + 1 /\ clients' = [clients EXCEPT ![t] = made + 1]
      BY <1>1, <1>r, <2>7 DEF Served, LookAgain
    <3>2. Made' = Made \cup {made + 1}
      BY <1>t, <3>1 DEF Made
    <3>3. clients'[t] = made + 1 /\ \A s \in Types : s # t => clients'[s] = clients[s]
      BY <1>t, <3>1 DEF TypeOK
    <3>4. \A s \in Types : Held(s)' => clients'[s] \in Made'
      BY <3>2, <3>3 DEF TableSound, Held
    <3>5. NoLeak'
      <4>1. ASSUME NEW k \in Made \ closed, ~early PROVE \E s \in Types : clients'[s] = k
        <5>1. PICK s \in Types : clients[s] = k
          BY <4>1 DEF NoLeak
        <5>2. s # t
          BY <1>t, <2>7, <4>1, <5>1 DEF Usable, Held
        <5> QED
          BY <3>3, <5>1, <5>2
      <4> QED
        BY <2>2, <3>2, <3>3, <4>1 DEF NoLeak
    <3>6. TypeOK'
      <4>1. clients' \in [Types -> 0 .. MaxMade \cup {None}] /\ made' \in 0 .. MaxMade
        BY <1>t, <3>1 DEF TypeOK
      <4>2. closed' \subseteq Made'
        BY <1>t, <2>2, <3>2 DEF TypeOK
      <4> QED
        BY <1>t, <2>1, <2>2, <2>5, <4>1, <4>2 DEF TypeOK
    <3> QED
      BY <1>e, <1>i, <2>2, <2>3, <2>4, <3>4, <3>5, <3>6 DEF TableSound
  <2> QED
    BY <2>6, <2>7
<1>d. /\ Dropped(t)[t] = None /\ \A s \in Types : s # t => Dropped(t)[s] = clients[s]
      /\ Dropped(t) \in [Types -> 0 .. MaxMade \cup {None}]
  BY <1>t DEF Dropped, TypeOK
<1>n. ASSUME clients' = Dropped(t), made' = made, closed' = closed, early' = early,
             early \/ ~Usable(t)
      PROVE  /\ NoLeak' /\ clients' \in [Types -> 0 .. MaxMade \cup {None}]
             /\ \A s \in Types : Held(s)' => clients'[s] \in Made'
             /\ \A s \in Types : Usable(s)' => Usable(s)
  <2>1. ASSUME NEW k \in Made \ closed, ~early PROVE \E s \in Types : clients'[s] = k
    <3>1. PICK s \in Types : clients[s] = k
      BY <2>1 DEF NoLeak
    <3>2. s # t
      BY <1>n, <1>t, <2>1, <3>1 DEF Usable, Held
    <3> QED
      BY <1>d, <1>n, <3>1, <3>2
  <2> QED
    BY <1>d, <1>n, <2>1 DEF NoLeak, Made, Held, Usable, TableSound
<1>2. CASE ResetLocked(c) /\ Usable(t)
  <2>1. /\ holder = None /\ holder' = c /\ closed' = closed \cup {clients[t]}
        /\ call' = [call EXCEPT ![c].op = "resetting"]
        /\ UNCHANGED <<clients, made, initialized, early>>
    BY <1>2, <1>r DEF ResetLocked
  <2>2. clients[t] \in Made
    BY <1>2 DEF TableSound, Usable
  <2>3. /\ call'[c].op = "resetting" /\ call'[c].type = t
        /\ \A d \in Callers : d # c => call'[d] = call[d]
        /\ call' \in [Callers -> [op : {"idle", "wait", "reset", "resetting"},
                                  type : Types \cup {None}]]
    BY <1>r, <1>t, <2>1 DEF TypeOK
  <2>4. \A d \in Callers : d # c => call[d].op # "resetting"
    BY <1>l, <1>t, <2>1
  <2>5. \A d \in Callers : Resetting(d)'
    BY <2>1, <2>3, <2>4 DEF Resetting, Usable
  <2>6. TypeOK' /\ NoLeak'
    BY <1>t, <2>1, <2>2, <2>3 DEF TypeOK, NoLeak, Made
  <2>7. \A d \in Callers : call'[d].op # "idle" => call'[d].type \in Types
    BY <2>3 DEF TableSound
  <2> QED
    BY <1>e, <2>1, <2>5, <2>6, <2>7 DEF TableSound, Made, Held
<1>3. CASE ResetLocked(c) /\ ~Usable(t)
  <2>1. /\ holder = None /\ clients' = Dropped(t) /\ call' = [call EXCEPT ![c] = Idle]
        /\ UNCHANGED <<closed, holder, made, initialized, early>>
    BY <1>3, <1>r DEF ResetLocked
  <2>2. \A d \in Callers : /\ call'[d] = call[d] \/ call'[d] = Idle
                           /\ call[d].op # "resetting"
    BY <1>l, <1>t, <2>1 DEF TypeOK
  <2>3. call' \in [Callers -> [op : {"idle", "wait", "reset", "resetting"},
                               type : Types \cup {None}]]
    BY <1>i, <1>t, <2>1 DEF TypeOK
  <2> QED
    BY <1>3, <1>e, <1>i, <1>n, <1>t, <2>1, <2>2, <2>3 DEF TableSound, TypeOK, Made, Resetting
<1>4. CASE ResetDone(c)
  <2>1. /\ call[c].op = "resetting" /\ clients' = Dropped(t) /\ holder' = None
        /\ call' = [call EXCEPT ![c] = Idle]
        /\ UNCHANGED <<closed, made, initialized, early>>
    BY <1>4, <1>r DEF ResetDone
  <2>2. early \/ ~Usable(t)
    BY <1>r, <2>1 DEF TableSound, Resetting
  <2>3. \A d \in Callers : /\ call'[d] = call[d] \/ call'[d] = Idle
                           /\ call'[d].op # "resetting"
    BY <1>i, <1>l, <1>t, <2>1 DEF TypeOK
  <2>4. call' \in [Callers -> [op : {"idle", "wait", "reset", "resetting"},
                               type : Types \cup {None}]]
    BY <1>i, <1>t, <2>1 DEF TypeOK
  <2> QED
    BY <1>e, <1>i, <1>n, <1>t, <2>1, <2>2, <2>3, <2>4 DEF TableSound, TypeOK, Made, Resetting
<1> QED
  BY <1>1, <1>2, <1>3, <1>4

LEMMA AskSound ==
    ASSUME PoolAssumption, TableSound, NoLeak, NEW c \in Callers, NEW t \in Types,
           Get(c, t) \/ Reset(c, t)
    PROVE  TableSound' /\ NoLeak'
<1>1. /\ call[c].op = "idle" /\ UNCHANGED <<clients, closed, made, initialized, holder>>
      /\ early' = (early \/ ~initialized)
      /\ \E ask \in {Idle, [op |-> "wait", type |-> t], [op |-> "reset", type |-> t]} :
            call' = [call EXCEPT ![c] = ask]
  BY DEF Get, Reset
<1>2. PICK ask \in {Idle, [op |-> "wait", type |-> t], [op |-> "reset", type |-> t]} :
            call' = [call EXCEPT ![c] = ask]
  BY <1>1
<1>3. /\ ask \in [op : {"idle", "wait", "reset", "resetting"}, type : Types \cup {None}]
      /\ ask.op # "resetting" /\ (ask.op # "idle" => ask.type \in Types)
  BY <1>2 DEF Idle
<1>4. TypeOK
  BY DEF TableSound
<1>5. /\ call'[c] = ask /\ \A d \in Callers : d # c => call'[d] = call[d]
      /\ call' \in [Callers -> [op : {"idle", "wait", "reset", "resetting"},
                                type : Types \cup {None}]]
  BY <1>2, <1>3, <1>4 DEF TypeOK
<1>6. \A d \in Callers : Resetting(d)'
  BY <1>1, <1>3, <1>5 DEF TableSound, Resetting, Usable, Held
<1>7. early' \in BOOLEAN /\ (early' \/ initialized')
  BY <1>1, <1>4 DEF TypeOK
<1>8. TypeOK'
  BY <1>1, <1>4, <1>5, <1>7 DEF TypeOK, Made
<1>9. NoLeak'
  BY <1>1 DEF NoLeak, Made
<1> QED
  BY <1>1, <1>3, <1>5, <1>6, <1>7, <1>8, <1>9 DEF TableSound, Made, Held

(* NoLeak: of a pool that is not used before it is initialized, no open     *)
(* client is ever lost, however gets and resets of one type meet            *)
(* (http_pool.py:346-376): who resets a client keeps the lock until it is   *)
(* out of the table, and who makes one looks again once it has the lock.    *)
THEOREM NothingLost ==
    ASSUME PoolAssumption
    PROVE  Spec => [](TypeOK /\ NoLeak)
<1>1. Init => TableSound /\ NoLeak
  BY InitSound
<1>2. (TableSound /\ NoLeak) /\ [Next]_vars => (TableSound /\ NoLeak)'
  <2>1. CASE UNCHANGED vars
    BY <2>1 DEF vars, TableSound, TypeOK, Made, Held, Usable, Resetting, Empty, NoLeak
  <2> QED
    BY <2>1, InitializeSound, CallSound, AskSound DEF Next
<1>3. TableSound => TypeOK
  BY DEF TableSound
<1> QED
  BY <1>1, <1>2, <1>3, PTL DEF Spec
=============================================================================
