------------------------------- MODULE Accounts ------------------------------
(****************************************************************************)
(* Users, logins and tokens (app/services/auth_service.py, app/api/auth.py, *)
(* app/models/user.py, app/core/auth_middleware.py).  The handlers have no  *)
(* await between what they read and what they commit, and the program is    *)
(* one process: each is one step, in which only the last commit, that of    *)
(* the login's record, may fail on its own.                                 *)
(*                                                                          *)
(* Times are ages, as in RateLimiter.  The records of logins, which nothing *)
(* reads back, are left out.                                                *)
(****************************************************************************)
EXTENDS Naturals, Sequences, SequencesExt, FiniteSetTheorems, TLAPS

CONSTANTS
    Names,          \* user names, those of administrators among them
    Passwords,
    ApiKey,         \* the user of a token that was got for the API key: id 0
    MaxAttempts,    \* MAX_LOGIN_ATTEMPTS
    LockTime,       \* LOCK_DURATION_MINUTES
    AccessTtl, RefreshTtl    \* JWT_ACCESS_TOKEN_EXPIRE_HOURS, JWT_REFRESH_...

AccountsAssumption ==
    /\ {MaxAttempts, LockTime, AccessTtl, RefreshTtl} \subseteq Nat \ {0}
    /\ ApiKey \notin Names
    /\ Passwords # {}

VARIABLES
    user,       \* the table users
    tokens,     \* the tokens of the secret in use that have not expired
    wrong,      \* ages of the wrong passwords looked at since the last login
    since       \* how long ago the last login was

vars == <<user, tokens, wrong, since>>

Holders  == Names \cup {ApiKey}
Lifespan == [access |-> AccessTtl, refresh |-> RefreshTtl]

(* Longer ago than a session can be.                                        *)
Long == AccessTtl + RefreshTtl

Token == UNION {[kind : {k}, holder : Holders, age : 0 .. (Lifespan[k] - 1)] : k \in DOMAIN Lifespan}

(* Failures are counted on after a lock: as many as lead to one are as good *)
(* as more.                                                                 *)
User == [exists : BOOLEAN, active : BOOLEAN, password : Passwords,
         failures : 0 .. MaxAttempts, lock : 0 .. LockTime]

TypeOK ==
    /\ user \in [Names -> User]
    /\ tokens \subseteq Token
    /\ wrong \in [Names -> Seq(0 .. (LockTime - 1))]
    /\ since \in [Holders -> 0 .. Long]

NewUser(exists, p) ==
    [exists |-> exists, active |-> TRUE, password |-> p, failures |-> 0, lock |-> 0]

Init ==
    /\ user = [n \in Names |-> NewUser(FALSE, CHOOSE p \in Passwords : TRUE)]
    /\ tokens = {}
    /\ wrong = [n \in Names |-> <<>>]
    /\ since = [h \in Holders |-> Long]

-----------------------------------------------------------------------------
(* Wrong on purpose: one attempt more.                                      *)
UsedUpLate(failures) == failures > MaxAttempts

(* increment_failed_login                                                   *)
UsedUp(failures) == failures >= MaxAttempts

Failed(u) ==
    LET failures == u.failures + 1
    IN  [u EXCEPT !.failures = IF failures > MaxAttempts THEN MaxAttempts ELSE failures,
                  !.lock     = IF UsedUp(failures) THEN LockTime ELSE @]

(* update_last_login                                                        *)
Succeeded(u) == [u EXCEPT !.failures = 0, !.lock = 0]

Locked(u) == u.lock > 0

NewTokens(h) == {[kind |-> k, holder |-> h, age |-> 0] : k \in DOMAIN Lifespan}

(* authenticate_user by a password.  Where its record cannot be committed   *)
(* the login fails, though the user's row is changed already.               *)
LoginRefused(n, p) ==
    /\ user[n].exists /\ user[n].active /\ ~Locked(user[n])
    /\ p # user[n].password
    /\ user' = [user EXCEPT ![n] = Failed(@)]
    /\ wrong' = [wrong EXCEPT ![n] = Append(@, 0)]
    /\ UNCHANGED <<tokens, since>>

Login(n, p) ==
    /\ user[n].exists /\ user[n].active /\ ~Locked(user[n])
    /\ p = user[n].password
    /\ user' = [user EXCEPT ![n] = Succeeded(@)]
    /\ wrong' = [wrong EXCEPT ![n] = <<>>]
    /\ \/ /\ tokens' = tokens \cup NewTokens(n)
          /\ since' = [since EXCEPT ![n] = 0]
       \/ UNCHANGED <<tokens, since>>

LoginByKey ==
    /\ tokens' = tokens \cup NewTokens(ApiKey)
    /\ since' = [since EXCEPT ![ApiKey] = 0]
    /\ UNCHANGED <<user, wrong>>

(* Wrong on purpose: the type of the token is not looked at.                *)
CanRefreshAny(t) == TRUE

(* verify_refresh_token                                                     *)
CanRefresh(t) == t.kind = "refresh"

(* A user who is not active any more gets an access token too.              *)
Refresh(t) ==
    /\ t \in tokens /\ CanRefresh(t)
    /\ t.holder # ApiKey => user[t.holder].exists
    /\ tokens' = tokens \cup {[kind |-> "access", holder |-> t.holder, age |-> 0]}
    /\ UNCHANGED <<user, wrong, since>>

(* The token is decoded only: one for refreshing does as well.              *)
ChangePassword(t, old, new) ==
    /\ t \in tokens /\ t.holder # ApiKey
    /\ user[t.holder].exists /\ user[t.holder].password = old
    /\ user' = [user EXCEPT ![t.holder].password = new]
    /\ UNCHANGED <<tokens, wrong, since>>

(* AuthMiddleware._validate_jwt_token.  The id 0 of the API key's tokens is *)
(* no id to it.                                                             *)
LetThrough(t) ==
    /\ t \in tokens /\ t.kind = "access"
    /\ t.holder # ApiKey
    /\ user[t.holder].exists /\ user[t.holder].active

(* POST /init-admin: the first administrator.                               *)
InitAdmin(n, p) ==
    /\ \A m \in Names : ~user[m].exists
    /\ user' = [user EXCEPT ![n] = NewUser(TRUE, p)]
    /\ UNCHANGED <<tokens, wrong, since>>

(* The program starts: init_default_admin, for the name the environment has *)
(* now, or without a password for it nothing.  A secret made up at the last *)
(* start is not known any more, nor are the tokens it has signed.           *)
Restart(n, p) ==
    /\ \/ UNCHANGED user
       \/ /\ ~user[n].exists
          /\ user' = [user EXCEPT ![n] = NewUser(TRUE, p)]
    /\ tokens' \in {tokens, {}}
    /\ UNCHANGED <<wrong, since>>

(* No handler changes is_active: whoever looks after the database does.     *)
Deactivate(n) ==
    /\ user[n].exists
    /\ user' = [user EXCEPT ![n].active = ~@]
    /\ UNCHANGED <<tokens, wrong, since>>

(* Ages grow, and those of a lock's time are dropped: the oldest come first.*)
Younger(ages) ==
    LET old == Cardinality({i \in DOMAIN ages : ages[i] + 1 >= LockTime})
    IN  [i \in 1 .. (Len(ages) - old) |-> ages[i + old] + 1]

Tick ==
    /\ user' = [n \in Names |-> [user[n] EXCEPT !.lock = IF @ > 0 THEN @ - 1 ELSE 0]]
    /\ tokens' = {[t EXCEPT !.age = @ + 1] : t \in {t \in tokens : t.age + 1 < Lifespan[t.kind]}}
    /\ wrong' = [n \in Names |-> Younger(wrong[n])]
    /\ since' = [h \in Holders |-> IF since[h] < Long THEN since[h] + 1 ELSE Long]

-----------------------------------------------------------------------------
Next ==
    \/ \E n \in Names, p \in Passwords :
           LoginRefused(n, p) \/ Login(n, p) \/ InitAdmin(n, p) \/ Restart(n, p)
    \/ \E n \in Names : Deactivate(n)
    \/ \E t \in tokens : Refresh(t)
    \/ \E t \in tokens, p, q \in Passwords : ChangePassword(t, p, q)
    \/ LoginByKey \/ Tick

Spec == Init /\ [][Next]_vars

-----------------------------------------------------------------------------
(* Between two logins no more than MaxAttempts wrong passwords are looked   *)
(* at within the time of a lock, and the count is of those only: it is not  *)
(* set back when a lock ends, so that then a single one locks again.        *)
GuessesBounded == \A n \in Names : Len(wrong[n]) <= MaxAttempts

(* A session ends some time after its login, however it is prolonged: what  *)
(* a refresh token gives cannot be prolonged in its turn.                   *)
SessionsEnd ==
    \A t \in tokens : LetThrough(t) => since[t.holder] < Long

(* "Exchanges the key for a session" (tests/test_auth_api_endpoints.py:254):*)
(* the token lets its requests through.                                     *)
KeySessionsWork ==
    \A t \in tokens : t.kind = "access" /\ t.holder = ApiKey => LetThrough(t)
(* Both: the promises of the logins.                                        *)
AccountsHold == TypeOK /\ GuessesBounded /\ SessionsEnd

-----------------------------------------------------------------------------
(* Proofs, for any names, passwords and times.                              *)

(* The oldest wrong password comes first; there are no more of them than    *)
(* are counted, and while the count stands at its limit all of them are     *)
(* older than the lock is.                                                  *)
WrongInv ==
    \A n \in Names :
        /\ \A i, j \in DOMAIN wrong[n] : i <= j => wrong[n][j] <= wrong[n][i]
        /\ Len(wrong[n]) <= user[n].failures
        /\ user[n].failures = MaxAttempts =>
              \A i \in DOMAIN wrong[n] : wrong[n][i] + user[n].lock >= LockTime
        /\ ~user[n].exists => Len(wrong[n]) = 0

(* The last login is no longer ago than the token for refreshing is old; an *)
(* access token may be younger than that by the time such a token lasts.    *)
SinceInv ==
    \A t \in tokens :
        IF t.kind = "refresh" THEN since[t.holder] <= t.age
        ELSE since[t.holder] < t.age + RefreshTtl

IInv == TypeOK /\ WrongInv /\ SinceInv

LEMMA Constants ==
    ASSUME AccountsAssumption
    PROVE  /\ MaxAttempts \in Nat /\ MaxAttempts > 0
           /\ LockTime \in Nat /\ LockTime > 0
           /\ AccessTtl \in Nat /\ AccessTtl > 0
           /\ RefreshTtl \in Nat /\ RefreshTtl > 0
           /\ Long = AccessTtl + RefreshTtl
  BY DEF AccountsAssumption, Long

LEMMA Tokens ==
    ASSUME AccountsAssumption
    PROVE  /\ DOMAIN Lifespan = {"access", "refresh"}
           /\ Lifespan["access"] = AccessTtl /\ Lifespan["refresh"] = RefreshTtl
           /\ \A k \in DOMAIN Lifespan, h \in Holders, a \in Nat :
                 a < Lifespan[k] => [kind |-> k, holder |-> h, age |-> a] \in Token
           /\ \A t \in Token : /\ t.kind \in DOMAIN Lifespan /\ t.holder \in Holders
                               /\ t.age \in Nat /\ t.age < Lifespan[t.kind]
                               /\ t = [kind |-> t.kind, holder |-> t.holder, age |-> t.age]
  <1>1. /\ DOMAIN Lifespan = {"access", "refresh"}
        /\ Lifespan["access"] = AccessTtl /\ Lifespan["refresh"] = RefreshTtl
    BY DEF Lifespan
  <1>2. \A k \in DOMAIN Lifespan : Lifespan[k] \in Nat
    BY <1>1, Constants
  <1>3. ASSUME NEW k \in DOMAIN Lifespan, NEW h \in Holders, NEW a \in Nat,
               a < Lifespan[k]
        PROVE  [kind |-> k, holder |-> h, age |-> a] \in Token
    <2>1. a \in 0 .. (Lifespan[k] - 1)
      BY <1>2, <1>3
    <2>2. [kind |-> k, holder |-> h, age |-> a]
              \in [kind : {k}, holder : Holders, age : 0 .. (Lifespan[k] - 1)]
      BY <2>1
    <2> QED
      BY <2>2 DEF Token
  <1>4. ASSUME NEW t \in Token
        PROVE  /\ t.kind \in DOMAIN Lifespan /\ t.holder \in Holders
               /\ t.age \in Nat /\ t.age < Lifespan[t.kind]
               /\ t = [kind |-> t.kind, holder |-> t.holder, age |-> t.age]
    <2>1. PICK k \in DOMAIN Lifespan :
            t \in [kind : {k}, holder : Holders, age : 0 .. (Lifespan[k] - 1)]
      BY DEF Token
    <2> QED
      BY <1>2, <2>1
  <1> QED
    BY <1>1, <1>3, <1>4

LEMMA UpTo ==
    ASSUME NEW n \in Nat
    PROVE  IsFiniteSet(1 .. n) /\ Cardinality(1 .. n) = n
  BY FS_Interval

(* Dropping the old ages: they are the first ones.                          *)
LEMMA YoungerDrops ==
    ASSUME AccountsAssumption,
           NEW s \in Seq(0 .. (LockTime - 1)),
           \A i, j \in DOMAIN s : i <= j => s[j] <= s[i]
    PROVE  /\ Younger(s) \in Seq(0 .. (LockTime - 1))
           /\ Len(Younger(s)) <= Len(s)
           /\ \A i, j \in DOMAIN Younger(s) : i <= j => Younger(s)[j] <= Younger(s)[i]
           /\ \A i \in DOMAIN Younger(s) :
                 \E j \in DOMAIN s : Younger(s)[i] = s[j] + 1
  <1> DEFINE gone == {i \in DOMAIN s : s[i] + 1 >= LockTime}
             old  == Cardinality(gone)
             m    == Len(s) - old
  <1>1. /\ LockTime \in Nat /\ LockTime > 0
        /\ Len(s) \in Nat /\ DOMAIN s = 1 .. Len(s)
        /\ \A i \in DOMAIN s : s[i] \in 0 .. (LockTime - 1)
    BY Constants
  <1>2. /\ IsFiniteSet(1 .. Len(s)) /\ Cardinality(1 .. Len(s)) = Len(s)
    BY <1>1, UpTo
  <1>3. /\ IsFiniteSet(gone) /\ old \in Nat /\ old <= Len(s)
    <2>1. gone \subseteq 1 .. Len(s)
      BY <1>1
    <2> QED
      BY <1>2, <2>1, FS_Subset, FS_CardinalityType
  <1>4. ASSUME NEW j \in DOMAIN s, j > old PROVE s[j] + 1 < LockTime
    <2> SUFFICES ASSUME s[j] + 1 >= LockTime PROVE FALSE
      BY <1>1
    <2>1. 1 .. j \subseteq gone
      BY <1>1
    <2>2. IsFiniteSet(1 .. j) /\ Cardinality(1 .. j) = j
      BY <1>1, UpTo
    <2>3. j <= old
      BY <1>3, <2>1, <2>2, FS_Subset
    <2> QED
      BY <1>1, <1>3, <1>4, <2>3
  <1> HIDE DEF gone, old
  <1>5. /\ Younger(s) = [i \in 1 .. m |-> s[i + old] + 1]
        /\ m \in Nat /\ m <= Len(s)
    BY <1>1, <1>3 DEF Younger, gone, old
  <1>6. \A i \in 1 .. m : i + old \in DOMAIN s /\ i + old > old
    BY <1>1, <1>3
  <1>7. \A i \in 1 .. m : s[i + old] + 1 \in 0 .. (LockTime - 1)
    BY <1>1, <1>4, <1>6
  <1> HIDE DEF m
  <1>8. /\ Younger(s) \in Seq(0 .. (LockTime - 1))
        /\ Len(Younger(s)) = m /\ DOMAIN Younger(s) = 1 .. m
    BY <1>5, <1>7
  <1>9. ASSUME NEW i \in 1 .. m, NEW j \in 1 .. m, i <= j
        PROVE  s[j + old] + 1 <= s[i + old] + 1
    <2>1. i + old \in DOMAIN s /\ j + old \in DOMAIN s
      BY <1>6
    <2> i \in Nat /\ j \in Nat /\ old \in Nat
      BY <1>3, <1>5
    <2>3. i + old <= j + old
      BY <1>9
    <2>2. /\ s[j + old] <= s[i + old]
          /\ s[j + old] \in Nat /\ s[i + old] \in Nat
      <3>1. ASSUME NEW k \in DOMAIN s, NEW l \in DOMAIN s, k <= l
            PROVE  s[l] <= s[k] /\ s[l] \in Nat /\ s[k] \in Nat
        BY <1>1, <3>1
      <3> QED
        BY <2>1, <2>3, <3>1
    <2> QED
      BY <2>2
  <1> QED
    BY <1>5, <1>6, <1>8, <1>9

LEMMA InitIInv == ASSUME AccountsAssumption PROVE Init => IInv
  <1> SUFFICES ASSUME Init PROVE IInv
    OBVIOUS
  <1>1. /\ (CHOOSE p \in Passwords : TRUE) \in Passwords
        /\ MaxAttempts \in Nat /\ LockTime \in Nat /\ MaxAttempts > 0
        /\ AccessTtl \in Nat /\ RefreshTtl \in Nat
    BY Constants DEF AccountsAssumption
  <1>2. user \in [Names -> User]
    BY <1>1 DEF Init, NewUser, User
  <1>3. wrong \in [Names -> Seq(0 .. (LockTime - 1))] /\ \A n \in Names : wrong[n] = <<>>
    BY DEF Init
  <1>4. since \in [Holders -> 0 .. Long]
    BY <1>1 DEF Init, Long
  <1>5. \A n \in Names : user[n].failures = 0 /\ Len(wrong[n]) = 0 /\ DOMAIN wrong[n] = {}
    BY <1>3 DEF Init, NewUser
  <1>6. tokens = {}
    BY DEF Init
  <1>7. TypeOK
    BY <1>2, <1>3, <1>4, <1>6 DEF TypeOK
  <1>8. WrongInv
    BY <1>1, <1>3, <1>5 DEF WrongInv
  <1> QED
    BY <1>6, <1>7, <1>8 DEF IInv, SinceInv

(* Nothing of a user's row but the password or is_active changes.           *)
LEMMA RowKept ==
    ASSUME AccountsAssumption, TypeOK, WrongInv,
           UNCHANGED wrong, user' \in [Names -> User],
           \A n \in Names : /\ user'[n].failures = user[n].failures
                            /\ user'[n].lock = user[n].lock
                            /\ user'[n].exists = user[n].exists
    PROVE  WrongInv'
  BY DEF WrongInv

(* What one user does is no other one's business.                           *)
LEMMA OneChanges ==
    ASSUME WrongInv, NEW n \in Names,
           \A m \in Names \ {n} : user'[m] = user[m] /\ wrong'[m] = wrong[m],
           \A i, j \in DOMAIN wrong'[n] : i <= j => wrong'[n][j] <= wrong'[n][i],
           Len(wrong'[n]) <= user'[n].failures,
           user'[n].failures = MaxAttempts =>
               \A i \in DOMAIN wrong'[n] : wrong'[n][i] + user'[n].lock >= LockTime,
           ~user'[n].exists => Len(wrong'[n]) = 0
    PROVE  WrongInv'
  <1> SUFFICES ASSUME NEW m \in Names
               PROVE  /\ \A i, j \in DOMAIN wrong'[m] :
                             i <= j => wrong'[m][j] <= wrong'[m][i]
                      /\ Len(wrong'[m]) <= user'[m].failures
                      /\ user'[m].failures = MaxAttempts =>
                            \A i \in DOMAIN wrong'[m] : wrong'[m][i] + user'[m].lock >= LockTime
                      /\ ~user'[m].exists => Len(wrong'[m]) = 0
    BY DEF WrongInv
  <1>1. CASE m = n
    BY <1>1
  <1>2. CASE m # n
    BY <1>2 DEF WrongInv
  <1> QED
    BY <1>1, <1>2

(* A user is made where there is none, so that no password has been tried.  *)
LEMMA MadeKeeps ==
    ASSUME AccountsAssumption, TypeOK, WrongInv, UNCHANGED wrong,
           NEW n \in Names, NEW p \in Passwords, ~user[n].exists,
           user' = [user EXCEPT ![n] = NewUser(TRUE, p)]
    PROVE  user' \in [Names -> User] /\ WrongInv'
  <1>1. /\ MaxAttempts \in Nat /\ MaxAttempts > 0 /\ LockTime \in Nat
    BY Constants
  <1>2. NewUser(TRUE, p) \in User /\ NewUser(TRUE, p).failures = 0
        /\ NewUser(TRUE, p).exists
    BY <1>1 DEF NewUser, User
  <1>3. user' \in [Names -> User]
    BY <1>2 DEF TypeOK
  <1>4. Len(wrong'[n]) = 0 /\ DOMAIN wrong'[n] = {}
    BY DEF WrongInv, TypeOK
  <1>5. /\ user'[n] = NewUser(TRUE, p)
        /\ \A m \in Names \ {n} : user'[m] = user[m] /\ wrong'[m] = wrong[m]
    BY DEF TypeOK
  <1>6. user'[n].failures = 0 /\ user'[n].exists
    BY <1>2, <1>5, Zenon
  <1>7. user'[n].failures # MaxAttempts /\ Len(wrong'[n]) <= user'[n].failures
    <2> DEFINE f == user'[n].failures
               l == Len(wrong'[n])
    <2>1. f = 0 /\ l = 0
      BY <1>4, <1>6, Zenon
    <2> HIDE DEF f, l
    <2>2. f # MaxAttempts /\ l <= f
      BY <1>1, <2>1
    <2> QED
      BY <2>2 DEF f, l
  <1>8. \A i, j \in DOMAIN wrong'[n] : i <= j => wrong'[n][j] <= wrong'[n][i]
    BY <1>4
  <1>9. WrongInv'
    BY <1>5, <1>6, <1>7, <1>8, OneChanges
  <1> QED
    BY <1>3, <1>9

(* A wrong password: one more that is looked at, one more that is counted,  *)
(* and a lock over all of them at the limit.                                *)
LEMMA RefusedKeeps ==
    ASSUME AccountsAssumption, TypeOK, WrongInv,
           NEW n \in Names, NEW p \in Passwords, LoginRefused(n, p)
    PROVE  /\ user' \in [Names -> User]
           /\ wrong' \in [Names -> Seq(0 .. (LockTime - 1))]
           /\ WrongInv'
  <1>1. /\ MaxAttempts \in Nat /\ MaxAttempts > 0
        /\ LockTime \in Nat /\ LockTime > 0
    BY Constants
  <1> DEFINE u == user[n]
             w == wrong[n]
             v == Failed(u)
  <1>2. /\ u \in User /\ u.failures \in 0 .. MaxAttempts /\ u.lock = 0 /\ u.exists
        /\ w \in Seq(0 .. (LockTime - 1))
        /\ 0 \in 0 .. (LockTime - 1)
    BY <1>1 DEF TypeOK, User, LoginRefused, Locked
  <1>3. /\ v \in User /\ v.exists
        /\ v.failures = IF u.failures = MaxAttempts THEN MaxAttempts ELSE u.failures + 1
        /\ v.failures = MaxAttempts => v.lock = LockTime
    <2> DEFINE x == IF u.failures + 1 > MaxAttempts THEN MaxAttempts ELSE u.failures + 1
               l == IF UsedUp(u.failures + 1) THEN LockTime ELSE u.lock
    <2>1. x \in 0 .. MaxAttempts /\ l \in 0 .. LockTime
      BY <1>1, <1>2
    <2>2. /\ x = IF u.failures = MaxAttempts THEN MaxAttempts ELSE u.failures + 1
          /\ x = MaxAttempts => l = LockTime
      BY <1>1, <1>2 DEF UsedUp
    <2>3. v = [u EXCEPT !.failures = x, !.lock = l]
      BY DEF Failed
    <2> HIDE DEF x, l, u, v
    <2> QED
      BY <1>2, <2>1, <2>2, <2>3 DEF User
  <1>4. /\ user' = [user EXCEPT ![n] = v] /\ wrong' = [wrong EXCEPT ![n] = Append(w, 0)]
    BY DEF LoginRefused
  <1> HIDE DEF u, w, v
  <1>5. /\ Append(w, 0) \in Seq(0 .. (LockTime - 1))
        /\ Len(w) \in Nat /\ DOMAIN w = 1 .. Len(w)
        /\ Len(Append(w, 0)) = Len(w) + 1 /\ DOMAIN Append(w, 0) = 1 .. (Len(w) + 1)
        /\ \A i \in 1 .. Len(w) : Append(w, 0)[i] = w[i] /\ w[i] \in 0 .. (LockTime - 1)
        /\ Append(w, 0)[Len(w) + 1] = 0
    BY <1>1, <1>2
  <1>6. /\ user' \in [Names -> User]
        /\ wrong' \in [Names -> Seq(0 .. (LockTime - 1))]
    BY <1>3, <1>4, <1>5 DEF TypeOK
  <1>7. /\ user'[n] = v /\ wrong'[n] = Append(w, 0)
        /\ \A m \in Names \ {n} : user'[m] = user[m] /\ wrong'[m] = wrong[m]
    BY <1>4 DEF TypeOK
  <1>8. /\ \A i, j \in DOMAIN w : i <= j => w[j] <= w[i]
        /\ Len(w) <= u.failures
        /\ u.failures = MaxAttempts => \A i \in DOMAIN w : w[i] + u.lock >= LockTime
    BY DEF WrongInv, u, w
  <1>9. ASSUME NEW i \in 1 .. (Len(w) + 1), NEW j \in 1 .. (Len(w) + 1), i <= j
        PROVE  Append(w, 0)[j] <= Append(w, 0)[i]
    <2>1. CASE j = Len(w) + 1
      BY <1>1, <1>5, <1>9, <2>1
    <2>2. CASE j # Len(w) + 1
      <3>1. i \in 1 .. Len(w) /\ j \in 1 .. Len(w)
        BY <1>5, <1>9, <2>2
      <3> QED
        BY <1>5, <1>8, <1>9, <3>1
    <2> QED
      BY <2>1, <2>2
  <1>10. Len(w) + 1 <= v.failures
    <2>1. CASE u.failures = MaxAttempts
      <3>1. Len(w) = 0
        <4>1. \A i \in 1 .. Len(w) : w[i] >= LockTime
          <5>1. \A i \in 1 .. Len(w) : w[i] + 0 >= LockTime
            BY <1>2, <1>5, <1>8, <2>1
          <5>2. \A i \in 1 .. Len(w) : w[i] \in Nat
            BY <1>1, <1>5
          <5> QED
            BY <5>1, <5>2
        <4>2. \A i \in 1 .. Len(w) : w[i] < LockTime
          BY <1>1, <1>5
        <4>3. 1 \notin 1 .. Len(w)
          BY <1>1, <1>5, <4>1, <4>2
        <4> QED
          BY <1>5, <4>3
      <3> QED
        BY <1>1, <1>3, <2>1, <3>1
    <2>2. CASE u.failures # MaxAttempts
      BY <1>2, <1>3, <1>5, <1>8, <2>2
    <2> QED
      BY <2>1, <2>2
  <1>11. v.failures = MaxAttempts =>
            \A i \in 1 .. (Len(w) + 1) : Append(w, 0)[i] + v.lock >= LockTime
    <2>1. \A i \in 1 .. (Len(w) + 1) : Append(w, 0)[i] \in Nat
      BY <1>1, <1>2, <1>5
    <2> QED
      BY <1>1, <1>3, <2>1
  <1>12. WrongInv'
    <2> DEFINE x == Append(w, 0)
    <2>1. DOMAIN x = 1 .. (Len(w) + 1) /\ Len(x) = Len(w) + 1
      BY <1>5
    <2>2. /\ \A i, j \in DOMAIN x : i <= j => x[j] <= x[i]
          /\ Len(x) <= v.failures
          /\ v.failures = MaxAttempts => \A i \in DOMAIN x : x[i] + v.lock >= LockTime
      BY <1>9, <1>10, <1>11, <2>1
    <2> HIDE DEF x
    <2>3. wrong'[n] = x
      BY <1>7 DEF x
    <2>4. /\ \A i, j \in DOMAIN wrong'[n] : i <= j => wrong'[n][j] <= wrong'[n][i]
          /\ Len(wrong'[n]) <= user'[n].failures
          /\ user'[n].failures = MaxAttempts =>
                \A i \in DOMAIN wrong'[n] : wrong'[n][i] + user'[n].lock >= LockTime
      BY <1>7, <2>2, <2>3
    <2>5. user'[n].exists
      BY <1>3, <1>7, Zenon
    <2> QED
      BY <1>7, <2>4, <2>5, OneChanges
  <1> QED
    BY <1>6, <1>12

(* A login sets the count back, and with it what it counts.                 *)
LEMMA LoginKeeps ==
    ASSUME AccountsAssumption, TypeOK, WrongInv,
           NEW n \in Names, NEW p \in Passwords, Login(n, p)
    PROVE  /\ user' \in [Names -> User]
           /\ wrong' \in [Names -> Seq(0 .. (LockTime - 1))]
           /\ WrongInv'
  <1>1. MaxAttempts \in Nat /\ MaxAttempts > 0 /\ LockTime \in Nat
    BY Constants
  <1>2. /\ Succeeded(user[n]) \in User /\ Succeeded(user[n]).failures = 0
    <2> DEFINE u == user[n]
    <2>1. u \in User /\ 0 \in 0 .. MaxAttempts /\ 0 \in 0 .. LockTime
      BY <1>1 DEF TypeOK
    <2>2. Succeeded(u) = [u EXCEPT !.failures = 0, !.lock = 0]
      BY DEF Succeeded
    <2> HIDE DEF u
    <2>3. Succeeded(u) \in User /\ Succeeded(u).failures = 0
      BY <2>1, <2>2 DEF User
    <2> QED
      BY <2>3 DEF u
  <1>3. /\ user' = [user EXCEPT ![n] = Succeeded(user[n])]
        /\ wrong' = [wrong EXCEPT ![n] = <<>>]
    BY DEF Login
  <1>4. /\ user' \in [Names -> User]
        /\ wrong' \in [Names -> Seq(0 .. (LockTime - 1))]
        /\ user'[n].failures = 0 /\ wrong'[n] = <<>>
        /\ \A m \in Names \ {n} : user'[m] = user[m] /\ wrong'[m] = wrong[m]
    BY <1>2, <1>3 DEF TypeOK
  <1>5. Len(wrong'[n]) = 0 /\ DOMAIN wrong'[n] = {}
    BY <1>4
  <1>6. WrongInv'
    BY <1>4, <1>5, OneChanges
  <1> QED
    BY <1>4, <1>6

(* Time passes: a lock and the wrong passwords it is for grow old together. *)
LEMMA TickKeeps ==
    ASSUME AccountsAssumption, TypeOK, WrongInv, Tick
    PROVE  /\ user' \in [Names -> User]
           /\ wrong' \in [Names -> Seq(0 .. (LockTime - 1))]
           /\ WrongInv'
  <1>1. /\ MaxAttempts \in Nat /\ LockTime \in Nat /\ LockTime > 0
    BY Constants
  <1>2. ASSUME NEW n \in Names
        PROVE  /\ user'[n] \in User
               /\ user'[n].failures = user[n].failures
               /\ user'[n].exists = user[n].exists
               /\ user'[n].lock = IF user[n].lock > 0 THEN user[n].lock - 1 ELSE 0
    <2>1. user'[n] = [user[n] EXCEPT !.lock = IF user[n].lock > 0 THEN user[n].lock - 1 ELSE 0]
      BY DEF Tick
    <2>2. user[n] \in User
      BY DEF TypeOK
    <2> QED
      BY <1>1, <2>1, <2>2 DEF User
  <1>3. user' \in [Names -> User]
    BY <1>2 DEF Tick
  <1>4. ASSUME NEW n \in Names
        PROVE  /\ wrong[n] \in Seq(0 .. (LockTime - 1))
               /\ wrong'[n] = Younger(wrong[n])
               /\ wrong'[n] \in Seq(0 .. (LockTime - 1))
               /\ Len(wrong'[n]) <= Len(wrong[n])
               /\ \A i, j \in DOMAIN wrong'[n] : i <= j => wrong'[n][j] <= wrong'[n][i]
               /\ \A i \in DOMAIN wrong'[n] :
                     \E j \in DOMAIN wrong[n] : wrong'[n][i] = wrong[n][j] + 1
    <2>1. /\ wrong[n] \in Seq(0 .. (LockTime - 1))
          /\ wrong'[n] = Younger(wrong[n])
          /\ \A i, j \in DOMAIN wrong[n] : i <= j => wrong[n][j] <= wrong[n][i]
      BY DEF Tick, TypeOK, WrongInv
    <2> QED
      BY <2>1, YoungerDrops
  <1>5. wrong' \in [Names -> Seq(0 .. (LockTime - 1))]
    BY <1>4 DEF Tick
  <1>6. ASSUME NEW n \in Names
        PROVE  /\ Len(wrong'[n]) <= user'[n].failures
               /\ user'[n].failures = MaxAttempts =>
                     \A i \in DOMAIN wrong'[n] : wrong'[n][i] + user'[n].lock >= LockTime
               /\ ~user'[n].exists => Len(wrong'[n]) = 0
    <2>1. /\ Len(wrong[n]) \in Nat /\ Len(wrong'[n]) \in Nat
          /\ user[n].failures \in Nat /\ user[n].lock \in Nat
          /\ \A j \in DOMAIN wrong[n] : wrong[n][j] \in Nat
      BY <1>1, <1>4 DEF TypeOK, User
    <2>2. /\ Len(wrong[n]) <= user[n].failures
          /\ user[n].failures = MaxAttempts =>
                \A j \in DOMAIN wrong[n] : wrong[n][j] + user[n].lock >= LockTime
          /\ ~user[n].exists => Len(wrong[n]) = 0
      BY DEF WrongInv
    <2>3. ASSUME user'[n].failures = MaxAttempts, NEW i \in DOMAIN wrong'[n]
          PROVE  wrong'[n][i] + user'[n].lock >= LockTime
      <3>1. PICK j \in DOMAIN wrong[n] : wrong'[n][i] = wrong[n][j] + 1
        BY <1>4
      <3>2. wrong[n][j] + user[n].lock >= LockTime
        BY <1>2, <2>2, <2>3
      <3> QED
        BY <1>1, <1>2, <2>1, <3>1, <3>2
    <2> QED
      BY <1>2, <1>4, <2>1, <2>2, <2>3
  <1> QED
    BY <1>3, <1>4, <1>5, <1>6 DEF WrongInv

(* A token stays one, and is not forgotten, until its time is over.         *)
LEMMA StepTokens ==
    ASSUME AccountsAssumption, TypeOK, SinceInv, Next
    PROVE  /\ tokens' \subseteq Token
           /\ since' \in [Holders -> 0 .. Long]
           /\ SinceInv'
  <1>1. /\ AccessTtl \in Nat /\ AccessTtl > 0 /\ RefreshTtl \in Nat /\ RefreshTtl > 0
        /\ Long = AccessTtl + RefreshTtl
    BY Constants
  <1>2. /\ tokens \subseteq Token /\ since \in [Holders -> 0 .. Long]
        /\ \A h \in Holders : since[h] \in 0 .. Long
    BY DEF TypeOK
  <1>3. ASSUME NEW h \in Holders,
               tokens' = tokens \cup NewTokens(h), since' = [since EXCEPT ![h] = 0]
        PROVE  /\ tokens' \subseteq Token
               /\ since' \in [Holders -> 0 .. Long]
               /\ SinceInv'
    <2>1. \A t \in NewTokens(h) :
              /\ t \in Token /\ t.holder = h /\ t.age = 0
      BY <1>1, Tokens DEF NewTokens
    <2>2. since' \in [Holders -> 0 .. Long]
      BY <1>1, <1>2, <1>3
    <2>3. since'[h] = 0 /\ \A g \in Holders : since'[g] <= since[g]
      BY <1>1, <1>2, <1>3
    <2>4. ASSUME NEW t \in tokens'
          PROVE  IF t.kind = "refresh" THEN since'[t.holder] <= t.age
                 ELSE since'[t.holder] < t.age + RefreshTtl
      <3>1. CASE t \in NewTokens(h)
        BY <1>1, <2>1, <2>3, <3>1
      <3>2. CASE t \in tokens
        <4>1. t.holder \in Holders /\ t.age \in Nat
          BY <1>2, <3>2, Tokens
        <4>2. since'[t.holder] <= since[t.holder]
          BY <2>3, <4>1
        <4>3. since'[t.holder] \in Nat /\ since[t.holder] \in Nat
          BY <1>1, <1>2, <2>2, <4>1
        <4> QED
          BY <1>1, <3>2, <4>1, <4>2, <4>3 DEF SinceInv
      <3> QED
        BY <1>3, <3>1, <3>2
    <2> QED
      BY <1>2, <1>3, <2>1, <2>2, <2>4 DEF SinceInv
  <1>4. CASE UNCHANGED <<tokens, since>>
    BY <1>2, <1>4 DEF SinceInv
  <1>5. ASSUME NEW t \in tokens, Refresh(t)
        PROVE  /\ tokens' \subseteq Token
               /\ since' \in [Holders -> 0 .. Long]
               /\ SinceInv'
    <2> DEFINE new == [kind |-> "access", holder |-> t.holder, age |-> 0]
    <2>1. /\ t.kind = "refresh" /\ t.holder \in Holders
          /\ t.age \in Nat /\ t.age < RefreshTtl
      BY <1>2, <1>5, Tokens DEF Refresh, CanRefresh
    <2>2. new \in Token /\ new.kind = "access" /\ new.holder = t.holder /\ new.age = 0
      BY <1>1, <2>1, Tokens
    <2>3. tokens' = tokens \cup {new} /\ since' = since
      BY <1>5 DEF Refresh
    <2> HIDE DEF new
    <2>4. since[t.holder] < RefreshTtl
      <3>1. since[t.holder] <= t.age /\ since[t.holder] \in Nat
        BY <1>1, <1>2, <2>1 DEF SinceInv
      <3> QED
        BY <1>1, <2>1, <3>1
    <2> QED
      BY <1>1, <1>2, <2>2, <2>3, <2>4 DEF SinceInv
  <1>6. CASE tokens' = {} /\ since' = since
    BY <1>2, <1>6 DEF SinceInv
  <1>7. CASE Tick
    <2>1. since' = [h \in Holders |-> IF since[h] < Long THEN since[h] + 1 ELSE Long]
      BY <1>7 DEF Tick
    <2>2. /\ since' \in [Holders -> 0 .. Long]
          /\ \A h \in Holders : since'[h] <= since[h] + 1 /\ since'[h] \in Nat
      BY <1>1, <1>2, <2>1
    <2>3. ASSUME NEW t \in tokens'
          PROVE  \E s \in tokens : /\ t = [s EXCEPT !.age = s.age + 1]
                                   /\ s.age + 1 < Lifespan[s.kind]
      BY <1>7 DEF Tick
    <2>4. ASSUME NEW t \in tokens'
          PROVE  /\ t \in Token
                 /\ IF t.kind = "refresh" THEN since'[t.holder] <= t.age
                    ELSE since'[t.holder] < t.age + RefreshTtl
      <3>1. PICK s \in tokens : /\ t = [s EXCEPT !.age = s.age + 1]
                                /\ s.age + 1 < Lifespan[s.kind]
        BY <2>3
      <3>2. /\ s.kind \in DOMAIN Lifespan /\ s.holder \in Holders /\ s.age \in Nat
            /\ s = [kind |-> s.kind, holder |-> s.holder, age |-> s.age]
        BY <1>2, Tokens
      <3>3. t = [kind |-> s.kind, holder |-> s.holder, age |-> s.age + 1]
        BY <3>1, <3>2
      <3>4. t \in Token
        BY <3>1, <3>2, <3>3, Tokens
      <3>5. /\ since[s.holder] \in Nat
            /\ since'[s.holder] \in Nat /\ since'[s.holder] <= since[s.holder] + 1
        BY <1>1, <1>2, <2>2, <3>2
      <3>6. IF s.kind = "refresh" THEN since[s.holder] <= s.age
            ELSE since[s.holder] < s.age + RefreshTtl
        BY DEF SinceInv
      <3>7. IF s.kind = "refresh" THEN since'[s.holder] <= s.age + 1
            ELSE since'[s.holder] < s.age + 1 + RefreshTtl
        BY <1>1, <3>2, <3>5, <3>6
      <3> QED
        BY <3>3, <3>4, <3>7
    <2> QED
      BY <2>2, <2>4 DEF SinceInv
  <1>8. ASSUME NEW n \in Names, NEW p \in Passwords,
               LoginRefused(n, p) \/ Login(n, p) \/ InitAdmin(n, p) \/ Restart(n, p)
        PROVE  /\ tokens' \subseteq Token
               /\ since' \in [Holders -> 0 .. Long]
               /\ SinceInv'
    <2>1. \/ UNCHANGED <<tokens, since>>
          \/ tokens' = {} /\ since' = since
          \/ tokens' = tokens \cup NewTokens(n) /\ since' = [since EXCEPT ![n] = 0]
      BY <1>8 DEF LoginRefused, Login, InitAdmin, Restart
    <2>2. n \in Holders
      BY DEF Holders
    <2> QED
      BY <1>3, <1>4, <1>6, <2>1, <2>2
  <1>9. CASE LoginByKey
    <2>1. ApiKey \in Holders
      BY DEF Holders
    <2> QED
      BY <1>3, <1>9, <2>1 DEF LoginByKey
  <1>10. CASE (\E n \in Names : Deactivate(n))
              \/ \E t \in tokens, p, q \in Passwords : ChangePassword(t, p, q)
    BY <1>4, <1>10 DEF Deactivate, ChangePassword
  <1> QED
    BY <1>5, <1>7, <1>8, <1>9, <1>10 DEF Next

LEMMA StepUsers ==
    ASSUME AccountsAssumption, TypeOK, WrongInv, Next
    PROVE  /\ user' \in [Names -> User]
           /\ wrong' \in [Names -> Seq(0 .. (LockTime - 1))]
           /\ WrongInv'
  <1>1. /\ user \in [Names -> User]
        /\ wrong \in [Names -> Seq(0 .. (LockTime - 1))]
        /\ tokens \subseteq Token
    BY DEF TypeOK
  <1>2. CASE UNCHANGED <<user, wrong>>
    BY <1>1, <1>2 DEF WrongInv
  <1>3. ASSUME NEW n \in Names, NEW p \in Passwords, InitAdmin(n, p) \/ Restart(n, p)
        PROVE  /\ user' \in [Names -> User]
               /\ wrong' \in [Names -> Seq(0 .. (LockTime - 1))]
               /\ WrongInv'
    <2>1. /\ wrong' = wrong
          /\ \/ user' = user
             \/ ~user[n].exists /\ user' = [user EXCEPT ![n] = NewUser(TRUE, p)]
      BY <1>3 DEF InitAdmin, Restart
    <2> QED
      BY <1>1, <1>2, <2>1, MadeKeeps
  <1>4. ASSUME NEW n \in Names, Deactivate(n)
        PROVE  /\ user' \in [Names -> User]
               /\ wrong' \in [Names -> Seq(0 .. (LockTime - 1))]
               /\ WrongInv'
    <2>1. /\ user' = [user EXCEPT ![n] = [user[n] EXCEPT !.active = ~user[n].active]]
          /\ wrong' = wrong
      BY <1>4 DEF Deactivate
    <2>2. user[n] \in User
      BY <1>1
    <2>3. [user[n] EXCEPT !.active = ~user[n].active] \in User
      BY <2>2 DEF User
    <2>4. user' \in [Names -> User]
      BY <1>1, <2>1, <2>3
    <2>5. \A m \in Names : /\ user'[m].failures = user[m].failures
                           /\ user'[m].lock = user[m].lock
                           /\ user'[m].exists = user[m].exists
      BY <1>1, <2>1, <2>2 DEF User
    <2> QED
      BY <1>1, <2>1, <2>4, <2>5, RowKept
  <1>5. ASSUME NEW t \in tokens, NEW p \in Passwords, NEW q \in Passwords,
               ChangePassword(t, p, q)
        PROVE  /\ user' \in [Names -> User]
               /\ wrong' \in [Names -> Seq(0 .. (LockTime - 1))]
               /\ WrongInv'
    <2>1. t.holder \in Names
      BY <1>1, <1>5, Tokens DEF ChangePassword, Holders
    <2>2. /\ user' = [user EXCEPT ![t.holder] = [user[t.holder] EXCEPT !.password = q]]
          /\ wrong' = wrong
      BY <1>5 DEF ChangePassword
    <2>3. user[t.holder] \in User
      BY <1>1, <2>1
    <2>4. [user[t.holder] EXCEPT !.password = q] \in User
      BY <2>3 DEF User
    <2>5. user' \in [Names -> User]
      BY <1>1, <2>1, <2>2, <2>4
    <2>6. \A m \in Names : /\ user'[m].failures = user[m].failures
                           /\ user'[m].lock = user[m].lock
                           /\ user'[m].exists = user[m].exists
      BY <1>1, <2>1, <2>2, <2>3 DEF User
    <2> QED
      BY <1>1, <2>2, <2>5, <2>6, RowKept
  <1>6. CASE LoginByKey \/ \E t \in tokens : Refresh(t)
    BY <1>2, <1>6 DEF LoginByKey, Refresh
  <1> QED
    BY <1>3, <1>4, <1>5, <1>6, RefusedKeeps, LoginKeeps, TickKeeps DEF Next

(* The limit on guesses and the end of sessions: however logins, locks that *)
(* end, restarts, refreshed tokens and failing commits follow each other    *)
(* (increment_failed_login, authenticate_user, refresh_access_token).       *)
THEOREM AccountsSafe ==
    ASSUME AccountsAssumption
    PROVE  Spec => []AccountsHold
  <1>1. IInv => AccountsHold
    <2> SUFFICES ASSUME IInv PROVE AccountsHold
      OBVIOUS
    <2>1. TypeOK /\ WrongInv /\ SinceInv
      BY DEF IInv
    <2>2. GuessesBounded
      <3>1. \A n \in Names : /\ Len(wrong[n]) \in Nat /\ user[n].failures \in 0 .. MaxAttempts
                             /\ Len(wrong[n]) <= user[n].failures
        BY <2>1 DEF TypeOK, WrongInv, User
      <3> QED
        BY <3>1, Constants DEF GuessesBounded
    <2>3. ASSUME NEW t \in tokens, LetThrough(t) PROVE since[t.holder] < Long
      <3>1. /\ t.kind = "access" /\ t.holder \in Holders
            /\ t.age \in Nat /\ t.age < AccessTtl
            /\ since[t.holder] \in 0 .. Long
        BY <2>1, <2>3, Tokens DEF LetThrough, TypeOK
      <3>2. since[t.holder] < t.age + RefreshTtl
        BY <2>1, <3>1 DEF SinceInv
      <3> QED
        BY <3>1, <3>2, Constants
    <2> QED
      BY <2>1, <2>2, <2>3 DEF AccountsHold, SessionsEnd
  <1>2. IInv /\ [Next]_vars => IInv'
    <2>1. CASE Next
      BY <2>1, StepUsers, StepTokens DEF IInv, TypeOK
    <2>2. CASE UNCHANGED vars
      BY <2>2 DEF IInv, TypeOK, WrongInv, SinceInv, vars
    <2> QED
      BY <2>1, <2>2
  <1> QED
    BY <1>1, <1>2, InitIInv, PTL DEF Spec
=============================================================================
