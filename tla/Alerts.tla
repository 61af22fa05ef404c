------------------------------- MODULE Alerts --------------------------------
(****************************************************************************)
(* From a refused login to the message about it: the security events        *)
(* (services/security_audit_service.py, models/security_event.py) and the   *)
(* notification service that sends them (services/notification_service.py,  *)
(* api/notification.py).  An alert is a task of the event loop of its own;  *)
(* channels and rules are rows that the service keeps a copy of, and a log  *)
(* row refers to its channel (PRAGMA foreign_keys=ON).                      *)
(****************************************************************************)
EXTENDS Integers, FiniteSets, Sequences, FiniteSetsExt

CONSTANTS
    Callers,        \* the address and name a login is tried with
    Medium, High,   \* earlier failures that make a failure more than "low"
    Few, Many,      \* failures that make an address suspicious
    MaxEvents,      \* bound: events recorded
    MaxIds,         \* bound: channel rows made
    MaxFaults       \* bound: failed reads and commits

AlertsAssumption ==
    /\ {Medium, High, Few, Many, MaxEvents, MaxIds} \subseteq Nat \ {0}
    /\ Medium <= High /\ Few <= Many /\ MaxFaults \in Nat

VARIABLES
    events,     \* security_events, oldest first
    address,    \* ip_access_records of logins and calls: accesses, suspicious
    alert,      \* the task sending the alert of an event
    rows,       \* notification_channels; "bot" is the configured Telegram bot
    rules,      \* notification_rules for system alerts: <<channel, keyword met>>
    logs,       \* notification_logs: <<channel, event>>
    service,    \* NotificationService: _initialized, channels, rules
    faults

vars == <<events, address, alert, rows, rules, logs, service, faults>>

Ids    == 1..MaxIds
NoCalls == [ok |-> 0, bad |-> 0, marked |-> FALSE]
NoRow  == [there |-> FALSE, bot |-> FALSE, on |-> FALSE]
NoTask == [at |-> "none", to |-> {}, lost |-> {}]
Unread == [ready |-> FALSE, channels |-> {}, rules |-> {}]

Event == [kind : {"failed", "locked", "success", "refused"}, by : Callers, fresh : BOOLEAN,
          level : {"low", "medium", "high"}]

TypeOK ==
    /\ events \in Seq(Event) /\ Len(events) <= MaxEvents
    /\ address \in [Callers \X {"login", "api"} -> [ok : Nat, bad : Nat, marked : BOOLEAN]]
    /\ alert \in [1..MaxEvents ->
                    [at : {"none", "queued", "sending", "done"}, to : SUBSET Ids, lost : SUBSET Ids]]
    /\ rows \in [Ids -> [there : BOOLEAN, bot : BOOLEAN, on : BOOLEAN]]
    /\ rules \subseteq Ids \X BOOLEAN
    /\ logs \subseteq Ids \X (1..MaxEvents)
    /\ service \in [ready : BOOLEAN, channels : SUBSET Ids, rules : SUBSET (Ids \X BOOLEAN)]
    /\ faults \in 0..MaxFaults

Init ==
    /\ events = <<>> /\ address = [w \in Callers \X {"login", "api"} |-> NoCalls]
    /\ alert = [e \in 1..MaxEvents |-> NoTask]
    /\ rows = [i \in Ids |-> NoRow] /\ rules = {} /\ logs = {}
    /\ service = Unread /\ faults = 0

-----------------------------------------------------------------------------
(* IPAccessRecord.record_access: the first access makes the row.            *)
Marked(r) == r.bad > Many \/ (r.bad > Few /\ r.ok = 0)

RecordAccess(w, good) ==
    LET old == address[w]
        new == [ok  |-> old.ok + IF good THEN 1 ELSE 0,
                bad |-> old.bad + IF good THEN 0 ELSE 1, marked |-> old.marked]
    IN  address' = [address EXCEPT ![w] =
                      IF old # NoCalls /\ Marked(new) THEN [new EXCEPT !.marked = TRUE] ELSE new]

RecentOfAny(kind, c) == Cardinality({i \in DOMAIN events : events[i].kind = kind /\ events[i].fresh})

(* SecurityEvent.count_by_type, before the new event is written.            *)
Recent(kind, c) ==
    Cardinality({i \in DOMAIN events : events[i].by = c /\ events[i].kind = kind /\ events[i].fresh})

Level(c) == IF Recent("failed", c) >= High THEN "high"
            ELSE IF Recent("failed", c) >= Medium THEN "medium" ELSE "low"

New(kind, c, level) == [kind |-> kind, by |-> c, fresh |-> TRUE, level |-> level]

Queue(high) == alert' = [e \in 1..MaxEvents |-> IF e \in high THEN [NoTask EXCEPT !.at = "queued"] ELSE alert[e]]

(* A wrong password; the login counter may lock the account with it.        *)
LoginFailed(c, locks) ==
    LET n == Len(events) + 1
        new == <<New("failed", c, Level(c))>> \o (IF locks THEN <<New("locked", c, "high")>> ELSE <<>>)
    IN  /\ Len(events) + Len(new) <= MaxEvents
        /\ events' = events \o new
        /\ Queue((IF Level(c) = "high" THEN {n} ELSE {}) \cup (IF locks THEN {n + 1} ELSE {}))
        /\ RecordAccess(<<c, "login">>, FALSE)
        /\ UNCHANGED <<rows, rules, logs, service, faults>>

(* A login from an address its user was never seen at is of medium level.   *)
LoginSuccess(c) ==
    LET known == \E i \in DOMAIN events : events[i].kind = "success" /\ events[i].by = c IN
    /\ Len(events) < MaxEvents
    /\ events' = Append(events, New("success", c, IF known THEN "low" ELSE "medium"))
    /\ RecordAccess(<<c, "login">>, TRUE)
    /\ UNCHANGED <<alert, rows, rules, logs, service, faults>>

(* The middleware turns a call away: no alert, however many there were.     *)
Unauthorized(c) ==
    /\ Len(events) < MaxEvents
    /\ events' = Append(events, New("refused", c, IF Recent("refused", c) >= High THEN "high" ELSE "medium"))
    /\ RecordAccess(<<c, "api">>, FALSE)
    /\ UNCHANGED <<alert, rows, rules, logs, service, faults>>

(* Fifteen minutes pass for the oldest event counted.                       *)
Ages(i) ==
    /\ events[i].fresh /\ \A j \in 1..(i - 1) : ~events[j].fresh
    /\ events' = [events EXCEPT ![i].fresh = FALSE]
    /\ UNCHANGED <<address, alert, rows, rules, logs, service, faults>>

-----------------------------------------------------------------------------
(* NotificationService.initialize over the rows rs and rules us: enabled    *)
(* ones are read, and a channel is made for the configured bot when no      *)
(* enabled Telegram channel is among them, in a commit of its own, before   *)
(* that of its rules.                                                       *)
Live(rs) == {i \in Ids : rs[i].there /\ rs[i].on}
NextId(rs) == Max({0} \cup {i \in Ids : rs[i].there}) + 1
Made(rs)  == IF \E i \in Live(rs) : rs[i].bot THEN {} ELSE {NextId(rs)} \cap Ids
WithBot(rs) == [i \in Ids |-> IF i \in Made(rs) THEN [there |-> TRUE, bot |-> TRUE, on |-> TRUE]
                                                ELSE rs[i]]

Initialized(rs, us) ==
    /\ rows' = WithBot(rs)
    /\ rules' = us \cup (Made(rs) \X {TRUE})
    /\ service' = [ready |-> TRUE, channels |-> Live(rows'), rules |-> rules']
    /\ UNCHANGED faults

(* The channels or the rules cannot be read, or the new rules not written.  *)
InitializeFails(rs, us) ==
    /\ faults < MaxFaults /\ faults' = faults + 1
    /\ rules' = us
    /\ \/ rows' = rs /\ service' = Unread
       \/ rows' = WithBot(rs) /\ service' = [Unread EXCEPT !.channels = Live(rows')]

Reload(rs, us) == Initialized(rs, us) \/ InitializeFails(rs, us)

Forgotten(rs, us) == rows' = rs /\ rules' = us /\ UNCHANGED <<service, faults>>

(* create_channel alone does not have the service read the rows again.      *)
CreateChannel ==
    /\ NextId(rows) \in Ids
    /\ \E bot \in BOOLEAN : rows' = [rows EXCEPT ![NextId(rows)] = [there |-> TRUE, bot |-> bot, on |-> TRUE]]
    /\ UNCHANGED <<events, address, alert, rules, logs, service, faults>>

UpdateUnread(i, on) ==
    /\ rows[i].there /\ rows[i].on # on
    /\ Forgotten([rows EXCEPT ![i].on = on], rules)
    /\ UNCHANGED <<events, address, alert, logs>>

UpdateChannel(i, on) ==
    /\ rows[i].there /\ rows[i].on # on
    /\ Reload([rows EXCEPT ![i].on = on], rules)
    /\ UNCHANGED <<events, address, alert, logs>>

(* Its rules go with it; one that has log rows stays (IntegrityError).      *)
DeleteChannel(i) ==
    /\ rows[i].there /\ \A e \in 1..MaxEvents : <<i, e>> \notin logs
    /\ Reload([rows EXCEPT ![i] = NoRow], {r \in rules : r[1] # i})
    /\ UNCHANGED <<events, address, alert, logs>>

CreateRule(i, met) ==
    /\ rows[i].there /\ <<i, met>> \notin rules
    /\ Reload(rows, rules \cup {<<i, met>>})
    /\ UNCHANGED <<events, address, alert, logs>>

DeleteRule(r) ==
    /\ Reload(rows, rules \ {r})
    /\ UNCHANGED <<events, address, alert, logs>>

-----------------------------------------------------------------------------
(* send_notification: the channels of the rules whose keyword is met.       *)
Targets == {i \in service'.channels : <<i, TRUE>> \in service'.rules}

StartAlert(e) ==
    /\ alert[e].at = "queued"
    /\ IF service.ready THEN UNCHANGED <<rows, rules, service, faults>> ELSE Reload(rows, rules)
    /\ alert' = [alert EXCEPT ![e] = [NoTask EXCEPT !.at = IF Targets = {} THEN "done" ELSE "sending",
                                                    !.to = Targets]]
    /\ UNCHANGED <<events, address, logs>>

(* _send_and_log: sent, refused or timed out, one row says so, if there is  *)
(* still a channel of that number; gather waits for the last of them.       *)
Logged(e, i) ==
    LET left == {j \in alert[e].to : j # i /\ <<j, e>> \notin logs /\ j \notin alert[e].lost} IN
    /\ alert[e].at = "sending" /\ i \in alert[e].to \ alert[e].lost /\ <<i, e>> \notin logs
    /\ logs' = IF rows[i].there THEN logs \cup {<<i, e>>} ELSE logs
    /\ alert' = [alert EXCEPT ![e].lost = IF rows[i].there THEN @ ELSE @ \cup {i},
                              ![e].at = IF left = {} THEN "done" ELSE @]
    /\ UNCHANGED <<events, address, rows, rules, service, faults>>

Next ==
    \/ \E c \in Callers, locks \in BOOLEAN : LoginFailed(c, locks)
    \/ \E c \in Callers : LoginSuccess(c) \/ Unauthorized(c)
    \/ \E i \in DOMAIN events : Ages(i)
    \/ CreateChannel
    \/ \E i \in Ids, on \in BOOLEAN : UpdateChannel(i, on)
    \/ \E i \in Ids : DeleteChannel(i)
    \/ \E i \in Ids, met \in BOOLEAN : CreateRule(i, met)
    \/ \E r \in rules : DeleteRule(r)
    \/ \E e \in 1..MaxEvents : StartAlert(e) \/ \E i \in Ids : Logged(e, i)

Spec == Init /\ [][Next]_vars

-----------------------------------------------------------------------------
(* reload after every change: while the service is initialized it would     *)
(* send to exactly the enabled channels with a rule, as the rows say.       *)
CopyIsFresh ==
    service.ready => \A i \in Ids :
        (i \in service.channels /\ <<i, TRUE>> \in service.rules)
            <=> (i \in Live(rows) /\ <<i, TRUE>> \in rules)

(* record_login_failed and record_account_locked: once the failures of one  *)
(* caller in the window go past the limit, and with every lock, an alert    *)
(* is on its way, and those of no one else.                                 *)
SevereIsTold ==
    \A i \in DOMAIN events :
        /\ alert[i].at # "none" <=> events[i].level = "high" /\ events[i].kind # "refused"
        /\ events[i].fresh /\ events[i].kind = "failed" =>
              LET before == {j \in 1..(i - 1) : events[j].by = events[i].by /\ events[j].kind = "failed"}
              IN  /\ Cardinality({j \in before : events[j].fresh}) >= High => alert[i].at # "none"
                  /\ alert[i].at # "none" => Cardinality(before) >= High

(* _send_and_log: an alert is done when each channel it was sent to has a   *)
(* log row of it, or the channel's row was gone by then.                    *)
SendsAreLogged ==
    \A e \in 1..MaxEvents : alert[e].at = "done" =>
        \A i \in alert[e].to : (<<i, e>> \in logs) # (i \in alert[e].lost)

(* The two tables agree: an address has as many failures as it has events   *)
(* of them, and is marked once it had too many.                             *)
Failures(w) ==
    LET kind == IF w[2] = "login" THEN "failed" ELSE "refused"
    IN  Cardinality({i \in DOMAIN events : events[i].by = w[1] /\ events[i].kind = kind})

AddressesAgree ==
    \A w \in DOMAIN address :
        /\ address[w].bad = Failures(w)
        /\ Marked(address[w]) /\ address[w].bad + address[w].ok > 1 => address[w].marked

(* Disabling a channel (PUT /channels/{id}) would end its messages.  It     *)
(* does not for the bot of config.yaml: the reload finds no enabled         *)
(* Telegram channel and makes another row for the same bot.                 *)
DisabledStays ==
    [][\A i \in Ids : rows[i].on /\ rows[i].bot /\ ~rows'[i].on
          => \A j \in Ids : rows'[j].on /\ rows'[j].bot => rows[j].on]_vars
==============================================================================
