----------------------------- MODULE OptimizeLoop ----------------------------
(****************************************************************************)
(* The loop that tests this repository and sends agents to mend what fails  *)
(* (scripts/continuous_optimize.py).  An iteration runs the commands of all *)
(* modules (the baseline), gives each lane with failures to an agent, some  *)
(* agents at a time, runs the failed commands again, and reports.           *)
(*                                                                          *)
(* The code under test is seen through its commands: each would pass, fail, *)
(* hang or find nothing to run.  Only agents change it.                     *)
(****************************************************************************)
EXTENDS Naturals, FiniteSets

CONSTANTS
    Commands,       \* a command stands for a module as well
    Lanes, LaneOf,
    MaxAgents       \* max_parallel_agents

LoopAssumption == LaneOf \in [Commands -> Lanes] /\ MaxAgents \in Nat \ {0}

VARIABLES
    code,       \* what each command would do now
    phase, todo,    \* where the loop is, and the commands it is still to run
    base, ver,      \* baseline_results, verification_results
    agent,      \* the lanes' agents
    stray,      \* what killed agents have left running
    report,     \* the results last reported
    stop        \* whether there is a stop file

vars == <<code, phase, todo, base, ver, agent, stray, report, stop>>

Code == {"good", "bad", "hangs", "gone"}

Results == {"none", "passed", "failed", "skipped"}

NoResults == [c \in Commands |-> "none"]

TypeOK ==
    /\ code \in [Commands -> Code]
    /\ phase \in {"between", "baseline", "agents", "verify", "stopped"}
    /\ todo \subseteq Commands
    /\ base \in [Commands -> Results]
    /\ ver \in [Commands -> Results]
    /\ agent \in [Lanes -> {"none", "waiting", "running", "hung", "ended"}]
    /\ stray \in {"none", "alive", "dead"}
    /\ report \in [Commands -> Results]
    /\ stop \in BOOLEAN

Init ==
    /\ code \in [Commands -> Code]
    /\ phase = "between" /\ todo = {}
    /\ base = NoResults /\ ver = NoResults
    /\ agent = [l \in Lanes |-> "none"]
    /\ stray = "none"
    /\ report = NoResults
    /\ stop = FALSE

-----------------------------------------------------------------------------
(* main looks for the stop file before and after an iteration.              *)
Stops ==
    /\ phase = "between" /\ stop
    /\ phase' = "stopped"
    /\ UNCHANGED <<code, todo, base, ver, agent, stray, report, stop>>

Iterates ==
    /\ phase = "between" /\ ~stop
    /\ phase' = "baseline" /\ todo' = Commands
    /\ base' = NoResults /\ ver' = NoResults
    /\ agent' = [l \in Lanes |-> "none"]
    /\ stray' = IF stray = "dead" THEN "none" ELSE stray
    /\ UNCHANGED <<code, report, stop>>

(* Wrong on purpose: a command may take its time.                           *)
ResultInTime(c) ==
    CASE code[c] = "gone"  -> {"skipped"}
      [] code[c] = "bad"   -> {"failed"}
      [] code[c] = "good"  -> {"passed", "failed"}
      [] code[c] = "hangs" -> {}

(* run_materialized_command: a good command may still run out of its time,  *)
(* or not be started at all.                                                *)
Result(c) ==
    CASE code[c] = "gone" -> {"skipped"}
      [] code[c] = "good" -> {"passed", "failed"}
      [] OTHER            -> {"failed"}

(* run_module, in both phases                                               *)
Runs(c) ==
    /\ c \in todo
    /\ todo' = todo \ {c}
    /\ \E r \in Result(c) :
         \/ phase = "baseline" /\ base' = [base EXCEPT ![c] = r] /\ UNCHANGED ver
         \/ phase = "verify" /\ ver' = [ver EXCEPT ![c] = r] /\ UNCHANGED base
    /\ UNCHANGED <<code, phase, agent, stray, report, stop>>

Failed == {c \in Commands : base[c] = "failed"}

(* Wrong on purpose: whatever the second run says replaces the first.       *)
MergedAny(c) == IF ver[c] # "none" THEN ver[c] ELSE base[c]

(* merge_command_results: a second run that found nothing to run does not   *)
(* hide the failure of the first.                                           *)
Merged(c) == IF ver[c] \in {"none", "skipped"} THEN base[c] ELSE ver[c]

(* write_report_files                                                       *)
Reports ==
    /\ report' = [c \in Commands |-> Merged(c)]
    /\ phase' = "between"

(* Nothing failed, or else agents are sent, one to each lane with failures. *)
Baselined ==
    /\ phase = "baseline" /\ todo = {}
    /\ IF Failed = {}
       THEN Reports /\ UNCHANGED agent
       ELSE /\ phase' = "agents"
            /\ agent' = [l \in Lanes |->
                  IF \E c \in Failed : LaneOf[c] = l THEN "waiting" ELSE agent[l]]
            /\ UNCHANGED report
    /\ UNCHANGED <<code, todo, base, ver, stray, stop>>

-----------------------------------------------------------------------------
Working == {l \in Lanes : agent[l] \in {"running", "hung"}}

(* The pool takes up the next lane.                                         *)
Sent(l) ==
    /\ agent[l] = "waiting" /\ Cardinality(Working) < MaxAgents
    /\ agent' = [agent EXCEPT ![l] = "running"]
    /\ UNCHANGED <<code, phase, todo, base, ver, stray, report, stop>>

(* An agent edits the code, and may change more than its own lane; the      *)
(* processes that a killed one has started go on doing so.                  *)
Edits(c) ==
    /\ stray = "alive" \/ \E l \in Lanes : agent[l] = "running"
    /\ \E s \in Code : code' = [code EXCEPT ![c] = s]
    /\ UNCHANGED <<phase, todo, base, ver, agent, stray, report, stop>>

Hangs(l) ==
    /\ agent[l] = "running"
    /\ agent' = [agent EXCEPT ![l] = "hung"]
    /\ UNCHANGED <<code, phase, todo, base, ver, stray, report, stop>>

(* run_agent_lane returns: the agent has ended, or its time is up and it is *)
(* killed, but not the processes it has started.                            *)
Returns(l) ==
    /\ l \in Working
    /\ agent' = [agent EXCEPT ![l] = "ended"]
    /\ \/ agent[l] = "running" /\ UNCHANGED stray
       \/ stray' = "alive"
    /\ UNCHANGED <<code, phase, todo, base, ver, report, stop>>

(* Wrong on purpose: the first agent's end is enough.                       *)
SomeReturned == \E l \in Lanes : agent[l] = "ended"

(* All futures are done, and the executor is left.                          *)
AllReturned == \A l \in Lanes : agent[l] \notin {"waiting", "running", "hung"}

Verifies ==
    /\ phase = "agents" /\ AllReturned
    /\ phase' = "verify" /\ todo' = Failed
    /\ UNCHANGED <<code, base, ver, agent, stray, report, stop>>

Verified ==
    /\ phase = "verify" /\ todo = {}
    /\ Reports
    /\ UNCHANGED <<code, todo, base, ver, agent, stray, stop>>

-----------------------------------------------------------------------------
(* Somebody writes the stop file.                                           *)
AskStop ==
    /\ ~stop
    /\ stop' = TRUE
    /\ UNCHANGED <<code, phase, todo, base, ver, agent, stray, report>>

(* What killed agents have left running comes to its end.                   *)
StrayEnds ==
    /\ stray = "alive"
    /\ stray' = "dead"
    /\ UNCHANGED <<code, phase, todo, base, ver, agent, report, stop>>

Loop ==
    \/ Stops \/ Iterates \/ Baselined \/ Verifies \/ Verified
    \/ \E c \in Commands : Runs(c)

Next ==
    \/ Loop \/ AskStop \/ StrayEnds
    \/ \E c \in Commands : Edits(c)
    \/ \E l \in Lanes : Sent(l) \/ Hangs(l) \/ Returns(l)

Fair ==
    /\ WF_vars(Loop)
    /\ \A l \in Lanes : WF_vars(Sent(l)) /\ WF_vars(Returns(l))

Spec == Init /\ [][Next]_vars /\ Fair

-----------------------------------------------------------------------------
(* A failure that the iteration reports as mended is mended in the code as  *)
(* the agents left it, unless one was killed and has left processes.        *)
MendedIsMended ==
    phase \in {"verify", "between"} /\ stray = "none" =>
        \A c \in Commands : ver[c] = "passed" => code[c] = "good"

(* A failure goes out of the reports only if its command has passed since:  *)
(* not by an agent that removes the tests it is to mend.                    *)
FailureVisible ==
    phase = "between" => \A c \in Failed : report[c] = "failed" \/ ver[c] = "passed"

(* The stop file ends the loop, whatever hangs.                             *)
StopFileStops == stop ~> phase = "stopped"
=============================================================================
