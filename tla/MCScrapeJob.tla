----------------------------- MODULE MCScrapeJob -----------------------------
(* Instances of ScrapeJob for TLC.  One run covers two scenes: one job of   *)
(* any mode with several files, and jobs of a path with one file each.      *)
EXTENDS ScrapeJob

CONSTANTS First  \* the job of the first scene

VARIABLE scene
mcvars == <<vars, scene>>

(* In the second scene modes are mixed.                                     *)
MixedModes ==
    \A j \in Jobs : IF j = First THEN job[j].mode = "scrape_and_rename"
                                 ELSE job[j].mode = "only_scrape"

SceneInit ==
    /\ Init
    /\ \/ scene = "files" /\ \A j \in Jobs : job[j].mode = job[First].mode
       \/ scene = "paths" /\ MixedModes

SceneNext ==
    /\ Next
    /\ scene' = scene
    /\ scene = "files" => path' = path /\ \A j \in Jobs \ {First} : job'[j] = job[j]
    /\ scene = "paths" => \A r \in Runs : run'[r].files <= 1

SceneSpec == SceneInit /\ [][SceneNext]_mcvars
             /\ \A r \in Runs : WF_vars(RunStep(r))
=============================================================================
