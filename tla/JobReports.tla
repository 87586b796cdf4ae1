------------------------------ MODULE JobReports ------------------------------
(***************************************************************************)
(* What a build worker tells the frontend about its task, in which order:  *)
(* the promise that Builds relies on for one worker (its states "fetched", *)
(* "starting", "running" and "failing") and that BuildWorker implements.   *)
(* A worker may stop reporting at any time, and one that had to try        *)
(* another host may never say that it runs.                                *)
(***************************************************************************)
VARIABLE posted   \* the last status posted to the frontend

Init == posted = "none"

Started == posted = "none" /\ posted' = "starting"
Runs    == posted = "starting" /\ posted' = "running"
Fails   == posted \in {"none", "starting", "running"} /\ posted' = "failed"
Built   == posted \in {"starting", "running"} /\ posted' = "succeeded"

Next == Started \/ Runs \/ Fails \/ Built

Spec == Init /\ [][Next]_posted
===============================================================================
