------------------------------- MODULE Repository -------------------------------
(***************************************************************************)
(* What copr-repo promises to its callers for one repository, whoever does *)
(* the work: the metadata are replaced at once, they gain and lose only    *)
(* what somebody asked for, and success is reported only of what is done   *)
(* (main and main_locked of backend/run/copr-repo).                        *)
(***************************************************************************)
CONSTANTS Requests, Builds, Add, Delete

VARIABLES
  outcome,     \* how each request ended, or that it is new or running
  meta, dirs   \* the builds in the repodata, and those on disk

vars == <<outcome, meta, dirs>>

Asked == {r \in Requests : outcome[r] # "new"}

Withdrawn == UNION {Delete[r] : r \in Asked}

(* A request for nothing in particular is for everything on disk. *)
Wanted ==
  IF \E r \in Asked : Add[r] = {} /\ Delete[r] = {}
  THEN dirs ELSE UNION {Add[r] : r \in Asked}

Served(r) == Add[r] \subseteq meta \cup Withdrawn /\ Delete[r] \cap dirs = {}

Init ==
  /\ outcome = [r \in Requests |-> "new"]
  /\ dirs = Builds
  /\ meta = Builds \ UNION {Add[r] : r \in Requests}

Ask(r) ==
  /\ outcome[r] = "new"
  /\ outcome' = [outcome EXCEPT ![r] = "running"]
  /\ UNCHANGED <<meta, dirs>>

Publish ==
  /\ meta' \in SUBSET dirs
  /\ meta \ meta' \subseteq Withdrawn
  /\ meta' \ meta \subseteq Wanted
  /\ UNCHANGED <<outcome, dirs>>

Discard ==
  /\ dirs' \in SUBSET dirs
  /\ dirs \ dirs' \subseteq Withdrawn \ meta
  /\ UNCHANGED <<outcome, meta>>

Answer(r) ==
  /\ outcome[r] = "running"
  /\ \E how \in {"ok", "failed", "killed"} :
       /\ how = "ok" => Served(r)
       /\ outcome' = [outcome EXCEPT ![r] = how]
  /\ UNCHANGED <<meta, dirs>>

Next == Publish \/ Discard \/ \E r \in Requests : Ask(r) \/ Answer(r)

Spec == Init /\ [][Next]_vars
================================================================================
