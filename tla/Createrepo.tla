------------------------------ MODULE Createrepo ------------------------------
(***************************************************************************)
(* The copr-repo processes (backend/run/copr-repo) that concurrently ask   *)
(* for changes of the metadata of one repository, and the way they do each *)
(* other's work (backend/copr_backend/createrepo.py).  The lock they take  *)
(* is FairLock, which RedisLock implements.                                *)
(*                                                                         *)
(* A request with neither --add nor --delete is for a full run.  Delete    *)
(* stands for --rpms-to-remove, too; Attr for --devel and                  *)
(* --no-appstream-metadata, whose requests are never grouped.  createrepo_c*)
(* is external: it adds, excludes and, without --skip-stat, looks at RPMs  *)
(* it already knows again.                                                 *)
(***************************************************************************)
EXTENDS Naturals, Sequences, FiniteSets

CONSTANTS
  Procs,         \* PIDs
  Requests,      \* what the callers of copr-repo ask for, each of them once
  NoRequest,
  Builds,        \* the subdirectories of the repository
  Add, Delete,   \* --add, --delete of a request
  Stat,          \* --do-stat of a request: the RPMs were signed again
  Attr,          \* its --devel and --no-appstream-metadata
  MaxBatch,      \* MAX_IN_BATCH
  PidReuse,      \* TRUE: also the PID of a process that left its key behind
  MaxDeaths,     \* bound: how many processes are killed
  MaxFailures    \* bound: how many commands fail

ASSUME CreaterepoAssumption ==
  /\ NoRequest \notin Requests
  /\ Add \in [Requests -> SUBSET Builds]
  /\ Delete \in [Requests -> SUBSET Builds]
  /\ Stat \in [Requests -> BOOLEAN]
  /\ DOMAIN Attr = Requests
  /\ MaxBatch \in Nat \ {0, 1}
  /\ PidReuse \in BOOLEAN
  /\ MaxDeaths \in Nat /\ MaxFailures \in Nat

VARIABLES
  line, inside,  \* the lock of the directory
  asked,         \* asked[p]: the field 'task' of p's Redis hash
  status,        \* whether that hash has a field 'status'
  pc, task,      \* where process p is and what it was called for
  todo,          \* the keys the process in the body has yet to read
  notify,        \* the PIDs in its notify_keys
  opts,          \* what options() collected from them
  dirs, meta,    \* the builds on disk, and those in the repodata
  stale,         \* those in the repodata from before they were signed again
  outcome,       \* how the caller's request ended
  deaths, failures

lockVars  == <<line, inside>>
redisVars == <<asked, status>>
bodyVars  == <<todo, notify, opts>>
diskVars  == <<dirs, meta, stale>>
faultVars == <<deaths, failures>>
vars == <<lockVars, redisVars, pc, task, bodyVars, diskVars, outcome, faultVars>>

Lock == INSTANCE FairLock

States == {"free", "request", "lock", "queued", "check", "delete", "list", "read",
           "create", "remove", "appdata", "commit", "done", "failed"}

NoOpts == [full |-> FALSE, add |-> {}, delete |-> {}]

Full(r) == Add[r] = {} /\ Delete[r] = {}

Exists(p) == asked[p] # NoRequest \/ status[p]

Goto(p, to) == pc' = [pc EXCEPT ![p] = to]
Step(p, from, to) == pc[p] = from /\ Goto(p, to)

Failure == failures < MaxFailures /\ failures' = failures + 1

-------------------------------------------------------------------------------
(* main(), up to the lock. *)

(* RPMs that are signed again differ from what the repodata say. *)
Start(p, r) ==
  /\ Step(p, "free", "request")
  /\ outcome[r] = "new"
  /\ PidReuse \/ ~Exists(p)
  /\ task' = [task EXCEPT ![p] = r]
  /\ outcome' = [outcome EXCEPT ![r] = "running"]
  /\ stale' = IF Stat[r] THEN meta ELSE stale
  /\ UNCHANGED <<lockVars, redisVars, bodyVars, dirs, meta, faultVars>>

(* make_request: hset of 'task', which leaves a 'status' as it is *)
MakeRequest(p) ==
  /\ Step(p, "request", "lock")
  /\ asked' = [asked EXCEPT ![p] = task[p]]
  /\ UNCHANGED <<lockVars, status, task, bodyVars, diskVars, outcome, faultVars>>

Queue(p) ==
  /\ Step(p, "lock", "queued")
  /\ Lock!Arrive(p)
  /\ UNCHANGED <<redisVars, task, bodyVars, diskVars, outcome, faultVars>>

Enter(p) ==
  /\ Step(p, "queued", "check")
  /\ Lock!Grab(p)
  /\ UNCHANGED <<redisVars, task, bodyVars, diskVars, outcome, faultVars>>

-------------------------------------------------------------------------------
(* main_locked() *)

(* Variant: a processed request is left in Redis. *)
LeaveProcessed(p) ==
  /\ Step(p, "check", IF status[p] THEN "done" ELSE "delete")
  /\ UNCHANGED <<lockVars, redisVars, task, bodyVars, diskVars, outcome, faultVars>>

(* check_processed: hget of 'status' ... *)
CheckProcessed(p) ==
  /\ Step(p, "check", "delete")
  /\ UNCHANGED <<lockVars, redisVars, task, bodyVars, diskVars, outcome, faultVars>>

(* Variant: a request that is not processed yet is not deleted. *)
DeleteIfProcessed(p) ==
  /\ Step(p, "delete", IF status[p] THEN "done" ELSE "list")
  /\ asked' = [asked EXCEPT ![p] = IF status[p] THEN NoRequest ELSE @]
  /\ status' = [status EXCEPT ![p] = FALSE]
  /\ UNCHANGED <<lockVars, task, bodyVars, diskVars, outcome, faultVars>>

(* ... and the deletion of the own key; nobody else writes to it now. *)
DeleteKey(p) ==
  /\ Step(p, "delete", IF status[p] THEN "done" ELSE "list")
  /\ asked' = [asked EXCEPT ![p] = NoRequest]
  /\ status' = [status EXCEPT ![p] = FALSE]
  /\ UNCHANGED <<lockVars, task, bodyVars, diskVars, outcome, faultVars>>

(* options(): the list of the keys ... *)
ListKeys(p) ==
  /\ Step(p, "list", "read")
  /\ todo' = {q \in Procs : Exists(q)}
  /\ UNCHANGED <<lockVars, redisVars, task, notify, opts, diskVars, outcome, faultVars>>

(* Variant: one request too many. *)
BatchOverflows(batch) == Cardinality(batch) >= MaxBatch

BatchComplete(batch) == Cardinality(batch) >= MaxBatch - 1

(* A full run finds what is to be added by itself. *)
Merge(r) ==
  LET full == opts.full \/ Full(r)
  IN  [full   |-> full,
       add    |-> IF full THEN {} ELSE opts.add \cup Add[r],
       delete |-> opts.delete \cup Delete[r]]

(* ... and of one hash after the other, unless it is processed already or  *)
(* not compatible.                                                         *)
ReadKey(p, q) ==
  /\ pc[p] = "read" /\ q \in todo
  /\ IF asked[q] # NoRequest /\ ~status[q] /\ Attr[asked[q]] = Attr[task[p]]
     THEN /\ notify' = notify \cup {q}
          /\ opts' = Merge(asked[q])
          /\ todo' = IF BatchComplete(notify') THEN {} ELSE todo \ {q}
     ELSE /\ todo' = todo \ {q}
          /\ UNCHANGED <<notify, opts>>
  /\ UNCHANGED <<lockVars, redisVars, pc, task, diskVars, outcome, faultVars>>

(* The batch merged with the own options (in place: from here on, opts is  *)
(* what run_createrepo gets), without what is not on disk.                 *)
MergeOwn(p) ==
  /\ pc[p] = "read" /\ todo = {}
  /\ LET r == task[p]
         full == opts.full \/ Full(r)
         delete == (opts.delete \cup Delete[r])
         add == IF full THEN {} ELSE (opts.add \cup Add[r]) \ delete
     IN  /\ opts' = [full |-> full, add |-> add \cap dirs, delete |-> delete \cap dirs]
         /\ Goto(p, IF opts'.full \/ opts'.add \cup opts'.delete # {}
                    THEN "create" ELSE "commit")
  /\ UNCHANGED <<lockVars, redisVars, task, todo, notify, diskVars, outcome, faultVars>>

(* Variant: only the own --delete becomes --excludes. *)
PublishedWithOthers(p) ==
  IF opts.full THEN dirs \ Delete[task[p]] ELSE (meta \cup opts.add) \ Delete[task[p]]

(* Variant: the old metadata are not reused (--recycle-pkglist). *)
PublishedAnew(p) ==
  IF opts.full THEN dirs \ opts.delete ELSE opts.add \ opts.delete

(* What createrepo_c makes of the options. *)
Published(p) ==
  IF opts.full THEN dirs \ opts.delete ELSE (meta \cup opts.add) \ opts.delete

RunCreaterepo(p) ==
  /\ Step(p, "create", "remove")
  /\ meta' = Published(p)
  /\ stale' = IF Stat[task[p]] THEN {} ELSE stale \cap meta'
  /\ UNCHANGED <<lockVars, redisVars, task, bodyVars, dirs, outcome, faultVars>>

(* delete_builds *)
DeleteBuilds(p) ==
  /\ Step(p, "remove", "appdata")
  /\ dirs' = dirs \ opts.delete
  /\ UNCHANGED <<lockVars, redisVars, task, bodyVars, meta, stale, outcome, faultVars>>

AddAppdata(p) ==
  /\ Step(p, "appdata", "commit")
  /\ UNCHANGED <<lockVars, redisVars, task, bodyVars, diskVars, outcome, faultVars>>

(* Variant: the others are notified also of a failure. *)
CommandFailsForAll(p) ==
  /\ Failure
  /\ pc[p] \in {"create", "appdata"}
  /\ Goto(p, "commit")
  /\ UNCHANGED <<lockVars, redisVars, task, bodyVars, diskVars, outcome, deaths>>

(* createrepo_c or appstream-builder fails: the exception leaves the lock. *)
CommandFails(p) ==
  /\ Failure
  /\ pc[p] \in {"create", "appdata"}
  /\ Goto(p, "failed")
  /\ UNCHANGED <<lockVars, redisVars, task, bodyVars, diskVars, outcome, deaths>>

-------------------------------------------------------------------------------
(* commit(), and the way out. *)

Commit(p, q) ==
  /\ pc[p] = "commit" /\ q \in notify
  /\ status' = [status EXCEPT ![q] = TRUE]
  /\ notify' = notify \ {q}
  /\ UNCHANGED <<lockVars, asked, pc, task, todo, opts, diskVars, outcome, faultVars>>

Committed(p) ==
  /\ Step(p, "commit", "done")
  /\ notify = {}
  /\ UNCHANGED <<lockVars, redisVars, task, bodyVars, diskVars, outcome, faultVars>>

ResetBody == todo' = {} /\ notify' = {} /\ opts' = NoOpts

End(p, how) ==
  /\ Goto(p, "free")
  /\ task' = [task EXCEPT ![p] = NoRequest]
  /\ outcome' = [outcome EXCEPT ![task[p]] = how]

(* Variant: the lock is not released. *)
ExitLocked(p) ==
  /\ pc[p] \in {"done", "failed"}
  /\ End(p, IF pc[p] = "done" THEN "ok" ELSE "failed")
  /\ ResetBody
  /\ UNCHANGED <<lockVars, redisVars, diskVars, faultVars>>

Exit(p) ==
  /\ pc[p] \in {"done", "failed"}
  /\ End(p, IF pc[p] = "done" THEN "ok" ELSE "failed")
  /\ Lock!Leave(p)
  /\ ResetBody
  /\ UNCHANGED <<redisVars, diskVars, faultVars>>

(* The process is killed, for example by the timeout of call_copr_repo. *)
Die(p) ==
  /\ deaths < MaxDeaths /\ deaths' = deaths + 1
  /\ pc[p] # "free"
  /\ End(p, "killed")
  /\ IF pc[p] \in {"request", "lock"} THEN UNCHANGED lockVars ELSE Lock!Leave(p)
  /\ IF p \in inside THEN ResetBody ELSE UNCHANGED bodyVars
  /\ UNCHANGED <<redisVars, diskVars, failures>>

Run(p) ==
  \/ MakeRequest(p) \/ Queue(p) \/ Enter(p)
  \/ CheckProcessed(p) \/ DeleteKey(p) \/ ListKeys(p) \/ MergeOwn(p)
  \/ RunCreaterepo(p) \/ DeleteBuilds(p) \/ AddAppdata(p) \/ CommandFails(p)
  \/ Committed(p) \/ Exit(p)
  \/ \E q \in Procs : ReadKey(p, q) \/ Commit(p, q)

Init ==
  /\ Lock!Init
  /\ asked = [p \in Procs |-> NoRequest]
  /\ status = [p \in Procs |-> FALSE]
  /\ pc = [p \in Procs |-> "free"]
  /\ task = [p \in Procs |-> NoRequest]
  /\ todo = {} /\ notify = {} /\ opts = NoOpts
  /\ dirs = Builds
  /\ meta = Builds \ UNION {Add[r] : r \in Requests}
  /\ stale = {}
  /\ outcome = [r \in Requests |-> "new"]
  /\ deaths = 0 /\ failures = 0

Next ==
  \E p \in Procs : Run(p) \/ Die(p) \/ \E r \in Requests : Start(p, r)

Spec == Init /\ [][Next]_vars

(* A running process is scheduled, and the commands it runs end. *)
FairSpec == Spec /\ \A p \in Procs : WF_vars(Run(p))

-------------------------------------------------------------------------------
(* Properties. *)

(* Every variable keeps its type, and no batch is larger than MAX_IN_BATCH *)
(* with the request of the process itself (options()).                     *)
TypeOK ==
  /\ line \in Seq(Procs) /\ inside \subseteq Procs
  /\ asked \in [Procs -> Requests \cup {NoRequest}]
  /\ status \in [Procs -> BOOLEAN]
  /\ pc \in [Procs -> States]
  /\ task \in [Procs -> Requests \cup {NoRequest}]
  /\ \A p \in Procs : pc[p] = "free" <=> task[p] = NoRequest
  /\ todo \subseteq Procs /\ notify \subseteq Procs
  /\ Cardinality(notify) < MaxBatch
  /\ opts \in [full : BOOLEAN, add : SUBSET Builds, delete : SUBSET Builds]
  /\ dirs \subseteq Builds /\ meta \subseteq Builds /\ stale \subseteq Builds
  /\ outcome \in [Requests -> {"new", "running", "ok", "failed", "killed"}]
  /\ deaths \in 0 .. MaxDeaths /\ failures \in 0 .. MaxFailures

(* The builds somebody has asked to delete. *)
Withdrawn == UNION {Delete[r] : r \in {q \in Requests : outcome[q] # "new"}}

(* A caller told that its copr-repo succeeded finds its change in the      *)
(* repository, whichever process made it and whatever others asked for at  *)
(* the same time (check_processed, options, commit).                       *)
ReportedIsPublished ==
  \A r \in Requests : outcome[r] = "ok" =>
    /\ Add[r] \subseteq meta \cup Withdrawn
    /\ Delete[r] \cap (meta \cup dirs) = {}

(* RPMs that were signed again are looked at before their request is       *)
(* reported as done: "--do-stat ... helps to recognize that RPM files were *)
(* re-signed" (the argument parser of copr-repo).                          *)
ResignedIsPublished ==
  \A r \in Requests : Stat[r] /\ outcome[r] = "ok" =>
    stale = {} \/ \E q \in Requests \ {r} : Stat[q] /\ outcome[q] # "new"

(* The repodata never name a package that is gone: directories are removed *)
(* after the repodata were written, also those others asked for and also   *)
(* when a process dies in between (delete_builds).                         *)
NoDanglingPackage == meta \subseteq dirs

(* options() never meets the own key (its assertion). *)
OwnKeyNotListed == \A p \in Procs : pc[p] = "read" => p \notin todo

(* Unless processes are killed, none leaves its key in Redis: nobody       *)
(* notifies a process that has deleted it (commit() under the lock).       *)
NoKeyLeft ==
  deaths = 0 => \A p \in Procs : pc[p] = "free" => ~Exists(p)

(* Whoever calls copr-repo gets an answer. *)
EveryRequestEnds ==
  \A r \in Requests : outcome[r] = "running" ~> outcome[r] # "running"

Repo == INSTANCE Repository

(* Whoever does the work of whom, the repository loses and gains only what *)
(* was asked for, and success is reported of what is done (main_locked,    *)
(* options, commit, delete_builds).                                        *)
ImplementsRepository == Repo!Spec
===============================================================================
