------------------------------ MODULE Dispatcher ------------------------------
(***************************************************************************)
(* A dispatcher with its frontend: the loop of Dispatcher.run              *)
(* (common/copr_common/dispatcher.py) around a WorkerManager, the          *)
(* background workers it starts, and the frontend's list of tasks and of   *)
(* cancel requests.                                                        *)
(*                                                                         *)
(* The two dispatchers of the backend differ in who tells the frontend     *)
(* that a task is done.  Reporter = "manager" is the ActionDispatcher:     *)
(* finish_task() posts the result the worker left in its hash.  Reporter = *)
(* "worker" is the BuildDispatcher: the worker posts the result itself and *)
(* then only sets 'status', and users may cancel a task.                   *)
(***************************************************************************)
EXTENDS WorkerManager

CONSTANTS
  Reporter,      \* "manager" or "worker"
  MaxDeaths,     \* bound: how many workers die before they set 'status'
  MaxRestarts,   \* bound: how many times the dispatcher process ends
  MaxOutages     \* bound: how many requests to the frontend fail

ASSUME DispatcherAssumption ==
  /\ Reporter \in {"manager", "worker"}
  /\ MaxDeaths \in Nat /\ MaxRestarts \in Nat /\ MaxOutages \in Nat

VARIABLES
  fstate,    \* fstate[t]: what the frontend knows of t
  cancels,   \* the frontend's CancelRequest rows
  deaths, restarts, outages   \* how much of each bound is used up

frontendVars == <<fstate, cancels>>
faultVars    == <<deaths, restarts, outages>>
vars == <<redisVars, procVars, managerVars, frontendVars, faultVars>>

FrontendStates == {"new", "pending", "done", "canceled"}

(* pending-actions, pending-jobs: a task whose cancellation was requested  *)
(* is not listed any more.                                                 *)
Listed == {t \in Tasks : fstate[t] = "pending" /\ t \notin cancels}

Settled(t) == fstate[t] \in {"done", "canceled"}

(* The frontend takes a result for a task it still waits for.  *)
Accept(t) == fstate' = [fstate EXCEPT ![t] = IF @ = "pending" THEN "done" ELSE @]

Outage == outages < MaxOutages /\ outages' = outages + 1

-------------------------------------------------------------------------------
(* Users of the frontend. *)

Submit(t) ==
  /\ fstate[t] = "new"
  /\ fstate' = [fstate EXCEPT ![t] = "pending"]
  /\ UNCHANGED <<cancels, redisVars, procVars, managerVars, faultVars>>

RequestCancel(t) ==
  /\ Reporter = "worker"
  /\ t \in Listed
  /\ cancels' = cancels \cup {t}
  /\ UNCHANGED <<fstate, redisVars, procVars, managerVars, faultVars>>

-------------------------------------------------------------------------------
(* Dispatcher.run: fetch the tasks and fill the queue, handle the cancel   *)
(* requests, then WorkerManager.run().                                     *)

(* Variant: add_task() returns before it counts a tracked task. *)
RefillUncounted(fetched) ==
  /\ queue' = fetched \ tracked
  /\ counted' = {}

(* clean_tasks(), then add_task() of every fetched task: a tracked one is  *)
(* only counted into the limits.                                           *)
Refill(fetched) ==
  /\ queue' = fetched \ tracked
  /\ counted' = fetched \cap tracked

(* An empty list cleans nothing, and a failed request returns one. *)
FetchTasks ==
  /\ mpc = "fetch"
  /\ mpc' = "cancels"
  /\ \/ /\ IF Listed = {} THEN UNCHANGED <<queue, counted>> ELSE Refill(Listed)
        /\ UNCHANGED outages
     \/ Outage /\ UNCHANGED <<queue, counted>>
  /\ UNCHANGED <<tracked, todo, cur, info, redisVars, procVars, frontendVars,
                 deaths, restarts>>

FetchCancels ==
  /\ mpc = "cancels"
  /\ mpc' = "cancel"
  /\ \/ todo' = cancels /\ UNCHANGED outages
     \/ Outage /\ todo' = {}
  /\ UNCHANGED <<memory, cur, info, redisVars, procVars, frontendVars,
                 deaths, restarts>>

(* Variant: only the worker is canceled, the task stays in the queue. *)
CancelWorkerOnly(t) ==
  /\ mpc = "cancel" /\ t \in todo
  /\ todo' = todo \ {t}
  /\ cur' = t
  /\ mpc' = IF Exists(t) THEN "flag" ELSE "report"
  /\ UNCHANGED <<memory, info, redisVars, procVars, frontendVars, faultVars>>

(* Variant: only the task is canceled, a worker is not asked to stop. *)
CancelTaskOnly(t) ==
  /\ mpc = "cancel" /\ t \in todo
  /\ todo' = todo \ {t}
  /\ queue' = queue \ {t}
  /\ cur' = t
  /\ mpc' = "report"
  /\ UNCHANGED <<tracked, counted, info, redisVars, procVars, frontendVars,
                 faultVars>>

(* cancel_task_id, up to the look at the keys *)
CancelTask(t) ==
  /\ mpc = "cancel" /\ t \in todo
  /\ todo' = todo \ {t}
  /\ queue' = queue \ {t}
  /\ cur' = t
  /\ mpc' = IF Exists(t) THEN "flag" ELSE "report"
  /\ UNCHANGED <<tracked, counted, info, redisVars, procVars, frontendVars,
                 faultVars>>

FlagCancel ==
  /\ mpc = "flag"
  /\ HSet(cur, {"cancel_request"})
  /\ mpc' = "report"
  /\ UNCHANGED <<pid, age, memory, todo, cur, info, procVars, frontendVars,
                 faultVars>>

(* report_canceled_task_id; the frontend cancels the build whether or not  *)
(* a worker was running.                                                   *)
ReportCancel ==
  /\ mpc = "report"
  /\ fstate' = [fstate EXCEPT ![cur] = IF @ = "pending" THEN "canceled" ELSE @]
  /\ cancels' = cancels \ {cur}
  /\ cur' = NoTask
  /\ mpc' = "cancel"
  /\ UNCHANGED <<memory, todo, info, redisVars, procVars, faultVars>>

(* run() always begins with an effective cleanup. *)
RunManager ==
  /\ mpc = "cancel" /\ todo = {}
  /\ StartPass
  /\ UNCHANGED <<memory, info, redisVars, procVars, frontendVars, faultVars>>

(* finish_task: the result is posted by the ActionWorkerManager; a failed  *)
(* post returns False, and the caller does not look at it.                 *)
FinishTask ==
  /\ mpc = "decide" /\ Ended
  /\ mpc' = "drop"
  /\ IF Reporter = "manager"
     THEN \/ Accept(cur) /\ UNCHANGED outages
          \/ Outage /\ UNCHANGED fstate
     ELSE UNCHANGED <<fstate, outages>>
  /\ UNCHANGED <<memory, todo, cur, info, redisVars, procVars, cancels,
                 deaths, restarts>>

(* A request that fails for good while a cancellation is reported is not   *)
(* caught either: it ends the dispatcher like any other crash.             *)
DispatcherDies ==
  /\ restarts < MaxRestarts
  /\ restarts' = restarts + 1
  /\ ManagerDies
  /\ UNCHANGED <<frontendVars, deaths, outages>>

ManagerStep ==
  \/ FetchTasks \/ FetchCancels
  \/ \E t \in Tasks : CancelTask(t)
  \/ FlagCancel \/ ReportCancel \/ RunManager \/ FinishTask
  \/ (CleanupStep \/ StartStep \/ ManagerStarts)
     /\ UNCHANGED <<frontendVars, faultVars>>

-------------------------------------------------------------------------------
(* handle_task of a background worker: the work is over, and its result is *)
(* posted by the worker (which retries indefinitely) or left in the hash.  *)
HandleTask(p) ==
  /\ wpc[p] = "task"
  /\ Goto(p, "status")
  /\ IF Reporter = "worker" THEN Accept(job[p]) ELSE UNCHANGED fstate
  /\ UNCHANGED <<job, redisVars, managerVars, cancels, faultVars>>

WorkerStep(p) ==
  \/ HandleTask(p)
  \/ (WmStarted(p) \/ SetStatus(p))
     /\ UNCHANGED <<managerVars, frontendVars, faultVars>>

Death(p) ==
  /\ deaths < MaxDeaths
  /\ deaths' = deaths + 1
  /\ WorkerDies(p)
  /\ UNCHANGED <<managerVars, frontendVars, restarts, outages>>

(* Popen() follows the allocation at once when things are punctual. *)
TimePasses(t) ==
  /\ Tick(t)
  /\ Punctual => ~(mpc = "spawn" /\ cur = t)
  /\ UNCHANGED <<managerVars, frontendVars, faultVars>>

Init ==
  /\ WorkerInit /\ ManagerInit
  /\ fstate = [t \in Tasks |-> "new"]
  /\ cancels = {}
  /\ deaths = 0 /\ restarts = 0 /\ outages = 0

Next ==
  \/ ManagerStep
  \/ DispatcherDies
  \/ \E p \in Procs : WorkerStep(p) \/ Death(p)
  \/ \E t \in Tasks : Submit(t) \/ RequestCancel(t) \/ TimePasses(t)

Spec == Init /\ [][Next]_vars

(* The dispatcher is restarted by systemd and its loop never blocks for    *)
(* good, run() ends at its timeout however often it turns, a live worker   *)
(* is scheduled, and time passes.  Users need not act.                     *)
Fairness ==
  /\ WF_vars(ManagerStep)
  /\ SF_vars(RunTimeout /\ UNCHANGED <<frontendVars, faultVars>>)
  /\ \A p \in Procs : WF_vars(WorkerStep(p))
  /\ \A t \in Tasks : WF_vars(TimePasses(t))

FairSpec == Spec /\ Fairness

-------------------------------------------------------------------------------
(* Properties. *)

(* Every variable keeps its type, and a step of the dispatcher that handles *)
(* one worker knows which (the loop variable worker_id).                    *)
TypeOK ==
  /\ WorkerTypeOK
  /\ ManagerTypeOK
  /\ fstate \in [Tasks -> FrontendStates]
  /\ cancels \subseteq Tasks
  /\ deaths \in 0 .. MaxDeaths
  /\ restarts \in 0 .. MaxRestarts
  /\ outages \in 0 .. MaxOutages

(* While workers register in time, no task is handled by two processes at  *)
(* once, across worker deaths, restarts of the dispatcher and its adoption *)
(* of the keys it finds (WorkerManager.__init__, add_task).                *)
OneWorkerPerTask ==
  \A p, q \in Procs : Live(p) /\ Live(q) /\ job[p] = job[q] => p = q

(* max_workers bounds the processes, also those a restarted dispatcher     *)
(* never started itself (the comment on adoption in __init__).             *)
ProcessCap == Cardinality({p \in Procs : Live(p)}) <= MaxWorkers

(* A group never has more workers on tasks the frontend still lists than   *)
(* the limit allows, although the limits are counted anew from every fetch *)
(* and know nothing of a worker after a restart (clean_tasks, add_task).   *)
LimitRespected ==
  \A t \in Tasks :
    Cardinality({u \in InGroup(Listed, Group[t]) : WorkersOf(u) # {}})
      <= GroupLimit

(* Once the frontend shows a task as canceled, a worker still running it   *)
(* has been asked to stop (cancel_task_id before report_canceled_task_id). *)
CancelReachesWorker ==
  \A p \in Procs :
    Live(p) /\ fstate[job[p]] = "canceled" => "cancel_request" \in hash[job[p]]

(* No worker is started for a task the frontend has settled, although the  *)
(* queue outlives a failed or empty fetch (Dispatcher.run, start_task).    *)
NoWorkerForSettled ==
  [][\A p \in Procs :
       wpc[p] = "free" /\ wpc'[p] = "spawned" => fstate[job'[p]] = "pending"]_vars

(* A tracked worker without any process is noticed by the cleanup passes   *)
(* and its slot reclaimed: they "go through all the tracked workers and    *)
(* check if they already finished, failed to start or died".               *)
SlotsReclaimed ==
  \A t \in Tasks :
    (t \in tracked /\ WorkersOf(t) = {}) ~> (t \notin tracked \/ WorkersOf(t) # {})

(* The manager knows of every worker whose hash it allocated, whatever     *)
(* late workers delete, so add_task cannot queue such a task again.        *)
AllocatedIsTracked ==
  mpc # "down" => \A t \in Tasks : "allocated" \in hash[t] => t \in tracked

(* A hash that a worker created again after the manager gave up on it does *)
(* not stay in Redis (the orphan branch of _cleanup_workers).              *)
OrphansCollected ==
  \A t \in Tasks :
    (Exists(t) /\ "allocated" \notin hash[t])
      ~> (~Exists(t) \/ "allocated" \in hash[t])

(* Every task the frontend lists is settled in the end, whatever dies and  *)
(* fails on the way (the loop of Dispatcher.run as a whole).               *)
EveryTaskSettles == \A t \in Tasks : fstate[t] = "pending" ~> Settled(t)

(* What the frontend and Redis together say of a task. *)
PoolState(t) ==
  IF fstate[t] = "new" THEN "new"
  ELSE IF Settled(t) THEN "settled"
  ELSE IF {"allocated", "status"} \subseteq hash[t] THEN "ended"
  ELSE IF WorkersOf(t) # {} THEN "running"
  ELSE "waiting"

Pool == INSTANCE TaskPool WITH state <- [t \in Tasks |-> PoolState(t)]

(* The dispatcher, its workers and Redis implement TaskPool. *)
ImplementsPool == Pool!Spec
===============================================================================
