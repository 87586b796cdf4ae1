----------------------------- MODULE WorkerManager -----------------------------
(***************************************************************************)
(* The single-threaded WorkerManager (common/copr_common/worker_manager.py)*)
(* of a dispatcher process: its queue, the worker ids it tracks, the       *)
(* worker limits, the cleanup pass over the Redis keys and the start of a  *)
(* worker.  Every access to Redis is a step of its own, so that workers    *)
(* run between any two of them; what the manager does in its own memory    *)
(* belongs to the neighbouring access.                                     *)
(*                                                                         *)
(* Priorities are left out: the next task is any task of the queue.        *)
(***************************************************************************)
EXTENDS BackgroundWorker

CONSTANTS
  MaxWorkers,   \* max_workers
  Group,        \* Group[t]: what a HashWorkerLimit's hasher says of t
  GroupLimit    \* the limit of workers per group

ASSUME WorkerManagerAssumption ==
  /\ MaxWorkers \in Nat \ {0}
  /\ GroupLimit \in Nat
  /\ DOMAIN Group = Tasks

VARIABLES
  mpc,       \* where the dispatcher process is; "down": not running
  queue,     \* JobQueue: the ids of the tasks waiting in memory
  tracked,   \* _tracked_workers
  counted,   \* the workers the limits counted since the last clean_tasks
  todo,      \* what is left of the list the process iterates over
  cur,       \* the task whose worker is being handled
  info       \* the hgetall() snapshot of cur's hash, and its age then

memory      == <<queue, tracked, counted>>
managerVars == <<mpc, queue, tracked, counted, todo, cur, info>>

ManagerStates ==
  {"down", "fetch", "cancels", "cancel", "flag", "report", "scan", "decide",
   "drop", "alloc", "spawn", "loop"}

NoInfo == [flags |-> {}, pid |-> NoProc, age |-> 0]

WorkerIds     == {t \in Tasks : Exists(t)}
InGroup(S, g) == {t \in S : Group[t] = g}

(* HashWorkerLimit.check(task) *)
LimitCheck(t) == Cardinality(InGroup(counted, Group[t])) < GroupLimit

-------------------------------------------------------------------------------
(* _cleanup_workers: list the keys, then read and judge them one by one.   *)

(* The pass is over at once for an empty list of keys. *)
StartPass ==
  /\ todo' = WorkerIds
  /\ mpc' = "scan"
  /\ cur' = NoTask

(* Variant: the loop variable of the pass is not advanced. *)
ReadHashOfNobody(t) ==
  /\ mpc = "scan" /\ t \in todo
  /\ info' = [flags |-> hash[t], pid |-> pid[t], age |-> age[t]]
  /\ todo' = todo \ {t}
  /\ mpc' = "decide"
  /\ UNCHANGED <<redisVars, procVars, memory, cur>>

ReadHash(t) ==
  /\ mpc = "scan" /\ t \in todo
  /\ info' = [flags |-> hash[t], pid |-> pid[t], age |-> age[t]]
  /\ cur' = t
  /\ todo' = todo \ {t}
  /\ mpc' = "decide"
  /\ UNCHANGED <<redisVars, procVars, memory>>

NextHash ==
  /\ mpc' = "scan"
  /\ cur' = NoTask
  /\ info' = NoInfo
  /\ UNCHANGED todo

Ended   == {"allocated", "status"} \subseteq info.flags
Doomed  == "allocated" \in info.flags /\ "status" \notin info.flags
           /\ "delete" \in info.flags
Waiting == "allocated" \in info.flags
           /\ {"status", "delete", "started"} \cap info.flags = {}
Working == {"allocated", "started"} \subseteq info.flags
           /\ {"status", "delete"} \cap info.flags = {}

DeleteWorker ==
  /\ Delete(cur)
  /\ tracked' = tracked \ {cur}
  /\ NextHash
  /\ UNCHANGED <<queue, counted, procVars>>

(* Variant: hashes without 'allocated' are skipped by the pass. *)
SkipOrphan ==
  /\ mpc = "decide" /\ "allocated" \notin info.flags
  /\ NextHash
  /\ UNCHANGED <<redisVars, procVars, memory>>

DropOrphan ==
  /\ mpc = "decide" /\ "allocated" \notin info.flags
  /\ DeleteWorker

(* Second look at a worker found dead in an earlier pass. *)
DropDead ==
  /\ mpc = "decide" /\ Doomed
  /\ DeleteWorker

(* Variant: worker_timeout_start is not waited for. *)
DropUnstartedAtOnce ==
  /\ mpc = "decide" /\ Waiting
  /\ DeleteWorker

DropUnstarted ==
  /\ mpc = "decide" /\ Waiting /\ info.age > 0
  /\ DeleteWorker

(* finish_task() was called for the worker: its hash goes, whatever it     *)
(* returned.                                                               *)
DropFinished ==
  /\ mpc = "drop"
  /\ DeleteWorker

KeepWorker ==
  /\ mpc = "decide"
  /\ \/ Waiting /\ info.age = 0
     \/ Working /\ info.age < 2
  /\ NextHash
  /\ UNCHANGED <<redisVars, procVars, memory>>

(* kill(PID, 0): another process that got the same id counts as alive. *)
PidAlive == info.pid \in Procs /\ Live(info.pid)

(* Variant: a dead worker is deleted on the spot, without a second look. *)
CheckAndDelete ==
  /\ mpc = "decide" /\ Working /\ info.age = 2
  /\ IF PidAlive
     THEN /\ HSet(cur, {"checked"})
          /\ age' = [age EXCEPT ![cur] = IF @ = 2 THEN 1 ELSE @]
          /\ NextHash
          /\ UNCHANGED <<pid, procVars, memory>>
     ELSE DeleteWorker

(* Variant: a dead worker is logged and not marked for deletion. *)
CheckAndLog ==
  /\ mpc = "decide" /\ Working /\ info.age = 2
  /\ HSet(cur, {"checked"})
  /\ age' = [age EXCEPT ![cur] = IF @ = 2 THEN 1 ELSE @]
  /\ NextHash
  /\ UNCHANGED <<pid, procVars, memory>>

CheckWorker ==
  /\ mpc = "decide" /\ Working /\ info.age = 2
  /\ HSet(cur, IF PidAlive THEN {"checked"} ELSE {"checked", "delete"})
  /\ age' = [age EXCEPT ![cur] = IF @ = 2 THEN 1 ELSE @]
  /\ NextHash
  /\ UNCHANGED <<pid, procVars, memory>>

EndPass ==
  /\ mpc = "scan" /\ todo = {}
  /\ mpc' = "alloc"
  /\ UNCHANGED <<redisVars, procVars, memory, todo, cur, info>>

-------------------------------------------------------------------------------
(* run(): after the cleanup, one attempt to start a worker per turn. *)

AtCapacity ==
  /\ mpc = "alloc" /\ Cardinality(tracked) >= MaxWorkers
  /\ mpc' = "loop"
  /\ UNCHANGED <<redisVars, procVars, memory, todo, cur, info>>

QueueEmpty ==
  /\ mpc = "alloc" /\ Cardinality(tracked) < MaxWorkers /\ queue = {}
  /\ mpc' = IF tracked = {} THEN "fetch" ELSE "loop"
  /\ UNCHANGED <<redisVars, procVars, memory, todo, cur, info>>

(* A task over a limit is dropped until the queue is filled again. *)
SkipTask(t) ==
  /\ mpc = "alloc" /\ Cardinality(tracked) < MaxWorkers
  /\ t \in queue /\ ~LimitCheck(t)
  /\ queue' = queue \ {t}
  /\ mpc' = "loop"
  /\ UNCHANGED <<redisVars, procVars, tracked, counted, todo, cur, info>>

(* _start_worker, up to start_task *)
Allocate(t) ==
  /\ mpc = "alloc" /\ Cardinality(tracked) < MaxWorkers
  /\ t \in queue /\ LimitCheck(t)
  /\ HSet(t, {"allocated"})
  /\ age' = [age EXCEPT ![t] = 0]
  /\ queue' = queue \ {t}
  /\ tracked' = tracked \cup {t}
  /\ counted' = counted \cup {t}
  /\ cur' = t
  /\ mpc' = "spawn"
  /\ UNCHANGED <<pid, procVars, todo, info>>

(* start_task: Popen() of the background process *)
Spawn(p) ==
  /\ mpc = "spawn" /\ wpc[p] = "free"
  /\ wpc' = [wpc EXCEPT ![p] = "spawned"]
  /\ job' = [job EXCEPT ![p] = cur]
  /\ cur' = NoTask
  /\ mpc' = "loop"
  /\ UNCHANGED <<redisVars, memory, todo, info>>

(* The next turn of run()'s loop, with a cleanup pass when the cleanup      *)
(* period is over.                                                         *)
NextTurn ==
  /\ mpc = "loop"
  /\ \/ StartPass
     \/ mpc' = "alloc" /\ UNCHANGED <<todo, cur>>
  /\ UNCHANGED <<redisVars, procVars, memory, info>>

RunTimeout ==
  /\ mpc = "loop"
  /\ mpc' = "fetch"
  /\ UNCHANGED <<redisVars, procVars, memory, todo, cur, info>>

-------------------------------------------------------------------------------
(* The dispatcher's process ends at any point and loses its memory; the    *)
(* workers live on (KillMode=process).  A new one adopts the keys it finds.*)

ManagerDies ==
  /\ mpc # "down"
  /\ mpc' = "down"
  /\ queue' = {} /\ tracked' = {} /\ counted' = {} /\ todo' = {}
  /\ cur' = NoTask
  /\ info' = NoInfo
  /\ UNCHANGED <<redisVars, procVars>>

(* Variant: a new manager does not adopt the workers it finds. *)
ManagerForgets ==
  /\ mpc = "down"
  /\ mpc' = "fetch"
  /\ UNCHANGED <<redisVars, procVars, memory, todo, cur, info>>

ManagerStarts ==
  /\ mpc = "down"
  /\ mpc' = "fetch"
  /\ tracked' = WorkerIds
  /\ UNCHANGED <<redisVars, procVars, queue, counted, todo, cur, info>>

CleanupStep ==
  \/ \E t \in Tasks : ReadHash(t)
  \/ DropOrphan \/ DropDead \/ DropUnstarted \/ DropFinished
  \/ KeepWorker \/ CheckWorker \/ EndPass

StartStep ==
  \/ AtCapacity \/ QueueEmpty \/ NextTurn \/ RunTimeout
  \/ \E t \in Tasks : SkipTask(t) \/ Allocate(t)
  \/ \E p \in Procs : Spawn(p)

ManagerInit ==
  /\ mpc = "fetch"
  /\ queue = {} /\ tracked = {} /\ counted = {} /\ todo = {}
  /\ cur = NoTask
  /\ info = NoInfo

ManagerTypeOK ==
  /\ mpc \in ManagerStates
  /\ queue \subseteq Tasks
  /\ tracked \subseteq Tasks
  /\ counted \subseteq Tasks
  /\ todo \subseteq Tasks
  /\ cur \in Tasks \cup {NoTask}
  /\ info \in [flags : SUBSET Fields, pid : Procs \cup {NoProc}, age : Ages]
  /\ mpc \in {"flag", "report", "decide", "drop", "spawn"} => cur \in Tasks
===============================================================================
