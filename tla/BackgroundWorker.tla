--------------------------- MODULE BackgroundWorker ---------------------------
(***************************************************************************)
(* The background process that WorkerManager starts for one task, and the  *)
(* Redis hash through which the two communicate                            *)
(* (common/copr_common/background_worker.py).                              *)
(*                                                                         *)
(* A Redis hash exists exactly when it has a field, so hash[t] is the set  *)
(* of the fields of task t's key and {} is an absent key: an hset on a     *)
(* deleted key silently creates it again, without its 'allocated' field.   *)
(* Only the value of 'PID' matters to the manager; it is pid[t].           *)
(***************************************************************************)
EXTENDS Naturals, FiniteSets

CONSTANTS
  Tasks,     \* task ids; one worker key per task (get_worker_id)
  Procs,     \* process ids the operating system hands out; an id is reused
  NoTask,    \* the job of a process id that is not in use
  NoProc,    \* the PID of a hash without the field 'PID'
  Punctual   \* TRUE: a live worker registers itself within the start timeout

ASSUME BackgroundWorkerAssumption ==
  /\ Tasks # {} /\ Procs # {}
  /\ NoTask \notin Tasks
  /\ NoProc \notin Procs
  /\ Punctual \in BOOLEAN

VARIABLES
  hash,      \* hash[t]: the fields of the Redis hash of task t's worker
  pid,       \* pid[t]: the value of its field 'PID'
  age,       \* age[t]: which of the manager's two timeouts the hash outlived
  wpc,       \* wpc[p]: where process p is in BackgroundWorker.process()
  job        \* job[p]: the task p was started for (--worker-id)

redisVars == <<hash, pid, age>>
procVars  == <<wpc, job>>

Fields == {"allocated", "started", "PID", "status", "cancel_request",
           "checked", "delete"}

(* "free": no process; "spawned": started, before the first hset of        *)
(* _wm_started; "pid", "check", "giveup": inside _wm_started; "task":      *)
(* inside handle_task; "status": about to set 'status' and exit.           *)
WorkerStates == {"free", "spawned", "pid", "check", "giveup", "task", "status"}

(* 0: within worker_timeout_start of 'allocated'; 1: older than that;      *)
(* 2: and last 'checked' longer than worker_timeout_deadcheck ago.         *)
Ages == 0 .. 2

Exists(t)     == hash[t] # {}
Live(p)       == wpc[p] # "free"
WorkersOf(t)  == {p \in Procs : Live(p) /\ job[p] = t}
Unregistered(p) == wpc[p] \in {"spawned", "pid", "check", "giveup"}

-------------------------------------------------------------------------------
(* Redis commands. *)

HSet(t, fields) == hash' = [hash EXCEPT ![t] = @ \cup fields]

Delete(t) ==
  /\ hash' = [hash EXCEPT ![t] = {}]
  /\ pid'  = [pid EXCEPT ![t] = NoProc]
  /\ age'  = [age EXCEPT ![t] = 0]

(* Time passes one of the manager's two thresholds for t's hash. *)
Tick(t) ==
  /\ "allocated" \in hash[t]
  /\ age[t] < 2
  /\ Punctual => \A p \in WorkersOf(t) : ~Unregistered(p)
  /\ age' = [age EXCEPT ![t] = @ + 1]
  /\ UNCHANGED <<hash, pid, wpc, job>>

-------------------------------------------------------------------------------
(* Steps of one process.  Each reads or writes Redis once. *)

Goto(p, to) == wpc' = [wpc EXCEPT ![p] = to]

Exit(p) ==
  /\ Goto(p, "free")
  /\ job' = [job EXCEPT ![p] = NoTask]

WmSetStarted(p) ==
  /\ wpc[p] = "spawned"
  /\ HSet(job[p], {"started"})
  /\ Goto(p, "pid")
  /\ UNCHANGED <<pid, age, job>>

WmSetPid(p) ==
  /\ wpc[p] = "pid"
  /\ HSet(job[p], {"PID"})
  /\ pid' = [pid EXCEPT ![job[p]] = p]
  /\ Goto(p, "check")
  /\ UNCHANGED <<age, job>>

WmCheckAllocated(p) ==
  /\ wpc[p] = "check"
  /\ Goto(p, IF "allocated" \in hash[job[p]] THEN "task" ELSE "giveup")
  /\ UNCHANGED <<hash, pid, age, job>>

(* Variant: _daemonized_part stops when _wm_started returns False. *)
WmGiveUpAndExit(p) ==
  /\ wpc[p] = "giveup"
  /\ Delete(job[p])
  /\ Exit(p)

(* The key is deleted and False returned, which _daemonized_part ignores:  *)
(* the process goes on to handle_task.                                     *)
WmGiveUp(p) ==
  /\ wpc[p] = "giveup"
  /\ Delete(job[p])
  /\ Goto(p, "task")
  /\ UNCHANGED job

(* The last thing handle_task does: set 'status' in a "finally" and exit.  *)
SetStatus(p) ==
  /\ wpc[p] = "status"
  /\ HSet(job[p], {"status"})
  /\ Exit(p)
  /\ UNCHANGED <<pid, age>>

(* The process is killed, or an exception escapes (sys.exit(1)). *)
WorkerDies(p) ==
  /\ Live(p)
  /\ Exit(p)
  /\ UNCHANGED redisVars

WmStarted(p) ==
  WmSetStarted(p) \/ WmSetPid(p) \/ WmCheckAllocated(p) \/ WmGiveUp(p)

WorkerInit ==
  /\ hash = [t \in Tasks |-> {}]
  /\ pid  = [t \in Tasks |-> NoProc]
  /\ age  = [t \in Tasks |-> 0]
  /\ wpc  = [p \in Procs |-> "free"]
  /\ job  = [p \in Procs |-> NoTask]

WorkerTypeOK ==
  /\ hash \in [Tasks -> SUBSET Fields]
  /\ pid  \in [Tasks -> Procs \cup {NoProc}]
  /\ age  \in [Tasks -> Ages]
  /\ wpc  \in [Procs -> WorkerStates]
  /\ job  \in [Procs -> Tasks \cup {NoTask}]
  /\ \A p \in Procs : Live(p) <=> job[p] # NoTask
===============================================================================
