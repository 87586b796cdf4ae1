--------------------------- MODULE DispatcherProofs ---------------------------
(***************************************************************************)
(* Theorems about Dispatcher, for every set of tasks and of process ids,   *)
(* every limit and every number of deaths, restarts and outages.           *)
(***************************************************************************)
EXTENDS Dispatcher, FiniteSetTheorems, TLAPS

-------------------------------------------------------------------------------
(* Type correctness. *)

(* No handler leaves a variable outside its type, and the dispatcher has a *)
(* worker in hand wherever its code uses worker_id.                        *)
THEOREM TypeCorrect == Spec => []TypeOK
<1> USE BackgroundWorkerAssumption, WorkerManagerAssumption,
        DispatcherAssumption
    DEF TypeOK, WorkerTypeOK, ManagerTypeOK, Fields, WorkerStates, Ages,
        ManagerStates, FrontendStates, Live
<1>1. Init => TypeOK
  BY DEF Init, WorkerInit, ManagerInit, NoInfo
<1>2. TypeOK /\ [Next]_vars => TypeOK'
  <2> SUFFICES ASSUME TypeOK, [Next]_vars PROVE TypeOK'
    OBVIOUS
  <2> USE DEF redisVars, procVars, managerVars, memory, frontendVars, faultVars,
              HSet, Delete, Goto, Exit, Outage
  <2>1. CASE FetchTasks
    BY <2>1 DEF FetchTasks, Refill, Listed
  <2>2. CASE FetchCancels
    BY <2>2 DEF FetchCancels
  <2>3. ASSUME NEW t \in Tasks, CancelTask(t) PROVE TypeOK'
    BY <2>3 DEF CancelTask
  <2>4. CASE FlagCancel
    BY <2>4 DEF FlagCancel
  <2>5. CASE ReportCancel
    BY <2>5 DEF ReportCancel
  <2>6. CASE RunManager
    BY <2>6 DEF RunManager, StartPass, WorkerIds
  <2>7. CASE FinishTask
    BY <2>7 DEF FinishTask, Accept
  <2>8. CASE CleanupStep /\ UNCHANGED <<frontendVars, faultVars>>
    <3> USE DEF NextHash, DeleteWorker, NoInfo
    <3>1. ASSUME NEW t \in Tasks, ReadHash(t) PROVE TypeOK'
      BY <2>8, <3>1 DEF ReadHash
    <3>2. CASE DropOrphan
      BY <2>8, <3>2 DEF DropOrphan
    <3>3. CASE DropDead
      BY <2>8, <3>3 DEF DropDead
    <3>4. CASE DropUnstarted
      BY <2>8, <3>4 DEF DropUnstarted
    <3>5. CASE DropFinished
      BY <2>8, <3>5 DEF DropFinished
    <3>6. CASE KeepWorker
      BY <2>8, <3>6 DEF KeepWorker
    <3>7. CASE CheckWorker
      BY <2>8, <3>7 DEF CheckWorker
    <3>8. CASE EndPass
      BY <2>8, <3>8 DEF EndPass
    <3>9. QED
      BY <2>8, <3>1, <3>2, <3>3, <3>4, <3>5, <3>6, <3>7, <3>8 DEF CleanupStep
  <2>9. CASE StartStep /\ UNCHANGED <<frontendVars, faultVars>>
    <3>1. CASE AtCapacity
      BY <2>9, <3>1 DEF AtCapacity
    <3>2. CASE QueueEmpty
      BY <2>9, <3>2 DEF QueueEmpty
    <3>3. CASE NextTurn
      BY <2>9, <3>3 DEF NextTurn, StartPass, WorkerIds
    <3>4. CASE RunTimeout
      BY <2>9, <3>4 DEF RunTimeout
    <3>5. ASSUME NEW t \in Tasks, SkipTask(t) PROVE TypeOK'
      BY <2>9, <3>5 DEF SkipTask
    <3>6. ASSUME NEW t \in Tasks, Allocate(t) PROVE TypeOK'
      BY <2>9, <3>6 DEF Allocate
    <3>7. ASSUME NEW p \in Procs, Spawn(p) PROVE TypeOK'
      BY <2>9, <3>7 DEF Spawn
    <3>8. QED
      BY <2>9, <3>1, <3>2, <3>3, <3>4, <3>5, <3>6, <3>7 DEF StartStep
  <2>10. CASE ManagerStarts /\ UNCHANGED <<frontendVars, faultVars>>
    BY <2>10 DEF ManagerStarts, WorkerIds
  <2>11. CASE DispatcherDies
    BY <2>11 DEF DispatcherDies, ManagerDies, NoInfo
  <2>12. ASSUME NEW p \in Procs, HandleTask(p) PROVE TypeOK'
    BY <2>12 DEF HandleTask, Accept
  <2>13. ASSUME NEW p \in Procs, WmStarted(p) \/ SetStatus(p),
                UNCHANGED <<managerVars, frontendVars, faultVars>>
         PROVE TypeOK'
    <3>1. CASE WmSetStarted(p)
      BY <2>13, <3>1 DEF WmSetStarted
    <3>2. CASE WmSetPid(p)
      BY <2>13, <3>2 DEF WmSetPid
    <3>3. CASE WmCheckAllocated(p)
      BY <2>13, <3>3 DEF WmCheckAllocated
    <3>4. CASE WmGiveUp(p)
      BY <2>13, <3>4 DEF WmGiveUp
    <3>5. CASE SetStatus(p)
      BY <2>13, <3>5 DEF SetStatus
    <3>6. QED
      BY <2>13, <3>1, <3>2, <3>3, <3>4, <3>5 DEF WmStarted
  <2>14. ASSUME NEW p \in Procs, Death(p) PROVE TypeOK'
    BY <2>14 DEF Death, WorkerDies
  <2>15. ASSUME NEW t \in Tasks, Submit(t) \/ RequestCancel(t) PROVE TypeOK'
    BY <2>15 DEF Submit, RequestCancel, Listed
  <2>16. ASSUME NEW t \in Tasks, TimePasses(t) PROVE TypeOK'
    BY <2>16 DEF TimePasses, Tick
  <2>17. CASE UNCHANGED vars
    BY <2>17 DEF vars
  <2>18. QED
    BY <2>1, <2>2, <2>3, <2>4, <2>5, <2>6, <2>7, <2>8, <2>9, <2>10, <2>11,
       <2>12, <2>13, <2>14, <2>15, <2>16, <2>17
    DEF Next, ManagerStep, WorkerStep
<1>3. QED
  BY <1>1, <1>2, PTL DEF Spec

-------------------------------------------------------------------------------
(* The inductive invariant behind the adoption and the cleanup of workers, *)
(* when workers register in time.                                          *)

(* A registered process has its 'started' and its PID in its task's hash.  *)
Registration ==
  \A p \in Procs : Live(p) =>
    /\ "allocated" \in hash[job[p]]
    /\ wpc[p] # "giveup"
    /\ wpc[p] # "spawned" => "started" \in hash[job[p]]
    /\ wpc[p] \in {"check", "task", "status"} => pid[job[p]] = p
    /\ age[job[p]] > 0 => ~Unregistered(p)

(* There are no orphaned hashes; a result or a death mark is only found    *)
(* on the hash of a worker that is gone.                                   *)
HashOwned ==
  \A t \in Tasks :
    /\ Exists(t) => "allocated" \in hash[t]
    /\ {"status", "delete"} \cap hash[t] # {} => \A p \in Procs : job[p] # t

(* What the manager knows in memory of the hashes. *)
MemoryAgrees ==
  /\ mpc = "down" => queue = {} /\ tracked = {}
  /\ queue \cap tracked = {}
  /\ mpc = "flag" => Exists(cur)
  /\ mpc = "spawn" =>
       /\ hash[cur] = {"allocated"} /\ age[cur] = 0
       /\ \A p \in Procs : job[p] # cur

(* How the snapshot in the manager's hands relates to the hash it was      *)
(* taken from and to the worker, which may both have moved on.             *)
SnapshotAgrees ==
  /\ mpc \in {"decide", "drop"} =>
       /\ info.flags \subseteq hash[cur]
       /\ "allocated" \in hash[cur] => "allocated" \in info.flags
  /\ mpc = "decide" /\ info.age > 0 =>
       \A p \in Procs : job[p] = cur =>
         ~Unregistered(p) /\ info.pid = p /\ "started" \in info.flags
  /\ mpc = "drop" => {"allocated", "status"} \subseteq info.flags

PunctualInv ==
  /\ AllocatedIsTracked
  /\ OneWorkerPerTask
  /\ Registration
  /\ HashOwned
  /\ MemoryAgrees
  /\ SnapshotAgrees

-------------------------------------------------------------------------------
(* The manager knows of every hash it allocated, even if workers register  *)
(* late: an hset by such a worker never restores 'allocated', and only the *)
(* manager, which forgets the worker at the same time, or the worker       *)
(* itself deletes a hash.                                                  *)
THEOREM AllocatedTracked == Spec => []AllocatedIsTracked
<1>1. Init => AllocatedIsTracked
  BY DEF Init, WorkerInit, AllocatedIsTracked
<1>2. TypeOK /\ AllocatedIsTracked /\ [Next]_vars => AllocatedIsTracked'
  <2> SUFFICES ASSUME TypeOK, AllocatedIsTracked, [Next]_vars
               PROVE AllocatedIsTracked'
    OBVIOUS
  <2> USE DEF AllocatedIsTracked, TypeOK, WorkerTypeOK, ManagerTypeOK, Live,
              redisVars, procVars, managerVars, memory, HSet, Delete
  <2>1. CASE CleanupStep /\ UNCHANGED <<frontendVars, faultVars>>
    <3> USE DEF NextHash, DeleteWorker
    <3>1. CASE DropOrphan
      BY <3>1 DEF DropOrphan
    <3>2. CASE DropDead
      BY <3>2 DEF DropDead
    <3>3. CASE DropUnstarted
      BY <3>3 DEF DropUnstarted
    <3>4. CASE DropFinished
      BY <3>4 DEF DropFinished
    <3>5. CASE CheckWorker
      BY <3>5 DEF CheckWorker
    <3>6. CASE KeepWorker \/ EndPass \/ \E t \in Tasks : ReadHash(t)
      BY <3>6 DEF KeepWorker, EndPass, ReadHash
    <3>7. QED
      BY <2>1, <3>1, <3>2, <3>3, <3>4, <3>5, <3>6 DEF CleanupStep
  <2>2. CASE StartStep /\ UNCHANGED <<frontendVars, faultVars>>
    <3>1. ASSUME NEW t \in Tasks, Allocate(t) PROVE AllocatedIsTracked'
      BY <3>1 DEF Allocate
    <3>2. CASE ~\E t \in Tasks : Allocate(t)
      BY <2>2, <3>2
      DEF StartStep, AtCapacity, QueueEmpty, NextTurn, RunTimeout, SkipTask,
          Spawn, StartPass
    <3>3. QED
      BY <3>1, <3>2
  <2>3. CASE ManagerStarts /\ UNCHANGED <<frontendVars, faultVars>>
    BY <2>3 DEF ManagerStarts, WorkerIds, Exists
  <2>4. CASE FlagCancel
    BY <2>4 DEF FlagCancel
  <2>5. CASE \/ FetchTasks \/ FetchCancels \/ ReportCancel \/ RunManager
             \/ FinishTask \/ \E t \in Tasks : CancelTask(t)
    BY <2>5 DEF FetchTasks, FetchCancels, ReportCancel, RunManager, StartPass,
                FinishTask, CancelTask
  <2>6. CASE DispatcherDies
    BY <2>6 DEF DispatcherDies, ManagerDies
  <2>7. ASSUME NEW p \in Procs, WorkerStep(p) \/ Death(p)
        PROVE AllocatedIsTracked'
    BY <2>7 DEF WorkerStep, HandleTask, WmStarted, WmSetStarted, WmSetPid,
                WmCheckAllocated, WmGiveUp, SetStatus, Exit, Goto, Death,
                WorkerDies
  <2>8. ASSUME NEW t \in Tasks, Submit(t) \/ RequestCancel(t) \/ TimePasses(t)
        PROVE AllocatedIsTracked'
    BY <2>8 DEF Submit, RequestCancel, TimePasses, Tick
  <2>9. CASE UNCHANGED vars
    BY <2>9 DEF vars
  <2>10. QED
    BY <2>1, <2>2, <2>3, <2>4, <2>5, <2>6, <2>7, <2>8, <2>9
    DEF Next, ManagerStep
<1>3. QED
  BY <1>1, <1>2, TypeCorrect, PTL DEF Spec

(* The steps of the cleanup pass.  A hash is deleted only if no process of *)
(* its task is left: what the snapshot says rules one out.                 *)
LEMMA CleanupKeepsInv ==
  ASSUME TypeOK, PunctualInv, CleanupStep,
         UNCHANGED <<frontendVars, faultVars>>
  PROVE  PunctualInv'
<1> USE BackgroundWorkerAssumption
    DEF TypeOK, WorkerTypeOK, ManagerTypeOK, Live, Exists, Unregistered,
            redisVars, procVars, memory, HSet, NextHash, NoInfo
<1> DEFINE Gone == \A p \in Procs : job[p] # cur
<1>1. ASSUME NEW t \in Tasks, ReadHash(t) PROVE PunctualInv'
  <2> USE DEF ReadHash
  <2>1. AllocatedIsTracked' /\ OneWorkerPerTask' /\ Registration'
    BY <1>1 DEF PunctualInv, AllocatedIsTracked, OneWorkerPerTask, Registration
  <2>2. HashOwned' /\ MemoryAgrees'
    BY <1>1 DEF PunctualInv, HashOwned, MemoryAgrees
  <2>3. SnapshotAgrees'
    BY <1>1 DEF PunctualInv, SnapshotAgrees, Registration, WorkerStates
  <2>4. QED
    BY <2>1, <2>2, <2>3 DEF PunctualInv
<1>2. ASSUME DeleteWorker, Gone, mpc # "down" PROVE PunctualInv'
  <2> USE <1>2 DEF DeleteWorker, Delete
  <2>1. AllocatedIsTracked' /\ OneWorkerPerTask'
    BY DEF PunctualInv, AllocatedIsTracked, OneWorkerPerTask
  <2>2. Registration'
    BY DEF PunctualInv, Registration
  <2>3. HashOwned' /\ MemoryAgrees' /\ SnapshotAgrees'
    BY DEF PunctualInv, HashOwned, MemoryAgrees, SnapshotAgrees
  <2>4. QED
    BY <2>1, <2>2, <2>3 DEF PunctualInv
<1>3. CASE DropOrphan
  <2>1. "allocated" \notin hash[cur]
    BY <1>3 DEF DropOrphan, PunctualInv, SnapshotAgrees
  <2>2. Gone
    BY <1>3, <2>1 DEF DropOrphan, PunctualInv, Registration
  <2>3. QED
    BY <1>2, <1>3, <2>2 DEF DropOrphan
<1>4. CASE DropDead
  <2>1. "delete" \in hash[cur] /\ cur \in Tasks
    BY <1>4 DEF DropDead, Doomed, PunctualInv, SnapshotAgrees
  <2>2. Gone
    BY <2>1 DEF PunctualInv, HashOwned
  <2>3. QED
    BY <1>2, <1>4, <2>2 DEF DropDead
<1>5. CASE DropUnstarted
  <2>1. Gone
    BY <1>5 DEF DropUnstarted, Waiting, PunctualInv, SnapshotAgrees
  <2>2. QED
    BY <1>2, <1>5, <2>1 DEF DropUnstarted
<1>6. CASE DropFinished
  <2>1. "status" \in hash[cur] /\ cur \in Tasks
    BY <1>6 DEF DropFinished, PunctualInv, SnapshotAgrees
  <2>2. Gone
    BY <2>1 DEF PunctualInv, HashOwned
  <2>3. QED
    BY <1>2, <1>6, <2>2 DEF DropFinished
<1>7. CASE KeepWorker
  BY <1>7 DEF KeepWorker, PunctualInv, AllocatedIsTracked, OneWorkerPerTask,
              Registration, HashOwned, MemoryAgrees, SnapshotAgrees
<1>8. CASE CheckWorker
  <2> USE DEF CheckWorker, Working
  <2>1. "allocated" \in hash[cur] /\ cur \in Tasks
    BY <1>8 DEF PunctualInv, SnapshotAgrees
  <2>2. ~PidAlive => Gone
    BY <1>8 DEF PidAlive, PunctualInv, SnapshotAgrees
  <2>3. AllocatedIsTracked' /\ OneWorkerPerTask' /\ Registration'
    BY <1>8, <2>1
    DEF PunctualInv, AllocatedIsTracked, OneWorkerPerTask, Registration, Ages
  <2>4. HashOwned' /\ MemoryAgrees' /\ SnapshotAgrees'
    BY <1>8, <2>1, <2>2 DEF PunctualInv, HashOwned, MemoryAgrees, SnapshotAgrees
  <2>5. QED
    BY <2>3, <2>4 DEF PunctualInv
<1>9. CASE EndPass
  BY <1>9 DEF EndPass, PunctualInv, AllocatedIsTracked, OneWorkerPerTask,
              Registration, HashOwned, MemoryAgrees, SnapshotAgrees
<1>10. QED
  BY <1>1, <1>3, <1>4, <1>5, <1>6, <1>7, <1>8, <1>9 DEF CleanupStep

(* The steps that start a worker.  A task is in the queue only while it is *)
(* not tracked, so its hash does not exist and nobody works on it.         *)
LEMMA StartKeepsInv ==
  ASSUME TypeOK, PunctualInv, StartStep, UNCHANGED <<frontendVars, faultVars>>
  PROVE  PunctualInv'
<1> USE BackgroundWorkerAssumption
    DEF TypeOK, WorkerTypeOK, ManagerTypeOK, Live, Exists, Unregistered,
            redisVars, procVars, memory, HSet
<1>1. ASSUME NEW t \in Tasks, Allocate(t) PROVE PunctualInv'
  <2> USE DEF Allocate
  <2>1. hash[t] = {} /\ \A p \in Procs : job[p] # t
    BY <1>1 DEF PunctualInv, MemoryAgrees, AllocatedIsTracked, HashOwned,
                Registration
  <2>2. AllocatedIsTracked' /\ OneWorkerPerTask' /\ Registration'
    BY <1>1, <2>1
    DEF PunctualInv, AllocatedIsTracked, OneWorkerPerTask, Registration
  <2>3. HashOwned' /\ MemoryAgrees' /\ SnapshotAgrees'
    BY <1>1, <2>1 DEF PunctualInv, HashOwned, MemoryAgrees, SnapshotAgrees
  <2>4. QED
    BY <2>2, <2>3 DEF PunctualInv
<1>2. ASSUME NEW p \in Procs, Spawn(p) PROVE PunctualInv'
  <2> USE DEF Spawn
  <2>1. AllocatedIsTracked' /\ OneWorkerPerTask' /\ Registration'
    BY <1>2 DEF PunctualInv, AllocatedIsTracked, OneWorkerPerTask,
                Registration, MemoryAgrees
  <2>2. HashOwned' /\ MemoryAgrees' /\ SnapshotAgrees'
    BY <1>2 DEF PunctualInv, HashOwned, MemoryAgrees, SnapshotAgrees
  <2>3. QED
    BY <2>1, <2>2 DEF PunctualInv
<1>3. ASSUME NEW t \in Tasks, SkipTask(t) PROVE PunctualInv'
  BY <1>3 DEF SkipTask, PunctualInv, AllocatedIsTracked, OneWorkerPerTask,
              Registration, HashOwned, MemoryAgrees, SnapshotAgrees
<1>4. CASE AtCapacity \/ QueueEmpty \/ NextTurn \/ RunTimeout
  BY <1>4 DEF AtCapacity, QueueEmpty, NextTurn, RunTimeout, StartPass,
              PunctualInv, AllocatedIsTracked, OneWorkerPerTask,
              Registration, HashOwned, MemoryAgrees, SnapshotAgrees
<1>5. QED
  BY <1>1, <1>2, <1>3, <1>4 DEF StartStep

(* The dispatcher's own steps.  Only the refill of the queue is delicate:  *)
(* it leaves out the tracked tasks; a new dispatcher tracks every hash.    *)
LEMMA DispatcherKeepsInv ==
  ASSUME TypeOK, PunctualInv,
         \/ FetchTasks \/ FetchCancels \/ FlagCancel \/ ReportCancel
         \/ RunManager \/ FinishTask \/ DispatcherDies
         \/ \E t \in Tasks : CancelTask(t)
         \/ ManagerStarts /\ UNCHANGED <<frontendVars, faultVars>>
  PROVE  PunctualInv'
<1> USE BackgroundWorkerAssumption
    DEF TypeOK, WorkerTypeOK, ManagerTypeOK, Live, Exists, Unregistered,
        redisVars, procVars, memory, HSet
<1>1. CASE FlagCancel
  BY <1>1 DEF FlagCancel, PunctualInv, AllocatedIsTracked, OneWorkerPerTask,
              Registration, HashOwned, MemoryAgrees, SnapshotAgrees
<1>2. CASE \/ FetchTasks \/ FetchCancels \/ ReportCancel \/ RunManager
           \/ \E t \in Tasks : CancelTask(t)
  BY <1>2 DEF FetchTasks, Refill, FetchCancels, ReportCancel, RunManager,
              StartPass, CancelTask, PunctualInv, AllocatedIsTracked,
              OneWorkerPerTask, Registration, HashOwned, MemoryAgrees,
              SnapshotAgrees
<1>3. CASE FinishTask
  BY <1>3 DEF FinishTask, Ended, PunctualInv, AllocatedIsTracked,
              OneWorkerPerTask, Registration, HashOwned, MemoryAgrees,
              SnapshotAgrees
<1>4. CASE DispatcherDies
  BY <1>4 DEF DispatcherDies, ManagerDies, NoInfo, PunctualInv,
              AllocatedIsTracked, OneWorkerPerTask, Registration, HashOwned,
              MemoryAgrees, SnapshotAgrees
<1>5. CASE ManagerStarts /\ UNCHANGED <<frontendVars, faultVars>>
  BY <1>5 DEF ManagerStarts, WorkerIds, PunctualInv, AllocatedIsTracked,
              OneWorkerPerTask, Registration, HashOwned, MemoryAgrees,
              SnapshotAgrees
<1>6. QED
  BY <1>1, <1>2, <1>3, <1>4, <1>5

(* A worker's steps: it registers, works, leaves its result and is gone,   *)
(* or dies.  It never finds its hash without 'allocated'.                  *)
LEMMA WorkerKeepsInv ==
  ASSUME TypeOK, PunctualInv, NEW p \in Procs, WorkerStep(p) \/ Death(p)
  PROVE  PunctualInv'
<1> USE BackgroundWorkerAssumption
    DEF TypeOK, WorkerTypeOK, ManagerTypeOK, Live, Exists, Unregistered,
        redisVars, procVars, managerVars, memory, HSet, Goto, Exit
<1>1. Live(p) /\ job[p] \in Tasks /\ wpc[p] # "giveup"
  BY DEF WorkerStep, HandleTask, WmStarted, WmSetStarted, WmSetPid,
         WmCheckAllocated, WmGiveUp, SetStatus, Death, WorkerDies,
         PunctualInv, Registration
<1>2. CASE WmSetStarted(p) /\ UNCHANGED <<managerVars, frontendVars, faultVars>>
  BY <1>1, <1>2
  DEF WmSetStarted, PunctualInv, AllocatedIsTracked, OneWorkerPerTask,
      Registration, HashOwned, MemoryAgrees, SnapshotAgrees
<1>3. CASE WmSetPid(p) /\ UNCHANGED <<managerVars, frontendVars, faultVars>>
  BY <1>1, <1>3
  DEF WmSetPid, PunctualInv, AllocatedIsTracked, OneWorkerPerTask,
      Registration, HashOwned, MemoryAgrees, SnapshotAgrees
<1>4. CASE WmCheckAllocated(p)
           /\ UNCHANGED <<managerVars, frontendVars, faultVars>>
  BY <1>1, <1>4
  DEF WmCheckAllocated, PunctualInv, AllocatedIsTracked, OneWorkerPerTask,
      Registration, HashOwned, MemoryAgrees, SnapshotAgrees
<1>5. CASE HandleTask(p)
  BY <1>1, <1>5
  DEF HandleTask, PunctualInv, AllocatedIsTracked, OneWorkerPerTask,
      Registration, HashOwned, MemoryAgrees, SnapshotAgrees
<1>6. CASE SetStatus(p) /\ UNCHANGED <<managerVars, frontendVars, faultVars>>
  BY <1>1, <1>6
  DEF SetStatus, PunctualInv, AllocatedIsTracked, OneWorkerPerTask,
      Registration, HashOwned, MemoryAgrees, SnapshotAgrees
<1>7. CASE Death(p)
  BY <1>1, <1>7
  DEF Death, WorkerDies, PunctualInv, AllocatedIsTracked, OneWorkerPerTask,
      Registration, HashOwned, MemoryAgrees, SnapshotAgrees
<1>8. QED
  BY <1>1, <1>2, <1>3, <1>4, <1>5, <1>6, <1>7
  DEF WorkerStep, WmStarted, WmGiveUp

(* Time passes either of the manager's limits only for registered workers. *)
LEMMA RestKeepsInv ==
  ASSUME Punctual, TypeOK, PunctualInv, NEW t \in Tasks,
         Submit(t) \/ RequestCancel(t) \/ TimePasses(t)
  PROVE  PunctualInv'
<1> USE BackgroundWorkerAssumption
    DEF TypeOK, WorkerTypeOK, ManagerTypeOK, Live, Exists, Unregistered,
        redisVars, procVars, managerVars, memory, PunctualInv,
        AllocatedIsTracked, OneWorkerPerTask, Registration, HashOwned,
        MemoryAgrees, SnapshotAgrees
<1>1. CASE Submit(t) \/ RequestCancel(t)
  BY <1>1 DEF Submit, RequestCancel
<1>2. CASE TimePasses(t)
  BY <1>2 DEF TimePasses, Tick, WorkersOf
<1>3. QED
  BY <1>1, <1>2

(* PunctualInv is inductive relative to TypeOK. *)
LEMMA PunctualInvariant == Punctual => (Spec => []PunctualInv)
<1> SUFFICES ASSUME Punctual PROVE Spec => []PunctualInv
  OBVIOUS
<1>1. Init => PunctualInv
  BY BackgroundWorkerAssumption
  DEF Init, WorkerInit, ManagerInit, NoInfo, Live, Exists, PunctualInv,
      AllocatedIsTracked, OneWorkerPerTask, Registration, HashOwned,
      MemoryAgrees, SnapshotAgrees
<1>2. TypeOK /\ PunctualInv /\ [Next]_vars => PunctualInv'
  <2> SUFFICES ASSUME TypeOK, PunctualInv, [Next]_vars PROVE PunctualInv'
    OBVIOUS
  <2>1. CASE UNCHANGED vars
    BY <2>1
    DEF vars, redisVars, procVars, managerVars, frontendVars, PunctualInv,
        AllocatedIsTracked, OneWorkerPerTask, Registration, HashOwned,
        MemoryAgrees, SnapshotAgrees, Live, Exists, Unregistered
  <2>2. QED
    BY <2>1, CleanupKeepsInv, StartKeepsInv, DispatcherKeepsInv,
       WorkerKeepsInv, RestKeepsInv
    DEF Next, ManagerStep
<1>3. QED
  BY <1>1, <1>2, TypeCorrect, PTL DEF Spec

(* When workers register in time, no task ever has two processes, whatever *)
(* worker dies and however often the dispatcher is restarted.              *)
THEOREM OneWorker == Punctual => (Spec => []OneWorkerPerTask)
<1>1. PunctualInv => OneWorkerPerTask
  BY DEF PunctualInv
<1>2. QED
  BY <1>1, PunctualInvariant, PTL

-------------------------------------------------------------------------------
(* Slots. *)

TrackedAllocated == \A t \in tracked : "allocated" \in hash[t]

(* When workers register in time, no slot is held without a key in Redis,  *)
(* whoever dies: what _tracked_workers and Redis know of the workers never *)
(* comes apart, and the situation of SlotsReclaimed, in which no pass      *)
(* notices the worker, takes one that registered late.                     *)
THEOREM NoSlotLeaks == Punctual => (Spec => []TrackedAllocated)
<1> SUFFICES ASSUME Punctual PROVE Spec => []TrackedAllocated
  OBVIOUS
<1>1. Init => TrackedAllocated
  BY DEF Init, ManagerInit, TrackedAllocated
<1>2. TypeOK /\ PunctualInv /\ TrackedAllocated /\ [Next]_vars => TrackedAllocated'
  <2> SUFFICES ASSUME TypeOK, PunctualInv, TrackedAllocated, [Next]_vars
               PROVE  TrackedAllocated'
    OBVIOUS
  <2> USE DEF TrackedAllocated, TypeOK, WorkerTypeOK, ManagerTypeOK, Live,
              redisVars, procVars, managerVars, memory, HSet, Delete
  <2>1. CASE CleanupStep
    BY <2>1
    DEF CleanupStep, NextHash, DeleteWorker, DropOrphan, DropDead, DropUnstarted,
        DropFinished, CheckWorker, KeepWorker, EndPass, ReadHash
  <2>2. CASE StartStep
    BY <2>2
    DEF StartStep, AtCapacity, QueueEmpty, NextTurn, StartPass, RunTimeout, SkipTask,
        Allocate, Spawn
  <2>3. CASE ManagerStarts
    BY <2>3 DEF ManagerStarts, WorkerIds, PunctualInv, HashOwned
  <2>4. CASE \/ FlagCancel \/ FetchTasks \/ FetchCancels \/ ReportCancel \/ RunManager
             \/ FinishTask \/ DispatcherDies \/ \E t \in Tasks : CancelTask(t)
    BY <2>4 DEF FlagCancel, FetchTasks, FetchCancels, ReportCancel, RunManager, StartPass,
                FinishTask, DispatcherDies, ManagerDies, CancelTask
  <2>5. ASSUME NEW p \in Procs, WorkerStep(p) \/ Death(p) PROVE TrackedAllocated'
    <3>1. ~WmGiveUp(p)
      BY DEF WmGiveUp, PunctualInv, Registration
    <3> QED
      BY <2>5, <3>1 DEF WorkerStep, HandleTask, WmStarted, WmSetStarted, WmSetPid,
                        WmCheckAllocated, SetStatus, Exit, Goto, Death, WorkerDies
  <2>6. ASSUME NEW t \in Tasks, Submit(t) \/ RequestCancel(t) \/ TimePasses(t)
        PROVE  TrackedAllocated'
    BY <2>6 DEF Submit, RequestCancel, TimePasses, Tick
  <2>7. CASE UNCHANGED vars
    BY <2>7 DEF vars
  <2> QED
    BY <2>1, <2>2, <2>3, <2>4, <2>5, <2>6, <2>7 DEF Next, ManagerStep
<1> QED
  BY <1>1, <1>2, TypeCorrect, PunctualInvariant, PTL DEF Spec

(* "Go through all the tracked workers" (_cleanup_workers): the pass goes  *)
(* through the keys in Redis, which comes to the same when workers         *)
(* register in time.                                                       *)
THEOREM PassSeesTracked == Punctual => (Spec => [][StartPass => tracked' \subseteq todo']_vars)
<1> SUFFICES ASSUME Punctual PROVE Spec => [][StartPass => tracked' \subseteq todo']_vars
  OBVIOUS
<1>1. TypeOK /\ TrackedAllocated /\ [Next]_vars => [StartPass => tracked' \subseteq todo']_vars
  <2> SUFFICES ASSUME TypeOK, TrackedAllocated, Next, StartPass PROVE tracked' \subseteq todo'
    OBVIOUS
  <2>1. tracked \subseteq todo'
    BY DEF StartPass, WorkerIds, Exists, TrackedAllocated, TypeOK, ManagerTypeOK
  <2>2. tracked' \subseteq tracked
    BY DEF StartPass, Next, ManagerStep, redisVars, procVars, managerVars, memory, CleanupStep,
           NextHash, DeleteWorker, DropOrphan, DropDead, DropUnstarted, DropFinished,
           CheckWorker, KeepWorker, EndPass, ReadHash, StartStep, AtCapacity, QueueEmpty,
           NextTurn, RunTimeout, SkipTask, Allocate, Spawn, ManagerStarts, FlagCancel,
           FetchTasks, FetchCancels, ReportCancel, RunManager, FinishTask, DispatcherDies,
           ManagerDies, CancelTask, WorkerStep, HandleTask, WmStarted, WmSetStarted, WmSetPid,
           WmCheckAllocated, WmGiveUp, SetStatus, Exit, Goto, Death, WorkerDies, Submit,
           RequestCancel, TimePasses, Tick
  <2> QED
    BY <2>1, <2>2
<1> QED
  BY <1>1, TypeCorrect, NoSlotLeaks, PTL DEF Spec

-------------------------------------------------------------------------------
(* What the dispatcher promises beyond that, when workers register in time.*)

(* The queue holds only tasks the frontend waits for, and a worker is      *)
(* started only for such a task.                                           *)
QueuePending ==
  /\ \A t \in queue : fstate[t] = "pending"
  /\ mpc \in {"flag", "report"} => cur \notin queue
  /\ mpc = "spawn" => fstate[cur] = "pending"

(* Nobody in the backend knows a task that was not submitted yet.          *)
NewUntouched ==
  \A t \in Tasks : fstate[t] = "new" => hash[t] = {} /\ t \notin cancels

(* The worker of a task is told before the frontend is.                    *)
CancelTold ==
  /\ CancelReachesWorker
  /\ mpc = "report" => \A p \in Procs : job[p] = cur => "cancel_request" \in hash[cur]

(* The limits count every worker of a listed task while there is something *)
(* in the queue that they may hold back.                                   *)
Allocated == {t \in Tasks : "allocated" \in hash[t]}
Served    == {t \in Listed : "allocated" \in hash[t]}

Counting == queue # {} => Served \subseteq counted

(* What is kept in memory is finite, and within the limits.                *)
Sizes ==
  /\ IsFiniteSet(tracked) /\ IsFiniteSet(counted) /\ IsFiniteSet(Allocated)
  /\ Cardinality(Allocated) <= MaxWorkers
  /\ \A t \in Tasks : Cardinality(InGroup(Served, Group[t])) <= GroupLimit

PromiseInv == QueuePending /\ NewUntouched /\ CancelTold /\ Counting /\ Sizes

LEMMA InitPromise == Init => PromiseInv
<1> SUFFICES ASSUME Init PROVE PromiseInv
  OBVIOUS
<1>1. QueuePending /\ NewUntouched /\ CancelTold /\ Counting
  BY BackgroundWorkerAssumption
  DEF Init, WorkerInit, ManagerInit, QueuePending, NewUntouched, CancelTold,
      CancelReachesWorker, Counting, Served, Live
<1>2. Allocated = {} /\ Served = {} /\ tracked = {} /\ counted = {}
  BY DEF Init, WorkerInit, ManagerInit, Allocated, Served, Listed
<1>3. \A g : InGroup(Served, g) = {}
  BY <1>2 DEF InGroup
<1> QED
  BY <1>1, <1>2, <1>3, FS_EmptySet, WorkerManagerAssumption DEF PromiseInv, Sizes

(* Only _start_worker allocates a worker.                                  *)
LEMMA OnlyAllocateAdds ==
  ASSUME TypeOK, NewUntouched, [Next]_vars,
         ~\E t \in Tasks : Allocate(t) /\ UNCHANGED <<frontendVars, faultVars>>
  PROVE  Allocated' \subseteq Allocated /\ Served' \subseteq Served
<1> USE DEF TypeOK, WorkerTypeOK, ManagerTypeOK, Live, Allocated, Served, Listed,
            redisVars, procVars, managerVars, memory, frontendVars, HSet, Delete
<1>1. CASE CleanupStep /\ UNCHANGED <<frontendVars, faultVars>>
  BY <1>1 DEF CleanupStep, ReadHash, DropOrphan, DropDead, DropUnstarted, DropFinished,
              DeleteWorker, NextHash, KeepWorker, CheckWorker, EndPass
<1>2. CASE StartStep /\ UNCHANGED <<frontendVars, faultVars>>
  BY <1>2 DEF StartStep, AtCapacity, QueueEmpty, NextTurn, RunTimeout, SkipTask, Spawn
<1>3. CASE ManagerStarts /\ UNCHANGED <<frontendVars, faultVars>>
  BY <1>3 DEF ManagerStarts
<1>4. CASE \/ FetchTasks \/ FetchCancels \/ FlagCancel \/ RunManager \/ DispatcherDies
           \/ \E t \in Tasks : CancelTask(t)
  BY <1>4 DEF FetchTasks, FetchCancels, FlagCancel, RunManager, DispatcherDies,
              ManagerDies, CancelTask
<1>5. CASE ReportCancel
  BY <1>5 DEF ReportCancel
<1>6. CASE FinishTask
  BY <1>6 DEF FinishTask, Accept
<1>7. ASSUME NEW p \in Procs, WorkerStep(p) \/ Death(p)
      PROVE  Allocated' \subseteq Allocated /\ Served' \subseteq Served
  BY <1>7 DEF WorkerStep, HandleTask, Accept, WmStarted, WmSetStarted, WmSetPid,
              WmCheckAllocated, WmGiveUp, SetStatus, Exit, Goto, Death, WorkerDies
<1>8. ASSUME NEW t \in Tasks, Submit(t) \/ RequestCancel(t) \/ TimePasses(t)
      PROVE  Allocated' \subseteq Allocated /\ Served' \subseteq Served
  BY <1>8 DEF Submit, RequestCancel, TimePasses, Tick, NewUntouched
<1>9. CASE UNCHANGED vars
  BY <1>9 DEF vars
<1> QED
  BY <1>1, <1>2, <1>3, <1>4, <1>5, <1>6, <1>7, <1>8, <1>9 DEF Next, ManagerStep, StartStep

(* Counting, and the pending queue, in every step but an allocation.       *)
LEMMA MemoryKeeps ==
  ASSUME TypeOK, PunctualInv, PromiseInv, [Next]_vars,
         ~\E t \in Tasks : Allocate(t) /\ UNCHANGED <<frontendVars, faultVars>>
  PROVE  /\ Counting'
         /\ IsFiniteSet(tracked') /\ IsFiniteSet(counted')
<1> USE DEF TypeOK, WorkerTypeOK, ManagerTypeOK, redisVars, procVars, managerVars, memory
<1>1. Served' \subseteq Served
  BY OnlyAllocateAdds DEF PromiseInv
<1>2. IsFiniteSet(tracked) /\ IsFiniteSet(counted) /\ IsFiniteSet(Allocated) /\ Counting
  BY DEF PromiseInv, Sizes
<1>3. ASSUME tracked' \subseteq tracked, counted' = counted, queue' \subseteq queue
      PROVE  Counting' /\ IsFiniteSet(tracked') /\ IsFiniteSet(counted')
  BY <1>1, <1>2, <1>3, FS_Subset DEF Counting
<1>4. CASE CleanupStep /\ UNCHANGED <<frontendVars, faultVars>>
  BY <1>3, <1>4 DEF CleanupStep, ReadHash, DropOrphan, DropDead, DropUnstarted, DropFinished,
              DeleteWorker, NextHash, KeepWorker, CheckWorker, EndPass
<1>5. CASE StartStep /\ UNCHANGED <<frontendVars, faultVars>>
  BY <1>3, <1>5 DEF StartStep, AtCapacity, QueueEmpty, NextTurn, RunTimeout, SkipTask, Spawn
<1>6. CASE ManagerStarts /\ UNCHANGED <<frontendVars, faultVars>>
  <2>1. tracked' = Allocated /\ queue' = {} /\ counted' = counted
    BY <1>6 DEF ManagerStarts, WorkerIds, Exists, Allocated, PunctualInv, HashOwned,
                MemoryAgrees
  <2> QED
    BY <1>2, <2>1 DEF Counting
<1>7. CASE FetchTasks
  <2>1. CASE UNCHANGED <<queue, counted>>
    BY <1>3, <1>7, <2>1 DEF FetchTasks
  <2>2. CASE Refill(Listed)
    <3>1. Served \subseteq Listed \cap tracked
      BY <1>7 DEF FetchTasks, Served, Listed, PunctualInv, AllocatedIsTracked
    <3>2. counted' = Listed \cap tracked /\ tracked' = tracked
      BY <1>7, <2>2 DEF FetchTasks, Refill
    <3> QED
      BY <1>1, <1>2, <3>1, <3>2, FS_Subset DEF Counting
  <2> QED
    BY <1>7, <2>1, <2>2 DEF FetchTasks
<1>8. CASE \/ FetchCancels \/ FlagCancel \/ ReportCancel \/ RunManager \/ FinishTask
           \/ \E t \in Tasks : CancelTask(t)
  BY <1>3, <1>8 DEF FetchCancels, FlagCancel, ReportCancel, RunManager, FinishTask, CancelTask
<1>9. CASE DispatcherDies
  BY <1>9, FS_EmptySet DEF DispatcherDies, ManagerDies, Counting
<1>10. ASSUME NEW p \in Procs, WorkerStep(p) \/ Death(p)
       PROVE  Counting' /\ IsFiniteSet(tracked') /\ IsFiniteSet(counted')
  <2>1. UNCHANGED <<tracked, counted, queue>>
    BY <1>10 DEF WorkerStep, HandleTask, WmStarted, SetStatus, Death, WorkerDies
  <2> QED
    BY <1>3, <2>1
<1>11. ASSUME NEW t \in Tasks, Submit(t) \/ RequestCancel(t) \/ TimePasses(t)
       PROVE  Counting' /\ IsFiniteSet(tracked') /\ IsFiniteSet(counted')
  <2>1. UNCHANGED <<tracked, counted, queue>>
    BY <1>11 DEF Submit, RequestCancel, TimePasses, Tick
  <2> QED
    BY <1>3, <2>1
<1>12. CASE UNCHANGED vars
  BY <1>3, <1>12 DEF vars
<1> QED
  BY <1>4, <1>5, <1>6, <1>7, <1>8, <1>9, <1>10, <1>11, <1>12 DEF Next, ManagerStep, StartStep

LEMMA SizesKept ==
  ASSUME TypeOK, PunctualInv, PromiseInv, [Next]_vars,
         ~\E t \in Tasks : Allocate(t) /\ UNCHANGED <<frontendVars, faultVars>>
  PROVE  Sizes'
<1>1. Allocated' \subseteq Allocated /\ Served' \subseteq Served
  BY OnlyAllocateAdds DEF PromiseInv
<1>2. IsFiniteSet(tracked') /\ IsFiniteSet(counted')
  BY MemoryKeeps
<1>3. IsFiniteSet(Allocated') /\ Cardinality(Allocated') <= MaxWorkers
  <2>1. /\ IsFiniteSet(Allocated') /\ Cardinality(Allocated') <= Cardinality(Allocated)
        /\ Cardinality(Allocated') \in Nat /\ Cardinality(Allocated) \in Nat
    BY <1>1, FS_Subset, FS_CardinalityType DEF PromiseInv, Sizes
  <2> QED
    BY <2>1, WorkerManagerAssumption DEF PromiseInv, Sizes
<1>4. ASSUME NEW t \in Tasks PROVE Cardinality(InGroup(Served', Group[t])) <= GroupLimit
  <2>1. /\ InGroup(Served', Group[t]) \subseteq InGroup(Served, Group[t])
        /\ InGroup(Served, Group[t]) \subseteq Allocated
    BY <1>1 DEF InGroup, Served, Listed, Allocated
  <2>2. IsFiniteSet(InGroup(Served, Group[t]))
    BY <2>1, FS_Subset DEF PromiseInv, Sizes
  <2>3. /\ Cardinality(InGroup(Served', Group[t])) <= Cardinality(InGroup(Served, Group[t]))
        /\ Cardinality(InGroup(Served', Group[t])) \in Nat
        /\ Cardinality(InGroup(Served, Group[t])) \in Nat
    BY <2>1, <2>2, FS_Subset, FS_CardinalityType
  <2> QED
    BY <2>3, WorkerManagerAssumption DEF PromiseInv, Sizes
<1> QED
  BY <1>2, <1>3, <1>4 DEF Sizes, InGroup

(* An allocation keeps within both limits, as everything they are to count *)
(* is counted.                                                             *)
LEMMA AllocateKeepsSizes ==
  ASSUME TypeOK, PunctualInv, PromiseInv, NEW t \in Tasks, Allocate(t),
         UNCHANGED <<frontendVars, faultVars>>
  PROVE  Counting' /\ Sizes'
<1> USE DEF TypeOK, WorkerTypeOK, ManagerTypeOK
<1>1. /\ Allocated' = Allocated \cup {t} /\ Served' \subseteq Served \cup {t}
      /\ tracked' = tracked \cup {t} /\ counted' = counted \cup {t}
      /\ Allocated \subseteq tracked /\ t \in queue /\ Served \subseteq counted
      /\ Cardinality(tracked) < MaxWorkers
      /\ Cardinality(InGroup(counted, Group[t])) < GroupLimit
  BY DEF Allocate, HSet, Allocated, Served, Listed, frontendVars, PunctualInv,
         AllocatedIsTracked, PromiseInv, Counting, LimitCheck
<1>2. IsFiniteSet(tracked) /\ IsFiniteSet(counted) /\ IsFiniteSet(Allocated)
  BY DEF PromiseInv, Sizes
<1>3. IsFiniteSet(tracked') /\ IsFiniteSet(counted') /\ IsFiniteSet(Allocated')
  BY <1>1, <1>2, FS_AddElement
<1>4. Cardinality(Allocated') <= MaxWorkers
  <2>1. /\ Cardinality(Allocated) <= Cardinality(tracked)
        /\ Cardinality(Allocated) \in Nat /\ Cardinality(tracked) \in Nat
    BY <1>1, <1>2, FS_Subset, FS_CardinalityType
  <2>2. Cardinality(Allocated \cup {t}) =
          IF t \in Allocated THEN Cardinality(Allocated) ELSE Cardinality(Allocated) + 1
    BY <1>2, FS_AddElement
  <2> QED
    BY <1>1, <2>1, <2>2, WorkerManagerAssumption
<1>5. ASSUME NEW u \in Tasks PROVE Cardinality(InGroup(Served', Group[u])) <= GroupLimit
  <2> DEFINE old == InGroup(Served, Group[u])
             new == InGroup(Served', Group[u])
  <2>1. /\ IsFiniteSet(old) /\ Cardinality(old) \in Nat /\ Cardinality(old) <= GroupLimit
    <3>1. old \subseteq Allocated
      BY DEF InGroup, Served, Listed, Allocated
    <3>2. IsFiniteSet(old)
      BY <1>2, <3>1, FS_Subset
    <3> QED
      BY <3>2, FS_CardinalityType DEF PromiseInv, Sizes
  <2>2. CASE Group[u] # Group[t]
    <3>1. new \subseteq old
      BY <1>1, <2>2 DEF InGroup
    <3>2. Cardinality(new) <= Cardinality(old) /\ Cardinality(new) \in Nat
      BY <2>1, <3>1, FS_Subset, FS_CardinalityType
    <3> QED
      BY <2>1, <3>2, WorkerManagerAssumption
  <2>3. CASE Group[u] = Group[t]
    <3>1. /\ old \subseteq InGroup(counted, Group[t])
          /\ new \subseteq old \cup {t}
          /\ InGroup(counted, Group[t]) \subseteq counted
      BY <1>1, <2>3 DEF InGroup
    <3>2. Cardinality(old) < GroupLimit
      <4>1. IsFiniteSet(InGroup(counted, Group[t]))
        BY <1>2, <3>1, FS_Subset
      <4>2. /\ Cardinality(old) <= Cardinality(InGroup(counted, Group[t]))
            /\ Cardinality(InGroup(counted, Group[t])) \in Nat
        BY <3>1, <4>1, FS_Subset, FS_CardinalityType
      <4> QED
        BY <1>1, <2>1, <4>2, WorkerManagerAssumption
    <3>3. /\ IsFiniteSet(old \cup {t}) /\ Cardinality(old \cup {t}) <= Cardinality(old) + 1
          /\ Cardinality(old \cup {t}) \in Nat
      <4> HIDE DEF old
      <4>1. /\ IsFiniteSet(old \cup {t})
            /\ Cardinality(old \cup {t}) =
                 IF t \in old THEN Cardinality(old) ELSE Cardinality(old) + 1
        BY <2>1, FS_AddElement
      <4> QED
        BY <2>1, <4>1
    <3>4. Cardinality(new) <= Cardinality(old \cup {t}) /\ Cardinality(new) \in Nat
      BY <3>1, <3>3, FS_Subset, FS_CardinalityType
    <3> QED
      BY <2>1, <3>2, <3>3, <3>4, WorkerManagerAssumption
  <2> QED
    BY <2>2, <2>3
<1>6. Counting'
  BY <1>1 DEF Counting
<1> QED
  BY <1>3, <1>4, <1>5, <1>6 DEF Sizes, InGroup

(* What the frontend knows of a task agrees with what is in the backend's  *)
(* hands.                                                                  *)
LEMMA AgreementKept ==
  ASSUME TypeOK, PunctualInv, PromiseInv, [Next]_vars
  PROVE  QueuePending' /\ NewUntouched' /\ CancelTold'
<1> USE BackgroundWorkerAssumption
    DEF TypeOK, WorkerTypeOK, ManagerTypeOK, Live, redisVars, procVars, managerVars,
        memory, frontendVars, HSet, PromiseInv, QueuePending, NewUntouched, CancelTold,
        CancelReachesWorker
<1>1. CASE CleanupStep /\ UNCHANGED <<frontendVars, faultVars>>
  <2>1. ASSUME DeleteWorker, \A p \in Procs : job[p] # cur, mpc \in {"decide", "drop"}
        PROVE  QueuePending' /\ NewUntouched' /\ CancelTold'
    BY <1>1, <2>1 DEF DeleteWorker, Delete, NextHash
  <2>2. CASE DropOrphan \/ DropDead \/ DropUnstarted \/ DropFinished
    <3>1. \A p \in Procs : job[p] # cur
      BY <2>2 DEF DropOrphan, DropDead, DropUnstarted, DropFinished, Doomed, Waiting,
                  PunctualInv, SnapshotAgrees, Registration, HashOwned, Unregistered
    <3> QED
      BY <2>1, <2>2, <3>1 DEF DropOrphan, DropDead, DropUnstarted, DropFinished
  <2>3. CASE KeepWorker \/ EndPass \/ \E t \in Tasks : ReadHash(t)
    BY <1>1, <2>3 DEF KeepWorker, NextHash, EndPass, ReadHash
  <2>4. CASE CheckWorker
    <3>1. "allocated" \in hash[cur] /\ cur \in Tasks
      BY <2>4 DEF CheckWorker, Working, PunctualInv, SnapshotAgrees
    <3> QED
      BY <1>1, <2>4, <3>1 DEF CheckWorker, NextHash
  <2> QED
    BY <1>1, <2>2, <2>3, <2>4 DEF CleanupStep
<1>2. CASE StartStep /\ UNCHANGED <<frontendVars, faultVars>>
  <2>1. ASSUME NEW t \in Tasks, Allocate(t)
        PROVE  QueuePending' /\ NewUntouched' /\ CancelTold'
    BY <1>2, <2>1 DEF Allocate
  <2>2. ASSUME NEW p \in Procs, Spawn(p)
        PROVE  QueuePending' /\ NewUntouched' /\ CancelTold'
    BY <1>2, <2>2 DEF Spawn
  <2>3. CASE AtCapacity \/ QueueEmpty \/ NextTurn \/ RunTimeout \/ \E t \in Tasks : SkipTask(t)
    BY <1>2, <2>3 DEF AtCapacity, QueueEmpty, NextTurn, StartPass, RunTimeout, SkipTask
  <2> QED
    BY <1>2, <2>1, <2>2, <2>3 DEF StartStep
<1>3. CASE ManagerStarts /\ UNCHANGED <<frontendVars, faultVars>>
  BY <1>3 DEF ManagerStarts
<1>4. CASE FetchTasks \/ FetchCancels
  BY <1>4 DEF FetchTasks, FetchCancels, Refill, Listed
<1>5. ASSUME NEW t \in Tasks, CancelTask(t)
      PROVE  QueuePending' /\ NewUntouched' /\ CancelTold'
  BY <1>5 DEF CancelTask, Exists, PunctualInv, Registration
<1>6. CASE FlagCancel
  BY <1>6 DEF FlagCancel, Exists, PunctualInv, MemoryAgrees
<1>7. CASE ReportCancel
  BY <1>7 DEF ReportCancel
<1>8. CASE RunManager
  BY <1>8 DEF RunManager, StartPass
<1>9. CASE FinishTask
  BY <1>9 DEF FinishTask, Accept, Ended, PunctualInv, SnapshotAgrees, MemoryAgrees,
              HashOwned, AllocatedIsTracked
<1>10. CASE DispatcherDies
  BY <1>10 DEF DispatcherDies, ManagerDies
<1>11. ASSUME NEW p \in Procs, WorkerStep(p) \/ Death(p)
       PROVE  QueuePending' /\ NewUntouched' /\ CancelTold'
  <2>1. /\ Live(p) /\ job[p] \in Tasks /\ wpc[p] # "giveup"
        /\ "allocated" \in hash[job[p]] /\ job[p] \notin queue
        /\ fstate[job[p]] # "new"
        /\ mpc = "spawn" => job[p] # cur
    <3>1. Live(p) /\ job[p] \in Tasks
      BY <1>11 DEF WorkerStep, HandleTask, WmStarted, WmSetStarted, WmSetPid,
                  WmCheckAllocated, WmGiveUp, SetStatus, Death, WorkerDies
    <3> QED
      BY <3>1 DEF PunctualInv, Registration, AllocatedIsTracked, MemoryAgrees
  <2>2. CASE HandleTask(p)
    BY <2>1, <2>2 DEF HandleTask, Goto, Accept
  <2>3. CASE WmStarted(p) /\ UNCHANGED <<managerVars, frontendVars, faultVars>>
    BY <2>1, <2>3 DEF WmStarted, WmSetStarted, WmSetPid, WmCheckAllocated, WmGiveUp, Goto
  <2>4. CASE SetStatus(p) /\ UNCHANGED <<managerVars, frontendVars, faultVars>>
    BY <2>1, <2>4 DEF SetStatus, Goto, Exit
  <2>5. CASE Death(p)
    BY <2>1, <2>5 DEF Death, WorkerDies, Goto, Exit
  <2> QED
    BY <1>11, <2>2, <2>3, <2>4, <2>5 DEF WorkerStep
<1>12. ASSUME NEW t \in Tasks, Submit(t) \/ RequestCancel(t) \/ TimePasses(t)
       PROVE  QueuePending' /\ NewUntouched' /\ CancelTold'
  <2>1. CASE Submit(t)
    <3>1. \A p \in Procs : Live(p) => job[p] # t
      BY <2>1 DEF Submit, PunctualInv, Registration
    <3> QED
      BY <2>1, <3>1 DEF Submit
  <2>2. CASE RequestCancel(t)
    BY <2>2 DEF RequestCancel, Listed
  <2>3. CASE TimePasses(t)
    BY <2>3 DEF TimePasses, Tick
  <2> QED
    BY <1>12, <2>1, <2>2, <2>3
<1>13. CASE UNCHANGED vars
  BY <1>13 DEF vars
<1> QED
  BY <1>1, <1>2, <1>3, <1>4, <1>5, <1>6, <1>7, <1>8, <1>9, <1>10, <1>11, <1>12, <1>13
  DEF Next, ManagerStep

LEMMA PromiseInvariant == Punctual => (Spec => []PromiseInv)
<1> SUFFICES ASSUME Punctual PROVE Spec => []PromiseInv
  OBVIOUS
<1>1. TypeOK /\ PunctualInv /\ PromiseInv /\ [Next]_vars => PromiseInv'
  <2> SUFFICES ASSUME TypeOK, PunctualInv, PromiseInv, [Next]_vars PROVE PromiseInv'
    OBVIOUS
  <2>1. Counting' /\ Sizes'
    BY MemoryKeeps, SizesKept, AllocateKeepsSizes
  <2> QED
    BY <2>1, AgreementKept DEF PromiseInv
<1> QED
  BY <1>1, InitPromise, TypeCorrect, PunctualInvariant, PTL DEF Spec

(* max_workers bounds the processes, whatever dies: each live worker has   *)
(* its own task's hash, and a hash is allocated only below the capacity,   *)
(* which counts the adopted ones.                                          *)
THEOREM Capacity == Punctual => (Spec => []ProcessCap)
<1> SUFFICES ASSUME Punctual PROVE Spec => []ProcessCap
  OBVIOUS
<1>1. TypeOK /\ PunctualInv /\ PromiseInv => ProcessCap
  <2> SUFFICES ASSUME TypeOK, PunctualInv, PromiseInv PROVE ProcessCap
    OBVIOUS
  <2> DEFINE P == {p \in Procs : Live(p)}
             f == [p \in P |-> job[p]]
  <2>1. f \in Injection(P, Allocated)
    <3>1. \A p \in P : job[p] \in Allocated
      BY BackgroundWorkerAssumption
      DEF TypeOK, WorkerTypeOK, Allocated, PunctualInv, Registration
    <3>2. \A p, q \in P : job[p] = job[q] => p = q
      BY DEF PunctualInv, OneWorkerPerTask
    <3>3. f \in [P -> Allocated] /\ \A p, q \in P : f[p] = f[q] => p = q
      BY <3>1, <3>2
    <3> QED
      BY <3>3 DEF Injection, IsInjective
  <2>2. IsFiniteSet(P) /\ Cardinality(P) <= Cardinality(Allocated)
    BY <2>1, FS_Injection DEF PromiseInv, Sizes
  <2>3. Cardinality(P) \in Nat /\ Cardinality(Allocated) \in Nat
    BY <2>2, FS_CardinalityType DEF PromiseInv, Sizes
  <2> QED
    BY <2>2, <2>3, WorkerManagerAssumption DEF PromiseInv, Sizes, ProcessCap
<1> QED
  BY <1>1, TypeCorrect, PunctualInvariant, PromiseInvariant, PTL

(* A limit holds for the listed tasks at any time, although it is counted  *)
(* anew from each fetch, and a new dispatcher starts without counts.       *)
THEOREM Limits == Punctual => (Spec => []LimitRespected)
<1> SUFFICES ASSUME Punctual PROVE Spec => []LimitRespected
  OBVIOUS
<1>1. TypeOK /\ PunctualInv /\ PromiseInv => LimitRespected
  <2> SUFFICES ASSUME TypeOK, PunctualInv, PromiseInv, NEW t \in Tasks
               PROVE  Cardinality({u \in InGroup(Listed, Group[t]) : WorkersOf(u) # {}})
                        <= GroupLimit
    BY DEF LimitRespected
  <2> DEFINE W == {u \in InGroup(Listed, Group[t]) : WorkersOf(u) # {}}
             G == InGroup(Served, Group[t])
  <2>1. W \subseteq G /\ G \subseteq Allocated
    BY DEF InGroup, Served, Listed, Allocated, WorkersOf, PunctualInv, Registration
  <2>2. IsFiniteSet(G)
    BY <2>1, FS_Subset DEF PromiseInv, Sizes
  <2>3. /\ Cardinality(W) <= Cardinality(G) /\ Cardinality(G) <= GroupLimit
        /\ Cardinality(W) \in Nat /\ Cardinality(G) \in Nat
    BY <2>1, <2>2, FS_Subset, FS_CardinalityType DEF PromiseInv, Sizes
  <2> QED
    BY <2>3, WorkerManagerAssumption
<1> QED
  BY <1>1, TypeCorrect, PunctualInvariant, PromiseInvariant, PTL

(* Once the frontend shows a task as canceled, its worker has been asked   *)
(* to stop: the flag is set before the cancellation is confirmed, and no   *)
(* worker is started for the task any more.                                *)
THEOREM CancelReaches == Punctual => (Spec => []CancelReachesWorker)
<1>1. PromiseInv => CancelReachesWorker
  BY DEF PromiseInv, CancelTold
<1> QED
  BY <1>1, PromiseInvariant, PTL

(* A worker is started only for a task the frontend waits for, although    *)
(* the queue outlives a failed fetch.                                      *)
THEOREM NoneForSettled == Punctual => (Spec => NoWorkerForSettled)
<1> SUFFICES ASSUME Punctual PROVE Spec => NoWorkerForSettled
  OBVIOUS
<1> DEFINE A == \A p \in Procs :
                  wpc[p] = "free" /\ wpc'[p] = "spawned" => fstate[job'[p]] = "pending"
<1>1. TypeOK /\ PromiseInv /\ [Next]_vars => [A]_vars
  <2> SUFFICES ASSUME TypeOK, PromiseInv, Next, NEW p \in Procs,
                      wpc[p] = "free", wpc'[p] = "spawned"
               PROVE  fstate[job'[p]] = "pending"
    OBVIOUS
  <2> USE DEF TypeOK, WorkerTypeOK, ManagerTypeOK
  <2>1. CASE \E q \in Procs : Spawn(q)
    BY <2>1 DEF Spawn, PromiseInv, QueuePending
  <2>2. CASE \E q \in Procs : WorkerStep(q) \/ Death(q)
    BY <2>2 DEF WorkerStep, HandleTask, WmStarted, WmSetStarted, WmSetPid,
                WmCheckAllocated, WmGiveUp, SetStatus, Exit, Goto, Death, WorkerDies
  <2>3. CASE wpc' = wpc
    BY <2>3
  <2>4. \/ wpc' = wpc \/ \E q \in Procs : Spawn(q)
        \/ \E q \in Procs : WorkerStep(q) \/ Death(q)
    <3>1. CASE CleanupStep
      BY <3>1 DEF CleanupStep, ReadHash, DropOrphan, DropDead, DropUnstarted, DropFinished,
                  DeleteWorker, KeepWorker, CheckWorker, EndPass, procVars
    <3>2. CASE StartStep \/ ManagerStarts
      BY <3>2 DEF StartStep, AtCapacity, QueueEmpty, NextTurn, RunTimeout, SkipTask,
                  Allocate, ManagerStarts, procVars
    <3>3. CASE \/ FetchTasks \/ FetchCancels \/ FlagCancel \/ ReportCancel \/ RunManager
               \/ FinishTask \/ DispatcherDies \/ \E t \in Tasks : CancelTask(t)
      BY <3>3 DEF FetchTasks, FetchCancels, FlagCancel, ReportCancel, RunManager,
                  FinishTask, DispatcherDies, ManagerDies, CancelTask, procVars
    <3>4. CASE \E t \in Tasks : Submit(t) \/ RequestCancel(t) \/ TimePasses(t)
      BY <3>4 DEF Submit, RequestCancel, TimePasses, Tick, procVars
    <3> QED
      BY <3>1, <3>2, <3>3, <3>4 DEF Next, ManagerStep
  <2> QED
    BY <2>1, <2>2, <2>3, <2>4
<1>2. NoWorkerForSettled <=> [][A]_vars
  BY DEF NoWorkerForSettled
<1> QED
  BY <1>1, <1>2, TypeCorrect, PromiseInvariant, PTL DEF Spec

-------------------------------------------------------------------------------
(* The refinement of TaskPool.                                             *)

(* Nobody forgets a result: with workers that report, it is known to the   *)
(* frontend before it is in the hash, and otherwise before the hash goes.  *)
(* A hash that is about to be dropped for another reason got none since it *)
(* was read.                                                               *)
ResultKept ==
  /\ Reporter = "worker" =>
       /\ \A p \in Procs : wpc[p] = "status" => Settled(job[p])
       /\ \A t \in Tasks : "status" \in hash[t] => Settled(t)
  /\ mpc = "drop" => Settled(cur)
  /\ /\ mpc = "decide" /\ "status" \notin info.flags
     /\ "delete" \in info.flags \/ (info.age > 0 /\ "started" \notin info.flags)
     => "status" \notin hash[cur]

Posted == Reporter = "worker" \/ MaxOutages = 0

LEMMA ResultInvariant == Punctual /\ Posted => (Spec => []ResultKept)
<1> SUFFICES ASSUME Punctual, Posted PROVE Spec => []ResultKept
  OBVIOUS
<1> USE BackgroundWorkerAssumption, DispatcherAssumption
<1>1. Init => ResultKept
  BY DEF Init, WorkerInit, ManagerInit, ResultKept
<1>2. TypeOK /\ PunctualInv /\ PromiseInv /\ ResultKept /\ [Next]_vars => ResultKept'
  <2> SUFFICES ASSUME TypeOK, PunctualInv, PromiseInv, ResultKept, [Next]_vars
               PROVE  ResultKept'
    OBVIOUS
  <2> USE DEF TypeOK, WorkerTypeOK, ManagerTypeOK, Live, redisVars, procVars, managerVars,
              memory, frontendVars, faultVars, HSet, Delete, ResultKept, Settled
  <2>1. CASE CleanupStep /\ UNCHANGED <<frontendVars, faultVars>>
    <3>1. ASSUME NEW t \in Tasks, ReadHash(t) PROVE ResultKept'
      BY <2>1, <3>1 DEF ReadHash
    <3>2. CASE DropOrphan \/ DropDead \/ DropUnstarted \/ DropFinished
      BY <2>1, <3>2 DEF DropOrphan, DropDead, DropUnstarted, DropFinished, DeleteWorker,
                        NextHash
    <3>3. CASE KeepWorker \/ EndPass
      BY <2>1, <3>3 DEF KeepWorker, EndPass, NextHash
    <3>4. CASE CheckWorker
      BY <2>1, <3>4 DEF CheckWorker, NextHash
    <3> QED
      BY <2>1, <3>1, <3>2, <3>3, <3>4 DEF CleanupStep
  <2>2. CASE StartStep /\ UNCHANGED <<frontendVars, faultVars>>
    <3>1. ASSUME NEW p \in Procs, Spawn(p) PROVE ResultKept'
      BY <2>2, <3>1 DEF Spawn
    <3>2. ASSUME NEW t \in Tasks, Allocate(t) PROVE ResultKept'
      BY <2>2, <3>2 DEF Allocate
    <3>3. CASE \/ AtCapacity \/ QueueEmpty \/ NextTurn \/ RunTimeout
               \/ \E t \in Tasks : SkipTask(t)
      BY <2>2, <3>3 DEF AtCapacity, QueueEmpty, NextTurn, StartPass, RunTimeout, SkipTask
    <3> QED
      BY <2>2, <3>1, <3>2, <3>3 DEF StartStep
  <2>3. CASE ManagerStarts /\ UNCHANGED <<frontendVars, faultVars>>
    BY <2>3 DEF ManagerStarts
  <2>4. CASE \/ FetchTasks \/ FetchCancels \/ FlagCancel \/ RunManager \/ DispatcherDies
             \/ \E t \in Tasks : CancelTask(t)
    BY <2>4 DEF FetchTasks, FetchCancels, FlagCancel, RunManager, StartPass, DispatcherDies,
                ManagerDies, CancelTask
  <2>5. CASE ReportCancel
    BY <2>5 DEF ReportCancel
  <2>6. CASE FinishTask
    <3>1. /\ cur \in Tasks /\ {"allocated", "status"} \subseteq hash[cur]
          /\ fstate[cur] # "new"
      BY <2>6 DEF FinishTask, Ended, PunctualInv, SnapshotAgrees, PromiseInv, NewUntouched
    <3>2. CASE Reporter = "manager"
      <4>1. ~Outage
        BY <3>2 DEF Posted, Outage
      <4>2. fstate' = [fstate EXCEPT ![cur] = IF @ = "pending" THEN "done" ELSE @]
        BY <2>6, <3>2, <4>1 DEF FinishTask, Accept
      <4> QED
        BY <2>6, <3>1, <3>2, <4>2 DEF FinishTask, FrontendStates
    <3>3. CASE Reporter = "worker"
      BY <2>6, <3>1, <3>3 DEF FinishTask
    <3> QED
      BY <3>2, <3>3
  <2>7. ASSUME NEW p \in Procs, WorkerStep(p) \/ Death(p) PROVE ResultKept'
    <3>1. Live(p) /\ job[p] \in Tasks /\ wpc[p] # "giveup" /\ fstate[job[p]] # "new"
      <4>1. Live(p) /\ job[p] \in Tasks
        BY <2>7 DEF WorkerStep, HandleTask, WmStarted, WmSetStarted, WmSetPid,
                    WmCheckAllocated, WmGiveUp, SetStatus, Death, WorkerDies
      <4> QED
        BY <4>1 DEF PunctualInv, Registration, PromiseInv, NewUntouched
    <3>2. CASE HandleTask(p)
      BY <3>1, <3>2 DEF HandleTask, Goto, Accept, FrontendStates
    <3>3. CASE WmStarted(p) /\ UNCHANGED <<managerVars, frontendVars, faultVars>>
      BY <3>1, <3>3 DEF WmStarted, WmSetStarted, WmSetPid, WmCheckAllocated, WmGiveUp, Goto
    <3>4. CASE SetStatus(p) /\ UNCHANGED <<managerVars, frontendVars, faultVars>>
      <4>1. mpc = "decide" /\ job[p] = cur =>
              /\ "delete" \notin info.flags
              /\ info.age > 0 => "started" \in info.flags
        BY <3>1 DEF PunctualInv, HashOwned, SnapshotAgrees
      <4> QED
        BY <3>1, <3>4, <4>1 DEF SetStatus, Goto, Exit
    <3>5. CASE Death(p)
      BY <3>1, <3>5 DEF Death, WorkerDies, Goto, Exit
    <3> QED
      BY <2>7, <3>2, <3>3, <3>4, <3>5 DEF WorkerStep
  <2>8. ASSUME NEW t \in Tasks, Submit(t) \/ RequestCancel(t) \/ TimePasses(t)
        PROVE  ResultKept'
    BY <2>8 DEF Submit, RequestCancel, TimePasses, Tick
  <2>9. CASE UNCHANGED vars
    BY <2>9 DEF vars
  <2> QED
    BY <2>1, <2>2, <2>3, <2>4, <2>5, <2>6, <2>7, <2>8, <2>9 DEF Next, ManagerStep
<1> QED
  BY <1>1, <1>2, TypeCorrect, PunctualInvariant, PromiseInvariant, PTL DEF Spec

-------------------------------------------------------------------------------
poolState == [t \in Tasks |-> PoolState(t)]

(* What the state of a task in the pool depends on.                        *)
HasResult(t) == {"allocated", "status"} \subseteq hash[t]

LEMMA SamePool ==
  ASSUME NEW u, fstate'[u] = fstate[u], HasResult(u)' <=> HasResult(u),
         (WorkersOf(u) = {})' <=> (WorkersOf(u) = {})
  PROVE  PoolState(u)' = PoolState(u)
BY DEF PoolState, Settled, HasResult

LEMMA PoolMoves ==
  ASSUME NEW t \in Tasks, NEW from, NEW to, PoolState(t) \in from, PoolState(t)' = to,
         \A u \in Tasks \ {t} : PoolState(u)' = PoolState(u)
  PROVE  Pool!Move(t, from, to)
BY DEF Pool!Move

LEMMA PoolRests ==
  ASSUME \A u \in Tasks : PoolState(u)' = PoolState(u)
  PROVE  UNCHANGED poolState
BY DEF poolState

(* The frontend settles a task it waited for, or does not care.            *)
LEMMA PoolSettles ==
  ASSUME NEW t \in Tasks, fstate \in [Tasks -> FrontendStates], NEW s \in {"done", "canceled"},
         fstate' = [fstate EXCEPT ![t] = IF @ = "pending" THEN s ELSE @],
         UNCHANGED <<hash, wpc, job>>
  PROVE  [Pool!Next]_poolState
<1>1. ASSUME NEW u \in Tasks, fstate'[u] = fstate[u] PROVE PoolState(u)' = PoolState(u)
  BY <1>1, SamePool DEF HasResult, WorkersOf, Live
<1>2. CASE fstate[t] = "pending"
  <2>1. PoolState(t) \in {"waiting", "running", "ended"} /\ PoolState(t)' = "settled"
    BY <1>2 DEF PoolState, Settled
  <2>2. Pool!Settle(t)
    BY <1>1, <2>1, PoolMoves DEF Pool!Settle
  <2> QED
    BY <2>2 DEF Pool!Next
<1>3. CASE fstate[t] # "pending"
  BY <1>1, <1>3, PoolRests
<1> QED
  BY <1>2, <1>3

(* A dropped hash has no worker, and a result in it is known.              *)
LEMMA DropRefines ==
  ASSUME TypeOK, PunctualInv, ResultKept, UNCHANGED fstate,
         DropOrphan \/ DropDead \/ DropUnstarted \/ DropFinished
  PROVE  UNCHANGED poolState
<1> USE DEF TypeOK, WorkerTypeOK, ManagerTypeOK, Live, redisVars, procVars
<1>1. ~HasResult(cur) \/ Settled(cur)
  BY DEF DropOrphan, DropDead, DropUnstarted, DropFinished, Doomed, Waiting, HasResult,
         PunctualInv, SnapshotAgrees, ResultKept
<1>2. /\ hash' = [hash EXCEPT ![cur] = {}] /\ cur \in Tasks
      /\ UNCHANGED <<fstate, wpc, job>>
  BY DEF DropOrphan, DropDead, DropUnstarted, DropFinished, DeleteWorker, Delete
<1>3. ASSUME NEW u \in Tasks PROVE PoolState(u)' = PoolState(u)
  <2>1. (WorkersOf(u) = {})' <=> (WorkersOf(u) = {})
    BY <1>2 DEF WorkersOf
  <2>2. CASE u # cur \/ ~HasResult(cur)
    BY <1>2, <2>1, <2>2, SamePool DEF HasResult
  <2>3. CASE u = cur /\ Settled(cur)
    BY <1>2, <2>3 DEF PoolState, Settled
  <2> QED
    BY <1>1, <2>2, <2>3
<1> QED
  BY <1>3, PoolRests

(* The steps that change what the manager remembers, or a field of a hash  *)
(* that is no result.                                                      *)
LEMMA BookkeepingRefines ==
  ASSUME TypeOK, PunctualInv,
         \/ (KeepWorker \/ EndPass \/ (\E t \in Tasks : ReadHash(t)) \/ CheckWorker)
              /\ UNCHANGED frontendVars
         \/ (AtCapacity \/ QueueEmpty \/ NextTurn \/ RunTimeout \/ ManagerStarts)
              /\ UNCHANGED frontendVars
         \/ (\E t \in Tasks : SkipTask(t) \/ Allocate(t)) /\ UNCHANGED frontendVars
         \/ FetchTasks \/ FetchCancels \/ FlagCancel \/ RunManager \/ DispatcherDies
         \/ \E t \in Tasks : CancelTask(t) \/ RequestCancel(t) \/ TimePasses(t)
  PROVE  UNCHANGED poolState
<1> USE DEF TypeOK, WorkerTypeOK, ManagerTypeOK, Live, redisVars, procVars, frontendVars, HSet
<1>1. UNCHANGED <<fstate, wpc, job>>
  BY DEF KeepWorker, EndPass, ReadHash, CheckWorker, AtCapacity, QueueEmpty, NextTurn,
         RunTimeout, ManagerStarts, SkipTask, Allocate, FetchTasks, FetchCancels, FlagCancel,
         RunManager, DispatcherDies, ManagerDies, CancelTask, RequestCancel, TimePasses, Tick
<1>2. ASSUME NEW u \in Tasks PROVE HasResult(u)' <=> HasResult(u)
  <2>1. CASE \E t \in Tasks : Allocate(t)
    BY <2>1 DEF Allocate, HasResult, PunctualInv, HashOwned, MemoryAgrees, AllocatedIsTracked,
                Exists
  <2>2. CASE CheckWorker \/ FlagCancel
    BY <2>2 DEF CheckWorker, FlagCancel, HasResult
  <2>3. CASE hash' = hash
    BY <2>3 DEF HasResult
  <2> QED
    BY <2>1, <2>2, <2>3
    DEF KeepWorker, EndPass, ReadHash, AtCapacity, QueueEmpty, NextTurn, RunTimeout,
        ManagerStarts, SkipTask, FetchTasks, FetchCancels, RunManager, DispatcherDies,
        ManagerDies, CancelTask, RequestCancel, TimePasses, Tick
<1> QED
  BY <1>1, <1>2, SamePool, PoolRests DEF WorkersOf

(* A worker is started below the capacity, for a task that waits.          *)
LEMMA SpawnRefines ==
  ASSUME TypeOK, PunctualInv, PromiseInv, NEW p \in Procs, Spawn(p), UNCHANGED frontendVars
  PROVE  Pool!Next
<1> USE BackgroundWorkerAssumption
    DEF TypeOK, WorkerTypeOK, ManagerTypeOK, Live, redisVars, procVars, frontendVars
<1>1. /\ cur \in Tasks /\ hash[cur] = {"allocated"} /\ fstate[cur] = "pending"
      /\ \A q \in Procs : job[q] # cur
  BY DEF Spawn, PunctualInv, MemoryAgrees, PromiseInv, QueuePending
<1>2. PICK t \in Tasks : t = cur
  BY <1>1
<1>3. PoolState(t) = "waiting"
  BY <1>1, <1>2 DEF PoolState, Settled, WorkersOf
<1>4. PoolState(t)' = "running"
  <2>1. p \in WorkersOf(t)'
    BY <1>2 DEF Spawn, WorkersOf
  <2> QED
    BY <1>1, <1>2, <2>1 DEF Spawn, PoolState, Settled
<1>5. ASSUME NEW u \in Tasks \ {t} PROVE PoolState(u)' = PoolState(u)
  <2>1. (WorkersOf(u) = {})' <=> (WorkersOf(u) = {})
    BY <1>2 DEF Spawn, WorkersOf
  <2> QED
    BY <2>1, SamePool DEF Spawn, HasResult
<1>6. Cardinality(Pool!In("running")) < MaxWorkers
  <2>1. Pool!In("running") \subseteq Allocated \ {t}
    BY <1>3 DEF Pool!In, PoolState, Allocated, WorkersOf, PunctualInv, Registration
  <2>2. t \in Allocated /\ IsFiniteSet(Allocated) /\ Cardinality(Allocated) <= MaxWorkers
    BY <1>1, <1>2 DEF Allocated, PromiseInv, Sizes
  <2>3. /\ IsFiniteSet(Allocated \ {t})
        /\ Cardinality(Allocated \ {t}) = Cardinality(Allocated) - 1
        /\ Cardinality(Allocated) \in Nat
    BY <2>2, FS_RemoveElement, FS_CardinalityType
  <2>4. /\ Cardinality(Pool!In("running")) <= Cardinality(Allocated \ {t})
        /\ Cardinality(Pool!In("running")) \in Nat
    BY <2>1, <2>3, FS_Subset, FS_CardinalityType
  <2> QED
    BY <2>2, <2>3, <2>4, WorkerManagerAssumption
<1>7. Pool!Move(t, {"waiting"}, "running")
  BY <1>3, <1>4, <1>5, PoolMoves
<1>8. Pool!Cardinality(Pool!In("running")) = Cardinality(Pool!In("running"))
  BY DEF Pool!Cardinality, Cardinality
<1>9. Pool!Start(t)
  BY <1>6, <1>7, <1>8 DEF Pool!Start
<1> QED
  BY <1>9 DEF Pool!Next

LEMMA ManagerRefines ==
  ASSUME TypeOK, PunctualInv, PromiseInv, ResultKept, ManagerStep \/ DispatcherDies
  PROVE  [Pool!Next]_poolState
<1> USE DEF TypeOK, WorkerTypeOK, ManagerTypeOK, redisVars, procVars, frontendVars, faultVars
<1>1. CASE CleanupStep /\ UNCHANGED <<frontendVars, faultVars>>
  BY <1>1, DropRefines, BookkeepingRefines DEF CleanupStep
<1>2. CASE (StartStep \/ ManagerStarts) /\ UNCHANGED <<frontendVars, faultVars>>
  BY <1>2, SpawnRefines, BookkeepingRefines DEF StartStep
<1>3. CASE \/ FetchTasks \/ FetchCancels \/ FlagCancel \/ RunManager \/ DispatcherDies
           \/ \E t \in Tasks : CancelTask(t)
  BY <1>3, BookkeepingRefines
<1>4. CASE ReportCancel
  BY <1>4, PoolSettles DEF ReportCancel
<1>5. CASE FinishTask
  <2>1. CASE fstate' = fstate
    BY <1>5, <2>1, SamePool, PoolRests DEF FinishTask, HasResult, WorkersOf, Live
  <2>2. CASE Accept(cur)
    BY <1>5, <2>2, PoolSettles DEF FinishTask, Accept
  <2> QED
    BY <1>5, <2>1, <2>2 DEF FinishTask
<1> QED
  BY <1>1, <1>2, <1>3, <1>4, <1>5 DEF ManagerStep

(* A worker posts its result before it marks its hash, and one that dies   *)
(* leaves its task to another.                                             *)
LEMMA WorkerRefines ==
  ASSUME TypeOK, PunctualInv, PromiseInv, ResultKept,
         NEW p \in Procs, WorkerStep(p) \/ Death(p)
  PROVE  [Pool!Next]_poolState
<1> USE BackgroundWorkerAssumption
    DEF TypeOK, WorkerTypeOK, Live, redisVars, procVars, frontendVars, HSet, Goto, Exit
<1>1. /\ Live(p) /\ job[p] \in Tasks /\ wpc[p] # "giveup" /\ fstate[job[p]] # "new"
      /\ "allocated" \in hash[job[p]] /\ ~HasResult(job[p])
      /\ \A q \in Procs : Live(q) /\ job[q] = job[p] => q = p
  <2>1. Live(p) /\ job[p] \in Tasks
    BY DEF WorkerStep, HandleTask, WmStarted, WmSetStarted, WmSetPid, WmCheckAllocated,
           WmGiveUp, SetStatus, Death, WorkerDies
  <2> QED
    BY <2>1 DEF PunctualInv, Registration, HashOwned, OneWorkerPerTask, PromiseInv,
                NewUntouched, HasResult
<1>2. PICK t \in Tasks : t = job[p]
  BY <1>1
<1>3. CASE HandleTask(p)
  <2>1. UNCHANGED job /\ \A q \in Procs : Live(q)' <=> Live(q)
    BY <1>3 DEF HandleTask
  <2>2. ASSUME NEW u \in Tasks, fstate'[u] = fstate[u] PROVE PoolState(u)' = PoolState(u)
    BY <1>3, <2>1, <2>2, SamePool DEF HandleTask, HasResult, WorkersOf
  <2>3. CASE fstate' = fstate
    BY <2>2, <2>3, PoolRests
  <2>4. CASE Accept(t) /\ fstate[t] = "pending"
    <3>1. PoolState(t) \in {"waiting", "running", "ended"} /\ PoolState(t)' = "settled"
      BY <2>4 DEF PoolState, Settled, Accept
    <3>2. Pool!Settle(t)
      BY <2>2, <2>4, <3>1, PoolMoves DEF Pool!Settle, Accept
    <3> QED
      BY <3>2 DEF Pool!Next
  <2> QED
    BY <1>2, <1>3, <2>3, <2>4 DEF HandleTask, Accept
<1>4. CASE WmStarted(p) /\ UNCHANGED <<managerVars, frontendVars, faultVars>>
  <2>1. /\ UNCHANGED <<job, fstate>> /\ \A q \in Procs : Live(q)' <=> Live(q)
        /\ \A u \in Tasks : HasResult(u)' <=> HasResult(u)
    BY <1>1, <1>4 DEF WmStarted, WmSetStarted, WmSetPid, WmCheckAllocated, WmGiveUp, HasResult
  <2> QED
    BY <2>1, SamePool, PoolRests DEF WorkersOf
<1>5. ASSUME SetStatus(p) \/ Death(p), UNCHANGED fstate
      PROVE  [Pool!Next]_poolState
  <2>1. /\ UNCHANGED fstate /\ wpc' = [wpc EXCEPT ![p] = "free"]
        /\ job' = [job EXCEPT ![p] = NoTask]
        /\ hash' = [hash EXCEPT ![t] = @ \cup {"status"}] \/ hash' = hash
    BY <1>2, <1>5 DEF SetStatus, Death, WorkerDies
  <2>2. ASSUME NEW u \in Tasks \ {t} PROVE PoolState(u)' = PoolState(u)
    <3>1. (WorkersOf(u) = {})' <=> (WorkersOf(u) = {})
      BY <1>1, <1>2, <2>1 DEF WorkersOf
    <3> QED
      BY <2>1, <3>1, SamePool DEF HasResult
  <2>3. CASE Settled(t)
    <3>1. PoolState(t)' = PoolState(t)
      BY <2>1, <2>3 DEF PoolState, Settled
    <3> QED
      BY <2>2, <3>1, PoolRests
  <2>4. CASE ~Settled(t)
    <3>1. PoolState(t) = "running"
      BY <1>1, <1>2, <2>4 DEF PoolState, HasResult, WorkersOf
    <3>2. WorkersOf(t)' = {}
      BY <1>1, <1>2, <2>1 DEF WorkersOf
    <3>3. PoolState(t)' = "ended" \/ PoolState(t)' = "waiting"
      BY <1>1, <1>2, <2>1, <2>4, <3>2 DEF PoolState, Settled
    <3>4. Pool!End(t) \/ Pool!Lose(t)
      BY <2>2, <3>1, <3>3, PoolMoves DEF Pool!End, Pool!Lose
    <3> QED
      BY <3>4 DEF Pool!Next
  <2> QED
    BY <2>3, <2>4
<1> QED
  BY <1>3, <1>4, <1>5 DEF WorkerStep, Death

LEMMA SubmitRefines ==
  ASSUME TypeOK, PunctualInv, PromiseInv, NEW t \in Tasks, Submit(t)
  PROVE  Pool!Next
<1> USE DEF TypeOK, WorkerTypeOK, Live, redisVars, procVars, Submit
<1>1. PoolState(t) = "new"
  BY DEF PoolState
<1>2. PoolState(t)' = "waiting"
  BY DEF PoolState, Settled, WorkersOf, PromiseInv, NewUntouched, PunctualInv, Registration
<1>3. ASSUME NEW u \in Tasks \ {t} PROVE PoolState(u)' = PoolState(u)
  BY SamePool DEF HasResult, WorkersOf
<1>4. Pool!Submit(t)
  BY <1>1, <1>2, <1>3, PoolMoves DEF Pool!Submit
<1> QED
  BY <1>4 DEF Pool!Next

(* The dispatcher, its workers and Redis do what TaskPool promises the     *)
(* frontend, when workers register in time and either report themselves or *)
(* the frontend takes every post: no result is lost, no task is run twice  *)
(* at once or touched once it is settled, and the capacity is kept.        *)
THEOREM PoolRefined == Punctual /\ Posted => (Spec => ImplementsPool)
<1> SUFFICES ASSUME Punctual, Posted PROVE Spec => ImplementsPool
  OBVIOUS
<1>1. Init => Pool!Init
  BY DEF Init, Pool!Init, PoolState
<1>2. TypeOK /\ PunctualInv /\ PromiseInv /\ ResultKept /\ [Next]_vars
        => [Pool!Next]_poolState
  <2> SUFFICES ASSUME TypeOK, PunctualInv, PromiseInv, ResultKept, [Next]_vars
               PROVE  [Pool!Next]_poolState
    OBVIOUS
  <2>1. CASE UNCHANGED vars
    BY <2>1, SamePool, PoolRests
    DEF vars, redisVars, procVars, frontendVars, HasResult, WorkersOf, Live
  <2>2. CASE \E t \in Tasks : RequestCancel(t) \/ TimePasses(t)
    BY <2>2, BookkeepingRefines
  <2> QED
    BY <2>1, <2>2, ManagerRefines, WorkerRefines, SubmitRefines DEF Next
<1>3. [Pool!Next]_poolState <=> [Pool!Next]_[t \in Tasks |-> PoolState(t)]
  BY DEF poolState
<1> QED
  BY <1>1, <1>2, <1>3, TypeCorrect, PunctualInvariant, PromiseInvariant, ResultInvariant, PTL
  DEF Spec, ImplementsPool, Pool!Spec
===============================================================================
