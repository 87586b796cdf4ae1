------------------------------- MODULE RedisLock -------------------------------
(***************************************************************************)
(* The fair (FIFO) lock on one path, kept in Redis by the processes that   *)
(* use it (common/copr_common/lock.py).  A process is its PID; every       *)
(* command to Redis and every kill(pid, 0) is a step of its own.           *)
(*                                                                         *)
(* A PID is not used again by another process of the model; a process may  *)
(* take the lock any number of times.                                      *)
(***************************************************************************)
EXTENDS Naturals, Sequences, FiniteSets, SequencesExt, Queues

CONSTANTS
  Procs,       \* the PIDs
  NoProc,      \* the value of head and next before they are read
  MaxDeaths,   \* bound: how many processes are killed
  MaxAborts,   \* bound: how many times an exception interrupts the waiting
  MaxLosses    \* bound: how many times Redis loses its keys

ASSUME RedisLockAssumption ==
  /\ NoProc \notin Procs
  /\ MaxDeaths \in Nat /\ MaxAborts \in Nat /\ MaxLosses \in Nat

VARIABLES
  queue,       \* the Redis list copr:lock:queue:<path>
  notified,    \* the PIDs whose list copr:lock:notify:<path>:<pid> is not empty
  pc,          \* where each process is in Lock.lock
  seen,        \* seen[p]: the local variable head (acquiring) or next_pid
  deaths, aborts, losses    \* how much of each bound is used up

faultVars == <<deaths, aborts, losses>>
vars == <<queue, notified, pc, seen, faultVars>>

States == {"idle", "push", "peek", "probe", "evict", "wait", "held",
           "unqueue", "next", "notify", "clean", "zombie", "dead"}

(* in the loop of the try block *)
Acquiring == {"peek", "probe", "evict", "wait"}

Alive(p) == pc[p] \notin {"zombie", "dead"}

Goto(p, to) == pc' = [pc EXCEPT ![p] = to]

Step(p, from, to) == pc[p] = from /\ Goto(p, to)

-------------------------------------------------------------------------------
(* Acquiring. *)

Call(p) ==
  /\ Step(p, "idle", "push")
  /\ UNCHANGED <<queue, notified, seen, faultVars>>

(* rpush of the own PID *)
Enqueue(p) ==
  /\ Step(p, "push", "peek")
  /\ queue' = Append(queue, p)
  /\ UNCHANGED <<notified, seen, faultVars>>

(* Variant: an empty queue is waited on like any other. *)
PeekAndWait(p) ==
  /\ pc[p] = "peek"
  /\ IF queue # <<>> /\ Head(queue) = p
     THEN Goto(p, "held") /\ UNCHANGED seen
     ELSE /\ Goto(p, IF queue = <<>> THEN "wait" ELSE "probe")
          /\ seen' = [seen EXCEPT ![p] = IF queue = <<>> THEN NoProc ELSE Head(queue)]
  /\ UNCHANGED <<queue, notified, faultVars>>

(* lindex(queue, 0): nothing, oneself or somebody else *)
Peek(p) ==
  /\ pc[p] = "peek"
  /\ \/ /\ queue = <<>>
        /\ Goto(p, "push")
        /\ UNCHANGED seen
     \/ /\ queue # <<>> /\ Head(queue) = p
        /\ Goto(p, "held")
        /\ UNCHANGED seen
     \/ /\ queue # <<>> /\ Head(queue) # p
        /\ Goto(p, "probe")
        /\ seen' = [seen EXCEPT ![p] = Head(queue)]
  /\ UNCHANGED <<queue, notified, faultVars>>

(* kill(head, 0) succeeds for a process that nobody has waited for yet. *)
IsAlive(p) == pc[p] # "dead"

(* Variant: the head of the queue is believed to be alive. *)
ProbeNobody(p) ==
  /\ Step(p, "probe", "wait")
  /\ UNCHANGED <<queue, notified, seen, faultVars>>

Probe(p) ==
  /\ Step(p, "probe", IF IsAlive(seen[p]) THEN "wait" ELSE "evict")
  /\ UNCHANGED <<queue, notified, seen, faultVars>>

(* Variant: lpop instead of lrem. *)
EvictByPop(p) ==
  /\ Step(p, "evict", "peek")
  /\ queue' = IF queue = <<>> THEN queue ELSE Tail(queue)
  /\ UNCHANGED <<notified, seen, faultVars>>

(* lrem(queue, 1, head) *)
Evict(p) ==
  /\ Step(p, "evict", "peek")
  /\ queue' = RemoveFirst(queue, seen[p])
  /\ UNCHANGED <<notified, seen, faultVars>>

(* blpop(notify, timeout=5) with a notification *)
WakeUp(p) ==
  /\ p \in notified
  /\ Step(p, "wait", "peek")
  /\ notified' = notified \ {p}
  /\ UNCHANGED <<queue, seen, faultVars>>

(* ... and without one *)
WaitTimeout(p) ==
  /\ p \notin notified
  /\ Step(p, "wait", "peek")
  /\ UNCHANGED <<queue, notified, seen, faultVars>>

(* An exception or a signal in the try block before the lock is acquired. *)
Abort(p) ==
  /\ aborts < MaxAborts /\ aborts' = aborts + 1
  /\ pc[p] \in Acquiring
  /\ Goto(p, "unqueue")
  /\ UNCHANGED <<queue, notified, seen, deaths, losses>>

-------------------------------------------------------------------------------
(* The finally block. *)

(* The body of the with statement is over. *)
Done(p) ==
  /\ Step(p, "held", "unqueue")
  /\ UNCHANGED <<queue, notified, seen, faultVars>>

(* Variant: lpop instead of lrem. *)
UnqueueByPop(p) ==
  /\ Step(p, "unqueue", "next")
  /\ queue' = IF queue = <<>> THEN queue ELSE Tail(queue)
  /\ UNCHANGED <<notified, seen, faultVars>>

(* Variant: nobody is notified. *)
UnqueueQuietly(p) ==
  /\ Step(p, "unqueue", "clean")
  /\ queue' = RemoveFirst(queue, p)
  /\ UNCHANGED <<notified, seen, faultVars>>

Unqueue(p) ==
  /\ Step(p, "unqueue", "next")
  /\ queue' = RemoveFirst(queue, p)
  /\ UNCHANGED <<notified, seen, faultVars>>

(* Variant: next_pid is not compared with None. *)
LookNextUnchecked(p) ==
  /\ Step(p, "next", "notify")
  /\ seen' = [seen EXCEPT ![p] = IF queue = <<>> THEN NoProc ELSE Head(queue)]
  /\ UNCHANGED <<queue, notified, faultVars>>

LookNext(p) ==
  /\ pc[p] = "next"
  /\ IF queue = <<>>
     THEN Goto(p, "clean") /\ UNCHANGED seen
     ELSE Goto(p, "notify") /\ seen' = [seen EXCEPT ![p] = Head(queue)]
  /\ UNCHANGED <<queue, notified, faultVars>>

Notify(p) ==
  /\ Step(p, "notify", "clean")
  /\ notified' = notified \cup {seen[p]}
  /\ UNCHANGED <<queue, seen, faultVars>>

CleanUp(p) ==
  /\ Step(p, "clean", "idle")
  /\ notified' = notified \ {p}
  /\ seen' = [seen EXCEPT ![p] = NoProc]
  /\ UNCHANGED <<queue, faultVars>>

-------------------------------------------------------------------------------
(* The environment. *)

(* A notification nobody took expires.  NOTIFY_TTL is far longer than the  *)
(* time between two commands of a process that waits, so only a leftover   *)
(* one does.                                                               *)
Expire(p) ==
  /\ p \in notified /\ pc[p] \notin Acquiring
  /\ notified' = notified \ {p}
  /\ UNCHANGED <<queue, pc, seen, faultVars>>

Die(p) ==
  /\ Alive(p)
  /\ deaths < MaxDeaths /\ deaths' = deaths + 1
  /\ Goto(p, "zombie")
  /\ seen' = [seen EXCEPT ![p] = NoProc]
  /\ UNCHANGED <<queue, notified, aborts, losses>>

(* The parent of the process waits for it. *)
Reap(p) ==
  /\ Step(p, "zombie", "dead")
  /\ UNCHANGED <<queue, notified, seen, faultVars>>

(* Redis restarts empty.  The queue key is lost with its waiters. *)
Lose ==
  /\ losses < MaxLosses /\ losses' = losses + 1
  /\ queue' = <<>>
  /\ notified' = {}
  /\ UNCHANGED <<pc, seen, deaths, aborts>>

Acquire(p) == Enqueue(p) \/ Peek(p) \/ Probe(p) \/ Evict(p) \/ WakeUp(p)
              \/ WaitTimeout(p)

Finally(p) == Done(p) \/ Unqueue(p) \/ LookNext(p) \/ Notify(p) \/ CleanUp(p)

Init ==
  /\ queue = <<>>
  /\ notified = {}
  /\ pc = [p \in Procs |-> "idle"]
  /\ seen = [p \in Procs |-> NoProc]
  /\ deaths = 0 /\ aborts = 0 /\ losses = 0

Next ==
  \/ \E p \in Procs : Call(p) \/ Acquire(p) \/ Finally(p) \/ Abort(p)
                     \/ Expire(p) \/ Die(p) \/ Reap(p)
  \/ Lose

Spec == Init /\ [][Next]_vars

(* A process in lock() is scheduled, the body of its with statement ends,  *)
(* and the parent of a dead one waits for it.  Nobody has to call lock().  *)
Fairness ==
  \A p \in Procs : WF_vars(Acquire(p)) /\ WF_vars(Finally(p)) /\ WF_vars(Reap(p))

FairSpec == Spec /\ Fairness

-------------------------------------------------------------------------------
(* Properties. *)

(* Every variable keeps its type; a process that looks at another one      *)
(* knows which (the local variables head and next_pid).                    *)
TypeOK ==
  /\ queue \in Seq(Procs)
  /\ notified \subseteq Procs
  /\ pc \in [Procs -> States]
  /\ seen \in [Procs -> Procs \cup {NoProc}]
  /\ deaths \in 0 .. MaxDeaths
  /\ aborts \in 0 .. MaxAborts
  /\ losses \in 0 .. MaxLosses
  /\ \A p \in Procs : pc[p] \in {"probe", "evict", "notify"} => seen[p] \in Procs

(* Two processes are never in the body at once, although the dead are      *)
(* removed from the queue by whoever notices (lock(), up to the yield).    *)
MutualExclusion ==
  \A p, q \in Procs : pc[p] = "held" /\ pc[q] = "held" => p = q

(* While nobody has died, a waiter that is at the head has its wake-up or  *)
(* somebody about to send it: it never sleeps through the timeout of its   *)
(* blpop (the finally block).                                              *)
PromptHandover ==
  \A p \in Procs :
    deaths = 0 /\ losses = 0 /\ pc[p] = "wait" /\ queue # <<>> /\ Head(queue) = p =>
      \/ p \in notified
      \/ \E r \in Procs : pc[r] = "next" \/ (pc[r] = "notify" /\ seen[r] = p)

(* Whoever calls lock() gets the lock, or stops waiting itself, whatever   *)
(* other processes die in the queue or in the body.                        *)
EveryCallerServed ==
  \A p \in Procs :
    pc[p] = "push" ~> pc[p] \in {"held", "unqueue", "zombie", "dead"}

(* After Redis lost the queue, a waiter puts itself back into it (the      *)
(* branch for an empty queue) and is served, provided that the others stop *)
(* calling lock(): it rejoins only when it finds the queue empty.          *)
ServedAfterLoss ==
  \A p \in Procs :
    <>[](\A q \in Procs \ {p} : pc[q] # "push") => []<>(pc[p] \notin Acquiring)

Living == {p \in Procs : Alive(p)}

(* The processes still running that are in the queue, in its order. *)
Line == Keep(queue, Living)

Inside == {p \in Procs : pc[p] = "held"}

Fair == INSTANCE FairLock WITH line <- Line, inside <- Inside

(* Served one at a time and in the order of their calls. *)
ImplementsFairLock == Fair!Spec
===============================================================================
