---------------------------- MODULE RedisLockProofs ----------------------------
(***************************************************************************)
(* Theorems about RedisLock, for every set of processes and every number   *)
(* of deaths and of interrupted waits; what the queue guarantees lasts     *)
(* until Redis loses it.                                                   *)
(***************************************************************************)
EXTENDS RedisLock, QueueTheorems, SequenceTheorems, TLAPS

-------------------------------------------------------------------------------
(* Type correctness. *)

(* No command leaves a variable outside its type: in particular nobody is  *)
(* notified or evicted before next_pid or head was read.                   *)
THEOREM TypeCorrect == Spec => []TypeOK
<1> USE RedisLockAssumption DEF TypeOK, States
<1>1. Init => TypeOK
  BY DEF Init
<1>2. TypeOK /\ [Next]_vars => TypeOK'
  <2> SUFFICES ASSUME TypeOK, [Next]_vars PROVE TypeOK'
    OBVIOUS
  <2> USE DEF Step, Goto, faultVars, Acquiring
  <2>1. ASSUME NEW p \in Procs, Call(p) PROVE TypeOK'
    BY <2>1 DEF Call
  <2>2. ASSUME NEW p \in Procs, Acquire(p) PROVE TypeOK'
    <3>1. CASE Enqueue(p)
      BY <3>1, AppendProperties DEF Enqueue
    <3>2. CASE Peek(p)
      <4>1. queue # <<>> => Head(queue) \in Procs
        BY HeadTailProperties
      <4>2. QED
        BY <3>2, <4>1 DEF Peek
    <3>3. CASE Probe(p)
      BY <3>3 DEF Probe
    <3>4. CASE Evict(p)
      BY <3>4, RemoveFirstKeepsHead DEF Evict
    <3>5. CASE WakeUp(p)
      BY <3>5 DEF WakeUp
    <3>6. CASE WaitTimeout(p)
      BY <3>6 DEF WaitTimeout
    <3>7. QED
      BY <2>2, <3>1, <3>2, <3>3, <3>4, <3>5, <3>6 DEF Acquire
  <2>3. ASSUME NEW p \in Procs, Finally(p) PROVE TypeOK'
    <3>1. CASE Done(p)
      BY <3>1 DEF Done
    <3>2. CASE Unqueue(p)
      BY <3>2, RemoveFirstKeepsHead DEF Unqueue
    <3>3. CASE LookNext(p)
      <4>1. queue # <<>> => Head(queue) \in Procs
        BY HeadTailProperties
      <4>2. QED
        BY <3>3, <4>1 DEF LookNext
    <3>4. CASE Notify(p)
      BY <3>4 DEF Notify
    <3>5. CASE CleanUp(p)
      BY <3>5 DEF CleanUp
    <3>6. QED
      BY <2>3, <3>1, <3>2, <3>3, <3>4, <3>5 DEF Finally
  <2>4. ASSUME NEW p \in Procs, Abort(p) PROVE TypeOK'
    BY <2>4 DEF Abort
  <2>5. ASSUME NEW p \in Procs, Expire(p) PROVE TypeOK'
    BY <2>5 DEF Expire
  <2>6. ASSUME NEW p \in Procs, Die(p) PROVE TypeOK'
    BY <2>6 DEF Die, Alive
  <2>7. ASSUME NEW p \in Procs, Reap(p) PROVE TypeOK'
    BY <2>7 DEF Reap
  <2>8. CASE Lose
    BY <2>8, EmptySeq DEF Lose
  <2>9. CASE UNCHANGED vars
    BY <2>9 DEF vars
  <2>10. QED
    BY <2>1, <2>2, <2>3, <2>4, <2>5, <2>6, <2>7, <2>8, <2>9 DEF Next
<1>3. QED
  BY <1>1, <1>2, PTL DEF Spec

-------------------------------------------------------------------------------
(* Mutual exclusion. *)

(* Whoever is in the body is at the head of the queue ... *)
HolderAtHead ==
  \A p \in Procs : pc[p] = "held" => queue # <<>> /\ Head(queue) = p

(* ... and only the dead are removed from it by others. *)
EvictsTheDead ==
  \A p \in Procs : pc[p] = "evict" => pc[seen[p]] = "dead"

(* A holder loses its place only when Redis loses the queue.               *)
HolderInv == EvictsTheDead /\ (losses = 0 => HolderAtHead)

(* The holder keeps its place at the head of the queue whatever the others *)
(* add at its end or remove from behind the head.                          *)
LEMMA HolderStays ==
  ASSUME TypeOK, HolderAtHead, NEW e, \A p \in Procs : pc[p] = "held" => p # e,
         \/ queue' = queue
         \/ e \in Procs /\ queue' = Append(queue, e)
         \/ queue' = RemoveFirst(queue, e),
         NEW p \in Procs, pc[p] = "held"
  PROVE  queue' # <<>> /\ Head(queue') = p
<1>1. queue \in Seq(Procs) /\ queue # <<>> /\ Head(queue) = p /\ p # e
  BY DEF TypeOK, HolderAtHead
<1>2. CASE queue' = queue
  BY <1>1, <1>2
<1>3. CASE e \in Procs /\ queue' = Append(queue, e)
  BY <1>1, <1>3, AppendProperties, HeadTailAppend
<1>4. CASE queue' = RemoveFirst(queue, e)
  BY <1>1, <1>4, RemoveFirstKeepsHead
<1>5. QED
  BY <1>2, <1>3, <1>4

LEMMA HolderInvariant == Spec => []HolderInv
<1>1. Init => HolderInv
  BY DEF Init, HolderInv, HolderAtHead, EvictsTheDead
<1>2. TypeOK /\ HolderInv /\ [Next]_vars => HolderInv'
  <2> SUFFICES ASSUME TypeOK, HolderInv, [Next]_vars PROVE HolderInv'
    OBVIOUS
  <2> USE DEF HolderInv, HolderAtHead, EvictsTheDead,
              TypeOK, States, Step, Goto, faultVars
  <2>1. ASSUME NEW p \in Procs, Call(p) PROVE HolderInv'
    BY <2>1 DEF Call
  <2>2. ASSUME NEW p \in Procs, Acquire(p) PROVE HolderInv'
    <3>1. CASE Enqueue(p)
      BY <3>1, HolderStays DEF Enqueue
    <3>2. CASE Peek(p)
      BY <3>2 DEF Peek
    <3>3. CASE Probe(p)
      BY <3>3 DEF Probe, IsAlive
    <3>4. CASE Evict(p)
      BY <3>4, HolderStays DEF Evict
    <3>5. CASE WakeUp(p)
      BY <3>5 DEF WakeUp
    <3>6. CASE WaitTimeout(p)
      BY <3>6 DEF WaitTimeout
    <3>7. QED
      BY <2>2, <3>1, <3>2, <3>3, <3>4, <3>5, <3>6 DEF Acquire
  <2>3. ASSUME NEW p \in Procs, Finally(p) PROVE HolderInv'
    <3>1. CASE Done(p)
      BY <3>1 DEF Done
    <3>2. CASE Unqueue(p)
      BY <3>2, HolderStays DEF Unqueue
    <3>3. CASE LookNext(p)
      BY <3>3 DEF LookNext
    <3>4. CASE Notify(p)
      BY <3>4 DEF Notify
    <3>5. CASE CleanUp(p)
      BY <3>5 DEF CleanUp
    <3>6. QED
      BY <2>3, <3>1, <3>2, <3>3, <3>4, <3>5 DEF Finally
  <2>4. ASSUME NEW p \in Procs, Abort(p) PROVE HolderInv'
    BY <2>4 DEF Abort, Acquiring
  <2>5. ASSUME NEW p \in Procs, Expire(p) PROVE HolderInv'
    BY <2>5 DEF Expire
  <2>6. ASSUME NEW p \in Procs, Die(p) PROVE HolderInv'
    BY <2>6 DEF Die, Alive
  <2>7. ASSUME NEW p \in Procs, Reap(p) PROVE HolderInv'
    BY <2>7 DEF Reap
  <2>8. CASE Lose
    BY <2>8 DEF Lose
  <2>9. CASE UNCHANGED vars
    BY <2>9 DEF vars
  <2>10. QED
    BY <2>1, <2>2, <2>3, <2>4, <2>5, <2>6, <2>7, <2>8, <2>9 DEF Next
<1>3. QED
  BY <1>1, <1>2, TypeCorrect, PTL DEF Spec

(* Until Redis loses its keys for the first time, two processes are never  *)
(* in the body of the with statement at once, however many die, also in    *)
(* the body, and however many waits are interrupted.                       *)
THEOREM ExclusionUntilLoss == Spec => [](losses = 0 => MutualExclusion)
<1>1. HolderInv => (losses = 0 => MutualExclusion)
  BY DEF HolderInv, HolderAtHead, MutualExclusion
<1>2. QED
  BY <1>1, HolderInvariant, PTL

(* While Redis keeps its keys, it holds throughout.                        *)
THEOREM Exclusion == MaxLosses = 0 => (Spec => []MutualExclusion)
<1> SUFFICES ASSUME MaxLosses = 0 PROVE Spec => []MutualExclusion
  OBVIOUS
<1>1. TypeOK /\ (losses = 0 => MutualExclusion) => MutualExclusion
  BY DEF TypeOK
<1>2. QED
  BY <1>1, TypeCorrect, ExclusionUntilLoss, PTL

-------------------------------------------------------------------------------
(* Handover. *)

(* Somebody is about to look who is the head, or to wake p.                *)
Awaited(p) ==
  \/ p \in notified
  \/ \E r \in Procs : pc[r] = "next" \/ (pc[r] = "notify" /\ seen[r] = p)

(* Before anybody died or Redis was emptied: a process that found another  *)
(* one at the head is awaited once it is the head itself, already while it *)
(* probes the old one and does not listen yet.                             *)
HandoverInv ==
  deaths = 0 /\ losses = 0 =>
    /\ \A p \in Procs : pc[p] \notin {"zombie", "dead", "evict"}
    /\ \A p \in Procs :
         pc[p] \in {"probe", "wait"} /\ queue # <<>> /\ Head(queue) = p => Awaited(p)

LEMMA HandoverInvariant == Spec => []HandoverInv
<1>1. Init => HandoverInv
  BY DEF Init, HandoverInv
<1>2. TypeOK /\ HandoverInv /\ [Next]_vars => HandoverInv'
  <2> SUFFICES ASSUME TypeOK, HandoverInv, [Next]_vars, (deaths = 0 /\ losses = 0)'
               PROVE  HandoverInv'
    BY DEF HandoverInv
  <2>0. deaths = 0 /\ losses = 0
    BY RedisLockAssumption
    DEF TypeOK, Next, vars, faultVars, Call, Acquire, Enqueue, Peek, Probe, Evict, WakeUp,
        WaitTimeout, Finally, Done, Unqueue, LookNext, Notify, CleanUp, Abort, Expire, Die,
        Reap, Lose
  <2> USE <2>0 DEF HandoverInv, Awaited, TypeOK, States, Step, Goto, faultVars
  <2>1. ASSUME NEW p \in Procs, Call(p) PROVE HandoverInv'
    BY <2>1 DEF Call
  <2>2. ASSUME NEW p \in Procs, Acquire(p) PROVE HandoverInv'
    <3>1. CASE Enqueue(p)
      <4>1. queue # <<>> => Head(queue') = Head(queue)
        BY <3>1, HeadTailAppend DEF Enqueue
      <4>2. queue = <<>> => Head(queue') = p
        BY <3>1, HeadTailAppend DEF Enqueue
      <4> QED
        BY <3>1, <4>1, <4>2 DEF Enqueue
    <3>2. CASE Peek(p)
      BY <3>2 DEF Peek
    <3>3. CASE Probe(p)
      <4>1. pc[seen[p]] # "dead"
        BY <3>3 DEF Probe
      <4> QED
        BY <3>3, <4>1 DEF Probe, IsAlive
    <3>4. CASE Evict(p)
      BY <3>4 DEF Evict
    <3>5. CASE WakeUp(p)
      BY <3>5 DEF WakeUp
    <3>6. CASE WaitTimeout(p)
      BY <3>6 DEF WaitTimeout
    <3> QED
      BY <2>2, <3>1, <3>2, <3>3, <3>4, <3>5, <3>6 DEF Acquire
  <2>3. ASSUME NEW p \in Procs, Finally(p) PROVE HandoverInv'
    <3>1. CASE Done(p)
      BY <3>1 DEF Done
    <3>2. CASE Unqueue(p)
      BY <3>2 DEF Unqueue
    <3>3. CASE LookNext(p)
      BY <3>3 DEF LookNext
    <3>4. CASE Notify(p)
      BY <3>4 DEF Notify
    <3>5. CASE CleanUp(p)
      BY <3>5 DEF CleanUp
    <3> QED
      BY <2>3, <3>1, <3>2, <3>3, <3>4, <3>5 DEF Finally
  <2>4. ASSUME NEW p \in Procs, Abort(p) PROVE HandoverInv'
    BY <2>4 DEF Abort, Acquiring
  <2>5. ASSUME NEW p \in Procs, Expire(p) PROVE HandoverInv'
    BY <2>5 DEF Expire, Acquiring
  <2>6. ASSUME NEW p \in Procs, Die(p) PROVE HandoverInv'
    BY <2>6 DEF Die
  <2>7. ASSUME NEW p \in Procs, Reap(p) PROVE HandoverInv'
    BY <2>7 DEF Reap
  <2>8. CASE Lose
    BY <2>8 DEF Lose
  <2>9. CASE UNCHANGED vars
    BY <2>9 DEF vars
  <2> QED
    BY <2>1, <2>2, <2>3, <2>4, <2>5, <2>6, <2>7, <2>8, <2>9 DEF Next
<1> QED
  BY <1>1, <1>2, TypeCorrect, PTL DEF Spec

(* Nobody at the head of the queue sleeps through the timeout of its blpop *)
(* while nobody has died, however the waits of others are interrupted.     *)
THEOREM Handover == Spec => []PromptHandover
<1>1. HandoverInv => PromptHandover
  BY DEF HandoverInv, PromptHandover, Awaited
<1> QED
  BY <1>1, HandoverInvariant, PTL

-------------------------------------------------------------------------------
(* Who is in the queue. *)

(* Nobody is in the queue twice, or before its rpush or after its lrem: an *)
(* entry of a process that lives and does not wait would block the others  *)
(* for as long as it lives.                                                *)
NoStrayEntry ==
  /\ IsInjective(queue)
  /\ \A p \in Procs :
       pc[p] \in {"idle", "push", "next", "notify", "clean"} => ~Contains(queue, p)

(* Whoever waits or holds is in the queue.                                 *)
WaitersQueued ==
  \A p \in Procs : pc[p] \in Acquiring \cup {"held", "unqueue"} => Contains(queue, p)

QueuedOnce == NoStrayEntry /\ WaitersQueued

(* Who waits when Redis loses the queue is not in it any more.             *)
QueueInv == NoStrayEntry /\ (losses = 0 => WaitersQueued)

(* A step after which nothing has been lost starts where nothing was.      *)
LEMMA OnlyLoseLoses ==
  ASSUME TypeOK, [Next]_vars, losses' = 0
  PROVE  losses = 0
BY RedisLockAssumption
DEF TypeOK, Next, vars, faultVars, Call, Acquire, Enqueue, Peek, Probe, Evict, WakeUp,
    WaitTimeout, Finally, Done, Unqueue, LookNext, Notify, CleanUp, Abort, Expire, Die,
    Reap, Lose

LEMMA QueueInvariant == Spec => []QueueInv
<1>1. Init => QueueInv
  BY ContainsEmpty, EmptySeq DEF Init, QueueInv, NoStrayEntry, WaitersQueued, IsInjective, Acquiring
<1>2. TypeOK /\ HolderInv /\ QueueInv /\ [Next]_vars => QueueInv'
  <2> SUFFICES ASSUME TypeOK, HolderInv, QueueInv, [Next]_vars PROVE QueueInv'
    OBVIOUS
  <2> USE DEF QueueInv, NoStrayEntry, WaitersQueued, TypeOK, States, Step, Goto, faultVars,
              Acquiring
  <2>1. ASSUME NEW p \in Procs, Call(p) PROVE QueueInv'
    BY <2>1 DEF Call
  <2>2. ASSUME NEW p \in Procs, Acquire(p) PROVE QueueInv'
    <3>1. CASE Enqueue(p)
      <4>1. \A q \in Procs : Contains(queue', q) <=> Contains(queue, q) \/ q = p
        BY <3>1, ContainsAppend DEF Enqueue
      <4>2. IsInjective(queue')
        BY <3>1, InjectiveAppend DEF Enqueue
      <4> QED
        BY <3>1, <4>1, <4>2 DEF Enqueue
    <3>2. CASE Peek(p)
      <4>1. queue = <<>> => ~Contains(queue, p)
        BY ContainsEmpty
      <4> QED
        BY <3>2, <4>1 DEF Peek
    <3>3. CASE Probe(p)
      BY <3>3 DEF Probe, IsAlive
    <3>4. CASE Evict(p)
      <4>1. pc[seen[p]] = "dead"
        BY <3>4 DEF Evict, HolderInv, EvictsTheDead
      <4>2. \A q \in Procs \ {seen[p]} : Contains(queue', q) <=> Contains(queue, q)
        BY <3>4, RemoveFirstMembers DEF Evict
      <4>3. IsInjective(queue')
        BY <3>4, RemoveFirstInjective DEF Evict
      <4> QED
        BY <3>4, <4>1, <4>2, <4>3 DEF Evict
    <3>5. CASE WakeUp(p)
      BY <3>5 DEF WakeUp
    <3>6. CASE WaitTimeout(p)
      BY <3>6 DEF WaitTimeout
    <3> QED
      BY <2>2, <3>1, <3>2, <3>3, <3>4, <3>5, <3>6 DEF Acquire
  <2>3. ASSUME NEW p \in Procs, Finally(p) PROVE QueueInv'
    <3>1. CASE Done(p)
      BY <3>1 DEF Done
    <3>2. CASE Unqueue(p)
      <4>1. \A q \in Procs \ {p} : Contains(queue', q) <=> Contains(queue, q)
        BY <3>2, RemoveFirstMembers DEF Unqueue
      <4>2. IsInjective(queue') /\ ~Contains(queue', p)
        BY <3>2, RemoveFirstInjective DEF Unqueue
      <4> QED
        BY <3>2, <4>1, <4>2 DEF Unqueue
    <3>3. CASE LookNext(p)
      BY <3>3 DEF LookNext
    <3>4. CASE Notify(p)
      BY <3>4 DEF Notify
    <3>5. CASE CleanUp(p)
      BY <3>5 DEF CleanUp
    <3> QED
      BY <2>3, <3>1, <3>2, <3>3, <3>4, <3>5 DEF Finally
  <2>4. ASSUME NEW p \in Procs, Abort(p) PROVE QueueInv'
    BY <2>4 DEF Abort
  <2>5. ASSUME NEW p \in Procs, Expire(p) PROVE QueueInv'
    BY <2>5 DEF Expire
  <2>6. ASSUME NEW p \in Procs, Die(p) PROVE QueueInv'
    BY <2>6 DEF Die
  <2>7. ASSUME NEW p \in Procs, Reap(p) PROVE QueueInv'
    BY <2>7 DEF Reap
  <2>8. CASE Lose
    <3>1. IsInjective(queue') /\ \A p \in Procs : ~Contains(queue', p)
      BY <2>8, ContainsEmpty, EmptySeq DEF Lose, IsInjective
    <3> QED
      BY <2>8, <3>1 DEF Lose
  <2>9. CASE UNCHANGED vars
    BY <2>9 DEF vars
  <2> QED
    BY <2>1, <2>2, <2>3, <2>4, <2>5, <2>6, <2>7, <2>8, <2>9 DEF Next
<1> QED
  BY <1>1, <1>2, TypeCorrect, HolderInvariant, PTL DEF Spec

(* Whoever dies, is interrupted or found dead by two others at once, and   *)
(* even when Redis loses its keys: every entry of the queue belongs to a   *)
(* process that is in lock() before its lrem, or is dead and will be       *)
(* removed.                                                                *)
THEOREM NoEntryStays == Spec => []NoStrayEntry
<1>1. QueueInv => NoStrayEntry
  BY DEF QueueInv
<1> QED
  BY <1>1, QueueInvariant, PTL

-------------------------------------------------------------------------------
(* First come, first served. *)

Before(s, p, q) ==
  \E i, j \in 1 .. Len(s) : i < j /\ s[i] = p /\ s[j] = q

LEMMA BeforeAppend ==
  ASSUME NEW s \in Seq(Procs), NEW e \in Procs, NEW p, NEW q, Before(s, p, q)
  PROVE  Before(Append(s, e), p, q)
<1>1. /\ Len(s) \in Nat /\ Len(Append(s, e)) = Len(s) + 1
      /\ \A i \in 1 .. Len(s) : Append(s, e)[i] = s[i]
  BY AppendProperties, LenProperties
<1>2. PICK i \in 1 .. Len(s), j \in 1 .. Len(s) : i < j /\ s[i] = p /\ s[j] = q
  BY DEF Before
<1>3. i \in 1 .. Len(s) + 1 /\ j \in 1 .. Len(s) + 1
  BY <1>1
<1> QED
  BY <1>1, <1>2, <1>3 DEF Before

(* Taking somebody else out of the queue does not change the order of two. *)
LEMMA BeforeRemove ==
  ASSUME NEW s \in Seq(Procs), NEW x, NEW p, NEW q, Before(s, p, q), p # x, q # x
  PROVE  Before(RemoveFirst(s, x), p, q)
<1>1. CASE ~Contains(s, x)
  BY <1>1, RemoveFirstNone
<1>2. CASE Contains(s, x)
  <2> DEFINE r == RemoveFirst(s, x)
             n == Len(s)
  <2>1. PICK k \in 1 .. n : s[k] = x /\ \A i \in 1 .. k - 1 : s[i] # x
    BY <1>2, FirstOccurrence
  <2>2. Len(r) = n - 1 /\ \A i \in 1 .. n - 1 : r[i] = IF i < k THEN s[i] ELSE s[i + 1]
    BY <2>1, RemoveFirstAt
  <2>3. n \in Nat
    BY LenProperties
  <2>4. PICK i \in 1 .. n, j \in 1 .. n : i < j /\ s[i] = p /\ s[j] = q
    BY DEF Before
  <2> DEFINE a == IF i < k THEN i ELSE i - 1
             b == IF j < k THEN j ELSE j - 1
  <2>5. i # k /\ j # k
    BY <2>1, <2>4
  <2>6. a \in 1 .. n - 1 /\ b \in 1 .. n - 1 /\ a < b
    BY <2>3, <2>4, <2>5
  <2>7. r[a] = p /\ r[b] = q
    <3> HIDE DEF r, n
    <3>1. r[a] = IF a < k THEN s[a] ELSE s[a + 1]
      BY <2>2, <2>6
    <3>2. r[b] = IF b < k THEN s[b] ELSE s[b + 1]
      BY <2>2, <2>6
    <3>3. (IF a < k THEN s[a] ELSE s[a + 1]) = s[i]
      BY <2>3, <2>5
    <3>4. (IF b < k THEN s[b] ELSE s[b + 1]) = s[j]
      BY <2>3, <2>5
    <3> QED
      BY <2>4, <3>1, <3>2, <3>3, <3>4
  <2> HIDE DEF a, b
  <2> QED
    BY <2>2, <2>6, <2>7 DEF Before
<1> QED
  BY <1>1, <1>2

(* Nobody at the head has another one before it. *)
LEMMA HeadIsFirst ==
  ASSUME NEW s \in Seq(Procs), IsInjective(s), NEW p, NEW q, Before(s, p, q)
  PROVE  s # <<>> /\ Head(s) # q
<1>1. PICK i \in 1 .. Len(s), j \in 1 .. Len(s) : i < j /\ s[i] = p /\ s[j] = q
  BY DEF Before
<1>2. Len(s) \in Nat /\ DOMAIN s = 1 .. Len(s)
  BY LenProperties
<1>3. s # <<>>
  BY <1>1, <1>2, EmptySeq
<1>4. Head(s) = s[1]
  BY <1>3, HeadTailProperties
<1>5. 1 \in 1 .. Len(s) /\ j # 1
  BY <1>1, <1>2
<1> QED
  BY <1>1, <1>2, <1>3, <1>4, <1>5 DEF IsInjective

(* Whoever is behind another one stays behind it until one of them leaves  *)
(* the queue, and does not get the lock before.                            *)
NoOvertaking ==
  \A p, q \in Procs : Before(queue, p, q) =>
    /\ pc'[q] # "held"
    /\ Contains(queue', p) /\ Contains(queue', q) => Before(queue', p, q)

(* The queue changes in one of three ways. *)
LEMMA QueueChanges ==
  ASSUME TypeOK, [Next]_vars, ~Lose
  PROVE  \/ queue' = queue
         \/ \E e \in Procs : queue' = Append(queue, e) \/ queue' = RemoveFirst(queue, e)
BY DEF TypeOK, Step, Next, vars, faultVars, Call, Acquire, Enqueue, Peek, Probe, Evict, WakeUp,
    WaitTimeout, Finally, Done, Unqueue, LookNext, Notify, CleanUp, Abort, Expire, Die, Reap

(* Until Redis loses its keys the order of the rpush commands is the order *)
(* of service, of the living and of the dead: a waiter gets the lock only  *)
(* after everybody before it has left or was found dead.                   *)
THEOREM FirstComeFirstServed == Spec => [][losses' = 0 => NoOvertaking]_vars
<1>1. TypeOK /\ HolderInv /\ QueueInv /\ [Next]_vars => [losses' = 0 => NoOvertaking]_vars
  <2> SUFFICES ASSUME TypeOK, HolderInv, QueueInv, [Next]_vars, losses' = 0,
                      NEW p \in Procs, NEW q \in Procs, Before(queue, p, q)
               PROVE  /\ pc'[q] # "held"
                      /\ Contains(queue', p) /\ Contains(queue', q) => Before(queue', p, q)
    BY DEF NoOvertaking
  <2>1. losses = 0
    BY OnlyLoseLoses
  <2>2. queue \in Seq(Procs) /\ IsInjective(queue) /\ HolderAtHead
    BY <2>1 DEF TypeOK, QueueInv, NoStrayEntry, HolderInv
  <2>3. Head(queue) # q
    BY <2>2, HeadIsFirst
  <2>4. pc'[q] # "held"
    BY <2>2, <2>3
    DEF HolderAtHead, TypeOK, Step, Goto, Next, vars, faultVars, Call, Acquire, Enqueue, Peek,
        Probe, Evict, WakeUp, WaitTimeout, Finally, Done, Unqueue, LookNext, Notify, CleanUp,
        Abort, Expire, Die, Reap, Lose
  <2>5. ASSUME Contains(queue', p), Contains(queue', q) PROVE Before(queue', p, q)
    <3>1. ~Lose
      BY <2>1 DEF Lose
    <3>2. CASE queue' = queue
      BY <3>2
    <3>3. ASSUME NEW e \in Procs, queue' = Append(queue, e) PROVE Before(queue', p, q)
      BY <2>2, <3>3, BeforeAppend
    <3>4. ASSUME NEW e \in Procs, queue' = RemoveFirst(queue, e) PROVE Before(queue', p, q)
      <4>1. p # e /\ q # e
        BY <2>2, <2>5, <3>4, RemoveFirstInjective
      <4> QED
        BY <2>2, <3>4, <4>1, BeforeRemove
    <3> QED
      BY <3>1, <3>2, <3>3, <3>4, QueueChanges
  <2> QED
    BY <2>4, <2>5
<1> QED
  BY <1>1, TypeCorrect, HolderInvariant, QueueInvariant, PTL DEF Spec

-------------------------------------------------------------------------------
(* The refinement of FairLock. *)

(* The line seen by FairLock: its members and its head. *)
LEMMA LineMembers ==
  ASSUME TypeOK
  PROVE  /\ Line \in Seq(Procs)
         /\ \A p \in Procs : Contains(Line, p) <=> Contains(queue, p) /\ Alive(p)
<1>1. queue \in Seq(Procs)
  BY DEF TypeOK
<1> QED
  BY <1>1, KeepMembers DEF Line, Living

(* A step that leaves the queue and the set of the living alone leaves the *)
(* line alone.                                                             *)
LEMMA LineStays ==
  ASSUME queue' = queue, \A p \in Procs : Alive(p)' <=> Alive(p)
  PROVE  Line' = Line
<1>1. Living' = Living
  BY DEF Living
<1> QED
  BY <1>1 DEF Line

(* FairLock uses the same operators. *)
LEMMA SameOperators ==
  \A s, x : /\ Fair!Contains(s, x) <=> Contains(s, x)
           /\ Fair!RemoveFirst(s, x) = RemoveFirst(s, x)
BY DEF Fair!Contains, Fair!RemoveFirst, Fair!RemoveAt, Fair!SelectInSeq, Fair!Min,
       Contains, RemoveFirst, RemoveAt, SelectInSeq, Min

LEMMA FairSteps ==
  ASSUME TypeOK, HolderAtHead, EvictsTheDead, QueuedOnce, Next, losses' = 0
  PROVE  [Fair!Next]_<<Line, Inside>>
<1> USE DEF TypeOK, States, Step, Goto, faultVars, Acquiring
<1>1. ASSUME NEW p \in Procs, Enqueue(p) PROVE Fair!Next
  <2>1. ~Contains(Line, p)
    BY <1>1, LineMembers DEF Enqueue, QueuedOnce, NoStrayEntry
  <2>2. Living' = Living /\ p \in Living
    BY <1>1 DEF Enqueue, Alive, Living
  <2>3. Line' = Append(Line, p)
    BY <1>1, <2>2, KeepAppend DEF Enqueue, Line
  <2>4. Inside' = Inside
    BY <1>1 DEF Enqueue, Inside
  <2> QED
    BY <2>1, <2>3, <2>4, SameOperators DEF Fair!Next, Fair!Arrive
<1>2. ASSUME NEW p \in Procs, Peek(p) PROVE [Fair!Next]_<<Line, Inside>>
  <2>1. queue # <<>>
    BY <1>2, ContainsEmpty DEF Peek, QueuedOnce, WaitersQueued
  <2>2. Line' = Line
    BY <1>2, LineStays DEF Peek, Alive
  <2>3. CASE Head(queue) = p
    <3>1. Line # <<>> /\ Head(Line) = p
      BY <1>2, <2>1, <2>3, KeepHead DEF Peek, Line, Living, Alive
    <3>2. Inside = {} /\ Inside' = {p}
      BY <1>2, <2>1, <2>3 DEF Peek, Inside, HolderAtHead
    <3> QED
      BY <2>2, <3>1, <3>2 DEF Fair!Next, Fair!Grab
  <2>4. CASE Head(queue) # p
    <3>1. Inside' = Inside
      BY <1>2, <2>1, <2>4 DEF Peek, Inside
    <3> QED
      BY <2>2, <3>1
  <2> QED
    BY <2>3, <2>4
<1>3. ASSUME NEW p \in Procs, Evict(p) PROVE UNCHANGED <<Line, Inside>>
  <2>1. seen[p] \in Procs /\ seen[p] \notin Living
    BY <1>3 DEF Evict, EvictsTheDead, Alive, Living
  <2>2. Living' = Living
    BY <1>3 DEF Evict, Alive, Living
  <2>3. Line' = Line
    BY <1>3, <2>1, <2>2, KeepRemove DEF Evict, Line
  <2>4. Inside' = Inside
    BY <1>3 DEF Evict, Inside
  <2> QED
    BY <2>3, <2>4
<1>4. ASSUME NEW p \in Procs, Done(p) PROVE Fair!Next
  <2>1. Line' = Line
    BY <1>4, LineStays DEF Done, Alive
  <2>2. p \in Inside /\ Inside' = {}
    BY <1>4 DEF Done, Inside, HolderAtHead
  <2> QED
    BY <2>1, <2>2 DEF Fair!Next, Fair!Release
<1>5. ASSUME NEW p \in Procs, Unqueue(p) PROVE Fair!Next
  <2>1. Contains(Line, p)
    BY <1>5, LineMembers DEF Unqueue, QueuedOnce, WaitersQueued, Alive
  <2>2. Living' = Living /\ p \in Living
    BY <1>5 DEF Unqueue, Alive, Living
  <2>3. Line' = RemoveFirst(Line, p)
    BY <1>5, <2>2, KeepRemove DEF Unqueue, Line
  <2>4. Inside' = Inside \ {p}
    BY <1>5 DEF Unqueue, Inside
  <2> QED
    BY <2>1, <2>3, <2>4, SameOperators DEF Fair!Next, Fair!Leave
<1>6. ASSUME NEW p \in Procs, Die(p) PROVE [Fair!Next]_<<Line, Inside>>
  <2>1. Living' = Living \ {p} /\ Alive(p)
    BY <1>6 DEF Die, Alive, Living
  <2>2. Line' = RemoveFirst(Line, p)
    BY <1>6, <2>1, KeepWithout DEF Die, Line, QueuedOnce, NoStrayEntry
  <2>3. Inside' = Inside \ {p}
    BY <1>6 DEF Die, Inside, Alive
  <2>4. CASE Contains(Line, p)
    BY <2>2, <2>3, <2>4, SameOperators DEF Fair!Next, Fair!Leave
  <2>5. CASE ~Contains(Line, p)
    <3>1. p \notin Inside
      BY <2>1, <2>5, LineMembers DEF Inside, QueuedOnce, WaitersQueued
    <3>2. Line' = Line
      BY <2>2, <2>5, RemoveFirstNone
    <3> QED
      BY <2>3, <3>1, <3>2
  <2> QED
    BY <2>4, <2>5
<1>7. ASSUME NEW p \in Procs,
             \/ Call(p) \/ Probe(p) \/ WakeUp(p) \/ WaitTimeout(p) \/ LookNext(p)
             \/ Notify(p) \/ CleanUp(p) \/ Abort(p) \/ Expire(p) \/ Reap(p)
      PROVE  UNCHANGED <<Line, Inside>>
  <2> USE DEF Call, Probe, WakeUp, WaitTimeout, LookNext, Notify, CleanUp, Abort, Expire, Reap
  <2>1. queue' = queue /\ \A q \in Procs : Alive(q)' <=> Alive(q)
    BY <1>7 DEF Alive
  <2>2. Inside' = Inside
    BY <1>7 DEF Inside
  <2> QED
    BY <2>1, <2>2, LineStays
<1>8. ~Lose
  BY DEF Lose
<1> QED
  BY <1>1, <1>2, <1>3, <1>4, <1>5, <1>6, <1>7, <1>8 DEF Next, Acquire, Finally

(* Until Redis loses its keys, every step of the lock is one of FairLock   *)
(* or invisible to it: the living are served one at a time and in the      *)
(* order of their rpush, and the commands in between, the removal of the   *)
(* dead included, do not show.                                             *)
THEOREM FairLockUntilLoss ==
  Spec => Fair!Init /\ [][losses' = 0 => [Fair!Next]_<<Line, Inside>>]_vars
<1>1. Init => Fair!Init
  BY KeepEmpty DEF Init, Fair!Init, Line, Inside
<1>2. TypeOK /\ HolderInv /\ QueueInv /\ [Next]_vars
      => [losses' = 0 => [Fair!Next]_<<Line, Inside>>]_vars
  <2> SUFFICES ASSUME TypeOK, HolderInv, QueueInv, Next, losses' = 0
               PROVE  [Fair!Next]_<<Line, Inside>>
    OBVIOUS
  <2>1. losses = 0
    BY OnlyLoseLoses
  <2> QED
    BY <2>1, FairSteps DEF HolderInv, QueueInv, QueuedOnce
<1>3. QED
  BY <1>1, <1>2, TypeCorrect, HolderInvariant, QueueInvariant, PTL DEF Spec

(* While Redis keeps its keys, the lock does what FairLock promises.       *)
THEOREM FairLockImplemented == MaxLosses = 0 => (Spec => ImplementsFairLock)
<1> SUFFICES ASSUME MaxLosses = 0 PROVE Spec => ImplementsFairLock
  OBVIOUS
<1>1. /\ TypeOK /\ TypeOK'
      /\ [losses' = 0 => [Fair!Next]_<<Line, Inside>>]_vars
      => [Fair!Next]_<<Line, Inside>>
  <2>1. TypeOK' => losses' = 0
    BY DEF TypeOK
  <2>2. UNCHANGED vars => UNCHANGED <<Line, Inside>>
    BY LineStays DEF vars, Inside, Alive
  <2> QED
    BY <2>1, <2>2
<1>2. QED
  BY <1>1, TypeCorrect, FairLockUntilLoss, PTL DEF ImplementsFairLock, Fair!Spec, Fair!vars
===============================================================================
