--------------------------- MODULE CreaterepoProofs ---------------------------
(***************************************************************************)
(* Theorems about Createrepo, for every set of processes and of requests,  *)
(* every batch size, and every number of deaths and of failures, with and  *)
(* without the reuse of PIDs.                                              *)
(***************************************************************************)
EXTENDS Createrepo, QueueTheorems, FiniteSetTheorems, TLAPS

(* inside the with statement of main_try_lock *)
Body == {"check", "delete", "list", "read", "create", "remove", "appdata",
         "commit", "done", "failed"}

(* The lock is held by whoever is in the body, alone ... *)
HolderAlone ==
  /\ \A p \in Procs : pc[p] \in Body => p \in inside
  /\ \A p, q \in inside : p = q

(* ... so that nobody removes what it is about to publish, ... *)
AddsExist == \A p \in Procs : pc[p] = "create" => opts.add \subseteq dirs

(* ... nor publishes what it is about to remove. *)
DeletesExcluded == \A p \in Procs : pc[p] = "remove" => meta \cap opts.delete = {}

RepodataInv ==
  /\ pc \in [Procs -> States]
  /\ inside \subseteq Procs
  /\ HolderAlone
  /\ NoDanglingPackage
  /\ AddsExist
  /\ DeletesExcluded

(* One step per action of a process.                                       *)
LEMMA RepodataInductive == RepodataInv /\ [Next]_vars => RepodataInv'
<1> USE DEF RepodataInv, HolderAlone, AddsExist, DeletesExcluded,
            NoDanglingPackage, Body, States
<1> SUFFICES ASSUME RepodataInv, [Next]_vars PROVE RepodataInv'
  OBVIOUS
<1> USE DEF Step, Goto, lockVars, redisVars, bodyVars, diskVars, faultVars
<1>1. ASSUME NEW p \in Procs, NEW r \in Requests, Start(p, r) PROVE RepodataInv'
  BY <1>1 DEF Start
<1>2. ASSUME NEW p \in Procs, MakeRequest(p) PROVE RepodataInv'
  BY <1>2 DEF MakeRequest
<1>3. ASSUME NEW p \in Procs, Queue(p) PROVE RepodataInv'
  BY <1>3 DEF Queue, Lock!Arrive
<1>4. ASSUME NEW p \in Procs, Enter(p) PROVE RepodataInv'
  BY <1>4 DEF Enter, Lock!Grab
<1>5. ASSUME NEW p \in Procs, CheckProcessed(p) PROVE RepodataInv'
  BY <1>5 DEF CheckProcessed
<1>6. ASSUME NEW p \in Procs, DeleteKey(p) PROVE RepodataInv'
  BY <1>6 DEF DeleteKey
<1>7. ASSUME NEW p \in Procs, ListKeys(p) PROVE RepodataInv'
  BY <1>7 DEF ListKeys
<1>8. ASSUME NEW p \in Procs, NEW q \in Procs, ReadKey(p, q) PROVE RepodataInv'
  BY <1>8 DEF ReadKey
<1>9. ASSUME NEW p \in Procs, MergeOwn(p) PROVE RepodataInv'
  BY <1>9 DEF MergeOwn
<1>10. ASSUME NEW p \in Procs, RunCreaterepo(p) PROVE RepodataInv'
  BY <1>10 DEF RunCreaterepo, Published
<1>11. ASSUME NEW p \in Procs, DeleteBuilds(p) PROVE RepodataInv'
  BY <1>11 DEF DeleteBuilds
<1>12. ASSUME NEW p \in Procs, AddAppdata(p) PROVE RepodataInv'
  BY <1>12 DEF AddAppdata
<1>13. ASSUME NEW p \in Procs, CommandFails(p) PROVE RepodataInv'
  BY <1>13 DEF CommandFails
<1>14. ASSUME NEW p \in Procs, NEW q \in Procs, Commit(p, q) PROVE RepodataInv'
  BY <1>14 DEF Commit
<1>15. ASSUME NEW p \in Procs, Committed(p) PROVE RepodataInv'
  BY <1>15 DEF Committed
<1>16. ASSUME NEW p \in Procs, Exit(p) PROVE RepodataInv'
  BY <1>16 DEF Exit, End, Lock!Leave
<1>17. ASSUME NEW p \in Procs, Die(p) PROVE RepodataInv'
  <2>1. \A q \in Procs \ {p} : pc'[q] = pc[q]
    BY <1>17 DEF Die, End
  <2>2. dirs' = dirs /\ meta' = meta /\ pc' = [pc EXCEPT ![p] = "free"]
    BY <1>17 DEF Die, End
  <2>3. inside' \in {inside, inside \ {p}}
    BY <1>17 DEF Die, Lock!Leave
  <2>4. CASE p \in inside
    BY <2>1, <2>2, <2>3, <2>4
  <2>5. CASE p \notin inside
    <3>1. opts' = opts
      BY <1>17, <2>5 DEF Die
    <3>2. QED
      BY <2>1, <2>2, <2>3, <2>5, <3>1
  <2>6. QED
    BY <2>4, <2>5
<1>18. CASE UNCHANGED vars
  BY <1>18 DEF vars
<1>19. QED
  BY <1>1, <1>2, <1>3, <1>4, <1>5, <1>6, <1>7, <1>8, <1>9, <1>10, <1>11, <1>12,
     <1>13, <1>14, <1>15, <1>16, <1>17, <1>18 DEF Next, Run

(* The invariant about the repodata, which NothingDangles rests on.        *)
LEMMA RepodataInvariant == Spec => []RepodataInv
<1>1. Init => RepodataInv
  BY DEF Init, Lock!Init, RepodataInv, HolderAlone, AddsExist, DeletesExcluded,
         NoDanglingPackage, Body, States
<1>2. QED
  BY <1>1, RepodataInductive, PTL DEF Spec

(* The repodata name only packages that exist, whoever dies between        *)
(* writing them and removing the directories.                              *)
THEOREM NothingDangles == Spec => []NoDanglingPackage
BY RepodataInvariant, PTL DEF RepodataInv

-------------------------------------------------------------------------------
(* What a process finds in Redis, and what it leaves there. *)

DataTypes ==
  /\ asked \in [Procs -> Requests \cup {NoRequest}]
  /\ status \in [Procs -> BOOLEAN]
  /\ task \in [Procs -> Requests \cup {NoRequest}]
  /\ \A p \in Procs : pc[p] = "free" <=> task[p] = NoRequest
  /\ todo \subseteq Procs /\ notify \subseteq Procs
  /\ opts \in [full : BOOLEAN, add : SUBSET Builds, delete : SUBSET Builds]
  /\ dirs \subseteq Builds /\ meta \subseteq Builds /\ stale \subseteq Builds
  /\ outcome \in [Requests -> {"new", "running", "ok", "failed", "killed"}]
  /\ deaths \in 0 .. MaxDeaths /\ failures \in 0 .. MaxFailures

(* Only the process in the body has a batch, and it is not part of it. *)
BatchInv ==
  /\ \A p \in inside : pc[p] \in Body
  /\ \A p \in Procs : pc[p] \in Body =>
       /\ p \notin todo /\ p \notin notify
       /\ pc[p] \notin {"check", "delete"} => asked[p] = NoRequest /\ ~status[p]
  /\ (\A p \in Procs : pc[p] \notin Body \ {"check", "delete", "list"}) =>
       todo = {} /\ notify = {} /\ opts = NoOpts

(* As long as nobody was killed, whoever has a key is still there to       *)
(* delete it, and whoever is notified waits for the lock.                  *)
KeyInv ==
  deaths = 0 => \A p \in Procs :
    /\ Exists(p) => pc[p] \in {"lock", "queued", "check", "delete"}
    /\ p \in notify => pc[p] \in {"lock", "queued"}

KeysInv == RepodataInv /\ DataTypes /\ BatchInv /\ KeyInv

(* One step per action, on top of RepodataInductive.                       *)
LEMMA KeysInductive == KeysInv /\ [Next]_vars => KeysInv'
<1> SUFFICES ASSUME KeysInv, [Next]_vars, RepodataInv' PROVE KeysInv'
  BY RepodataInductive DEF KeysInv
<1> USE CreaterepoAssumption
    DEF KeysInv, RepodataInv, HolderAlone, DataTypes, BatchInv, KeyInv, Body, States, Exists,
        NoOpts, Step, Goto, lockVars, redisVars, bodyVars, diskVars, faultVars
<1>1. ASSUME NEW p \in Procs, NEW r \in Requests, Start(p, r) PROVE KeysInv'
  BY <1>1 DEF Start
<1>2. ASSUME NEW p \in Procs, MakeRequest(p) PROVE KeysInv'
  BY <1>2 DEF MakeRequest
<1>3. ASSUME NEW p \in Procs, Queue(p) PROVE KeysInv'
  BY <1>3 DEF Queue, Lock!Arrive
<1>4. ASSUME NEW p \in Procs, Enter(p) PROVE KeysInv'
  BY <1>4 DEF Enter, Lock!Grab
<1>5. ASSUME NEW p \in Procs, CheckProcessed(p) PROVE KeysInv'
  BY <1>5 DEF CheckProcessed
<1>6. ASSUME NEW p \in Procs, DeleteKey(p) PROVE KeysInv'
  BY <1>6 DEF DeleteKey
<1>7. ASSUME NEW p \in Procs, ListKeys(p) PROVE KeysInv'
  BY <1>7 DEF ListKeys
<1>8. ASSUME NEW p \in Procs, NEW q \in Procs, ReadKey(p, q) PROVE KeysInv'
  <2>1. UNCHANGED <<lockVars, redisVars, pc, task, diskVars, outcome, faultVars>>
    BY <1>8 DEF ReadKey
  <2>2. /\ todo' \subseteq todo
        /\ \/ UNCHANGED <<notify, opts>>
           \/ /\ notify' = notify \cup {q} /\ asked[q] # NoRequest
              /\ opts' = Merge(asked[q])
    BY <1>8 DEF ReadKey
  <2>3. opts' \in [full : BOOLEAN, add : SUBSET Builds, delete : SUBSET Builds]
    <3>1. ASSUME NEW r \in Requests
          PROVE  Merge(r) \in [full : BOOLEAN, add : SUBSET Builds, delete : SUBSET Builds]
      BY DEF Merge, Full
    <3> QED
      BY <2>2, <3>1
  <2>4. pc[p] = "read" /\ p \in inside /\ q \in Procs
    BY <1>8 DEF ReadKey
  <2>5. DataTypes'
    BY <2>1, <2>2, <2>3
  <2>6. notify' # notify => q # p
    BY <2>2, <2>4
  <2>7. BatchInv'
    BY <2>1, <2>2, <2>4, <2>6
  <2>8. KeyInv'
    BY <2>1, <2>2, <2>4, <2>6
  <2> QED
    BY <2>5, <2>7, <2>8
<1>9. ASSUME NEW p \in Procs, MergeOwn(p) PROVE KeysInv'
  BY <1>9 DEF MergeOwn
<1>10. ASSUME NEW p \in Procs, RunCreaterepo(p) PROVE KeysInv'
  BY <1>10 DEF RunCreaterepo, Published
<1>11. ASSUME NEW p \in Procs, DeleteBuilds(p) PROVE KeysInv'
  BY <1>11 DEF DeleteBuilds
<1>12. ASSUME NEW p \in Procs, AddAppdata(p) PROVE KeysInv'
  BY <1>12 DEF AddAppdata
<1>13. ASSUME NEW p \in Procs, CommandFails(p) PROVE KeysInv'
  BY <1>13 DEF CommandFails, Failure
<1>14. ASSUME NEW p \in Procs, NEW q \in Procs, Commit(p, q) PROVE KeysInv'
  BY <1>14 DEF Commit
<1>15. ASSUME NEW p \in Procs, Committed(p) PROVE KeysInv'
  BY <1>15 DEF Committed
<1>16. ASSUME NEW p \in Procs, Exit(p) PROVE KeysInv'
  BY <1>16 DEF Exit, End, Lock!Leave, ResetBody
<1>17. ASSUME NEW p \in Procs, Die(p) PROVE KeysInv'
  <2>1. /\ pc' = [pc EXCEPT ![p] = "free"] /\ task' = [task EXCEPT ![p] = NoRequest]
        /\ outcome' = [outcome EXCEPT ![task[p]] = "killed"]
        /\ deaths' = deaths + 1 /\ deaths < MaxDeaths
        /\ UNCHANGED <<redisVars, diskVars, failures>>
    BY <1>17 DEF Die, End
  <2>2. task[p] \in Requests
    BY <1>17 DEF Die
  <2>3. /\ inside' \subseteq inside /\ (p \notin inside => inside' = inside)
        /\ p \notin inside'
    <3>1. CASE pc[p] \in {"request", "lock"}
      BY <1>17, <3>1 DEF Die
    <3>2. CASE pc[p] \notin {"request", "lock"}
      <4>1. Lock!Leave(p)
        BY <1>17, <3>2 DEF Die
      <4>2. inside' = inside \ {p}
        BY <4>1 DEF Lock!Leave
      <4> QED
        BY <4>2
    <3> QED
      BY <3>1, <3>2
  <2>4. IF p \in inside THEN ResetBody ELSE UNCHANGED bodyVars
    BY <1>17 DEF Die
  <2>5. DataTypes'
    <3>1. /\ todo' \subseteq Procs /\ notify' \subseteq Procs
          /\ opts' \in [full : BOOLEAN, add : SUBSET Builds, delete : SUBSET Builds]
      <4>1. CASE p \in inside
        <5>1. ResetBody
          BY <2>4, <4>1
        <5> QED
          BY <5>1 DEF ResetBody
      <4>2. CASE p \notin inside
        BY <2>4, <4>2
      <4> QED
        BY <4>1, <4>2
    <3>2. \A q \in Procs : pc'[q] = "free" <=> task'[q] = NoRequest
      BY <2>1
    <3> QED
      BY <2>1, <2>2, <3>1, <3>2
  <2>6. KeyInv'
    BY <2>1
  <2>7. BatchInv'
    <3>1. CASE p \in inside
      BY <2>1, <2>3, <2>4, <3>1 DEF ResetBody
    <3>2. CASE p \notin inside
      <4>1. pc[p] \notin Body
        BY <3>2
      <4> QED
        BY <2>1, <2>3, <2>4, <3>2, <4>1
    <3> QED
      BY <3>1, <3>2
  <2> QED
    BY <2>5, <2>6, <2>7
<1>18. CASE UNCHANGED vars
  BY <1>18 DEF vars
<1> QED
  BY <1>1, <1>2, <1>3, <1>4, <1>5, <1>6, <1>7, <1>8, <1>9, <1>10, <1>11, <1>12, <1>13, <1>14, <1>15, <1>16, <1>17, <1>18 DEF Next, Run

(* No key, no batch, nothing published that is not there.                 *)
LEMMA KeysAtStart == Init => KeysInv
<1> SUFFICES ASSUME Init PROVE KeysInv
  OBVIOUS
<1> USE CreaterepoAssumption DEF Init, Lock!Init
<1>1. RepodataInv
  BY DEF RepodataInv, HolderAlone, AddsExist, DeletesExcluded, NoDanglingPackage, Body, States
<1>2. DataTypes
  BY DEF DataTypes, NoOpts
<1>3. BatchInv /\ KeyInv
  BY DEF BatchInv, KeyInv, Exists, Body
<1> QED
  BY <1>1, <1>2, <1>3 DEF KeysInv

(* The invariant of every behaviour, with or without the reuse of PIDs.    *)
LEMMA KeysInvariant == Spec => []KeysInv
BY KeysAtStart, KeysInductive, PTL DEF Spec

(* The assertion in options() never fails.                                 *)
THEOREM OwnKeyAbsent == Spec => []OwnKeyNotListed
<1>1. KeysInv => OwnKeyNotListed
  BY DEF KeysInv, BatchInv, Body, OwnKeyNotListed
<1> QED
  BY <1>1, KeysInvariant, PTL

(* Redis does not fill up with the keys of processes that ended, unless    *)
(* they were killed.                                                       *)
THEOREM NoKeyStays == Spec => []NoKeyLeft
<1>1. KeysInv => NoKeyLeft
  BY DEF KeysInv, KeyInv, NoKeyLeft
<1> QED
  BY <1>1, KeysInvariant, PTL

-------------------------------------------------------------------------------
(* What is reported as done is in the repository. *)

Served(r) == Add[r] \subseteq meta \cup Withdrawn /\ Delete[r] \cap dirs = {}

(* opts covers a request of the batch, before and after MergeOwn. *)
Collected(r) ==
  /\ Delete[r] \subseteq opts.delete
  /\ opts.full \/ (Add[r] \subseteq opts.add /\ ~Full(r))

Prepared(r) ==
  /\ Delete[r] \cap dirs \subseteq opts.delete
  /\ Add[r] \subseteq Withdrawn \cup (IF opts.full THEN dirs ELSE opts.add)

Written(r) ==
  Delete[r] \cap dirs \subseteq opts.delete /\ Add[r] \subseteq meta \cup Withdrawn

Batch(p) == {task[p]} \cup {asked[q] : q \in notify}

(* What was asked for, and by whom *)
AskedInv ==
  /\ \A q \in Procs : asked[q] # NoRequest => outcome[asked[q]] # "new"
  /\ \A q \in Procs : task[q] # NoRequest => outcome[task[q]] # "new"
  /\ \A q \in notify : asked[q] # NoRequest
  /\ \A q \in Procs : pc[q] = "request" => asked[q] = NoRequest /\ ~status[q]
  /\ \A q \in Procs : pc[q] \in {"lock", "queued", "check", "delete"} => asked[q] = task[q]
  /\ opts.delete \subseteq Withdrawn
  /\ Builds \ dirs \subseteq Withdrawn

(* How far the batch of the process in the body is *)
ServedInv ==
  /\ \A q \in Procs :
       /\ pc[q] \in {"lock", "queued", "check", "delete"} /\ status[q] => Served(task[q])
       /\ pc[q] = "read" => \A x \in notify : Collected(asked[x])
       /\ pc[q] = "create" => \A r \in Batch(q) : Prepared(r)
       /\ pc[q] = "remove" => \A r \in Batch(q) : Written(r)
       /\ pc[q] \in {"appdata", "commit"} => \A r \in Batch(q) : Served(r)
       /\ pc[q] = "done" => Served(task[q])
  /\ \A r \in Requests : outcome[r] = "ok" => Served(r)

WorkInv == KeysInv /\ AskedInv /\ ServedInv

(* Who asked for what is withdrawn, before and after a step.               *)
LEMMA WithdrawnMembers ==
  /\ \A x : x \in Withdrawn <=> \E r \in Requests : outcome[r] # "new" /\ x \in Delete[r]
  /\ \A x : x \in Withdrawn' <=> \E r \in Requests : outcome'[r] # "new" /\ x \in Delete[r]
BY DEF Withdrawn

(* Nothing that was asked for is taken back.                               *)
LEMMA WithdrawnGrows ==
  ASSUME KeysInv, AskedInv, [Next]_vars
  PROVE  /\ \A r \in Requests : outcome[r] # "new" => outcome'[r] # "new"
         /\ Withdrawn \subseteq Withdrawn'
<1>1. \A r \in Requests : outcome[r] # "new" => outcome'[r] # "new"
  <2> USE DEF KeysInv, DataTypes, AskedInv
  <2>1. ASSUME NEW p \in Procs, NEW how \in {"ok", "failed", "killed"}, End(p, how)
        PROVE \A r \in Requests : outcome[r] # "new" => outcome'[r] # "new"
    BY <2>1 DEF End
  <2>2. ASSUME NEW p \in Procs, NEW r \in Requests, Start(p, r)
        PROVE \A q \in Requests : outcome[q] # "new" => outcome'[q] # "new"
    BY <2>2 DEF Start
  <2>3. ASSUME NEW p \in Procs, Exit(p) \/ Die(p)
        PROVE \E how \in {"ok", "failed", "killed"} : End(p, how)
    BY <2>3 DEF Exit, Die
  <2>4. ASSUME NEW p \in Procs, Run(p), ~Exit(p) PROVE UNCHANGED outcome
    BY <2>4 DEF Run, MakeRequest, Queue, Enter, CheckProcessed, DeleteKey, ListKeys, MergeOwn,
       RunCreaterepo, DeleteBuilds, AddAppdata, CommandFails, Committed, ReadKey, Commit
  <2> QED
    BY <2>1, <2>2, <2>3, <2>4 DEF Next, vars
<1> QED
  BY <1>1, WithdrawnMembers

(* One step per action; the batch of the process in the body is what it    *)
(* read, until it is merged, written, removed and reported, in that order. *)
LEMMA WorkInductive == ~PidReuse /\ WorkInv /\ [Next]_vars => WorkInv'
<1> SUFFICES ASSUME ~PidReuse, WorkInv, [Next]_vars, KeysInv', Withdrawn \subseteq Withdrawn',
                    \A r \in Requests : outcome[r] # "new" => outcome'[r] # "new"
             PROVE  AskedInv' /\ ServedInv'
  BY KeysInductive, WithdrawnGrows DEF WorkInv
<1>a. \A r \in Requests : outcome[r] # "new" => Delete[r] \subseteq Withdrawn
  BY WithdrawnMembers
<1> USE CreaterepoAssumption
    DEF WorkInv, KeysInv, RepodataInv, HolderAlone, NoDanglingPackage, DataTypes, BatchInv,
        Body, Exists, AskedInv, ServedInv, Served, Batch,
        Step, Goto, lockVars, redisVars, bodyVars, diskVars, faultVars
<1>1. ASSUME NEW p \in Procs, NEW r \in Requests, Start(p, r) PROVE AskedInv' /\ ServedInv'
  <2>1. AskedInv'
    BY <1>1 DEF Start
  <2>2. ServedInv'
    BY <1>1 DEF Start, Collected, Prepared, Written
  <2> QED
    BY <2>1, <2>2
<1>2. ASSUME NEW p \in Procs, MakeRequest(p) PROVE AskedInv' /\ ServedInv'
  <2>1. AskedInv'
    BY <1>2 DEF MakeRequest
  <2>2. ServedInv'
    BY <1>2 DEF MakeRequest, Collected, Prepared, Written
  <2> QED
    BY <2>1, <2>2
<1>3. ASSUME NEW p \in Procs, Queue(p) PROVE AskedInv' /\ ServedInv'
  <2>1. AskedInv'
    BY <1>3 DEF Queue
  <2>2. ServedInv'
    BY <1>3 DEF Queue, Collected, Prepared, Written
  <2> QED
    BY <2>1, <2>2
<1>4. ASSUME NEW p \in Procs, Enter(p) PROVE AskedInv' /\ ServedInv'
  <2>1. AskedInv'
    BY <1>4 DEF Enter, Lock!Grab
  <2>2. ServedInv'
    BY <1>4 DEF Enter, Lock!Grab, Collected, Prepared, Written
  <2> QED
    BY <2>1, <2>2
<1>5. ASSUME NEW p \in Procs, CheckProcessed(p) PROVE AskedInv' /\ ServedInv'
  <2>1. AskedInv'
    BY <1>5 DEF CheckProcessed
  <2>2. ServedInv'
    BY <1>5 DEF CheckProcessed, Collected, Prepared, Written
  <2> QED
    BY <2>1, <2>2
<1>6. ASSUME NEW p \in Procs, DeleteKey(p) PROVE AskedInv' /\ ServedInv'
  <2>1. AskedInv'
    BY <1>6 DEF DeleteKey
  <2>2. ServedInv'
    BY <1>6 DEF DeleteKey, Collected, Prepared, Written
  <2> QED
    BY <2>1, <2>2
<1>7. ASSUME NEW p \in Procs, ListKeys(p) PROVE AskedInv' /\ ServedInv'
  <2>1. AskedInv'
    BY <1>7 DEF ListKeys
  <2>2. ServedInv'
    BY <1>7 DEF ListKeys, Collected, Prepared, Written
  <2> QED
    BY <2>1, <2>2
<1>8. ASSUME NEW p \in Procs, NEW q \in Procs, ReadKey(p, q) PROVE AskedInv' /\ ServedInv'
  <2>1. AskedInv'
    <3>1. /\ UNCHANGED <<lockVars, redisVars, pc, task, diskVars, outcome, faultVars>>
          /\ \/ UNCHANGED <<notify, opts>>
             \/ /\ notify' = notify \cup {q} /\ asked[q] # NoRequest
                /\ opts' = Merge(asked[q])
      BY <1>8 DEF ReadKey
    <3>2. asked[q] # NoRequest => Delete[asked[q]] \subseteq Withdrawn
      BY <1>a
    <3>3. opts'.delete \subseteq Withdrawn
      BY <3>1, <3>2 DEF Merge
    <3> QED
      BY <3>1, <3>3
  <2>2. ServedInv'
    BY <1>8 DEF ReadKey, Merge, Collected
  <2> QED
    BY <2>1, <2>2
<1>9. ASSUME NEW p \in Procs, MergeOwn(p) PROVE AskedInv' /\ ServedInv'
  <2> DEFINE r      == task[p]
             full   == opts.full \/ Full(r)
             delete == opts.delete \cup Delete[r]
             add    == IF full THEN {} ELSE (opts.add \cup Add[r]) \ delete
  <2>1. /\ opts' = [full |-> full, add |-> add \cap dirs, delete |-> delete \cap dirs]
        /\ pc[p] = "read" /\ r \in Requests /\ outcome[r] # "new"
        /\ UNCHANGED <<lockVars, redisVars, task, todo, notify, diskVars, outcome, faultVars>>
    BY <1>9 DEF MergeOwn
  <2>2. pc' = [pc EXCEPT ![p] = IF opts'.full \/ opts'.add \cup opts'.delete # {}
                                THEN "create" ELSE "commit"]
    BY <1>9 DEF MergeOwn
  <2>3. delete \subseteq Withdrawn /\ Builds \ dirs \subseteq Withdrawn
    BY <1>a, <2>1
  <2>4. AskedInv'
    BY <2>1, <2>2, <2>3
  <2>5. ASSUME NEW x \in Batch(p) PROVE Prepared(x)'
    <3>1. x \in Requests /\ Delete[x] \subseteq delete
      BY <2>1, <2>5 DEF Collected
    <3>2. Delete[x] \cap dirs \subseteq opts'.delete
      BY <2>1, <3>1
    <3>3. CASE full
      BY <2>1, <2>3, <3>1, <3>2, <3>3 DEF Prepared
    <3>4. CASE ~full
      <4>1. Add[x] \subseteq opts.add \cup Add[r]
        BY <2>1, <2>5, <3>4 DEF Collected
      <4>2. Add[x] \subseteq Withdrawn \cup opts'.add
        BY <2>1, <2>3, <3>1, <3>4, <4>1
      <4> QED
        BY <2>1, <3>1, <3>2, <3>4, <4>2 DEF Prepared
    <3> QED
      BY <3>3, <3>4
  <2>6. \A q \in Procs : q # p => pc[q] \notin Body /\ pc'[q] = pc[q]
    BY <2>1, <2>2
  <2>7. Batch(p)' = Batch(p)
    BY <2>1
  <2>8. pc'[p] = "commit" => \A x \in Batch(p) : Served(x)'
    BY <2>1, <2>2, <2>5 DEF Prepared
  <2>9. ServedInv'
    BY <2>1, <2>2, <2>5, <2>6, <2>7, <2>8
  <2> QED
    BY <2>4, <2>9
<1>10. ASSUME NEW p \in Procs, RunCreaterepo(p) PROVE AskedInv' /\ ServedInv'
  <2>1. AskedInv'
    BY <1>10 DEF RunCreaterepo, Published
  <2>2. ServedInv'
    BY <1>10 DEF RunCreaterepo, Published, Prepared, Written
  <2> QED
    BY <2>1, <2>2
<1>11. ASSUME NEW p \in Procs, DeleteBuilds(p) PROVE AskedInv' /\ ServedInv'
  <2>1. AskedInv'
    BY <1>11 DEF DeleteBuilds
  <2>2. ServedInv'
    BY <1>11 DEF DeleteBuilds, Written
  <2> QED
    BY <2>1, <2>2
<1>12. ASSUME NEW p \in Procs, AddAppdata(p) PROVE AskedInv' /\ ServedInv'
  <2>1. AskedInv'
    BY <1>12 DEF AddAppdata
  <2>2. ServedInv'
    BY <1>12 DEF AddAppdata, Collected, Prepared, Written
  <2> QED
    BY <2>1, <2>2
<1>13. ASSUME NEW p \in Procs, CommandFails(p) PROVE AskedInv' /\ ServedInv'
  <2>1. AskedInv'
    BY <1>13 DEF CommandFails, Failure
  <2>2. ServedInv'
    BY <1>13 DEF CommandFails, Failure, Collected, Prepared, Written
  <2> QED
    BY <2>1, <2>2
<1>14. ASSUME NEW p \in Procs, NEW q \in Procs, Commit(p, q) PROVE AskedInv' /\ ServedInv'
  <2>1. AskedInv'
    BY <1>14 DEF Commit
  <2>2. ServedInv'
    BY <1>14 DEF Commit, Collected, Prepared, Written
  <2> QED
    BY <2>1, <2>2
<1>15. ASSUME NEW p \in Procs, Committed(p) PROVE AskedInv' /\ ServedInv'
  <2>1. AskedInv'
    BY <1>15 DEF Committed
  <2>2. ServedInv'
    BY <1>15 DEF Committed, Collected, Prepared, Written
  <2> QED
    BY <2>1, <2>2
<1>16. ASSUME NEW p \in Procs, Exit(p) PROVE AskedInv' /\ ServedInv'
  <2>1. AskedInv'
    <3>1. /\ task' = [task EXCEPT ![p] = NoRequest] /\ pc' = [pc EXCEPT ![p] = "free"]
          /\ UNCHANGED <<redisVars, diskVars>> /\ ResetBody
      BY <1>16 DEF Exit, End
    <3> QED
      BY <3>1 DEF ResetBody, NoOpts
  <2>2. ServedInv'
    BY <1>16 DEF Exit, End, ResetBody, Collected, Prepared, Written
  <2> QED
    BY <2>1, <2>2
<1>17. ASSUME NEW p \in Procs, Die(p) PROVE AskedInv' /\ ServedInv'
  <2>1. AskedInv'
    <3>1. /\ task' = [task EXCEPT ![p] = NoRequest] /\ pc' = [pc EXCEPT ![p] = "free"]
          /\ UNCHANGED <<redisVars, diskVars>>
          /\ IF p \in inside THEN ResetBody ELSE UNCHANGED bodyVars
      BY <1>17 DEF Die, End
    <3>2. notify' \subseteq notify /\ opts'.delete \subseteq opts.delete
      BY <3>1 DEF ResetBody, NoOpts
    <3> QED
      BY <3>1, <3>2
  <2>2. ServedInv'
    BY <1>17 DEF Die, End, ResetBody, Collected, Prepared, Written
  <2> QED
    BY <2>1, <2>2
<1>18. CASE UNCHANGED vars
  BY <1>18 DEF vars, Collected, Prepared, Written
<1> QED
  BY <1>1, <1>2, <1>3, <1>4, <1>5, <1>6, <1>7, <1>8, <1>9, <1>10, <1>11, <1>12, <1>13, <1>14, <1>15, <1>16, <1>17, <1>18 DEF Next, Run

LEMMA WorkAtStart == Init => WorkInv
<1> SUFFICES ASSUME Init PROVE WorkInv
  OBVIOUS
<1> USE CreaterepoAssumption DEF Init, Lock!Init
<1>1. KeysInv
  BY KeysAtStart
<1>2. AskedInv /\ ServedInv
  BY DEF AskedInv, ServedInv, NoOpts
<1> QED
  BY <1>1, <1>2 DEF WorkInv

(* check_processed and commit are right about the requests of others: a    *)
(* caller that is told so finds its change in the repository, provided     *)
(* that no PID is used again while its key is in Redis.                    *)
THEOREM ReportedPublished ==
  ASSUME ~PidReuse
  PROVE  Spec => []ReportedIsPublished
<1>1. WorkInv /\ [Next]_vars => WorkInv'
  BY WorkInductive
<1>2. WorkInv => ReportedIsPublished
  BY DEF WorkInv, KeysInv, RepodataInv, NoDanglingPackage, ServedInv, Served, ReportedIsPublished
<1> QED
  BY <1>1, <1>2, WorkAtStart, PTL DEF Spec

-------------------------------------------------------------------------------
(* Type correctness, and the size of the batches. *)

SizeInv ==
  /\ IsFiniteSet(notify) /\ Cardinality(notify) < MaxBatch
  /\ \A p \in Procs : pc[p] = "read" /\ todo # {} => Cardinality(notify) < MaxBatch - 1

(* options() stops one below MAX_IN_BATCH: the rest is the own request.    *)
LEMMA SizeInductive == KeysInv /\ SizeInv /\ [Next]_vars => SizeInv'
<1> SUFFICES ASSUME KeysInv, SizeInv, [Next]_vars PROVE SizeInv'
  OBVIOUS
<1> USE CreaterepoAssumption, FS_EmptySet
    DEF SizeInv, KeysInv, RepodataInv, HolderAlone, DataTypes, BatchInv, Body, States,
        Step, Goto, lockVars, redisVars, bodyVars, diskVars, faultVars
<1>1. ASSUME NEW p \in Procs, NEW q \in Procs, ReadKey(p, q) PROVE SizeInv'
  <2>1. pc' = pc /\ pc[p] = "read" /\ q \in todo
    BY <1>1 DEF ReadKey
  <2>2. CASE notify' = notify \cup {q} /\ todo' = IF BatchComplete(notify') THEN {} ELSE todo \ {q}
    <3>1. /\ IsFiniteSet(notify')
          /\ Cardinality(notify') \in {Cardinality(notify), Cardinality(notify) + 1}
      BY <2>2, FS_AddElement
    <3>2. Cardinality(notify) \in Nat /\ Cardinality(notify) < MaxBatch - 1
      BY <2>1, FS_CardinalityType
    <3>3. todo' # {} => ~ (Cardinality(notify') >= MaxBatch - 1)
      BY <2>2, Zenon DEF BatchComplete
    <3>4. todo' # {} => Cardinality(notify') < MaxBatch - 1
      BY <3>1, <3>2, <3>3, CreaterepoAssumption
    <3> QED
      BY <2>1, <3>1, <3>2, <3>4
  <2>3. CASE notify' = notify
    BY <1>1, <2>1, <2>3 DEF ReadKey
  <2> QED
    BY <1>1, <2>2, <2>3 DEF ReadKey
<1>2. ASSUME NEW p \in Procs, NEW q \in Procs, Commit(p, q) PROVE SizeInv'
  <2>1. notify' = notify \ {q} /\ pc' = pc /\ todo' = todo /\ pc[p] = "commit"
    BY <1>2 DEF Commit
  <2>2. IsFiniteSet(notify') /\ Cardinality(notify') <= Cardinality(notify)
    BY <2>1, FS_RemoveElement, FS_CardinalityType
  <2> QED
    BY <2>1, <2>2, FS_CardinalityType
<1>3. ASSUME NEW p \in Procs, Exit(p) \/ Die(p) PROVE SizeInv'
  <2>1. /\ \A q \in Procs : pc'[q] = "read" => pc[q] = "read"
        /\ ResetBody \/ UNCHANGED bodyVars
    BY <1>3 DEF Exit, Die, End
  <2>2. CASE ResetBody
    <3>1. todo' = {} /\ notify' = {}
      BY <2>2 DEF ResetBody
    <3>2. IsFiniteSet(notify') /\ Cardinality(notify') = 0
      BY <3>1, FS_EmptySet
    <3> QED
      BY <3>1, <3>2
  <2>3. CASE UNCHANGED bodyVars
    BY <2>1, <2>3
  <2> QED
    BY <2>1, <2>2, <2>3
<1>4. ASSUME NEW p \in Procs, ListKeys(p) PROVE SizeInv'
  <2>1. notify = {} /\ notify' = notify
    BY <1>4 DEF ListKeys
  <2> QED
    BY <2>1, FS_EmptySet
<1>5. ASSUME NEW p \in Procs, NEW r \in Requests, Start(p, r) PROVE SizeInv'
  BY <1>5 DEF Start
<1>6. ASSUME NEW p \in Procs, MergeOwn(p) PROVE SizeInv'
  BY <1>6 DEF MergeOwn
<1>7. ASSUME NEW p \in Procs,
             \/ MakeRequest(p) \/ Queue(p) \/ Enter(p) \/ CheckProcessed(p) \/ DeleteKey(p)
             \/ RunCreaterepo(p) \/ DeleteBuilds(p) \/ AddAppdata(p) \/ CommandFails(p)
             \/ Committed(p)
      PROVE  SizeInv'
  <2>1. /\ \A q \in Procs : pc'[q] = "read" => pc[q] = "read"
        /\ UNCHANGED <<todo, notify>>
    BY <1>7 DEF MakeRequest, Queue, Enter, CheckProcessed, DeleteKey, RunCreaterepo, DeleteBuilds,
       AddAppdata, CommandFails, Committed
  <2> QED
    BY <2>1
<1>8. CASE UNCHANGED vars
  BY <1>8 DEF vars
<1> QED
  BY <1>1, <1>2, <1>3, <1>4, <1>5, <1>6, <1>7, <1>8 DEF Next, Run

(* The lock's line holds processes only.                                   *)
LEMMA LineInductive == line \in Seq(Procs) /\ [Next]_vars => line' \in Seq(Procs)
<1> SUFFICES ASSUME line \in Seq(Procs), [Next]_vars PROVE line' \in Seq(Procs)
  OBVIOUS
<1>1. ASSUME NEW p \in Procs, Lock!Leave(p) PROVE line' \in Seq(Procs)
  <2>1. line' = RemoveFirst(line, p)
    BY <1>1 DEF Lock!Leave, Lock!RemoveFirst, Lock!RemoveAt, Lock!SelectInSeq, Lock!Min,
       RemoveFirst, RemoveAt, SelectInSeq, Min
  <2> QED
    BY <2>1, RemoveFirstKeepsHead
<1>2. ASSUME NEW p \in Procs, Lock!Arrive(p) PROVE line' \in Seq(Procs)
  BY <1>2 DEF Lock!Arrive
<1>3. ASSUME NEW p \in Procs, Run(p) \/ Die(p) \/ (\E r \in Requests : Start(p, r))
      PROVE  Lock!Leave(p) \/ Lock!Arrive(p) \/ UNCHANGED line
  BY <1>3 DEF Run, Die, Start, MakeRequest, Queue, Enter, CheckProcessed, DeleteKey, ListKeys,
     ReadKey, MergeOwn, RunCreaterepo, DeleteBuilds, AddAppdata, CommandFails, Commit, Committed,
     Exit, Lock!Grab, lockVars
<1> QED
  BY <1>1, <1>2, <1>3 DEF Next, vars, lockVars

(* No step leaves a variable outside its type, and no batch gets larger    *)
(* than MAX_IN_BATCH.                                                      *)
THEOREM TypeCorrect == Spec => []TypeOK
<1>1. Init => KeysInv /\ SizeInv /\ line \in Seq(Procs)
  BY KeysAtStart, CreaterepoAssumption, FS_EmptySet DEF Init, Lock!Init, SizeInv
<1>2. KeysInv /\ SizeInv /\ line \in Seq(Procs) /\ [Next]_vars
        => (KeysInv /\ SizeInv /\ line \in Seq(Procs))'
  BY KeysInductive, SizeInductive, LineInductive
<1>3. KeysInv /\ SizeInv /\ line \in Seq(Procs) => TypeOK
  BY DEF KeysInv, RepodataInv, DataTypes, SizeInv, TypeOK
<1> QED
  BY <1>1, <1>2, <1>3, PTL DEF Spec

-------------------------------------------------------------------------------
(* How copr-repo uses the lock. *)

(* In the line is who waits for the lock or is in the body, once, and the  *)
(* body is that of the first.                                              *)
LineInv ==
  /\ line \in Seq(Procs) /\ IsInjective(line)
  /\ \A p \in Procs : Contains(line, p) <=> pc[p] \in Body \cup {"queued"}
  /\ \A p \in inside : line # <<>> /\ Head(line) = p

(* The instance of FairLock has operators of its own by these names.       *)
LEMMA SameOperators ==
  \A s, x : /\ Lock!Contains(s, x) <=> Contains(s, x)
           /\ Lock!RemoveFirst(s, x) = RemoveFirst(s, x)
BY DEF Lock!Contains, Lock!RemoveFirst, Lock!RemoveAt, Lock!SelectInSeq, Lock!Min,
       Contains, RemoveFirst, RemoveAt, SelectInSeq, Min

(* What a process does at the end of the with statement or of its life.    *)
LEMMA LeavesLine ==
  ASSUME LineInv, KeysInv, NEW p \in Procs, Lock!Leave(p), pc' = [pc EXCEPT ![p] = "free"]
  PROVE  LineInv'
<1> USE DEF LineInv, KeysInv, RepodataInv
<1>1. line' = RemoveFirst(line, p) /\ inside' = inside \ {p}
  BY SameOperators DEF Lock!Leave
<1>2. line' \in Seq(Procs) /\ IsInjective(line') /\ ~Contains(line', p)
  BY <1>1, RemoveFirstKeepsHead, RemoveFirstInjective
<1>3. \A q \in Procs \ {p} : Contains(line', q) <=> Contains(line, q)
  BY <1>1, RemoveFirstMembers
<1>4. \A q \in Procs : Contains(line', q) <=> pc'[q] \in Body \cup {"queued"}
  BY <1>2, <1>3 DEF Body
<1>5. \A q \in inside' : line' # <<>> /\ Head(line') = q
  BY <1>1, RemoveFirstKeepsHead
<1> QED
  BY <1>2, <1>4, <1>5

LEMMA LineInvInductive == KeysInv /\ LineInv /\ [Next]_vars => LineInv'
<1> SUFFICES ASSUME KeysInv, LineInv, [Next]_vars PROVE LineInv'
  OBVIOUS
<1> USE DEF KeysInv, RepodataInv, Body, States, Step, Goto, lockVars
<1>1. ASSUME NEW p \in Procs, Queue(p) PROVE LineInv'
  <2> USE DEF LineInv
  <2>1. line' = Append(line, p) /\ inside' = inside /\ pc' = [pc EXCEPT ![p] = "queued"]
    BY <1>1 DEF Queue, Lock!Arrive
  <2>2. ~Contains(line, p)
    BY <1>1 DEF Queue
  <2>3. line' \in Seq(Procs) /\ IsInjective(line')
    BY <2>1, <2>2, InjectiveAppend, AppendProperties
  <2>4. \A q \in Procs : Contains(line', q) <=> Contains(line, q) \/ q = p
    BY <2>1, ContainsAppend
  <2>5. \A q \in inside' : line' # <<>> /\ Head(line') = q
    BY <2>1, AppendProperties, HeadTailAppend
  <2> QED
    BY <2>1, <2>3, <2>4, <2>5
<1>2. ASSUME NEW p \in Procs, Enter(p) PROVE LineInv'
  BY <1>2 DEF LineInv, Enter, Lock!Grab
<1>3. ASSUME NEW p \in Procs, Exit(p) PROVE LineInv'
  BY <1>3, LeavesLine DEF Exit, End
<1>4. ASSUME NEW p \in Procs, Die(p) PROVE LineInv'
  <2>1. pc' = [pc EXCEPT ![p] = "free"]
    BY <1>4 DEF Die, End
  <2>2. CASE pc[p] \in {"request", "lock"}
    BY <1>4, <2>1, <2>2 DEF LineInv, Die
  <2>3. CASE pc[p] \notin {"request", "lock"}
    BY <1>4, <2>1, <2>3, LeavesLine DEF Die
  <2> QED
    BY <2>2, <2>3
<1>5. ASSUME NEW p \in Procs,
             \/ MakeRequest(p) \/ CheckProcessed(p) \/ DeleteKey(p) \/ ListKeys(p)
             \/ MergeOwn(p) \/ RunCreaterepo(p) \/ DeleteBuilds(p) \/ AddAppdata(p)
             \/ CommandFails(p) \/ Committed(p)
             \/ (\E q \in Procs : ReadKey(p, q) \/ Commit(p, q))
             \/ (\E r \in Requests : Start(p, r))
      PROVE  LineInv'
  <2>1. /\ UNCHANGED lockVars
        /\ \A q \in Procs : pc'[q] \in Body \cup {"queued"} <=> pc[q] \in Body \cup {"queued"}
    BY <1>5 DEF MakeRequest, CheckProcessed, DeleteKey, ListKeys, MergeOwn, RunCreaterepo,
       DeleteBuilds, AddAppdata, CommandFails, Committed, ReadKey, Commit, Start
  <2> QED
    BY <2>1 DEF LineInv
<1>6. CASE UNCHANGED vars
  BY <1>6 DEF LineInv, vars
<1> QED
  BY <1>1, <1>2, <1>3, <1>4, <1>5, <1>6 DEF Next, Run

(* The lock never refuses what copr-repo asks of it: whoever leaves, or    *)
(* dies waiting or in the body, is in the line, and whoever comes is not.  *)
THEOREM LineIsThoseWhoCame == Spec => []LineInv
<1>1. Init => LineInv
  BY ContainsEmpty, EmptySeq DEF Init, Lock!Init, LineInv, IsInjective, Body
<1> QED
  BY <1>1, LineInvInductive, KeysInvariant, PTL DEF Spec

(* Nobody holds the lock who is not in the body any more. *)
InsideWorks == \A p \in inside : pc[p] \in Body

(* The first in the line works, or nobody keeps it from entering.          *)
FirstMoves ==
  line # <<>> => \/ pc[Head(line)] \in Body
                 \/ pc[Head(line)] = "queued" /\ inside = {}

LEMMA InsideWorksInductive == KeysInv /\ InsideWorks /\ [Next]_vars => InsideWorks'
<1> SUFFICES ASSUME KeysInv, InsideWorks, [Next]_vars PROVE InsideWorks'
  OBVIOUS
<1> USE DEF KeysInv, RepodataInv, InsideWorks, Body, States, Step, Goto, lockVars
<1>1. ASSUME NEW p \in Procs, Queue(p) PROVE InsideWorks'
  BY <1>1 DEF Queue, Lock!Arrive
<1>2. ASSUME NEW p \in Procs, Enter(p) PROVE InsideWorks'
  BY <1>2 DEF Enter, Lock!Grab
<1>3. ASSUME NEW p \in Procs, Exit(p) PROVE InsideWorks'
  BY <1>3 DEF Exit, End, Lock!Leave
<1>4. ASSUME NEW p \in Procs, Die(p) PROVE InsideWorks'
  BY <1>4 DEF Die, End, Lock!Leave
<1>5. ASSUME NEW p \in Procs,
             \/ MakeRequest(p) \/ CheckProcessed(p) \/ DeleteKey(p) \/ ListKeys(p)
             \/ MergeOwn(p) \/ RunCreaterepo(p) \/ DeleteBuilds(p) \/ AddAppdata(p)
             \/ CommandFails(p) \/ Committed(p)
             \/ (\E q \in Procs : ReadKey(p, q) \/ Commit(p, q))
             \/ (\E r \in Requests : Start(p, r))
      PROVE  InsideWorks'
  BY <1>5 DEF MakeRequest, CheckProcessed, DeleteKey, ListKeys, MergeOwn, RunCreaterepo,
     DeleteBuilds, AddAppdata, CommandFails, Committed, ReadKey, Commit, Start
<1>6. CASE UNCHANGED vars
  BY <1>6 DEF vars
<1> QED
  BY <1>1, <1>2, <1>3, <1>4, <1>5, <1>6 DEF Next, Run

(* Whoever waits for the repository waits for a process that works on it:  *)
(* no failure and no death leaves the lock taken, or the first in the line *)
(* behind somebody who has gone.                                           *)
THEOREM LineNeverStuck == Spec => []FirstMoves
<1>1. Init => InsideWorks
  BY DEF Init, Lock!Init, InsideWorks
<1>2. LineInv /\ InsideWorks => FirstMoves
  <2> SUFFICES ASSUME LineInv, InsideWorks, line # <<>>
               PROVE  \/ pc[Head(line)] \in Body
                      \/ pc[Head(line)] = "queued" /\ inside = {}
    BY DEF FirstMoves
  <2>1. Head(line) \in Procs /\ Contains(line, Head(line))
    <3>1. Len(line) \in Nat /\ Len(line) >= 1 /\ Head(line) = line[1] /\ line[1] \in Procs
      BY HeadTailProperties, LenProperties, EmptySeq, ElementOfSeq DEF LineInv
    <3> QED
      BY <3>1 DEF Contains
  <2>2. pc[Head(line)] \in Body \cup {"queued"}
    BY <2>1 DEF LineInv
  <2>3. \A p \in inside : p = Head(line) /\ pc[p] \in Body
    BY DEF LineInv, InsideWorks
  <2> QED
    BY <2>2, <2>3
<1> QED
  BY <1>1, <1>2, InsideWorksInductive, KeysInvariant, LineIsThoseWhoCame, PTL DEF Spec

(* copr-repo does nothing to the lock that a user of FairLock may not do.  *)
THEOREM LockUsed == Spec => Lock!Spec
<1>1. Init => Lock!Init
  BY DEF Init
<1>2. [Next]_vars => [Lock!Next]_Lock!vars
  <2> SUFFICES ASSUME [Next]_vars PROVE [Lock!Next]_Lock!vars
    OBVIOUS
  <2>1. ASSUME NEW p \in Procs, Run(p) \/ Die(p) \/ (\E r \in Requests : Start(p, r))
        PROVE  Lock!Arrive(p) \/ Lock!Grab(p) \/ Lock!Leave(p) \/ UNCHANGED lockVars
    BY <2>1 DEF Run, Die, Start, MakeRequest, Queue, Enter, CheckProcessed, DeleteKey, ListKeys,
       ReadKey, MergeOwn, RunCreaterepo, DeleteBuilds, AddAppdata, CommandFails, Commit,
       Committed, Exit
  <2> QED
    BY <2>1 DEF Next, vars, lockVars, Lock!Next, Lock!vars
<1> QED
  BY <1>1, <1>2, PTL DEF Spec, Lock!Spec

-------------------------------------------------------------------------------
(* The refinement of Repository. *)

(* A request is worked on by the one process that was called for it. *)
TaskInv ==
  /\ \A p \in Procs : task[p] # NoRequest => outcome[task[p]] = "running"
  /\ \A p, q \in Procs : task[p] # NoRequest /\ task[p] = task[q] => p = q

(* What a batch adds was asked for; it is a full run only if one was. *)
OptsInv ==
  /\ \A x \in opts.add : \E r \in Requests : outcome[r] # "new" /\ x \in Add[r]
  /\ opts.full => \E r \in Requests : outcome[r] # "new" /\ Full(r)

LEMMA TaskInductive == KeysInv /\ TaskInv /\ [Next]_vars => TaskInv'
<1> SUFFICES ASSUME KeysInv, TaskInv, [Next]_vars PROVE TaskInv'
  OBVIOUS
<1> USE CreaterepoAssumption DEF KeysInv, DataTypes, TaskInv
<1>1. ASSUME NEW p \in Procs, NEW r \in Requests, Start(p, r) PROVE TaskInv'
  BY <1>1 DEF Start
<1>2. ASSUME NEW p \in Procs, NEW how, End(p, how), task[p] # NoRequest PROVE TaskInv'
  BY <1>2 DEF End
<1>3. ASSUME NEW p \in Procs, Exit(p) \/ Die(p) PROVE TaskInv'
  <2>1. task[p] # NoRequest /\ \E how : End(p, how)
    BY <1>3 DEF Exit, Die
  <2> QED
    BY <1>2, <2>1
<1>4. ASSUME NEW p \in Procs, Run(p), ~Exit(p) PROVE UNCHANGED <<task, outcome>>
  BY <1>4 DEF Run, MakeRequest, Queue, Enter, CheckProcessed, DeleteKey, ListKeys, MergeOwn,
     RunCreaterepo, DeleteBuilds, AddAppdata, CommandFails, Committed, ReadKey, Commit
<1>5. CASE UNCHANGED <<task, outcome>>
  BY <1>5
<1> QED
  BY <1>1, <1>3, <1>4, <1>5 DEF Next, vars

LEMMA OptsInductive == WorkInv /\ OptsInv /\ [Next]_vars => OptsInv'
<1> SUFFICES ASSUME WorkInv, OptsInv, [Next]_vars,
                    \A r \in Requests : outcome[r] # "new" => outcome'[r] # "new"
             PROVE  OptsInv'
  BY WithdrawnGrows DEF WorkInv
<1> USE DEF OptsInv
<1>1. CASE opts' = opts
  BY <1>1
<1>2. CASE opts' = NoOpts
  BY <1>2 DEF NoOpts
<1>3. ASSUME NEW p \in Procs, NEW q \in Procs, ReadKey(p, q), opts' # opts PROVE OptsInv'
  <2>1. /\ opts' = Merge(asked[q]) /\ UNCHANGED outcome
        /\ asked[q] \in Requests /\ outcome[asked[q]] # "new"
    BY <1>3 DEF ReadKey, WorkInv, KeysInv, DataTypes, AskedInv
  <2> QED
    BY <2>1 DEF Merge
<1>4. ASSUME NEW p \in Procs, MergeOwn(p) PROVE OptsInv'
  <2>1. UNCHANGED outcome /\ task[p] \in Requests /\ outcome[task[p]] # "new"
    BY <1>4 DEF MergeOwn, WorkInv, KeysInv, DataTypes, AskedInv
  <2>2. /\ opts'.add \subseteq opts.add \cup Add[task[p]]
        /\ opts'.full => opts.full \/ Full(task[p])
    BY <1>4 DEF MergeOwn
  <2> QED
    BY <2>1, <2>2
<1>5. ASSUME NEW p \in Procs,
             Run(p) \/ Die(p) \/ (\E r \in Requests : Start(p, r)), ~MergeOwn(p)
      PROVE  opts' = opts \/ opts' = NoOpts \/ \E q \in Procs : ReadKey(p, q)
  BY <1>5 DEF Run, Die, Start, MakeRequest, Queue, Enter, CheckProcessed, DeleteKey, ListKeys,
     RunCreaterepo, DeleteBuilds, AddAppdata, CommandFails, Commit, Committed, Exit, ResetBody,
     bodyVars
<1>6. CASE UNCHANGED vars
  BY <1>6 DEF vars, bodyVars
<1> QED
  BY <1>1, <1>2, <1>3, <1>4, <1>5, <1>6 DEF Next

RepoInv == WorkInv /\ TaskInv /\ OptsInv

LEMMA RepoMembers ==
  /\ Repo!Withdrawn = Withdrawn
  /\ \A r : Repo!Served(r) <=> Served(r)
  /\ \A x : x \in Repo!Wanted <=>
       IF \E r \in Requests : outcome[r] # "new" /\ Full(r)
       THEN x \in dirs
       ELSE \E r \in Requests : outcome[r] # "new" /\ x \in Add[r]
<1>1. Repo!Withdrawn = Withdrawn
  BY DEF Repo!Withdrawn, Repo!Asked, Withdrawn
<1> QED
  BY <1>1 DEF Repo!Served, Served, Repo!Wanted, Repo!Asked, Full

(* The answer of a process that ends or dies *)
LEMMA AnswerStep ==
  ASSUME RepoInv, NEW p \in Procs, NEW how \in {"ok", "failed", "killed"},
         End(p, how), pc[p] # "free", how = "ok" => pc[p] = "done", UNCHANGED diskVars
  PROVE  Repo!Next
<1> DEFINE r == task[p]
<1>1. r \in Requests /\ outcome[r] = "running"
  BY DEF RepoInv, WorkInv, KeysInv, DataTypes, TaskInv
<1>2. how = "ok" => Repo!Served(r)
  BY RepoMembers DEF RepoInv, WorkInv, ServedInv
<1>3. outcome' = [outcome EXCEPT ![r] = how] /\ meta' = meta /\ dirs' = dirs
  BY DEF End, diskVars
<1> QED
  BY <1>1, <1>2, <1>3 DEF Repo!Next, Repo!Answer

LEMMA RepoSteps == RepoInv /\ [Next]_vars => [Repo!Next]_<<outcome, meta, dirs>>
<1> SUFFICES ASSUME RepoInv, Next PROVE [Repo!Next]_<<outcome, meta, dirs>>
  BY DEF vars, diskVars
<1> USE DEF Step, Goto
<1>1. ASSUME NEW p \in Procs, NEW r \in Requests, Start(p, r) PROVE Repo!Next
  BY <1>1 DEF Start, Repo!Next, Repo!Ask
<1>2. ASSUME NEW p \in Procs, RunCreaterepo(p) PROVE Repo!Next
  <2> USE DEF RepoInv, WorkInv, KeysInv, RepodataInv, NoDanglingPackage, AskedInv, OptsInv
  <2>1. meta' = Published(p) /\ UNCHANGED <<outcome, dirs>>
    BY <1>2 DEF RunCreaterepo
  <2>2. opts.add \subseteq dirs
    BY <1>2 DEF RunCreaterepo, AddsExist
  <2>3. meta' \subseteq dirs /\ meta \ meta' \subseteq Withdrawn
    BY <2>1, <2>2 DEF Published
  <2>4. ASSUME NEW x \in meta' \ meta PROVE x \in Repo!Wanted
    <3>1. x \in dirs /\ (opts.full \/ x \in opts.add)
      BY <2>1, <2>2, <2>4 DEF Published
    <3> QED
      BY <3>1, RepoMembers
  <2> QED
    BY <2>1, <2>3, <2>4, RepoMembers DEF Repo!Next, Repo!Publish
<1>3. ASSUME NEW p \in Procs, DeleteBuilds(p) PROVE Repo!Next
  <2>1. dirs' = dirs \ opts.delete /\ UNCHANGED <<outcome, meta>>
    BY <1>3 DEF DeleteBuilds
  <2>2. opts.delete \cap meta = {} /\ opts.delete \subseteq Withdrawn
    BY <1>3 DEF DeleteBuilds, RepoInv, WorkInv, KeysInv, RepodataInv, DeletesExcluded, AskedInv
  <2> QED
    BY <2>1, <2>2, RepoMembers DEF Repo!Next, Repo!Discard
<1>4. ASSUME NEW p \in Procs, Exit(p) PROVE Repo!Next
  <2>1. CASE pc[p] = "done"
    BY <1>4, <2>1, AnswerStep DEF Exit
  <2>2. CASE pc[p] = "failed"
    BY <1>4, <2>2, AnswerStep DEF Exit
  <2> QED
    BY <1>4, <2>1, <2>2 DEF Exit
<1>5. ASSUME NEW p \in Procs, Die(p) PROVE Repo!Next
  BY <1>5, AnswerStep DEF Die
<1>6. ASSUME NEW p \in Procs, Run(p), ~RunCreaterepo(p), ~DeleteBuilds(p), ~Exit(p)
      PROVE  UNCHANGED <<outcome, meta, dirs>>
  BY <1>6 DEF Run, MakeRequest, Queue, Enter, CheckProcessed, DeleteKey, ListKeys, MergeOwn,
     AddAppdata, CommandFails, Committed, ReadKey, Commit, diskVars
<1> QED
  BY <1>1, <1>2, <1>3, <1>4, <1>5, <1>6 DEF Next

(* Whoever does whose work, and whoever dies or fails meanwhile: the       *)
(* repository gains and loses only what was asked for, names no package    *)
(* that is gone, and success is reported once and of what is done.         *)
THEOREM RepositoryImplemented ==
  ASSUME ~PidReuse
  PROVE  Spec => ImplementsRepository
<1>1. Init => RepoInv
  <2>1. Init => TaskInv /\ OptsInv
    BY DEF Init, TaskInv, OptsInv, NoOpts
  <2> QED
    BY <2>1, WorkAtStart DEF RepoInv
<1>2. RepoInv /\ [Next]_vars => RepoInv'
  BY WorkInductive, TaskInductive, OptsInductive DEF RepoInv, WorkInv
<1>3. Init => Repo!Init
  BY DEF Init, Repo!Init
<1> QED
  BY <1>1, <1>2, <1>3, RepoSteps, PTL DEF Spec, ImplementsRepository, Repo!Spec, Repo!vars
===============================================================================
