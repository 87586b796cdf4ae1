------------------------------- MODULE Projects -------------------------------
(***************************************************************************)
(* One project name over time: the projects that have it one after the     *)
(* other (a name is free again as soon as its project is deleted), the     *)
(* actions the frontend queues for them (logic/actions_logic.py), the      *)
(* order in which pending_actions() hands them out, and what the backend   *)
(* (backend/copr_backend/actions.py, BackendStorage) makes of them in the  *)
(* one directory all these projects share.                                 *)
(*                                                                         *)
(* A repo is a chroot directory in it.  "createrepo" stands for            *)
(* update_comps, too, and "fork" for rawhide_to_release: all of them make  *)
(* directories, the latter two also put results there.  Actions that touch *)
(* no repo (gen_gpg_key) or no project (remove_dirs) are left out.  An     *)
(* action has at most one worker, as TaskPool promises.                    *)
(***************************************************************************)
EXTENDS Naturals, FiniteSets

CONSTANTS
  MaxCoprs,     \* bound: how many projects there are in all
  Repos,
  MaxActions,   \* bound: how many actions there are in all
  SameSecond,   \* TRUE: two requests may come within one second
  MaxBuilds,    \* bound: how many builds there are in all
  MaxFaults     \* bound: failed steps, killed workers and lost results

ASSUME ProjectsAssumption ==
  /\ MaxCoprs \in Nat
  /\ MaxActions \in Nat
  /\ SameSecond \in BOOLEAN
  /\ MaxBuilds \in Nat
  /\ MaxFaults \in Nat

VARIABLES
  copr,      \* copr[p]: "none", "live" or "deleted"
  action,    \* action[a]: the row of Action a, NoAction before
  result,    \* Action.result
  now,       \* the second of the last request
  forking,   \* projects whose fork is committed, but not its action
  worker,    \* worker[a]: the worker of a, with what it has found so far
  todo,      \* the repos it has not handled yet
  dirs,      \* the repos whose directory exists
  copied,    \* <<a, r>>: what the fork a put into r
  built,     \* <<p, r>>: the results of builds of p in r
  building,  \* building[p][r]: whether a build of p is in progress there
  quiet,     \* history: nothing of p was going on when it was deleted
  builds,    \* how many builds were started
  faults

frontendVars == <<copr, action, result, now, forking, quiet>>
workerVars   == <<worker, todo>>
diskVars     == <<dirs, copied, built>>
buildVars    == <<building, builds>>
vars == <<frontendVars, workerVars, diskVars, buildVars, faults>>

Coprs == 1 .. MaxCoprs
Ids == 1 .. MaxActions

Kinds == {"createrepo", "fork", "builds", "chroot", "delete"}

Rows == [kind : Kinds, of : Coprs, repos : SUBSET Repos, created : 1 .. MaxActions]

NoAction == [kind |-> "none"]

Sent(a)    == action[a] # NoAction
Waiting(a) == Sent(a) /\ result[a] = "waiting"
IsDelete(a) == Sent(a) /\ action[a].kind = "delete"

Fault == faults < MaxFaults /\ faults' = faults + 1

-------------------------------------------------------------------------------
(* The frontend. *)

(* A new row; created_on is in seconds. *)
Send(kind, p, R) ==
  \E a \in Ids :
    /\ ~Sent(a) /\ \A b \in Ids : b < a => Sent(b)
    /\ \E t \in {now, now + 1} :
         /\ t > now \/ (SameSecond /\ t > 0)
         /\ now' = t
         /\ action' = [action EXCEPT ![a] =
                         [kind |-> kind, of |-> p, repos |-> R, created |-> t]]
    /\ result' = [result EXCEPT ![a] = "waiting"]

(* No project has the name, and p is the next row. *)
NewCopr(p) ==
  /\ copr[p] = "none"
  /\ \A q \in Coprs : copr[q] # "live" /\ (q < p => copr[q] = "deleted")

(* CoprsLogic.add *)
Add(p) ==
  /\ NewCopr(p)
  /\ copr' = [copr EXCEPT ![p] = "live"]
  /\ Send("createrepo", p, Repos)
  /\ UNCHANGED <<forking, quiet, workerVars, diskVars, buildVars, faults>>

(* fork_copr, into a new or an existing project: up to its commit, ...     *)
ForkCopr(p) ==
  /\ copr[p] = "live" \/ NewCopr(p)
  /\ p \notin forking
  /\ copr' = [copr EXCEPT ![p] = "live"]
  /\ forking' = forking \cup {p}
  /\ UNCHANGED <<action, result, now, quiet, workerVars, diskVars, buildVars, faults>>

(* ... and the action, even if the project is deleted by now. *)
SendFork(p) ==
  /\ p \in forking
  /\ forking' = forking \ {p}
  /\ Send("fork", p, Repos)
  /\ UNCHANGED <<copr, quiet, workerVars, diskVars, buildVars, faults>>

(* send_createrepo, send_delete_chroot, send_delete_build: only what is    *)
(* finished, published or not, is deleted.                                 *)
Request(p, kind, R) ==
  /\ copr[p] = "live"
  /\ kind \in {"chroot", "builds"} => Cardinality(R) = 1
  /\ kind = "createrepo" => R = Repos
  /\ kind = "builds" => \A r \in R : building[p][r] = "canceled" \/ <<p, r>> \in built
  /\ Send(kind, p, R)
  /\ UNCHANGED <<copr, forking, quiet, workerVars, diskVars, buildVars, faults>>

(* A canceled build counts as finished, although its worker may go on.     *)
BuildsFinished(p) == \A r \in Repos : building[p][r] # "running"

Quiet(p) ==
  /\ p \notin forking
  /\ \A r \in Repos : building[p][r] = "none"
  /\ \A a \in Ids : Waiting(a) => action[a].of # p

(* delete_copr and delete_unsafe.  The action that blocks them is the      *)
(* deletion of the same row.                                               *)
DeleteCopr(p) ==
  /\ copr[p] = "live"
  /\ BuildsFinished(p)
  /\ copr' = [copr EXCEPT ![p] = "deleted"]
  /\ Send("delete", p, Repos)
  /\ quiet' = IF Quiet(p) THEN quiet \cup {p} ELSE quiet
  /\ UNCHANGED <<forking, workerVars, diskVars, buildVars, faults>>

(* Variant: the name of a deleted project is not busy. *)
ListedAtOnce(a) == Waiting(a)

(* Variant: of deleted projects, no action is handed out. *)
ListedWhileLive(a) ==
  /\ Waiting(a) /\ copr[action[a].of] = "live"

(* pending_actions(): a deletion that waits holds back what was requested  *)
(* after it.  Within one second the order of the rows is any.              *)
Listed(a) ==
  /\ Waiting(a)
  /\ ~IsDelete(a) =>
       ~\E d \in Ids : IsDelete(d) /\ Waiting(d) /\ action[d].created < action[a].created

-------------------------------------------------------------------------------
(* The worker of an action. *)

Worker(a, s) == worker' = [worker EXCEPT ![a] = s]
Handled(a, r) == todo' = [todo EXCEPT ![a] = @ \ {r}]

At(a, kind, r) ==
  /\ worker[a] # "none"
  /\ action[a].kind = kind
  /\ r \in todo[a]

(* The task is listed when it is fetched; what holds it back was requested *)
(* before, so it is still listed when the worker starts.                   *)
Start(a) ==
  /\ worker[a] = "none"
  /\ Listed(a)
  /\ Worker(a, "running")
  /\ todo' = [todo EXCEPT ![a] = action[a].repos]
  /\ UNCHANGED <<frontendVars, diskVars, buildVars, faults>>

(* init_project of each repo *)
Createrepo(a, r) ==
  /\ At(a, "createrepo", r)
  /\ Handled(a, r)
  /\ dirs' = dirs \cup {r}
  /\ UNCHANGED <<frontendVars, worker, copied, built, buildVars, faults>>

(* fork_project: a build that cannot be copied is only logged *)
Fork(a, r) ==
  /\ At(a, "fork", r)
  /\ Handled(a, r)
  /\ dirs' = dirs \cup {r}
  /\ copied' \in {copied, copied \cup {<<a, r>>}}
  /\ UNCHANGED <<frontendVars, worker, built, buildVars, faults>>

(* delete_builds; without the directory it goes on, but has failed *)
DeleteBuilds(a, r) ==
  /\ At(a, "builds", r)
  /\ Handled(a, r)
  /\ IF r \in dirs
     THEN built' = built \ {<<action[a].of, r>>} /\ UNCHANGED worker
     ELSE Worker(a, "failing") /\ UNCHANGED built
  /\ UNCHANGED <<frontendVars, dirs, copied, buildVars, faults>>

(* rmtree of whatever is in the directory *)
RemoveTree(r) ==
  /\ dirs' = dirs \ {r}
  /\ copied' = {c \in copied : c[2] # r}
  /\ built' = {b \in built : b[2] # r}

DeleteChroot(a, r) ==
  /\ At(a, "chroot", r)
  /\ Handled(a, r)
  /\ RemoveTree(r)
  /\ UNCHANGED <<frontendVars, worker, buildVars, faults>>

(* delete_project *)
DeleteProject(a, r) ==
  /\ At(a, "delete", r)
  /\ Handled(a, r)
  /\ RemoveTree(r)
  /\ UNCHANGED <<frontendVars, worker, buildVars, faults>>

(* Variant: rmtree ignores errors. *)
StepFailsQuietly(a, r) ==
  /\ worker[a] # "none" /\ r \in todo[a]
  /\ Fault
  /\ Worker(a, IF action[a].kind \in {"chroot", "delete"} THEN "running" ELSE "failing")
  /\ \E R \in {{}, todo[a] \ {r}} :
       /\ R # {} => action[a].kind \in {"createrepo", "builds"}
       /\ todo' = [todo EXCEPT ![a] = R]
  /\ UNCHANGED <<frontendVars, diskVars, buildVars>>

(* The task cannot be downloaded, copr-repo fails, or rmtree meets files   *)
(* that another worker just wrote: only createrepo and delete_builds go on *)
(* with the next repo.                                                     *)
StepFails(a, r) ==
  /\ worker[a] # "none" /\ r \in todo[a]
  /\ Fault
  /\ Worker(a, "failing")
  /\ \E R \in {{}, todo[a] \ {r}} :
       /\ R # {} => action[a].kind \in {"createrepo", "builds"}
       /\ todo' = [todo EXCEPT ![a] = R]
  /\ UNCHANGED <<frontendVars, diskVars, buildVars>>

(* The worker's result is passed on to the frontend. *)
Report(a) ==
  /\ worker[a] # "none" /\ todo[a] = {}
  /\ result' = [result EXCEPT ![a] = IF worker[a] = "running" THEN "success" ELSE "failure"]
  /\ Worker(a, "none")
  /\ UNCHANGED <<copr, action, now, forking, quiet, todo, diskVars, buildVars, faults>>

(* The worker is killed, or its result does not reach the frontend, which  *)
(* finish_task ignores: the action is still listed and runs again.         *)
ResultLost(a) ==
  /\ worker[a] # "none"
  /\ Fault
  /\ Worker(a, "none")
  /\ todo' = [todo EXCEPT ![a] = {}]
  /\ UNCHANGED <<frontendVars, diskVars, buildVars>>

-------------------------------------------------------------------------------
(* Builds, which pending_actions() knows nothing of. *)

SetBuilding(p, r, s) == building' = [building EXCEPT ![p][r] = s]

(* wait_for_repo() does not mind whose repo it is. *)
Build(p, r) ==
  /\ copr[p] = "live" /\ building[p][r] = "none"
  /\ r \in dirs
  /\ builds < MaxBuilds /\ builds' = builds + 1
  /\ SetBuilding(p, r, "running")
  /\ UNCHANGED <<frontendVars, workerVars, diskVars, faults>>

CancelBuild(p, r) ==
  /\ building[p][r] = "running"
  /\ SetBuilding(p, r, "canceled")
  /\ UNCHANGED <<builds, frontendVars, workerVars, diskVars, faults>>

BuildEnds(p, r) ==
  /\ building[p][r] # "none"
  /\ SetBuilding(p, r, "none")
  /\ built' \in {built, built \cup ({<<p, r>>} \cap (Coprs \X dirs))}
  /\ UNCHANGED <<frontendVars, workerVars, dirs, copied, builds, faults>>

-------------------------------------------------------------------------------
User(p) ==
  \/ Add(p) \/ ForkCopr(p) \/ DeleteCopr(p)
  \/ \E kind \in {"createrepo", "chroot", "builds"}, R \in SUBSET Repos : Request(p, kind, R)
  \/ \E r \in Repos : Build(p, r) \/ CancelBuild(p, r)

Work(a) ==
  \/ Start(a) \/ Report(a)
  \/ \E r \in Repos :
       Createrepo(a, r) \/ Fork(a, r) \/ DeleteBuilds(a, r) \/ DeleteChroot(a, r)
         \/ DeleteProject(a, r)

Breaks(a) == ResultLost(a) \/ \E r \in Repos : StepFails(a, r)

Init ==
  /\ copr = [p \in Coprs |-> "none"]
  /\ action = [a \in Ids |-> NoAction]
  /\ result = [a \in Ids |-> "none"]
  /\ now = 0
  /\ forking = {} /\ quiet = {}
  /\ worker = [a \in Ids |-> "none"]
  /\ todo = [a \in Ids |-> {}]
  /\ dirs = {} /\ copied = {} /\ built = {}
  /\ building = [p \in Coprs |-> [r \in Repos |-> "none"]]
  /\ builds = 0 /\ faults = 0

Next ==
  \/ \E p \in Coprs : User(p) \/ SendFork(p) \/ \E r \in Repos : BuildEnds(p, r)
  \/ \E a \in Ids : Work(a) \/ Breaks(a)

Spec == Init /\ [][Next]_vars

(* The dispatcher starts what is listed, and its workers and their reports *)
(* come to an end (EveryTaskSettles of Dispatcher).                        *)
FairSpec == Spec /\ \A a \in Ids : WF_vars(Work(a))

-------------------------------------------------------------------------------
TypeOK ==
  /\ copr \in [Coprs -> {"none", "live", "deleted"}]
  /\ action \in [Ids -> Rows \cup {NoAction}]
  /\ result \in [Ids -> {"none", "waiting", "success", "failure"}]
  /\ now \in 0 .. MaxActions
  /\ forking \subseteq Coprs /\ quiet \subseteq Coprs
  /\ worker \in [Ids -> {"none", "running", "failing"}]
  /\ todo \in [Ids -> SUBSET Repos]
  /\ dirs \subseteq Repos
  /\ copied \subseteq Ids \X Repos
  /\ built \subseteq Coprs \X Repos
  /\ building \in [Coprs -> [Repos -> {"none", "running", "canceled"}]]
  /\ builds \in 0 .. MaxBuilds
  /\ faults \in 0 .. MaxFaults

(* What was put into a new project is safe from the deletion of the old    *)
(* one: as long as a deletion may still run, or run again, nothing is      *)
(* there that was requested after it, through lost results, killed workers *)
(* and a name that is used again at once (busy_namespaces).                *)
NothingNewDeleted ==
  \A d \in Ids : IsDelete(d) /\ (Waiting(d) \/ worker[d] # "none") =>
    \A c \in copied : c[1] < d

(* A project that was quiet when it was deleted leaves nothing behind, and *)
(* nothing of it comes back, although its deletion may be interrupted at   *)
(* every step and its name be used again (DeleteProject).                  *)
QuietLeavesNothing ==
  \A d \in Ids :
    IsDelete(d) /\ result[d] = "success" /\ action[d].of \in quiet =>
      /\ \A r \in Repos : <<action[d].of, r>> \notin built
      /\ \A c \in copied : action[c[1]].of # action[d].of

(* When no more requests come, which the bound sees to, every action has   *)
(* been carried out or has failed in the end, also those that a deletion   *)
(* held back (pending_actions).                                            *)
ActionsSettle == <>[](\A a \in Ids : ~Waiting(a))
===============================================================================
