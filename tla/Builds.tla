-------------------------------- MODULE Builds --------------------------------
(***************************************************************************)
(* The frontend's rows for builds: Build, its BuildChroots and the         *)
(* CancelRequests (coprs/models.py, logic/builds_logic.py), changed by     *)
(* users, by an administrator, and by what the build workers, the build    *)
(* dispatcher and dist-git send to views/backend_ns/backend_general.py.    *)
(*                                                                         *)
(* A task is a build and one of its chroots, or the build and Src for its  *)
(* source RPM.  Every request is one transaction.  The backend keeps at    *)
(* most one worker per task and reports a cancellation when the task has   *)
(* none: that is what Dispatcher's TaskPool promises.                      *)
(*                                                                         *)
(* Forked builds, modules, and a resubmission (a build of its own) are     *)
(* left out; reschedule_build_chroot() is never called by the backend.     *)
(***************************************************************************)
EXTENDS Naturals, FiniteSets

CONSTANTS
  BuildIds, Chroots,
  Src,        \* in the place of a chroot: the source build
  MaxFaults   \* bound: how often a worker or an import is killed

ASSUME BuildsAssumption ==
  /\ Src \notin Chroots
  /\ MaxFaults \in Nat

VARIABLES
  source,     \* Build.source_status, "none" before and "deleted" after
  canceled,   \* Build.canceled
  status,     \* status[b][c]: BuildChroot.status, "none" without such a row
  requested,  \* the tasks named by a CancelRequest
  worker,     \* the backend's worker of a task
  importing,  \* the builds dist-git is importing
  faults,
  active,     \* MockChroot.is_active
  deleted     \* CoprChroot.deleted: unclicked, or its data are removed

rowVars     == <<source, canceled, status, requested>>
backendVars == <<worker, importing, faults>>
buildVars   == <<rowVars, backendVars>>

Tasks == BuildIds \X (Chroots \cup {Src})

FinishedStates == {"succeeded", "canceled", "skipped", "failed"}
TerminalStates == {"failed", "succeeded", "canceled"}
TodoStates     == {"pending", "starting", "running"}
RowStates      == {"none", "waiting"} \cup TodoStates \cup FinishedStates
SourceStates   == {"none", "importing", "deleted"} \cup TodoStates \cup TerminalStates

(* "spawned": started by the dispatcher; "fetched": knows its task;        *)
(* "starting", "running": announced it; "failing": it may not start.       *)
WorkerStates == {"none", "spawned", "fetched", "starting", "running", "failing"}

Exists(b) == source[b] \notin {"none", "deleted"}
Rows(b)   == {c \in Chroots : status[b][c] # "none"}
TasksOf(b) == {b} \X (Rows(b) \cup {Src})

State(b, c) == IF c = Src THEN source[b] ELSE status[b][c]

FinishedEarly(b) == canceled[b] \/ source[b] \in {"failed", "canceled"}

Finished(b) ==
  \/ FinishedEarly(b)
  \/ Rows(b) = {} /\ source[b] \in FinishedStates
  \/ Rows(b) # {} /\ \A c \in Rows(b) : status[b][c] \in FinishedStates

(* Copr.active_copr_chroots *)
Usable == {c \in Chroots : active[c] /\ ~deleted[c]}

SetSource(b, s)  == source' = [source EXCEPT ![b] = s]
SetRows(b, C, s) ==
  status' = [status EXCEPT ![b] = [c \in Chroots |-> IF c \in C THEN s ELSE @[c]]]
SetWorker(b, c, s) == worker' = [worker EXCEPT ![<<b, c>>] = s]

Fault == faults < MaxFaults /\ faults' = faults + 1

-------------------------------------------------------------------------------
(* Users and administrators. *)

(* BuildsLogic.add: C is empty while the package is unknown. *)
Submit(b, C) ==
  /\ source[b] = "none"
  /\ SetSource(b, "pending")
  /\ SetRows(b, C, "waiting")
  /\ UNCHANGED <<canceled, requested, backendVars>>

(* BuildsLogic.add with skip_import: the sources are in dist-git already. *)
SubmitImported(b, C) ==
  /\ source[b] = "none" /\ C # {}
  /\ SetSource(b, "succeeded")
  /\ SetRows(b, C, "pending")
  /\ UNCHANGED <<canceled, requested, backendVars>>

(* cancel_build and send_cancel_build.  The task is the primary key of a   *)
(* CancelRequest: the whole transaction fails when one is there already.   *)
Cancel(b) ==
  /\ Exists(b) /\ ~Finished(b)
  /\ TasksOf(b) \cap requested = {}
  /\ canceled' = [canceled EXCEPT ![b] = TRUE]
  /\ requested' = requested \cup TasksOf(b)
  /\ UNCHANGED <<source, status, backendVars>>

(* cancel_build_chroots_by_mock, of alter_chroot --action eol *)
Unfinished(c) ==
  {b \in BuildIds : status[b][c] \notin FinishedStates \cup {"none"}}

(* Variant: the chroots are canceled, but the backend is not told. *)
CancelByMockQuietly(c) ==
  /\ status' = [b \in BuildIds |->
                  IF b \in Unfinished(c) THEN [status[b] EXCEPT ![c] = "canceled"]
                  ELSE status[b]]
  /\ UNCHANGED <<source, canceled, requested, backendVars>>

CancelByMock(c) ==
  /\ Unfinished(c) \X {c} \cap requested = {}
  /\ status' = [b \in BuildIds |->
                  IF b \in Unfinished(c) THEN [status[b] EXCEPT ![c] = "canceled"]
                  ELSE status[b]]
  /\ requested' = requested \cup (Unfinished(c) \X {c})
  /\ UNCHANGED <<source, canceled, backendVars>>

(* mark_as_failed, of the command fail_build *)
MarkAsFailed(b) ==
  /\ Exists(b)
  /\ SetRows(b, {c \in Rows(b) : status[b][c] # "succeeded"}, "failed")
  /\ SetSource(b, IF source[b] = "succeeded" THEN "succeeded" ELSE "failed")
  /\ UNCHANGED <<canceled, requested, backendVars>>

(* delete_build: the rows go with it, the CancelRequests stay. *)
DeleteBuild(b) ==
  /\ Exists(b) /\ Finished(b)
  /\ SetSource(b, "deleted")
  /\ SetRows(b, Chroots, "none")
  /\ UNCHANGED <<canceled, requested, backendVars>>

-------------------------------------------------------------------------------
(* update_state_from_dict, called by starting_build() and by update(). *)

(* Variant: terminal_states are not respected. *)
UpdateAnyRow(b, c, s) ==
  /\ IF Exists(b) THEN SetRows(b, {c}, s) ELSE UNCHANGED status
  /\ UNCHANGED source

UpdateRow(b, c, s) ==
  /\ IF Exists(b) /\ status[b][c] \notin TerminalStates
     THEN SetRows(b, {c}, s)
     ELSE UNCHANGED status
  /\ UNCHANGED source

(* The source's status is overwritten whatever it was; a failed source     *)
(* fails every chroot.                                                     *)
UpdateSource(b, s) ==
  /\ IF Exists(b) THEN SetSource(b, s) ELSE UNCHANGED source
  /\ IF Exists(b) /\ s = "failed" THEN SetRows(b, Rows(b), s) ELSE UNCHANGED status

Update(b, c, s) == IF c = Src THEN UpdateSource(b, s) ELSE UpdateRow(b, c, s)

(* Variant: the new rows may be built at once. *)
SourceSucceedsEarly(b, C, skip) ==
  /\ SetSource(b, IF C = {} THEN "failed" ELSE "importing")
  /\ status' = [status EXCEPT ![b] =
                  [c \in Chroots |-> IF c \notin C THEN @[c]
                                     ELSE IF c \in skip THEN "skipped" ELSE "pending"]]

(* Variant: the two statuses are swapped. *)
SourceSucceedsSwapped(b, C, skip) ==
  /\ SetSource(b, IF C = {} THEN "failed" ELSE "waiting")
  /\ SetRows(b, C, "importing")

(* A new source RPM is to be imported; the chroots C wait for that, but    *)
(* those its ExclusiveArch and ExcludeArch rule out.                       *)
SourceSucceeds(b, C, skip) ==
  /\ SetSource(b, IF C = {} THEN "failed" ELSE "importing")
  /\ status' = [status EXCEPT ![b] =
                  [c \in Chroots |-> IF c \notin C THEN @[c]
                                     ELSE IF c \in skip THEN "skipped" ELSE "waiting"]]

(* The chroots of the build: those it has, or else those of its package,   *)
(* which are the usable ones but for a denylist.                           *)
RowsToBuild(b) ==
  IF Rows(b) # {} THEN {Rows(b)}
  ELSE IF Usable = {} THEN {{}}
  ELSE SUBSET Usable \ {{}}

-------------------------------------------------------------------------------
(* The backend. *)

(* Variant: only pending tasks are handed out, as to the web pages. *)
HandedOutOnce(b, c) == Exists(b) /\ ~canceled[b] /\ State(b, c) = "pending"

(* pending_jobs(): what the dispatcher may start a worker for *)
HandedOut(b, c) == Exists(b) /\ ~canceled[b] /\ State(b, c) \in TodoStates

Spawn(b, c) ==
  /\ worker[<<b, c>>] = "none"
  /\ HandedOut(b, c)
  /\ SetWorker(b, c, "spawned")
  /\ UNCHANGED <<rowVars, importing, faults>>

(* get_build_record() of an inactive chroot is None: a worker without a    *)
(* job ends and reports nothing.                                           *)
Known(b, c) == Exists(b) /\ (c # Src => active[c])

GetTask(b, c) ==
  /\ worker[<<b, c>>] = "spawned"
  /\ SetWorker(b, c, IF Known(b, c) THEN "fetched" ELSE "none")
  /\ UNCHANGED <<rowVars, importing, faults>>

(* starting_build() *)
StartingBuild(b, c) ==
  /\ worker[<<b, c>>] = "fetched"
  /\ Exists(b) /\ ~canceled[b]
  /\ Update(b, c, "starting")
  /\ SetWorker(b, c, "starting")
  /\ UNCHANGED <<canceled, requested, importing, faults>>

RefuseStart(b, c) ==
  /\ worker[<<b, c>>] = "fetched"
  /\ ~Exists(b) \/ canceled[b]
  /\ SetWorker(b, c, "failing")
  /\ UNCHANGED <<rowVars, importing, faults>>

MarkRunning(b, c) ==
  /\ worker[<<b, c>>] = "starting"
  /\ Update(b, c, "running")
  /\ SetWorker(b, c, "running")
  /\ UNCHANGED <<canceled, requested, importing, faults>>

(* A worker that is canceled reports a failure, too. *)
ReportFailure(b, c) ==
  /\ worker[<<b, c>>] \in {"starting", "running", "failing"}
  /\ Update(b, c, "failed")
  /\ SetWorker(b, c, "none")
  /\ UNCHANGED <<canceled, requested, importing, faults>>

(* A worker that needed a second host may not have announced "running".    *)
AtWork(b, c) == worker[<<b, c>>] \in {"starting", "running"}

ReportBuilt(b, c) ==
  /\ c # Src /\ AtWork(b, c)
  /\ Update(b, c, "succeeded")
  /\ SetWorker(b, c, "none")
  /\ UNCHANGED <<canceled, requested, importing, faults>>

ReportSource(b) ==
  /\ AtWork(b, Src)
  /\ IF Exists(b)
     THEN \E C \in RowsToBuild(b) : \E skip \in SUBSET C : SourceSucceeds(b, C, skip)
     ELSE UNCHANGED <<source, status>>
  /\ SetWorker(b, Src, "none")
  /\ UNCHANGED <<canceled, requested, importing, faults>>

WorkerDies(b, c) ==
  /\ worker[<<b, c>>] # "none"
  /\ Fault
  /\ SetWorker(b, c, "none")
  /\ UNCHANGED <<rowVars, importing>>

(* Variant: the request of a build that is gone is an error. *)
TaskOfBuildCanceled(b, c) ==
  /\ <<b, c>> \in requested /\ worker[<<b, c>>] = "none"
  /\ State(b, c) \notin {"none", "deleted"}
  /\ requested' = requested \ {<<b, c>>}
  /\ IF c = Src THEN SetSource(b, "canceled") /\ UNCHANGED status
               ELSE SetRows(b, {c}, "canceled") /\ UNCHANGED source
  /\ UNCHANGED <<canceled, backendVars>>

(* build_task_canceled(): the dispatcher knows of no worker of the task. *)
TaskCanceled(b, c) ==
  /\ <<b, c>> \in requested /\ worker[<<b, c>>] = "none"
  /\ requested' = requested \ {<<b, c>>}
  /\ IF c = Src
     THEN /\ IF source[b] \in {"none", "deleted"} \cup FinishedStates
             THEN UNCHANGED source
             ELSE SetSource(b, "canceled")
          /\ UNCHANGED status
     ELSE /\ IF status[b][c] \in {"none"} \cup FinishedStates
             THEN UNCHANGED status
             ELSE SetRows(b, {c}, "canceled")
          /\ UNCHANGED source
  /\ UNCHANGED <<canceled, backendVars>>

-------------------------------------------------------------------------------
(* dist-git. *)

(* get_build_importing_queue() *)
ImportStart(b) ==
  /\ b \notin importing
  /\ source[b] = "importing" /\ ~canceled[b]
  /\ importing' = importing \cup {b}
  /\ UNCHANGED <<rowVars, worker, faults>>

(* dist_git_upload_completed(): ok are the chroots whose branch has the    *)
(* sources.                                                                *)
AfterImport(b, ok, c) ==
  IF c \notin Rows(b) \/ (c \in ok /\ status[b][c] = "skipped") THEN status[b][c]
  ELSE IF c \in ok THEN "pending" ELSE "failed"

UploadCompleted(b) ==
  /\ b \in importing
  /\ importing' = importing \ {b}
  /\ IF Exists(b)
     THEN \E ok \in SUBSET Rows(b) :
            /\ status' = [status EXCEPT ![b] = [c \in Chroots |-> AfterImport(b, ok, c)]]
            /\ SetSource(b, IF ok = Rows(b) THEN "succeeded" ELSE "failed")
     ELSE UNCHANGED <<source, status>>
  /\ UNCHANGED <<canceled, requested, worker, faults>>

(* The import dies, or its answer never arrives (post_back_safe). *)
ImportLost(b) ==
  /\ b \in importing
  /\ Fault
  /\ importing' = importing \ {b}
  /\ UNCHANGED <<rowVars, worker>>

-------------------------------------------------------------------------------
WorkerStep(b, c) ==
  \/ Spawn(b, c) \/ GetTask(b, c)
  \/ StartingBuild(b, c) \/ RefuseStart(b, c) \/ MarkRunning(b, c)
  \/ ReportFailure(b, c) \/ ReportBuilt(b, c) \/ (c = Src /\ ReportSource(b))

ImportStep(b) == ImportStart(b) \/ UploadCompleted(b)

UserStep(b) ==
  \/ \E C \in SUBSET Usable : Submit(b, C) \/ SubmitImported(b, C)
  \/ Cancel(b) \/ MarkAsFailed(b) \/ DeleteBuild(b)

BuildStep(b) ==
  \/ UserStep(b) \/ ImportStep(b) \/ ImportLost(b)
  \/ \E c \in Chroots \cup {Src} :
       WorkerStep(b, c) \/ WorkerDies(b, c) \/ TaskCanceled(b, c)

BuildsInit ==
  /\ source = [b \in BuildIds |-> "none"]
  /\ canceled = [b \in BuildIds |-> FALSE]
  /\ status = [b \in BuildIds |-> [c \in Chroots |-> "none"]]
  /\ requested = {}
  /\ worker = [t \in Tasks |-> "none"]
  /\ importing = {}
  /\ faults = 0
===============================================================================
