----------------------------- MODULE BuildWorker -----------------------------
(***************************************************************************)
(* One build worker (backend/copr_backend/background_worker_build.py) from *)
(* handle_task() to its end: the host it gets from Resalloc (vm_alloc.py), *)
(* the threads it runs and checks upon (cancellable_thread.py), the build  *)
(* on the host, the retries on other hosts, and the result.                *)
(*                                                                         *)
(* Its place among the other processes is BackgroundWorker's.  Resalloc,   *)
(* the builder and the network are external.  What an exception does is    *)
(* the transition to "retry" (BuildRetry and SSHConnectionError) or to     *)
(* "finish" (any other); a source build only leaves steps out.             *)
(***************************************************************************)
EXTENDS Naturals, FiniteSets

CONSTANTS
  Tickets, NoTicket,  \* Resalloc's tickets; the id of a closed one is reused
  Hosts,              \* host names
  MaxHostAttempts,    \* MAX_HOST_ATTEMPTS
  UserSsh,            \* the job has ssh_public_keys
  MaxFaults           \* bound: failures of hosts, of ssh, of tickets

ASSUME BuildWorkerAssumption ==
  /\ NoTicket \notin Tickets
  /\ IsFiniteSet(Hosts)
  /\ MaxHostAttempts \in Nat \ {0}
  /\ UserSsh \in BOOLEAN
  /\ MaxFaults \in Nat

VARIABLES
  pc,        \* where the worker is
  host,      \* the ticket of self.host
  canceled,  \* self.canceled: what the last check of the request saw
  verdict,   \* the cached answer of _check_failed_resalloc_ticket
  looked,    \* self.host.ticket.failed, as of the last collect()
  seen,      \* seen_hosts
  retried,   \* attempt > 0
  status,    \* self.job.status
  thread,    \* the thread of a CancellableThreadTask: running or how it ended
  posted,    \* the last status posted to the frontend
  published, \* the results are in the repository
  ticket,    \* ticket[t]: "free", "waiting", "ready", "garbled" or "failed"
  name,      \* name[t]: the host of a ticket that is ready, or was
  remote,    \* the build on the host
  timeout,   \* an hour more than the build's timeout has passed
  flag,      \* 'cancel_request' in the worker's Redis hash
  faults

checkVars  == <<canceled, verdict, looked>>
retryVars  == <<seen, retried>>
resultVars == <<status, posted, published>>
hostVars   == <<host, ticket, name>>
buildVars  == <<thread, remote, timeout>>
vars == <<pc, checkVars, retryVars, resultVars, hostVars, buildVars, flag, faults>>

States == {"get", "mark", "repos", "before", "ask", "waiting", "unwait", "vm",
           "announce", "begin", "start", "watch", "interrupt", "join", "judge",
           "keep", "download", "publish", "details", "retry", "finish", "done"}

(* From the ready host to its release *)
OnHost == {"vm", "announce", "begin", "start", "watch", "interrupt", "join",
           "judge", "keep", "download"}

Step(from, to) == pc = from /\ pc' = to
Fault == faults < MaxFaults /\ faults' = faults + 1

(* _drop_host *)
DropHost ==
  /\ host' = NoTicket
  /\ ticket' = [t \in Tickets |-> IF t = host THEN "free" ELSE ticket[t]]
  /\ name' = [t \in Tickets |-> IF t = host THEN NoTicket ELSE name[t]]

-------------------------------------------------------------------------------
(* The environment: users, Resalloc, the builder. *)

RequestCancel ==
  /\ pc # "done" /\ ~flag
  /\ flag' = TRUE
  /\ UNCHANGED <<pc, checkVars, retryVars, resultVars, hostVars, buildVars, faults>>

TicketReady(t, h) ==
  /\ ticket[t] = "waiting"
  /\ ticket' = [ticket EXCEPT ![t] = "ready"]
  /\ name' = [name EXCEPT ![t] = h]
  /\ UNCHANGED <<pc, checkVars, retryVars, resultVars, host, buildVars, flag, faults>>

(* Its output cannot be parsed (at most one such ticket), or somebody else *)
(* closes the ticket.                                                      *)
TicketSpoiled(t) ==
  /\ ticket[t] = "waiting"
  /\ Fault
  /\ \E s \in {"free", "garbled"} :
       /\ s = "garbled" => \A u \in Tickets : ticket[u] # "garbled"
       /\ ticket' = [ticket EXCEPT ![t] = s]
  /\ UNCHANGED <<pc, checkVars, retryVars, resultVars, host, name, buildVars, flag>>

HostDies ==
  /\ pc \in OnHost /\ ticket[host] = "ready"
  /\ Fault
  /\ ticket' = [ticket EXCEPT ![host] = "failed"]
  /\ remote' = IF remote = "running" THEN "lost" ELSE remote
  /\ UNCHANGED <<pc, checkVars, retryVars, resultVars, host, name, thread, timeout, flag>>

RemoteEnds ==
  /\ remote = "running"
  /\ remote' \in {"succeeded", "failed"}
  /\ UNCHANGED <<pc, checkVars, retryVars, resultVars, hostVars, thread, timeout,
                 flag, faults>>

TimeOut ==
  /\ pc \in {"watch", "interrupt", "join", "judge"} /\ ~timeout
  /\ timeout' = TRUE
  /\ UNCHANGED <<pc, checkVars, retryVars, resultVars, hostVars, thread, remote,
                 flag, faults>>

(* The ttl of ten minutes is over. *)
VerdictExpires ==
  /\ verdict # "none"
  /\ verdict' = "none"
  /\ UNCHANGED <<pc, canceled, looked, retryVars, resultVars, hostVars, buildVars,
                 flag, faults>>

-------------------------------------------------------------------------------
(* handle_build(): the job, and the permission to start it *)

GetBuildJob ==
  /\ pc = "get"
  /\ pc' \in {"mark", "done"}   \* without a job nothing is reported
  /\ UNCHANGED <<checkVars, retryVars, resultVars, hostVars, buildVars, flag, faults>>

MarkStarting ==
  /\ Step("mark", "repos")
  /\ status' = "starting" /\ posted' = "starting"
  /\ UNCHANGED <<published, checkVars, retryVars, hostVars, buildVars, flag, faults>>

(* Variant: the answer of the frontend is not looked at. *)
StartAnyway ==
  /\ Step("mark", "repos")
  /\ status' = "starting"
  /\ UNCHANGED <<posted, published, checkVars, retryVars, hostVars, buildVars, flag, faults>>

StartForbidden ==
  /\ Step("mark", "finish")
  /\ status' = "starting"
  /\ UNCHANGED <<posted, published, checkVars, retryVars, hostVars, buildVars, flag, faults>>

(* build(): _wait_for_repos *)
WaitForRepos ==
  /\ pc = "repos"
  /\ pc' \in {"before", "finish"}
  /\ UNCHANGED <<checkVars, retryVars, resultVars, hostVars, buildVars, flag, faults>>

(* _cancel_if_requested *)
CancelIfRequested(from, to) ==
  /\ pc = from
  /\ canceled' = flag
  /\ IF flag THEN pc' = "finish" /\ DropHost
             ELSE pc' = to /\ UNCHANGED hostVars
  /\ UNCHANGED <<verdict, looked, retryVars, resultVars, buildVars, flag, faults>>

-------------------------------------------------------------------------------
(* _alloc_host *)

(* A host that was not ready is replaced by the next one, not released. *)
AskForHost(t) ==
  /\ Step("ask", "waiting")
  /\ ticket[t] = "free"
  /\ ticket' = [ticket EXCEPT ![t] = "waiting"]
  /\ host' = t
  /\ looked' = FALSE
  /\ thread' = "running"
  /\ UNCHANGED <<name, canceled, verdict, retryVars, resultVars, remote, timeout,
                 flag, faults>>

(* Variant: check_ready does not look at 'closed'. *)
WaitReadyOnly ==
  /\ pc \in {"waiting", "unwait"} /\ thread = "running"
  /\ host # NoTicket => ticket[host] \notin {"waiting", "free"}
  /\ thread' = IF host # NoTicket /\ ticket[host] = "ready" THEN "ok" ELSE "broken"
  /\ UNCHANGED <<pc, checkVars, retryVars, resultVars, hostVars, remote, timeout,
                 flag, faults>>

(* wait_ready, in the thread: it ends, too, when the ticket is closed. *)
WaitReady ==
  /\ pc \in {"waiting", "unwait"} /\ thread = "running"
  /\ host # NoTicket => ticket[host] # "waiting"
  /\ thread' = IF host # NoTicket /\ ticket[host] = "ready" THEN "ok" ELSE "broken"
  /\ UNCHANGED <<pc, checkVars, retryVars, resultVars, hostVars, remote, timeout,
                 flag, faults>>

(* The periodic check, and _cancel_vm_allocation *)
CheckWait ==
  /\ pc = "waiting" /\ thread = "running"
  /\ canceled' = flag
  /\ IF flag THEN pc' = "unwait" /\ DropHost
             ELSE pc' = "waiting" /\ UNCHANGED hostVars
  /\ UNCHANGED <<verdict, looked, retryVars, resultVars, buildVars, flag, faults>>

WaitEnds ==
  /\ pc \in {"waiting", "unwait"} /\ thread # "running"
  /\ pc' = IF canceled THEN "finish" ELSE IF thread = "ok" THEN "vm" ELSE "ask"
  /\ thread' = "off"
  /\ UNCHANGED <<checkVars, retryVars, resultVars, hostVars, remote, timeout, flag, faults>>

-------------------------------------------------------------------------------
(* The build on the host *)

HostFails ==
  /\ pc' = "retry"
  /\ IF ticket[host] = "failed" THEN UNCHANGED faults ELSE Fault

(* Something ssh is needed for fails: copr-builder-ready, the start of the *)
(* build, the download.                                                    *)
SshFails ==
  /\ pc \in {"vm", "start", "download"}
  /\ HostFails
  /\ UNCHANGED <<checkVars, retryVars, resultVars, hostVars, buildVars, flag>>

CheckVm ==
  /\ Step("vm", "announce")
  /\ ticket[host] = "ready"
  /\ UNCHANGED <<checkVars, retryVars, resultVars, hostVars, buildVars, flag, faults>>

(* _mark_running: the time starts anew; a retry is not posted again. *)
MarkRunning ==
  /\ Step("begin", "start")
  /\ status' = "running"
  /\ posted' = IF retried THEN posted ELSE "running"
  /\ timeout' = FALSE
  /\ UNCHANGED <<published, checkVars, retryVars, hostVars, thread, remote, flag, faults>>

StartRemoteBuild ==
  /\ pc = "start" /\ ticket[host] = "ready"
  /\ \/ /\ pc' = "watch"
        /\ remote' = "running" /\ thread' = "running"
     \/ /\ pc' = "finish"    \* copr-rpmbuild does not start
        /\ UNCHANGED <<remote, thread>>
  /\ UNCHANGED <<checkVars, retryVars, resultVars, hostVars, timeout, flag, faults>>

(* _transfer_log_file, in the thread, ends with the build or with ssh. *)
LogEnds ==
  /\ pc \in {"watch", "interrupt", "join"} /\ thread = "running"
  /\ \/ remote \notin {"running", "lost"} /\ thread' = "ok" /\ UNCHANGED faults
     \/ remote = "lost" /\ thread' = "broken" /\ UNCHANGED faults
     \/ thread' = "broken" /\ Fault
  /\ UNCHANGED <<pc, checkVars, retryVars, resultVars, hostVars, remote, timeout, flag>>

(* _check_build_interrupted: a failed ticket comes first, and the cached   *)
(* verdict may be one on an earlier host.                                  *)
Dead == IF verdict = "none" THEN ticket[host] = "failed" ELSE verdict = "dead"

CheckWatch ==
  /\ pc = "watch" /\ thread = "running"
  /\ verdict' = IF Dead THEN "dead" ELSE "alive"
  /\ looked' = IF verdict = "none" THEN Dead ELSE looked
  /\ canceled' = IF Dead THEN canceled ELSE flag
  /\ pc' = IF Dead \/ flag \/ timeout THEN "interrupt" ELSE "watch"
  /\ UNCHANGED <<retryVars, resultVars, hostVars, buildVars, flag, faults>>

(* _discard_running_worker: copr-rpmbuild-cancel over ssh; thread.join()   *)
Interrupt ==
  /\ Step("interrupt", "join")
  /\ \/ /\ ticket[host] = "ready"
        /\ remote' = (IF remote = "running" THEN "killed" ELSE remote)
        /\ UNCHANGED faults
     \/ ticket[host] = "failed" /\ UNCHANGED <<remote, faults>>
     \/ Fault /\ UNCHANGED remote
  /\ UNCHANGED <<checkVars, retryVars, resultVars, hostVars, thread, timeout, flag>>

WatchEnds ==
  /\ pc \in {"watch", "join"} /\ thread # "running"
  /\ pc' = "judge"
  /\ UNCHANGED <<checkVars, retryVars, resultVars, hostVars, buildVars, flag, faults>>

AfterRemote == IF UserSsh THEN "keep" ELSE "download"

(* Variant: only the timeout is looked at before the results. *)
JudgeTimeout ==
  /\ pc = "judge"
  /\ pc' = IF timeout THEN "finish"
           ELSE IF looked \/ thread = "broken" THEN "retry" ELSE AfterRemote
  /\ thread' = "off"
  /\ UNCHANGED <<checkVars, retryVars, resultVars, hostVars, remote, timeout, flag, faults>>

(* Variant: the log that breaks off fails the build. *)
JudgeStrictly ==
  /\ pc = "judge"
  /\ pc' = IF canceled \/ timeout \/ thread = "broken" THEN "finish"
           ELSE IF looked THEN "retry" ELSE AfterRemote
  /\ thread' = "off"
  /\ UNCHANGED <<checkVars, retryVars, resultVars, hostVars, remote, timeout, flag, faults>>

Judge ==
  /\ pc = "judge"
  /\ pc' = IF canceled \/ timeout THEN "finish"
           ELSE IF looked \/ thread = "broken" THEN "retry" ELSE AfterRemote
  /\ thread' = "off"
  /\ UNCHANGED <<checkVars, retryVars, resultVars, hostVars, remote, timeout, flag, faults>>

(* _keep_alive_for_user_ssh: until the host expires or a check sees the    *)
(* request to cancel                                                       *)
KeepAlive ==
  /\ pc = "keep"
  /\ \/ canceled' = canceled /\ pc' = "download"
     \/ canceled' = flag /\ flag /\ pc' = "finish"
  /\ UNCHANGED <<verdict, looked, retryVars, resultVars, hostVars, buildVars, flag, faults>>

Download ==
  /\ Step("download", "publish")
  /\ ticket[host] = "ready"
  /\ DropHost
  /\ UNCHANGED <<checkVars, retryVars, resultVars, buildVars, flag, faults>>

-------------------------------------------------------------------------------
(* The results, the retry and the end *)

(* Sign, upload, createrepo: only what has a 'success' file.  With user    *)
(* SSH the builder is not trusted, and there are no packages to publish.   *)
Publish ==
  /\ Step("publish", "details")
  /\ remote = "succeeded"
  /\ published' = TRUE
  /\ UNCHANGED <<status, posted, checkVars, retryVars, hostVars, buildVars, flag, faults>>

(* Variant: the result is taken before the exception. *)
PublishFailsLate ==
  /\ pc \in {"publish", "details"}
  /\ pc' = "finish"
  /\ status' = IF remote = "succeeded" THEN "succeeded" ELSE "failed"
  /\ UNCHANGED <<posted, published, checkVars, retryVars, hostVars, buildVars, flag, faults>>

(* Any exception fails the build, also after it was published. *)
PublishFails ==
  /\ pc \in {"publish", "details"}
  /\ pc' = "finish"
  /\ status' = "failed"
  /\ UNCHANGED <<posted, published, checkVars, retryVars, hostVars, buildVars, flag, faults>>

Built ==
  /\ Step("details", "finish")
  /\ status' = "succeeded"
  /\ UNCHANGED <<posted, published, checkVars, retryVars, hostVars, buildVars, flag, faults>>

(* Variant: the host is not released before the next one is asked for. *)
RetryKeepingHost ==
  /\ pc = "retry"
  /\ seen' = seen \cup {name[host]}
  /\ pc' = IF Cardinality(seen') >= MaxHostAttempts THEN "finish" ELSE "repos"
  /\ retried' = TRUE
  /\ remote' = IF pc' = "repos" THEN "off" ELSE remote
  /\ UNCHANGED <<hostVars, checkVars, resultVars, thread, timeout, flag, faults>>

(* Variant: the host is released before it is noted. *)
RetryDropsFirst ==
  /\ pc = "retry"
  /\ DropHost
  /\ seen' = seen \cup {host'}
  /\ pc' = IF Cardinality(seen') >= MaxHostAttempts THEN "finish" ELSE "repos"
  /\ retried' = TRUE
  /\ remote' = IF pc' = "repos" THEN "off" ELSE remote
  /\ UNCHANGED <<checkVars, resultVars, thread, timeout, flag, faults>>

(* retry_the_build *)
Retry ==
  /\ pc = "retry"
  /\ seen' = seen \cup {name[host]}
  /\ pc' = IF Cardinality(seen') >= MaxHostAttempts THEN "finish" ELSE "repos"
  /\ retried' = TRUE
  /\ DropHost
  /\ remote' = IF pc' = "repos" THEN "off" ELSE remote
  /\ UNCHANGED <<checkVars, resultVars, thread, timeout, flag, faults>>

(* handle_task's finally: whatever is not a result is a failure *)
Finish ==
  /\ Step("finish", "done")
  /\ DropHost
  /\ status' = IF status = "succeeded" THEN "succeeded" ELSE "failed"
  /\ posted' = status'
  /\ UNCHANGED <<published, checkVars, retryVars, buildVars, flag, faults>>

-------------------------------------------------------------------------------
Init ==
  /\ pc = "get"
  /\ host = NoTicket
  /\ canceled = FALSE /\ verdict = "none" /\ looked = FALSE
  /\ seen = {} /\ retried = FALSE
  /\ status = "none" /\ posted = "none" /\ published = FALSE
  /\ thread = "off"
  /\ ticket = [t \in Tickets |-> "free"]
  /\ name = [t \in Tickets |-> NoTicket]
  /\ remote = "off" /\ timeout = FALSE
  /\ flag = FALSE /\ faults = 0

Work ==
  \/ GetBuildJob \/ MarkStarting \/ StartForbidden \/ WaitForRepos
  \/ CancelIfRequested("before", "ask") \/ CancelIfRequested("announce", "begin")
  \/ \E t \in Tickets : AskForHost(t)
  \/ CheckWait \/ WaitEnds
  \/ SshFails \/ CheckVm \/ MarkRunning \/ StartRemoteBuild
  \/ CheckWatch \/ Interrupt \/ WatchEnds \/ Judge \/ KeepAlive \/ Download
  \/ Publish \/ PublishFails \/ Built \/ Retry \/ Finish

Thread == WaitReady \/ LogEnds

Resalloc ==
  \E t \in Tickets : TicketSpoiled(t) \/ \E h \in Hosts : TicketReady(t, h)

Next ==
  \/ Work \/ Thread \/ Resalloc
  \/ RequestCancel \/ HostDies \/ RemoteEnds \/ TimeOut \/ VerdictExpires

Spec == Init /\ [][Next]_vars

(* Threads run, Resalloc answers, and a builder ends every build: its own  *)
(* timeout is not the worker's, which need not elapse.                     *)
Fairness ==
  /\ WF_vars(Work) /\ WF_vars(Thread)
  /\ WF_vars(\E t \in Tickets, h \in Hosts : TicketReady(t, h))
  /\ WF_vars(RemoteEnds)

FairSpec == Spec /\ Fairness

-------------------------------------------------------------------------------
TypeOK ==
  /\ pc \in States
  /\ host \in Tickets \cup {NoTicket}
  /\ canceled \in BOOLEAN /\ looked \in BOOLEAN /\ verdict \in {"none", "alive", "dead"}
  /\ seen \subseteq Hosts /\ retried \in BOOLEAN
  /\ status \in {"none", "starting", "running", "failed", "succeeded"}
  /\ posted \in {"none", "starting", "running", "failed", "succeeded"}
  /\ published \in BOOLEAN
  /\ thread \in {"off", "running", "ok", "broken"}
  /\ ticket \in [Tickets -> {"free", "waiting", "ready", "garbled", "failed"}]
  /\ name \in [Tickets -> Hosts \cup {NoTicket}]
  /\ remote \in {"off", "running", "lost", "killed", "succeeded", "failed"}
  /\ timeout \in BOOLEAN /\ flag \in BOOLEAN
  /\ faults \in 0 .. MaxFaults

(* No host is forgotten: every ticket that is open is the worker's own,    *)
(* whatever failed or was canceled, and none is left at the end.  Only a   *)
(* ticket whose output cannot be parsed is never closed.                   *)
NoHostForgotten ==
  /\ \A t \in Tickets : ticket[t] \in {"free", "garbled"} \/ t = host
  /\ pc = "done" => host = NoTicket

(* Once a check saw the request to cancel, the build only goes to its end: *)
(* it is neither retried, nor published, nor reported as succeeded.        *)
NoticedCancelFails ==
  canceled => /\ pc \in {"unwait", "interrupt", "join", "judge", "finish", "done"}
              /\ status # "succeeded"

(* What is reported as succeeded did succeed on the last host, its results *)
(* are in the repository, and no host is held for it any more.             *)
SuccessIsReal ==
  posted = "succeeded" => remote = "succeeded" /\ published /\ host = NoTicket

(* A build whose host died, or that was interrupted, is failed only when   *)
(* it was canceled or timed out or MAX_HOST_ATTEMPTS hosts were tried;     *)
(* otherwise it goes on elsewhere.  On a retry it may be interrupted, too, *)
(* because the verdict on an earlier host is still cached.                 *)
HostLossIsRetried ==
  pc \in {"keep", "publish", "finish", "done"} /\ remote \in {"lost", "killed"}
    => \/ canceled \/ timeout
       \/ Cardinality(seen) >= MaxHostAttempts
       \/ remote = "killed" /\ retried

(* The worker posts what the frontend expects of it, in that order.        *)
Reports == INSTANCE JobReports
ImplementsReports == Reports!Spec

(* A worker that got its job ends, and the result is posted.               *)
WorkerEnds == <>(pc = "done" /\ (status # "none" => posted \in {"failed", "succeeded"}))
===============================================================================
