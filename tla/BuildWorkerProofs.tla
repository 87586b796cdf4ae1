--------------------------- MODULE BuildWorkerProofs ---------------------------
(***************************************************************************)
(* Safety of a build worker for any number of tickets, hosts, attempts and *)
(* faults.  None of the invariants is inductive alone: what a step may     *)
(* assume about the host, the build on it and the reports depends on where *)
(* the worker is.  Inv says that, in one conjunct per topic.               *)
(***************************************************************************)
EXTENDS BuildWorker, TLAPS

(* Before the host, with the host, after it *)
NoHostYet == {"get", "mark", "repos", "before"}
NotBegun  == NoHostYet \cup {"ask", "waiting", "unwait", "vm", "announce", "begin", "start"}
Watching  == {"watch", "interrupt", "join"}

(* Which tickets are open, and what is known of the worker's own *)
HostInv ==
  /\ \A t \in Tickets : ticket[t] \in {"free", "garbled"} \/ t = host
  /\ \A t \in Tickets : ticket[t] \in {"ready", "failed"} => name[t] \in Hosts
  /\ pc \in NoHostYet \cup {"unwait", "publish", "details", "done"} => host = NoTicket
  /\ pc = "ask" => host = NoTicket \/ ticket[host] \in {"free", "garbled"}
  /\ pc = "waiting" => /\ host \in Tickets /\ ticket[host] # "failed"
                       /\ thread = "ok" => ticket[host] = "ready"
                       /\ thread = "broken" => ticket[host] \in {"free", "garbled"}
                       /\ thread # "off"
  /\ pc = "unwait" => canceled /\ thread # "off"
  /\ pc \in OnHost \cup {"retry"} => host \in Tickets /\ ticket[host] \in {"ready", "failed"}

(* The build on the host, and why it may have been interrupted *)
RemoteInv ==
  /\ pc \in NotBegun => remote = "off"
  /\ pc \in Watching => thread # "off"
  /\ pc = "judge" => thread \in {"ok", "broken"}
  /\ pc = "watch" => remote # "killed"
  /\ pc \in Watching \cup {"judge"} /\ thread = "ok" => remote \notin {"running", "lost"}
  /\ pc \in {"keep", "download", "publish"} => remote \notin {"running", "lost"}
  /\ pc = "details" => remote = "succeeded" /\ published
  /\ pc \in NotBegun /\ verdict # "none" => retried
  /\ verdict = "dead" => looked \/ retried
  /\ pc \in {"interrupt", "join"} => canceled \/ timeout \/ looked \/ retried
  /\ pc \in Watching \cup {"judge"} /\ remote = "killed" =>
       canceled \/ timeout \/ looked \/ retried
  /\ pc \in {"keep", "download", "publish"} /\ remote = "killed" => retried

(* What was posted, and the result *)
ReportInv ==
  /\ pc \in {"get", "mark"} => posted = "none"
  /\ pc \notin {"get", "mark", "finish", "done"} => posted \in {"starting", "running"}
  /\ pc \in NotBegun \ {"get", "mark", "start"} /\ ~retried => posted = "starting"
  /\ pc = "finish" => posted \in {"none", "starting", "running"}
  /\ status = "succeeded" => /\ pc \in {"finish", "done"}
                             /\ remote = "succeeded" /\ published /\ posted # "none"
  /\ posted = "succeeded" => pc = "done" /\ status = "succeeded"

Inv == TypeOK /\ HostInv /\ RemoteInv /\ ReportInv /\ NoticedCancelFails /\ HostLossIsRetried

(* One step per action; every case below it is an arm of the action.      *)
LEMMA InvInductive == Inv /\ [Next]_vars => Inv'
<1> SUFFICES ASSUME Inv, [Next]_vars PROVE Inv'
  OBVIOUS
<1> USE BuildWorkerAssumption
    DEF Inv, TypeOK, HostInv, RemoteInv, ReportInv, NoticedCancelFails, HostLossIsRetried,
        NoHostYet, NotBegun, Watching, OnHost, States, Step,
        checkVars, retryVars, resultVars, hostVars, buildVars
<1>1. ASSUME GetBuildJob PROVE Inv'
  BY <1>1 DEF GetBuildJob
<1>2. ASSUME MarkStarting PROVE Inv'
  BY <1>2 DEF MarkStarting
<1>3. ASSUME StartForbidden PROVE Inv'
  BY <1>3 DEF StartForbidden
<1>4. ASSUME WaitForRepos PROVE Inv'
  BY <1>4 DEF WaitForRepos
<1>5. ASSUME CancelIfRequested("before", "ask") PROVE Inv'
  BY <1>5 DEF CancelIfRequested, DropHost
<1>6. ASSUME CancelIfRequested("announce", "begin") PROVE Inv'
  BY <1>6 DEF CancelIfRequested, DropHost
<1>7. ASSUME NEW t \in Tickets, AskForHost(t) PROVE Inv'
  <2>1. TypeOK'
    BY <1>7 DEF AskForHost
  <2>2. HostInv'
    BY <1>7 DEF AskForHost
  <2>3. RemoteInv'
    BY <1>7 DEF AskForHost
  <2>4. ReportInv'
    BY <1>7 DEF AskForHost
  <2>5. (NoticedCancelFails /\ HostLossIsRetried)'
    BY <1>7 DEF AskForHost
  <2> QED
    BY <2>1, <2>2, <2>3, <2>4, <2>5
<1>8. ASSUME CheckWait PROVE Inv'
  BY <1>8 DEF CheckWait, DropHost
<1>9. ASSUME WaitEnds PROVE Inv'
  BY <1>9 DEF WaitEnds
<1>10. ASSUME SshFails PROVE Inv'
  BY <1>10 DEF SshFails, HostFails, Fault
<1>11. ASSUME CheckVm PROVE Inv'
  BY <1>11 DEF CheckVm
<1>12. ASSUME MarkRunning PROVE Inv'
  <2>1. TypeOK'
    BY <1>12 DEF MarkRunning
  <2>2. HostInv'
    BY <1>12 DEF MarkRunning
  <2>3. RemoteInv'
    BY <1>12 DEF MarkRunning
  <2>4. ReportInv'
    BY <1>12 DEF MarkRunning
  <2>5. (NoticedCancelFails /\ HostLossIsRetried)'
    BY <1>12 DEF MarkRunning
  <2> QED
    BY <2>1, <2>2, <2>3, <2>4, <2>5
<1>13. ASSUME StartRemoteBuild PROVE Inv'
  BY <1>13 DEF StartRemoteBuild
<1>14. ASSUME CheckWatch PROVE Inv'
  <2>1. TypeOK'
    <3>1. looked' \in BOOLEAN
      BY <1>14, Zenon DEF CheckWatch, Dead
    <3>2. canceled' \in BOOLEAN
      BY <1>14 DEF CheckWatch
    <3> QED
      BY <1>14, <3>1, <3>2 DEF CheckWatch
  <2>2. HostInv'
    BY <1>14 DEF CheckWatch, Dead
  <2>3. RemoteInv'
    <3>1. pc = "watch" /\ pc' \in {"watch", "interrupt"} /\ thread = "running"
      BY <1>14 DEF CheckWatch
    <3>2. verdict' = "dead" => looked' \/ retried
      <4>1. CASE verdict = "none" /\ ticket[host] = "failed"
        BY <1>14, <4>1 DEF CheckWatch, Dead
      <4>2. CASE verdict = "none" /\ ticket[host] # "failed"
        BY <1>14, <4>2 DEF CheckWatch, Dead
      <4>3. CASE verdict # "none"
        BY <1>14, <4>3 DEF CheckWatch, Dead
      <4> QED
        BY <4>1, <4>2, <4>3
    <3>3. pc' = "interrupt" => verdict' = "dead" \/ canceled' \/ timeout
      BY <1>14 DEF CheckWatch
    <3> QED
      BY <1>14, <3>1, <3>2, <3>3 DEF CheckWatch
  <2>4. ReportInv'
    BY <1>14 DEF CheckWatch, Dead
  <2>5. (NoticedCancelFails /\ HostLossIsRetried)'
    BY <1>14 DEF CheckWatch, Dead
  <2> QED
    BY <2>1, <2>2, <2>3, <2>4, <2>5
<1>15. ASSUME Interrupt PROVE Inv'
  BY <1>15 DEF Interrupt, Fault
<1>16. ASSUME WatchEnds PROVE Inv'
  BY <1>16 DEF WatchEnds
<1>17. ASSUME Judge PROVE Inv'
  BY <1>17 DEF Judge, AfterRemote
<1>18. ASSUME KeepAlive PROVE Inv'
  BY <1>18 DEF KeepAlive
<1>19. ASSUME Download PROVE Inv'
  BY <1>19 DEF Download, DropHost
<1>20. ASSUME Publish PROVE Inv'
  BY <1>20 DEF Publish
<1>21. ASSUME PublishFails PROVE Inv'
  BY <1>21 DEF PublishFails
<1>22. ASSUME Built PROVE Inv'
  BY <1>22 DEF Built
<1>23. ASSUME Retry PROVE Inv'
  BY <1>23 DEF Retry, DropHost
<1>24. ASSUME Finish PROVE Inv'
  BY <1>24 DEF Finish, DropHost
<1>25. ASSUME WaitReady PROVE Inv'
  BY <1>25 DEF WaitReady
<1>26. ASSUME LogEnds PROVE Inv'
  BY <1>26 DEF LogEnds, Fault
<1>27. ASSUME NEW t \in Tickets, TicketSpoiled(t) PROVE Inv'
  BY <1>27 DEF TicketSpoiled, Fault
<1>28. ASSUME NEW t \in Tickets, NEW h \in Hosts, TicketReady(t, h) PROVE Inv'
  BY <1>28 DEF TicketReady
<1>29. ASSUME RequestCancel PROVE Inv'
  BY <1>29 DEF RequestCancel
<1>30. ASSUME HostDies PROVE Inv'
  BY <1>30 DEF HostDies, Fault
<1>31. ASSUME RemoteEnds PROVE Inv'
  BY <1>31 DEF RemoteEnds
<1>32. ASSUME TimeOut PROVE Inv'
  BY <1>32 DEF TimeOut
<1>33. ASSUME VerdictExpires PROVE Inv'
  BY <1>33 DEF VerdictExpires
<1>34. CASE UNCHANGED vars
  BY <1>34 DEF vars
<1> QED
  BY <1>1, <1>2, <1>3, <1>4, <1>5, <1>6, <1>7, <1>8, <1>9, <1>10, <1>11, <1>12, <1>13, <1>14, <1>15, <1>16, <1>17, <1>18, <1>19, <1>20, <1>21, <1>22, <1>23, <1>24, <1>25, <1>26, <1>27, <1>28, <1>29, <1>30, <1>31, <1>32, <1>33, <1>34
     DEF Next, Work, Thread, Resalloc

(* The invariant of every behaviour: what all the theorems rest on.        *)
LEMMA InvHolds == Spec => []Inv
<1>1. ASSUME Init PROVE Inv
  <2> USE <1>1, BuildWorkerAssumption DEF Init
  <2>1. TypeOK
    <3>1. ticket \in [Tickets -> {"free", "waiting", "ready", "garbled", "failed"}]
      OBVIOUS
    <3>2. name \in [Tickets -> Hosts \cup {NoTicket}]
      OBVIOUS
    <3>3. pc \in States /\ faults \in 0 .. MaxFaults
      BY DEF States
    <3> QED
      BY <3>1, <3>2, <3>3 DEF TypeOK
  <2>2. HostInv
    BY DEF HostInv, NoHostYet, OnHost
  <2>3. RemoteInv /\ ReportInv
    BY DEF RemoteInv, ReportInv, NotBegun, NoHostYet, Watching
  <2>4. NoticedCancelFails /\ HostLossIsRetried
    BY DEF NoticedCancelFails, HostLossIsRetried
  <2> QED
    BY <2>1, <2>2, <2>3, <2>4 DEF Inv
<1> QED
  BY <1>1, InvInductive, PTL DEF Spec

(* The variables keep their types. *)
THEOREM TypeCorrect == Spec => []TypeOK
BY InvHolds, PTL DEF Inv

(* No host stays allocated behind the worker's back (_drop_host is called  *)
(* on every way from one host to the next and to the end).                 *)
THEOREM HostsReleased == Spec => []NoHostForgotten
<1>1. Inv => NoHostForgotten
  BY DEF Inv, HostInv, NoHostForgotten
<1> QED
  BY <1>1, InvHolds, PTL

(* A request to cancel that a check noticed is never lost again.           *)
THEOREM NoticedCancel == Spec => []NoticedCancelFails
BY InvHolds, PTL DEF Inv

(* No build is reported as succeeded unless it did and was published.      *)
THEOREM SuccessReal == Spec => []SuccessIsReal
<1>1. Inv => SuccessIsReal
  BY DEF Inv, HostInv, ReportInv, SuccessIsReal
<1> QED
  BY <1>1, InvHolds, PTL

(* No build fails because its host was lost while another one may be tried. *)
THEOREM LossRetried == Spec => []HostLossIsRetried
BY InvHolds, PTL DEF Inv

(* The reports come in the order that the frontend expects: handle_build,  *)
(* _mark_starting, _mark_running and the final report of handle_task.      *)
THEOREM ReportsRefined == Spec => ImplementsReports
<1>1. Init => Reports!Init
  BY DEF Init, Reports!Init
<1>2. ASSUME Inv, [Next]_vars PROVE [Reports!Next]_posted
  <2> USE <1>2 DEF Inv, ReportInv, resultVars, Step, Reports!Next
  <2>1. CASE MarkStarting
    BY <2>1 DEF MarkStarting, Reports!Started
  <2>2. CASE MarkRunning
    BY <2>2 DEF MarkRunning, Reports!Runs, NotBegun, NoHostYet
  <2>3. CASE Finish
    BY <2>3 DEF Finish, Reports!Fails, Reports!Built
  <2>4. CASE ~(MarkStarting \/ MarkRunning \/ Finish)
    <3>1. posted' = posted
      BY <2>4 DEF Next, Work, Thread, Resalloc, vars, GetBuildJob, StartForbidden,
         WaitForRepos, CancelIfRequested, AskForHost, CheckWait, WaitEnds, SshFails,
         CheckVm, StartRemoteBuild, CheckWatch, Interrupt, WatchEnds, Judge, KeepAlive,
         Download, Publish, PublishFails, Built, Retry, WaitReady, LogEnds, TicketSpoiled,
         TicketReady, RequestCancel, HostDies, RemoteEnds, TimeOut, VerdictExpires
    <3> QED
      BY <3>1
  <2> QED
    BY <2>1, <2>2, <2>3, <2>4
<1> QED
  BY <1>1, <1>2, InvHolds, PTL DEF Spec, ImplementsReports, Reports!Spec
================================================================================
