------------------------------ MODULE CoprChroots ------------------------------
(***************************************************************************)
(* The chroots of one project on the frontend: how a chroot is disabled,   *)
(* preserved, removed and enabled again (CoprChroot in coprs/models.py,    *)
(* logic/coprs_logic.py, logic/outdated_chroots_logic.py and the commands  *)
(* of an administrator), together with the builds of the project (Builds). *)
(*                                                                         *)
(* Dates are reduced to what is compared with the clock: delete_after to   *)
(* unset, ahead or past, last_build_timestamp to recent or older than the  *)
(* inactivity warning.  Every request and every command is one             *)
(* transaction.  The project is not persistent.                            *)
(***************************************************************************)
EXTENDS Builds

CONSTANTS
  Rolling,     \* MockChroot.rolling: such a chroot expires when it is not used
  Altered      \* bound: the chroots that anybody but a build changes

ASSUME CoprChrootsAssumption ==
  /\ Rolling \subseteq Chroots
  /\ Altered \subseteq Chroots

VARIABLES
  deleteAfter,   \* CoprChroot.delete_after: "none", "ahead" or "past"
  deleteNotify,  \* CoprChroot.delete_notify is set
  lastBuild,     \* CoprChroot.last_build_timestamp, "recent" also when unset
  used           \* history: a sign of use since delete_after was set

outdatedVars == <<deleteAfter, deleteNotify, lastBuild, used>>
chrootVars   == <<active, deleted, outdatedVars>>
vars         == <<buildVars, chrootVars>>

(* CoprChroot.delete_status *)
DeleteStatus(c) ==
  LET counting == IF deleteAfter[c] = "past" THEN "expired" ELSE "preserved"
  IN  CASE deleted[c] ->
             IF deleteAfter[c] = "none" THEN "deleted" ELSE counting
        [] ~deleted[c] /\ ~active[c] /\ ~deleteNotify[c] ->
             IF deleteAfter[c] = "none" THEN "deactivated" ELSE "preserved"
        [] ~deleted[c] /\ ~active[c] /\ deleteNotify[c] ->
             IF deleteAfter[c] = "none" THEN "deleted" ELSE counting
        [] ~deleted[c] /\ active[c] /\ deleteAfter[c] = "none" ->
             IF deleteNotify[c] THEN "undefined" ELSE "active"
        [] ~deleted[c] /\ active[c] /\ deleteAfter[c] # "none" ->
             IF c \notin Rolling THEN "undefined"
             ELSE IF deleteNotify[c] THEN counting ELSE "preserved"


Set(f, c, v) == [f EXCEPT ![c] = v]

-------------------------------------------------------------------------------
(* The preservation period. *)

(* delete_after is some days from now, and counts from now *)
StartPeriod(c) ==
  /\ deleteAfter' = Set(deleteAfter, c, "ahead")
  /\ used' = Set(used, c, FALSE)

(* delete_after is unset because the chroot is of use *)
StopPeriod(c) ==
  /\ deleteAfter' = Set(deleteAfter, c, "none")
  /\ used' = Set(used, c, TRUE)

Expires(c) ==
  /\ deleteAfter[c] = "ahead"
  /\ deleteAfter' = Set(deleteAfter, c, "past")
  /\ UNCHANGED <<buildVars, active, deleted, deleteNotify, lastBuild, used>>

GetsOld(c) ==
  /\ lastBuild[c] = "recent"
  /\ lastBuild' = Set(lastBuild, c, "old")
  /\ UNCHANGED <<buildVars, active, deleted, deleteAfter, deleteNotify, used>>

(* Variant: build_submitted only notes the time. *)
BuildSubmittedOnly(C) ==
  /\ lastBuild' = [c \in Chroots |-> IF c \in C THEN "recent" ELSE lastBuild[c]]
  /\ used' = [c \in Chroots |-> c \in C \/ used[c]]
  /\ UNCHANGED <<deleteAfter, deleteNotify>>

(* CoprChroot.build_submitted(), for the chroots of new BuildChroots *)
BuildSubmitted(C) ==
  /\ deleteAfter' = [c \in Chroots |-> IF c \in C THEN "none" ELSE deleteAfter[c]]
  /\ deleteNotify' = [c \in Chroots |-> deleteNotify[c] /\ c \notin C]
  /\ lastBuild' = [c \in Chroots |-> IF c \in C THEN "recent" ELSE lastBuild[c]]
  /\ used' = [c \in Chroots |-> c \in C \/ used[c]]

NewRows ==
  {c \in Chroots : \E b \in BuildIds : status[b][c] = "none" /\ status'[b][c] # "none"}

(* A step of Builds, BuildChrootsLogic.new included *)
Building(Step) ==
  /\ Step
  /\ BuildSubmitted(NewRows)
  /\ UNCHANGED <<active, deleted>>

-------------------------------------------------------------------------------
(* alter_chroot: activate, deactivate and eol *)

(* The unclicked ones are not touched. *)
Activate(c) ==
  /\ ~active[c]
  /\ active' = Set(active, c, TRUE)
  /\ IF deleted[c]
     THEN UNCHANGED <<deleteAfter, deleteNotify, used>>
     ELSE StopPeriod(c) /\ deleteNotify' = Set(deleteNotify, c, FALSE)
  /\ UNCHANGED <<buildVars, deleted, lastBuild>>

Deactivate(c) ==
  /\ active[c]
  /\ active' = Set(active, c, FALSE)
  /\ UNCHANGED <<buildVars, deleted, outdatedVars>>

Eol(c) ==
  /\ active' = Set(active, c, FALSE)
  /\ CancelByMock(c)
  /\ IF deleted[c] THEN UNCHANGED <<deleteAfter, used>> ELSE StartPeriod(c)
  /\ UNCHANGED <<deleted, deleteNotify, lastBuild>>

-------------------------------------------------------------------------------
(* The owner of the project: update_from_names (a chroot is unclicked only *)
(* when it is active and has no unfinished build), extend and expire.      *)

Unclick(c) ==
  /\ active[c] /\ ~deleted[c]
  /\ Unfinished(c) = {}
  /\ deleted' = Set(deleted, c, TRUE)
  /\ StartPeriod(c)
  /\ UNCHANGED <<buildVars, active, deleteNotify, lastBuild>>

Click(c) ==
  /\ active[c] /\ deleted[c]
  /\ deleted' = Set(deleted, c, FALSE)
  /\ StopPeriod(c)
  /\ UNCHANGED <<buildVars, active, deleteNotify, lastBuild>>

(* The page lists the outdated chroots; the request takes any. *)
Outdated(c) == deleteAfter[c] # "none" /\ ~deleted[c]

Extend(c) ==
  /\ Outdated(c)
  /\ StartPeriod(c)
  /\ UNCHANGED <<buildVars, active, deleted, deleteNotify, lastBuild>>

Expire(c) ==
  /\ Outdated(c)
  /\ StartPeriod(c)
  /\ deleteNotify' = Set(deleteNotify, c, TRUE)
  /\ UNCHANGED <<buildVars, active, deleted, lastBuild>>

-------------------------------------------------------------------------------
(* The periodic commands. *)

(* trigger_rolling_eol_policy, which does not look at 'deleted' *)
RollingPolicy(c) ==
  /\ c \in Rolling /\ active[c]
  /\ deleteAfter[c] = "none" /\ lastBuild[c] = "old"
  /\ StartPeriod(c)
  /\ UNCHANGED <<buildVars, active, deleted, deleteNotify, lastBuild>>

(* notify_outdated_chroots *)
Notify(c) ==
  /\ deleteAfter[c] = "ahead" /\ ~deleted[c]
  /\ ~active[c] \/ c \in Rolling
  /\ deleteNotify' = Set(deleteNotify, c, TRUE)
  /\ UNCHANGED <<buildVars, active, deleted, deleteAfter, lastBuild, used>>

(* fixup_unnoticed_chroots *)
Fixup(c) ==
  /\ deleteAfter[c] # "none" /\ ~deleted[c]
  /\ ~deleteNotify[c] /\ ~active[c]
  /\ StartPeriod(c)
  /\ UNCHANGED <<buildVars, active, deleted, deleteNotify, lastBuild>>

ToBeDeleted == {c \in Chroots : deleteAfter[c] = "past"}

RemoveData(C) ==
  /\ deleted' = [c \in Chroots |-> deleted[c] \/ c \in C]
  /\ deleteAfter' = [c \in Chroots |-> IF c \in C THEN "none" ELSE deleteAfter[c]]
  /\ UNCHANGED <<buildVars, active, deleteNotify, lastBuild, used>>

(* delete_outdated_chroots; an undefined status crashes the whole command. *)
DeleteOutdated ==
  /\ \A c \in ToBeDeleted : DeleteStatus(c) # "undefined"
  /\ \E c \in ToBeDeleted : DeleteStatus(c) = "expired"
  /\ RemoveData({c \in ToBeDeleted : DeleteStatus(c) = "expired"})

-------------------------------------------------------------------------------
Init ==
  /\ BuildsInit
  /\ active = [c \in Chroots |-> TRUE]
  /\ deleted = [c \in Chroots |-> FALSE]
  /\ deleteAfter = [c \in Chroots |-> "none"]
  /\ deleteNotify = [c \in Chroots |-> FALSE]
  /\ lastBuild = [c \in Chroots |-> "recent"]
  /\ used = [c \in Chroots |-> FALSE]

Next ==
  \/ \E b \in BuildIds : Building(BuildStep(b))
  \/ \E c \in Altered :
       \/ Activate(c) \/ Deactivate(c) \/ Eol(c)
       \/ Unclick(c) \/ Click(c) \/ Extend(c) \/ Expire(c)
       \/ RollingPolicy(c) \/ Notify(c) \/ Fixup(c)
       \/ Expires(c) \/ GetsOld(c)
  \/ DeleteOutdated

Spec == Init /\ [][Next]_vars

(* The backend and dist-git go on: they retry their requests, and a worker *)
(* or an import that is killed is started again from the frontend's lists. *)
(* Nothing else has to happen.                                             *)
Fairness ==
  /\ \A b \in BuildIds, c \in Chroots \cup {Src} :
       /\ WF_vars(Building(WorkerStep(b, c)))
       /\ WF_vars(Building(TaskCanceled(b, c)))
  /\ \A b \in BuildIds : WF_vars(Building(ImportStep(b)))

FairSpec == Spec /\ Fairness

-------------------------------------------------------------------------------
TypeOK ==
  /\ source \in [BuildIds -> SourceStates]
  /\ canceled \in [BuildIds -> BOOLEAN]
  /\ status \in [BuildIds -> [Chroots -> RowStates]]
  /\ requested \subseteq Tasks
  /\ worker \in [Tasks -> WorkerStates]
  /\ importing \subseteq BuildIds
  /\ faults \in 0 .. MaxFaults
  /\ active \in [Chroots -> BOOLEAN]
  /\ deleted \in [Chroots -> BOOLEAN]
  /\ deleteAfter \in [Chroots -> {"none", "ahead", "past"}]
  /\ deleteNotify \in [Chroots -> BOOLEAN]
  /\ lastBuild \in [Chroots -> {"recent", "old"}]
  /\ used \in [Chroots -> BOOLEAN]

(* A chroot is only ever built from imported sources: no BuildChroot is    *)
(* handed out, nor worked on, before its build went through dist-git,      *)
(* however late an update arrives and whatever was canceled or failed      *)
(* meanwhile.                                                              *)
BuiltFromImported ==
  \A b \in BuildIds, c \in Chroots :
    status[b][c] \in TodoStates \/ worker[<<b, c>>] \in {"starting", "running"}
      => source[b] \in {"succeeded", "failed", "deleted"}

(* Whoever works on what the frontend canceled is told: while a worker of  *)
(* a canceled task or build is alive, the request to cancel it is there.   *)
CanceledIsTold ==
  \A b \in BuildIds, c \in Chroots \cup {Src} :
    (canceled[b] \/ State(b, c) = "canceled") /\ worker[<<b, c>>] # "none"
      => <<b, c>> \in requested

(* Once the sources are imported a verdict stays: what succeeded or failed *)
(* stays so until the build is deleted, and a canceled chroot can only be  *)
(* failed by fail_build.  Late, repeated and contradicting updates, a      *)
(* cancel request that is confirmed late and an EOL do not change it.      *)
VerdictStays ==
  [][\A b \in BuildIds, c \in Chroots :
       source[b] = "succeeded" /\ status[b][c] \in TerminalStates
         => \/ status'[b][c] = status[b][c]
            \/ status[b][c] = "canceled" /\ status'[b][c] = "failed"
            \/ source'[b] = "deleted"]_vars

(* The data of a chroot are removed only when a whole preservation period  *)
(* passed since anybody used, enabled or extended it, and only when it was *)
(* unclicked or its owners were told that it is outdated.                  *)
Removed(c) == deleteAfter[c] = "past" /\ deleteAfter'[c] = "none" /\ deleted'[c]

NoUnexpectedRemoval ==
  [][\A c \in Chroots :
       Removed(c) => /\ ~used[c]
                     /\ deleted[c] \/ deleteNotify[c]
                     /\ deleted[c] \/ ~active[c] \/ c \in Rolling]_vars

(* A submitted build finishes or is deleted, unless one of its chroots is  *)
(* inactive: its worker gets no job then and is started again and again.   *)
BuildsEnd ==
  \A b \in BuildIds :
    Exists(b) ~> \/ ~Exists(b) \/ Finished(b)
                 \/ \E c \in Rows(b) : ~active[c]

(* A canceled build comes to rest: in the end nobody works on any of its   *)
(* tasks, and every cancel request is answered.                            *)
CancelSettles ==
  \A b \in BuildIds :
    canceled[b] ~> [](\A c \in Chroots \cup {Src} :
                        worker[<<b, c>>] = "none" /\ <<b, c>> \notin requested)
===============================================================================
