------------------------------- MODULE Batches -------------------------------
(***************************************************************************)
(* Build batches on the frontend (Batch in coprs/models.py,                *)
(* logic/batches_logic.py, BuildsLogic.setup_batch): builds that are       *)
(* submitted with another build share its batch, builds that are submitted *)
(* after another one wait for its batch.                                   *)
(*                                                                         *)
(* A build is reduced to whether it may be handed out, was handed out, or  *)
(* is finished; how it gets there is in Builds.  The rest of a request to  *)
(* submit a build may run between its look at the other build and its      *)
(* commit: LOCK TABLE is sent over a connection of its own and does not    *)
(* hold until then.                                                        *)
(***************************************************************************)
EXTENDS Naturals, FiniteSets

CONSTANTS
  BuildIds,
  MaxBatches,   \* bound: rows of the table
  MaxRevivals   \* bound: how often a finished build is set back

ASSUME BatchesAssumption == MaxBatches \in Nat /\ MaxRevivals \in Nat

BatchIds == 1 .. MaxBatches
NoBatch  == 0

VARIABLES
  state,       \* state[b]: "none", "asking" (its request runs), "waiting",
               \* "started", "finished" or "deleted"
  batch,       \* Build.batch
  ask,         \* ask[b]: what the running request wants and what it saw
  made,        \* the batches 1 .. made are in the table
  blockedBy,   \* Batch.blocked_by
  cached,      \* the batches with a "batch_finished" key in the cache
  revivals,
  wasFinished  \* history: the batches that once were finished

rowVars == <<batch, made, blockedBy>>
vars    == <<state, rowVars, ask, cached, revivals, wasFinished>>

NoAsk == [kind |-> "none", of |-> "nobody", saw |-> NoBatch]

Members(B) == {b \in BuildIds : batch[b] = B /\ state[b] # "deleted"}

(* Batch.finished_slow, but for the cache *)
AllFinished(B) == Members(B) # {} /\ \A b \in Members(B) : state[b] = "finished"

(* The history, in every step *)
Note == wasFinished' = wasFinished \cup {B \in BatchIds : AllFinished(B)'}

FinishedBatch(B) == B \in cached \/ AllFinished(B)

(* The batches that block a batch, transitively: whatever a set that has   *)
(* its parent and the parents of its members cannot do without.            *)
Closed(S) == \A B \in S : blockedBy[B] # NoBatch => blockedBy[B] \in S

Ancestors(B) ==
  {A \in BatchIds :
     /\ B # NoBatch /\ blockedBy[B] # NoBatch
     /\ \A S \in SUBSET BatchIds : Closed(S) /\ blockedBy[B] \in S => A \in S}

(* Variant: only the parent is looked at. *)
BlockedByParent(b) ==
  /\ batch[b] # NoBatch /\ blockedBy[batch[b]] # NoBatch
  /\ ~FinishedBatch(blockedBy[batch[b]])

(* Build.blocked *)
Blocked(b) == \E B \in Ancestors(batch[b]) : ~FinishedBatch(B)

-------------------------------------------------------------------------------
(* Submitting: setup_batch *)

(* Without the other build, or in a batch of its own (always_create) *)
Submit(b) ==
  /\ state[b] = "none"
  /\ state' = [state EXCEPT ![b] = "waiting"]
  /\ \/ UNCHANGED rowVars
     \/ /\ made < MaxBatches
        /\ made' = made + 1
        /\ batch' = [batch EXCEPT ![b] = made']
        /\ UNCHANGED blockedBy
  /\ UNCHANGED <<ask, cached, revivals>>
  /\ Note

(* get_batch_or_create up to the lock, with batching_user_error *)
AskFor(b, kind, of) ==
  /\ state[b] = "none"
  /\ state[of] \in {"waiting", "started", "finished"}
  /\ IF batch[of] # NoBatch THEN kind = "with" => ~FinishedBatch(batch[of])
                            ELSE state[of] # "finished"
  /\ state' = [state EXCEPT ![b] = "asking"]
  /\ ask' = [ask EXCEPT ![b] = [kind |-> kind, of |-> of, saw |-> batch[of]]]
  /\ UNCHANGED <<rowVars, cached, revivals>>
  /\ Note

(* A build that had no batch gets one, whatever it got meanwhile; nothing  *)
(* is committed when it was deleted.                                       *)
Old(b) == IF ask[b].saw = NoBatch THEN made + 1 ELSE ask[b].saw
Joined(b) ==
  IF ask[b].saw = NoBatch THEN [batch EXCEPT ![ask[b].of] = made + 1] ELSE batch

Commit(b) ==
  /\ state[b] = "asking"
  /\ ask[b].saw = NoBatch => state[ask[b].of] # "deleted"
  /\ state' = [state EXCEPT ![b] = "waiting"]
  /\ ask' = [ask EXCEPT ![b] = NoAsk]
  /\ UNCHANGED <<cached, revivals>>

SubmitWith(b) ==
  /\ ask[b].kind = "with"
  /\ Commit(b)
  /\ made' = IF ask[b].saw = NoBatch THEN made + 1 ELSE made
  /\ made' <= MaxBatches
  /\ batch' = [Joined(b) EXCEPT ![b] = Old(b)]
  /\ UNCHANGED blockedBy
  /\ Note

(* Variant: blocked_by is the build's batch and not the other one's. *)
SubmitAfterItself(b) ==
  /\ ask[b].kind = "after"
  /\ Commit(b)
  /\ made' = (IF ask[b].saw = NoBatch THEN made + 1 ELSE made) + 1
  /\ made' <= MaxBatches
  /\ batch' = [Joined(b) EXCEPT ![b] = made']
  /\ blockedBy' = [blockedBy EXCEPT ![made'] = ask[b].of]
  /\ Note

SubmitAfter(b) ==
  /\ ask[b].kind = "after"
  /\ Commit(b)
  /\ made' = (IF ask[b].saw = NoBatch THEN made + 1 ELSE made) + 1
  /\ made' <= MaxBatches
  /\ batch' = [Joined(b) EXCEPT ![b] = made']
  /\ blockedBy' = [blockedBy EXCEPT ![made'] = Old(b)]
  /\ Note

-------------------------------------------------------------------------------
(* The life of a build *)

(* pending_jobs(): what is not blocked is handed out. *)
Start(b) ==
  /\ state[b] = "waiting"
  /\ ~Blocked(b)
  /\ state' = [state EXCEPT ![b] = "started"]
  /\ cached' = cached \cup Ancestors(batch[b])
  /\ UNCHANGED <<rowVars, ask, revivals>>
  /\ Note

(* It succeeds or fails, also before it was handed out, or is canceled. *)
Finish(b) ==
  /\ state[b] \in {"waiting", "started"}
  /\ state' = [state EXCEPT ![b] = "finished"]
  /\ UNCHANGED <<rowVars, ask, cached, revivals>>
  /\ Note

(* A late result of the source build sets a failed build back. *)
Revive(b) ==
  /\ state[b] = "finished"
  /\ revivals < MaxRevivals /\ revivals' = revivals + 1
  /\ state' = [state EXCEPT ![b] = "waiting"]
  /\ UNCHANGED <<rowVars, ask, cached>>
  /\ Note

(* Variant: what is deleted stays in its batch as an unfinished build. *)
DeleteBuildOnly(b) ==
  /\ state[b] = "finished"
  /\ state' = [state EXCEPT ![b] = "none"]
  /\ UNCHANGED <<rowVars, ask, cached, revivals>>
  /\ Note

DeleteBuild(b) ==
  /\ state[b] = "finished"
  /\ state' = [state EXCEPT ![b] = "deleted"]
  /\ batch' = [batch EXCEPT ![b] = NoBatch]
  /\ UNCHANGED <<made, blockedBy, ask, cached, revivals>>
  /\ Note

(* Any page or request that asks whether a batch is finished *)
Look(B) ==
  /\ AllFinished(B)
  /\ cached' = cached \cup {B}
  /\ UNCHANGED <<state, rowVars, ask, revivals>>
  /\ Note

CacheExpires(B) ==
  /\ B \in cached
  /\ cached' = cached \ {B}
  /\ UNCHANGED <<state, rowVars, ask, revivals>>
  /\ Note

-------------------------------------------------------------------------------
Init ==
  /\ state = [b \in BuildIds |-> "none"]
  /\ batch = [b \in BuildIds |-> NoBatch]
  /\ ask = [b \in BuildIds |-> NoAsk]
  /\ made = 0
  /\ blockedBy = [B \in BatchIds |-> NoBatch]
  /\ cached = {} /\ revivals = 0 /\ wasFinished = {}

BuildStep(b) ==
  \/ Submit(b) \/ SubmitWith(b) \/ SubmitAfter(b)
  \/ \E of \in BuildIds, kind \in {"with", "after"} : AskFor(b, kind, of)
  \/ Start(b) \/ Finish(b) \/ Revive(b) \/ DeleteBuild(b)

Next ==
  \/ \E b \in BuildIds : BuildStep(b)
  \/ \E B \in BatchIds : Look(B) \/ CacheExpires(B)

Spec == Init /\ [][Next]_vars

(* The dispatcher polls, and what was handed out ends: see Builds. *)
FairSpec ==
  /\ Spec
  /\ \A b \in BuildIds :
       WF_vars(Start(b)) /\ WF_vars(state[b] = "started" /\ Finish(b))

-------------------------------------------------------------------------------
TypeOK ==
  /\ state \in [BuildIds ->
                  {"none", "asking", "waiting", "started", "finished", "deleted"}]
  /\ batch \in [BuildIds -> 0 .. made]
  /\ ask \in [BuildIds -> [kind : {"none", "with", "after"},
                          of : BuildIds \cup {"nobody"}, saw : 0 .. made]]
  /\ made \in 0 .. MaxBatches
  /\ blockedBy \in [BatchIds -> 0 .. made]
  /\ cached \subseteq BatchIds /\ wasFinished \subseteq BatchIds
  /\ revivals \in 0 .. MaxRevivals

(* No build is handed out before every batch it waits for, directly or     *)
(* not, was finished at least once: canceled batches in between, two       *)
(* requests that put the same build into a batch, late members, deleted    *)
(* builds and the cache do not let it overtake.                            *)
ParentsFirst ==
  \A b \in BuildIds :
    state[b] = "started" => Ancestors(batch[b]) \subseteq wasFinished

(* A build waits forever only behind a batch that is empty for good: all   *)
(* its builds are deleted, or the only one was put into another batch.     *)
WaitsOnlyBehindEmpty ==
  \A b \in BuildIds :
    <>[](state[b] = "waiting")
      => \E B \in BatchIds : <>[](B \in Ancestors(batch[b]) /\ Members(B) = {})
===============================================================================
