----------------------------- MODULE BatchesProofs -----------------------------
(***************************************************************************)
(* Proofs about Batches, for any number of builds and batches: the types,  *)
(* and that no build overtakes the batches it waits for.                   *)
(***************************************************************************)
EXTENDS Batches, WellFoundedInduction, TLAPS

(* Only batches of the table wait for others. *)
UnusedFree == \A B \in BatchIds : B > made => blockedBy[B] = NoBatch

(* The history knows every batch that is finished, or that the cache takes *)
(* for finished.                                                           *)
Noted ==
  /\ \A B \in BatchIds : AllFinished(B) => B \in wasFinished
  /\ cached \subseteq wasFinished

Inv == TypeOK /\ UnusedFree /\ Noted /\ ParentsFirst

-------------------------------------------------------------------------------
(* A new batch that waits for an older one changes nothing for the others. *)
LEMMA NewBatch ==
  ASSUME TypeOK, UnusedFree,
         NEW N \in BatchIds, N > made, NEW old,
         blockedBy' = [blockedBy EXCEPT ![N] = old],
         NEW B \in 0 .. made
  PROVE  Ancestors(B)' \subseteq Ancestors(B)
<1> SUFFICES ASSUME NEW A \in Ancestors(B)' PROVE A \in Ancestors(B)
  OBVIOUS
<1>1. A \in BatchIds /\ B # NoBatch /\ B \in BatchIds /\ B # N
  BY BatchesAssumption DEF Ancestors, TypeOK, BatchIds, NoBatch
<1>2. blockedBy'[B] = blockedBy[B] /\ blockedBy[B] # NoBatch
  BY <1>1 DEF Ancestors, TypeOK
<1>3. ASSUME NEW S \in SUBSET BatchIds, Closed(S), blockedBy[B] \in S PROVE A \in S
  <2> DEFINE T == S \ {N}
  <2>1. \A C \in BatchIds : blockedBy[C] # N
    BY BatchesAssumption DEF TypeOK, BatchIds
  <2>2. Closed(T)'
    BY <1>3, <2>1 DEF Closed, TypeOK
  <2>3. blockedBy'[B] \in T
    BY <1>1, <1>2, <1>3, <2>1
  <2>4. T \in SUBSET BatchIds
    OBVIOUS
  <2> HIDE DEF T
  <2>5. A \in T
    BY <2>2, <2>3, <2>4 DEF Ancestors
  <2> QED
    BY <2>5 DEF T
<1> QED
  BY <1>1, <1>2, <1>3 DEF Ancestors

LEMMA SameBlocked ==
  ASSUME UNCHANGED blockedBy, NEW B
  PROVE  Ancestors(B)' = Ancestors(B)
BY DEF Ancestors, Closed

LEMMA InNewState ==
  ASSUME \A B : \A c \in BuildIds :
           state'[c] = "started" /\ B = batch'[c] => Ancestors(B)' \subseteq wasFinished'
  PROVE  ParentsFirst'
BY DEF ParentsFirst, Ancestors, Closed

(* What a step of the history establishes *)
LEMMA NoteKeeps ==
  ASSUME TypeOK, Note
  PROVE  /\ wasFinished' \subseteq BatchIds
         /\ wasFinished \subseteq wasFinished'
         /\ \A B \in BatchIds : AllFinished(B)' => B \in wasFinished'
BY DEF Note, TypeOK

-------------------------------------------------------------------------------
LEMMA InitInv == Init => Inv
<1> SUFFICES ASSUME Init PROVE Inv
  OBVIOUS
<1>1. TypeOK
  BY BatchesAssumption DEF Init, TypeOK, NoAsk, NoBatch, BatchIds
<1>2. UnusedFree /\ ParentsFirst
  BY DEF Init, UnusedFree, ParentsFirst
<1>3. Noted
  BY DEF Init, Noted, AllFinished, Members, NoBatch, BatchIds
<1> QED
  BY <1>1, <1>2, <1>3 DEF Inv

(* What a request that is committed writes: the rows it joins or makes.    *)
LEMMA CommitKeeps ==
  ASSUME Inv, NEW b \in BuildIds, Commit(b), ask[b].kind \in {"with", "after"},
         made' \in 0 .. MaxBatches, made' >= made,
         ask[b].saw = NoBatch => made' > made,
         NEW B, batch' = [Joined(b) EXCEPT ![b] = B],
         B = Old(b) \/ B = made', B <= made',
         \/ UNCHANGED blockedBy
         \/ /\ made' # Old(b) /\ made' > made
            /\ blockedBy' = [blockedBy EXCEPT ![made'] = Old(b)],
         Note
  PROVE  Inv'
<1> USE BatchesAssumption
<1>1. /\ made \in Nat /\ made' \in Nat
      /\ ask[b] \in [kind : {"none", "with", "after"}, of : BuildIds \cup {"nobody"},
                     saw : 0 .. made]
  BY DEF Inv, TypeOK
<1>2. Old(b) \in 1 .. made' /\ B \in 1 .. made'
  BY <1>1 DEF Old, NoBatch
<1>3. Joined(b) \in [BuildIds -> 0 .. made']
  <2>1. batch \in [BuildIds -> 0 .. made'] /\ 0 .. made \subseteq 0 .. made'
    BY <1>1 DEF Inv, TypeOK
  <2>2. ask[b].saw = NoBatch => made + 1 \in 0 .. made'
    BY <1>1
  <2> QED
    BY <2>1, <2>2 DEF Joined
<1>4. batch' \in [BuildIds -> 0 .. made']
  BY <1>2, <1>3
<1>5. blockedBy' \in [BatchIds -> 0 .. made']
  <2>1. blockedBy \in [BatchIds -> 0 .. made']
    BY <1>1 DEF Inv, TypeOK
  <2>2. Old(b) \in 0 .. made'
    BY <1>1, <1>2
  <2> QED
    BY <2>1, <2>2
<1>6. ask' \in [BuildIds -> [kind : {"none", "with", "after"},
                             of : BuildIds \cup {"nobody"}, saw : 0 .. made']]
  <2>1. [kind : {"none", "with", "after"}, of : BuildIds \cup {"nobody"}, saw : 0 .. made]
          \subseteq [kind : {"none", "with", "after"},
                     of : BuildIds \cup {"nobody"}, saw : 0 .. made']
    BY <1>1
  <2>2. NoAsk \in [kind : {"none", "with", "after"}, of : BuildIds \cup {"nobody"},
                   saw : 0 .. made']
    BY <1>1 DEF NoAsk, NoBatch
  <2>3. ask \in [BuildIds -> [kind : {"none", "with", "after"},
                             of : BuildIds \cup {"nobody"}, saw : 0 .. made']]
    BY <2>1 DEF Inv, TypeOK
  <2> QED
    BY <2>2, <2>3 DEF Commit
<1>7. TypeOK'
  BY <1>4, <1>5, <1>6, NoteKeeps DEF Inv, TypeOK, Commit
<1>8. UnusedFree'
  BY <1>1 DEF Inv, UnusedFree, TypeOK, BatchIds
<1>9. Noted'
  BY NoteKeeps DEF Inv, Noted, Commit
<1>10. ParentsFirst'
  <2> SUFFICES ASSUME NEW c \in BuildIds, NEW D, state'[c] = "started", D = batch'[c]
               PROVE  Ancestors(D)' \subseteq wasFinished'
    BY InNewState
  <2>1. c # b /\ state[c] = "started"
    BY DEF Commit, Inv, TypeOK
  <2>2. batch'[c] = Joined(b)[c]
    BY <2>1, <1>3
  <2>3. CASE ask[b].saw = NoBatch /\ c = ask[b].of
    <3>1. D = made + 1
      BY <2>2, <2>3, <2>1 DEF Joined, Inv, TypeOK
    <3>2. blockedBy'[made + 1] = NoBatch
      <4>1. made + 1 \in BatchIds /\ made + 1 > made
        BY <1>1, <2>3 DEF BatchIds
      <4>2. blockedBy[made + 1] = NoBatch
        BY <4>1 DEF Inv, UnusedFree
      <4>3. Old(b) = made + 1
        BY <2>3 DEF Old
      <4> QED
        BY <4>1, <4>2, <4>3 DEF Inv, TypeOK
    <3> QED
      BY <3>1, <3>2 DEF Ancestors
  <2>4. CASE ~(ask[b].saw = NoBatch /\ c = ask[b].of)
    <3>1. D = batch[c] /\ batch[c] \in 0 .. made
      BY <2>2, <2>4 DEF Joined, Inv, TypeOK
    <3>2. Ancestors(D)' \subseteq Ancestors(D)
      <4>1. CASE UNCHANGED blockedBy
        BY <4>1, SameBlocked
      <4>2. CASE made' > made /\ blockedBy' = [blockedBy EXCEPT ![made'] = Old(b)]
        <5>1. made' \in BatchIds
          BY <4>2, <1>1 DEF BatchIds
        <5> QED
          BY <4>2, <5>1, <3>1, NewBatch DEF Inv
      <4> QED
        BY <4>1, <4>2
    <3> QED
      BY <3>1, <3>2, <2>1, NoteKeeps DEF Inv, ParentsFirst
  <2> QED
    BY <2>3, <2>4
<1> QED
  BY <1>7, <1>8, <1>9, <1>10 DEF Inv

(* Steps that leave the table of batches alone and start nothing *)
LEMMA RestKeeps ==
  ASSUME Inv, UNCHANGED <<made, blockedBy>>, Note,
         TypeOK',
         cached' \subseteq cached \cup wasFinished',
         \A c \in BuildIds : state'[c] = "started" =>
            state[c] = "started" /\ batch'[c] = batch[c]
  PROVE  Inv'
<1>1. UnusedFree'
  BY DEF Inv, UnusedFree
<1>2. Noted'
  BY NoteKeeps DEF Inv, Noted
<1>3. ParentsFirst'
  <2> SUFFICES ASSUME NEW c \in BuildIds, NEW D, state'[c] = "started", D = batch'[c]
               PROVE  Ancestors(D)' \subseteq wasFinished'
    BY InNewState
  <2>1. Ancestors(D)' = Ancestors(batch[c])
    BY SameBlocked
  <2> QED
    BY <2>1, NoteKeeps DEF Inv, ParentsFirst
<1> QED
  BY <1>1, <1>2, <1>3 DEF Inv

LEMMA NextInv == Inv /\ [Next]_vars => Inv'
<1> SUFFICES ASSUME Inv, [Next]_vars PROVE Inv'
  OBVIOUS
<1> USE BatchesAssumption
<1>1. ASSUME NEW b \in BuildIds, Submit(b) PROVE Inv'
  <2>1. TypeOK'
    <3>1. CASE UNCHANGED rowVars
      BY <1>1, <3>1, NoteKeeps DEF Submit, Inv, TypeOK, rowVars
    <3>2. CASE /\ made < MaxBatches
               /\ made' = made + 1
               /\ batch' = [batch EXCEPT ![b] = made']
               /\ UNCHANGED blockedBy
      <4>1. made \in Nat /\ made' \in 0 .. MaxBatches /\ 0 .. made \subseteq 0 .. made'
        BY <3>2 DEF Inv, TypeOK
      <4>2. batch' \in [BuildIds -> 0 .. made'] /\ blockedBy' \in [BatchIds -> 0 .. made']
        BY <3>2, <4>1 DEF Inv, TypeOK
      <4>3. ask' \in [BuildIds -> [kind : {"none", "with", "after"},
                             of : BuildIds \cup {"nobody"}, saw : 0 .. made']]
        <5>1. [kind : {"none", "with", "after"}, of : BuildIds \cup {"nobody"}, saw : 0 .. made]
                \subseteq [kind : {"none", "with", "after"},
                           of : BuildIds \cup {"nobody"}, saw : 0 .. made']
          BY <4>1
        <5> QED
          BY <1>1, <5>1 DEF Submit, Inv, TypeOK
      <4> QED
        BY <1>1, <4>1, <4>2, <4>3, NoteKeeps DEF Submit, Inv, TypeOK
    <3> QED
      BY <1>1, <3>1, <3>2 DEF Submit
  <2>2. \A c \in BuildIds : state'[c] = "started" =>
            state[c] = "started" /\ batch'[c] = batch[c]
    BY <1>1 DEF Submit, Inv, TypeOK, rowVars
  <2>3. UnusedFree'
    BY <1>1 DEF Submit, Inv, UnusedFree, rowVars, TypeOK, BatchIds
  <2>4. Noted'
    BY <1>1, NoteKeeps DEF Submit, Inv, Noted
  <2>5. ParentsFirst'
    <3> SUFFICES ASSUME NEW c \in BuildIds, NEW D, state'[c] = "started", D = batch'[c]
                 PROVE  Ancestors(D)' \subseteq wasFinished'
      BY InNewState
    <3>1. Ancestors(D)' = Ancestors(batch[c])
      BY <1>1, <2>2, SameBlocked DEF Submit, rowVars
    <3> QED
      BY <1>1, <2>2, <3>1, NoteKeeps DEF Submit, Inv, ParentsFirst
  <2> QED
    BY <2>1, <2>3, <2>4, <2>5 DEF Inv
<1>2. ASSUME NEW b \in BuildIds, NEW of \in BuildIds, NEW kind \in {"with", "after"},
             AskFor(b, kind, of)
      PROVE  Inv'
  <2>1. TypeOK'
    BY <1>2, NoteKeeps DEF AskFor, Inv, TypeOK, rowVars
  <2> QED
    BY <1>2, <2>1, RestKeeps DEF AskFor, rowVars, Inv, TypeOK
<1>3. ASSUME NEW b \in BuildIds, SubmitWith(b) PROVE Inv'
  <2> DEFINE B == Old(b)
  <2>1. /\ made' \in 0 .. MaxBatches /\ made' >= made /\ B <= made'
        /\ ask[b].saw = NoBatch => made' > made
    BY <1>3 DEF SubmitWith, Inv, TypeOK, Old, NoBatch
  <2>2. /\ Commit(b) /\ Note /\ ask[b].kind \in {"with", "after"}
        /\ batch' = [Joined(b) EXCEPT ![b] = B] /\ UNCHANGED blockedBy
    BY <1>3 DEF SubmitWith
  <2>3. B = Old(b) \/ B = made'
    OBVIOUS
  <2> HIDE DEF B
  <2> QED
    BY <2>1, <2>2, <2>3, CommitKeeps
<1>4. ASSUME NEW b \in BuildIds, SubmitAfter(b) PROVE Inv'
  <2>1. made' \in 0 .. MaxBatches /\ made' > made /\ made' # Old(b)
    BY <1>4 DEF SubmitAfter, Inv, TypeOK, Old, NoBatch
  <2> DEFINE B == made'
  <2>2. /\ made' >= made /\ B <= made' /\ (ask[b].saw = NoBatch => made' > made)
    BY <2>1 DEF Inv, TypeOK
  <2>3. /\ Commit(b) /\ Note /\ ask[b].kind \in {"with", "after"}
        /\ batch' = [Joined(b) EXCEPT ![b] = B]
        /\ blockedBy' = [blockedBy EXCEPT ![made'] = Old(b)]
    BY <1>4 DEF SubmitAfter
  <2>4. B = Old(b) \/ B = made'
    OBVIOUS
  <2> HIDE DEF B
  <2> QED
    BY <2>1, <2>2, <2>3, <2>4, CommitKeeps
<1>5. ASSUME NEW b \in BuildIds, Start(b) PROVE Inv'
  <2>1. Ancestors(batch[b]) \subseteq wasFinished
    BY <1>5 DEF Start, Blocked, FinishedBatch, Inv, Noted, Ancestors
  <2>2. TypeOK' /\ UNCHANGED <<batch, made, blockedBy>> /\ wasFinished \subseteq wasFinished'
    <3>1. Ancestors(batch[b]) \subseteq BatchIds
      BY DEF Ancestors
    <3> QED
      BY <1>5, <3>1, NoteKeeps DEF Start, Inv, TypeOK, rowVars
  <2>3. UnusedFree'
    BY <2>2 DEF Inv, UnusedFree
  <2>4. Noted'
    BY <1>5, <2>1, NoteKeeps DEF Start, Inv, Noted
  <2>5. ParentsFirst'
    <3> SUFFICES ASSUME NEW c \in BuildIds, NEW D, state'[c] = "started", D = batch'[c]
                 PROVE  Ancestors(D)' \subseteq wasFinished'
      BY InNewState
    <3>1. Ancestors(D)' = Ancestors(batch[c])
      BY <2>2, SameBlocked
    <3>2. c = b \/ state[c] = "started"
      BY <1>5 DEF Start, Inv, TypeOK
    <3> QED
      BY <2>1, <2>2, <3>1, <3>2 DEF Inv, ParentsFirst
  <2> QED
    BY <2>2, <2>3, <2>4, <2>5 DEF Inv
<1>6. ASSUME NEW b \in BuildIds, Finish(b) PROVE Inv'
  <2>1. TypeOK'
    BY <1>6, NoteKeeps DEF Finish, Inv, TypeOK, rowVars
  <2> QED
    BY <1>6, <2>1, RestKeeps DEF Finish, rowVars, Inv, TypeOK
<1>7. ASSUME NEW b \in BuildIds, Revive(b) PROVE Inv'
  <2>1. TypeOK'
    BY <1>7, NoteKeeps DEF Revive, Inv, TypeOK, rowVars
  <2> QED
    BY <1>7, <2>1, RestKeeps DEF Revive, rowVars, Inv, TypeOK
<1>8. ASSUME NEW b \in BuildIds, DeleteBuild(b) PROVE Inv'
  <2>1. TypeOK'
    BY <1>8, NoteKeeps DEF DeleteBuild, Inv, TypeOK, NoBatch
  <2> QED
    BY <1>8, <2>1, RestKeeps DEF DeleteBuild, Inv, TypeOK
<1>9. ASSUME NEW B \in BatchIds, Look(B) \/ CacheExpires(B) PROVE Inv'
  <2>1. Note /\ UNCHANGED <<state, batch, made, blockedBy, ask, revivals>>
    BY <1>9 DEF Look, CacheExpires, rowVars
  <2>2. cached' \subseteq cached \cup wasFinished' /\ cached' \subseteq BatchIds
    BY <1>9, <2>1, NoteKeeps DEF Look, CacheExpires, Inv, Noted, TypeOK
  <2>3. TypeOK'
    BY <2>1, <2>2, NoteKeeps DEF Inv, TypeOK
  <2> QED
    BY <2>1, <2>2, <2>3, RestKeeps
<1>10. CASE UNCHANGED vars
  <2>1. \A B : Ancestors(B)' = Ancestors(B)
    BY <1>10, SameBlocked DEF vars, rowVars
  <2> QED
    BY <1>10, <2>1 DEF vars, rowVars, Inv, TypeOK, UnusedFree, Noted, AllFinished, Members,
                       ParentsFirst
<1> QED
  BY <1>1, <1>2, <1>3, <1>4, <1>5, <1>6, <1>7, <1>8, <1>9, <1>10 DEF Next, BuildStep

LEMMA InvHolds == Spec => []Inv
<1> QED
  BY InitInv, NextInv, PTL DEF Spec

(* The types, for any number of builds and batches.                        *)
THEOREM TypeCorrect == Spec => []TypeOK
<1>1. Inv => TypeOK
  BY DEF Inv
<1> QED
  BY <1>1, InvHolds, PTL

(* pending_jobs() hands out no build before each batch it waits for,       *)
(* directly or not, was finished at least once: however requests overlap,  *)
(* whatever is deleted or set back, and although the cache may be stale.   *)
THEOREM Ordered == Spec => []ParentsFirst
<1>1. Inv => ParentsFirst
  BY DEF Inv
<1> QED
  BY <1>1, InvHolds, PTL

-------------------------------------------------------------------------------
(* Batch.blocked is recursive: it asks its parent first.  Ancestors says   *)
(* the same without recursion, as long as no batch waits for itself.       *)

(* Batches wait for batches that were made before them. *)
PointsBack == \A B \in BatchIds : blockedBy[B] < B

(* One step of the recursion of Batch.blocked over the parents             *)
LEMMA AncestorsStep ==
  ASSUME TypeOK, NEW B \in BatchIds, blockedBy[B] # NoBatch
  PROVE  Ancestors(B) = {blockedBy[B]} \cup Ancestors(blockedBy[B])
<1> DEFINE P == blockedBy[B]
<1>1. P \in BatchIds /\ B # NoBatch
  BY BatchesAssumption DEF TypeOK, BatchIds, NoBatch
<1>2. ASSUME NEW A \in Ancestors(B), A # P PROVE A \in Ancestors(P)
  <2>1. blockedBy[P] # NoBatch
    <3> SUFFICES ASSUME blockedBy[P] = NoBatch PROVE FALSE
      OBVIOUS
    <3>1. Closed({P}) /\ {P} \in SUBSET BatchIds
      BY <1>1 DEF Closed
    <3> QED
      BY <1>2, <3>1 DEF Ancestors
  <2>2. ASSUME NEW S \in SUBSET BatchIds, Closed(S), blockedBy[P] \in S PROVE A \in S
    <3>1. Closed(S \cup {P}) /\ S \cup {P} \in SUBSET BatchIds
      BY <1>1, <2>2 DEF Closed
    <3>2. A \in S \cup {P}
      BY <1>2, <3>1 DEF Ancestors
    <3> QED
      BY <1>2, <3>2
  <2> QED
    BY <1>1, <1>2, <2>1, <2>2 DEF Ancestors
<1>3. P \in Ancestors(B)
  BY <1>1 DEF Ancestors
<1>4. ASSUME NEW A \in Ancestors(P) PROVE A \in Ancestors(B)
  <2>1. ASSUME NEW S \in SUBSET BatchIds, Closed(S), P \in S PROVE A \in S
    BY <1>4, <2>1 DEF Ancestors, Closed
  <2> QED
    BY <1>1, <1>4, <2>1 DEF Ancestors
<1> QED
  BY <1>2, <1>3, <1>4

(* The value of the property Batch.blocked *)
BlockedBatch(B) == \E A \in Ancestors(B) : ~FinishedBatch(A)

(* What Blocked means for a build satisfies the recursive equation of      *)
(* Batch.blocked: there is a parent, and it is blocked or not finished.    *)
AsCoded ==
  \A B \in BatchIds :
    BlockedBatch(B) <=>
      /\ blockedBy[B] # NoBatch
      /\ BlockedBatch(blockedBy[B]) \/ ~FinishedBatch(blockedBy[B])

(* No batch waits for itself, however requests overlap: the recursion ends *)
(* and nobody waits in a circle.                                           *)
NoCircle == \A B \in BatchIds : B \notin Ancestors(B)

LEMMA AncestorsBelow ==
  ASSUME TypeOK, PointsBack, NEW B \in BatchIds, NEW A \in Ancestors(B)
  PROVE  A < B
<1> DEFINE S == {C \in BatchIds : C < B}
<1>1. blockedBy[B] # NoBatch /\ blockedBy[B] \in BatchIds /\ blockedBy[B] < B
  BY BatchesAssumption DEF Ancestors, TypeOK, PointsBack, BatchIds, NoBatch
<1>2. S \in SUBSET BatchIds /\ blockedBy[B] \in S
  BY <1>1, BatchesAssumption DEF BatchIds
<1>3. Closed(S)
  <2> SUFFICES ASSUME NEW C \in BatchIds, C < B, blockedBy[C] # NoBatch
               PROVE  blockedBy[C] \in BatchIds /\ blockedBy[C] < B
    BY DEF Closed
  <2>1. blockedBy[C] \in BatchIds /\ blockedBy[C] < C
    BY BatchesAssumption DEF TypeOK, PointsBack, BatchIds, NoBatch
  <2> QED
    BY <2>1, BatchesAssumption DEF BatchIds
<1>4. A \in S
  <2> HIDE DEF S
  <2> QED
    BY <1>2, <1>3 DEF Ancestors
<1> QED
  BY <1>4

LEMMA BackInductive == TypeOK /\ PointsBack /\ [Next]_vars => PointsBack'
<1> SUFFICES ASSUME TypeOK, PointsBack, [Next]_vars PROVE PointsBack'
  OBVIOUS
<1>1. ASSUME NEW b \in BuildIds, SubmitAfter(b) PROVE PointsBack'
  <2>1. made' \in 1 .. MaxBatches /\ Old(b) < made'
    BY <1>1, BatchesAssumption DEF SubmitAfter, TypeOK, Old, NoBatch
  <2> QED
    BY <1>1, <2>1 DEF SubmitAfter, PointsBack, TypeOK
<1>2. ASSUME NEW b \in BuildIds, BuildStep(b), ~SubmitAfter(b) PROVE UNCHANGED blockedBy
  BY <1>2 DEF BuildStep, Submit, SubmitWith, AskFor, Start, Finish, Revive, DeleteBuild, rowVars
<1>3. ASSUME NEW B \in BatchIds, Look(B) \/ CacheExpires(B) PROVE UNCHANGED blockedBy
  BY <1>3 DEF Look, CacheExpires, rowVars
<1>4. CASE UNCHANGED blockedBy
  BY <1>4 DEF PointsBack
<1> QED
  BY <1>1, <1>2, <1>3, <1>4 DEF Next, vars, rowVars

LEMMA PointsBackHolds == Spec => []PointsBack
<1>1. Init => PointsBack
  BY BatchesAssumption DEF Init, PointsBack, BatchIds, NoBatch
<1> QED
  BY <1>1, BackInductive, TypeCorrect, PTL DEF Spec

(* Whatever requests overlap, are committed late or meet deleted builds,   *)
(* batches never wait in a circle, and the recursion of Batch.blocked ends.*)
THEOREM Circleless == Spec => []NoCircle
<1>1. TypeOK /\ PointsBack => NoCircle
  <2> SUFFICES ASSUME TypeOK, PointsBack, NEW B \in BatchIds, B \in Ancestors(B) PROVE FALSE
    BY DEF NoCircle
  <2>1. B < B /\ B \in Nat
    BY AncestorsBelow DEF BatchIds
  <2> QED
    BY <2>1
<1> QED
  BY <1>1, PointsBackHolds, TypeCorrect, PTL

(* The blocking that ParentsFirst is about is that of Batch.blocked.       *)
THEOREM BlockedAsCoded == Spec => []AsCoded
<1>1. TypeOK => AsCoded
  <2> SUFFICES ASSUME TypeOK, NEW B \in BatchIds
               PROVE  BlockedBatch(B) <=>
                        /\ blockedBy[B] # NoBatch
                        /\ BlockedBatch(blockedBy[B]) \/ ~FinishedBatch(blockedBy[B])
    BY DEF AsCoded
  <2>1. CASE blockedBy[B] = NoBatch
    BY <2>1 DEF BlockedBatch, Ancestors
  <2>2. CASE blockedBy[B] # NoBatch
    BY <2>2, AncestorsStep DEF BlockedBatch
  <2> QED
    BY <2>1, <2>2
<1> QED
  BY <1>1, TypeCorrect, PTL

-------------------------------------------------------------------------------
(* Nobody waits for nothing: the safety part of WaitsOnlyBehindEmpty.      *)

(* Rows that are not committed are in no batch, and a request only ever    *)
(* names a build that is.                                                  *)
Committed ==
  \A b \in BuildIds :
    /\ state[b] \in {"none", "asking"} => batch[b] = NoBatch
    /\ state[b] = "asking" =>
         ask[b].of \in BuildIds /\ state[ask[b].of] \notin {"none", "asking"}

LEMMA CommittedHolds == Spec => []Committed
<1>1. Init => Committed
  BY DEF Init, Committed
<1>2. TypeOK /\ Committed /\ [Next]_vars => Committed'
  <2> SUFFICES ASSUME TypeOK, Committed, [Next]_vars PROVE Committed'
    OBVIOUS
  <2> USE DEF Committed, TypeOK, rowVars
  <2>1. ASSUME NEW b \in BuildIds, Submit(b) PROVE Committed'
    BY <2>1 DEF Submit
  <2>2. ASSUME NEW b \in BuildIds, SubmitWith(b) PROVE Committed'
    BY <2>2 DEF SubmitWith, Commit, Joined
  <2>3. ASSUME NEW b \in BuildIds, SubmitAfter(b) PROVE Committed'
    BY <2>3 DEF SubmitAfter, Commit, Joined
  <2>4. ASSUME NEW b \in BuildIds, NEW of \in BuildIds, NEW kind \in {"with", "after"},
               AskFor(b, kind, of)
        PROVE  Committed'
    BY <2>4 DEF AskFor
  <2>5. ASSUME NEW b \in BuildIds, Start(b) \/ Finish(b) \/ Revive(b) \/ DeleteBuild(b)
        PROVE  Committed'
    BY <2>5 DEF Start, Finish, Revive, DeleteBuild
  <2>6. ASSUME NEW B \in BatchIds, Look(B) \/ CacheExpires(B) PROVE Committed'
    BY <2>6 DEF Look, CacheExpires
  <2>7. CASE UNCHANGED vars
    BY <2>7 DEF vars
  <2> QED
    BY <2>1, <2>2, <2>3, <2>4, <2>5, <2>6, <2>7 DEF Next, BuildStep
<1> QED
  BY <1>1, <1>2, TypeCorrect, PTL DEF Spec

(* A build that runs, or that the dispatcher may take *)
Moves(b) == state[b] = "started" \/ (state[b] = "waiting" /\ ~Blocked(b))

(* Whoever waits behind batches waits for a build that moves, or behind a  *)
(* batch that is empty.                                                    *)
WaitsForSomebody ==
  \A b \in BuildIds : state[b] = "waiting" /\ Blocked(b) =>
    \E A \in Ancestors(batch[b]) : Members(A) = {} \/ \E c \in Members(A) : Moves(c)

(* The ancestors of an ancestor are ancestors.                             *)
LEMMA AncestorsTransitive ==
  ASSUME NEW B, NEW A \in Ancestors(B), NEW C \in Ancestors(A)
  PROVE  C \in Ancestors(B)
<1>1. ASSUME NEW S \in SUBSET BatchIds, Closed(S), blockedBy[B] \in S PROVE C \in S
  <2>1. A \in S
    BY <1>1 DEF Ancestors
  <2>2. blockedBy[A] \in S
    BY <1>1, <2>1 DEF Ancestors, Closed
  <2> QED
    BY <1>1, <2>2 DEF Ancestors
<1> QED
  BY <1>1 DEF Ancestors

(* The first of the unfinished batches that a build waits for is not       *)
(* blocked itself, so that its builds may be handed out.                   *)
LEMMA FirstUnfinished ==
  ASSUME TypeOK, PointsBack, Committed
  PROVE  WaitsForSomebody
<1> SUFFICES ASSUME NEW b \in BuildIds, state[b] = "waiting", Blocked(b)
             PROVE  \E A \in Ancestors(batch[b]) :
                      Members(A) = {} \/ \E c \in Members(A) : Moves(c)
  BY DEF WaitsForSomebody
<1> DEFINE U == {A \in Ancestors(batch[b]) : ~FinishedBatch(A)}
           Less == {ss \in Nat \X Nat : ss[1] < ss[2]}
<1>1. U \in SUBSET Nat /\ U # {}
  BY DEF Blocked, Ancestors, BatchIds
<1>2. PICK A \in U : \A C \in U : ~(C < A)
  <2>1. IsWellFoundedOn(Less, Nat)
    BY NatLessThanWellFounded DEF OpToRel
  <2>2. PICK A \in U : \A C \in U : <<C, A>> \notin Less
    <3> HIDE DEF U, Less
    <3> QED
      BY <1>1, <2>1, WFMin
  <2>3. ASSUME NEW C \in U PROVE ~(C < A)
    <3>1. <<C, A>> \in Nat \X Nat /\ <<C, A>>[1] = C /\ <<C, A>>[2] = A
      BY <1>1
    <3> QED
      BY <2>2, <3>1, Zenon
  <2> HIDE DEF U, Less
  <2> QED
    BY <2>3
<1>3. A \in Ancestors(batch[b]) /\ ~FinishedBatch(A) /\ A \in BatchIds
  BY DEF Ancestors
<1>4. \A C \in Ancestors(A) : FinishedBatch(C)
  <2> SUFFICES ASSUME NEW C \in Ancestors(A), ~FinishedBatch(C) PROVE FALSE
    OBVIOUS
  <2>1. C \in Ancestors(batch[b])
    BY <1>3, AncestorsTransitive
  <2>2. C < A
    BY <1>3, AncestorsBelow
  <2> QED
    BY <1>2, <2>1, <2>2
<1>5. CASE Members(A) # {}
  <2>1. PICK c \in Members(A) : state[c] # "finished"
    BY <1>3, <1>5 DEF FinishedBatch, AllFinished
  <2>2. c \in BuildIds /\ batch[c] = A /\ A # NoBatch
    BY <1>3 DEF Members, BatchIds, NoBatch
  <2>3. state[c] \in {"waiting", "started"}
    BY <2>1, <2>2 DEF Members, TypeOK, Committed
  <2>4. ~Blocked(c)
    BY <1>4, <2>2 DEF Blocked
  <2> QED
    BY <1>3, <2>1, <2>3, <2>4 DEF Moves
<1> QED
  BY <1>3, <1>5

(* There is no state in which batches only wait for each other: behind     *)
(* every blocked build there is one that runs or may be handed out, or a   *)
(* batch without builds, however requests overlap and whatever is deleted  *)
(* or set back.                                                            *)
THEOREM NobodyWaitsInVain == Spec => []WaitsForSomebody
BY FirstUnfinished, TypeCorrect, PointsBackHolds, CommittedHolds, PTL
===============================================================================
