---------------------------- MODULE ProjectsProofs ----------------------------
(***************************************************************************)
(* Proofs about Projects.                                                  *)
(***************************************************************************)
EXTENDS Projects, FiniteSetTheorems, TLAPS

-------------------------------------------------------------------------------
(* Types. *)

(* The ids are used one after the other, and no faster than the clock runs.*)
Numbered ==
  \A a \in Ids : ~Sent(a) => now < a /\ \A b \in Ids : Sent(b) => b < a

TypeInv == TypeOK /\ Numbered

LEMMA RowIsNotNoAction ==
  ASSUME NEW kind \in Kinds, NEW p, NEW R, NEW t
  PROVE  [kind |-> kind, of |-> p, repos |-> R, created |-> t] # NoAction
<1>1. [kind |-> kind, of |-> p, repos |-> R, created |-> t].kind # NoAction.kind
  BY DEF NoAction, Kinds
<1> QED  BY <1>1

(* What Send does to the rows. *)
LEMMA SendTyped ==
  ASSUME TypeInv, NEW kind \in Kinds, NEW p \in Coprs, NEW R \in SUBSET Repos,
         Send(kind, p, R)
  PROVE  \E a \in Ids, t \in 1 .. MaxActions :
           /\ ~Sent(a) /\ Sent(a)'
           /\ now <= t /\ (~SameSecond => now < t) /\ now' = t /\ t <= a
           /\ action' = [action EXCEPT ![a] =
                           [kind |-> kind, of |-> p, repos |-> R, created |-> t]]
           /\ action'[a] = [kind |-> kind, of |-> p, repos |-> R, created |-> t]
           /\ action'[a] \in Rows
           /\ result' = [result EXCEPT ![a] = "waiting"]
           /\ \A b \in Ids : b < a => Sent(b)
           /\ \A b \in Ids : Sent(b) => b < a
<1>1. PICK a \in Ids :
        /\ ~Sent(a) /\ \A b \in Ids : b < a => Sent(b)
        /\ \E t \in {now, now + 1} :
             /\ t > now \/ (SameSecond /\ t > 0)
             /\ now' = t
             /\ action' = [action EXCEPT ![a] =
                             [kind |-> kind, of |-> p, repos |-> R, created |-> t]]
        /\ result' = [result EXCEPT ![a] = "waiting"]
  BY DEF Send
<1>2. PICK t \in {now, now + 1} :
        /\ t > now \/ (SameSecond /\ t > 0)
        /\ now' = t
        /\ action' = [action EXCEPT ![a] =
                        [kind |-> kind, of |-> p, repos |-> R, created |-> t]]
  BY <1>1
<1>3. now \in Nat /\ MaxActions \in Nat /\ now < a /\ a \in 1 .. MaxActions
  BY <1>1, ProjectsAssumption DEF TypeInv, TypeOK, Numbered, Ids
<1>4. /\ t \in 1 .. MaxActions /\ t <= a /\ now <= t
      /\ ~SameSecond => now < t
  BY <1>2, <1>3, ProjectsAssumption
<1>5. action'[a] = [kind |-> kind, of |-> p, repos |-> R, created |-> t]
  BY <1>2 DEF TypeInv, TypeOK
<1>6. action'[a] \in Rows
  BY <1>4, <1>5 DEF Rows
<1>7. Sent(a)'
  BY <1>5, RowIsNotNoAction DEF Sent
<1>8. \A b \in Ids : Sent(b) => b < a
  BY <1>1 DEF TypeInv, Numbered
<1> QED  BY <1>1, <1>2, <1>4, <1>5, <1>6, <1>7, <1>8

LEMMA SendKeepsTypes ==
  ASSUME TypeInv, NEW kind \in Kinds, NEW p \in Coprs, NEW R \in SUBSET Repos,
         Send(kind, p, R)
  PROVE  /\ action' \in [Ids -> Rows \cup {NoAction}]
         /\ result' \in [Ids -> {"none", "waiting", "success", "failure"}]
         /\ now' \in 0 .. MaxActions
         /\ Numbered'
<1>1. PICK a \in Ids, t \in 1 .. MaxActions :
           /\ ~Sent(a) /\ Sent(a)'
           /\ now <= t /\ now' = t /\ t <= a
           /\ action' = [action EXCEPT ![a] =
                           [kind |-> kind, of |-> p, repos |-> R, created |-> t]]
           /\ action'[a] \in Rows
           /\ result' = [result EXCEPT ![a] = "waiting"]
           /\ \A b \in Ids : b < a => Sent(b)
           /\ \A b \in Ids : Sent(b) => b < a
  BY SendTyped
<1>2. action' \in [Ids -> Rows \cup {NoAction}]
  BY <1>1 DEF TypeInv, TypeOK
<1>3. result' \in [Ids -> {"none", "waiting", "success", "failure"}]
  BY <1>1 DEF TypeInv, TypeOK
<1>4. now' \in 0 .. MaxActions
  BY <1>1, ProjectsAssumption
<1>5. Numbered'
  <2> SUFFICES ASSUME NEW b \in Ids, ~Sent(b)'
               PROVE  now' < b /\ \A c \in Ids : Sent(c)' => c < b
    BY DEF Numbered
  <2>1. b # a
    BY <1>1
  <2>2. ~Sent(b)
    BY <1>1, <2>1 DEF Sent, TypeInv, TypeOK
  <2>3. a < b
    BY <1>1, <2>1, <2>2, ProjectsAssumption DEF Ids
  <2>4. \A c \in Ids : Sent(c)' => c = a \/ Sent(c)
    BY <1>1 DEF Sent, TypeInv, TypeOK
  <2>5. \A c \in Ids : Sent(c)' => c < b
    BY <2>2, <2>3, <2>4 DEF TypeInv, Numbered
  <2>6. now' < b
    BY <1>1, <2>3, ProjectsAssumption DEF Ids
  <2> QED  BY <2>5, <2>6
<1> QED  BY <1>2, <1>3, <1>4, <1>5

(* A step that leaves the rows alone. *)
LEMMA NumberedKept ==
  ASSUME Numbered, UNCHANGED <<action, now>>
  PROVE  Numbered'
BY DEF Numbered, Sent

-------------------------------------------------------------------------------
LEMMA TypeInductive ==
  ASSUME TypeInv, [Next]_vars
  PROVE  TypeInv'
<1> USE DEF TypeInv
<1>1. ASSUME NEW p \in Coprs, Add(p)  PROVE TypeInv'
  <2>1. "createrepo" \in Kinds /\ Send("createrepo", p, Repos)
    BY <1>1 DEF Add, Kinds
  <2> QED  BY <1>1, <2>1, SendKeepsTypes
           DEF Add, TypeOK, workerVars, diskVars, buildVars
<1>2. ASSUME NEW p \in Coprs, ForkCopr(p)  PROVE TypeInv'
  BY <1>2, NumberedKept DEF ForkCopr, TypeOK, workerVars, diskVars, buildVars
<1>3. ASSUME NEW p \in Coprs, SendFork(p)  PROVE TypeInv'
  <2>1. "fork" \in Kinds /\ Send("fork", p, Repos)
    BY <1>3 DEF SendFork, Kinds
  <2> QED  BY <1>3, <2>1, SendKeepsTypes
           DEF SendFork, TypeOK, workerVars, diskVars, buildVars
<1>4. ASSUME NEW p \in Coprs, NEW kind \in {"createrepo", "chroot", "builds"},
             NEW R \in SUBSET Repos, Request(p, kind, R)
      PROVE  TypeInv'
  <2>1. kind \in Kinds /\ Send(kind, p, R)
    BY <1>4 DEF Request, Kinds
  <2> QED  BY <1>4, <2>1, SendKeepsTypes
           DEF Request, TypeOK, workerVars, diskVars, buildVars
<1>5. ASSUME NEW p \in Coprs, DeleteCopr(p)  PROVE TypeInv'
  <2>1. "delete" \in Kinds /\ Send("delete", p, Repos)
    BY <1>5 DEF DeleteCopr, Kinds
  <2> QED  BY <1>5, <2>1, SendKeepsTypes
           DEF DeleteCopr, TypeOK, workerVars, diskVars, buildVars
<1>6. ASSUME NEW p \in Coprs, NEW r \in Repos, Build(p, r)  PROVE TypeInv'
  <2>1. builds' \in 0 .. MaxBuilds
    BY <1>6, ProjectsAssumption DEF Build, TypeOK
  <2> QED  BY <1>6, <2>1, NumberedKept
           DEF Build, SetBuilding, TypeOK, frontendVars, workerVars, diskVars
<1>6a. ASSUME NEW p \in Coprs, NEW r \in Repos, CancelBuild(p, r)  PROVE TypeInv'
  BY <1>6a, NumberedKept
     DEF CancelBuild, SetBuilding, TypeOK, frontendVars, workerVars, diskVars
<1>7. ASSUME NEW p \in Coprs, NEW r \in Repos, BuildEnds(p, r)  PROVE TypeInv'
  BY <1>7, NumberedKept
     DEF BuildEnds, SetBuilding, TypeOK, frontendVars, workerVars
<1>8. ASSUME NEW a \in Ids, Start(a)  PROVE TypeInv'
  <2>1. action[a].repos \subseteq Repos
    BY <1>8 DEF Start, Listed, Waiting, Sent, TypeOK, Rows
  <2> QED  BY <1>8, <2>1, NumberedKept
           DEF Start, Worker, TypeOK, frontendVars, diskVars, buildVars
<1>9. ASSUME NEW a \in Ids, NEW r \in Repos, Createrepo(a, r) \/ Fork(a, r)
      PROVE  TypeInv'
  BY <1>9, NumberedKept
     DEF Createrepo, Fork, Handled, At, TypeOK, frontendVars, buildVars
<1>10. ASSUME NEW a \in Ids, NEW r \in Repos, DeleteBuilds(a, r)  PROVE TypeInv'
  BY <1>10, NumberedKept
     DEF DeleteBuilds, Handled, Worker, TypeOK, frontendVars, buildVars
<1>11. ASSUME NEW a \in Ids, NEW r \in Repos, DeleteChroot(a, r) \/ DeleteProject(a, r)
       PROVE  TypeInv'
  BY <1>11, NumberedKept
     DEF DeleteChroot, DeleteProject, RemoveTree, Handled, TypeOK, frontendVars, buildVars
<1>12. ASSUME NEW a \in Ids, NEW r \in Repos, StepFails(a, r)  PROVE TypeInv'
  <2>1. PICK R \in {{}, todo[a] \ {r}} : todo' = [todo EXCEPT ![a] = R]
    BY <1>12 DEF StepFails
  <2>2. R \subseteq Repos
    BY <2>1 DEF TypeOK
  <2> QED  BY <1>12, <2>1, <2>2, NumberedKept, ProjectsAssumption
           DEF StepFails, Worker, Fault, TypeOK, frontendVars, diskVars, buildVars
<1>13. ASSUME NEW a \in Ids, Report(a)  PROVE TypeInv'
  BY <1>13, NumberedKept
     DEF Report, Worker, TypeOK, diskVars, buildVars
<1>14. ASSUME NEW a \in Ids, ResultLost(a)  PROVE TypeInv'
  BY <1>14, NumberedKept, ProjectsAssumption
     DEF ResultLost, Worker, Fault, TypeOK, frontendVars, diskVars, buildVars
<1>15. CASE UNCHANGED vars
  BY <1>15, NumberedKept
     DEF TypeOK, vars, frontendVars, workerVars, diskVars, buildVars
<1> QED
  BY <1>1, <1>2, <1>3, <1>4, <1>5, <1>6, <1>6a, <1>7, <1>8, <1>9, <1>10, <1>11, <1>12,
     <1>13, <1>14, <1>15
     DEF Next, User, Work, Breaks

LEMMA TypeInitial == Init => TypeInv
<1> SUFFICES ASSUME Init  PROVE TypeInv
  OBVIOUS
<1>1. TypeOK
  BY ProjectsAssumption DEF Init, TypeOK
<1>2. Numbered
  BY ProjectsAssumption DEF Init, Numbered, Sent, Ids
<1> QED  BY <1>1, <1>2 DEF TypeInv

(* Every variable has its type in every state; there are never more        *)
(* seconds than actions, so created_on tells them apart (Action rows).     *)
THEOREM TypeCorrect == Spec => []TypeOK
<1>1. TypeInv /\ [Next]_vars => TypeInv'
  BY TypeInductive
<1>2. TypeInv => TypeOK
  BY DEF TypeInv
<1> QED  BY <1>1, <1>2, TypeInitial, PTL DEF Spec

-------------------------------------------------------------------------------
(* What is requested after a deletion waits for it. *)

(* Only an action that waits has a worker. *)
Busy == \A a \in Ids : worker[a] # "none" => Waiting(a)

(* created_on tells the order of the rows. *)
Dated ==
  \A b \in Ids : Sent(b) =>
    /\ action[b].created <= now
    /\ \A a \in Ids : Sent(a) /\ a < b => action[a].created < action[b].created

CopiedByFork == \A c \in copied : Sent(c[1]) /\ action[c[1]].kind = "fork"

(* pending_actions() does not list them, so they have done nothing yet.    *)
HeldBack ==
  \A d, a \in Ids :
    d < a /\ IsDelete(d) /\ Waiting(d) /\ Sent(a) /\ ~IsDelete(a) =>
      worker[a] = "none" /\ \A c \in copied : c[1] # a

HoldInv == TypeInv /\ Busy /\ Dated /\ CopiedByFork /\ HeldBack

(* A step that starts, copies and requests nothing.                        *)
LEMMA NothingStarts ==
  ASSUME HoldInv, TypeInv', action' = action, now' = now, copied' \subseteq copied,
         \A a \in Ids : result'[a] = "waiting" => result[a] = "waiting",
         \A a \in Ids : worker'[a] # "none" =>
                           worker[a] # "none" /\ result'[a] = result[a]
  PROVE  HoldInv'
<1> USE DEF HoldInv
<1>1. Busy'
  BY DEF Busy, Waiting, Sent
<1>2. Dated' /\ CopiedByFork'
  BY DEF Dated, CopiedByFork, Sent
<1>3. HeldBack'
  BY DEF HeldBack, IsDelete, Waiting, Sent
<1> QED  BY <1>1, <1>2, <1>3

(* A request: the new row is the last one. *)
LEMMA RequestHolds ==
  ASSUME ~SameSecond, HoldInv, TypeInv', UNCHANGED <<worker, copied>>,
         NEW kind \in Kinds, NEW p \in Coprs, NEW R \in SUBSET Repos,
         Send(kind, p, R)
  PROVE  HoldInv'
<1> USE DEF HoldInv
<1>1. PICK a \in Ids, t \in 1 .. MaxActions :
           /\ ~Sent(a) /\ Sent(a)'
           /\ now < t /\ now' = t
           /\ action' = [action EXCEPT ![a] =
                           [kind |-> kind, of |-> p, repos |-> R, created |-> t]]
           /\ action'[a] = [kind |-> kind, of |-> p, repos |-> R, created |-> t]
           /\ action'[a] \in Rows
           /\ result' = [result EXCEPT ![a] = "waiting"]
           /\ \A b \in Ids : Sent(b) => b < a
  BY SendTyped
<1>2. \A b \in Ids : b # a => action'[b] = action[b] /\ result'[b] = result[b]
  BY <1>1 DEF TypeInv, TypeOK
<1>3. \A b \in Ids : Sent(b) => b # a /\ Sent(b)' /\ b < a
  BY <1>1, <1>2 DEF Sent
<1>4. \A b \in Ids : Sent(b)' => b = a \/ Sent(b)
  BY <1>2 DEF Sent
<1>5. worker[a] = "none"
  BY <1>1 DEF Busy, Waiting
<1>6. Busy'
  BY <1>2, <1>3, <1>5 DEF Busy, Waiting
<1>7. \A c \in copied : c[1] \in Ids /\ c[1] # a
  BY <1>1 DEF CopiedByFork, TypeInv, TypeOK
<1>8. CopiedByFork'
  BY <1>2, <1>3, <1>7 DEF CopiedByFork
<1>9. Dated'
  <2> SUFFICES ASSUME NEW b \in Ids, Sent(b)'
               PROVE  /\ action'[b].created <= now'
                      /\ \A c \in Ids : Sent(c)' /\ c < b =>
                           action'[c].created < action'[b].created
    BY DEF Dated
  <2>1. now \in Nat /\ t \in Nat
    BY ProjectsAssumption DEF TypeInv, TypeOK
  <2>2. \A c \in Ids : Sent(c) =>
          action'[c] = action[c] /\ action[c].created \in Nat /\ action[c].created <= now
    BY <1>2, <1>3, ProjectsAssumption DEF Dated, Sent, TypeInv, TypeOK, Rows
  <2>3. CASE b = a
    <3>1. action'[b].created = t
      BY <1>1, <2>3
    <3>2. ASSUME NEW c \in Ids, Sent(c)', c < b  PROVE action'[c].created < t
      <4>1. Sent(c)
        BY <1>4, <2>3, <3>2, ProjectsAssumption DEF Ids
      <4> QED  BY <1>1, <2>1, <2>2, <4>1
    <3> QED  BY <1>1, <3>1, <3>2, <2>1
  <2>4. CASE b # a
    <3>1. Sent(b) /\ b < a
      BY <1>3, <1>4, <2>4
    <3>2. action'[b].created <= now'
      BY <1>1, <2>1, <2>2, <3>1
    <3>3. ASSUME NEW c \in Ids, Sent(c)', c < b
          PROVE  action'[c].created < action'[b].created
      <4>1. Sent(c)
        BY <1>4, <3>1, <3>3, ProjectsAssumption DEF Ids
      <4> QED  BY <2>2, <3>1, <3>3, <4>1 DEF Dated
    <3> QED  BY <3>2, <3>3
  <2> QED  BY <2>3, <2>4
<1>10. HeldBack'
  <2> SUFFICES ASSUME NEW d \in Ids, NEW b \in Ids, d < b, IsDelete(d)', Waiting(d)',
                      Sent(b)', ~IsDelete(b)'
               PROVE  worker'[b] = "none" /\ \A c \in copied' : c[1] # b
    BY DEF HeldBack
  <2>1. CASE b = a
    BY <1>5, <1>7, <2>1
  <2>2. CASE b # a
    <3>1. Sent(b) /\ b < a /\ ~IsDelete(b)
      BY <1>2, <1>3, <1>4, <2>2 DEF IsDelete
    <3>2. d # a
      BY <3>1, ProjectsAssumption DEF Ids
    <3>3. IsDelete(d) /\ Waiting(d)
      BY <1>2, <3>2 DEF IsDelete, Waiting, Sent
    <3> QED  BY <3>1, <3>3 DEF HeldBack
  <2> QED  BY <2>1, <2>2
<1> QED  BY <1>6, <1>8, <1>9, <1>10

LEMMA StartHolds ==
  ASSUME HoldInv, TypeInv', NEW a \in Ids, Start(a)
  PROVE  HoldInv'
<1> USE DEF HoldInv
<1>1. /\ Listed(a)
      /\ worker' = [worker EXCEPT ![a] = "running"]
      /\ UNCHANGED <<action, result, now, copied>>
  BY DEF Start, Worker, frontendVars, diskVars
<1>2. Busy'
  BY <1>1 DEF Busy, Waiting, Sent, Listed, TypeInv, TypeOK
<1>3. Dated' /\ CopiedByFork'
  BY <1>1 DEF Dated, CopiedByFork, Sent
<1>4. ASSUME NEW d \in Ids, d < a, IsDelete(d), Waiting(d), ~IsDelete(a)  PROVE FALSE
  <2>1. action[d].created < action[a].created
    BY <1>1, <1>4 DEF Dated, Listed, Waiting
  <2> QED  BY <1>1, <1>4, <2>1 DEF Listed
<1>5. HeldBack'
  <2> SUFFICES ASSUME NEW d \in Ids, NEW b \in Ids, d < b, IsDelete(d), Waiting(d),
                      Sent(b), ~IsDelete(b)
               PROVE  worker'[b] = "none" /\ \A c \in copied : c[1] # b
    BY <1>1 DEF HeldBack, IsDelete, Waiting, Sent
  <2>1. b # a
    BY <1>4
  <2> QED  BY <1>1, <2>1 DEF HeldBack, TypeInv, TypeOK
<1> QED  BY <1>2, <1>3, <1>5

LEMMA ForkHolds ==
  ASSUME HoldInv, TypeInv', NEW a \in Ids, NEW r \in Repos, Fork(a, r)
  PROVE  HoldInv'
<1> USE DEF HoldInv
<1>1. /\ worker[a] # "none" /\ action[a].kind = "fork"
      /\ UNCHANGED <<action, result, now, worker>>
      /\ copied' \in {copied, copied \cup {<<a, r>>}}
  BY DEF Fork, At, frontendVars
<1>2. Sent(a) /\ ~IsDelete(a)
  BY <1>1 DEF Busy, Waiting, IsDelete
<1>3. Busy' /\ Dated'
  BY <1>1 DEF Busy, Dated, Waiting, Sent
<1>4. CopiedByFork'
  BY <1>1, <1>2 DEF CopiedByFork, Sent
<1>5. HeldBack'
  BY <1>1, <1>2 DEF HeldBack, IsDelete, Waiting, Sent
<1> QED  BY <1>3, <1>4, <1>5

LEMMA HoldInductive ==
  ASSUME ~SameSecond, HoldInv, [Next]_vars
  PROVE  HoldInv'
<1>0. TypeInv'
  BY TypeInductive DEF HoldInv
<1>1. ASSUME NEW p \in Coprs, Add(p)  PROVE HoldInv'
  <2>1. "createrepo" \in Kinds /\ Send("createrepo", p, Repos) /\ UNCHANGED <<worker, copied>>
    BY <1>1 DEF Add, Kinds, workerVars, diskVars
  <2> QED  BY <1>0, <2>1, RequestHolds
<1>2. ASSUME NEW p \in Coprs, SendFork(p)  PROVE HoldInv'
  <2>1. "fork" \in Kinds /\ Send("fork", p, Repos) /\ UNCHANGED <<worker, copied>>
    BY <1>2 DEF SendFork, Kinds, workerVars, diskVars
  <2> QED  BY <1>0, <2>1, RequestHolds
<1>3. ASSUME NEW p \in Coprs, NEW kind \in {"createrepo", "chroot", "builds"},
             NEW R \in SUBSET Repos, Request(p, kind, R)
      PROVE  HoldInv'
  <2>1. kind \in Kinds /\ Send(kind, p, R) /\ UNCHANGED <<worker, copied>>
    BY <1>3 DEF Request, Kinds, workerVars, diskVars
  <2> QED  BY <1>0, <2>1, RequestHolds
<1>4. ASSUME NEW p \in Coprs, DeleteCopr(p)  PROVE HoldInv'
  <2>1. "delete" \in Kinds /\ Send("delete", p, Repos) /\ UNCHANGED <<worker, copied>>
    BY <1>4 DEF DeleteCopr, Kinds, workerVars, diskVars
  <2> QED  BY <1>0, <2>1, RequestHolds
<1>5. ASSUME NEW p \in Coprs, NEW r \in Repos,
             Build(p, r) \/ CancelBuild(p, r) \/ BuildEnds(p, r)
      PROVE  HoldInv'
  BY <1>0, <1>5, NothingStarts
     DEF Build, CancelBuild, BuildEnds, frontendVars, workerVars, diskVars
<1>6. ASSUME NEW p \in Coprs, ForkCopr(p)  PROVE HoldInv'
  BY <1>0, <1>6, NothingStarts DEF ForkCopr, workerVars, diskVars
<1>7. ASSUME NEW a \in Ids, NEW r \in Repos,
             Createrepo(a, r) \/ DeleteChroot(a, r) \/ DeleteProject(a, r)
      PROVE  HoldInv'
  BY <1>0, <1>7, NothingStarts
     DEF Createrepo, DeleteChroot, DeleteProject, RemoveTree, frontendVars, diskVars
<1>8. ASSUME NEW a \in Ids, NEW r \in Repos, DeleteBuilds(a, r) \/ StepFails(a, r)
      PROVE  HoldInv'
  <2>1. /\ worker[a] # "none"
        /\ worker' \in {worker, [worker EXCEPT ![a] = "failing"]}
        /\ UNCHANGED <<action, result, now, copied>>
    BY <1>8 DEF DeleteBuilds, StepFails, At, Worker, frontendVars, diskVars
  <2>2. \A b \in Ids : worker'[b] # "none" => worker[b] # "none"
    BY <2>1 DEF HoldInv, TypeInv, TypeOK
  <2> QED  BY <1>0, <2>1, <2>2, NothingStarts
<1>9. ASSUME NEW a \in Ids, Report(a) \/ ResultLost(a)  PROVE HoldInv'
  <2>1. /\ worker' = [worker EXCEPT ![a] = "none"]
        /\ \/ result' = result
           \/ \E x \in {"success", "failure"} : result' = [result EXCEPT ![a] = x]
        /\ UNCHANGED <<action, now, copied>>
    BY <1>9 DEF Report, ResultLost, Worker, frontendVars, diskVars
  <2>2. \A b \in Ids : worker'[b] # "none" => worker[b] # "none" /\ result'[b] = result[b]
    BY <2>1 DEF HoldInv, TypeInv, TypeOK
  <2>3. \A b \in Ids : result'[b] = "waiting" => result[b] = "waiting"
    BY <2>1 DEF HoldInv, TypeInv, TypeOK
  <2> QED  BY <1>0, <2>1, <2>2, <2>3, NothingStarts
<1>10. ASSUME NEW a \in Ids, Start(a)  PROVE HoldInv'
  BY <1>0, <1>10, StartHolds
<1>11. ASSUME NEW a \in Ids, NEW r \in Repos, Fork(a, r)  PROVE HoldInv'
  BY <1>0, <1>11, ForkHolds
<1>12. CASE UNCHANGED vars
  BY <1>0, <1>12, NothingStarts DEF vars, frontendVars, workerVars, diskVars
<1> QED
  BY <1>1, <1>2, <1>3, <1>4, <1>5, <1>6, <1>7, <1>8, <1>9, <1>10, <1>11, <1>12
     DEF Next, User, Work, Breaks

LEMMA HoldInitial == Init => HoldInv
<1> SUFFICES ASSUME Init  PROVE HoldInv
  OBVIOUS
<1>1. Busy /\ Dated /\ CopiedByFork /\ HeldBack
  BY DEF Init, Busy, Dated, CopiedByFork, HeldBack, IsDelete, Waiting, Sent
<1> QED  BY <1>1, TypeInitial DEF HoldInv

LEMMA HoldSuffices == HoldInv => NothingNewDeleted
<1> SUFFICES ASSUME HoldInv, NEW d \in Ids, IsDelete(d), Waiting(d) \/ worker[d] # "none",
                    NEW c \in copied
             PROVE  c[1] < d
  BY DEF NothingNewDeleted
<1>1. Waiting(d)
  BY DEF HoldInv, Busy
<1>2. c[1] \in Ids /\ Sent(c[1]) /\ ~IsDelete(c[1])
  BY DEF HoldInv, CopiedByFork, IsDelete, TypeInv, TypeOK
<1>3. ~(d < c[1])
  BY <1>1, <1>2 DEF HoldInv, HeldBack
<1>4. c[1] # d
  BY <1>2
<1> QED  BY <1>2, <1>3, <1>4, ProjectsAssumption DEF Ids

(* If no two requests come within one second, the deletion of a project    *)
(* finds nothing that was requested after it, whatever fails and runs      *)
(* again (pending_actions, busy_namespaces).                               *)
THEOREM NewIsSafe ==
  ASSUME ~SameSecond
  PROVE  Spec => []NothingNewDeleted
<1>1. HoldInv /\ [Next]_vars => HoldInv'
  BY HoldInductive
<1> QED  BY <1>1, HoldInitial, HoldSuffices, PTL DEF Spec

-------------------------------------------------------------------------------
(* What a quiet project leaves. *)

Gone ==
  \A p \in quiet :
    copr[p] = "deleted" /\ p \notin forking /\ \A r \in Repos : building[p][r] = "none"

OnlyDeletes ==
  \A a \in Ids : Waiting(a) /\ action[a].of \in quiet => IsDelete(a)

Deletions ==
  \A d \in Ids : IsDelete(d) =>
    action[d].repos = Repos /\ copr[action[d].of] = "deleted"

(* r holds nothing of p. *)
Clear(p, r) ==
  /\ <<p, r>> \notin built
  /\ \A c \in copied : c[2] = r => action[c[1]].of # p

(* As far as the deletion has come. *)
Cleaned ==
  \A d \in Ids :
    IsDelete(d) /\ action[d].of \in quiet /\ (worker[d] = "running" \/ result[d] = "success") =>
      \A r \in Repos : (worker[d] = "running" /\ r \in todo[d]) \/ Clear(action[d].of, r)

QuietInv ==
  TypeInv /\ Busy /\ CopiedByFork /\ Gone /\ OnlyDeletes /\ Deletions /\ Cleaned

(* A step that requests, publishes and starts nothing. *)
LEMMA NothingComes ==
  ASSUME QuietInv, TypeInv', UNCHANGED <<copr, action, forking, quiet>>,
         copied' \subseteq copied, built' \subseteq built,
         \A p \in Coprs, r \in Repos : building[p][r] = "none" => building'[p][r] = "none",
         \A a \in Ids : result'[a] = "waiting" => result[a] = "waiting",
         \A a \in Ids : worker'[a] # "none" =>
                           worker[a] # "none" /\ result'[a] = result[a],
         \A d \in Ids : IsDelete(d) /\ worker'[d] = "running" =>
           /\ worker[d] = "running"
           /\ \A r \in todo[d] : r \in todo'[d] \/ Clear(action[d].of, r)',
         \A d \in Ids : IsDelete(d) /\ result'[d] = "success" =>
           result[d] = "success" \/ (worker[d] = "running" /\ todo[d] = {})
  PROVE  QuietInv'
<1> USE DEF QuietInv
<1>1. Busy'
  BY DEF Busy, Waiting, Sent
<1>2. CopiedByFork' /\ OnlyDeletes' /\ Deletions'
  BY DEF CopiedByFork, OnlyDeletes, Deletions, IsDelete, Waiting, Sent
<1>3. Gone'
  BY DEF Gone, TypeInv, TypeOK
<1>4. \A p \in Coprs, r \in Repos : Clear(p, r) => Clear(p, r)'
  BY DEF Clear
<1>5. Cleaned'
  <2> SUFFICES ASSUME NEW d \in Ids, IsDelete(d), action[d].of \in quiet,
                      worker'[d] = "running" \/ result'[d] = "success",
                      NEW r \in Repos, ~(worker'[d] = "running" /\ r \in todo'[d])
               PROVE  Clear(action[d].of, r)'
    BY DEF Cleaned, IsDelete, Sent
  <2>1. action[d].of \in Coprs
    BY DEF IsDelete, Sent, TypeInv, TypeOK, Rows
  <2>2. CASE worker'[d] = "running"
    <3>1. worker[d] = "running" /\ (r \in todo[d] => Clear(action[d].of, r)')
      BY <2>2
    <3> QED  BY <3>1, <2>1, <1>4 DEF Cleaned
  <2>3. CASE worker'[d] # "running"
    <3>1. result'[d] = "success"
      BY <2>3
    <3>2. worker[d] = "running" /\ result[d] = "success" => FALSE
      BY DEF Busy, Waiting
    <3>3. result[d] = "success" \/ (worker[d] = "running" /\ todo[d] = {})
      BY <3>1
    <3>4. Clear(action[d].of, r)
      BY <3>2, <3>3 DEF Cleaned
    <3> QED  BY <3>4, <2>1, <1>4
  <2> QED  BY <2>2, <2>3
<1> QED  BY <1>1, <1>2, <1>3, <1>5

(* A request of a project that is not quiet, or becomes so by it. *)
LEMMA RequestQuiet ==
  ASSUME QuietInv, TypeInv',
         UNCHANGED <<worker, todo, dirs, copied, built, building>>,
         NEW kind \in Kinds, NEW p \in Coprs, NEW R \in SUBSET Repos,
         Send(kind, p, R),
         p \notin quiet, quiet' \in {quiet, quiet \cup {p}},
         \A q \in Coprs : copr[q] = "deleted" => copr'[q] = "deleted",
         forking' \subseteq forking,
         kind = "delete" => R = Repos /\ copr[p] = "live" /\ copr'[p] = "deleted",
         p \in quiet' => kind = "delete" /\ Quiet(p)
  PROVE  QuietInv'
<1>0. TypeInv
  BY DEF QuietInv
<1> USE DEF QuietInv
<1>1. PICK a \in Ids, t \in 1 .. MaxActions :
           /\ ~Sent(a) /\ Sent(a)'
           /\ now <= t /\ (~SameSecond => now < t) /\ now' = t /\ t <= a
           /\ action' = [action EXCEPT ![a] =
                           [kind |-> kind, of |-> p, repos |-> R, created |-> t]]
           /\ action'[a] = [kind |-> kind, of |-> p, repos |-> R, created |-> t]
           /\ action'[a] \in Rows
           /\ result' = [result EXCEPT ![a] = "waiting"]
           /\ \A b \in Ids : b < a => Sent(b)
           /\ \A b \in Ids : Sent(b) => b < a
  BY <1>0, SendTyped
<1>2. \A b \in Ids : b # a => action'[b] = action[b] /\ result'[b] = result[b]
  BY <1>1 DEF TypeInv, TypeOK
<1>3. worker[a] = "none"
  BY <1>1 DEF Busy, Waiting
<1>4. Busy'
  BY <1>1, <1>2, <1>3 DEF Busy, Waiting, Sent
<1>5. \A c \in copied : c[1] \in Ids /\ c[1] # a
  BY <1>1 DEF CopiedByFork, TypeInv, TypeOK
<1>6. CopiedByFork'
  BY <1>2, <1>5 DEF CopiedByFork, Sent
<1>7. Gone'
  <2> SUFFICES ASSUME NEW q \in quiet'
               PROVE  /\ copr'[q] = "deleted" /\ q \notin forking'
                      /\ \A r \in Repos : building'[q][r] = "none"
    BY DEF Gone
  <2>1. CASE q = p
    BY <2>1 DEF Quiet
  <2>2. CASE q # p
    <3>1. q \in quiet /\ q \in Coprs
      BY <2>2 DEF TypeInv, TypeOK
    <3> QED  BY <3>1 DEF Gone
  <2> QED  BY <2>1, <2>2
<1>8. OnlyDeletes'
  <2> SUFFICES ASSUME NEW b \in Ids, Waiting(b)', action'[b].of \in quiet'
               PROVE  IsDelete(b)'
    BY DEF OnlyDeletes
  <2>1. CASE b = a
    BY <1>1, <2>1 DEF IsDelete
  <2>2. CASE b # a
    <3>1. Waiting(b) /\ action'[b] = action[b]
      BY <1>2, <2>2 DEF Waiting, Sent
    <3>2. action[b].of \in quiet
      BY <3>1 DEF Quiet
    <3> QED  BY <1>2, <2>2, <3>1, <3>2 DEF OnlyDeletes, IsDelete, Sent
  <2> QED  BY <2>1, <2>2
<1>9. Deletions'
  <2> SUFFICES ASSUME NEW d \in Ids, IsDelete(d)'
               PROVE  action'[d].repos = Repos /\ copr'[action'[d].of] = "deleted"
    BY DEF Deletions
  <2>1. CASE d = a
    BY <1>1, <2>1 DEF IsDelete
  <2>2. CASE d # a
    <3>1. IsDelete(d) /\ action'[d] = action[d]
      BY <1>2, <2>2 DEF IsDelete, Sent
    <3>2. action[d].of \in Coprs
      BY <3>1 DEF IsDelete, Sent, TypeInv, TypeOK, Rows
    <3> QED  BY <3>1, <3>2 DEF Deletions
  <2> QED  BY <2>1, <2>2
<1>10. Cleaned'
  <2> SUFFICES ASSUME NEW d \in Ids, IsDelete(d)', action'[d].of \in quiet',
                      worker[d] = "running" \/ result'[d] = "success",
                      NEW r \in Repos, ~(worker[d] = "running" /\ r \in todo[d])
               PROVE  Clear(action[d].of, r)'
    BY DEF Cleaned
  <2>1. d # a
    BY <1>1, <1>3 DEF TypeInv, TypeOK
  <2>2. IsDelete(d) /\ action'[d] = action[d] /\ result'[d] = result[d]
    BY <1>2, <2>1 DEF IsDelete, Sent
  <2>3. action[d].of # p
    <3>1. SUFFICES ASSUME action[d].of = p  PROVE FALSE
      OBVIOUS
    <3>2. copr[p] = "deleted"
      BY <2>2, <3>1 DEF Deletions
    <3>3. kind = "delete"
      BY <2>2, <3>1
    <3> QED  BY <3>2, <3>3
  <2>4. action[d].of \in quiet
    BY <2>2, <2>3
  <2>5. Clear(action[d].of, r)
    BY <2>2, <2>4 DEF Cleaned
  <2> QED  BY <1>2, <1>5, <2>2, <2>5 DEF Clear
<1> QED  BY <1>4, <1>6, <1>7, <1>8, <1>9, <1>10

LEMMA StartQuiet ==
  ASSUME QuietInv, TypeInv', NEW a \in Ids, Start(a)
  PROVE  QuietInv'
<1> USE DEF QuietInv
<1>1. /\ Waiting(a)
      /\ worker' = [worker EXCEPT ![a] = "running"]
      /\ todo' = [todo EXCEPT ![a] = action[a].repos]
      /\ UNCHANGED <<copr, action, result, forking, quiet, dirs, copied, built, building>>
  BY DEF Start, Listed, Worker, frontendVars, diskVars, buildVars
<1>2. Busy'
  BY <1>1 DEF Busy, Waiting, Sent, TypeInv, TypeOK
<1>3. CopiedByFork' /\ Gone' /\ OnlyDeletes' /\ Deletions'
  BY <1>1 DEF CopiedByFork, Gone, OnlyDeletes, Deletions, IsDelete, Waiting, Sent
<1>4. Cleaned'
  <2> SUFFICES ASSUME NEW d \in Ids, IsDelete(d), action[d].of \in quiet,
                      worker'[d] = "running" \/ result[d] = "success",
                      NEW r \in Repos, ~(worker'[d] = "running" /\ r \in todo'[d])
               PROVE  Clear(action[d].of, r)
    BY <1>1 DEF Cleaned, IsDelete, Sent, Clear
  <2>1. d # a
    BY <1>1 DEF Deletions, TypeInv, TypeOK
  <2> QED  BY <1>1, <2>1 DEF Cleaned, TypeInv, TypeOK
<1> QED  BY <1>2, <1>3, <1>4

(* The fork of a project that is not quiet. *)
LEMMA ForkQuiet ==
  ASSUME QuietInv, TypeInv', NEW a \in Ids, NEW r \in Repos, Fork(a, r)
  PROVE  QuietInv'
<1> USE DEF QuietInv
<1>1. /\ worker[a] # "none" /\ action[a].kind = "fork"
      /\ todo' = [todo EXCEPT ![a] = @ \ {r}]
      /\ UNCHANGED <<copr, action, result, forking, quiet, worker, built, building>>
      /\ copied' \in {copied, copied \cup {<<a, r>>}}
  BY DEF Fork, Handled, At, frontendVars, buildVars
<1>2. Sent(a) /\ Waiting(a) /\ ~IsDelete(a)
  BY <1>1 DEF Busy, Waiting, IsDelete
<1>3. action[a].of \notin quiet
  BY <1>2 DEF OnlyDeletes
<1>4. CopiedByFork'
  BY <1>1, <1>2 DEF CopiedByFork, Sent
<1>5. Busy' /\ Gone' /\ OnlyDeletes' /\ Deletions'
  BY <1>1 DEF Busy, Gone, OnlyDeletes, Deletions, IsDelete, Waiting, Sent
<1>6. Cleaned'
  <2> SUFFICES ASSUME NEW d \in Ids, IsDelete(d), action[d].of \in quiet,
                      worker[d] = "running" \/ result[d] = "success",
                      NEW q \in Repos, ~(worker[d] = "running" /\ q \in todo'[d])
               PROVE  Clear(action[d].of, q)'
    BY <1>1 DEF Cleaned, IsDelete, Sent
  <2>1. d # a /\ todo'[d] = todo[d]
    BY <1>1, <1>2 DEF TypeInv, TypeOK
  <2>2. Clear(action[d].of, q)
    BY <2>1 DEF Cleaned
  <2> QED  BY <1>1, <1>3, <2>2 DEF Clear
<1> QED  BY <1>4, <1>5, <1>6

(* A build that is not of a quiet project. *)
LEMMA BuildQuiet ==
  ASSUME QuietInv, TypeInv', NEW p \in Coprs, NEW r \in Repos,
         Build(p, r) \/ CancelBuild(p, r) \/ BuildEnds(p, r)
  PROVE  QuietInv'
<1> USE DEF QuietInv
<1>1. /\ UNCHANGED <<copr, action, result, forking, quiet, worker, todo, copied>>
      /\ copr[p] = "live" \/ building[p][r] # "none"
      /\ \E s : building' = [building EXCEPT ![p][r] = s]
      /\ built' \subseteq built \cup {<<p, r>>}
  BY DEF Build, CancelBuild, BuildEnds, SetBuilding, frontendVars, workerVars, diskVars
<1>2. p \notin quiet
  BY <1>1 DEF Gone
<1>3. Busy' /\ CopiedByFork' /\ OnlyDeletes' /\ Deletions'
  BY <1>1 DEF Busy, CopiedByFork, OnlyDeletes, Deletions, IsDelete, Waiting, Sent
<1>4. \A q \in quiet : building'[q] = building[q]
  BY <1>1, <1>2 DEF TypeInv, TypeOK
<1>5. Gone'
  BY <1>1, <1>4 DEF Gone
<1>6. \A q \in quiet, x \in Repos : Clear(q, x) => Clear(q, x)'
  BY <1>1, <1>2 DEF Clear
<1>7. Cleaned'
  BY <1>1, <1>6 DEF Cleaned, IsDelete, Sent
<1> QED  BY <1>3, <1>5, <1>7

LEMMA QuietInductive ==
  ASSUME QuietInv, [Next]_vars
  PROVE  QuietInv'
<1>0. TypeInv /\ TypeInv'
  BY TypeInductive DEF QuietInv
<1>1. ASSUME NEW p \in Coprs, Add(p)  PROVE QuietInv'
  <2>1. /\ "createrepo" \in Kinds /\ Send("createrepo", p, Repos)
        /\ UNCHANGED <<worker, todo, dirs, copied, built, building, quiet, forking>>
        /\ copr[p] = "none" /\ copr' = [copr EXCEPT ![p] = "live"]
    BY <1>1 DEF Add, NewCopr, Kinds, workerVars, diskVars, buildVars
  <2>2. p \notin quiet
    BY <2>1 DEF QuietInv, Gone
  <2>3. \A q \in Coprs : copr[q] = "deleted" => copr'[q] = "deleted"
    BY <1>0, <2>1 DEF TypeInv, TypeOK
  <2> QED  BY <1>0, <2>1, <2>2, <2>3, RequestQuiet
<1>2. ASSUME NEW p \in Coprs, ForkCopr(p)  PROVE QuietInv'
  <2>1. /\ UNCHANGED <<action, result, quiet, worker, todo, copied, built, building>>
        /\ copr[p] # "deleted" /\ copr' = [copr EXCEPT ![p] = "live"]
        /\ forking' = forking \cup {p}
    BY <1>2 DEF ForkCopr, NewCopr, workerVars, diskVars, buildVars
  <2>2. p \notin quiet
    BY <2>1 DEF QuietInv, Gone
  <2>3. \A q \in Coprs : copr[q] = "deleted" => copr'[q] = "deleted"
    BY <1>0, <2>1 DEF TypeInv, TypeOK
  <2>4. Gone'
    BY <1>0, <2>1, <2>2, <2>3 DEF QuietInv, Gone, TypeInv, TypeOK
  <2>5. Deletions'
    <3> SUFFICES ASSUME NEW d \in Ids, IsDelete(d)
                 PROVE  action[d].repos = Repos /\ copr'[action[d].of] = "deleted"
      BY <2>1 DEF Deletions, IsDelete, Sent
    <3>1. action[d].of \in Coprs
      BY <1>0 DEF IsDelete, Sent, TypeInv, TypeOK, Rows
    <3> QED  BY <2>3, <3>1 DEF QuietInv, Deletions
  <2>6. Busy' /\ CopiedByFork' /\ OnlyDeletes' /\ Cleaned'
    BY <2>1 DEF QuietInv, Busy, CopiedByFork, OnlyDeletes, Cleaned, Clear, IsDelete, Waiting, Sent
  <2> QED  BY <1>0, <2>4, <2>5, <2>6 DEF QuietInv
<1>3. ASSUME NEW p \in Coprs, SendFork(p)  PROVE QuietInv'
  <2>1. /\ "fork" \in Kinds /\ Send("fork", p, Repos)
        /\ UNCHANGED <<worker, todo, dirs, copied, built, building, quiet, copr>>
        /\ p \in forking /\ forking' = forking \ {p}
    BY <1>3 DEF SendFork, Kinds, workerVars, diskVars, buildVars
  <2>2. p \notin quiet
    BY <2>1 DEF QuietInv, Gone
  <2> QED  BY <1>0, <2>1, <2>2, RequestQuiet
<1>4. ASSUME NEW p \in Coprs, NEW kind \in {"createrepo", "chroot", "builds"},
             NEW R \in SUBSET Repos, Request(p, kind, R)
      PROVE  QuietInv'
  <2>1. /\ kind \in Kinds /\ kind # "delete" /\ Send(kind, p, R)
        /\ UNCHANGED <<worker, todo, dirs, copied, built, building, quiet, copr, forking>>
        /\ copr[p] = "live"
    BY <1>4 DEF Request, Kinds, workerVars, diskVars, buildVars
  <2>2. p \notin quiet
    BY <2>1 DEF QuietInv, Gone
  <2> QED  BY <1>0, <2>1, <2>2, RequestQuiet
<1>5. ASSUME NEW p \in Coprs, DeleteCopr(p)  PROVE QuietInv'
  <2>1. /\ "delete" \in Kinds /\ Send("delete", p, Repos)
        /\ UNCHANGED <<worker, todo, dirs, copied, built, building, forking>>
        /\ copr[p] = "live" /\ copr' = [copr EXCEPT ![p] = "deleted"]
        /\ quiet' = IF Quiet(p) THEN quiet \cup {p} ELSE quiet
    BY <1>5 DEF DeleteCopr, Kinds, workerVars, diskVars, buildVars
  <2>2. p \notin quiet
    BY <2>1 DEF QuietInv, Gone
  <2>3. /\ \A q \in Coprs : copr[q] = "deleted" => copr'[q] = "deleted"
        /\ copr'[p] = "deleted"
    BY <1>0, <2>1 DEF TypeInv, TypeOK
  <2> QED  BY <1>0, <2>1, <2>2, <2>3, RequestQuiet
<1>6. ASSUME NEW p \in Coprs, NEW r \in Repos,
             Build(p, r) \/ CancelBuild(p, r) \/ BuildEnds(p, r)
      PROVE  QuietInv'
  BY <1>0, <1>6, BuildQuiet
<1>7. ASSUME NEW a \in Ids, Start(a)  PROVE QuietInv'
  BY <1>0, <1>7, StartQuiet
<1>8. ASSUME NEW a \in Ids, NEW r \in Repos, Fork(a, r)  PROVE QuietInv'
  BY <1>0, <1>8, ForkQuiet
<1>9. ASSUME NEW a \in Ids, NEW r \in Repos,
             Createrepo(a, r) \/ DeleteChroot(a, r) \/ DeleteProject(a, r)
      PROVE  QuietInv'
  <2>1. /\ UNCHANGED <<copr, action, forking, quiet, building, result, worker>>
        /\ todo' = [todo EXCEPT ![a] = @ \ {r}]
        /\ copied' \subseteq copied /\ built' \subseteq built
        /\ IsDelete(a) => built' = {b \in built : b[2] # r}
                          /\ copied' = {c \in copied : c[2] # r}
    BY <1>9 DEF Createrepo, DeleteChroot, DeleteProject, RemoveTree, Handled, At,
                IsDelete, frontendVars, buildVars
  <2>2. \A d \in Ids : \A x \in todo[d] :
          x \in todo'[d] \/ (d = a /\ x = r)
    BY <1>0, <2>1 DEF TypeInv, TypeOK
  <2>3. \A d \in Ids : IsDelete(d) =>
          \A x \in todo[d] : x \in todo'[d] \/ Clear(action[d].of, x)'
    BY <2>1, <2>2 DEF Clear
  <2> QED  BY <1>0, <2>1, <2>3, NothingComes
<1>10. ASSUME NEW a \in Ids, NEW r \in Repos, DeleteBuilds(a, r) \/ StepFails(a, r)
       PROVE  QuietInv'
  <2>1. /\ UNCHANGED <<copr, action, forking, quiet, building, result, copied>>
        /\ worker[a] # "none"
        /\ worker' = [worker EXCEPT ![a] = "failing"]
             \/ (worker' = worker /\ ~IsDelete(a))
        /\ \E R : todo' = [todo EXCEPT ![a] = R]
        /\ built' \subseteq built
    BY <1>10 DEF DeleteBuilds, StepFails, At, Handled, Worker, IsDelete,
                 frontendVars, diskVars, buildVars
  <2>2. \A d \in Ids : worker'[d] # "none" => worker[d] # "none"
    BY <1>0, <2>1 DEF TypeInv, TypeOK
  <2>3. \A d \in Ids : IsDelete(d) /\ worker'[d] = "running" =>
          worker[d] = "running" /\ todo'[d] = todo[d]
    BY <1>0, <2>1 DEF TypeInv, TypeOK
  <2> QED  BY <1>0, <2>1, <2>2, <2>3, NothingComes
<1>11. ASSUME NEW a \in Ids, Report(a) \/ ResultLost(a)  PROVE QuietInv'
  <2>1. /\ UNCHANGED <<copr, action, forking, quiet, building, copied, built>>
        /\ worker' = [worker EXCEPT ![a] = "none"]
        /\ \/ result' = result
           \/ /\ todo[a] = {}
              /\ result' = [result EXCEPT
                   ![a] = IF worker[a] = "running" THEN "success" ELSE "failure"]
        /\ \E R : todo' = [todo EXCEPT ![a] = R] \/ todo' = todo
    BY <1>11 DEF Report, ResultLost, Worker, frontendVars, diskVars, buildVars
  <2>2. \A d \in Ids : worker'[d] # "none" =>
          d # a /\ worker'[d] = worker[d] /\ result'[d] = result[d] /\ todo'[d] = todo[d]
    BY <1>0, <2>1 DEF TypeInv, TypeOK
  <2>3. \A d \in Ids : result'[d] = "waiting" => result[d] = "waiting"
    BY <1>0, <2>1 DEF TypeInv, TypeOK
  <2>4. \A d \in Ids : result'[d] = "success" =>
          result[d] = "success" \/ (worker[d] = "running" /\ todo[d] = {})
    BY <1>0, <2>1 DEF TypeInv, TypeOK
  <2> QED  BY <1>0, <2>1, <2>2, <2>3, <2>4, NothingComes
<1>12. CASE UNCHANGED vars
  BY <1>0, <1>12, NothingComes
     DEF vars, frontendVars, workerVars, diskVars, buildVars, QuietInv, Busy, Waiting
<1> QED
  BY <1>1, <1>2, <1>3, <1>4, <1>5, <1>6, <1>7, <1>8, <1>9, <1>10, <1>11, <1>12
     DEF Next, User, Work, Breaks

LEMMA QuietInitial == Init => QuietInv
<1> SUFFICES ASSUME Init  PROVE QuietInv
  OBVIOUS
<1>1. Busy /\ CopiedByFork /\ Gone /\ OnlyDeletes /\ Deletions /\ Cleaned
  BY DEF Init, Busy, CopiedByFork, Gone, OnlyDeletes, Deletions, Cleaned,
         IsDelete, Waiting, Sent
<1> QED  BY <1>1, TypeInitial DEF QuietInv

LEMMA QuietSuffices == QuietInv => QuietLeavesNothing
<1> SUFFICES ASSUME QuietInv, NEW d \in Ids, IsDelete(d), result[d] = "success",
                    action[d].of \in quiet
             PROVE  /\ \A r \in Repos : <<action[d].of, r>> \notin built
                    /\ \A c \in copied : action[c[1]].of # action[d].of
  BY DEF QuietLeavesNothing
<1>1. worker[d] = "none"
  BY DEF QuietInv, Busy, Waiting
<1>2. \A r \in Repos : Clear(action[d].of, r)
  BY <1>1 DEF QuietInv, Cleaned
<1>3. \A c \in copied : c[2] \in Repos
  BY DEF QuietInv, TypeInv, TypeOK
<1> QED  BY <1>2, <1>3 DEF Clear

(* A project that nothing was going on in when it was deleted leaves       *)
(* nothing once its deletion has succeeded, and nothing of it comes back   *)
(* (DeleteProject, delete_project).                                        *)
THEOREM QuietIsGone == Spec => []QuietLeavesNothing
<1>1. QuietInv /\ [Next]_vars => QuietInv'
  BY QuietInductive
<1> QED  BY <1>1, QuietInitial, QuietSuffices, PTL DEF Spec
-------------------------------------------------------------------------------
(* Which steps there are, as far as the rows and their workers see them.   *)

(* Of the rows that are sent, none is later than the clock. *)
Past == \A a \in Ids : Sent(a) => action[a].created <= now

(* A row has a result from the moment it is there. *)
Kept == \A a \in Ids : Sent(a) <=> result[a] # "none"

ActionInv == TypeInv /\ Busy /\ Past /\ Kept

Requested(a) ==
  /\ ~Sent(a) /\ Sent(a)'
  /\ now <= now' /\ action'[a].created = now'
  /\ \A b \in Ids \ {a} : action'[b] = action[b]
  /\ result' = [result EXCEPT ![a] = "waiting"]
  /\ UNCHANGED worker

Started(a) ==
  /\ Listed(a) /\ worker[a] = "none"
  /\ worker' = [worker EXCEPT ![a] = "running"]
  /\ UNCHANGED <<action, result, now>>

Ended(a) ==
  /\ worker[a] # "none"
  /\ worker' = [worker EXCEPT ![a] = "none"]
  /\ \/ UNCHANGED result
     \/ \E s \in {"success", "failure"} : result' = [result EXCEPT ![a] = s]
  /\ UNCHANGED <<action, now>>

Unnoticed ==
  /\ \/ UNCHANGED worker
     \/ \E a \in Ids : worker[a] # "none" /\ worker' = [worker EXCEPT ![a] = "failing"]
  /\ UNCHANGED <<action, result, now>>

LEMMA SendIsRequest ==
  ASSUME TypeInv, UNCHANGED worker,
         NEW kind \in Kinds, NEW p \in Coprs, NEW R \in SUBSET Repos, Send(kind, p, R)
  PROVE  \E a \in Ids : Requested(a)
<1>1. PICK a \in Ids, t \in 1 .. MaxActions :
           /\ ~Sent(a) /\ Sent(a)'
           /\ now <= t /\ now' = t
           /\ action' = [action EXCEPT ![a] =
                           [kind |-> kind, of |-> p, repos |-> R, created |-> t]]
           /\ action'[a] = [kind |-> kind, of |-> p, repos |-> R, created |-> t]
           /\ result' = [result EXCEPT ![a] = "waiting"]
  BY SendTyped
<1>2. action'[a].created = now' /\ \A b \in Ids \ {a} : action'[b] = action[b]
  BY <1>1 DEF TypeInv, TypeOK
<1> QED  BY <1>1, <1>2 DEF Requested

LEMMA StepsOfActions ==
  ASSUME TypeInv, [Next]_vars
  PROVE  Unnoticed \/ \E a \in Ids : Requested(a) \/ Started(a) \/ Ended(a)
<1>1. ASSUME NEW p \in Coprs, Add(p)  PROVE \E a \in Ids : Requested(a)
  <2>1. "createrepo" \in Kinds /\ Send("createrepo", p, Repos) /\ UNCHANGED worker
    BY <1>1 DEF Add, Kinds, workerVars
  <2> QED  BY <2>1, SendIsRequest
<1>2. ASSUME NEW p \in Coprs, SendFork(p)  PROVE \E a \in Ids : Requested(a)
  <2>1. "fork" \in Kinds /\ Send("fork", p, Repos) /\ UNCHANGED worker
    BY <1>2 DEF SendFork, Kinds, workerVars
  <2> QED  BY <2>1, SendIsRequest
<1>3. ASSUME NEW p \in Coprs, NEW kind \in {"createrepo", "chroot", "builds"},
             NEW R \in SUBSET Repos, Request(p, kind, R)
      PROVE  \E a \in Ids : Requested(a)
  <2>1. kind \in Kinds /\ Send(kind, p, R) /\ UNCHANGED worker
    BY <1>3 DEF Request, Kinds, workerVars
  <2> QED  BY <2>1, SendIsRequest
<1>4. ASSUME NEW p \in Coprs, DeleteCopr(p)  PROVE \E a \in Ids : Requested(a)
  <2>1. "delete" \in Kinds /\ Send("delete", p, Repos) /\ UNCHANGED worker
    BY <1>4 DEF DeleteCopr, Kinds, workerVars
  <2> QED  BY <2>1, SendIsRequest
<1>5. ASSUME NEW p \in Coprs, NEW r \in Repos,
             Build(p, r) \/ CancelBuild(p, r) \/ BuildEnds(p, r) \/ ForkCopr(p)
      PROVE  Unnoticed
  BY <1>5 DEF Build, CancelBuild, BuildEnds, ForkCopr, frontendVars, workerVars, Unnoticed
<1>6. ASSUME NEW p \in Coprs, ForkCopr(p)  PROVE Unnoticed
  BY <1>6 DEF ForkCopr, workerVars, Unnoticed
<1>7. ASSUME NEW a \in Ids, NEW r \in Repos,
             \/ Createrepo(a, r) \/ Fork(a, r) \/ DeleteBuilds(a, r) \/ DeleteChroot(a, r)
             \/ DeleteProject(a, r) \/ StepFails(a, r)
      PROVE  Unnoticed
  BY <1>7 DEF Createrepo, Fork, DeleteBuilds, DeleteChroot, DeleteProject, StepFails, At,
     Worker, frontendVars, Unnoticed
<1>8. ASSUME NEW a \in Ids, Start(a)  PROVE Started(a)
  BY <1>8 DEF Start, Worker, frontendVars, Started
<1>9. ASSUME NEW a \in Ids, Report(a) \/ ResultLost(a)  PROVE Ended(a)
  BY <1>9 DEF Report, ResultLost, Worker, frontendVars, Ended
<1>10. CASE UNCHANGED vars
  BY <1>10 DEF vars, frontendVars, workerVars, Unnoticed
<1> QED
  BY <1>1, <1>2, <1>3, <1>4, <1>5, <1>6, <1>7, <1>8, <1>9, <1>10
  DEF Next, User, Work, Breaks

LEMMA ActionInvInductive ==
  ASSUME ActionInv, [Next]_vars
  PROVE  ActionInv'
<1> USE DEF ActionInv
<1>1. TypeInv'
  BY TypeInductive
<1>2. ASSUME NEW a \in Ids, Requested(a)  PROVE Busy' /\ Past' /\ Kept'
  <2>1. \A b \in Ids \ {a} : result'[b] = result[b] /\ (Sent(b)' <=> Sent(b))
    BY <1>2 DEF Requested, Sent
  <2>2. result'[a] = "waiting" /\ worker[a] = "none"
    BY <1>2 DEF Requested, Busy, Waiting, TypeInv, TypeOK
  <2>3. Busy' /\ Kept'
    BY <1>2, <2>1, <2>2 DEF Requested, Busy, Kept, Waiting
  <2>4. now \in Nat /\ now' \in Nat
    BY <1>1, ProjectsAssumption DEF TypeInv, TypeOK
  <2>5. \A b \in Ids : Sent(b) => action[b].created \in Nat
    BY ProjectsAssumption DEF TypeInv, TypeOK, Sent, Rows
  <2>6. Past'
    BY <1>2, <2>1, <2>4, <2>5 DEF Requested, Past
  <2> QED  BY <2>3, <2>6
<1>3. ASSUME NEW a \in Ids, Started(a)  PROVE Busy' /\ Past' /\ Kept'
  BY <1>3 DEF Started, Listed, Busy, Past, Kept, Waiting, Sent, TypeInv, TypeOK
<1>4. ASSUME NEW a \in Ids, Ended(a)  PROVE Busy' /\ Past' /\ Kept'
  BY <1>4 DEF Ended, Busy, Past, Kept, Waiting, Sent, TypeInv, TypeOK
<1>5. CASE Unnoticed
  <2>1. \A a \in Ids : worker'[a] # "none" => worker[a] # "none"
    BY <1>5 DEF Unnoticed, TypeInv, TypeOK
  <2>2. \A a \in Ids : (Sent(a)' <=> Sent(a)) /\ (Waiting(a)' <=> Waiting(a))
    BY <1>5 DEF Unnoticed, Sent, Waiting
  <2> QED
    BY <1>1, <1>5, <2>1, <2>2 DEF Unnoticed, Busy, Past, Kept
<1> QED
  BY <1>1, <1>2, <1>3, <1>4, <1>5, StepsOfActions

LEMMA ActionInvHolds == Spec => []ActionInv
<1>1. Init => ActionInv
  BY TypeInitial DEF Init, ActionInv, Busy, Past, Kept, Sent
<1>2. ActionInv /\ [Next]_vars => ActionInv'
  BY ActionInvInductive
<1> QED  BY <1>1, <1>2, PTL DEF Spec

(* Nothing that is requested later holds back an action that is listed,    *)
(* also within one second and whoever deletes the project: the decision of *)
(* pending_actions() is still right when the dispatcher, which has it      *)
(* queued meanwhile, starts the worker.                                    *)
StaysListed == [][\A a \in Ids : Listed(a) => Listed(a)' \/ ~Waiting(a)']_vars

THEOREM ListedStays == Spec => StaysListed
<1>1. ASSUME ActionInv, [Next]_vars, NEW a \in Ids, Listed(a), Waiting(a)'
      PROVE  Listed(a)'
  <2> SUFFICES ASSUME ~IsDelete(a)', NEW d \in Ids, IsDelete(d)', Waiting(d)',
                      action'[d].created < action'[a].created
               PROVE  FALSE
    BY <1>1 DEF Listed
  <2> USE DEF ActionInv
  <2>1. Sent(a) /\ result[a] = "waiting"
    BY <1>1 DEF Listed, Waiting
  <2>2. CASE \E b \in Ids : Requested(b)
    <3>1. PICK b \in Ids : Requested(b)
      BY <2>2
    <3>2. a # b /\ action'[a] = action[a] /\ ~IsDelete(a)
      BY <2>1, <3>1 DEF Requested, IsDelete, Sent
    <3>3. action[a].created \in Nat /\ action[a].created <= now /\ now \in Nat
      <4>1. action[a] \in Rows /\ now \in Nat
        BY <1>1, <2>1, ProjectsAssumption DEF TypeInv, TypeOK, Sent
      <4> QED  BY <1>1, <2>1, <4>1, ProjectsAssumption DEF Past, Rows
    <3>4. now' \in Nat
      BY <1>1, ProjectsAssumption, TypeInductive DEF TypeInv, TypeOK
    <3>5. d # b
      BY <3>1, <3>2, <3>3, <3>4 DEF Requested
    <3>6. IsDelete(d) /\ Waiting(d) /\ action[d].created < action[a].created
      BY <3>1, <3>2, <3>5 DEF Requested, IsDelete, Waiting, Sent, TypeInv, TypeOK
    <3> QED  BY <1>1, <3>2, <3>6 DEF Listed
  <2>3. CASE Unnoticed \/ \E b \in Ids : Started(b) \/ Ended(b)
    <3>1. /\ action' = action
          /\ \A b \in Ids : result'[b] = "waiting" => result[b] = "waiting"
      <4>1. CASE Unnoticed \/ \E b \in Ids : Started(b)
        BY <4>1 DEF Unnoticed, Started
      <4>2. CASE \E b \in Ids : Ended(b)
        BY <1>1, <4>2 DEF Ended, TypeInv, TypeOK
      <4> QED  BY <2>3, <4>1, <4>2
    <3>2. ~IsDelete(a) /\ IsDelete(d) /\ Waiting(d)
      BY <3>1 DEF IsDelete, Waiting, Sent
    <3> QED  BY <1>1, <3>1, <3>2 DEF Listed
  <2> QED  BY <1>1, <2>2, <2>3, StepsOfActions
<1>2. ActionInv /\ [Next]_vars
        => [\A a \in Ids : Listed(a) => Listed(a)' \/ ~Waiting(a)']_vars
  BY <1>1
<1> QED  BY <1>2, ActionInvHolds, PTL DEF Spec, StaysListed

-------------------------------------------------------------------------------
(* The actions are tasks of TaskPool. *)

Phase(a) ==
  IF ~Sent(a) THEN "new"
  ELSE IF ~Waiting(a) THEN "settled"
  ELSE IF worker[a] = "none" THEN "waiting" ELSE "running"

phases == [a \in Ids |-> Phase(a)]

Pool == INSTANCE TaskPool WITH Tasks <- Ids, MaxWorkers <- MaxActions, state <- phases

LEMMA PhaseMoves ==
  ASSUME NEW a \in Ids, \A b \in Ids \ {a} : Phase(b)' = Phase(b)
  PROVE  phases' = [phases EXCEPT ![a] = Phase(a)'] /\ phases[a] = Phase(a)
BY DEF phases

(* One action more than those that run fits, as there are MaxActions.      *)
LEMMA RoomForOneMore ==
  ASSUME NEW a \in Ids, Phase(a) # "running"
  PROVE  Cardinality(Pool!In("running")) < MaxActions
<1>1. IsFiniteSet(Ids) /\ Cardinality(Ids) = MaxActions
  BY FS_Interval, ProjectsAssumption DEF Ids
<1>2. IsFiniteSet(Ids \ {a}) /\ Cardinality(Ids \ {a}) = MaxActions - 1
  BY <1>1, FS_RemoveElement
<1>3. Pool!In("running") \in SUBSET (Ids \ {a})
  BY DEF Pool!In, phases
<1>4. /\ Cardinality(Pool!In("running")) <= Cardinality(Ids \ {a})
      /\ Cardinality(Pool!In("running")) \in Nat
  BY <1>2, <1>3, FS_Subset, FS_CardinalityType
<1> QED  BY <1>2, <1>4, ProjectsAssumption

(* The actions and their workers go through what TaskPool provides for and *)
(* nothing else: an action whose result the frontend has is never run      *)
(* again, and none has two workers (finish_task, handle_task).  So Projects*)
(* asks no more of the ActionDispatcher than PoolRefined shows of it.      *)
THEOREM ActionsArePool == Spec => Pool!Spec
<1>1. Init => Pool!Init
  BY DEF Init, Pool!Init, phases, Phase, Sent
<1>2. ActionInv /\ [Next]_vars => [Pool!Next]_phases
  <2> SUFFICES ASSUME ActionInv, [Next]_vars PROVE [Pool!Next]_phases
    OBVIOUS
  <2> USE DEF ActionInv
  <2>1. ASSUME NEW a \in Ids, Requested(a)  PROVE Pool!Next
    <3>1. \A b \in Ids \ {a} : Phase(b)' = Phase(b)
      BY <2>1 DEF Requested, Phase, Sent, Waiting
    <3>2. Phase(a) = "new" /\ Phase(a)' = "waiting"
      BY <2>1 DEF Requested, Phase, Waiting, Busy, TypeInv, TypeOK
    <3> QED
      BY <3>1, <3>2, PhaseMoves DEF Pool!Next, Pool!Submit, Pool!Move
  <2>2. ASSUME NEW a \in Ids, Started(a)  PROVE Pool!Next
    <3>1. \A b \in Ids \ {a} : Phase(b)' = Phase(b)
      BY <2>2 DEF Started, Phase, Sent, Waiting, TypeInv, TypeOK
    <3>2. Phase(a) = "waiting" /\ Phase(a)' = "running"
      BY <2>2 DEF Started, Listed, Phase, Sent, Waiting, TypeInv, TypeOK
    <3>3. Cardinality(Pool!In("running")) < MaxActions
      BY <3>2, RoomForOneMore
    <3>4. Pool!Move(a, {"waiting"}, "running")
      BY <3>1, <3>2, PhaseMoves DEF Pool!Move
    <3>5. Pool!Cardinality(Pool!In("running")) = Cardinality(Pool!In("running"))
      BY DEF Pool!Cardinality, Cardinality
    <3> QED
      BY <3>3, <3>4, <3>5 DEF Pool!Next, Pool!Start
  <2>3. ASSUME NEW a \in Ids, Ended(a)  PROVE Pool!Next
    <3>1. \A b \in Ids \ {a} : Phase(b)' = Phase(b)
      BY <2>3 DEF Ended, Phase, Sent, Waiting, TypeInv, TypeOK
    <3>2. Phase(a) = "running" /\ Phase(a)' \in {"waiting", "settled"}
      BY <2>3 DEF Ended, Busy, Phase, Sent, Waiting, TypeInv, TypeOK
    <3> QED
      BY <3>1, <3>2, PhaseMoves DEF Pool!Next, Pool!Lose, Pool!Settle, Pool!Move
  <2>4. CASE Unnoticed
    <3>1. \A b \in Ids : Phase(b)' = Phase(b)
      BY <2>4 DEF Unnoticed, Phase, Sent, Waiting, TypeInv, TypeOK
    <3> QED  BY <3>1 DEF phases
  <2> QED  BY <2>1, <2>2, <2>3, <2>4, StepsOfActions
<1> QED  BY <1>1, <1>2, ActionInvHolds, PTL DEF Spec, Pool!Spec
===============================================================================
