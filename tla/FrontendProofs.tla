---------------------------- MODULE FrontendProofs ----------------------------
(***************************************************************************)
(* Safety of the frontend's rows for any number of builds, chroots and     *)
(* faults.  The requests of the backend come from its workers, so that the *)
(* invariant says which workers and imports a build may have in which      *)
(* state: that a chroot has one only once the sources are imported, and    *)
(* that nobody works on the sources any more by then.                      *)
(***************************************************************************)
EXTENDS CoprChroots, TLAPS

BuildTypes ==
  /\ source \in [BuildIds -> SourceStates]
  /\ canceled \in [BuildIds -> BOOLEAN]
  /\ status \in [BuildIds -> [Chroots -> RowStates]]
  /\ requested \subseteq Tasks
  /\ worker \in [Tasks -> WorkerStates]
  /\ importing \subseteq BuildIds
  /\ faults \in 0 .. MaxFaults

ChrootTypes ==
  /\ active \in [Chroots -> BOOLEAN]
  /\ deleted \in [Chroots -> BOOLEAN]
  /\ deleteAfter \in [Chroots -> {"none", "ahead", "past"}]
  /\ deleteNotify \in [Chroots -> BOOLEAN]
  /\ lastBuild \in [Chroots -> {"recent", "old"}]
  /\ used \in [Chroots -> BOOLEAN]

(* Nothing is done about the sources any more. *)
Imported(b) ==
  /\ source[b] \in {"succeeded", "failed", "deleted"}
  /\ b \notin importing
  /\ worker[<<b, Src>>] = "none"

RowInv ==
  \A b \in BuildIds, c \in Chroots :
    status[b][c] \in TodoStates \/ worker[<<b, c>>] # "none" => Imported(b)

SourceInv ==
  \A b \in BuildIds :
    /\ worker[<<b, Src>>] # "none" =>
         /\ source[b] \in TodoStates \cup {"failed", "canceled", "deleted"}
         /\ b \notin importing
    /\ b \in importing => source[b] \in {"importing", "failed", "canceled", "deleted"}

(* A worker's row is there as long as its build is. *)
KnownInv ==
  \A b \in BuildIds, c \in Chroots :
    worker[<<b, c>>] # "none" => source[b] = "deleted" \/ status[b][c] # "none"

(* CanceledIsTold, for the chroots and the sources apart *)
ToldInv ==
  \A b \in BuildIds :
    /\ (canceled[b] \/ source[b] = "canceled") /\ worker[<<b, Src>>] # "none"
         => <<b, Src>> \in requested
    /\ \A c \in Chroots :
         (canceled[b] \/ status[b][c] = "canceled") /\ worker[<<b, c>>] # "none"
           => <<b, c>> \in requested

BuildsInv == BuildTypes /\ RowInv /\ SourceInv /\ KnownInv /\ ToldInv

(* What a request of a worker does to the other workers: nothing.          *)
LEMMA OneWorker ==
  ASSUME NEW b \in BuildIds, NEW c \in Chroots \cup {Src}, NEW s \in WorkerStates,
         BuildTypes, SetWorker(b, c, s)
  PROVE  /\ worker' \in [Tasks -> WorkerStates]
         /\ \A x \in BuildIds, y \in Chroots \cup {Src} :
              worker'[<<x, y>>] = IF x = b /\ y = c THEN s ELSE worker[<<x, y>>]
BY DEF SetWorker, BuildTypes, Tasks

(* What setting the status of the sources changes.                         *)
LEMMA OneSource ==
  ASSUME NEW b \in BuildIds, NEW s \in SourceStates, BuildTypes, SetSource(b, s)
  PROVE  /\ source' \in [BuildIds -> SourceStates]
         /\ \A x \in BuildIds : source'[x] = IF x = b THEN s ELSE source[x]
BY DEF SetSource, BuildTypes

(* The same for chroots: C of the build b get the status s.                *)
LEMMA SomeRows ==
  ASSUME NEW b \in BuildIds, NEW C, NEW s \in RowStates, BuildTypes, SetRows(b, C, s)
  PROVE  /\ status' \in [BuildIds -> [Chroots -> RowStates]]
         /\ \A x \in BuildIds, y \in Chroots :
              status'[x][y] = IF x = b /\ y \in C THEN s ELSE status[x][y]
BY DEF SetRows, BuildTypes

(* What starting_build() and update() change: for a chroot that it is      *)
(* none of the final statuses, for the sources whatever is reported.       *)
LEMMA Updated ==
  ASSUME NEW b \in BuildIds, NEW c \in Chroots \cup {Src},
         NEW s \in {"starting", "running", "failed", "succeeded"}, c = Src => s # "succeeded",
         BuildTypes, Update(b, c, s)
  PROVE  /\ source' \in [BuildIds -> SourceStates]
         /\ status' \in [BuildIds -> [Chroots -> RowStates]]
         /\ \A x \in BuildIds :
              source'[x] = IF x = b /\ c = Src /\ Exists(b) THEN s ELSE source[x]
         /\ \A x \in BuildIds, y \in Chroots :
              \/ status'[x][y] = status[x][y]
              \/ /\ x = b /\ y = c /\ Exists(b)
                 /\ status[x][y] \notin TerminalStates /\ status'[x][y] = s
              \/ /\ x = b /\ c = Src /\ s = "failed" /\ status'[x][y] = "failed"
                 /\ status[x][y] # "none"
<1> USE BuildsAssumption DEF RowStates, SourceStates, TodoStates, TerminalStates, FinishedStates
<1>1. CASE c = Src
  <2>1. UpdateSource(b, s) /\ s \in SourceStates /\ s \in RowStates
    BY <1>1 DEF Update
  <2>2. CASE ~Exists(b)
    BY <1>1, <2>1, <2>2 DEF UpdateSource, BuildTypes
  <2>3. CASE Exists(b) /\ s = "failed"
    <3>1. SetSource(b, s) /\ SetRows(b, Rows(b), s)
      BY <2>1, <2>3 DEF UpdateSource
    <3> QED
      BY <1>1, <2>1, <2>3, <3>1, OneSource, SomeRows DEF Rows
  <2>4. CASE Exists(b) /\ s # "failed"
    <3>1. SetSource(b, s) /\ UNCHANGED status
      BY <2>1, <2>4 DEF UpdateSource
    <3> QED
      BY <1>1, <2>1, <2>4, <3>1, OneSource DEF BuildTypes
  <2> QED
    BY <2>2, <2>3, <2>4
<1>2. CASE c # Src
  <2>1. UpdateRow(b, c, s) /\ s \in RowStates
    BY <1>2 DEF Update
  <2>2. CASE Exists(b) /\ status[b][c] \notin TerminalStates
    <3>1. SetRows(b, {c}, s) /\ UNCHANGED source
      BY <2>1, <2>2 DEF UpdateRow
    <3>2. /\ status' \in [BuildIds -> [Chroots -> RowStates]]
          /\ \A x \in BuildIds, y \in Chroots :
               status'[x][y] = IF x = b /\ y \in {c} THEN s ELSE status[x][y]
      BY <2>1, <3>1, SomeRows
    <3> QED
      BY <1>2, <2>2, <3>1, <3>2 DEF BuildTypes
  <2>3. CASE ~(Exists(b) /\ status[b][c] \notin TerminalStates)
    BY <1>2, <2>1, <2>3 DEF UpdateRow, BuildTypes
  <2> QED
    BY <2>2, <2>3
<1> QED
  BY <1>1, <1>2

(* A worker that lives and reports a status keeps the invariant.           *)
LEMMA ReportKeepsInv ==
  ASSUME NEW b \in BuildIds, NEW c \in Chroots \cup {Src},
         NEW s \in {"starting", "running", "failed", "succeeded"}, c = Src => s # "succeeded",
         NEW w \in WorkerStates, BuildsInv, worker[<<b, c>>] # "none",
         Update(b, c, s), SetWorker(b, c, w),
         UNCHANGED <<canceled, requested, importing, faults, active>>
  PROVE  BuildsInv'
<1> USE BuildsAssumption
    DEF BuildsInv, RowInv, SourceInv, KnownInv, ToldInv, Imported, Exists,
        TodoStates, TerminalStates, FinishedStates, RowStates, SourceStates, WorkerStates
<1>1. /\ worker' \in [Tasks -> WorkerStates]
      /\ \A x \in BuildIds, y \in Chroots \cup {Src} :
           worker'[<<x, y>>] = IF x = b /\ y = c THEN w ELSE worker[<<x, y>>]
  BY OneWorker
<1>2. /\ source' \in [BuildIds -> SourceStates]
      /\ status' \in [BuildIds -> [Chroots -> RowStates]]
      /\ \A x \in BuildIds :
           source'[x] = IF x = b /\ c = Src /\ Exists(b) THEN s ELSE source[x]
      /\ \A x \in BuildIds, y \in Chroots :
           \/ status'[x][y] = status[x][y]
           \/ /\ x = b /\ y = c /\ Exists(b)
              /\ status[x][y] \notin TerminalStates /\ status'[x][y] = s
           \/ /\ x = b /\ c = Src /\ s = "failed" /\ status'[x][y] = "failed"
              /\ status[x][y] # "none"
  BY Updated
<1>3. BuildTypes'
  BY <1>1, <1>2 DEF BuildTypes
<1>4. CASE c = Src
  <2>1. \A y \in Chroots : status[b][y] \notin TodoStates /\ worker[<<b, y>>] = "none"
    BY <1>4
  <2>2. RowInv' /\ SourceInv'
    <3>1. RowInv'
      BY <1>1, <1>2, <1>4, <2>1
    <3>2. source[b] # "deleted" => source'[b] = s
      BY <1>2, <1>4
    <3>3. SourceInv'
      BY <1>1, <1>2, <1>4, <2>1, <3>2
    <3> QED
      BY <3>1, <3>3
  <2>3. KnownInv'
    BY <1>1, <1>2, <1>4, <2>1
  <2>4. ToldInv'
    <3>1. ASSUME NEW x \in BuildIds, canceled'[x] \/ source'[x] = "canceled",
                worker'[<<x, Src>>] # "none"
         PROVE  <<x, Src>> \in requested'
      BY <3>1, <1>1, <1>2, <1>4, <2>1
    <3>2. ASSUME NEW x \in BuildIds, NEW y \in Chroots,
                canceled'[x] \/ status'[x][y] = "canceled", worker'[<<x, y>>] # "none"
         PROVE  <<x, y>> \in requested'
      <4>1. status'[x][y] = "canceled" => status[x][y] = "canceled"
        BY <1>2
      <4>2. worker[<<x, y>>] # "none"
        BY <3>2, <1>1
      <4> QED
        BY <3>2, <4>1, <4>2
    <3> QED
      BY <3>1, <3>2
  <2> QED
    BY <1>3, <2>2, <2>3, <2>4
<1>5. CASE c # Src
  <2>1. c \in Chroots /\ Imported(b) /\ source' = source
    BY <1>2, <1>5 DEF BuildTypes
  <2>2. RowInv'
    BY <1>1, <1>2, <1>5, <2>1
  <2>3. SourceInv'
    BY <1>1, <1>2, <1>5, <2>1
  <2>4. KnownInv'
    BY <1>1, <1>2, <1>5, <2>1
  <2>5. ToldInv'
    <3>1. ASSUME NEW x \in BuildIds, canceled'[x] \/ source'[x] = "canceled",
                worker'[<<x, Src>>] # "none"
         PROVE  <<x, Src>> \in requested'
      BY <3>1, <1>1, <1>2, <1>5, <2>1
    <3>2. ASSUME NEW x \in BuildIds, NEW y \in Chroots,
                canceled'[x] \/ status'[x][y] = "canceled", worker'[<<x, y>>] # "none"
         PROVE  <<x, y>> \in requested'
      <4>1. status'[x][y] = "canceled" => status[x][y] = "canceled"
        BY <1>2
      <4>2. worker[<<x, y>>] # "none"
        BY <3>2, <1>1
      <4> QED
        BY <3>2, <4>1, <4>2
    <3> QED
      BY <3>1, <3>2
  <2> QED
    BY <1>3, <2>2, <2>3, <2>4, <2>5
<1> QED
  BY <1>4, <1>5

(* The rows and the workers of a build, whatever happens to it.            *)
LEMMA BuildStepKeepsInv ==
  ASSUME NEW b \in BuildIds, BuildsInv, ChrootTypes, BuildStep(b), UNCHANGED <<active, deleted>>
  PROVE  BuildsInv'
<1> USE BuildsAssumption
    DEF BuildsInv, RowInv, SourceInv, KnownInv, ToldInv, Imported,
        TodoStates, TerminalStates, FinishedStates, RowStates, SourceStates, WorkerStates,
        rowVars, backendVars, buildVars
<1> USE DEF Exists
<1>1. ASSUME NEW C \in SUBSET Usable, Submit(b, C) PROVE BuildsInv'
  <2>1. /\ source' \in [BuildIds -> SourceStates]
        /\ \A x \in BuildIds : source'[x] = IF x = b THEN "pending" ELSE source[x]
    BY <1>1, OneSource DEF Submit
  <2>2. /\ status' \in [BuildIds -> [Chroots -> RowStates]]
        /\ \A x \in BuildIds, y \in Chroots :
             status'[x][y] = IF x = b /\ y \in C THEN "waiting" ELSE status[x][y]
    BY <1>1, SomeRows DEF Submit
  <2>3. BuildTypes'
    BY <1>1, <2>1, <2>2 DEF Submit, BuildTypes
  <2> QED
    BY <1>1, <2>1, <2>2, <2>3 DEF Submit
<1>2. ASSUME NEW C \in SUBSET Usable, SubmitImported(b, C) PROVE BuildsInv'
  <2>1. /\ source' \in [BuildIds -> SourceStates]
        /\ \A x \in BuildIds : source'[x] = IF x = b THEN "succeeded" ELSE source[x]
    BY <1>2, OneSource DEF SubmitImported
  <2>2. /\ status' \in [BuildIds -> [Chroots -> RowStates]]
        /\ \A x \in BuildIds, y \in Chroots :
             status'[x][y] = IF x = b /\ y \in C THEN "pending" ELSE status[x][y]
    BY <1>2, SomeRows DEF SubmitImported
  <2>3. BuildTypes'
    BY <1>2, <2>1, <2>2 DEF SubmitImported, BuildTypes
  <2>4. RowInv'
    BY <1>2, <2>1, <2>2 DEF SubmitImported
  <2>5. SourceInv'
    BY <1>2, <2>1, <2>2 DEF SubmitImported
  <2>6. KnownInv'
    BY <1>2, <2>1, <2>2 DEF SubmitImported
  <2>7. ToldInv'
    BY <1>2, <2>1, <2>2 DEF SubmitImported
  <2> QED
    BY <2>3, <2>4, <2>5, <2>6, <2>7
<1>3. ASSUME Cancel(b) PROVE BuildsInv'
  <2>1. BuildTypes'
    BY <1>3 DEF Cancel, BuildTypes, TasksOf, Tasks, Rows
  <2>2. \A x \in BuildIds : canceled'[x] = (x = b \/ canceled[x])
    BY <1>3 DEF Cancel, BuildTypes
  <2>3. ToldInv'
    BY <1>3, <2>2 DEF Cancel, TasksOf, Rows
  <2> QED
    BY <1>3, <2>1, <2>3 DEF Cancel
<1>4. ASSUME MarkAsFailed(b) PROVE BuildsInv'
  <2>1. /\ source' \in [BuildIds -> SourceStates]
        /\ \A x \in BuildIds :
             source'[x] = IF x = b THEN IF source[b] = "succeeded" THEN "succeeded" ELSE "failed"
                          ELSE source[x]
    BY <1>4, OneSource DEF MarkAsFailed
  <2>2. /\ status' \in [BuildIds -> [Chroots -> RowStates]]
        /\ \A x \in BuildIds, y \in Chroots :
             status'[x][y] = IF x = b /\ y \in {c \in Rows(b) : status[b][c] # "succeeded"}
                             THEN "failed" ELSE status[x][y]
    BY <1>4, SomeRows DEF MarkAsFailed
  <2>3. BuildTypes'
    BY <1>4, <2>1, <2>2 DEF MarkAsFailed, BuildTypes
  <2>4. RowInv'
    BY <1>4, <2>1, <2>2 DEF MarkAsFailed, Rows
  <2>5. SourceInv'
    BY <1>4, <2>1, <2>2 DEF MarkAsFailed, Rows
  <2>6. KnownInv'
    BY <1>4, <2>1, <2>2 DEF MarkAsFailed, Rows
  <2>7. ToldInv'
    BY <1>4, <2>1, <2>2 DEF MarkAsFailed, Rows
  <2> QED
    BY <2>3, <2>4, <2>5, <2>6, <2>7
<1>5. ASSUME DeleteBuild(b) PROVE BuildsInv'
  <2>1. /\ source' \in [BuildIds -> SourceStates]
        /\ \A x \in BuildIds : source'[x] = IF x = b THEN "deleted" ELSE source[x]
    BY <1>5, OneSource DEF DeleteBuild
  <2>2. /\ status' \in [BuildIds -> [Chroots -> RowStates]]
        /\ \A x \in BuildIds, y \in Chroots :
             status'[x][y] = IF x = b /\ y \in Chroots THEN "none" ELSE status[x][y]
    BY <1>5, SomeRows DEF DeleteBuild
  <2>3. BuildTypes'
    BY <1>5, <2>1, <2>2 DEF DeleteBuild, BuildTypes
  <2>4. RowInv'
    BY <1>5, <2>1, <2>2 DEF DeleteBuild
  <2>5. SourceInv'
    BY <1>5, <2>1, <2>2 DEF DeleteBuild
  <2>6. KnownInv'
    BY <1>5, <2>1, <2>2 DEF DeleteBuild
  <2>7. ToldInv'
    BY <1>5, <2>1, <2>2 DEF DeleteBuild
  <2> QED
    BY <2>3, <2>4, <2>5, <2>6, <2>7
<1>6. ASSUME NEW c \in Chroots \cup {Src}, Spawn(b, c) PROVE BuildsInv'
  <2>1. /\ worker' \in [Tasks -> WorkerStates]
        /\ \A x \in BuildIds, y \in Chroots \cup {Src} :
             worker'[<<x, y>>] = IF x = b /\ y = c THEN "spawned" ELSE worker[<<x, y>>]
    BY <1>6, OneWorker DEF Spawn
  <2>2. BuildTypes'
    BY <1>6, <2>1 DEF Spawn, BuildTypes, Fault
  <2>3. CASE c = Src
    <3>1. source[b] \in TodoStates /\ ~canceled[b]
      BY <1>6, <2>3 DEF Spawn, HandedOut, State
    <3> QED
      BY <1>6, <2>1, <2>2, <2>3, <3>1 DEF Spawn
  <2>4. CASE c # Src
    <3>1. status[b][c] \in TodoStates /\ ~canceled[b]
      BY <1>6, <2>4 DEF Spawn, HandedOut, State
    <3> QED
      BY <1>6, <2>1, <2>2, <2>4, <3>1 DEF Spawn
  <2> QED
    BY <2>3, <2>4
<1>7. ASSUME NEW c \in Chroots \cup {Src}, GetTask(b, c) PROVE BuildsInv'
  <2>1. /\ worker' \in [Tasks -> WorkerStates]
        /\ \A x \in BuildIds, y \in Chroots \cup {Src} :
             worker'[<<x, y>>] = IF x = b /\ y = c THEN worker'[<<b, c>>] ELSE worker[<<x, y>>]
    BY <1>7, OneWorker DEF GetTask
  <2>2. BuildTypes'
    BY <1>7, <2>1 DEF GetTask, BuildTypes, Fault
  <2> QED
    BY <1>7, <2>1, <2>2 DEF GetTask
<1>8. ASSUME NEW c \in Chroots \cup {Src}, StartingBuild(b, c) PROVE BuildsInv'
  <2>1. /\ Update(b, c, "starting") /\ SetWorker(b, c, "starting") /\ worker[<<b, c>>] # "none"
        /\ UNCHANGED <<canceled, requested, importing, faults, active>>
    BY <1>8 DEF StartingBuild, AtWork
  <2> QED
    BY <2>1, ReportKeepsInv
<1>9. ASSUME NEW c \in Chroots \cup {Src}, RefuseStart(b, c) PROVE BuildsInv'
  <2>1. /\ worker' \in [Tasks -> WorkerStates]
        /\ \A x \in BuildIds, y \in Chroots \cup {Src} :
             worker'[<<x, y>>] = IF x = b /\ y = c THEN "failing" ELSE worker[<<x, y>>]
    BY <1>9, OneWorker DEF RefuseStart
  <2>2. BuildTypes'
    BY <1>9, <2>1 DEF RefuseStart, BuildTypes, Fault
  <2> QED
    BY <1>9, <2>1, <2>2 DEF RefuseStart
<1>10. ASSUME NEW c \in Chroots \cup {Src}, MarkRunning(b, c) PROVE BuildsInv'
  <2>1. /\ Update(b, c, "running") /\ SetWorker(b, c, "running") /\ worker[<<b, c>>] # "none"
        /\ UNCHANGED <<canceled, requested, importing, faults, active>>
    BY <1>10 DEF MarkRunning, AtWork
  <2> QED
    BY <2>1, ReportKeepsInv
<1>11. ASSUME NEW c \in Chroots \cup {Src}, ReportFailure(b, c) PROVE BuildsInv'
  <2>1. /\ Update(b, c, "failed") /\ SetWorker(b, c, "none") /\ worker[<<b, c>>] # "none"
        /\ UNCHANGED <<canceled, requested, importing, faults, active>>
    BY <1>11 DEF ReportFailure, AtWork
  <2> QED
    BY <2>1, ReportKeepsInv
<1>12. ASSUME NEW c \in Chroots \cup {Src}, ReportBuilt(b, c) PROVE BuildsInv'
  <2>1. /\ Update(b, c, "succeeded") /\ SetWorker(b, c, "none") /\ worker[<<b, c>>] # "none"
        /\ UNCHANGED <<canceled, requested, importing, faults, active>>
    BY <1>12 DEF ReportBuilt, AtWork
  <2> QED
    BY <2>1, <1>12, ReportKeepsInv DEF ReportBuilt
<1>13. ASSUME NEW c \in Chroots \cup {Src}, WorkerDies(b, c) PROVE BuildsInv'
  <2>1. /\ worker' \in [Tasks -> WorkerStates]
        /\ \A x \in BuildIds, y \in Chroots \cup {Src} :
             worker'[<<x, y>>] = IF x = b /\ y = c THEN "none" ELSE worker[<<x, y>>]
    BY <1>13, OneWorker DEF WorkerDies
  <2>2. BuildTypes'
    BY <1>13, <2>1 DEF WorkerDies, BuildTypes, Fault
  <2> QED
    BY <1>13, <2>1, <2>2 DEF WorkerDies
<1>14. ASSUME ReportSource(b) PROVE BuildsInv'
  <2>1. /\ worker' \in [Tasks -> WorkerStates]
        /\ \A x \in BuildIds, y \in Chroots \cup {Src} :
             worker'[<<x, y>>] = IF x = b /\ y = Src THEN "none" ELSE worker[<<x, y>>]
    BY <1>14, OneWorker DEF ReportSource
  <2>2. \A y \in Chroots : worker[<<b, y>>] = "none" /\ status[b][y] \notin TodoStates
    BY <1>14 DEF ReportSource, AtWork
  <2>3. CASE ~Exists(b)
    <3>1. BuildTypes'
      BY <1>14, <2>1, <2>3 DEF ReportSource, BuildTypes
    <3> QED
      BY <1>14, <2>1, <2>3, <3>1 DEF ReportSource
  <2>4. CASE Exists(b)
    <3>1. PICK C, skip : SourceSucceeds(b, C, skip)
      BY <1>14, <2>4 DEF ReportSource
    <3>2. /\ source' \in [BuildIds -> SourceStates]
          /\ source'[b] \in {"failed", "importing"}
          /\ \A x \in BuildIds : x # b => source'[x] = source[x]
      BY <3>1, OneSource DEF SourceSucceeds
    <3>3. /\ status' \in [BuildIds -> [Chroots -> RowStates]]
          /\ \A x \in BuildIds, y \in Chroots :
               \/ status'[x][y] = status[x][y]
               \/ x = b /\ status'[x][y] \in {"skipped", "waiting"}
      BY <3>1 DEF SourceSucceeds, BuildTypes
    <3>4. BuildTypes'
      BY <1>14, <2>1, <3>2, <3>3 DEF ReportSource, BuildTypes
    <3>5. b \notin importing /\ importing' = importing /\ requested' = requested
             /\ canceled' = canceled
      BY <1>14 DEF ReportSource, AtWork
    <3>6. RowInv'
      BY <2>1, <2>2, <3>2, <3>3, <3>5
    <3>7. SourceInv'
      BY <2>1, <2>2, <3>2, <3>3, <3>5
    <3>8. KnownInv'
      BY <2>1, <2>2, <3>2, <3>3, <3>5
    <3>9. ToldInv'
      <4>1. ASSUME NEW x \in BuildIds, canceled'[x] \/ source'[x] = "canceled",
                   worker'[<<x, Src>>] # "none"
            PROVE  <<x, Src>> \in requested'
        <5>1. x # b /\ source'[x] = source[x] /\ worker[<<x, Src>>] # "none"
          BY <4>1, <2>1, <3>2
        <5> QED
          BY <4>1, <3>5, <5>1
      <4>2. ASSUME NEW x \in BuildIds, NEW y \in Chroots,
                   canceled'[x] \/ status'[x][y] = "canceled", worker'[<<x, y>>] # "none"
            PROVE  <<x, y>> \in requested'
        <5>1. x # b /\ worker[<<x, y>>] # "none"
          BY <4>2, <2>1, <2>2
        <5> QED
          BY <4>2, <3>3, <3>5, <5>1
      <4> QED
        BY <4>1, <4>2
    <3> QED
      BY <3>4, <3>6, <3>7, <3>8, <3>9
  <2> QED
    BY <2>3, <2>4
<1>15. ASSUME NEW c \in Chroots \cup {Src}, TaskCanceled(b, c) PROVE BuildsInv'
  <2>1. CASE c = Src
    <3>1. /\ source' \in [BuildIds -> SourceStates]
          /\ \A x \in BuildIds :
               \/ source'[x] = source[x]
               \/ /\ x = b /\ source'[x] = "canceled"
                  /\ source[x] \in TodoStates \cup {"importing"}
      BY <1>15, <2>1, OneSource DEF TaskCanceled, BuildTypes
    <3>2. BuildTypes' /\ status' = status /\ worker' = worker /\ importing' = importing
      BY <1>15, <2>1, <3>1 DEF TaskCanceled, BuildTypes
    <3> QED
      BY <1>15, <2>1, <3>1, <3>2 DEF TaskCanceled
  <2>2. CASE c # Src
    <3>1. /\ status' \in [BuildIds -> [Chroots -> RowStates]]
          /\ \A x \in BuildIds, y \in Chroots :
               \/ status'[x][y] = status[x][y]
               \/ x = b /\ y = c /\ status'[x][y] = "canceled" /\ status[x][y] # "none"
      <4>1. (SetRows(b, {c}, "canceled") /\ status[b][c] # "none") \/ UNCHANGED status
        BY <1>15, <2>2 DEF TaskCanceled
      <4>2. CASE UNCHANGED status
        BY <4>2 DEF BuildTypes
      <4>3. CASE SetRows(b, {c}, "canceled") /\ status[b][c] # "none"
        BY <4>3, SomeRows
      <4> QED
        BY <4>1, <4>2, <4>3
    <3>2. BuildTypes' /\ source' = source /\ worker' = worker /\ importing' = importing
      BY <1>15, <2>2, <3>1 DEF TaskCanceled, BuildTypes
    <3>3. RowInv'
      BY <1>15, <2>2, <3>1, <3>2 DEF TaskCanceled
    <3>4. SourceInv'
      BY <1>15, <2>2, <3>1, <3>2 DEF TaskCanceled
    <3>5. KnownInv'
      BY <1>15, <2>2, <3>1, <3>2 DEF TaskCanceled
    <3>6. ToldInv'
      <4>1. ASSUME NEW x \in BuildIds, canceled'[x] \/ source'[x] = "canceled",
                  worker'[<<x, Src>>] # "none"
           PROVE  <<x, Src>> \in requested'
        BY <4>1, <1>15, <2>2, <3>1, <3>2 DEF TaskCanceled
      <4>2. ASSUME NEW x \in BuildIds, NEW y \in Chroots,
                  canceled'[x] \/ status'[x][y] = "canceled", worker'[<<x, y>>] # "none"
           PROVE  <<x, y>> \in requested'
        <5>1. worker[<<b, c>>] = "none" /\ requested' = requested \ {<<b, c>>}
          BY <1>15 DEF TaskCanceled
        <5>2. x # b \/ y # c
          BY <4>2, <3>2, <5>1
        <5>3. status'[x][y] = status[x][y] /\ canceled' = canceled
          BY <1>15, <3>1, <5>2 DEF TaskCanceled
        <5>4. <<x, y>> \in requested
          BY <4>2, <3>2, <5>3
        <5> QED
          BY <5>1, <5>2, <5>4
      <4> QED
        BY <4>1, <4>2
    <3> QED
      BY <3>2, <3>3, <3>4, <3>5, <3>6
  <2> QED
    BY <2>1, <2>2
<1>16. ASSUME ImportStart(b) PROVE BuildsInv'
  BY <1>16 DEF ImportStart, BuildTypes
<1>17. ASSUME ImportLost(b) PROVE BuildsInv'
  BY <1>17 DEF ImportLost, BuildTypes, Fault
<1>18. ASSUME UploadCompleted(b) PROVE BuildsInv'
  <2>1. worker[<<b, Src>>] = "none" /\ \A y \in Chroots : worker[<<b, y>>] = "none"
    BY <1>18 DEF UploadCompleted
  <2>2. CASE ~Exists(b)
    BY <1>18, <2>2 DEF UploadCompleted, BuildTypes
  <2>3. CASE Exists(b)
    <3>1. PICK ok \in SUBSET Rows(b) :
            /\ status' = [status EXCEPT ![b] = [c \in Chroots |-> AfterImport(b, ok, c)]]
            /\ SetSource(b, IF ok = Rows(b) THEN "succeeded" ELSE "failed")
      BY <1>18, <2>3 DEF UploadCompleted
    <3>2. /\ source' \in [BuildIds -> SourceStates]
          /\ source'[b] \in {"succeeded", "failed"}
          /\ \A x \in BuildIds : x # b => source'[x] = source[x]
      BY <3>1, OneSource
    <3>3. /\ status' \in [BuildIds -> [Chroots -> RowStates]]
          /\ \A x \in BuildIds, y \in Chroots : x # b => status'[x][y] = status[x][y]
      BY <3>1 DEF BuildTypes, AfterImport
    <3>4. BuildTypes'
      BY <1>18, <3>2, <3>3 DEF UploadCompleted, BuildTypes
    <3>5. importing' = importing \ {b} /\ UNCHANGED <<canceled, requested, worker>>
      BY <1>18 DEF UploadCompleted
    <3>6. RowInv'
      BY <2>1, <3>2, <3>3, <3>5
    <3>7. SourceInv'
      BY <2>1, <3>2, <3>3, <3>5
    <3>8. KnownInv'
      BY <2>1, <3>2, <3>3, <3>5
    <3>9. ToldInv'
      BY <2>1, <3>2, <3>3, <3>5
    <3> QED
      BY <3>4, <3>6, <3>7, <3>8, <3>9
  <2> QED
    BY <2>2, <2>3
<1> QED
  BY <1>1, <1>2, <1>3, <1>4, <1>5, <1>6, <1>7, <1>8, <1>9, <1>10, <1>11, <1>12, <1>13,
     <1>14, <1>15, <1>16, <1>17, <1>18
     DEF BuildStep, UserStep, ImportStep, WorkerStep

(* The chroots: delete_after is set only as long as nobody used them, and, *)
(* for an active chroot that is not unclicked, by the rolling policy only. *)
PeriodInv ==
  \A c \in Chroots :
    deleteAfter[c] # "none" =>
      /\ ~used[c]
      /\ deleted[c] \/ ~active[c] \/ c \in Rolling

Inv == BuildsInv /\ ChrootTypes /\ PeriodInv

(* New BuildChroots are made for usable chroots only.                      *)
LEMMA NewRowsUsable ==
  ASSUME NEW b \in BuildIds, BuildsInv, BuildStep(b)
  PROVE  NewRows \subseteq Usable
<1> SUFFICES ASSUME NEW x \in BuildIds, NEW c \in Chroots,
                    status[x][c] = "none", status'[x][c] # "none"
             PROVE  c \in Usable
  BY DEF NewRows
<1> USE BuildsAssumption
    DEF BuildsInv, RowStates, TodoStates, FinishedStates, TerminalStates, SourceStates
<1>1. ASSUME NEW C \in SUBSET Usable, Submit(b, C) PROVE c \in Usable
  BY <1>1, SomeRows DEF Submit
<1>2. ASSUME NEW C \in SUBSET Usable, SubmitImported(b, C) PROVE c \in Usable
  BY <1>2, SomeRows DEF SubmitImported
<1>3. ASSUME MarkAsFailed(b) PROVE c \in Usable
  BY <1>3, SomeRows DEF MarkAsFailed, Rows
<1>4. ASSUME DeleteBuild(b) PROVE c \in Usable
  BY <1>4, SomeRows DEF DeleteBuild
<1>5. ASSUME NEW d \in Chroots \cup {Src},
             NEW s \in {"starting", "running", "failed", "succeeded"}, d = Src => s # "succeeded",
             worker[<<b, d>>] # "none", Update(b, d, s)
      PROVE  c \in Usable
  <2>1. \/ status'[x][c] = status[x][c]
        \/ x = b /\ c = d /\ Exists(b)
        \/ status[x][c] # "none"
    BY <1>5, Updated
  <2> QED
    BY <1>5, <2>1 DEF KnownInv, Exists
<1>6. ASSUME ReportSource(b) PROVE c \in Usable
  <2>1. PICK C \in RowsToBuild(b) : \E skip \in SUBSET C : SourceSucceeds(b, C, skip)
    BY <1>6 DEF ReportSource, BuildTypes
  <2>2. x = b /\ c \in C
    BY <2>1 DEF SourceSucceeds, BuildTypes
  <2>3. c \notin Rows(b)
    BY <2>2 DEF Rows
  <2> QED
    BY <2>1, <2>2, <2>3 DEF RowsToBuild
<1>7. ASSUME NEW d \in Chroots \cup {Src}, TaskCanceled(b, d) PROVE c \in Usable
  BY <1>7, SomeRows DEF TaskCanceled
<1>8. ASSUME UploadCompleted(b) PROVE c \in Usable
  BY <1>8 DEF UploadCompleted, AfterImport, Rows, BuildTypes
<1>9. CASE UNCHANGED status
  BY <1>9
<1>10. ASSUME NEW d \in Chroots \cup {Src}, WorkerStep(b, d) PROVE c \in Usable
  BY <1>5, <1>6, <1>9, <1>10
     DEF WorkerStep, Spawn, GetTask, StartingBuild, RefuseStart, MarkRunning, ReportFailure,
         ReportBuilt, AtWork, rowVars
<1> QED
  BY <1>1, <1>2, <1>3, <1>4, <1>7, <1>8, <1>9, <1>10
     DEF BuildStep, UserStep, ImportStep, Cancel, ImportStart, ImportLost, WorkerDies, rowVars

(* An EOL cancels the unfinished chroots, and tells the backend.           *)
LEMMA EolKeepsInv ==
  ASSUME NEW c \in Chroots, BuildsInv, CancelByMock(c)
  PROVE  BuildsInv'
<1> USE BuildsAssumption
    DEF BuildsInv, RowStates, TodoStates, FinishedStates, TerminalStates, backendVars
<1>1. /\ status' \in [BuildIds -> [Chroots -> RowStates]]
      /\ \A x \in BuildIds, y \in Chroots :
           \/ status'[x][y] = status[x][y]
           \/ /\ y = c /\ status'[x][y] = "canceled" /\ status[x][y] # "none"
              /\ <<x, y>> \in requested'
  BY DEF CancelByMock, Unfinished, BuildTypes
<1>2. BuildTypes' /\ requested \subseteq requested'
  BY <1>1 DEF CancelByMock, Unfinished, BuildTypes, Tasks
<1>3. UNCHANGED <<source, canceled, worker, importing>>
  BY DEF CancelByMock
<1>4. RowInv' /\ SourceInv'
  BY <1>1, <1>3 DEF RowInv, SourceInv, Imported
<1>5. KnownInv'
  BY <1>1, <1>3 DEF KnownInv
<1>6. ToldInv'
  BY <1>1, <1>2, <1>3 DEF ToldInv
<1> QED
  BY <1>2, <1>4, <1>5, <1>6

(* BuildsInv says nothing of the variables that only the chroots' own      *)
(* operations change.                                                      *)
LEMMA ChrootsLeaveBuilds == BuildsInv /\ UNCHANGED buildVars => BuildsInv'
BY DEF BuildsInv, BuildTypes, RowInv, SourceInv, KnownInv, ToldInv, Imported,
       buildVars, rowVars, backendVars

(* Every step of Next, the builds' steps in one.                           *)
LEMMA InvInductive == Inv /\ [Next]_vars => Inv'
<1> SUFFICES ASSUME Inv, [Next]_vars PROVE Inv'
  OBVIOUS
<1> USE CoprChrootsAssumption DEF Inv
<1>1. ASSUME NEW b \in BuildIds, Building(BuildStep(b)) PROVE Inv'
  <2>1. BuildStep(b) /\ BuildSubmitted(NewRows) /\ UNCHANGED <<active, deleted>>
    BY <1>1 DEF Building
  <2>2. BuildsInv'
    BY <2>1, BuildStepKeepsInv
  <2>3. NewRows \subseteq Chroots
    BY DEF NewRows
  <2>4. ChrootTypes' /\ PeriodInv'
    BY <2>1, <2>3 DEF BuildSubmitted, ChrootTypes, PeriodInv
  <2> QED
    BY <2>2, <2>4
<1> USE DEF ChrootTypes, PeriodInv, Set, StartPeriod, StopPeriod, Outdated
<1>2. ASSUME NEW c \in Chroots, Activate(c) PROVE Inv'
  BY <1>2, ChrootsLeaveBuilds DEF Activate
<1>3. ASSUME NEW c \in Chroots, Deactivate(c) PROVE Inv'
  BY <1>3, ChrootsLeaveBuilds DEF Deactivate, outdatedVars
<1>4. ASSUME NEW c \in Chroots, Eol(c) PROVE Inv'
  BY <1>4, EolKeepsInv DEF Eol
<1>5. ASSUME NEW c \in Chroots, Unclick(c) PROVE Inv'
  BY <1>5, ChrootsLeaveBuilds DEF Unclick
<1>6. ASSUME NEW c \in Chroots, Click(c) PROVE Inv'
  BY <1>6, ChrootsLeaveBuilds DEF Click
<1>7. ASSUME NEW c \in Chroots, Extend(c) PROVE Inv'
  BY <1>7, ChrootsLeaveBuilds DEF Extend
<1>8. ASSUME NEW c \in Chroots, Expire(c) PROVE Inv'
  BY <1>8, ChrootsLeaveBuilds DEF Expire
<1>9. ASSUME NEW c \in Chroots, RollingPolicy(c) PROVE Inv'
  BY <1>9, ChrootsLeaveBuilds DEF RollingPolicy
<1>10. ASSUME NEW c \in Chroots, Notify(c) PROVE Inv'
  BY <1>10, ChrootsLeaveBuilds DEF Notify
<1>11. ASSUME NEW c \in Chroots, Fixup(c) PROVE Inv'
  BY <1>11, ChrootsLeaveBuilds DEF Fixup
<1>12. ASSUME NEW c \in Chroots, Expires(c) PROVE Inv'
  BY <1>12, ChrootsLeaveBuilds DEF Expires
<1>13. ASSUME NEW c \in Chroots, GetsOld(c) PROVE Inv'
  BY <1>13, ChrootsLeaveBuilds DEF GetsOld
<1>14. ASSUME DeleteOutdated PROVE Inv'
  BY <1>14, ChrootsLeaveBuilds DEF DeleteOutdated, RemoveData
<1>15. CASE UNCHANGED vars
  BY <1>15, ChrootsLeaveBuilds DEF vars, chrootVars, outdatedVars
<1> QED
  BY <1>1, <1>2, <1>3, <1>4, <1>5, <1>6, <1>7, <1>8, <1>9, <1>10, <1>11, <1>12, <1>13,
     <1>14, <1>15 DEF Next

(* The invariant of every behaviour: what all the theorems rest on.        *)
LEMMA InvHolds == Spec => []Inv
<1>1. ASSUME Init PROVE Inv
  <2> USE <1>1, BuildsAssumption DEF Init, BuildsInit
  <2>1. BuildTypes
    BY DEF BuildTypes, SourceStates, RowStates, WorkerStates, Tasks
  <2>2. \A x \in BuildIds, y \in Chroots \cup {Src} : worker[<<x, y>>] = "none"
    BY DEF Tasks
  <2>3. RowInv /\ SourceInv /\ KnownInv /\ ToldInv
    BY <2>2 DEF RowInv, SourceInv, KnownInv, ToldInv, TodoStates
  <2>4. ChrootTypes /\ PeriodInv
    BY DEF ChrootTypes, PeriodInv
  <2> QED
    BY <2>1, <2>3, <2>4 DEF Inv, BuildsInv
<1> QED
  BY <1>1, InvInductive, PTL DEF Spec

(* The variables keep their types.                                         *)
THEOREM TypeCorrect == Spec => []TypeOK
<1>1. Inv => TypeOK
  BY DEF Inv, BuildsInv, BuildTypes, ChrootTypes, TypeOK
<1> QED
  BY <1>1, InvHolds, PTL

(* The frontend hands out no chroot whose sources are not imported, and    *)
(* lets none be announced as built.                                        *)
THEOREM ImportedFirst == Spec => []BuiltFromImported
<1>1. Inv => BuiltFromImported
  BY DEF Inv, BuildsInv, RowInv, Imported, BuiltFromImported
<1> QED
  BY <1>1, InvHolds, PTL

(* The dispatcher finds a cancel request for every worker of a canceled    *)
(* build, for as long as the worker lives.                                 *)
THEOREM CancelTold == Spec => []CanceledIsTold
<1>1. Inv => CanceledIsTold
  BY DEF Inv, BuildsInv, ToldInv, CanceledIsTold, State
<1> QED
  BY <1>1, InvHolds, PTL

(* A step of a build keeps the verdicts on the chroots, once the sources   *)
(* are imported: nobody works on them any more, and update_state_from_dict *)
(* and build_task_canceled leave a final status alone.                     *)
LEMMA BuildStepKeepsVerdict ==
  ASSUME NEW b \in BuildIds, BuildsInv, BuildStep(b),
         NEW x \in BuildIds, NEW y \in Chroots,
         source[x] = "succeeded", status[x][y] \in TerminalStates
  PROVE  \/ status'[x][y] = status[x][y]
         \/ status[x][y] = "canceled" /\ status'[x][y] = "failed"
         \/ source'[x] = "deleted"
<1> DEFINE Stays == \/ status'[x][y] = status[x][y]
                    \/ status[x][y] = "canceled" /\ status'[x][y] = "failed"
                    \/ source'[x] = "deleted"
<1> SUFFICES Stays
  OBVIOUS
<1> USE BuildsAssumption
    DEF BuildsInv, RowStates, TodoStates, FinishedStates, TerminalStates, SourceStates
<1>1. worker[<<x, Src>>] = "none" /\ x \notin importing
  BY DEF SourceInv
<1>2. ASSUME NEW C \in SUBSET Usable, Submit(b, C) PROVE Stays
  BY <1>2, SomeRows DEF Submit
<1>3. ASSUME NEW C \in SUBSET Usable, SubmitImported(b, C) PROVE Stays
  BY <1>3, SomeRows DEF SubmitImported
<1>4. ASSUME MarkAsFailed(b) PROVE Stays
  BY <1>4, SomeRows DEF MarkAsFailed, Rows
<1>5. ASSUME DeleteBuild(b) PROVE Stays
  <2>1. source'[b] = "deleted" /\ (x # b => status'[x][y] = status[x][y])
    BY <1>5, OneSource, SomeRows DEF DeleteBuild
  <2> QED
    BY <2>1
<1>6. ASSUME NEW d \in Chroots \cup {Src},
             NEW s \in {"starting", "running", "failed", "succeeded"}, d = Src => s # "succeeded",
             worker[<<b, d>>] # "none", Update(b, d, s)
      PROVE  Stays
  <2>1. \/ status'[x][y] = status[x][y]
        \/ status[x][y] \notin TerminalStates
        \/ x = b /\ d = Src
    BY <1>6, Updated
  <2> QED
    BY <1>1, <1>6, <2>1
<1>7. ASSUME ReportSource(b) PROVE Stays
  <2>1. x # b
    BY <1>1, <1>7 DEF ReportSource, AtWork
  <2> QED
    BY <1>7, <2>1 DEF ReportSource, SourceSucceeds, BuildTypes
<1>8. ASSUME NEW d \in Chroots \cup {Src}, TaskCanceled(b, d) PROVE Stays
  BY <1>8, SomeRows DEF TaskCanceled
<1>9. ASSUME UploadCompleted(b) PROVE Stays
  BY <1>1, <1>9 DEF UploadCompleted, BuildTypes
<1>10. CASE UNCHANGED status
  BY <1>10
<1>11. ASSUME NEW d \in Chroots \cup {Src}, WorkerStep(b, d) PROVE Stays
  BY <1>6, <1>7, <1>10, <1>11
     DEF WorkerStep, Spawn, GetTask, StartingBuild, RefuseStart, MarkRunning, ReportFailure,
         ReportBuilt, AtWork, rowVars
<1> QED
  BY <1>2, <1>3, <1>4, <1>5, <1>8, <1>9, <1>10, <1>11
     DEF BuildStep, UserStep, ImportStep, Cancel, ImportStart, ImportLost, WorkerDies, rowVars

(* No late, repeated or contradicting update changes the result of a build *)
(* of imported sources, nor does an EOL or a late answer to a cancel.      *)
THEOREM VerdictKept == Spec => VerdictStays
<1>1. ASSUME Inv, [Next]_vars,
             NEW x \in BuildIds, NEW y \in Chroots,
             source[x] = "succeeded", status[x][y] \in TerminalStates
      PROVE  \/ status'[x][y] = status[x][y]
             \/ status[x][y] = "canceled" /\ status'[x][y] = "failed"
             \/ source'[x] = "deleted"
  <2>1. ASSUME NEW b \in BuildIds, Building(BuildStep(b)) PROVE BuildStep(b)
    BY <2>1 DEF Building
  <2>2. ASSUME NEW c \in Chroots, CancelByMock(c) PROVE status'[x][y] = status[x][y]
    BY <1>1, <2>2
       DEF CancelByMock, Unfinished, TerminalStates, FinishedStates, Inv, BuildsInv, BuildTypes
  <2>3. \/ \E b \in BuildIds : Building(BuildStep(b))
        \/ \E c \in Chroots : CancelByMock(c)
        \/ UNCHANGED status
    BY <1>1, CoprChrootsAssumption
       DEF Next, Activate, Deactivate, Eol, Unclick, Click, Extend, Expire, RollingPolicy,
           Notify, Fixup, Expires, GetsOld, DeleteOutdated, RemoveData, vars, buildVars, rowVars
  <2> QED
    BY <1>1, <2>1, <2>2, <2>3, BuildStepKeepsVerdict DEF Inv
<1>2. Inv /\ [Next]_vars =>
        \A b \in BuildIds, c \in Chroots :
          source[b] = "succeeded" /\ status[b][c] \in TerminalStates
            => \/ status'[b][c] = status[b][c]
               \/ status[b][c] = "canceled" /\ status'[b][c] = "failed"
               \/ source'[b] = "deleted"
  BY <1>1
<1> QED
  BY <1>2, InvHolds, PTL DEF Spec, VerdictStays

(* No data of a chroot are removed without a whole preservation period of  *)
(* disuse, and none unless it was unclicked or its owners were notified.   *)
THEOREM RemovalExpected == Spec => NoUnexpectedRemoval
<1>1. ASSUME Inv, [Next]_vars, NEW c \in Chroots, Removed(c)
      PROVE  /\ ~used[c]
             /\ deleted[c] \/ deleteNotify[c]
             /\ deleted[c] \/ ~active[c] \/ c \in Rolling
  <2>1. deleteAfter[c] = "past" /\ deleteAfter'[c] = "none" /\ deleted'[c]
    BY <1>1 DEF Removed
  <2>2. ~used[c] /\ (deleted[c] \/ ~active[c] \/ c \in Rolling)
    BY <1>1, <2>1 DEF Inv, PeriodInv
  <2>3. ASSUME NEW b \in BuildIds, Building(BuildStep(b)) PROVE FALSE
    <3>1. c \in NewRows /\ deleted[c]
      BY <2>1, <2>3 DEF Building, BuildSubmitted
    <3> QED
      BY <1>1, <2>3, <3>1, NewRowsUsable DEF Building, Inv, Usable
  <2>4. ASSUME NEW d \in Chroots,
               \/ Activate(d) \/ Deactivate(d) \/ Eol(d) \/ Unclick(d) \/ Click(d)
               \/ Extend(d) \/ Expire(d) \/ RollingPolicy(d) \/ Notify(d) \/ Fixup(d)
               \/ Expires(d) \/ GetsOld(d)
        PROVE FALSE
    BY <1>1, <2>1, <2>4
       DEF Activate, Deactivate, Eol, Unclick, Click, Extend, Expire, RollingPolicy, Notify,
           Fixup, Expires, GetsOld, Set, StartPeriod, StopPeriod, outdatedVars, Inv, ChrootTypes
  <2>5. DeleteOutdated
    BY <1>1, <2>1, <2>3, <2>4, CoprChrootsAssumption
       DEF Next, vars, chrootVars, outdatedVars
  <2>6. DeleteStatus(c) = "expired"
    BY <2>1, <2>5 DEF DeleteOutdated, RemoveData, ToBeDeleted
  <2>7. deleted[c] \/ deleteNotify[c]
    BY <2>1, <2>6 DEF DeleteStatus
  <2> QED
    BY <2>2, <2>7
<1>2. Inv /\ [Next]_vars =>
        \A c \in Chroots :
          Removed(c) => /\ ~used[c]
                        /\ deleted[c] \/ deleteNotify[c]
                        /\ deleted[c] \/ ~active[c] \/ c \in Rolling
  BY <1>1
<1> QED
  BY <1>2, InvHolds, PTL DEF Spec, NoUnexpectedRemoval

StaleNotification(c) ==
  active[c] /\ ~deleted[c] /\ deleteAfter[c] = "none" /\ deleteNotify[c]

(* delete_status raises "Undefined status, this shouldn't happen".  It can *)
(* happen, but in one way only: an active chroot that nobody preserves is  *)
(* still noted as one whose owners were notified.                          *)
THEOREM UndefinedIsStale ==
  Spec => [](\A c \in Chroots : DeleteStatus(c) = "undefined" => StaleNotification(c))
<1>1. Inv => \A c \in Chroots : DeleteStatus(c) = "undefined" => StaleNotification(c)
  <2> SUFFICES ASSUME Inv, NEW c \in Chroots, DeleteStatus(c) = "undefined"
               PROVE  StaleNotification(c)
    OBVIOUS
  <2>1. active[c] \in BOOLEAN /\ deleted[c] \in BOOLEAN /\ deleteNotify[c] \in BOOLEAN
    BY DEF Inv, ChrootTypes
  <2>2. deleteAfter[c] # "none" => deleted[c] \/ ~active[c] \/ c \in Rolling
    BY DEF Inv, PeriodInv
  <2> QED
    BY <2>1, <2>2 DEF DeleteStatus, StaleNotification
<1> QED
  BY <1>1, InvHolds, PTL

-------------------------------------------------------------------------------
(* Nobody waits for sources that do not come any more.                     *)
WaitsForSources ==
  \A b \in BuildIds, c \in Chroots :
    status[b][c] = "waiting" => source[b] \notin {"none", "succeeded", "deleted"}

(* An unfinished build is in one of the lists that the backend and         *)
(* dist-git poll.                                                          *)
SomebodyPolls ==
  \A b \in BuildIds :
    Exists(b) /\ ~Finished(b)
      => source[b] = "importing" \/ \E c \in Rows(b) \cup {Src} : HandedOut(b, c)

LEMMA BuildStepKeepsWaiting ==
  ASSUME NEW b \in BuildIds, BuildsInv, WaitsForSources, BuildStep(b)
  PROVE  WaitsForSources'
<1> USE BuildsAssumption
    DEF BuildsInv, WaitsForSources, RowStates, TodoStates, FinishedStates, TerminalStates,
        SourceStates
<1>1. ASSUME NEW C \in SUBSET Usable, Submit(b, C) \/ SubmitImported(b, C)
      PROVE  WaitsForSources'
  <2>1. \E s \in {"waiting", "pending"} :
          /\ SetRows(b, C, s) /\ source[b] = "none"
          /\ SetSource(b, IF s = "waiting" THEN "pending" ELSE "succeeded")
    BY <1>1 DEF Submit, SubmitImported
  <2> QED
    BY <2>1, OneSource, SomeRows
<1>2. ASSUME MarkAsFailed(b) PROVE WaitsForSources'
  <2>1. /\ SetRows(b, {c \in Rows(b) : status[b][c] # "succeeded"}, "failed")
        /\ SetSource(b, IF source[b] = "succeeded" THEN "succeeded" ELSE "failed")
    BY <1>2 DEF MarkAsFailed
  <2> QED
    BY <2>1, OneSource, SomeRows DEF Rows
<1>3. ASSUME DeleteBuild(b) PROVE WaitsForSources'
  BY <1>3, OneSource, SomeRows DEF DeleteBuild
<1>4. ASSUME NEW d \in Chroots \cup {Src},
             NEW s \in {"starting", "running", "failed", "succeeded"}, d = Src => s # "succeeded",
             Update(b, d, s)
      PROVE  WaitsForSources'
  BY <1>4, Updated
<1>5. ASSUME ReportSource(b) PROVE WaitsForSources'
  <2>1. CASE ~Exists(b)
    BY <1>5, <2>1 DEF ReportSource
  <2>2. CASE Exists(b)
    <3>1. PICK C : \E skip \in SUBSET C : SourceSucceeds(b, C, skip)
      BY <1>5, <2>2 DEF ReportSource
    <3>2. \A x \in BuildIds : IF x = b THEN source'[x] \in {"failed", "importing"}
                                       ELSE source'[x] = source[x]
      BY <3>1 DEF SourceSucceeds, SetSource, BuildTypes
    <3>3. \A x \in BuildIds, y \in Chroots : x # b => status'[x][y] = status[x][y]
      BY <3>1 DEF SourceSucceeds, BuildTypes
    <3> QED
      BY <3>2, <3>3
  <2> QED
    BY <2>1, <2>2
<1>6. ASSUME NEW d \in Chroots \cup {Src}, TaskCanceled(b, d) PROVE WaitsForSources'
  BY <1>6, OneSource, SomeRows DEF TaskCanceled
<1>7. ASSUME UploadCompleted(b) PROVE WaitsForSources'
  <2>1. \A x \in BuildIds, y \in Chroots :
          x # b => source'[x] = source[x] /\ status'[x][y] = status[x][y]
    BY <1>7 DEF UploadCompleted, SetSource, BuildTypes
  <2>2. ASSUME NEW y \in Chroots, Exists(b) PROVE status'[b][y] # "waiting"
    BY <1>7, <2>2 DEF UploadCompleted, AfterImport, Rows, BuildTypes
  <2>3. ~Exists(b) => UNCHANGED <<source, status>>
    BY <1>7 DEF UploadCompleted
  <2> QED
    BY <2>1, <2>2, <2>3
<1>8. CASE UNCHANGED <<source, status>>
  BY <1>8
<1>9. ASSUME NEW d \in Chroots \cup {Src}, WorkerStep(b, d) PROVE WaitsForSources'
  BY <1>4, <1>5, <1>8, <1>9
     DEF WorkerStep, Spawn, GetTask, StartingBuild, RefuseStart, MarkRunning, ReportFailure,
         ReportBuilt, rowVars
<1> QED
  BY <1>1, <1>2, <1>3, <1>6, <1>7, <1>8, <1>9
     DEF BuildStep, UserStep, ImportStep, Cancel, ImportStart, ImportLost, WorkerDies, rowVars

(* No build is forgotten: as long as it is not finished, its sources are   *)
(* in the import queue or one of its tasks is handed out to the backend,   *)
(* whatever was reported late, failed by hand or canceled meanwhile.  So   *)
(* a build hangs only when its workers do (BuildsEnd: an inactive chroot). *)
THEOREM NobodyForgotten == Spec => []SomebodyPolls
<1>1. Init => WaitsForSources
  BY DEF Init, BuildsInit, WaitsForSources
<1>2. ASSUME Inv, WaitsForSources, [Next]_vars PROVE WaitsForSources'
  <2>1. ASSUME NEW b \in BuildIds, Building(BuildStep(b)) PROVE WaitsForSources'
    BY <1>2, <2>1, BuildStepKeepsWaiting DEF Building, Inv
  <2>2. ASSUME NEW c \in Chroots, CancelByMock(c) PROVE WaitsForSources'
    BY <1>2, <2>2 DEF CancelByMock, Unfinished, WaitsForSources, Inv, BuildsInv, BuildTypes
  <2>3. CASE UNCHANGED <<source, status>>
    BY <1>2, <2>3 DEF WaitsForSources
  <2> QED
    BY <1>2, <2>1, <2>2, <2>3, CoprChrootsAssumption
       DEF Next, Activate, Deactivate, Eol, Unclick, Click, Extend, Expire, RollingPolicy,
           Notify, Fixup, Expires, GetsOld, DeleteOutdated, RemoveData, vars, buildVars, rowVars
<1>3. ASSUME Inv, WaitsForSources PROVE SomebodyPolls
  <2> SUFFICES ASSUME NEW b \in BuildIds, Exists(b), ~Finished(b), source[b] # "importing"
               PROVE  \E c \in Rows(b) \cup {Src} : HandedOut(b, c)
    BY DEF SomebodyPolls
  <2>1. ~canceled[b] /\ source[b] \in TodoStates \cup {"succeeded"}
    BY <1>3 DEF Inv, BuildsInv, BuildTypes, SourceStates, TerminalStates, Exists, Finished,
                FinishedEarly
  <2>2. CASE source[b] \in TodoStates
    BY <2>1, <2>2 DEF HandedOut, State
  <2>3. CASE source[b] = "succeeded"
    <3>1. PICK c \in Rows(b) : status[b][c] \notin FinishedStates
      BY <2>3 DEF Finished, FinishedStates
    <3>2. c \in Chroots /\ c # Src /\ status[b][c] \in TodoStates
      BY <1>3, <2>3, <3>1, BuildsAssumption
         DEF Rows, RowStates, WaitsForSources, Inv, BuildsInv, BuildTypes
    <3> QED
      BY <2>1, <3>1, <3>2 DEF HandedOut, State
  <2> QED
    BY <2>1, <2>2, <2>3
<1> QED
  BY <1>1, <1>2, <1>3, InvHolds, PTL DEF Spec
===============================================================================
