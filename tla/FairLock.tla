------------------------------- MODULE FairLock -------------------------------
(***************************************************************************)
(* What the lock promises for one path (the docstring of Lock.lock): the   *)
(* processes are served in the order they called, one at a time.           *)
(***************************************************************************)
EXTENDS Sequences, SequencesExt

CONSTANT Procs

VARIABLES
  line,     \* the live processes that called lock() and have not left, in order
  inside    \* the processes in the body of the with statement

vars == <<line, inside>>

Init == line = <<>> /\ inside = {}

Arrive(p) ==
  /\ ~Contains(line, p)
  /\ line' = Append(line, p)
  /\ UNCHANGED inside

Grab(p) ==
  /\ inside = {}
  /\ line # <<>> /\ p = Head(line)
  /\ inside' = {p}
  /\ UNCHANGED line

Release(p) ==
  /\ p \in inside
  /\ inside' = {}
  /\ UNCHANGED line

(* Done, or given up, or dead, possibly in the body. *)
Leave(p) ==
  /\ Contains(line, p)
  /\ line' = RemoveFirst(line, p)
  /\ inside' = inside \ {p}

Next == \E p \in Procs : Arrive(p) \/ Grab(p) \/ Release(p) \/ Leave(p)

Spec == Init /\ [][Next]_vars
===============================================================================
