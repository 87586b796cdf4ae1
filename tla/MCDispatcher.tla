----------------------------- MODULE MCDispatcher -----------------------------
(***************************************************************************)
(* Instances of Dispatcher for TLC.                                        *)
(***************************************************************************)
EXTENDS Dispatcher, TLC

CONSTANTS t1, t2

(* One owner for all the tasks. *)
OneGroup == [t \in Tasks |-> "owner"]

(* Every task has an owner of its own. *)
OwnGroups == [t \in Tasks |-> t]

Symmetry == Permutations(Procs) \cup Permutations(Tasks)
===============================================================================
