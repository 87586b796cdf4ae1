------------------------------- MODULE TaskPool -------------------------------
(***************************************************************************)
(* What a dispatcher promises to the frontend, without Redis, cleanup      *)
(* passes or queues: a submitted task waits, is run by a worker, has its   *)
(* result known to the backend, and is settled.  A worker may be lost, and *)
(* its task then waits again; a result that is known is never lost, a      *)
(* settled task is never touched again, and never more than MaxWorkers     *)
(* unsettled tasks are being run.                                          *)
(***************************************************************************)
EXTENDS Naturals, FiniteSets

CONSTANTS Tasks, MaxWorkers

VARIABLE state

States == {"new", "waiting", "running", "ended", "settled"}

In(s) == {t \in Tasks : state[t] = s}

Move(t, from, to) ==
  /\ state[t] \in from
  /\ state' = [state EXCEPT ![t] = to]

Submit(t) == Move(t, {"new"}, "waiting")

Start(t) ==
  /\ Cardinality(In("running")) < MaxWorkers
  /\ Move(t, {"waiting"}, "running")

Lose(t) == Move(t, {"running"}, "waiting")

End(t) == Move(t, {"running"}, "ended")

(* The result reaches the frontend, or the task is canceled there. *)
Settle(t) == Move(t, {"waiting", "running", "ended"}, "settled")

Init == state = [t \in Tasks |-> "new"]

Next == \E t \in Tasks : Submit(t) \/ Start(t) \/ Lose(t) \/ End(t) \/ Settle(t)

Spec == Init /\ [][Next]_state
===============================================================================
