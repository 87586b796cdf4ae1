---------------------------- MODULE MCBuildWorker ----------------------------
(***************************************************************************)
(* Instances of BuildWorker for TLC: two hosts, two attempts, two tickets, *)
(* one of which may be lost.                                               *)
(***************************************************************************)
EXTENDS BuildWorker

CONSTANTS t1, t2, h1, h2
===============================================================================
