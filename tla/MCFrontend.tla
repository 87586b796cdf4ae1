------------------------------ MODULE MCFrontend ------------------------------
(***************************************************************************)
(* Instances of CoprChroots for TLC: one build, two chroots, one of which  *)
(* is rolling and changed in every way the frontend has.                   *)
(***************************************************************************)
EXTENDS CoprChroots

CONSTANTS b1, rawhide, f42
===============================================================================
