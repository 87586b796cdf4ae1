------------------------------ MODULE MCProjects ------------------------------
(***************************************************************************)
(* An instance of Projects for TLC: a name that is used twice, and the     *)
(* actions of both projects.                                               *)
(***************************************************************************)
EXTENDS Projects

CONSTANT r1
===============================================================================
