------------------------------- MODULE MCBatches -------------------------------
(***************************************************************************)
(* Instances of Batches for TLC: three builds, enough for a chain, for two *)
(* requests about the same build, and for a late member of a batch.        *)
(***************************************************************************)
EXTENDS Batches

CONSTANTS b1, b2, b3
===============================================================================
