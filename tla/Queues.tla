--------------------------------- MODULE Queues ---------------------------------
(***************************************************************************)
(* SelectSeq for a queue and a set, as a recursive function that proofs    *)
(* can expand.                                                             *)
(***************************************************************************)
EXTENDS Naturals, Sequences

(* The elements of s that are in T, in their order. *)
Keep(s, T) ==
  LET kept[i \in 0 .. Len(s)] ==
        IF i = 0 THEN <<>>
        ELSE IF s[i] \in T THEN Append(kept[i - 1], s[i])
        ELSE kept[i - 1]
  IN  kept[Len(s)]
================================================================================
