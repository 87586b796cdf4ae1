----------------------------- MODULE MCCreaterepo -----------------------------
(***************************************************************************)
(* Instances of Createrepo for TLC: a build to add, two to delete, a full  *)
(* run and an addition without appstream metadata.                         *)
(***************************************************************************)
EXTENDS Createrepo

CONSTANTS p1, p2, p3, adding, deleting, fullRun, otherAttr, b1, b2, b3

AddOf    == [r \in Requests |->
               IF r = adding THEN {b1} ELSE IF r = otherAttr THEN {b3} ELSE {}]
DeleteOf == [r \in Requests |-> IF r = deleting THEN {b1, b2} ELSE {}]
NoStat   == [r \in Requests |-> FALSE]
FullStat == [r \in Requests |-> r = fullRun]
AttrOf   == [r \in Requests |-> IF r = otherAttr THEN "no-appstream" ELSE "appstream"]
===============================================================================
