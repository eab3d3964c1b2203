--------------------------- MODULE MCAddOnReleases ---------------------------
(***************************************************************************)
(* Three add-ons: 2 goes first by its priority, then 1 and 3 by their      *)
(* names.  2 is optional, and the chart of 3 lies in the repository.       *)
(***************************************************************************)
EXTENDS AddOnReleases
MCPriority == [a \in AddOns |-> IF a = 2 THEN 5 ELSE 0]
=============================================================================
