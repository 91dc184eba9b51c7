--------------------------- MODULE MCCoalescedStore ---------------------------
(* The configuration gives all constants their values; without symmetry,     *)
(* which would not be sound for the liveness property.                       *)
EXTENDS CoalescedStore
==============================================================================
