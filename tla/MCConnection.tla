----------------------------- MODULE MCConnection -----------------------------
(* The configurations give all constants their values; without symmetry,      *)
(* which would not be sound for the liveness properties.                      *)
EXTENDS Connection
===============================================================================
