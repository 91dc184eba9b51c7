------------------------ MODULE MCAccountEncryption ------------------------
(* A small instance of AccountEncryption for TLC.  The liveness property does *)
(* not allow symmetry.                                                         *)
EXTENDS AccountEncryption
=============================================================================
