---------------------------- MODULE MCMediaPool ----------------------------
(* Canvases, entries and loadings are interchangeable; addresses are not. *)
EXTENDS MediaPool, TLC
Symmetry == Permutations(Canvas) \union Permutations(Entry) \union Permutations(Source)
=============================================================================
