--------------------------- MODULE MCMessageStore ---------------------------
(* Values for TLC: times below and from ten are two days. *)
EXTENDS MessageStore, TLC
TwoDays(m) == m \div 10
Symmetry == Permutations(Thread)
\* No day is excepted yet, and one file at a time is in the hands of its flush.
Calm == upset = {} /\ Cardinality({f \in File : flying[f] # None}) <= 1
=============================================================================
