---------------------------- MODULE MCAccountData ----------------------------
(* A small instance of AccountData for TLC. *)
EXTENDS AccountData, TLC

Symmetry == Permutations(Account) \union Permutations(Thread)

\* The files do not depend on each other: one file of one account is used in a
\* behaviour, and the metadata are got, by which the pages decide.
Used(k, a) ==
    \/ k # "meta" /\ cache[k][a] # None
    \/ saved[k][a] # {0}
    \/ \E t \in Thread : /\ thread[t] # NoCommand
                         /\ thread[t].kind = k /\ thread[t].of = a
                         /\ k = "meta" => thread[t].op # "get"
FewFiles == Cardinality({p \in Kind \X Account : Used(p[1], p[2])}) <= 1

\* Of the index, which has the most operations, one update is enough.
OneOfIndex == begun = MaxUpdates => \A a \in Account : ~Used("index", a)

\* The promises about updates and copies end with these irregularities.
Regular == overlap = {} /\ closed = {} /\ lost = {} /\ FewFiles /\ OneOfIndex
=============================================================================
