----------------------------- MODULE MCContacts -----------------------------
(* Contacts whose contents are not followed are interchangeable, and batches. *)
EXTENDS Contacts, TLC
Symmetry == Permutations(Contact \ Followed) \union Permutations(Sender)
Syncs == {r \in Sender : request[r] # Idle /\ request[r].of = "sync"}
\* One sync at a time, answered with contacts that are followed, when the list is
\* not being read; who is not followed is not on disk.
Bounded ==
    /\ Cardinality(Syncs) <= 1
    /\ \A r \in Syncs :
        list.at = "idle" /\ (request[r].at = "synced" => request[r].ids \subseteq Followed)
    /\ \A c \in Contact \ Followed : disk[c] = 0
=============================================================================
