---------------------------- MODULE KeyAgreement ----------------------------
(***************************************************************************)
(* What the key agreement of an encrypted chat promises, whatever happens  *)
(* to its messages.  A secret combines one key of each party.  The key of  *)
(* an answer serves for one secret and is sent when its owner holds that   *)
(* secret; the key of an offer is combined only with keys sent as answers. *)
(***************************************************************************)
CONSTANTS Party, Key, Owner(_)

VARIABLES
    offered,   \* offered[p]: the keys p made for offers
    answered,  \* the keys sent as answers
    held       \* held[p]: the secrets that p has had

vars == <<offered, answered, held>>

Init ==
    /\ offered = [p \in Party |-> {}]
    /\ answered = {}
    /\ held = [p \in Party |-> {}]

Used(key) == \E p \in Party : \E secret \in held[p] : key \in secret

Offer(p, key) ==
    /\ Owner(key) = p
    /\ key \notin answered
    /\ ~Used(key)
    /\ offered' = [offered EXCEPT ![p] = @ \union {key}]
    /\ UNCHANGED <<answered, held>>

Hold(p, mine, theirs) ==
    /\ Owner(mine) = p
    /\ Owner(theirs) # p
    /\ held' = [held EXCEPT ![p] = @ \union {{mine, theirs}}]
    /\ UNCHANGED <<offered, answered>>

\* p answers an offer with a key of its own for this purpose.
Answer(p, mine, theirs) ==
    /\ mine \notin offered[p]
    /\ ~Used(mine)
    /\ theirs \in offered[Owner(theirs)]
    /\ Hold(p, mine, theirs)

Reply(key) ==
    /\ \E secret \in held[Owner(key)] : key \in secret
    /\ key \notin offered[Owner(key)]
    /\ answered' = answered \union {key}
    /\ UNCHANGED <<offered, held>>

Confirm(p, mine, theirs) ==
    /\ mine \in offered[p]
    /\ theirs \in answered
    /\ Hold(p, mine, theirs)

Next ==
    \/ \E p \in Party, key \in Key : Offer(p, key)
    \/ \E key \in Key : Reply(key)
    \/ \E p \in Party, mine, theirs \in Key :
        Answer(p, mine, theirs) \/ Confirm(p, mine, theirs)

Spec == Init /\ [][Next]_vars
=============================================================================
