----------------------------- MODULE MCChatList -----------------------------
(* The configuration gives all constants their values. *)
EXTENDS ChatList
\* What the files have, if anything, is what changes and maybe more; the key of a
\* replay matters only if it can come again.
MCInit ==
    /\ ListInit
    /\ \A m \in Changing : (\E k \in Message : stored[k] # None) => stored[m] # None
    /\ lastKey # <<newest, "sent">>

Changed == {m \in Message : version[m] > 0 \/ m \in gone}
\* One draft at a time, while no page of newer messages is loaded; once a message
\* was edited or deleted, none of older ones either, and no draft that failed.  A
\* message is edited for the second time while no page is loaded.
Bounded ==
    /\ Cardinality(sending \union unsent) <= 1
    /\ sending \union unsent # {} => newer = None /\ (older = None \/ Changed = {})
    /\ unsent # {} => Changed = {}
    /\ (\E m \in Message : version[m] > 1) => older = None /\ newer = None
=============================================================================
