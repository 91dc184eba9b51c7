--------------------------- MODULE MCE2EHandshake ---------------------------
(* The parties do the same, and so do the activities of each. *)
EXTENDS E2EHandshake, TLC
Symmetry == Permutations(Party) \union Permutations(Slot)
\* Agreement and KeysKept say nothing after a stale write.
NotStale == "stale" \notin upset
\* ConfirmedIsHeld and AgreesOnKeys do not look at what is irregular.
AllButUpset == <<clock, chat, made, stored, page, writes, request, closed, job,
                 offered, held>>
=============================================================================
