---------------------------- MODULE MCCallSession ----------------------------
(* A small instance of CallSession for TLC. *)
EXTENDS CallSession, TLC

Symmetry == Permutations(Flow) \union Permutations(Call)

\* Conferences, which differ from calls only in what the screen shows at first,
\* are checked by themselves: no incoming call, and no operations that overlap.
JoinsAlone ==
    \/ /\ \A s \in Session : session[s].role # "joiner"
       /\ \A f \in Flow : flow[f] # [at |-> "asking", role |-> "joiner"]
    \/ pushed = {} /\ "overlap" \notin upset
=============================================================================
