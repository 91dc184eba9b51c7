----------------------------- MODULE WriteBehind -----------------------------
(***************************************************************************)
(* What the coalescing file store of stores/storage.rs promises about one  *)
(* set of files, with no threads, timers or locks in it.  Saves of a file  *)
(* are numbered 1, 2, 3, ...  The store may skip a save, but it never      *)
(* writes a save after a newer one, and it never writes one twice.         *)
(***************************************************************************)
EXTENDS Naturals

CONSTANT Path      \* the files

VARIABLES newest,  \* newest[p]: number of the last save requested, 0 if none
          flushed, \* flushed[p]: number of the newest save ever written to p
          disk,    \* disk[p]: number of the save p holds, 0 when p is absent
          torn     \* files truncated by a write that has not finished

avars == <<newest, flushed, disk, torn>>

AInit ==
    /\ newest = [p \in Path |-> 0]
    /\ flushed = [p \in Path |-> 0]
    /\ disk = [p \in Path |-> 0]
    /\ torn = {}

\* A client hands the store the next contents of p.
Request(p) ==
    /\ newest' = [newest EXCEPT ![p] = @ + 1]
    /\ UNCHANGED <<flushed, disk, torn>>

\* A write of p starts: the old contents are gone, the new are not there yet.
Truncate(p) ==
    /\ torn' = torn \cup {p}
    /\ UNCHANGED <<newest, flushed, disk>>

\* A write of p ends with a save newer than all those written before.
Write(p) ==
    /\ \E v \in (flushed[p] + 1) .. newest[p] :
          /\ disk' = [disk EXCEPT ![p] = v]
          /\ flushed' = [flushed EXCEPT ![p] = v]
    /\ torn' = torn \ {p}
    /\ UNCHANGED newest

\* A client deletes the file.
Remove(p) ==
    /\ disk' = [disk EXCEPT ![p] = 0]
    /\ torn' = torn \ {p}
    /\ UNCHANGED <<newest, flushed>>

ANext == \E p \in Path : Request(p) \/ Truncate(p) \/ Write(p) \/ Remove(p)

ASpec == AInit /\ [][ANext]_avars
==============================================================================
