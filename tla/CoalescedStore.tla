---------------------------- MODULE CoalescedStore ----------------------------
(***************************************************************************)
(* The write-behind file store of src-tauri/src/stores/storage.rs.         *)
(*                                                                         *)
(* A thread that saves a file puts the contents in the map PENDING_WRITES  *)
(* and then, under a second lock, puts the path in SCHEDULED_PATHS; the    *)
(* thread that finds the path absent there spawns the flush task of that   *)
(* path.  The task sleeps, takes the pending contents, writes them on a    *)
(* blocking thread and, unless more contents have arrived, removes the     *)
(* path from SCHEDULED_PATHS and ends.                                     *)
(*                                                                         *)
(* The contents of a file are abstracted to the number of the save that    *)
(* produced them.  Each lock region of the code is one action, and so is   *)
(* each half of fs::write, which truncates the file before it fills it.    *)
(***************************************************************************)
EXTENDS Naturals

CONSTANTS Path,     \* the files saved with save_coalesced
          Caller,   \* the threads that save
          MaxSaves, \* bound: saves of one file in a behaviour
          IOFaults  \* whether file operations may fail

ASSUME StoreAssumption == MaxSaves \in Nat /\ IOFaults \in BOOLEAN

VARIABLES pending,   \* PENDING_WRITES: pending[p] is a save, 0 when absent
          scheduled, \* SCHEDULED_PATHS
          caller,    \* where each thread is in save_coalesced
          task,      \* task[p][v]: the flush task spawned by the v-th save of p
          disk,      \* the save each file holds, 0 when the file is absent
          torn,      \* files that are truncated and not yet filled again
          newest,    \* history: number of saves of each file so far
          flushed,   \* history: newest save ever written to each file
          lost       \* history: files whose newest save will not be written

vars == <<pending, scheduled, caller, task, disk, torn, newest, flushed, lost>>

Save == 1 .. MaxSaves
Waiting == {"off", "sleeping", "checking"} \* phases of a task with empty hands
Holding == {"took", "opening", "filling"}   \* and of one with contents to write
TaskState == [pc : Waiting, item : {0}] \cup [pc : Holding, item : Save]
Idle == [pc |-> "idle"]
Off == [pc |-> "off", item |-> 0]

TypeOK ==
    /\ pending \in [Path -> 0 .. MaxSaves]
    /\ scheduled \subseteq Path
    /\ caller \in [Caller -> {Idle} \cup [pc : {"inserted"}, path : Path, ver : Save]]
    /\ task \in [Path -> [Save -> TaskState]]
    /\ disk \in [Path -> 0 .. MaxSaves]
    /\ torn \subseteq Path
    /\ newest \in [Path -> 0 .. MaxSaves]
    /\ flushed \in [Path -> 0 .. MaxSaves]
    /\ lost \subseteq Path

Init ==
    /\ pending = [p \in Path |-> 0]
    /\ scheduled = {}
    /\ caller = [c \in Caller |-> Idle]
    /\ task = [p \in Path |-> [v \in Save |-> Off]]
    /\ disk = [p \in Path |-> 0]
    /\ torn = {}
    /\ newest = [p \in Path |-> 0]
    /\ flushed = [p \in Path |-> 0]
    /\ lost = {}

-----------------------------------------------------------------------------
(* save_coalesced, the caller's side *)

\* Mutant of Insert: contents already pending are kept (entry().or_insert()).
InsertKeepsFirst(c, p) ==
    /\ caller[c] = Idle
    /\ newest[p] < MaxSaves
    /\ newest' = [newest EXCEPT ![p] = @ + 1]
    /\ pending' = [pending EXCEPT ![p] = IF @ = 0 THEN newest[p] + 1 ELSE @]
    /\ caller' = [caller EXCEPT ![c] =
                    [pc |-> "inserted", path |-> p, ver |-> newest[p] + 1]]
    /\ lost' = lost \ {p}
    /\ UNCHANGED <<scheduled, task, disk, torn, flushed>>

\* The first lock region: the contents replace whatever was pending.
Insert(c, p) ==
    /\ caller[c] = Idle
    /\ newest[p] < MaxSaves
    /\ newest' = [newest EXCEPT ![p] = @ + 1]
    /\ pending' = [pending EXCEPT ![p] = newest[p] + 1]
    /\ caller' = [caller EXCEPT ![c] =
                    [pc |-> "inserted", path |-> p, ver |-> newest[p] + 1]]
    /\ lost' = lost \ {p}
    /\ UNCHANGED <<scheduled, task, disk, torn, flushed>>

\* Mutant of Schedule: every save spawns a flush task.
ScheduleAlways(c) ==
    /\ caller[c] # Idle
    /\ LET p == caller[c].path  v == caller[c].ver IN
         /\ scheduled' = scheduled \cup {p}
         /\ task' = [task EXCEPT ![p][v] = [pc |-> "sleeping", item |-> 0]]
    /\ caller' = [caller EXCEPT ![c] = Idle]
    /\ UNCHANGED <<pending, disk, torn, newest, flushed, lost>>

\* The second lock region: spawn a flush task when the path is not scheduled.
Schedule(c) ==
    /\ caller[c] # Idle
    /\ LET p == caller[c].path  v == caller[c].ver IN
         /\ scheduled' = scheduled \cup {p}
         /\ task' = IF p \in scheduled
                      THEN task
                      ELSE [task EXCEPT ![p][v] = [pc |-> "sleeping", item |-> 0]]
    /\ caller' = [caller EXCEPT ![c] = Idle]
    /\ UNCHANGED <<pending, disk, torn, newest, flushed, lost>>

-----------------------------------------------------------------------------
(* The flush task of file p spawned by save v *)

Take(p, v) ==
    /\ task[p][v].pc = "sleeping"
    /\ task' = [task EXCEPT ![p][v] =
                  [pc |-> IF pending[p] = 0 THEN "checking" ELSE "took",
                   item |-> pending[p]]]
    /\ pending' = [pending EXCEPT ![p] = 0]
    /\ UNCHANGED <<scheduled, caller, disk, torn, newest, flushed, lost>>

\* save_direct begins by dropping what is pending for the path it writes:
\* contents saved since Take are discarded here.
DropPending(p, v) ==
    /\ task[p][v].pc = "took"
    /\ task' = [task EXCEPT ![p][v] = [pc |-> "opening", item |-> @.item]]
    /\ pending' = [pending EXCEPT ![p] = 0]
    /\ lost' = IF pending[p] = 0 THEN lost ELSE lost \cup {p}
    /\ UNCHANGED <<scheduled, caller, disk, torn, newest, flushed>>

\* create_dir_all, encode, encrypt, and the truncating open of fs::write.
Open(p, v) ==
    /\ task[p][v].pc = "opening"
    /\ task' = [task EXCEPT ![p][v] = [pc |-> "filling", item |-> @.item]]
    /\ torn' = torn \cup {p}
    /\ UNCHANGED <<pending, scheduled, caller, disk, newest, flushed, lost>>

\* fs::write puts the new contents in the file.
Fill(p, v) ==
    /\ task[p][v].pc = "filling"
    /\ disk' = [disk EXCEPT ![p] = task[p][v].item]
    /\ flushed' = [flushed EXCEPT ![p] = task[p][v].item]
    /\ torn' = torn \ {p}
    /\ task' = [task EXCEPT ![p][v] = [pc |-> "checking", item |-> 0]]
    /\ UNCHANGED <<pending, scheduled, caller, newest, lost>>

\* The result of save_direct is discarded: an error in it loses the contents,
\* and leaves the file truncated when it comes after the open.
FailWrite(p, v) ==
    /\ IOFaults
    /\ task[p][v].pc \in {"opening", "filling"}
    /\ lost' = IF task[p][v].item = newest[p] THEN lost \cup {p} ELSE lost
    /\ task' = [task EXCEPT ![p][v] = [pc |-> "checking", item |-> 0]]
    /\ UNCHANGED <<pending, scheduled, caller, disk, torn, newest, flushed>>

\* Mutant of Finish: the task ends without looking at PENDING_WRITES again.
FinishBlindly(p, v) ==
    /\ task[p][v].pc = "checking"
    /\ task' = [task EXCEPT ![p][v] = Off]
    /\ scheduled' = scheduled \ {p}
    /\ UNCHANGED <<pending, caller, disk, torn, newest, flushed, lost>>

\* Mutant of Finish: the task ends and leaves its path scheduled.
FinishScheduled(p, v) ==
    /\ task[p][v].pc = "checking"
    /\ task' = [task EXCEPT ![p][v] =
                  IF pending[p] # 0 THEN [pc |-> "sleeping", item |-> 0] ELSE Off]
    /\ UNCHANGED <<pending, scheduled, caller, disk, torn, newest, flushed, lost>>

\* Both locks are held: go round again if contents arrived, else end.
Finish(p, v) ==
    /\ task[p][v].pc = "checking"
    /\ IF pending[p] # 0
         THEN /\ task' = [task EXCEPT ![p][v] = [pc |-> "sleeping", item |-> 0]]
              /\ UNCHANGED scheduled
         ELSE /\ task' = [task EXCEPT ![p][v] = Off]
              /\ scheduled' = scheduled \ {p}
    /\ UNCHANGED <<pending, caller, disk, torn, newest, flushed, lost>>

-----------------------------------------------------------------------------
(* The environment *)

\* Clear chat history deletes the files and leaves PENDING_WRITES alone; a
\* write already past its open goes on into the deleted file.
Clear(p) ==
    /\ disk' = [disk EXCEPT ![p] = 0]
    /\ torn' = torn \ {p}
    /\ task' = [task EXCEPT ![p] = [v \in Save |->
                  IF @[v].pc = "filling" THEN [pc |-> "checking", item |-> 0]
                                         ELSE @[v]]]
    /\ lost' = IF pending[p] = 0
                    /\ \A v \in Save : task[p][v].pc \notin {"took", "opening"}
                 THEN lost \cup {p} ELSE lost
    /\ UNCHANGED <<pending, scheduled, caller, newest, flushed>>

\* The process dies, memory is lost, and it starts again.
Crash ==
    /\ pending' = [p \in Path |-> 0]
    /\ scheduled' = {}
    /\ caller' = [c \in Caller |-> Idle]
    /\ task' = [p \in Path |-> [v \in Save |-> Off]]
    /\ lost' = lost \cup {p \in Path : flushed[p] < newest[p]}
    /\ UNCHANGED <<disk, torn, newest, flushed>>

-----------------------------------------------------------------------------

Step(p, v) ==
    \/ Take(p, v)
    \/ DropPending(p, v)
    \/ Open(p, v)
    \/ Fill(p, v)
    \/ FailWrite(p, v)
    \/ Finish(p, v)

Next ==
    \/ \E c \in Caller, p \in Path : Insert(c, p)
    \/ \E c \in Caller : Schedule(c)
    \/ \E p \in Path, v \in Save : Step(p, v)
    \/ \E p \in Path : Clear(p)
    \/ Crash

Spec == Init /\ [][Next]_vars

\* A thread inside save_coalesced runs on, and the runtime runs its tasks.
Fairness ==
    /\ \A c \in Caller : WF_vars(Schedule(c))
    /\ \A p \in Path, v \in Save : WF_vars(Step(p, v))

FairSpec == Spec /\ Fairness
-----------------------------------------------------------------------------
(* Properties *)

\* Mutant of Load: the file is read before the pending contents.
LoadFileFirst(p) == IF disk[p] # 0 /\ p \notin torn THEN disk[p] ELSE pending[p]

\* What load returns: pending contents first, then the file; a truncated file
\* does not decode and reads as an absent one.
Load(p) == IF pending[p] # 0 THEN pending[p]
           ELSE IF p \in torn THEN 0 ELSE disk[p]

Active(p) == {v \in Save : task[p][v].pc # "off"}
Writing(p) == {v \in Save : task[p][v].pc \in Holding}
Saving(p) == {c \in Caller : caller[c] # Idle /\ caller[c].path = p}

\* A file has at most one flush task, whatever threads save it and however
\* their two lock regions interleave with the end of the previous task: two
\* tasks would write the same file from two blocking threads.
OneFlushTask ==
    \A p \in Path : \A v, w \in Active(p) : v = w

\* Contents in PENDING_WRITES are never stranded: a flush task of the path
\* is alive, or a thread is about to spawn one.
NoStrandedSave ==
    \A p \in Path : pending[p] # 0 => Active(p) # {} \/ Saving(p) # {}

\* Unless a flush task is in the middle of a write, or the last save was hit
\* by a fault, a clear or the drop in save_direct, load returns that save.
ReaderSeesNewest ==
    \A p \in Path : p \notin lost /\ Writing(p) = {} => Load(p) = newest[p]

\* A file whose path is not scheduled and which no thread is saving holds the
\* last save of it, if that save was not lost: nothing is owed to the disk.
QuietMeansDurable ==
    \A p \in Path :
        p \notin scheduled /\ Saving(p) = {} /\ p \notin lost
            => disk[p] = newest[p] /\ p \notin torn

\* The store writes saves of a file in the order they were made, skipping
\* some and repeating none: it implements WriteBehind.
WB == INSTANCE WriteBehind WITH
        Path <- Path, newest <- newest, flushed <- flushed,
        disk <- disk, torn <- torn
ImplementsWriteBehind == WB!ASpec

(* The inductive invariant behind these properties. *)

\* SCHEDULED_PATHS holds exactly the paths that have a flush task.
ScheduledHasTask == \A p \in Path : p \in scheduled <=> Active(p) # {}

\* Pending contents are those of the last save and newer than all that was
\* taken or written before; contents in flight are newer than all written.
InOrder ==
    \A p \in Path :
        /\ disk[p] <= flushed[p] /\ flushed[p] <= newest[p]
        /\ pending[p] # 0 => pending[p] = newest[p] /\ flushed[p] < newest[p]
        /\ \A v \in Writing(p) :
              /\ flushed[p] < task[p][v].item /\ task[p][v].item <= newest[p]
              /\ pending[p] # 0 => task[p][v].item < newest[p]

\* A save that is not lost is pending, in flight, or on disk.
Accounted ==
    \A p \in Path :
        \/ p \in lost
        \/ pending[p] = newest[p] /\ newest[p] # 0
        \/ \E v \in Writing(p) : task[p][v].item = newest[p]
        \/ disk[p] = newest[p] /\ p \notin torn

StoreInv ==
    /\ TypeOK
    /\ ScheduledHasTask
    /\ OneFlushTask
    /\ NoStrandedSave
    /\ InOrder
    /\ Accounted

\* Every save is written, overtaken by a newer one, or lost to one of the
\* causes above: it does not stay in memory for ever.
EverySaveSettles ==
    \A p \in Path, v \in Save :
        newest[p] = v ~> flushed[p] >= v \/ newest[p] > v \/ p \in lost
==============================================================================
