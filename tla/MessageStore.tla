---------------------------- MODULE MessageStore ----------------------------
(***************************************************************************)
(* The messages of a chat on disk (stores/messages.rs): for each day a     *)
(* sequence of chunk files of at most 100 messages.  Commands run on       *)
(* blocking threads; each lists the directory, loads files one by one and  *)
(* saves the ones that it changes, with no lock over the whole.  A save is *)
(* in PENDING_WRITES at once and in the directory only after its flush     *)
(* (CoalescedStore): here a file is pending, in flight, or on disk.  The   *)
(* flush drops what is saved between its taking the contents and its write *)
(* of them, and its errors are ignored.                                    *)
(*                                                                         *)
(* A message is named by its time.  Of what it says only whether it is     *)
(* marked deleted is kept.  Messages that are being sent are dropped       *)
(* wherever they are met and never get here.                               *)
(***************************************************************************)
EXTENDS Integers, FiniteSets, FiniteSetsExt, Sequences, SequencesExt, Functions

CONSTANTS
    Message,      \* the times of messages: numbers
    DayOf(_),     \* the day of a time
    Limit,        \* MAX_CHUNK_MESSAGES
    MaxIndex,     \* bound: the last chunk of a day
    Thread,       \* commands under way
    Amount,       \* how many messages a page asks for
    MaxWrites,    \* bound: commands that write
    None

ASSUME Assumptions ==
    /\ Message \subseteq Nat /\ IsFiniteSet(Message)
    /\ \A m \in Message : DayOf(m) \in Nat
    /\ \A m, n \in Message : m <= n => DayOf(m) <= DayOf(n)
    /\ MaxIndex \in Nat
    /\ Limit \in Nat \ {0}
    /\ {Amount, MaxWrites} \subseteq Nat \ {0}
    /\ None \notin Message

Day == {DayOf(m) : m \in Message}
File == Day \X (0..MaxIndex)
\* The names 1_<day>_<index> sort like this.
Before(f, g) == f[1] < g[1] \/ (f[1] = g[1] /\ f[2] < g[2])
Earliest(files) == CHOOSE f \in files : \A g \in files \ {f} : Before(f, g)
Latest(files) == CHOOSE f \in files : \A g \in files \ {f} : Before(g, f)

\* What a file can hold: messages, each with whether it is marked deleted.
Content == UNION {[S -> BOOLEAN] : S \in SUBSET Message}
ASSUME NoneIsNoContent == None \notin Content
Nothing == [m \in {} |-> FALSE]
Without(c, m) == Restrict(c, DOMAIN c \ {m})
\* merge_single_message: the mark stays, whatever comes in.
Merged(old, new) ==
    [m \in DOMAIN old \union DOMAIN new |->
        (m \in DOMAIN old /\ old[m]) \/ (m \in DOMAIN new /\ new[m])]
\* The n oldest of c
Oldest(c, n) ==
    Restrict(c, {m \in DOMAIN c : Cardinality({x \in DOMAIN c : x < m}) < n})

VARIABLES
    disk,     \* disk[f]: the file, None: there is none
    flying,   \* flying[f]: what the flush task has taken to write, or None
    step,     \* step[f]: how far that task is
    pending,  \* pending[f]: PENDING_WRITES, or None
    thread,   \* thread[t]: a command
    begun,    \* how many commands that write have begun
    \* History variables, which no action looks at:
    stored,   \* what the finished commands should have left
    upset     \* days of which commands overlapped or looked past each other,
              \* or of which a flush dropped or failed to write a save

vars == <<disk, flying, step, pending, thread, begun, stored, upset>>
files == <<disk, flying, step, pending>>

Idle == [at |-> "idle"]

TypeOK ==
    /\ disk \in [File -> Content \union {None}]
    /\ flying \in [File -> Content \union {None}]
    /\ step \in [File -> {"taken", "writing", "open"}]
    /\ pending \in [File -> Content \union {None}]
    /\ \A t \in Thread :
        LET j == thread[t] IN
        \/ j = Idle
        \/ /\ j.op = "load" /\ j.at \in {"scan", "answered"}
           /\ j.files \subseteq File
           /\ Len(j.result) <= Amount
        \/ /\ j.op \in {"update", "mark", "remove"}
           /\ j.at \in {"scan", "save", "append", "fill", "chunk"}
           /\ j.files \union j.own \subseteq File
           /\ j.file \in Day \X (0..MaxIndex + 1)
           /\ {j.asked, j.todo, j.left, j.data} \subseteq Content
    /\ begun \in 0..MaxWrites
    /\ stored \in Content
    /\ upset \subseteq Day

Init ==
    /\ disk = [f \in File |-> None]
    /\ flying = disk
    /\ step = [f \in File |-> "taken"]
    /\ pending = disk
    /\ thread = [t \in Thread |-> Idle]
    /\ begun = 0
    /\ stored = Nothing
    /\ upset = {}

-----------------------------------------------------------------------------
(* The files *)

Listed == {f \in File : disk[f] # None}
InMemory(f) == pending[f] # None \/ flying[f] # None

\* What a load of f finds: what is pending, else what is in the file, and
\* what is not there or cannot be decoded counts as empty.
Loaded(f) ==
    IF pending[f] # None THEN pending[f]
    ELSE IF disk[f] # None THEN disk[f] ELSE Nothing

Pend(f, c) == pending' = [pending EXCEPT ![f] = c]

\* The flush task takes what is pending.
FlushTakes(f) ==
    /\ pending[f] # None /\ flying[f] = None
    /\ flying' = [flying EXCEPT ![f] = pending[f]]
    /\ Pend(f, None)
    /\ UNCHANGED <<disk, step, thread, begun, stored, upset>>

\* save_direct begins by dropping what is pending for its path: what was
\* saved since the task took the contents is lost.
FlushDrops(f) ==
    /\ flying[f] # None /\ step[f] = "taken"
    /\ step' = [step EXCEPT ![f] = "writing"]
    /\ Pend(f, None)
    /\ upset' = IF pending[f] # None THEN upset \union {f[1]} ELSE upset
    /\ UNCHANGED <<disk, flying, thread, begun, stored>>

\* fs::write truncates the file, or makes an empty one,
FlushOpens(f) ==
    /\ flying[f] # None /\ step[f] = "writing"
    /\ step' = [step EXCEPT ![f] = "open"]
    /\ disk' = [disk EXCEPT ![f] = Nothing]
    /\ UNCHANGED <<flying, pending, thread, begun, stored, upset>>

\* and fills it.
FlushEnds(f) ==
    /\ flying[f] # None /\ step[f] = "open"
    /\ disk' = [disk EXCEPT ![f] = flying[f]]
    /\ flying' = [flying EXCEPT ![f] = None]
    /\ step' = [step EXCEPT ![f] = "taken"]
    /\ UNCHANGED <<pending, thread, begun, stored, upset>>

\* An error of save_direct is ignored: unless something newer is pending
\* already, the contents are lost.
FlushFails(f) ==
    /\ flying[f] # None /\ step[f] # "taken"
    /\ flying' = [flying EXCEPT ![f] = None]
    /\ step' = [step EXCEPT ![f] = "taken"]
    /\ upset' = IF pending[f] = None THEN upset \union {f[1]} ELSE upset
    /\ UNCHANGED <<disk, pending, thread, begun, stored>>

-----------------------------------------------------------------------------
(* Commands *)

Writes(j) == j # Idle /\ j.op # "load"
DayIn(j) == DayOf(CHOOSE m \in DOMAIN j.asked : TRUE)
Busy(d) == \E t \in Thread : Writes(thread[t]) /\ DayIn(thread[t]) = d

Set(t, j) == thread' = [thread EXCEPT ![t] = j]

\* A command that writes begins: it lists the directory.  Readers that are
\* under way may see half of it.
Begin(t, op, asked, own) ==
    LET d == DayOf(CHOOSE m \in DOMAIN asked : TRUE) IN
    /\ thread[t] = Idle
    /\ begun < MaxWrites
    /\ begun' = begun + 1
    /\ thread' =
        [u \in Thread |->
            IF u = t
            THEN [at |-> "scan", op |-> op, asked |-> asked, todo |-> asked,
                  own |-> own, files |-> own, others |-> FALSE,
                  file |-> <<d, 0>>, data |-> Nothing, left |-> Nothing]
            ELSE IF thread[u] # Idle /\ thread[u].op = "load"
            THEN [thread[u] EXCEPT !.calm = FALSE]
            ELSE thread[u]]
    /\ upset' = IF \/ Busy(d)
                   \/ \E f \in File : f[1] = d /\ disk[f] = None /\ InMemory(f)
                THEN upset \union {d} ELSE upset
    /\ UNCHANGED <<files, stored>>

\* update_messages, for the messages of one day
Update(t) ==
    \E d \in Day :
        \E S \in (SUBSET {m \in Message : DayOf(m) = d}) \ {{}} :
            \E new \in [S -> BOOLEAN] :
                Begin(t, "update", new, {f \in Listed : f[1] = d})

\* mark_message_deleted, remove_message_from_storage
Modify(t) ==
    \E op \in {"mark", "remove"}, m \in Message :
        Begin(t, op, [x \in {m} |-> TRUE], Listed)

\* A command looks for the first message of those it is about.
Sought(j) == CHOOSE m \in DOMAIN j.todo : \A x \in DOMAIN j.todo : m <= x

\* The command has dealt with that message; `left' are not in any file.
Dealt(j, left) ==
    LET todo == Without(j.todo, Sought(j)) IN
    IF todo # Nothing
    THEN [j EXCEPT !.todo = todo, !.files = j.own, !.others = FALSE,
                   !.left = left, !.at = "scan"]
    ELSE [j EXCEPT !.todo = todo, !.left = left, !.at = "append"]

\* What the command that is done should have left
Outcome(j) ==
    CASE j.op = "update" -> Merged(stored, j.asked)
      [] j.op = "mark" -> Merged(stored, Restrict(j.asked, DOMAIN stored \intersect DOMAIN j.asked))
      [] j.op = "remove" -> Without(stored, Sought([todo |-> j.asked]))

Done(t) ==
    /\ Set(t, Idle)
    /\ stored' = Outcome(thread[t])

\* A load of f by a command of day d in the middle of a write of f
Torn(f, d) == f[1] = d /\ pending[f] = None /\ flying[f] # None

\* The next file is loaded: the latest of the day first, or, when messages of
\* another day are searched, the earliest.
Scan(t) ==
    LET j == thread[t]
        f == IF j.others THEN Earliest(j.files) ELSE Latest(j.files)
        m == Sought(j)
    IN
    /\ Writes(j) /\ j.at = "scan" /\ j.files # {}
    /\ Set(t, IF m \in DOMAIN Loaded(f)
              THEN [j EXCEPT !.at = "save", !.file = f, !.data = Loaded(f)]
              ELSE [j EXCEPT !.files = @ \ {f}])
    /\ upset' = IF Torn(f, DayIn(j)) THEN upset \union {DayIn(j)} ELSE upset
    /\ UNCHANGED <<files, begun, stored>>

\* What was found, changed
Changed(j) ==
    IF j.op = "remove" THEN Without(j.data, Sought(j))
    ELSE Merged(j.data, Restrict(j.asked, {Sought(j)}))

\* The message was found: the file is saved with the change.
Save(t) ==
    LET j == thread[t] IN
    /\ Writes(j) /\ j.at = "save"
    /\ Pend(j.file, Changed(j))
    /\ IF j.op = "update" THEN Set(t, Dealt(j, j.left)) /\ UNCHANGED stored
       ELSE Done(t)
    /\ UNCHANGED <<disk, flying, step, begun, upset>>

\* It was in none of the files: an update looks into those of other days.
Missing(t) ==
    LET j == thread[t] IN
    /\ Writes(j) /\ j.at = "scan" /\ j.files = {}
    /\ CASE j.op # "update" -> Done(t)
         [] j.op = "update" /\ ~j.others /\ Listed \ j.own # {} ->
                /\ Set(t, [j EXCEPT !.others = TRUE, !.files = Listed \ j.own])
                /\ UNCHANGED stored
         [] OTHER ->
                /\ Set(t, Dealt(j, Merged(j.left, Restrict(j.asked, {Sought(j)}))))
                /\ UNCHANGED stored
    /\ UNCHANGED <<files, begun, upset>>

\* Mutant of Room: one more than there is.
RoomForOneMore(c) == Limit + 1 - Cardinality(DOMAIN c)

Room(c) == Limit - Cardinality(DOMAIN c)

\* Mutant of NextName: the chunk keeps the number of the last.
SameName(f) == f

NextName(f) == <<f[1], f[2] + 1>>

\* The messages that are new go to the last chunk of the day, if that has
\* room, and the rest to new chunks.
LookForRoom(t) ==
    LET j == thread[t]  last == Latest(j.own) IN
    /\ Writes(j) /\ j.at = "append"
    /\ IF j.left = Nothing THEN Done(t) /\ UNCHANGED upset
       ELSE IF j.own = {}
       THEN /\ Set(t, [j EXCEPT !.at = "chunk"])
            /\ UNCHANGED <<stored, upset>>
       ELSE /\ Set(t, IF Room(Loaded(last)) > 0
                      THEN [j EXCEPT !.at = "fill", !.file = last, !.data = Loaded(last)]
                      ELSE [j EXCEPT !.at = "chunk", !.file = NextName(last)])
            /\ upset' = IF Torn(last, DayIn(j))
                        THEN upset \union {DayIn(j)} ELSE upset
            /\ UNCHANGED stored
    /\ UNCHANGED <<files, begun>>

\* What is left once `some' are placed
Placed(t, some) ==
    LET j == thread[t]
        left == Restrict(j.left, DOMAIN j.left \ DOMAIN some)
    IN
    IF left = Nothing THEN Done(t)
    ELSE /\ Set(t, [j EXCEPT !.at = "chunk", !.left = left,
                             !.file = NextName(j.file)])
         /\ UNCHANGED stored

Fill(t) ==
    LET j == thread[t]
        some == Oldest(j.left, Room(j.data))
    IN
    /\ Writes(j) /\ j.at = "fill"
    /\ Pend(j.file, Merged(j.data, some))
    /\ Placed(t, some)
    /\ UNCHANGED <<disk, flying, step, begun, upset>>

NewChunk(t) ==
    LET j == thread[t]  some == Oldest(j.left, Limit) IN
    /\ Writes(j) /\ j.at = "chunk"
    /\ j.file[2] <= MaxIndex
    /\ Pend(j.file, some)
    /\ Placed(t, some)
    /\ UNCHANGED <<disk, flying, step, begun, upset>>

-----------------------------------------------------------------------------
(* load_messages: the last messages before a time *)

BeginLoad(t, time) ==
    /\ thread[t] = Idle
    /\ Set(t, [at |-> IF Listed = {} THEN "answered" ELSE "scan", op |-> "load",
               time |-> time, files |-> Listed, result |-> <<>>,
               calm |-> ~(\E d \in Day : Busy(d)) /\ \A f \in File :
                            disk[f] = None => ~InMemory(f)])
    /\ UNCHANGED <<files, begun, stored, upset>>

\* Mutant of Newest: the oldest are kept.
FirstFew(s) == SubSeq(s, 1, IF Len(s) > Amount THEN Amount ELSE Len(s))

\* Numbers in their order
Ascending(S) ==
    CHOOSE s \in [1..Cardinality(S) -> S] : \A i, j \in DOMAIN s : i < j => s[i] < s[j]

Newest(s) == IF Len(s) > Amount THEN SubSeq(s, Len(s) - Amount + 1, Len(s)) ELSE s

LoadFile(t) ==
    LET j == thread[t]  f == Latest(j.files) IN
    /\ thread[t] # Idle /\ j.op = "load" /\ j.at = "scan"
    /\ LET part == Ascending({m \in DOMAIN Loaded(f) : m <= j.time})
           result == Newest(part \o j.result)
           rest == j.files \ {f}
       IN  Set(t, [j EXCEPT !.result = result, !.files = rest,
               !.calm = @ /\ ~Torn(f, f[1]),
               !.at = IF Len(result) >= Amount \/ rest = {} THEN "answered" ELSE "scan"])
    /\ UNCHANGED <<files, begun, stored, upset>>

Answer(t) ==
    /\ thread[t] # Idle /\ thread[t].at = "answered"
    /\ Set(t, Idle)
    /\ UNCHANGED <<files, begun, stored, upset>>

-----------------------------------------------------------------------------

\* clear_local_messages removes the directory, not what is in memory; what is
\* being put in an open file goes with that file.
Clear ==
    /\ disk' = [f \in File |-> None]
    /\ flying' = [f \in File |-> IF step[f] = "open" THEN None ELSE flying[f]]
    /\ step' = [f \in File |-> IF step[f] = "open" THEN "taken" ELSE step[f]]
    /\ stored' = Nothing
    /\ upset' = upset \union {d \in Day : \/ Busy(d)
                                          \/ \E f \in File : f[1] = d /\ InMemory(f)}
    /\ thread' = [t \in Thread |->
                    IF thread[t] # Idle /\ thread[t].op = "load"
                    THEN [thread[t] EXCEPT !.calm = FALSE] ELSE thread[t]]
    /\ UNCHANGED <<pending, begun>>

\* The process ends and starts again.
Crash ==
    /\ flying' = [f \in File |-> None]
    /\ step' = [f \in File |-> "taken"]
    /\ pending' = [f \in File |-> None]
    /\ thread' = [t \in Thread |-> Idle]
    /\ upset' = upset \union {d \in Day : \/ Busy(d)
                                          \/ \E f \in File : f[1] = d /\ InMemory(f)}
    /\ UNCHANGED <<disk, begun, stored>>

Next ==
    \/ \E f \in File :
        FlushTakes(f) \/ FlushDrops(f) \/ FlushOpens(f) \/ FlushEnds(f) \/ FlushFails(f)
    \/ \E t \in Thread :
        \/ Update(t) \/ Modify(t) \/ Scan(t) \/ Save(t) \/ Missing(t)
        \/ LookForRoom(t) \/ Fill(t) \/ NewChunk(t)
        \/ \E time \in Message : BeginLoad(t, time)
        \/ LoadFile(t) \/ Answer(t)
    \/ Clear \/ Crash

Spec == Init /\ [][Next]_vars

-----------------------------------------------------------------------------
(* Properties *)

Newer(f) ==
    IF pending[f] # None THEN pending[f]
    ELSE IF flying[f] # None THEN flying[f]
    ELSE IF disk[f] # None THEN disk[f] ELSE Nothing

\* The files of a day together hold what the finished commands stored, each
\* message once, and every mark of a deletion: if of the commands for that
\* day none began while another ran, or while a chunk was only in memory,
\* none read a file in the middle of its write (update_messages_sync,
\* modify_message_file), and no flush of its files dropped or failed to write
\* a save (save_coalesced, save_direct).  Commands for other days, of which
\* there may be any number, and their flushes do no harm; nor does a write that
\* fails when its file has been saved again already.
StoreKept ==
    \A d \in Day \ upset :
        ~Busy(d) =>
            LET own == {f \in File : f[1] = d}
                held(m) == {f \in own : m \in DOMAIN Newer(f)}
            IN  \A m \in {x \in Message : DayOf(x) = d} :
                    IF m \in DOMAIN stored
                    THEN /\ Cardinality(held(m)) = 1
                         /\ \A f \in held(m) : Newer(f)[m] = stored[m]
                    ELSE held(m) = {}

\* No chunk ever has more messages than MAX_CHUNK_MESSAGES, however commands
\* and flushes interleave.
ChunkFits ==
    \A f \in File : \A c \in {disk[f], flying[f], pending[f]} \ {None} :
        Cardinality(DOMAIN c) <= Limit

InOrder ==
    \A f, g \in File : f[1] = g[1] /\ f[2] < g[2] =>
        \A x \in DOMAIN Newer(f), y \in DOMAIN Newer(g) : x < y

\* load_messages that nothing disturbs returns the newest messages up to the
\* time it was asked for, all of them if it returns fewer than asked; when
\* later chunks have older messages, only the second.
LoadsNewest ==
    \A t \in Thread :
        LET j == thread[t]
            upTo == {m \in DOMAIN stored : m <= j.time}
            got == ToSet(j.result)
        IN
        j # Idle /\ j.at = "answered" /\ j.calm /\ upset = {} =>
            /\ InOrder =>
                 got = {m \in upTo : Cardinality({x \in upTo : x > m}) < Amount}
            /\ Len(j.result) < Amount => got = upTo
=============================================================================
