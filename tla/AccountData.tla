---------------------------- MODULE AccountData ----------------------------
(***************************************************************************)
(* What the back end keeps of encrypted accounts, of which one is open at  *)
(* a time: the metadata (stores/accounts.rs), the settings and the entry   *)
(* of a chat (stores/chats.rs), the index of cached media                  *)
(* (stores/cache.rs) and the storage of a web app (stores/generic.rs).     *)
(* Each is a file that commands on threads of their own read, change and   *)
(* write back, without a lock over the whole.  Settings and index are      *)
(* saved in PENDING_WRITES and written by a flush (CoalescedStore), the    *)
(* others by the command itself.  The first, the second and the index have *)
(* a copy in memory, and the order in which file and copy are written      *)
(* differs from one to the other.  The pages that select and unlock an     *)
(* account decide by the copies.                                           *)
(*                                                                         *)
(* Contents are sets of updates.  What cannot be decrypted reads as empty. *)
(***************************************************************************)
EXTENDS Naturals, FiniteSets

CONSTANTS
    Account,     \* the accounts, all of them encrypted
    Kind,        \* which of the five files are modelled
    Limit,       \* how many keys a web app may store (500)
    Thread,      \* commands under way
    MaxUpdates,  \* bound: changes of files
    None

Saving == [data : SUBSET (0..MaxUpdates), encrypted : BOOLEAN]
\* A save that the flush task has taken, and how far it has come
Flight == [save : Saving, at : {"taken", "writing", "open"}]

ASSUME DataAssumptions ==
    /\ Kind \subseteq {"meta", "settings", "index", "chat", "storage"}
    /\ "meta" \in Kind   \* by which the pages decide
    /\ {Limit, MaxUpdates} \subseteq Nat
    /\ None \notin Account \union Saving \union Flight

VARIABLES
    unlocked,  \* AppState.crypto: the account whose key is open
    page,      \* what the user sees, and of which account
    file,      \* file[k][a]: updates, and is the file encrypted?
    pending,   \* pending[k][a]: what PENDING_WRITES has for the file, or None
    flying,    \* flying[k][a]: what the flush task has taken to write, or None
    cache,     \* cache[k][a]: the copy in memory, or None
    thread,    \* thread[t]: a command
    begun,     \* how many updates have been begun
    \* History variables, which no action looks at:
    saved,     \* saved[k][a]: the updates that the file should have
    displaced, \* accounts that were open before another was
    closed,    \* accounts that were used without their key
    overlap,   \* pairs of kind and account that two commands used at once
    lost       \* pairs of which a save was dropped, or failed, or was not
               \* written yet when the process ended or the file was read

store == <<file, pending, flying>>
dataVars == <<unlocked, page, store, cache, thread, begun, saved, displaced,
          closed, overlap, lost>>
history == <<saved, displaced, closed, overlap, lost>>

NoCommand == [at |-> "idle"]

\* The files that are written by a flush
Coalesced == {"settings", "index"}
\* An empty file, which cannot be decoded
Truncated == [data |-> {}, encrypted |-> FALSE]

DataTypeOK ==
    /\ unlocked \in Account \union {None}
    /\ page \in [at : {"lock", "enter", "open"}, of : Account] \union
                {[at |-> "select"]}
    /\ file \in [Kind -> [Account -> Saving]]
    /\ pending \in [Kind -> [Account -> {None} \union Saving]]
    /\ flying \in [Kind -> [Account -> {None} \union Flight]]
    /\ cache \in [Kind -> [Account -> {None} \union SUBSET (0..MaxUpdates)]]
    /\ thread \in [Thread -> {NoCommand} \union
            [at : {"look", "fill", "insert", "cut", "ask", "save", "write", "remove"},
             kind : Kind, of : Account, op : {"get", "add", "drop", "prune"},
             sets : SUBSET (0..MaxUpdates),
             data : SUBSET (0..MaxUpdates), open : BOOLEAN]]
    /\ begun \in 0..MaxUpdates
    /\ saved \in [Kind -> [Account -> SUBSET (0..MaxUpdates)]]
    /\ displaced \subseteq Account
    /\ closed \subseteq Account
    /\ overlap \subseteq Kind \X Account
    /\ lost \subseteq Kind \X Account

\* 0 stands for what has been in the files from the start.
DataInit ==
    /\ unlocked = None
    /\ page = [at |-> "select"]
    /\ file = [k \in Kind |-> [a \in Account |->
                [data |-> {0}, encrypted |-> TRUE]]]
    /\ pending = [k \in Kind |-> [a \in Account |-> None]]
    /\ flying = pending
    /\ cache = pending
    /\ thread = [t \in Thread |-> NoCommand]
    /\ begun = 0
    /\ saved = [k \in Kind |-> [a \in Account |-> {0}]]
    /\ displaced = {}
    /\ closed = {}
    /\ overlap = {}
    /\ lost = {}

-----------------------------------------------------------------------------
(* The files *)

Put(f, k, a, v) == [f EXCEPT ![k][a] = v]

\* Storage::load: what is pending is read without a key.
Contents(k, a) ==
    IF pending[k][a] # None THEN pending[k][a].data
    ELSE IF file[k][a].encrypted /\ unlocked # a THEN {} ELSE file[k][a].data

\* The flush task takes what is pending.
FlushTakes(k, a) ==
    /\ pending[k][a] # None /\ flying[k][a] = None
    /\ flying' = Put(flying, k, a, [save |-> pending[k][a], at |-> "taken"])
    /\ pending' = Put(pending, k, a, None)
    /\ UNCHANGED <<unlocked, page, file, cache, thread, begun, history>>

\* save_direct begins by dropping what is pending: what was saved since.
FlushDrops(k, a) ==
    /\ flying[k][a] # None /\ flying[k][a].at = "taken"
    /\ flying' = Put(flying, k, a, [flying[k][a] EXCEPT !.at = "writing"])
    /\ pending' = Put(pending, k, a, None)
    /\ lost' = IF pending[k][a] # None THEN lost \union {<<k, a>>} ELSE lost
    /\ UNCHANGED <<unlocked, page, file, cache, thread, begun, saved, displaced,
                   closed, overlap>>

\* fs::write truncates the file
FlushOpens(k, a) ==
    /\ flying[k][a] # None /\ flying[k][a].at = "writing"
    /\ flying' = Put(flying, k, a, [flying[k][a] EXCEPT !.at = "open"])
    /\ file' = Put(file, k, a, Truncated)
    /\ UNCHANGED <<unlocked, page, pending, cache, thread, begun, history>>

\* and fills it.
FlushEnds(k, a) ==
    /\ flying[k][a] # None /\ flying[k][a].at = "open"
    /\ file' = Put(file, k, a, flying[k][a].save)
    /\ flying' = Put(flying, k, a, None)
    /\ UNCHANGED <<unlocked, page, pending, cache, thread, begun, history>>

\* Its errors are ignored.
FlushFails(k, a) ==
    /\ flying[k][a] # None /\ flying[k][a].at # "taken"
    /\ flying' = Put(flying, k, a, None)
    /\ lost' = IF pending[k][a] = None THEN lost \union {<<k, a>>} ELSE lost
    /\ UNCHANGED <<unlocked, page, file, pending, cache, thread, begun, saved,
                   displaced, closed, overlap>>

-----------------------------------------------------------------------------
(* The pages *)

\* account_get, as the page awaits it: an account whose contact cannot be
\* read is one that is locked.
View(a) == IF cache["meta"][a] # None THEN cache["meta"][a] ELSE Contents("meta", a)

Look(a) == cache' = [cache EXCEPT !["meta"][a] = View(a)]

\* Mutant of Select: an encrypted account is opened whatever can be read.
SelectUnlocked(a) ==
    /\ page.at = "select"
    /\ Look(a)
    /\ page' = [at |-> "open", of |-> a]
    /\ UNCHANGED <<unlocked, store, thread, begun, history>>

\* select() of the account page
Select(a) ==
    /\ page.at = "select"
    /\ Look(a)
    /\ page' = [at |-> IF View(a) = {} THEN "lock" ELSE "open", of |-> a]
    /\ UNCHANGED <<unlocked, store, thread, begun, history>>

\* decrypt_account with the right pattern: two of the copies are dropped.
UnlockPage ==
    /\ page.at = "lock"
    /\ unlocked' = page.of
    /\ page' = [page EXCEPT !.at = "enter"]
    /\ cache' = [k \in Kind |->
                    IF k = "settings" THEN cache[k]
                    ELSE [cache[k] EXCEPT ![page.of] = None]]
    /\ displaced' = displaced \union ({unlocked} \ {None, page.of})
    /\ UNCHANGED <<store, thread, begun, saved, closed, overlap, lost>>

\* The lock page reads the account again.
Enter ==
    /\ page.at = "enter"
    /\ Look(page.of)
    /\ page' = [page EXCEPT !.at = IF View(page.of) = {} THEN "lock" ELSE "open"]
    /\ UNCHANGED <<unlocked, store, thread, begun, history>>

\* The user leaves for the list of accounts.
Leave ==
    /\ page.at \in {"open", "lock"}
    /\ page' = [at |-> "select"]
    /\ UNCHANGED <<unlocked, store, cache, thread, begun, history>>

-----------------------------------------------------------------------------
(* The commands.  One gets the contents, adds an update to what it reads,    *)
(* drops what there is, or, when it gets an address from the index and the   *)
(* media file is gone, prunes the index of it.                               *)

Ops(k) ==
    CASE k \in {"meta", "settings"} -> {"get", "add"}
      [] k = "index" -> {"get", "add", "drop", "prune"}
      [] k = "chat" -> {"add"}
      [] k = "storage" -> {"add", "drop"}

\* What an operation is about: a new update, or the address that is gone
About(op) ==
    CASE op = "add" -> {{begun + 1}}
      [] op = "prune" -> {{x} : x \in 0..begun}
      [] OTHER -> {{}}

\* The accounts whose data a command may be about: the open one; the list of
\* accounts gets the metadata of all.
Subject(k, op) ==
    IF page.at = "open" THEN {page.of}
    ELSE IF page.at = "select" /\ k = "meta" /\ op = "get" THEN Account ELSE {}

Begin(t) ==
    /\ thread[t] = NoCommand
    /\ \E k \in Kind : \E op \in Ops(k) : \E a \in Subject(k, op), sets \in About(op) :
        /\ op = "add" => begun < MaxUpdates
        /\ begun' = IF op = "add" THEN begun + 1 ELSE begun
        /\ thread' = [thread EXCEPT ![t] =
                [at |-> "look", kind |-> k, of |-> a, op |-> op,
                 sets |-> sets, data |-> {}, open |-> FALSE]]
        /\ overlap' = overlap \union
                (IF \E u \in Thread : /\ thread[u] # NoCommand
                                      /\ thread[u].kind = k
                                      /\ thread[u].of = a
                 THEN {<<k, a>>} ELSE {})
    /\ UNCHANGED <<unlocked, page, store, cache, saved, displaced, closed, lost>>

\* The command goes on with what it has read, and the key it has asked for.
Goes(t, at, data) ==
    thread' = [thread EXCEPT ![t].at = at, ![t].data = data,
                             ![t].open = (unlocked = thread[t].of)]
\* It goes on with what it has.
Turns(t, at) == thread' = [thread EXCEPT ![t].at = at]
Ends(t) == thread' = [thread EXCEPT ![t] = NoCommand]

Copy(j) == cache[j.kind][j.of]
Opened(j) == Contents(j.kind, j.of)
\* What the file and the copy become
Change(op, data, sets) ==
    CASE op = "drop" -> {} [] op = "prune" -> data \ sets [] OTHER -> data \union sets
New(j) == Change(j.op, j.data, j.sets)

\* account_get makes a copy.  Metadata are changed in the file, and only if
\* they can be read.
ReadMeta(t) ==
    LET j == thread[t] IN
    IF j.op = "get"
    THEN IF Copy(j) # None THEN Ends(t) ELSE Goes(t, "fill", Opened(j))
    ELSE IF Opened(j) = {} THEN Ends(t) ELSE Goes(t, "save", Opened(j))

\* Mutant of ReadSettings: what is not in memory counts as empty.
ReadCopyOnly(t) ==
    LET j == thread[t] IN
    IF j.op = "get" THEN Ends(t)
    ELSE Goes(t, "ask", IF Copy(j) = None THEN {} ELSE Copy(j))

\* The page gets all of the settings and sends them back changed.
ReadSettings(t) ==
    LET j == thread[t] IN
    IF Copy(j) = None THEN Goes(t, "fill", Opened(j))
    ELSE IF j.op = "get" THEN Ends(t) ELSE Goes(t, "ask", Copy(j))

\* The index is read without making a copy when it is about to be changed.
ReadIndex(t) ==
    LET j == thread[t]
        index == IF Copy(j) = None THEN Opened(j) ELSE Copy(j)
    IN
    IF j.op \in {"add", "drop"} THEN Goes(t, "insert", index)
    ELSE IF Copy(j) = None THEN Goes(t, "fill", index)
    ELSE IF j.op = "prune" /\ j.sets \subseteq index THEN Goes(t, "cut", index)
    ELSE Ends(t)

\* The entry of a chat is merged with the one on disk.
ReadChat(t) == Goes(t, "save", Opened(thread[t]))

\* A new key is refused at the limit.
ReadStorage(t) ==
    LET j == thread[t] IN
    IF j.op = "add" /\ Cardinality(Opened(j)) >= Limit
    THEN Ends(t) ELSE Goes(t, "save", Opened(j))

Read(t) ==
    LET j == thread[t] IN
    /\ j.at = "look"
    /\ CASE j.kind = "meta" -> ReadMeta(t)
         [] j.kind = "settings" -> ReadSettings(t)
         [] j.kind = "index" -> ReadIndex(t)
         [] j.kind = "chat" -> ReadChat(t)
         [] j.kind = "storage" -> ReadStorage(t)
    /\ closed' = closed \union
            (IF unlocked # j.of /\ j.kind # "meta" THEN {j.of} ELSE {})
    /\ lost' = lost \union
            (IF Copy(j) = None /\ pending[j.kind][j.of] = None /\ flying[j.kind][j.of] # None
             THEN {<<j.kind, j.of>>} ELSE {})
    /\ UNCHANGED <<unlocked, page, store, cache, begun, saved, displaced, overlap>>

\* What was read becomes the copy.
Fill(t) ==
    LET j == thread[t] IN
    /\ j.at = "fill"
    /\ cache' = Put(cache, j.kind, j.of, j.data)
    /\ CASE j.op = "add" -> Turns(t, "ask")
         [] j.op = "prune" /\ j.sets \subseteq j.data -> Turns(t, "insert")
         [] OTHER -> Ends(t)
    /\ UNCHANGED <<unlocked, page, store, begun, history>>

\* The copy is replaced: of the settings after the save, of the index before.
Insert(t) ==
    LET j == thread[t] IN
    /\ j.at \in {"insert", "cut"}
    /\ cache' = Put(cache, j.kind, j.of, New(j))
    /\ IF j.kind = "settings" THEN Ends(t)
       ELSE Turns(t, IF j.at = "cut" THEN "ask" ELSE "save")
    /\ UNCHANGED <<unlocked, page, store, begun, history>>

\* Settings, and an index whose copy was read, ask for the key only now.
Ask(t) ==
    /\ thread[t].at = "ask"
    /\ Goes(t, "save", thread[t].data)
    /\ UNCHANGED <<unlocked, page, store, cache, begun, history>>

\* Mutant of Written: the next step is left out.
WrittenOnly(t) == Ends(t)

\* After the save, the copy of settings is replaced and that of metadata
\* removed; that of the index is there already.
Written(t) ==
    LET j == thread[t] IN
    CASE j.kind = "settings" -> Turns(t, "insert")
      [] j.kind = "meta" -> Turns(t, "remove")
      [] OTHER -> Ends(t)

\* What the file should have from now on, and with which key
Saved(j) ==
    /\ saved' = Put(saved, j.kind, j.of, Change(j.op, saved[j.kind][j.of], j.sets))
    /\ closed' = IF j.open THEN closed ELSE closed \union {j.of}
Contained(j) == [data |-> New(j), encrypted |-> j.open]

\* save_coalesced
Save(t) ==
    LET j == thread[t] IN
    /\ j.at = "save" /\ j.kind \in Coalesced
    /\ pending' = Put(pending, j.kind, j.of, Contained(j))
    /\ Saved(j)
    /\ Written(t)
    /\ UNCHANGED <<unlocked, page, file, flying, cache, begun, displaced, overlap, lost>>

\* save: the file is truncated
Open(t) ==
    LET j == thread[t] IN
    /\ j.at = "save" /\ j.kind \notin Coalesced
    /\ file' = Put(file, j.kind, j.of, Truncated)
    /\ Turns(t, "write")
    /\ UNCHANGED <<unlocked, page, pending, flying, cache, begun, history>>

\* and filled.
Write(t) ==
    LET j == thread[t] IN
    /\ j.at = "write"
    /\ file' = Put(file, j.kind, j.of, Contained(j))
    /\ Saved(j)
    /\ Written(t)
    /\ UNCHANGED <<unlocked, page, pending, flying, cache, begun, displaced, overlap, lost>>

\* An error ends the command; one after the truncation loses the file.
Fails(t) ==
    LET j == thread[t] IN
    /\ \/ j.at = "save" /\ j.kind \notin Coalesced /\ UNCHANGED lost
       \/ j.at = "write" /\ lost' = lost \union {<<j.kind, j.of>>}
    /\ Ends(t)
    /\ UNCHANGED <<unlocked, page, store, cache, begun, saved, displaced, closed, overlap>>

\* The copy of the metadata is removed.
Remove(t) ==
    /\ thread[t].at = "remove"
    /\ cache' = Put(cache, thread[t].kind, thread[t].of, None)
    /\ Ends(t)
    /\ UNCHANGED <<unlocked, page, store, begun, history>>

\* The process ends and starts again.
Restart ==
    /\ unlocked' = None
    /\ page' = [at |-> "select"]
    /\ cache' = [k \in Kind |-> [a \in Account |-> None]]
    /\ thread' = [t \in Thread |-> NoCommand]
    /\ displaced' = {}
    /\ pending' = [k \in Kind |-> [a \in Account |-> None]]
    /\ flying' = [k \in Kind |-> [a \in Account |-> None]]
    /\ lost' = lost \union {p \in Kind \X Account :
                    \/ pending[p[1]][p[2]] # None \/ flying[p[1]][p[2]] # None
                    \/ \E t \in Thread : /\ thread[t].at = "write"
                                         /\ <<thread[t].kind, thread[t].of>> = p}
    /\ UNCHANGED <<file, begun, saved, closed, overlap>>

Step(t) ==
    \/ Read(t) \/ Fill(t) \/ Insert(t) \/ Ask(t) \/ Save(t) \/ Open(t) \/ Write(t)
    \/ Fails(t) \/ Remove(t)

Flush(k, a) ==
    \/ FlushTakes(k, a) \/ FlushDrops(k, a) \/ FlushOpens(k, a)
    \/ FlushEnds(k, a) \/ FlushFails(k, a)

DataNext ==
    \/ \E a \in Account : Select(a)
    \/ UnlockPage \/ Enter \/ Leave \/ Restart
    \/ \E t \in Thread : Begin(t) \/ Step(t)
    \/ \E k \in Kind, a \in Account : Flush(k, a)

DataSpec == DataInit /\ [][DataNext]_dataVars

-----------------------------------------------------------------------------
(* Properties *)

\* What a file has, or will have when it is flushed
Newest(k, a) ==
    IF pending[k][a] # None THEN pending[k][a].data
    ELSE IF flying[k][a] # None THEN flying[k][a].save.data
    ELSE file[k][a].data

Excepted(k, a) == <<k, a>> \in overlap \union lost \/ a \in closed
InUse(k, a) ==
    \E t \in Thread : /\ thread[t] # NoCommand
                      /\ thread[t].kind = k
                      /\ thread[t].of = a

\* No update of a file is lost, neither the first nor one that was saved, and
\* what was dropped or pruned does not come back: if no two commands used the
\* file at once, the account was never used without its key, and no save was
\* dropped by a flush, failed, or was unwritten when the file was read or the
\* process ended.
UpdatesKept ==
    \A k \in Kind, a \in Account :
        ~Excepted(k, a) =>
            \/ Newest(k, a) = saved[k][a]
            \/ \E t \in Thread : /\ thread[t].at = "write"
                                 /\ thread[t].kind = k /\ thread[t].of = a

\* Under the same conditions a copy that no command is about to replace is
\* what the file has or will have, or shows that the account is locked.
CopyFits ==
    \A k \in Kind, a \in Account :
        \/ Excepted(k, a) \/ InUse(k, a)
        \/ cache[k][a] \in {None, Newest(k, a)}
        \/ k = "meta" /\ cache[k][a] = {}

\* An account that is shown is open, unless it was open before and another
\* account has been opened since: its copied contact then hides that it is
\* locked (select).
ShownIsOpen ==
    page.at = "open" /\ page.of \notin displaced => unlocked = page.of
=============================================================================
