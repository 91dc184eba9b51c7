------------------------- MODULE AccountEncryption -------------------------
(***************************************************************************)
(* The encryption of the files of one account (stores/accounts.rs and      *)
(* stores/storage.rs).  Switching it on or off rewrites every file of the  *)
(* account with several threads, and then the entry of the account; while  *)
(* this goes on other commands save files with the key they have asked     *)
(* for before, a thread may fail, and the process may end.                 *)
(*                                                                         *)
(* A key stands for a pattern with its salt: it is gone for good when the  *)
(* salt is neither in the entry nor in memory.                             *)
(***************************************************************************)
EXTENDS Naturals, FiniteSets

CONSTANTS
    File,       \* the files of the account
    Worker,     \* the threads of migrate_all_files
    Saver,      \* commands that save a file
    MaxKeys,    \* bound: keys that are derived from a new salt
    Plain       \* no key

ASSUME Assumptions ==
    /\ IsFiniteSet(File)
    /\ Worker # {}
    /\ MaxKeys \in Nat
    /\ Plain \notin Nat

VARIABLES
    disk,     \* disk[f]: the key that file f is encrypted with, or Plain
    entry,    \* the key whose salt and hash the entry of the account has
    session,  \* AppState.crypto: the key that is open
    made,     \* how many salts there have been
    job,      \* set_encryption
    todo,     \* the listed files that no thread has taken (next_idx)
    failed,   \* error_slot
    worker,   \* worker[w]: the file w works on, with the contents it read
    unlock,   \* the key that decrypt_account has verified
    saver,    \* saver[s]: the file to save and the key to do it with
    \* History variables, which no action looks at:
    touched,  \* the files saved since set_encryption began
    upset     \* the irregularities that have happened

vars == <<disk, entry, session, made, job, todo, failed, worker, unlock,
          saver, touched, upset>>

Key == 1..MaxKeys
KeyOrPlain == Key \union {Plain}

Idle == [at |-> "idle"]
Ready == [at |-> "ready"]
Done == [at |-> "done"]

TypeOK ==
    /\ disk \in [File -> KeyOrPlain]
    /\ entry \in KeyOrPlain
    /\ session \in KeyOrPlain
    /\ made \in 0..MaxKeys
    /\ job \in [at : {"load", "migrate", "store", "open"},
                encrypt : BOOLEAN, key : Key] \union {Idle}
    /\ todo \subseteq File
    /\ failed \in BOOLEAN
    /\ worker \in [Worker -> {Idle, Ready, Done} \union
                    [at : {"read", "write"}, file : File, key : KeyOrPlain]]
    /\ unlock \in KeyOrPlain
    /\ saver \in [Saver -> {Idle} \union
                    [at : {"save"}, file : File, key : KeyOrPlain]]
    /\ touched \subseteq File
    /\ upset \subseteq {"halfway", "oldkey", "between"}

Init ==
    /\ disk = [f \in File |-> Plain]
    /\ entry = Plain
    /\ session = Plain
    /\ made = 0
    /\ job = Idle
    /\ todo = {}
    /\ failed = FALSE
    /\ worker = [w \in Worker |-> Idle]
    /\ unlock = Plain
    /\ saver = [s \in Saver |-> Idle]
    /\ touched = {}
    /\ upset = {}

-----------------------------------------------------------------------------
(* set_encryption *)

\* The page offers to encrypt an account that is not, and to decrypt one
\* that is and that the user has opened.  The files are listed first.
Encrypt ==
    /\ job = Idle
    /\ entry = Plain
    /\ made < MaxKeys
    /\ made' = made + 1
    /\ job' = [at |-> "load", encrypt |-> TRUE, key |-> made']
    /\ todo' = File
    /\ touched' = {}
    /\ UNCHANGED <<disk, entry, session, failed, worker, unlock, saver,
                   upset>>

Decrypt ==
    /\ job = Idle
    /\ entry # Plain
    /\ session = entry
    /\ job' = [at |-> "load", encrypt |-> FALSE, key |-> entry]
    /\ todo' = File
    /\ touched' = {}
    /\ UNCHANGED <<disk, entry, session, made, failed, worker, unlock, saver,
                   upset>>

StartWorkers ==
    /\ job.at = "load"
    /\ job' = [job EXCEPT !.at = "migrate"]
    /\ failed' = FALSE
    /\ worker' = [w \in Worker |-> Ready]
    /\ UNCHANGED <<disk, entry, session, made, todo, unlock, saver, upset,
                   touched>>

\* Mutant of TakeFile: a thread that sees an error waits.
TakeFileStops(w) ==
    /\ worker[w] = Ready
    /\ ~failed
    /\ \/ /\ todo = {}
          /\ worker' = [worker EXCEPT ![w] = Done]
          /\ UNCHANGED todo
       \/ \E f \in todo :
            /\ todo' = todo \ {f}
            /\ worker' = [worker EXCEPT ![w] =
                            [at |-> "read", file |-> f, key |-> Plain]]
    /\ UNCHANGED <<disk, entry, session, made, job, failed, unlock, saver,
                   touched, upset>>

\* A thread looks at error_slot and takes the next index.
TakeFile(w) ==
    /\ worker[w] = Ready
    /\ \/ /\ failed \/ todo = {}
          /\ worker' = [worker EXCEPT ![w] = Done]
          /\ UNCHANGED todo
       \/ /\ ~failed
          /\ \E f \in todo :
                /\ todo' = todo \ {f}
                /\ worker' = [worker EXCEPT ![w] =
                                [at |-> "read", file |-> f, key |-> Plain]]
    /\ UNCHANGED <<disk, entry, session, made, job, failed, unlock, saver,
                   upset, touched>>

\* Files that are encrypted already, or not at all, are left as they are.
Skips(key) == IF job.encrypt THEN key # Plain ELSE key = Plain

\* It reads the file, and cannot decrypt with a key that is not the file's.
ReadFile(w) ==
    /\ worker[w].at = "read"
    /\ LET key == disk[worker[w].file] IN
        \/ /\ Skips(key)
           /\ worker' = [worker EXCEPT ![w] = Ready]
           /\ UNCHANGED failed
        \/ /\ ~Skips(key)
           /\ key \in {Plain, job.key}
           /\ worker' = [worker EXCEPT ![w].at = "write"]
           /\ UNCHANGED failed
        \/ /\ ~Skips(key)
           /\ key \notin {Plain, job.key}
           /\ worker' = [worker EXCEPT ![w] = Done]
           /\ failed' = TRUE
    /\ UNCHANGED <<disk, entry, session, made, job, todo, unlock, saver,
                   upset, touched>>

\* The new contents replace the file (a temporary one is renamed).
ReplaceFile(w) ==
    /\ worker[w].at = "write"
    /\ disk' = [disk EXCEPT ![worker[w].file] =
                    IF job.encrypt THEN job.key ELSE Plain]
    /\ worker' = [worker EXCEPT ![w] = Ready]
    /\ UNCHANGED <<entry, session, made, job, todo, failed, unlock, saver,
                   upset, touched>>

\* Mutant of FailFile: the error is not recorded.
FailFileSilently(w) ==
    /\ worker[w].at \in {"read", "write"}
    /\ worker' = [worker EXCEPT ![w] = Ready]
    /\ UNCHANGED <<disk, entry, session, made, job, todo, failed, unlock,
                   saver, touched, upset>>

\* Reading or writing fails.
FailFile(w) ==
    /\ worker[w].at \in {"read", "write"}
    /\ failed' = TRUE
    /\ worker' = [worker EXCEPT ![w] = Done]
    /\ UNCHANGED <<disk, entry, session, made, job, todo, unlock, saver,
                   upset, touched>>

\* Mutant of Join: nobody looks at error_slot.
JoinIgnoresErrors ==
    /\ job.at = "migrate"
    /\ \A w \in Worker : worker[w] = Done
    /\ job' = [job EXCEPT !.at = "store"]
    /\ worker' = [w \in Worker |-> Idle]
    /\ UNCHANGED <<disk, entry, session, made, todo, failed, unlock, saver,
                   touched, upset>>

\* Every thread is joined.  An error ends the command: files encrypted by
\* then have a key whose salt nobody keeps.
Join ==
    /\ job.at = "migrate"
    /\ \A w \in Worker : worker[w] = Done
    /\ job' = IF failed THEN Idle ELSE [job EXCEPT !.at = "store"]
    /\ upset' = upset \union
                    (IF failed /\ job.encrypt THEN {"halfway"} ELSE {})
    /\ worker' = [w \in Worker |-> Idle]
    /\ UNCHANGED <<disk, entry, session, made, todo, failed, unlock, saver,
                   touched>>

SaveEntry ==
    /\ job.at = "store"
    /\ entry' = IF job.encrypt THEN job.key ELSE Plain
    /\ job' = [job EXCEPT !.at = "open"]
    /\ UNCHANGED <<disk, session, made, todo, failed, worker, unlock, saver,
                   upset, touched>>

\* The key is opened, or closed when encryption was switched off.
OpenKey ==
    /\ job.at = "open"
    /\ session' = IF job.encrypt THEN job.key ELSE Plain
    /\ job' = Idle
    /\ UNCHANGED <<disk, entry, made, todo, failed, worker, unlock, saver,
                   upset, touched>>

-----------------------------------------------------------------------------
(* Other commands *)

\* decrypt_account: the right pattern gives the key of the entry.
Verify ==
    /\ job = Idle
    /\ session = Plain
    /\ entry # Plain
    /\ unlock' = entry
    /\ UNCHANGED <<disk, entry, session, made, job, todo, failed, worker,
                   saver, upset, touched>>

Unlock ==
    /\ unlock # Plain
    /\ session' = unlock
    /\ unlock' = Plain
    /\ UNCHANGED <<disk, entry, made, job, todo, failed, worker, saver,
                   upset, touched>>

\* A command asks for the key when it begins; the contents then wait in
\* PENDING_WRITES or for the other things the command does.
BeginSave(s, f) ==
    /\ saver[s] = Idle
    /\ saver' = [saver EXCEPT ![s] = [at |-> "save", file |-> f, key |-> session]]
    /\ UNCHANGED <<disk, entry, session, made, job, todo, failed, worker,
                   unlock, upset, touched>>

\* A save is out of step if the key it has is closed by now, or if a
\* migration has the file in hand or has passed it.
EndSave(s) ==
    /\ saver[s].at = "save"
    /\ disk' = [disk EXCEPT ![saver[s].file] = saver[s].key]
    /\ saver' = [saver EXCEPT ![s] = Idle]
    /\ touched' = touched \union {saver[s].file}
    /\ upset' = upset
        \union (IF saver[s].key \notin {Plain, entry} THEN {"oldkey"} ELSE {})
        \union (IF saver[s].key # Plain /\ job # Idle /\ ~job.encrypt
                THEN {"between"} ELSE {})
    /\ UNCHANGED <<entry, session, made, job, todo, failed, worker, unlock>>

\* The process ends and starts again.
Crash ==
    /\ session' = Plain
    /\ job' = Idle
    /\ worker' = [w \in Worker |-> Idle]
    /\ saver' = [s \in Saver |-> Idle]
    /\ unlock' = Plain
    /\ failed' = FALSE
    /\ todo' = {}
    /\ upset' = upset \union
            (IF job # Idle /\ job.encrypt /\ job.at # "open"
             THEN {"halfway"} ELSE {})
    /\ UNCHANGED <<disk, entry, made, touched>>

Next ==
    \/ Encrypt \/ Decrypt \/ StartWorkers \/ Join \/ SaveEntry \/ OpenKey
    \/ \E w \in Worker :
        TakeFile(w) \/ ReadFile(w) \/ ReplaceFile(w) \/ FailFile(w)
    \/ Verify \/ Unlock
    \/ \E s \in Saver : (\E f \in File : BeginSave(s, f)) \/ EndSave(s)
    \/ Crash

\* The operating system runs the threads that have something to do.
Fairness ==
    /\ WF_vars(StartWorkers \/ Join \/ SaveEntry \/ OpenKey)
    /\ \A w \in Worker :
        WF_vars(TakeFile(w) \/ ReadFile(w) \/ ReplaceFile(w) \/ FailFile(w))

Spec == Init /\ [][Next]_vars

FairSpec == Spec /\ Fairness

-----------------------------------------------------------------------------
(* Properties *)

\* Every file can be read at every moment, with the key of the entry or with
\* the one that is about to become it: also while encryption is switched off
\* by several threads, one of which fails, or the process ends.  Excepted
\* are an encryption that stopped half-way, a save with a key that is closed
\* by now, and one with a key in the middle of a decryption
\* (set_encryption, migrate_all_files).
Readable ==
    upset = {} =>
        \A f \in File :
            \/ disk[f] \in {Plain, entry}
            \/ job # Idle /\ job.encrypt /\ disk[f] = job.key

\* When set_encryption has encrypted the account, a file is left unencrypted
\* only if it was saved meanwhile by a command that had asked for the key
\* before (migrate_all_files).
NothingLeftPlain ==
    (job # Idle /\ job.encrypt /\ job.at \in {"store", "open"}) =>
        \A f \in File \ touched : disk[f] # Plain

\* set_encryption returns, whatever its threads meet (migrate_all_files).
JobEnds == job # Idle ~> job = Idle
=============================================================================
