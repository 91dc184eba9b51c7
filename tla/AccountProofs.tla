---------------------------- MODULE AccountProofs ----------------------------
(***************************************************************************)
(* Proofs about AccountEncryption, for any files, threads, commands and    *)
(* keys, and about AccountData, for any accounts, commands, updates and    *)
(* kinds of files.                                                         *)
(***************************************************************************)
EXTENDS AccountEncryption, AccountData, TLAPS

-----------------------------------------------------------------------------
(* AccountEncryption *)

\* A running set_encryption
Job == [at : {"load", "migrate", "store", "open"}, encrypt : BOOLEAN, key : Key]

\* A thread with a file in hand
Holder == [at : {"read", "write"}, file : File, key : KeyOrPlain]

Writer == [at : {"save"}, file : File, key : KeyOrPlain]

\* Which states a running command, a thread and a saver can be told apart by
LEMMA States ==
    /\ \A j \in Job \union {Idle} :
        /\ j # Idle <=> j \in Job
        /\ j.at \in {"load", "migrate", "store", "open"} <=> j \in Job
    /\ \A w \in {Idle, Ready, Done} \union Holder :
        w.at \in {"read", "write"} <=> w \in Holder
    /\ \A s \in {Idle} \union Writer : s.at = "save" <=> s \in Writer
    /\ Ready # Done /\ Idle # Done /\ Idle # Ready
    /\ Ready \notin Holder /\ Done \notin Holder /\ Idle \notin Holder
BY DEF Job, Holder, Writer, Idle, Ready, Done

-----------------------------------------------------------------------------
(* Types *)

\* Threads run only while set_encryption waits for them.
WorkersBelong ==
    \A w \in Worker : worker[w] # Idle => job \in Job /\ job.at = "migrate"

LEMMA TypesInit == Init => TypeOK
<1> SUFFICES ASSUME Init PROVE TypeOK
  OBVIOUS
<1>1. made \in 0..MaxKeys
  BY Assumptions DEF Init, Assumptions
<1>2. worker \in [Worker -> {Idle, Ready, Done}] /\ saver \in [Saver -> {Idle}]
  BY DEF Init
<1>3. failed \in BOOLEAN
  BY DEF Init
<1> QED
  BY <1>1, <1>2, <1>3 DEF Init, TypeOK, KeyOrPlain

LEMMA TypesNext == TypeOK /\ WorkersBelong /\ [Next]_vars => TypeOK'
<1> SUFFICES ASSUME TypeOK, WorkersBelong, [Next]_vars PROVE TypeOK'
  OBVIOUS
<1> USE DEF TypeOK, KeyOrPlain
<1>1. CASE Encrypt
  <2>1. made' \in Key /\ made' \in 0..MaxKeys
    BY <1>1, Assumptions DEF Encrypt, Key, Assumptions
  <2> QED
    BY <1>1, <2>1 DEF Encrypt
<1>2. CASE Decrypt
  BY <1>2 DEF Decrypt
<1>3. CASE StartWorkers
  <2>1. job' \in Job
    BY <1>3, States DEF StartWorkers, Job
  <2> QED
    BY <1>3, <2>1 DEF StartWorkers, Job
<1>4. CASE Join
  <2>1. job' \in Job \union {Idle}
    BY <1>4, States DEF Join, Job
  <2> QED
    BY <1>4, <2>1 DEF Join, Job
<1>5. CASE SaveEntry
  <2>1. job' \in Job /\ job.key \in Key
    BY <1>5, States DEF SaveEntry, Job
  <2> QED
    BY <1>5, <2>1 DEF SaveEntry, Job
<1>6. CASE OpenKey
  <2>1. job.key \in Key
    BY <1>6, States DEF OpenKey, Job
  <2> QED
    BY <1>6, <2>1 DEF OpenKey
<1>7. ASSUME NEW w \in Worker, TakeFile(w) PROVE TypeOK'
  BY <1>7 DEF TakeFile
<1>8. ASSUME NEW w \in Worker, ReadFile(w) PROVE TypeOK'
  <2>1. worker[w] \in Holder
    BY <1>8, States DEF ReadFile, Holder
  <2>2. [worker[w] EXCEPT !.at = "write"] \in Holder
    BY <2>1 DEF Holder
  <2>3. worker' \in [Worker -> {Idle, Ready, Done} \union Holder]
    BY <1>8, <2>2 DEF ReadFile, Holder
  <2>4. failed' \in BOOLEAN
    BY <1>8 DEF ReadFile
  <2> QED
    BY <1>8, <2>3, <2>4 DEF ReadFile, Holder
<1>9. ASSUME NEW w \in Worker, ReplaceFile(w) PROVE TypeOK'
  <2>1. worker[w] \in Holder
    BY <1>9, States DEF ReplaceFile, Holder
  <2>2. worker' \in [Worker -> {Idle, Ready, Done} \union Holder]
    BY <1>9 DEF ReplaceFile, Holder
  <2>3. disk' \in [File -> Key \union {Plain}]
    <3>1. worker[w].file \in File
      BY <2>1 DEF Holder
    <3>2. job \in Job
      BY <2>1, States DEF WorkersBelong
    <3>3. job.key \in Key
      BY <3>2 DEF Job
    <3> QED
      BY <1>9, <3>1, <3>3 DEF ReplaceFile
  <2> QED
    BY <1>9, <2>2, <2>3 DEF ReplaceFile, Holder
<1>10. ASSUME NEW w \in Worker, FailFile(w) PROVE TypeOK'
  BY <1>10 DEF FailFile
<1>11. CASE Verify
  BY <1>11 DEF Verify
<1>12. CASE Unlock
  BY <1>12 DEF Unlock
<1>13. ASSUME NEW s \in Saver, NEW f \in File, BeginSave(s, f) PROVE TypeOK'
  BY <1>13 DEF BeginSave
<1>14. ASSUME NEW s \in Saver, EndSave(s) PROVE TypeOK'
  <2>1. saver[s] \in Writer
    BY <1>14, States DEF EndSave, Writer
  <2> QED
    BY <1>14, <2>1 DEF EndSave, Writer
<1>15. CASE Crash
  BY <1>15 DEF Crash
<1>16. CASE UNCHANGED vars
  BY <1>16 DEF vars
<1> QED
  BY <1>1, <1>2, <1>3, <1>4, <1>5, <1>6, <1>7, <1>8, <1>9, <1>10, <1>11, <1>12,
     <1>13, <1>14, <1>15, <1>16 DEF Next

LEMMA BelongNext == TypeOK /\ WorkersBelong /\ [Next]_vars => WorkersBelong'
<1> SUFFICES ASSUME TypeOK, WorkersBelong, [Next]_vars PROVE WorkersBelong'
  OBVIOUS
<1> USE DEF WorkersBelong
<1>1. CASE Encrypt \/ Decrypt
  <2>1. \A w \in Worker : worker[w] = Idle
    BY <1>1, States DEF Encrypt, Decrypt, TypeOK
  <2> QED
    BY <1>1, <2>1 DEF Encrypt, Decrypt
<1>2. CASE StartWorkers
  <2>1. job \in Job
    BY <1>2, States DEF StartWorkers, TypeOK, Job
  <2> QED
    BY <1>2, <2>1 DEF StartWorkers, Job
<1>3. CASE Join \/ Crash
  BY <1>3 DEF Join, Crash
<1>4. CASE SaveEntry \/ OpenKey
  BY <1>4 DEF SaveEntry, OpenKey
<1>5. ASSUME NEW w \in Worker,
             TakeFile(w) \/ ReadFile(w) \/ ReplaceFile(w) \/ FailFile(w)
      PROVE  WorkersBelong'
  <2>1. worker[w] # Idle
    BY <1>5 DEF TakeFile, ReadFile, ReplaceFile, FailFile, Idle, Ready
  <2> QED
    BY <1>5, <2>1 DEF TakeFile, ReadFile, ReplaceFile, FailFile
<1>6. CASE Verify \/ Unlock
  BY <1>6 DEF Verify, Unlock
<1>7. ASSUME NEW s \in Saver, NEW f \in File, BeginSave(s, f) \/ EndSave(s)
      PROVE  WorkersBelong'
  BY <1>7 DEF BeginSave, EndSave
<1>8. ASSUME NEW s \in Saver, EndSave(s) PROVE WorkersBelong'
  BY <1>8 DEF EndSave
<1>9. CASE UNCHANGED vars
  BY <1>9 DEF vars
<1> QED
  BY <1>1, <1>2, <1>3, <1>4, <1>5, <1>6, <1>7, <1>8, <1>9 DEF Next

\* Every reachable state is well typed, and no thread outlives the command that
\* waits for it (migrate_all_files joins them).
THEOREM EncryptionTyped == Spec => [](TypeOK /\ WorkersBelong)
<1>1. Init => WorkersBelong
  BY DEF Init, WorkersBelong
<1> QED
  BY <1>1, TypesInit, TypesNext, BelongNext, PTL DEF Spec

-----------------------------------------------------------------------------
(* The invariant *)

\* The command treats f as it should, if nothing irregular has happened.
Treated(f) ==
    IF job.encrypt THEN disk[f] # Plain \/ f \in touched
    ELSE disk[f] = Plain \/ upset # {}

InHand(f) == \E w \in Worker : worker[w] \in Holder /\ worker[w].file = f

\* No thread goes home while there are files to take and no error.
AllTaken == \A w \in Worker : worker[w] = Done /\ ~failed => todo = {}

\* Every file is treated, or will be by the thread that has it or takes it.
Migrated ==
    job \in Job =>
        /\ job.at = "load" => todo = File
        /\ job.at = "migrate" =>
            failed \/ \A f \in File : f \in todo \/ InHand(f) \/ Treated(f)
        /\ job.at \in {"store", "open"} => \A f \in File : Treated(f)

\* The entry follows the files: it has the new key last.
EntryFollows ==
    job \in Job =>
        /\ job.encrypt => entry = IF job.at = "open" THEN job.key ELSE Plain
        /\ ~job.encrypt /\ job.at = "open" => entry = Plain

EncryptionInv == AllTaken /\ Migrated /\ EntryFollows /\ Readable

\* Files and the command are as they were, and no file is dropped.
LEMMA SameFiles ==
    ASSUME EncryptionInv, UNCHANGED <<disk, job, touched, entry>>,
           upset \subseteq upset',
           \A f \in File : f \in todo \/ InHand(f) =>
                failed' \/ f \in todo' \/ InHand(f)' \/ Treated(f),
           failed => failed', todo = File /\ job.at = "load" => todo' = File
    PROVE  Migrated' /\ EntryFollows' /\ Readable'
<1>1. \A f \in File : Treated(f) => Treated(f)'
  BY DEF Treated
<1>2. Migrated'
  <2> SUFFICES ASSUME job' \in Job
               PROVE  /\ job'.at = "load" => todo' = File
                      /\ job'.at = "migrate" =>
                            \/ failed'
                            \/ \A f \in File : \/ f \in todo' \/ InHand(f)'
                                               \/ Treated(f)'
                      /\ job'.at \in {"store", "open"} =>
                            \A f \in File : Treated(f)'
    BY DEF Migrated
  <2> QED
    BY <1>1 DEF EncryptionInv, Migrated
<1>3. EntryFollows'
  BY DEF EncryptionInv, EntryFollows
<1>4. Readable'
  BY DEF EncryptionInv, Readable
<1> QED
  BY <1>2, <1>3, <1>4

LEMMA EncryptionNext ==
    TypeOK /\ WorkersBelong /\ EncryptionInv /\ [Next]_vars => EncryptionInv'
<1> SUFFICES ASSUME TypeOK, WorkersBelong, EncryptionInv, [Next]_vars
             PROVE  EncryptionInv'
  OBVIOUS
<1>0. job \in Job \union {Idle} /\ Job \intersect {Idle} = {}
  BY States DEF TypeOK, Job
<1>1. CASE Encrypt \/ Decrypt
  <2>1. job = Idle /\ job'.at = "load"
    BY <1>1 DEF Encrypt, Decrypt
  <2>2. AllTaken'
    <3>1. \A w \in Worker : worker[w] = Idle
      BY <2>1, <1>0 DEF WorkersBelong
    <3>2. worker' = worker
      BY <1>1 DEF Encrypt, Decrypt
    <3> QED
      BY <3>1, <3>2, States DEF AllTaken
  <2>3. Migrated'
    BY <1>1, <2>1 DEF Migrated, Encrypt, Decrypt
  <2>4. EntryFollows'
    BY <1>1, <2>1 DEF EntryFollows, Encrypt, Decrypt
  <2>5. Readable'
    BY <1>1, <2>1 DEF EncryptionInv, Readable, Encrypt, Decrypt
  <2> QED
    BY <2>2, <2>3, <2>4, <2>5 DEF EncryptionInv
<1>2. CASE StartWorkers
  <2>1. job \in Job
    BY <1>0, <1>2 DEF StartWorkers, Idle
  <2>2. /\ job'.at = "migrate" /\ job'.encrypt = job.encrypt
        /\ job'.key = job.key /\ todo = File
    BY <1>2, <2>1 DEF StartWorkers, Job, EncryptionInv, Migrated
  <2>3. AllTaken'
    BY <1>2, States DEF StartWorkers, AllTaken
  <2>4. Migrated'
    BY <1>2, <2>2 DEF StartWorkers, Migrated
  <2>5. EntryFollows'
    BY <1>2, <2>1, <2>2 DEF StartWorkers, EntryFollows, EncryptionInv
  <2>6. Readable'
    BY <1>2, <2>1, <2>2 DEF StartWorkers, Readable, EncryptionInv, Idle
  <2> QED
    BY <2>3, <2>4, <2>5, <2>6 DEF EncryptionInv
<1>3. CASE Join
  <2>1. job \in Job
    BY <1>0, <1>3 DEF Join, Idle
  <2>2. AllTaken'
    BY <1>3, States DEF Join, AllTaken
  <2>3. CASE failed
    <3>1. job' = Idle /\ (job.encrypt => upset' # {})
      BY <1>3, <2>3 DEF Join
    <3>2. Migrated' /\ EntryFollows'
      BY <3>1, <1>0 DEF Migrated, EntryFollows
    <3>3. Readable'
      BY <1>3, <3>1 DEF Join, Readable, EncryptionInv
    <3> QED
      BY <2>2, <3>2, <3>3 DEF EncryptionInv
  <2>4. CASE ~failed
    <3>1. job' \in Job /\ job'.at = "store" /\ job'.encrypt = job.encrypt
          /\ job'.key = job.key
      BY <1>3, <2>1, <2>4 DEF Join, Job
    <3>2. upset' = upset
      BY <1>3, <2>4 DEF Join
    <3>3. \A f \in File : Treated(f)
      <4>1. todo = {}
        BY <1>3, <2>4, Assumptions DEF Join, EncryptionInv, AllTaken, Assumptions
      <4>2. \A f \in File : ~InHand(f)
        BY <1>3, States DEF Join, InHand
      <4> QED
        BY <1>3, <2>1, <2>4, <4>1, <4>2 DEF Join, EncryptionInv, Migrated
    <3>4. Migrated'
      BY <1>3, <3>1, <3>2, <3>3 DEF Join, Migrated, Treated
    <3>5. EntryFollows'
      BY <1>3, <2>1, <3>1 DEF Join, EntryFollows, EncryptionInv
    <3>6. Readable'
      BY <1>0, <1>3, <2>1, <3>1, <3>2 DEF Join, Readable, EncryptionInv
    <3> QED
      BY <2>2, <3>4, <3>5, <3>6 DEF EncryptionInv
  <2> QED
    BY <2>3, <2>4
<1>4. CASE SaveEntry
  <2>1. job \in Job
    BY <1>0, <1>4 DEF SaveEntry, Idle
  <2>2. job' \in Job /\ job'.at = "open" /\ job'.encrypt = job.encrypt
        /\ job'.key = job.key
    BY <1>4, <2>1 DEF SaveEntry, Job
  <2>3. \A f \in File : Treated(f)
    BY <1>4, <2>1 DEF SaveEntry, EncryptionInv, Migrated
  <2>4. AllTaken'
    BY <1>4 DEF SaveEntry, EncryptionInv, AllTaken
  <2>5. Migrated'
    BY <1>4, <2>2, <2>3 DEF SaveEntry, Migrated, Treated
  <2>6. EntryFollows'
    BY <1>4, <2>2 DEF SaveEntry, EntryFollows
  <2>7. Readable'
    <3>1. CASE job.encrypt
      <4>1. entry = Plain
        BY <1>4, <2>1, <3>1 DEF SaveEntry, EncryptionInv, EntryFollows
      <4> QED
        BY <1>0, <1>4, <2>1, <2>2, <3>1, <4>1
           DEF SaveEntry, EncryptionInv, Readable
    <3>2. CASE ~job.encrypt
      BY <1>4, <2>3, <3>2 DEF SaveEntry, Readable, Treated
    <3> QED
      BY <3>1, <3>2
  <2> QED
    BY <2>4, <2>5, <2>6, <2>7 DEF EncryptionInv
<1>5. CASE OpenKey
  <2>1. job \in Job
    BY <1>0, <1>5 DEF OpenKey, Idle
  <2>2. job' = Idle
    BY <1>5 DEF OpenKey
  <2>3. AllTaken'
    BY <1>5 DEF OpenKey, EncryptionInv, AllTaken
  <2>4. Migrated' /\ EntryFollows'
    BY <1>0, <2>2 DEF Migrated, EntryFollows
  <2>5. Readable'
    BY <1>5, <2>1 DEF OpenKey, EncryptionInv, Readable, EntryFollows
  <2> QED
    BY <2>3, <2>4, <2>5 DEF EncryptionInv
<1>6. ASSUME NEW w \in Worker, TakeFile(w) PROVE EncryptionInv'
  <2>1. AllTaken'
    BY <1>6, States DEF TakeFile, AllTaken, EncryptionInv, TypeOK, Ready, Done
  <2>2. ASSUME NEW f \in File, f \in todo \/ InHand(f)
        PROVE  failed' \/ f \in todo' \/ InHand(f)'
    <3>1. CASE f \in todo /\ f \notin todo'
      <4>1. worker'[w] = [at |-> "read", file |-> f, key |-> Plain]
        BY <1>6, <3>1 DEF TakeFile, TypeOK
      <4>2. worker'[w] \in Holder /\ worker'[w].file = f
        BY <4>1 DEF Holder, KeyOrPlain
      <4> QED
        BY <4>2 DEF InHand
    <3>2. CASE InHand(f)
      <4>1. PICK v \in Worker : worker[v] \in Holder /\ worker[v].file = f
        BY <3>2 DEF InHand
      <4>2. v # w
        BY <1>6, <4>1, States DEF TakeFile
      <4>3. worker'[v] = worker[v]
        BY <1>6, <4>2 DEF TakeFile, TypeOK
      <4> QED
        BY <4>1, <4>3 DEF InHand
    <3> QED
      BY <2>2, <3>1, <3>2
  <2>3. job.at # "load"
    BY <1>6, States DEF TakeFile, WorkersBelong
  <2>4. UNCHANGED <<disk, job, touched, entry, failed, upset>>
    BY <1>6 DEF TakeFile
  <2> QED
    BY <2>1, <2>2, <2>3, <2>4, SameFiles DEF EncryptionInv
<1>7. ASSUME NEW w \in Worker, ReadFile(w) PROVE EncryptionInv'
  <2>1. worker[w] \in Holder /\ job \in Job /\ job.at = "migrate"
    BY <1>7, States DEF ReadFile, TypeOK, Holder, WorkersBelong
  <2>2. AllTaken'
    <3>1. worker'[w] = Done => failed'
      <4>1. [worker[w] EXCEPT !.at = "write"] # Done
        BY <2>1 DEF Holder, Done
      <4> QED
        BY <1>7, <4>1, States DEF ReadFile, TypeOK
    <3>2. (failed => failed') /\ todo' = todo
      BY <1>7 DEF ReadFile
    <3>3. \A v \in Worker \ {w} : worker'[v] = worker[v]
      BY <1>7 DEF ReadFile, TypeOK
    <3> QED
      BY <3>1, <3>2, <3>3 DEF AllTaken, EncryptionInv
  <2>3. ASSUME NEW f \in File, f \in todo \/ InHand(f)
        PROVE  failed' \/ f \in todo' \/ InHand(f)' \/ Treated(f)
    <3>1. CASE f \in todo
      BY <1>7, <3>1 DEF ReadFile
    <3>2. CASE InHand(f)
      <4>1. PICK v \in Worker : worker[v] \in Holder /\ worker[v].file = f
        BY <3>2 DEF InHand
      <4>2. CASE v # w
        <5>1. worker'[v] = worker[v]
          BY <1>7, <4>2 DEF ReadFile, TypeOK
        <5> QED
          BY <4>1, <5>1 DEF InHand
      <4>3. CASE v = w
        <5>1. CASE Skips(disk[f])
          BY <5>1 DEF Skips, Treated
        <5>2. CASE ~Skips(disk[f]) /\ worker' = [worker EXCEPT ![w].at = "write"]
          <6>1. worker'[w] = [worker[w] EXCEPT !.at = "write"]
            BY <5>2 DEF TypeOK
          <6>2. worker'[w] \in Holder /\ worker'[w].file = f
            BY <2>1, <4>1, <4>3, <6>1 DEF Holder
          <6> QED
            BY <6>2 DEF InHand
        <5> QED
          BY <1>7, <4>1, <4>3, <5>1, <5>2 DEF ReadFile
      <4> QED
        BY <4>2, <4>3
    <3> QED
      BY <2>3, <3>1, <3>2
  <2>4. UNCHANGED <<disk, job, touched, entry, upset, todo>> /\ (failed => failed')
    BY <1>7 DEF ReadFile
  <2> QED
    BY <2>1, <2>2, <2>3, <2>4, SameFiles DEF EncryptionInv
<1>8. ASSUME NEW w \in Worker, ReplaceFile(w) PROVE EncryptionInv'
  <2>1. worker[w] \in Holder /\ job \in Job /\ job.at = "migrate"
    BY <1>8, States DEF ReplaceFile, TypeOK, Holder, WorkersBelong
  <2>2. AllTaken'
    BY <1>8, States DEF ReplaceFile, AllTaken, EncryptionInv, TypeOK
  <2> DEFINE g == worker[w].file
             new == IF job.encrypt THEN job.key ELSE Plain
  <2>3. g \in File /\ (job.encrypt => new # Plain)
    BY <2>1, Assumptions DEF Holder, Job, Key, Assumptions
  <2>4. disk' = [disk EXCEPT ![g] = new]
    BY <1>8 DEF ReplaceFile
  <2>5. ASSUME NEW f \in File PROVE f = g \/ Treated(f) => Treated(f)'
    BY <1>8, <2>3, <2>4 DEF ReplaceFile, Treated, TypeOK
  <2>6. ASSUME NEW f \in File PROVE InHand(f) => f = g \/ InHand(f)'
    BY <1>8 DEF ReplaceFile, TypeOK, InHand
  <2>7. Migrated'
    BY <1>8, <2>1, <2>5, <2>6 DEF ReplaceFile, EncryptionInv, Migrated
  <2>8. EntryFollows'
    BY <1>8 DEF ReplaceFile, EncryptionInv, EntryFollows
  <2>9. Readable'
    BY <1>0, <1>8, <2>1, <2>3, <2>4
       DEF ReplaceFile, EncryptionInv, Readable, TypeOK
  <2> QED
    BY <2>2, <2>7, <2>8, <2>9 DEF EncryptionInv
<1>9. ASSUME NEW w \in Worker, FailFile(w) PROVE EncryptionInv'
  <2>1. AllTaken' /\ failed'
    BY <1>9 DEF FailFile, AllTaken
  <2>2. UNCHANGED <<disk, job, touched, entry, upset, todo>>
    BY <1>9 DEF FailFile
  <2> QED
    BY <2>1, <2>2, SameFiles DEF EncryptionInv
<1>10. CASE Verify \/ Unlock
  <2>1. UNCHANGED <<disk, job, touched, entry, upset, todo, failed, worker>>
    BY <1>10 DEF Verify, Unlock
  <2>2. AllTaken'
    BY <2>1 DEF AllTaken, EncryptionInv
  <2> QED
    BY <2>1, <2>2, SameFiles DEF EncryptionInv, InHand
<1>11. ASSUME NEW s \in Saver, NEW f \in File, BeginSave(s, f)
       PROVE  EncryptionInv'
  <2>1. UNCHANGED <<disk, job, touched, entry, upset, todo, failed, worker>>
    BY <1>11 DEF BeginSave
  <2>2. AllTaken'
    BY <2>1 DEF AllTaken, EncryptionInv
  <2> QED
    BY <2>1, <2>2, SameFiles DEF EncryptionInv, InHand
<1>12. ASSUME NEW s \in Saver, EndSave(s) PROVE EncryptionInv'
  <2>1. UNCHANGED <<entry, job, todo, failed, worker>>
    BY <1>12 DEF EndSave
  <2>2. AllTaken' /\ EntryFollows'
    BY <2>1 DEF AllTaken, EntryFollows, EncryptionInv
  <2> DEFINE g == saver[s].file  key == saver[s].key
  <2>3. /\ disk' = [disk EXCEPT ![g] = key]
        /\ touched' = touched \union {g}
        /\ upset \subseteq upset'
    BY <1>12 DEF EndSave
  <2>4. ASSUME NEW f \in File, Treated(f), job \in Job PROVE Treated(f)'
    <3>1. CASE f # g
      BY <2>1, <2>3, <2>4, <3>1 DEF Treated, TypeOK
    <3>2. CASE f = g /\ job.encrypt
      BY <2>1, <2>3, <3>2 DEF Treated
    <3>3. CASE f = g /\ ~job.encrypt
      <4>1. key = Plain \/ "between" \in upset'
        BY <1>0, <1>12, <2>4, <3>3 DEF EndSave
      <4> QED
        BY <2>1, <2>3, <3>3, <4>1 DEF Treated, TypeOK
    <3> QED
      BY <3>1, <3>2, <3>3
  <2>5. Migrated'
    BY <2>1, <2>4 DEF EncryptionInv, Migrated, InHand
  <2>6. Readable'
    <3>1. key \in {Plain, entry} \/ "oldkey" \in upset'
      BY <1>12 DEF EndSave
    <3> QED
      BY <2>1, <2>3, <3>1 DEF EncryptionInv, Readable, TypeOK
  <2> QED
    BY <2>2, <2>5, <2>6 DEF EncryptionInv
<1>13. CASE Crash
  <2>1. job' = Idle /\ UNCHANGED <<disk, entry>>
    BY <1>13 DEF Crash
  <2>2. AllTaken'
    BY <1>13, States DEF Crash, AllTaken
  <2>3. Migrated' /\ EntryFollows'
    BY <1>0, <2>1 DEF Migrated, EntryFollows
  <2>4. Readable'
    <3>1. CASE job = Idle \/ ~job.encrypt \/ "halfway" \in upset'
      BY <1>13, <2>1, <3>1 DEF Crash, EncryptionInv, Readable
    <3>2. CASE job \in Job /\ job.encrypt /\ job.at = "open"
      BY <1>13, <2>1, <3>2 DEF Crash, EncryptionInv, Readable, EntryFollows
    <3> QED
      BY <1>0, <1>13, <3>1, <3>2 DEF Crash
  <2> QED
    BY <2>2, <2>3, <2>4 DEF EncryptionInv
<1>14. CASE UNCHANGED vars
  <2>1. UNCHANGED <<disk, job, touched, entry, upset, todo, failed, worker>>
    BY <1>14 DEF vars
  <2>2. AllTaken'
    BY <2>1 DEF AllTaken, EncryptionInv
  <2> QED
    BY <2>1, <2>2, SameFiles DEF EncryptionInv, InHand
<1> QED
  BY <1>1, <1>2, <1>3, <1>4, <1>5, <1>6, <1>7, <1>8, <1>9, <1>10, <1>11, <1>12,
     <1>13, <1>14 DEF Next

\* The inductive invariant of the encryption: every file is treated, in hand or
\* still to be taken, threads stop early only after an error, and the entry
\* follows the files.
THEOREM EncryptionInvariant == Spec => []EncryptionInv
<1>1. Init => EncryptionInv
  <2> SUFFICES ASSUME Init PROVE EncryptionInv
    OBVIOUS
  <2>1. Idle \notin Job
    BY States DEF Idle, Job
  <2>2. AllTaken
    BY States DEF Init, AllTaken
  <2>3. Readable
    BY DEF Init, Readable
  <2> QED
    BY <2>1, <2>2, <2>3 DEF Init, EncryptionInv, Migrated, EntryFollows
<1> QED
  BY <1>1, EncryptionNext, EncryptionTyped, PTL DEF Spec

\* While nothing irregular has happened every file can be read, with the key of
\* the entry or the one that is about to become it, for any number of files
\* and threads (set_encryption, migrate_all_files).
THEOREM AlwaysReadable == Spec => []Readable
BY EncryptionInvariant, PTL DEF EncryptionInv

\* When set_encryption has encrypted the account, only files saved meanwhile
\* can be unencrypted (migrate_all_files).
THEOREM AllEncrypted == Spec => []NothingLeftPlain
<1>1. TypeOK /\ EncryptionInv => NothingLeftPlain
  <2> SUFFICES ASSUME TypeOK, EncryptionInv, job # Idle, job.encrypt,
                      job.at \in {"store", "open"}, NEW f \in File \ touched
               PROVE  disk[f] # Plain
    BY DEF NothingLeftPlain
  <2>1. job \in Job
    BY DEF TypeOK, Job
  <2> QED
    BY <2>1 DEF EncryptionInv, Migrated, Treated
<1> QED
  BY <1>1, EncryptionInvariant, EncryptionTyped, PTL

-----------------------------------------------------------------------------
(* AccountData *)

Updates == SUBSET (0..MaxUpdates)
Place == {"look", "fill", "insert", "cut", "ask", "save", "write", "remove"}
Command == [at : Place, kind : Kind, of : Account, op : {"get", "add", "drop", "prune"},
            sets : Updates, data : Updates, open : BOOLEAN]

\* The states of a command and of the page can be told apart.
LEMMA CommandForms ==
    /\ \A j \in Command \union {NoCommand} :
        /\ j # NoCommand <=> j \in Command
        /\ j.at \in Place <=> j \in Command
    /\ NoCommand \notin Command
    /\ \A j \in Command :
        /\ j.kind \in Kind /\ j.of \in Account
        /\ j.data \in Updates /\ j.sets \in Updates
        /\ j.open \in BOOLEAN
BY DEF Command, NoCommand, Place

\* Nothing is no save.
LEMMA NoneIsNoSave == None \notin Saving /\ None \notin Flight
BY DataAssumptions DEF DataAssumptions

\* What a step of command t leaves of the others
Others(t) == \A u \in Thread \ {t} : thread'[u] = thread[u]

\* Command t is now at `at' with `data'.
Went(t, at, data) ==
    /\ thread'[t] \in Command
    /\ thread'[t].at = at
    /\ thread'[t].kind = thread[t].kind
    /\ thread'[t].of = thread[t].of
    /\ thread'[t].op = thread[t].op
    /\ thread'[t].sets = thread[t].sets
    /\ thread'[t].data = data

CommandsTyped == thread \in [Thread -> {NoCommand} \union Command]

LEMMA Going ==
    ASSUME CommandsTyped, NEW t \in Thread, thread[t] \in Command,
           NEW at \in Place, NEW data \in Updates, Goes(t, at, data)
    PROVE  /\ CommandsTyped' /\ Went(t, at, data) /\ Others(t)
           /\ thread'[t].open = (unlocked = thread[t].of)
<1> DEFINE next == [thread[t] EXCEPT !.at = at, !.data = data,
                                     !.open = (unlocked = thread[t].of)]
<1>1. next \in Command
  BY DEF Command
<1>2. thread' = [thread EXCEPT ![t] = next]
  BY DEF Goes
<1>3. thread'[t] = next /\ Others(t) /\ CommandsTyped'
  BY <1>1, <1>2 DEF CommandsTyped, Others
<1>4. /\ next.at = at /\ next.kind = thread[t].kind /\ next.of = thread[t].of
      /\ next.op = thread[t].op /\ next.sets = thread[t].sets
      /\ next.data = data /\ next.open = (unlocked = thread[t].of)
  BY DEF Command
<1> QED
  BY <1>1, <1>3, <1>4 DEF Went

LEMMA Turning ==
    ASSUME CommandsTyped, NEW t \in Thread, thread[t] \in Command,
           NEW at \in Place, Turns(t, at)
    PROVE  /\ CommandsTyped' /\ Went(t, at, thread[t].data) /\ Others(t)
           /\ thread'[t].open = thread[t].open
<1> DEFINE next == [thread[t] EXCEPT !.at = at]
<1>1. next \in Command
  BY DEF Command
<1>2. thread' = [thread EXCEPT ![t] = next]
  BY DEF Turns
<1>3. thread'[t] = next /\ Others(t) /\ CommandsTyped'
  BY <1>1, <1>2 DEF CommandsTyped, Others
<1>4. /\ next.at = at /\ next.kind = thread[t].kind /\ next.of = thread[t].of
      /\ next.op = thread[t].op /\ next.sets = thread[t].sets
      /\ next.data = thread[t].data /\ next.open = thread[t].open
  BY DEF Command
<1> QED
  BY <1>1, <1>3, <1>4 DEF Went

LEMMA Ending ==
    ASSUME CommandsTyped, NEW t \in Thread, Ends(t)
    PROVE  CommandsTyped' /\ thread'[t] = NoCommand /\ Others(t)
BY DEF CommandsTyped, Ends, Others

LEMMA Changing ==
    ASSUME NEW op, NEW data \in Updates, NEW sets \in Updates
    PROVE  Change(op, data, sets) \in Updates
BY DEF Change, Updates

\* An entry of a table of files is replaced, all others are left alone.
Replaced(old, new, k, a, v) ==
    /\ new[k][a] = v
    /\ \A l \in Kind, b \in Account : l # k \/ b # a => new[l][b] = old[l][b]

LEMMA Replacing ==
    ASSUME NEW S, NEW old \in [Kind -> [Account -> S]], NEW k \in Kind,
           NEW a \in Account, NEW v \in S, NEW new,
           new = [old EXCEPT ![k][a] = v]
    PROVE  new \in [Kind -> [Account -> S]] /\ Replaced(old, new, k, a, v)
<1>1. new = [old EXCEPT ![k] = [old[k] EXCEPT ![a] = v]]
  OBVIOUS
<1>2. old[k] \in [Account -> S]
  OBVIOUS
<1>3. [old[k] EXCEPT ![a] = v] \in [Account -> S]
  BY <1>2
<1>4. new \in [Kind -> [Account -> S]] /\ new[k] = [old[k] EXCEPT ![a] = v]
  BY <1>1, <1>3
<1>5. \A l \in Kind \ {k} : new[l] = old[l]
  BY <1>1
<1>6. new[k][a] = v /\ \A b \in Account \ {a} : new[k][b] = old[k][b]
  BY <1>2, <1>4
<1> QED
  BY <1>4, <1>5, <1>6 DEF Replaced

\* The same of a table that is a variable, f, and of any of its values
LEMMA Putting ==
    ASSUME NEW S, NEW old \in [Kind -> [Account -> S]], NEW k \in Kind,
           NEW a \in Account, NEW v \in S
    PROVE  \A new : new = Put(old, k, a, v) =>
                new \in [Kind -> [Account -> S]] /\ Replaced(old, new, k, a, v)
BY Replacing DEF Put

CopyOrNone == {None} \union Updates
SaveOrNone == {None} \union Saving
FlightOrNone == {None} \union Flight

PageForm == [at : {"lock", "enter", "open"}, of : Account] \union
            {[at |-> "select"]}

\* DataTypeOK in parts
StoreTyped ==
    /\ file \in [Kind -> [Account -> Saving]]
    /\ pending \in [Kind -> [Account -> SaveOrNone]]
    /\ flying \in [Kind -> [Account -> FlightOrNone]]
TypedParts ==
    /\ unlocked \in Account \union {None}
    /\ page \in PageForm
    /\ StoreTyped
    /\ cache \in [Kind -> [Account -> CopyOrNone]]
    /\ CommandsTyped
    /\ begun \in 0..MaxUpdates
    /\ saved \in [Kind -> [Account -> Updates]]
    /\ displaced \subseteq Account
    /\ closed \subseteq Account
    /\ overlap \subseteq Kind \X Account
    /\ lost \subseteq Kind \X Account

LEMMA CopyReplaced ==
    ASSUME TypedParts, NEW k \in Kind, NEW a \in Account, NEW v \in CopyOrNone,
           cache' = Put(cache, k, a, v)
    PROVE  cache' \in [Kind -> [Account -> CopyOrNone]] /\ Replaced(cache, cache', k, a, v)
<1>1. cache \in [Kind -> [Account -> CopyOrNone]]
  BY DEF TypedParts
<1> QED
  BY <1>1, Putting

LEMMA FileReplaced ==
    ASSUME TypedParts, NEW k \in Kind, NEW a \in Account, NEW v \in Saving,
           file' = Put(file, k, a, v)
    PROVE  file' \in [Kind -> [Account -> Saving]] /\ Replaced(file, file', k, a, v)
<1>1. file \in [Kind -> [Account -> Saving]]
  BY DEF TypedParts, StoreTyped
<1> QED
  BY <1>1, Putting

LEMMA PendingReplaced ==
    ASSUME TypedParts, NEW k \in Kind, NEW a \in Account, NEW v \in SaveOrNone,
           pending' = Put(pending, k, a, v)
    PROVE  pending' \in [Kind -> [Account -> SaveOrNone]] /\ Replaced(pending, pending', k, a, v)
<1>1. pending \in [Kind -> [Account -> SaveOrNone]]
  BY DEF TypedParts, StoreTyped
<1> QED
  BY <1>1, Putting

LEMMA FlyingReplaced ==
    ASSUME TypedParts, NEW k \in Kind, NEW a \in Account, NEW v \in FlightOrNone,
           flying' = Put(flying, k, a, v)
    PROVE  flying' \in [Kind -> [Account -> FlightOrNone]] /\ Replaced(flying, flying', k, a, v)
<1>1. flying \in [Kind -> [Account -> FlightOrNone]]
  BY DEF TypedParts, StoreTyped
<1> QED
  BY <1>1, Putting

LEMMA SavedReplaced ==
    ASSUME TypedParts, NEW k \in Kind, NEW a \in Account, NEW v \in Updates,
           saved' = Put(saved, k, a, v)
    PROVE  saved' \in [Kind -> [Account -> Updates]] /\ Replaced(saved, saved', k, a, v)
<1>1. saved \in [Kind -> [Account -> Updates]]
  BY DEF TypedParts
<1> QED
  BY <1>1, Putting

LEMMA TypesInParts == DataTypeOK <=> TypedParts
<1>1. StoreTyped <=>
        /\ file \in [Kind -> [Account -> Saving]]
        /\ pending \in [Kind -> [Account -> {None} \union Saving]]
        /\ flying \in [Kind -> [Account -> {None} \union Flight]]
  BY DEF StoreTyped, SaveOrNone, FlightOrNone
<1>2. cache \in [Kind -> [Account -> CopyOrNone]] <=>
        cache \in [Kind -> [Account -> {None} \union SUBSET (0..MaxUpdates)]]
  BY DEF CopyOrNone, Updates
<1>3. CommandsTyped <=> thread \in [Thread -> {NoCommand} \union
            [at : {"look", "fill", "insert", "cut", "ask", "save", "write", "remove"},
             kind : Kind, of : Account, op : {"get", "add", "drop", "prune"},
             sets : SUBSET (0..MaxUpdates),
             data : SUBSET (0..MaxUpdates), open : BOOLEAN]]
  BY DEF CommandsTyped, Command, Updates, Place
<1>4. saved \in [Kind -> [Account -> Updates]] <=>
        saved \in [Kind -> [Account -> SUBSET (0..MaxUpdates)]]
  BY DEF Updates
<1>5. page \in PageForm <=>
        page \in [at : {"lock", "enter", "open"}, of : Account] \union
                {[at |-> "select"]}
  BY DEF PageForm
<1> QED
  BY <1>1, <1>2, <1>3, <1>4, <1>5 DEF DataTypeOK, TypedParts

LEMMA PageForms ==
    \A p \in PageForm :
        /\ p.at \in {"lock", "enter", "open"} => p.of \in Account
        /\ p.at = "lock" => [p EXCEPT !.at = "enter"] \in PageForm
        /\ \A at \in {"lock", "open"} : p.at = "enter" => [p EXCEPT !.at = at] \in PageForm
BY DEF PageForm

LEMMA Stored ==
    ASSUME TypedParts, NEW k \in Kind, NEW a \in Account
    PROVE  /\ file[k][a] \in Saving /\ file[k][a].data \in Updates
           /\ pending[k][a] # None => pending[k][a] \in Saving /\ pending[k][a].data \in Updates
           /\ flying[k][a] # None => flying[k][a] \in Flight
           /\ Truncated \in Saving
<1>1. /\ file[k][a] \in Saving /\ pending[k][a] \in SaveOrNone
      /\ flying[k][a] \in FlightOrNone
  BY DEF TypedParts, StoreTyped
<1>2. \A s \in Saving : s.data \in Updates
  BY DEF Saving, Updates
<1> QED
  BY <1>1, <1>2 DEF SaveOrNone, FlightOrNone, Truncated, Saving

LEMMA Reading ==
    ASSUME DataTypeOK, NEW a \in Account
    PROVE  /\ \A k \in Kind :
               /\ Contents(k, a) \in Updates
               /\ cache[k][a] \in Updates \union {None}
           /\ "meta" \in Kind
           /\ View(a) \in Updates \union {None}
<1>1. "meta" \in Kind
  BY DataAssumptions DEF DataAssumptions
<1>2. TypedParts
  BY TypesInParts
<1>3. \A l \in Kind : cache[l][a] \in CopyOrNone
  BY <1>2 DEF TypedParts
<1>4. \A l \in Kind : Contents(l, a) \in Updates
  <2> SUFFICES ASSUME NEW l \in Kind PROVE Contents(l, a) \in Updates
    OBVIOUS
  <2>1. file[l][a].data \in Updates
        /\ (pending[l][a] # None => pending[l][a].data \in Updates)
    BY <1>2, Stored
  <2>2. {} \in Updates
    BY DEF Updates
  <2> QED
    BY <2>1, <2>2 DEF Contents
<1> QED
  BY <1>1, <1>3, <1>4 DEF View, CopyOrNone

LEMMA DataTypes == DataTypeOK => CommandsTyped
BY TypesInParts DEF TypedParts

\* What a command does that reads: it ends, or makes a copy, or goes on to
\* change the file, or first the copy.
ReadEnds(t) == Ends(t)
ReadFills(t) ==
    /\ Goes(t, "fill", Opened(thread[t]))
    /\ Copy(thread[t]) = None
    /\ thread[t].kind \in {"meta", "settings", "index"}
    /\ thread[t].kind = "meta" => thread[t].op = "get"
    /\ thread[t].kind = "index" => thread[t].op \in {"get", "prune"}
ReadSaves(t) ==
    /\ Goes(t, "save", Opened(thread[t]))
    /\ thread[t].kind \in {"meta", "chat", "storage"}
    /\ thread[t].kind = "meta" => Opened(thread[t]) # {}
ReadAsks(t) ==
    /\ Goes(t, "ask", Copy(thread[t]))
    /\ thread[t].kind = "settings"
    /\ Copy(thread[t]) # None
ReadInserts(t) ==
    /\ Goes(t, "insert", IF Copy(thread[t]) = None THEN Opened(thread[t])
                         ELSE Copy(thread[t]))
    /\ thread[t].kind = "index"
ReadCuts(t) ==
    /\ Goes(t, "cut", Copy(thread[t]))
    /\ thread[t].kind = "index"
    /\ Copy(thread[t]) # None

LEMMA ReadCases ==
    ASSUME DataTypeOK, NEW t \in Thread, Read(t)
    PROVE  /\ thread[t] \in Command /\ thread[t].at = "look"
           /\ \/ ReadEnds(t) \/ ReadFills(t) \/ ReadSaves(t)
              \/ ReadAsks(t) \/ ReadInserts(t) \/ ReadCuts(t)
<1>1. thread[t] \in Command /\ thread[t].at = "look"
  BY CommandForms, DataTypes DEF Read, CommandsTyped, Place
<1>2. thread[t].kind \in {"meta", "settings", "index", "chat", "storage"}
  BY <1>1, DataAssumptions, CommandForms DEF DataAssumptions
<1>3. CASE thread[t].kind = "meta"
  BY <1>1, <1>3 DEF Read, ReadMeta, ReadEnds, ReadFills, ReadSaves
<1>4. CASE thread[t].kind = "settings"
  BY <1>1, <1>4 DEF Read, ReadSettings, ReadEnds, ReadFills, ReadAsks
<1>5. CASE thread[t].kind = "index"
  BY <1>1, <1>5 DEF Read, ReadIndex, ReadEnds, ReadFills, ReadInserts, ReadCuts, Command
<1>6. CASE thread[t].kind = "chat"
  BY <1>1, <1>6 DEF Read, ReadChat, ReadSaves
<1>7. CASE thread[t].kind = "storage"
  BY <1>1, <1>7 DEF Read, ReadStorage, ReadEnds, ReadSaves
<1> QED
  BY <1>1, <1>2, <1>3, <1>4, <1>5, <1>6, <1>7

-----------------------------------------------------------------------------
(* What the steps of a command have in common *)

\* Command t uses file k of account a.
Uses(t, k, a) ==
    /\ thread[t] # NoCommand
    /\ thread[t].kind = k
    /\ thread[t].of = a

\* The command of t ends, or goes on with its file.
Proceeds(t) ==
    /\ Others(t)
    /\ \/ thread'[t] = NoCommand
       \/ /\ thread'[t] \in Command
          /\ thread'[t].kind = thread[t].kind
          /\ thread'[t].of = thread[t].of

LEMMA Stepping ==
    ASSUME DataTypeOK, NEW t \in Thread, Step(t)
    PROVE  /\ thread[t] \in Command /\ thread[t] # NoCommand
           /\ thread[t].kind \in Kind /\ thread[t].of \in Account
           /\ thread[t].data \in Updates /\ thread[t].sets \in Updates
           /\ New(thread[t]) \in Updates
           /\ Opened(thread[t]) \in Updates
           /\ Copy(thread[t]) \in CopyOrNone
           /\ CommandsTyped'
           /\ Proceeds(t)
<1>0. CommandsTyped
  BY DataTypes
<1>1. thread[t] \in Command
  BY <1>0, CommandForms
  DEF Step, Read, Fill, Insert, Ask, Save, Open, Write, Fails, Remove, CommandsTyped, Place
<1>2. /\ thread[t].kind \in Kind /\ thread[t].of \in Account
      /\ thread[t].data \in Updates /\ thread[t].sets \in Updates
      /\ New(thread[t]) \in Updates
  BY <1>1, CommandForms, Changing DEF New
<1>3. Opened(thread[t]) \in Updates /\ Copy(thread[t]) \in CopyOrNone
  BY <1>2, Reading DEF Opened, Copy, CopyOrNone
<1>4. ASSUME Ends(t) PROVE CommandsTyped' /\ Proceeds(t)
  BY <1>0, <1>4, Ending DEF Proceeds
<1>5. ASSUME NEW at \in Place, NEW data \in Updates, Goes(t, at, data)
      PROVE  CommandsTyped' /\ Proceeds(t)
  BY <1>0, <1>1, <1>5, Going DEF Went, Proceeds
<1>6. ASSUME NEW at \in Place, Turns(t, at) PROVE CommandsTyped' /\ Proceeds(t)
  BY <1>0, <1>1, <1>6, Turning DEF Went, Proceeds
<1>7. CommandsTyped' /\ Proceeds(t)
  <2>1. CASE Read(t)
    <3>1. (IF Copy(thread[t]) = None THEN Opened(thread[t]) ELSE Copy(thread[t])) \in Updates
      BY <1>3 DEF CopyOrNone
    <3>2. Ends(t) \/ \E at \in Place, data \in Updates : Goes(t, at, data)
      BY <1>3, <2>1, <3>1, ReadCases
      DEF ReadEnds, ReadFills, ReadSaves, ReadAsks, ReadInserts, ReadCuts, CopyOrNone, Place
    <3> QED
      BY <1>4, <1>5, <3>2
  <2>2. CASE Fill(t) \/ Insert(t) \/ Save(t) \/ Open(t) \/ Write(t)
    <3>1. Ends(t) \/ \E at \in Place : Turns(t, at)
      BY <2>2 DEF Fill, Insert, Save, Open, Write, Written, Place
    <3> QED
      BY <1>4, <1>6, <3>1
  <2>3. CASE Ask(t)
    BY <1>2, <1>5, <2>3 DEF Ask, Place
  <2>4. CASE Fails(t) \/ Remove(t)
    BY <1>4, <2>4 DEF Fails, Remove
  <2> QED
    BY <2>1, <2>2, <2>3, <2>4 DEF Step
<1> QED
  BY <1>1, <1>2, <1>3, <1>7, CommandForms

LEMMA Containing ==
    ASSUME DataTypeOK, NEW t \in Thread, Step(t)
    PROVE  /\ Contained(thread[t]) \in Saving
           /\ Contained(thread[t]).data = New(thread[t])
           /\ Contained(thread[t]).encrypted = thread[t].open
<1>1. New(thread[t]) \in SUBSET (0..MaxUpdates) /\ thread[t].open \in BOOLEAN
  BY Stepping, CommandForms DEF Updates
<1> QED
  BY <1>1 DEF Contained, Saving

\* The history is that of the updates.
LEMMA SavedAll ==
    ASSUME DataTypeOK, NEW t \in Thread, Step(t), Saved(thread[t])
    PROVE  /\ saved' \in [Kind -> [Account -> Updates]]
           /\ Replaced(saved, saved', thread[t].kind, thread[t].of,
                       Change(thread[t].op, saved[thread[t].kind][thread[t].of], thread[t].sets))
           /\ closed \subseteq closed' /\ closed' \subseteq closed \union {thread[t].of}
<1> DEFINE j == thread[t]
           list == Change(j.op, saved[j.kind][j.of], j.sets)
<1>1. TypedParts
  BY TypesInParts
<1>2. j.kind \in Kind /\ j.of \in Account /\ j.sets \in Updates
  BY Stepping
<1>3. list \in Updates
  BY <1>1, <1>2, Changing DEF TypedParts
<1>4. saved' = Put(saved, j.kind, j.of, list)
  BY DEF Saved
<1> HIDE DEF list
<1>5. saved' \in [Kind -> [Account -> Updates]] /\ Replaced(saved, saved', j.kind, j.of, list)
  BY <1>1, <1>2, <1>3, <1>4, SavedReplaced
<1> QED
  BY <1>5 DEF Saved, list

-----------------------------------------------------------------------------
(* Types *)

LEMMA DataTypesInit == DataInit => DataTypeOK
<1> SUFFICES ASSUME DataInit PROVE TypedParts
  BY TypesInParts
<1>1. 0 \in 0..MaxUpdates
  BY DataAssumptions DEF DataAssumptions
<1>2. [data |-> {0}, encrypted |-> TRUE] \in Saving /\ {0} \in Updates
  BY <1>1 DEF Saving, Updates
<1>3. StoreTyped
  BY <1>2 DEF DataInit, StoreTyped, SaveOrNone, FlightOrNone
<1>4. saved \in [Kind -> [Account -> Updates]]
  BY <1>2 DEF DataInit
<1>5. cache \in [Kind -> [Account -> CopyOrNone]]
  BY DEF DataInit, CopyOrNone
<1>6. CommandsTyped
  BY DEF DataInit, CommandsTyped
<1>7. page \in PageForm
  BY DEF DataInit, PageForm
<1> QED
  BY <1>1, <1>3, <1>4, <1>5, <1>6, <1>7 DEF DataInit, TypedParts

\* What the store of the files becomes in a step of the flush task
LEMMA FlushTyped ==
    ASSUME TypedParts, NEW k \in Kind, NEW a \in Account, Flush(k, a)
    PROVE  StoreTyped'
<1>1. /\ file[k][a] \in Saving /\ Truncated \in Saving
      /\ pending[k][a] # None => pending[k][a] \in Saving
      /\ flying[k][a] # None => flying[k][a] \in Flight
      /\ None \in SaveOrNone /\ None \in FlightOrNone
  BY Stored DEF SaveOrNone, FlightOrNone
<1>2. CASE FlushTakes(k, a)
  <2>1. [save |-> pending[k][a], at |-> "taken"] \in FlightOrNone
    BY <1>1, <1>2 DEF FlushTakes, Flight, FlightOrNone
  <2> QED
    BY <1>1, <1>2, <2>1, PendingReplaced, FlyingReplaced
    DEF FlushTakes, TypedParts, StoreTyped
<1>3. CASE FlushDrops(k, a)
  <2>1. [flying[k][a] EXCEPT !.at = "writing"] \in FlightOrNone
    BY <1>1, <1>3 DEF FlushDrops, Flight, FlightOrNone
  <2> QED
    BY <1>1, <1>3, <2>1, PendingReplaced, FlyingReplaced
    DEF FlushDrops, TypedParts, StoreTyped
<1>4. CASE FlushOpens(k, a)
  <2>1. [flying[k][a] EXCEPT !.at = "open"] \in FlightOrNone
    BY <1>1, <1>4 DEF FlushOpens, Flight, FlightOrNone
  <2> QED
    BY <1>1, <1>4, <2>1, FileReplaced, FlyingReplaced
    DEF FlushOpens, TypedParts, StoreTyped
<1>5. CASE FlushEnds(k, a)
  <2>1. flying[k][a].save \in Saving
    BY <1>1, <1>5 DEF FlushEnds, Flight
  <2> QED
    BY <1>1, <1>5, <2>1, FileReplaced, FlyingReplaced
    DEF FlushEnds, TypedParts, StoreTyped
<1>6. CASE FlushFails(k, a)
  BY <1>1, <1>6, FlyingReplaced DEF FlushFails, TypedParts, StoreTyped
<1> QED
  BY <1>2, <1>3, <1>4, <1>5, <1>6 DEF Flush

\* A step of the flush task changes only the store.
LEMMA FlushAlone ==
    ASSUME NEW k, NEW a, Flush(k, a)
    PROVE  /\ UNCHANGED <<unlocked, page, cache, thread, begun, saved, displaced,
                          closed, overlap>>
           /\ lost \subseteq lost' /\ lost' \subseteq lost \union {<<k, a>>}
BY DEF Flush, FlushTakes, FlushDrops, FlushOpens, FlushEnds, FlushFails, history

\* A step of a command leaves the session and the page alone.
LEMMA StepAlone ==
    ASSUME NEW t, Step(t)
    PROVE  /\ UNCHANGED <<unlocked, page, flying, begun, displaced, overlap>>
           /\ lost \subseteq lost'
           /\ ~Fails(t) /\ ~Read(t) => lost' = lost
           /\ ~Save(t) => UNCHANGED pending
           /\ ~Open(t) /\ ~Write(t) => UNCHANGED file
           /\ ~Save(t) /\ ~Write(t) => UNCHANGED saved
           /\ ~Fill(t) /\ ~Insert(t) /\ ~Remove(t) => UNCHANGED cache
BY DEF Step, Read, Fill, Insert, Ask, Save, Open, Write, Fails, Remove, history, store

\* What a step of a command makes of its file
LEMMA StepFiles ==
    ASSUME DataTypeOK, NEW t \in Thread, Step(t)
    PROVE  LET k == thread[t].kind
               a == thread[t].of
           IN
           /\ Save(t) => Replaced(pending, pending', k, a, Contained(thread[t]))
           /\ Open(t) => Replaced(file, file', k, a, Truncated)
           /\ Write(t) => Replaced(file, file', k, a, Contained(thread[t]))
           /\ Fill(t) => Replaced(cache, cache', k, a, thread[t].data)
           /\ Insert(t) => Replaced(cache, cache', k, a, New(thread[t]))
           /\ Remove(t) => Replaced(cache, cache', k, a, None)
           /\ StoreTyped'
           /\ cache' \in [Kind -> [Account -> CopyOrNone]]
<1> DEFINE k == thread[t].kind
           a == thread[t].of
           c == Contained(thread[t])
<1>0. TypedParts
  BY TypesInParts
<1>1. /\ k \in Kind /\ a \in Account
      /\ thread[t].data \in CopyOrNone /\ New(thread[t]) \in CopyOrNone /\ None \in CopyOrNone
  BY Stepping DEF CopyOrNone
<1>2. c \in Saving /\ c \in SaveOrNone /\ Truncated \in Saving
  BY Containing, <1>0, <1>1, Stored DEF SaveOrNone
<1>3. CASE Save(t)
  <2>1. pending' = Put(pending, k, a, c) /\ UNCHANGED <<file, flying, cache>>
    BY <1>3 DEF Save
  <2>2. ~Open(t) /\ ~Write(t) /\ ~Fill(t) /\ ~Insert(t) /\ ~Remove(t)
    BY <1>3 DEF Save, Open, Write, Fill, Insert, Remove
  <2> HIDE DEF c
  <2>3. pending' \in [Kind -> [Account -> SaveOrNone]] /\ Replaced(pending, pending', k, a, c)
    BY <1>0, <1>1, <1>2, <2>1, PendingReplaced
  <2> QED
    BY <1>0, <2>1, <2>2, <2>3 DEF TypedParts, StoreTyped, c
<1>4. CASE Open(t)
  <2>1. file' = Put(file, k, a, Truncated) /\ UNCHANGED <<pending, flying, cache>>
    BY <1>4 DEF Open
  <2>2. ~Save(t) /\ ~Write(t) /\ ~Fill(t) /\ ~Insert(t) /\ ~Remove(t)
    BY <1>4 DEF Save, Open, Write, Fill, Insert, Remove
  <2>3. file' \in [Kind -> [Account -> Saving]] /\ Replaced(file, file', k, a, Truncated)
    BY <1>0, <1>1, <1>2, <2>1, FileReplaced
  <2> QED
    BY <1>0, <2>1, <2>2, <2>3 DEF TypedParts, StoreTyped
<1>5. CASE Write(t)
  <2>1. file' = Put(file, k, a, c) /\ UNCHANGED <<pending, flying, cache>>
    BY <1>5 DEF Write
  <2>2. ~Save(t) /\ ~Open(t) /\ ~Fill(t) /\ ~Insert(t) /\ ~Remove(t)
    BY <1>5 DEF Save, Open, Write, Fill, Insert, Remove
  <2> HIDE DEF c
  <2>3. file' \in [Kind -> [Account -> Saving]] /\ Replaced(file, file', k, a, c)
    BY <1>0, <1>1, <1>2, <2>1, FileReplaced
  <2> QED
    BY <1>0, <2>1, <2>2, <2>3 DEF TypedParts, StoreTyped, c
<1>6. ASSUME NEW v \in CopyOrNone, cache' = Put(cache, k, a, v)
      PROVE  cache' \in [Kind -> [Account -> CopyOrNone]] /\ Replaced(cache, cache', k, a, v)
  BY <1>0, <1>1, <1>6, CopyReplaced
<1>7. CASE Fill(t) \/ Insert(t) \/ Remove(t)
  <2>1. StoreTyped' /\ ~Save(t) /\ ~Open(t) /\ ~Write(t)
    BY <1>0, <1>7
    DEF Fill, Insert, Remove, Save, Open, Write, store, history, TypedParts, StoreTyped
  <2>2. CASE Fill(t)
    <3>1. ~Insert(t) /\ ~Remove(t) /\ cache' = Put(cache, k, a, thread[t].data)
      BY <2>2 DEF Fill, Insert, Remove
    <3> QED
      BY <1>1, <1>6, <2>1, <3>1
  <2>3. CASE Insert(t)
    <3>1. ~Fill(t) /\ ~Remove(t) /\ cache' = Put(cache, k, a, New(thread[t]))
      BY <2>3 DEF Fill, Insert, Remove
    <3> QED
      BY <1>1, <1>6, <2>1, <3>1
  <2>4. CASE Remove(t)
    <3>1. ~Insert(t) /\ ~Fill(t) /\ cache' = Put(cache, k, a, None)
      BY <2>4 DEF Fill, Insert, Remove
    <3> QED
      BY <1>1, <1>6, <2>1, <3>1
  <2> QED
    BY <1>7, <2>2, <2>3, <2>4
<1>8. CASE Read(t) \/ Ask(t) \/ Fails(t)
  <2>1. UNCHANGED <<store, cache>>
    BY <1>8 DEF Read, Ask, Fails
  <2>2. \/ ~Save(t) /\ ~Open(t) /\ ~Write(t) /\ ~Fill(t) /\ ~Insert(t) /\ ~Remove(t)
        \/ Fails(t)
    BY <1>8 DEF Read, Ask, Save, Open, Write, Fill, Insert, Remove
  <2>3. CASE Fails(t)
    <3>1. UNCHANGED <<file, pending, flying, cache>>
      BY <2>1 DEF store
    <3>2. ~Save(t) /\ ~Fill(t) /\ ~Insert(t) /\ ~Remove(t)
      BY <2>3 DEF Fails, Save, Fill, Insert, Remove
    <3> QED
      BY <1>0, <1>3, <1>4, <1>5, <3>1, <3>2 DEF TypedParts, StoreTyped
  <2> QED
    BY <1>0, <2>1, <2>2, <2>3 DEF TypedParts, StoreTyped, store
<1> QED
  BY <1>3, <1>4, <1>5, <1>7, <1>8 DEF Step

LEMMA DataTypesNext == DataTypeOK /\ [DataNext]_dataVars => DataTypeOK'
<1> SUFFICES ASSUME DataTypeOK, [DataNext]_dataVars PROVE DataTypeOK'
  OBVIOUS
<1> SUFFICES TypedParts'
  BY TypesInParts, PTL
<1> USE DEF history, store
<1>0. TypedParts
  BY TypesInParts
<1>1. CommandsTyped
  BY DataTypes
<1>2. ASSUME NEW a \in Account, Select(a) PROVE TypedParts'
  <2>1. View(a) \in CopyOrNone /\ "meta" \in Kind
    BY Reading DEF CopyOrNone
  <2>2. cache' \in [Kind -> [Account -> CopyOrNone]]
    BY <1>0, <1>2, <2>1, Replacing DEF Select, Look, TypedParts
  <2>3. page' \in PageForm
    BY <1>2 DEF Select, PageForm
  <2> QED
    BY <1>0, <1>2, <2>2, <2>3 DEF Select, TypedParts, CommandsTyped, StoreTyped
<1>3. CASE UnlockPage
  <2>1. page.of \in Account /\ page' \in PageForm
    BY <1>0, <1>3, PageForms DEF UnlockPage, TypedParts
  <2>2. \A k \in Kind : [cache[k] EXCEPT ![page.of] = None] \in [Account -> CopyOrNone]
    BY <1>0, <2>1 DEF TypedParts, CopyOrNone
  <2>3. cache' \in [Kind -> [Account -> CopyOrNone]]
    BY <1>0, <1>3, <2>2 DEF UnlockPage, TypedParts
  <2> QED
    BY <1>0, <1>3, <2>1, <2>3 DEF UnlockPage, TypedParts, CommandsTyped, StoreTyped
<1>4. CASE Enter
  <2>1. page.of \in Account /\ page' \in PageForm
    BY <1>0, <1>4, PageForms DEF Enter, TypedParts
  <2>2. View(page.of) \in CopyOrNone /\ "meta" \in Kind
    BY <2>1, Reading DEF CopyOrNone
  <2>3. cache' \in [Kind -> [Account -> CopyOrNone]]
    BY <1>0, <1>4, <2>1, <2>2, Replacing DEF Enter, Look, TypedParts
  <2> QED
    BY <1>0, <1>4, <2>1, <2>3 DEF Enter, TypedParts, CommandsTyped, StoreTyped
<1>5. CASE Leave
  BY <1>0, <1>5 DEF Leave, TypedParts, CommandsTyped, PageForm, StoreTyped
<1>6. CASE Restart
  <2>1. cache' \in [Kind -> [Account -> CopyOrNone]]
    BY <1>6 DEF Restart, CopyOrNone
  <2>2. CommandsTyped'
    BY <1>6 DEF Restart, CommandsTyped
  <2>3. page' \in PageForm
    BY <1>6 DEF Restart, PageForm
  <2>4. StoreTyped'
    BY <1>0, <1>6 DEF Restart, TypedParts, StoreTyped, SaveOrNone, FlightOrNone
  <2>5. lost' \subseteq Kind \X Account
    BY <1>0, <1>6 DEF Restart, TypedParts
  <2> QED
    BY <1>0, <1>6, <2>1, <2>2, <2>3, <2>4, <2>5 DEF Restart, TypedParts
<1>7. ASSUME NEW t \in Thread, Begin(t) PROVE TypedParts'
  <2>1. PICK k, op, a, sets :
          /\ k \in Kind /\ op \in {"get", "add", "drop", "prune"} /\ a \in Account
          /\ sets \in About(op)
          /\ op = "add" => begun < MaxUpdates
          /\ begun' = IF op = "add" THEN begun + 1 ELSE begun
          /\ thread' = [thread EXCEPT ![t] =
                [at |-> "look", kind |-> k, of |-> a, op |-> op,
                 sets |-> sets, data |-> {}, open |-> FALSE]]
          /\ overlap' \subseteq overlap \union {<<k, a>>}
    <3>1. \A k \in Kind : Ops(k) \subseteq {"get", "add", "drop", "prune"}
      BY DataAssumptions DEF Ops, DataAssumptions
    <3>2. \A k \in Kind, op \in {"get", "add", "drop", "prune"} : Subject(k, op) \subseteq Account
      BY DEF Subject, DataTypeOK
    <3> QED
      BY ZenonT(40), <1>7, <3>1, <3>2 DEF Begin
  <2>2. begun' \in 0..MaxUpdates /\ (op = "add" => begun + 1 \in 0..MaxUpdates)
    BY <2>1, DataAssumptions DEF DataTypeOK, DataAssumptions
  <2>3. sets \in Updates
    <3>1. 0..begun \subseteq 0..MaxUpdates
      BY <1>0, DataAssumptions DEF TypedParts, DataAssumptions
    <3>2. CASE op = "add"
      BY <2>1, <2>2, <3>2 DEF About, Updates
    <3>3. CASE op = "prune"
      BY <2>1, <3>1, <3>3 DEF About, Updates
    <3>4. CASE op \in {"get", "drop"}
      BY <2>1, <3>4 DEF About, Updates
    <3> QED
      BY <2>1, <3>2, <3>3, <3>4
  <2>4. CommandsTyped'
    BY <2>1, <2>3, <1>1 DEF CommandsTyped, Command, Updates, Place
  <2> QED
    BY <1>0, <1>7, <2>1, <2>2, <2>4 DEF Begin, TypedParts, StoreTyped
<1>8. ASSUME NEW t \in Thread, Step(t) PROVE TypedParts'
  <2>1. /\ CommandsTyped' /\ StoreTyped'
        /\ cache' \in [Kind -> [Account -> CopyOrNone]]
        /\ thread[t].kind \in Kind /\ thread[t].of \in Account
    BY <1>8, Stepping, StepFiles
  <2>2. UNCHANGED <<unlocked, page, flying, begun, displaced, overlap>>
    BY <1>8, StepAlone
  <2>3. saved' \in [Kind -> [Account -> Updates]]
    <3>1. CASE Save(t) \/ Write(t)
      BY <1>8, <3>1, SavedAll DEF Save, Write
    <3>2. CASE ~Save(t) /\ ~Write(t)
      BY <1>0, <1>8, <3>2, StepAlone DEF TypedParts
    <3> QED
      BY <3>1, <3>2
  <2>4. closed' \subseteq Account
    BY <1>0, <1>8, <2>1
    DEF Step, Read, Fill, Insert, Ask, Save, Open, Write, Fails, Remove, Saved, TypedParts
  <2>5. lost' \subseteq Kind \X Account
    <3>1. lost' \subseteq lost \union {<<thread[t].kind, thread[t].of>>}
      BY <1>8
      DEF Step, Read, Fill, Insert, Ask, Save, Open, Write, Fails, Remove
    <3>2. <<thread[t].kind, thread[t].of>> \in Kind \X Account
      BY <2>1
    <3> QED
      BY <1>0, <3>1, <3>2 DEF TypedParts
  <2> QED
    BY <1>0, <2>1, <2>2, <2>3, <2>4, <2>5 DEF TypedParts
<1>9. ASSUME NEW k \in Kind, NEW a \in Account, Flush(k, a) PROVE TypedParts'
  BY <1>0, <1>9, FlushTyped, FlushAlone DEF TypedParts, CommandsTyped
<1>10. CASE UNCHANGED dataVars
  BY <1>0, <1>10 DEF dataVars, TypedParts, CommandsTyped, StoreTyped
<1> QED
  BY <1>2, <1>3, <1>4, <1>5, <1>6, <1>7, <1>8, <1>9, <1>10 DEF DataNext

\* Every reachable state of AccountData is well typed: sessions, pages, files,
\* copies and commands.
THEOREM DataTyped == DataSpec => []DataTypeOK
BY DataTypesInit, DataTypesNext, PTL DEF DataSpec

LEMMA Beginning ==
    ASSUME DataTypeOK, NEW t \in Thread, Begin(t)
    PROVE  /\ thread[t] = NoCommand /\ Others(t)
           /\ thread'[t] \in Command /\ thread'[t].at = "look"
           /\ thread'[t].op \in Ops(thread'[t].kind)
           /\ overlap \subseteq overlap'
           /\ \A k \in Kind, a \in Account :
                /\ Uses(t, k, a)'
                /\ \E u \in Thread : Uses(u, k, a)
                => <<k, a>> \in overlap'
<1>0. CommandsTyped /\ CommandsTyped'
  <2>1. [DataNext]_dataVars
    BY DEF DataNext
  <2>2. DataTypeOK'
    BY <2>1, DataTypesNext
  <2>3. DataTypeOK' => CommandsTyped'
    BY DataTypes, PTL
  <2> QED
    BY <2>2, <2>3, DataTypes
<1>1. PICK k, op, a, sets :
          /\ op \in Ops(k)
          /\ thread' = [thread EXCEPT ![t] =
                [at |-> "look", kind |-> k, of |-> a, op |-> op,
                 sets |-> sets, data |-> {}, open |-> FALSE]]
          /\ overlap' = overlap \union
                (IF \E u \in Thread : /\ thread[u] # NoCommand
                                      /\ thread[u].kind = k
                                      /\ thread[u].of = a
                 THEN {<<k, a>>} ELSE {})
  BY DEF Begin
<1>2. Others(t)
  BY <1>0, <1>1 DEF CommandsTyped, Others
<1>3. /\ thread'[t].at = "look" /\ thread'[t].kind = k /\ thread'[t].of = a
      /\ thread'[t].op = op
  BY <1>0, <1>1 DEF CommandsTyped
<1>4. thread'[t] \in Command
  BY <1>0, <1>3, CommandForms DEF CommandsTyped, Place
<1>5. ASSUME NEW l \in Kind, NEW b \in Account, Uses(t, l, b)',
             NEW u \in Thread, Uses(u, l, b)
      PROVE  <<l, b>> \in overlap'
  BY <1>1, <1>3, <1>5 DEF Uses
<1> QED
  BY <1>1, <1>2, <1>3, <1>4, <1>5 DEF Begin

-----------------------------------------------------------------------------
(* An account that is shown is open, or was. *)

\* Who is open now, or was before another
Seen(a) == unlocked = a \/ a \in displaced

\* The metadata are encrypted, unless they are being written, and what of them
\* is read or copied is of an account that was seen.
MetaFile(a) ==
    /\ pending["meta"][a] = None /\ flying["meta"][a] = None
    /\ file["meta"][a].encrypted \/ file["meta"][a].data = {}
MetaCopy(a) == cache["meta"][a] \notin {None, {}} => Seen(a)
MetaInv == \A a \in Account : MetaFile(a) /\ MetaCopy(a)

MetaJob(j) ==
    j \in Command /\ j.kind = "meta" =>
        /\ j.at \in {"look", "fill", "save", "write", "remove"}
        /\ j.at = "fill" => j.op = "get"
        /\ j.at = "fill" /\ j.data # {} => Seen(j.of)
        /\ j.at \in {"save", "write"} => j.open
MetaJobs == \A t \in Thread : MetaJob(thread[t])

PageSeen == page.at = "open" => Seen(page.of)

LooksInv == MetaInv /\ MetaJobs /\ PageSeen

LEMMA ContentsSeen ==
    ASSUME MetaInv, NEW a \in Account, Contents("meta", a) # {}
    PROVE  unlocked = a
BY DEF MetaInv, MetaFile, Contents

LEMMA ViewSeen ==
    ASSUME MetaInv, NEW a \in Account, View(a) # {}
    PROVE  Seen(a)
BY ContentsSeen DEF MetaInv, MetaCopy, View, Seen

\* Steps that leave the session alone preserve the invariant in parts.
SameSession == unlocked' = unlocked /\ displaced' = displaced
LEMMA SameSeen == ASSUME SameSession PROVE \A a : Seen(a)' = Seen(a)
BY DEF SameSession, Seen

SameMetaFiles ==
    \A a \in Account : /\ file'["meta"][a] = file["meta"][a]
                       /\ pending'["meta"][a] = pending["meta"][a]
                       /\ flying'["meta"][a] = flying["meta"][a]
SameMeta == SameSession /\ SameMetaFiles /\ UNCHANGED cache
LEMMA MetaSame == ASSUME MetaInv, SameMeta PROVE MetaInv'
BY DEF SameMeta, SameMetaFiles, SameSession, MetaInv, MetaFile, MetaCopy, Seen

LEMMA JobsSame == ASSUME MetaJobs, SameSession, UNCHANGED thread PROVE MetaJobs'
BY DEF SameSession, MetaJobs, MetaJob, Seen

LEMMA JobChanged ==
    ASSUME MetaJobs, SameSession, NEW t \in Thread, Others(t), MetaJob(thread[t])'
    PROVE  MetaJobs'
<1>1. \A u \in Thread \ {t} : MetaJob(thread[u])'
  BY DEF MetaJobs, MetaJob, Others, SameSession, Seen
<1> QED
  BY <1>1 DEF MetaJobs

LEMMA EndedJob ==
    ASSUME NEW t \in Thread, thread'[t] = NoCommand
    PROVE  MetaJob(thread[t])'
BY CommandForms DEF MetaJob

LEMMA PageSame == ASSUME PageSeen, SameSession, UNCHANGED page PROVE PageSeen'
BY DEF PageSeen, SameSession, Seen

\* The copy of the metadata of a is replaced by v.
LEMMA MetaCopied ==
    ASSUME MetaInv, SameSession, UNCHANGED store, NEW k \in Kind, NEW a \in Account,
           NEW v, Replaced(cache, cache', k, a, v), "meta" \in Kind,
           k = "meta" /\ v \notin {None, {}} => Seen(a)
    PROVE  MetaInv'
<1> SUFFICES ASSUME NEW b \in Account PROVE MetaFile(b)' /\ MetaCopy(b)'
  BY DEF MetaInv
<1>1. Seen(b)' = Seen(b)
  BY SameSeen
<1>2. MetaFile(b)'
  BY DEF store, MetaInv, MetaFile
<1>3. CASE k = "meta" /\ b = a
  BY <1>1, <1>2, <1>3 DEF MetaInv, MetaCopy, Replaced
<1>4. CASE ~(k = "meta" /\ b = a)
  BY <1>1, <1>2, <1>4 DEF MetaInv, MetaCopy, Replaced
<1> QED
  BY <1>3, <1>4

\* A file is written.
LEMMA MetaWritten ==
    ASSUME MetaInv, SameSession, UNCHANGED <<pending, flying, cache>>, NEW k \in Kind,
           NEW a \in Account, NEW v, Replaced(file, file', k, a, v), "meta" \in Kind,
           k = "meta" => v.encrypted \/ v.data = {}
    PROVE  MetaInv'
<1> SUFFICES ASSUME NEW b \in Account PROVE MetaFile(b)' /\ MetaCopy(b)'
  BY DEF MetaInv
<1>1. MetaCopy(b)'
  BY SameSeen DEF MetaInv, MetaCopy
<1>2. CASE k = "meta" /\ b = a
  BY <1>1, <1>2 DEF MetaInv, MetaFile, Replaced
<1>3. CASE ~(k = "meta" /\ b = a)
  BY <1>1, <1>3 DEF MetaInv, MetaFile, Replaced
<1> QED
  BY <1>2, <1>3

LEMMA LooksInit == DataInit => LooksInv
<1> SUFFICES ASSUME DataInit PROVE LooksInv
  OBVIOUS
<1>1. MetaInv
  BY DataAssumptions DEF DataInit, MetaInv, MetaFile, MetaCopy, DataAssumptions
<1>2. MetaJobs
  BY CommandForms DEF DataInit, MetaJobs, MetaJob
<1> QED
  BY <1>1, <1>2 DEF DataInit, LooksInv, PageSeen

\* A flush leaves the metadata alone.
LEMMA FlushMeta ==
    ASSUME TypedParts, MetaInv, NEW k \in Kind, NEW a \in Account, Flush(k, a)
    PROVE  SameMetaFiles
<1>1. k # "meta"
  BY DEF MetaInv, MetaFile, Flush, FlushTakes, FlushDrops, FlushOpens, FlushEnds, FlushFails
<1>2. /\ \E v : file' = Put(file, k, a, v) \/ file' = file
      /\ \E v : pending' = Put(pending, k, a, v) \/ pending' = pending
      /\ \E v : flying' = Put(flying, k, a, v)
  BY DEF Flush, FlushTakes, FlushDrops, FlushOpens, FlushEnds, FlushFails
<1>3. "meta" \in Kind
  BY DataAssumptions DEF DataAssumptions
<1>4. file'["meta"] = file["meta"]
  BY <1>1, <1>2, <1>3 DEF Put, TypedParts, StoreTyped
<1>5. pending'["meta"] = pending["meta"]
  BY <1>1, <1>2, <1>3 DEF Put, TypedParts, StoreTyped
<1>6. flying'["meta"] = flying["meta"]
  BY <1>1, <1>2, <1>3 DEF Put, TypedParts, StoreTyped
<1> QED
  BY <1>4, <1>5, <1>6 DEF SameMetaFiles

LEMMA LooksNext == DataTypeOK /\ LooksInv /\ [DataNext]_dataVars => LooksInv'
<1> SUFFICES ASSUME DataTypeOK, LooksInv, [DataNext]_dataVars PROVE LooksInv'
  OBVIOUS
<1> USE DEF LooksInv
<1>0. "meta" \in Kind /\ TypedParts /\ CommandsTyped
  BY DataAssumptions, TypesInParts DEF DataAssumptions, TypedParts
<1>1. ASSUME NEW a \in Account, Select(a) PROVE LooksInv'
  <2>1. SameSession /\ UNCHANGED <<store, thread>>
    BY <1>1 DEF Select, history, SameSession
  <2>2. View(a) \in CopyOrNone
    BY Reading DEF CopyOrNone
  <2>3. Replaced(cache, cache', "meta", a, View(a))
    BY <1>0, <1>1, <2>2, CopyReplaced DEF Select, Look, Put
  <2>4. MetaInv'
    BY <1>0, <2>1, <2>3, ViewSeen, MetaCopied
  <2>5. PageSeen'
    BY <1>1, <2>1, SameSeen, ViewSeen DEF Select, PageSeen
  <2> QED
    BY <2>1, <2>4, <2>5, JobsSame
<1>2. CASE UnlockPage
  <2>1. page.of \in Account
    BY <1>0, <1>2, PageForms DEF UnlockPage, TypedParts
  <2>2. \A a \in Account : Seen(a) => Seen(a)'
    BY <1>2, DataAssumptions DEF UnlockPage, Seen, DataAssumptions
  <2>3. \A a \in Account : cache'["meta"][a] \in {None, cache["meta"][a]}
    <3>1. cache["meta"] \in [Account -> CopyOrNone]
      BY <1>0 DEF TypedParts
    <3>2. cache'["meta"] = [cache["meta"] EXCEPT ![page.of] = None]
      BY <1>0, <1>2 DEF UnlockPage
    <3> QED
      BY <3>1, <3>2
  <2>4. MetaInv'
    BY <1>2, <2>2, <2>3 DEF UnlockPage, store, MetaInv, MetaFile, MetaCopy
  <2>5. MetaJobs'
    BY <1>2, <2>2, CommandForms DEF UnlockPage, MetaJobs, MetaJob
  <2>6. page'.at = "enter"
    BY <1>0, <1>2 DEF UnlockPage, TypedParts, PageForm
  <2> QED
    BY <2>4, <2>5, <2>6 DEF PageSeen
<1>3. CASE Enter
  <2>1. SameSession /\ UNCHANGED <<store, thread>>
    BY <1>3 DEF Enter, history, SameSession
  <2>2. page.of \in Account
    BY <1>0, <1>3, PageForms DEF Enter, TypedParts
  <2>3. View(page.of) \in CopyOrNone
    BY <2>2, Reading DEF CopyOrNone
  <2>4. Replaced(cache, cache', "meta", page.of, View(page.of))
    BY <1>0, <1>3, <2>2, <2>3, CopyReplaced DEF Enter, Look, Put
  <2>5. MetaInv'
    BY <1>0, <2>1, <2>2, <2>4, ViewSeen, MetaCopied
  <2>6. page'.of = page.of /\ (page'.at = "open" => View(page.of) # {})
    BY <1>0, <1>3 DEF Enter, TypedParts, PageForm
  <2>7. PageSeen'
    BY <2>1, <2>2, <2>6, SameSeen, ViewSeen DEF PageSeen
  <2> QED
    BY <2>1, <2>5, <2>7, JobsSame
<1>4. CASE Leave
  <2>1. SameMeta /\ UNCHANGED thread
    BY <1>4 DEF Leave, history, store, SameMeta, SameMetaFiles, SameSession
  <2>2. PageSeen'
    BY <1>4 DEF Leave, PageSeen
  <2> QED
    BY <2>1, <2>2, MetaSame, JobsSame DEF SameMeta
<1>5. CASE Restart
  <2>1. MetaInv'
    BY <1>0, <1>5 DEF Restart, MetaInv, MetaFile, MetaCopy
  <2>2. MetaJobs'
    BY <1>5, CommandForms DEF Restart, MetaJobs, MetaJob
  <2> QED
    BY <1>5, <2>1, <2>2 DEF Restart, PageSeen
<1>6. ASSUME NEW t \in Thread, Begin(t) PROVE LooksInv'
  <2>1. SameMeta /\ UNCHANGED page
    BY <1>6 DEF Begin, store, SameMeta, SameMetaFiles, SameSession
  <2>2. Others(t) /\ thread'[t].at = "look"
    BY <1>6, Beginning
  <2> QED
    BY <2>1, <2>2, MetaSame, PageSame, JobChanged DEF MetaJob, SameMeta
<1>7. ASSUME NEW t \in Thread, Step(t) PROVE LooksInv'
  <2> DEFINE j == thread[t]
  <2>1. /\ j \in Command /\ j # NoCommand
        /\ j.kind \in Kind /\ j.of \in Account
        /\ j.data \in Updates /\ j.sets \in Updates
        /\ New(j) \in Updates /\ Opened(j) \in Updates /\ Copy(j) \in CopyOrNone
        /\ Proceeds(t) /\ Others(t)
    BY <1>7, Stepping DEF Proceeds
  <2>2. SameSession /\ UNCHANGED <<page, flying>>
    BY <1>7, StepAlone DEF SameSession
  <2>3. MetaJob(j)
    BY DEF MetaJobs
  <2>4. ASSUME NEW at \in {"look", "remove"}, NEW data, Went(t, at, data)
        PROVE  MetaJob(thread[t])'
    BY <2>4 DEF Went, MetaJob
  <2>5. ASSUME NEW at \in Place, NEW data, Went(t, at, data), j.kind # "meta"
        PROVE  MetaJob(thread[t])'
    BY <2>5 DEF Went, MetaJob
  <2>6. CASE Read(t)
    <3>1. SameMeta
      BY <2>2, <2>6 DEF Read, store, SameMeta, SameMetaFiles
    <3>2. j.kind = "meta" /\ Opened(j) # {} => unlocked = j.of
      BY <2>1, ContentsSeen DEF Opened
    <3>3. MetaJob(thread[t])'
      <4>1. CASE ReadEnds(t)
        BY <1>0, <4>1, Ending, EndedJob DEF ReadEnds
      <4>2. CASE ReadFills(t)
        <5>1. Went(t, "fill", Opened(j))
          BY <1>0, <2>1, <4>2, Going DEF ReadFills, Place
        <5> QED
          BY <2>2, <3>2, <4>2, <5>1 DEF ReadFills, Went, MetaJob, Seen, SameSession
      <4>3. CASE ReadSaves(t)
        <5>1. Went(t, "save", Opened(j)) /\ thread'[t].open = (unlocked = j.of)
          BY <1>0, <2>1, <4>3, Going DEF ReadSaves, Place
        <5> QED
          BY <3>2, <4>3, <5>1 DEF ReadSaves, Went, MetaJob
      <4>4. CASE ReadAsks(t)
        <5>1. Went(t, "ask", Copy(j))
          BY <1>0, <2>1, <4>4, Going DEF ReadAsks, CopyOrNone, Place
        <5> QED
          BY <2>5, <4>4, <5>1 DEF ReadAsks, Place
      <4>5. CASE ReadInserts(t)
        <5>1. PICK data \in Updates : Goes(t, "insert", data)
          BY <2>1, <4>5 DEF ReadInserts, CopyOrNone
        <5>2. Went(t, "insert", data)
          BY <1>0, <2>1, <5>1, Going DEF Place
        <5> QED
          BY <2>5, <4>5, <5>2 DEF ReadInserts, Place
      <4>6. CASE ReadCuts(t)
        <5>1. Went(t, "cut", Copy(j))
          BY <1>0, <2>1, <4>6, Going DEF ReadCuts, CopyOrNone, Place
        <5> QED
          BY <2>5, <4>6, <5>1 DEF ReadCuts, Place
      <4> QED
        BY <2>6, <4>1, <4>2, <4>3, <4>4, <4>5, <4>6, ReadCases
    <3> QED
      BY <2>1, <2>2, <3>1, <3>3, MetaSame, PageSame, JobChanged
  <2>7. CASE Fill(t)
    <3>1. UNCHANGED store /\ j.at = "fill"
      BY <2>7 DEF Fill
    <3>2. j.kind = "meta" => j.op = "get" /\ (j.data # {} => Seen(j.of))
      BY <2>1, <2>3, <3>1 DEF MetaJob
    <3>3. Replaced(cache, cache', j.kind, j.of, j.data)
      BY <1>7, <2>7, StepFiles
    <3>4. MetaInv'
      BY <1>0, <2>1, <2>2, <3>1, <3>2, <3>3, MetaCopied
    <3>5. MetaJob(thread[t])'
      <4>1. CASE Ends(t)
        BY <1>0, <4>1, Ending, EndedJob
      <4>2. ASSUME NEW at \in {"ask", "insert"}, Turns(t, at), j.op # "get"
            PROVE  MetaJob(thread[t])'
        <5>1. Went(t, at, j.data)
          BY <1>0, <2>1, <4>2, Turning DEF Place
        <5> QED
          BY <2>5, <3>2, <4>2, <5>1 DEF Place
      <4> QED
        BY <2>7, <4>1, <4>2 DEF Fill
    <3> QED
      BY <2>1, <2>2, <3>4, <3>5, PageSame, JobChanged
  <2>8. CASE Insert(t)
    <3>1. UNCHANGED store /\ j.kind # "meta"
      BY <2>1, <2>3, <2>8 DEF Insert, MetaJob
    <3>2. Replaced(cache, cache', j.kind, j.of, New(j))
      BY <1>7, <2>8, StepFiles
    <3>3. MetaInv'
      BY <1>0, <2>1, <2>2, <3>1, <3>2, MetaCopied
    <3>4. MetaJob(thread[t])'
      <4>1. CASE Ends(t)
        BY <1>0, <4>1, Ending, EndedJob
      <4>2. ASSUME NEW at \in {"ask", "save"}, Turns(t, at)
            PROVE  MetaJob(thread[t])'
        BY <1>0, <2>1, <2>5, <3>1, <4>2, Turning DEF Place
      <4> QED
        BY <2>8, <4>1, <4>2 DEF Insert
    <3> QED
      BY <2>1, <2>2, <3>3, <3>4, PageSame, JobChanged
  <2>9. CASE Ask(t)
    <3>1. SameMeta /\ j.kind # "meta" /\ Goes(t, "save", j.data)
      BY <2>1, <2>2, <2>3, <2>9 DEF Ask, store, SameMeta, SameMetaFiles, MetaJob
    <3>2. MetaJob(thread[t])'
      BY <1>0, <2>1, <2>5, <3>1, Going DEF Place
    <3> QED
      BY <2>1, <2>2, <3>1, <3>2, MetaSame, PageSame, JobChanged
  <2>10. CASE Save(t)
    <3>1. j.kind # "meta" /\ UNCHANGED <<file, cache>>
      BY <2>10 DEF Save, Coalesced
    <3>2. Replaced(pending, pending', j.kind, j.of, Contained(j))
      BY <1>7, <2>10, StepFiles
    <3>3. SameMeta
      BY <1>0, <2>1, <2>2, <3>1, <3>2 DEF Replaced, SameMeta, SameMetaFiles
    <3>4. MetaJob(thread[t])'
      <4>1. CASE Ends(t)
        BY <1>0, <4>1, Ending, EndedJob
      <4>2. ASSUME NEW at \in {"insert", "remove"}, Turns(t, at)
            PROVE  MetaJob(thread[t])'
        BY <1>0, <2>1, <2>5, <3>1, <4>2, Turning DEF Place
      <4> QED
        BY <2>10, <4>1, <4>2 DEF Save, Written
    <3> QED
      BY <2>1, <2>2, <3>3, <3>4, MetaSame, PageSame, JobChanged
  <2>11. CASE Open(t)
    <3>1. UNCHANGED <<pending, flying, cache>> /\ Turns(t, "write") /\ j.at = "save"
      BY <2>11 DEF Open
    <3>2. Replaced(file, file', j.kind, j.of, Truncated)
      BY <1>7, <2>11, StepFiles
    <3>3. MetaInv'
      BY <1>0, <2>1, <2>2, <3>1, <3>2, MetaWritten DEF Truncated
    <3>4. MetaJob(thread[t])'
      <4>1. Went(t, "write", j.data) /\ thread'[t].open = j.open
        BY <1>0, <2>1, <3>1, Turning DEF Place
      <4> QED
        BY <2>1, <2>3, <3>1, <4>1 DEF Went, MetaJob
    <3> QED
      BY <2>1, <2>2, <3>3, <3>4, PageSame, JobChanged
  <2>12. CASE Write(t)
    <3>1. UNCHANGED <<pending, flying, cache>> /\ j.at = "write" /\ Written(t)
      BY <2>12 DEF Write
    <3>2. Replaced(file, file', j.kind, j.of, Contained(j))
      BY <1>7, <2>12, StepFiles
    <3>3. j.kind = "meta" => Contained(j).encrypted
      BY <1>7, <2>1, <2>3, <3>1, Containing DEF MetaJob
    <3>4. MetaInv'
      BY <1>0, <2>1, <2>2, <3>1, <3>2, <3>3, MetaWritten
    <3>5. MetaJob(thread[t])'
      <4>1. CASE Ends(t)
        BY <1>0, <4>1, Ending, EndedJob
      <4>2. CASE Turns(t, "remove")
        <5>1. Went(t, "remove", j.data)
          BY <1>0, <2>1, <4>2, Turning DEF Place
        <5> QED
          BY <2>4, <5>1
      <4>3. CASE Turns(t, "insert") /\ j.kind = "settings"
        <5>1. Went(t, "insert", j.data)
          BY <1>0, <2>1, <4>3, Turning DEF Place
        <5> QED
          BY <2>5, <4>3, <5>1 DEF Place
      <4> QED
        BY <3>1, <4>1, <4>2, <4>3 DEF Written
    <3> QED
      BY <2>1, <2>2, <3>4, <3>5, PageSame, JobChanged
  <2>13. CASE Fails(t)
    <3>1. SameMeta /\ Ends(t)
      BY <2>2, <2>13 DEF Fails, store, SameMeta, SameMetaFiles
    <3> QED
      BY <1>0, <2>1, <2>2, <3>1, MetaSame, PageSame, JobChanged, Ending, EndedJob
  <2>14. CASE Remove(t)
    <3>1. UNCHANGED store /\ Ends(t)
      BY <2>14 DEF Remove
    <3>2. Replaced(cache, cache', j.kind, j.of, None)
      BY <1>7, <2>14, StepFiles
    <3>3. MetaInv'
      BY <1>0, <2>1, <2>2, <3>1, <3>2, MetaCopied
    <3> QED
      BY <1>0, <2>1, <2>2, <3>1, <3>3, PageSame, JobChanged, Ending, EndedJob
  <2> QED
    BY <1>7, <2>6, <2>7, <2>8, <2>9, <2>10, <2>11, <2>12, <2>13, <2>14 DEF Step
<1>8. ASSUME NEW k \in Kind, NEW a \in Account, Flush(k, a) PROVE LooksInv'
  <2>1. SameMeta /\ UNCHANGED <<thread, page>>
    BY <1>0, <1>8, FlushAlone, FlushMeta DEF SameMeta, SameSession
  <2> QED
    BY <2>1, MetaSame, JobsSame, PageSame DEF SameMeta
<1>9. CASE UNCHANGED dataVars
  <2>1. SameMeta /\ UNCHANGED <<thread, page>>
    BY <1>9 DEF dataVars, store, SameMeta, SameMetaFiles, SameSession
  <2> QED
    BY <2>1, MetaSame, JobsSame, PageSame DEF SameMeta
<1> QED
  BY <1>1, <1>2, <1>3, <1>4, <1>5, <1>6, <1>7, <1>8, <1>9 DEF DataNext

-----------------------------------------------------------------------------
(* Who uses a file *)

OneUser ==
    \A k \in Kind, a \in Account : <<k, a>> \notin overlap =>
        \A t, u \in Thread : Uses(t, k, a) /\ Uses(u, k, a) => t = u

\* Chats and the storage have no copy, and no command makes one.
CopyJob(j) == j.at \in {"fill", "insert", "cut"} => j.kind \notin {"chat", "storage"}
NoCopy ==
    /\ \A k \in Kind, a \in Account :
         k \in {"chat", "storage"} => cache[k][a] = None
    /\ \A t \in Thread : CopyJob(thread[t])

\* No flush has to do with the files that commands write themselves.
Direct ==
    \A k \in Kind, a \in Account :
        k \notin Coalesced => pending[k][a] = None /\ flying[k][a] = None

UsersInv == OneUser /\ NoCopy /\ Direct

LEMMA UsersInit == DataInit => UsersInv
BY CommandForms DEF DataInit, UsersInv, OneUser, NoCopy, CopyJob, Uses, NoCommand, Direct

LEMMA ProceedsOne ==
    ASSUME OneUser, NEW t \in Thread, thread[t] # NoCommand, Proceeds(t),
           overlap' = overlap
    PROVE  OneUser'
<1>1. \A u \in Thread : \A k, a : Uses(u, k, a)' => Uses(u, k, a)
  BY DEF Uses, Proceeds, Others
<1> QED
  BY <1>1 DEF OneUser

LEMMA ProceedsNoCopy ==
    ASSUME NoCopy, NEW t \in Thread, Others(t), CopyJob(thread[t])',
           \A k \in Kind, a \in Account :
              k \in {"chat", "storage"} => cache'[k][a] = cache[k][a]
    PROVE  NoCopy'
BY DEF NoCopy, CopyJob, Others

\* A flush of file k of account a: what it does to the store
FlushedFile(k, a) ==
    /\ \/ FlushTakes(k, a) \/ FlushDrops(k, a) \/ FlushOpens(k, a)
       \/ FlushEnds(k, a) \/ FlushFails(k, a)
    /\ FlushTakes(k, a) =>
        /\ pending[k][a] # None
        /\ pending'[k][a] = None /\ flying'[k][a].save = pending[k][a]
        /\ flying'[k][a] # None /\ file'[k][a] = file[k][a]
    /\ FlushDrops(k, a) =>
        /\ flying[k][a] # None
        /\ pending'[k][a] = None /\ flying'[k][a].save = flying[k][a].save
        /\ flying'[k][a] # None /\ file'[k][a] = file[k][a]
        /\ pending[k][a] # None => <<k, a>> \in lost'
    /\ FlushOpens(k, a) =>
        /\ flying[k][a] # None
        /\ pending'[k][a] = pending[k][a] /\ flying'[k][a].save = flying[k][a].save
        /\ flying'[k][a] # None
    /\ FlushEnds(k, a) =>
        /\ flying[k][a] # None
        /\ pending'[k][a] = pending[k][a] /\ flying'[k][a] = None
        /\ file'[k][a] = flying[k][a].save
    /\ FlushFails(k, a) =>
        /\ flying[k][a] # None
        /\ pending'[k][a] = pending[k][a] /\ flying'[k][a] = None
        /\ file'[k][a] = file[k][a]
        /\ pending[k][a] = None => <<k, a>> \in lost'

SameFile(k, a) ==
    /\ file'[k][a] = file[k][a]
    /\ pending'[k][a] = pending[k][a]
    /\ flying'[k][a] = flying[k][a]

LEMMA Flushing ==
    ASSUME TypedParts, NEW k \in Kind, NEW a \in Account, Flush(k, a)
    PROVE  /\ FlushedFile(k, a)
           /\ \A l \in Kind, b \in Account : l # k \/ b # a => SameFile(l, b)
<1> DEFINE Rest == \A l \in Kind, b \in Account : l # k \/ b # a => SameFile(l, b)
<1>1. /\ file[k][a] \in Saving /\ Truncated \in Saving
      /\ pending[k][a] # None => pending[k][a] \in Saving
      /\ flying[k][a] # None => flying[k][a] \in Flight
      /\ None \in SaveOrNone /\ None \in FlightOrNone
  BY Stored DEF SaveOrNone, FlightOrNone
<1>2. CASE FlushTakes(k, a)
  <2> DEFINE f == [save |-> pending[k][a], at |-> "taken"]
  <2>1. f \in Flight /\ f.save = pending[k][a]
    BY <1>1, <1>2 DEF FlushTakes, Flight
  <2>2. f \in FlightOrNone /\ f # None
    BY <2>1, NoneIsNoSave DEF FlightOrNone
  <2>3. Replaced(flying, flying', k, a, f)
    <3>1. flying' = Put(flying, k, a, f)
      BY <1>2 DEF FlushTakes
    <3> HIDE DEF f
    <3> QED
      BY <2>2, <3>1, FlyingReplaced
  <2>4. Replaced(pending, pending', k, a, None) /\ file' = file /\ pending[k][a] # None
        /\ flying[k][a] = None
    BY <1>1, <1>2, PendingReplaced DEF FlushTakes
  <2>5. ~FlushDrops(k, a) /\ ~FlushOpens(k, a) /\ ~FlushEnds(k, a) /\ ~FlushFails(k, a)
    BY <2>4 DEF FlushDrops, FlushOpens, FlushEnds, FlushFails
  <2> HIDE DEF f
  <2>6. FlushedFile(k, a)
    BY <1>2, <2>1, <2>2, <2>3, <2>4, <2>5 DEF Replaced, FlushedFile
  <2> QED
    BY <2>3, <2>4, <2>6 DEF Replaced, SameFile
<1>3. CASE FlushDrops(k, a)
  <2> DEFINE f == [flying[k][a] EXCEPT !.at = "writing"]
  <2>0. flying[k][a] \in Flight /\ flying[k][a] # None /\ flying[k][a].at = "taken"
    BY <1>1, <1>3 DEF FlushDrops
  <2>1. f \in Flight /\ f.save = flying[k][a].save
    BY <2>0 DEF Flight
  <2>2. f \in FlightOrNone /\ f # None
    BY <2>1, NoneIsNoSave DEF FlightOrNone
  <2>3. Replaced(flying, flying', k, a, f)
    <3>1. flying' = Put(flying, k, a, f)
      BY <1>3 DEF FlushDrops
    <3> HIDE DEF f
    <3> QED
      BY <2>2, <3>1, FlyingReplaced
  <2>4. Replaced(pending, pending', k, a, None) /\ file' = file
    BY <1>1, <1>3, PendingReplaced DEF FlushDrops
  <2>5. ~FlushTakes(k, a) /\ ~FlushOpens(k, a) /\ ~FlushEnds(k, a) /\ ~FlushFails(k, a)
    BY <2>0 DEF FlushTakes, FlushOpens, FlushEnds, FlushFails
  <2>6. pending[k][a] # None => <<k, a>> \in lost'
    BY <1>3 DEF FlushDrops
  <2> HIDE DEF f
  <2>7. FlushedFile(k, a)
    BY <1>3, <2>0, <2>1, <2>2, <2>3, <2>4, <2>5, <2>6 DEF Replaced, FlushedFile
  <2> QED
    BY <2>3, <2>4, <2>7 DEF Replaced, SameFile
<1>4. CASE FlushOpens(k, a)
  <2> DEFINE f == [flying[k][a] EXCEPT !.at = "open"]
  <2>0. flying[k][a] \in Flight /\ flying[k][a] # None /\ flying[k][a].at = "writing"
    BY <1>1, <1>4 DEF FlushOpens
  <2>1. f \in Flight /\ f.save = flying[k][a].save /\ f.at = "open"
    BY <2>0 DEF Flight
  <2>2. f \in FlightOrNone /\ f # None
    BY <2>1, NoneIsNoSave DEF FlightOrNone
  <2>3. Replaced(flying, flying', k, a, f)
    <3>1. flying' = Put(flying, k, a, f)
      BY <1>4 DEF FlushOpens
    <3> HIDE DEF f
    <3> QED
      BY <2>2, <3>1, FlyingReplaced
  <2>4. Replaced(file, file', k, a, Truncated) /\ pending' = pending
    BY <1>1, <1>4, FileReplaced DEF FlushOpens
  <2>5. ~FlushTakes(k, a) /\ ~FlushDrops(k, a) /\ ~FlushEnds(k, a)
    BY <2>0 DEF FlushTakes, FlushDrops, FlushEnds
  <2>6. ~FlushFails(k, a)
    BY <2>2, <2>3 DEF FlushFails, Put, Replaced, TypedParts, StoreTyped
  <2> HIDE DEF f
  <2>7. FlushedFile(k, a)
    BY <1>4, <2>0, <2>1, <2>2, <2>3, <2>4, <2>5, <2>6 DEF Replaced, FlushedFile
  <2> QED
    BY <2>3, <2>4, <2>7 DEF Replaced, SameFile
<1>5. CASE FlushEnds(k, a)
  <2>0. flying[k][a] \in Flight /\ flying[k][a] # None /\ flying[k][a].at = "open"
    BY <1>1, <1>5 DEF FlushEnds
  <2>1. flying[k][a].save \in Saving
    BY <2>0 DEF Flight
  <2>2. Replaced(flying, flying', k, a, None)
    BY <1>1, <1>5, FlyingReplaced DEF FlushEnds
  <2>3. Replaced(file, file', k, a, flying[k][a].save) /\ pending' = pending
    BY <1>1, <1>5, <2>1, FileReplaced DEF FlushEnds
  <2>4. ~FlushTakes(k, a) /\ ~FlushDrops(k, a) /\ ~FlushOpens(k, a)
    BY <2>0 DEF FlushTakes, FlushDrops, FlushOpens
  <2>5. FlushFails(k, a) => file'[k][a] = file[k][a] /\ (pending[k][a] = None => <<k, a>> \in lost')
    BY DEF FlushFails
  <2>6. FlushedFile(k, a)
    BY <1>5, <2>0, <2>2, <2>3, <2>4, <2>5 DEF Replaced, FlushedFile
  <2> QED
    BY <2>2, <2>3, <2>6 DEF Replaced, SameFile
<1>6. CASE FlushFails(k, a)
  <2>1. Replaced(flying, flying', k, a, None) /\ file' = file /\ pending' = pending
        /\ flying[k][a] # None /\ (pending[k][a] = None => <<k, a>> \in lost')
        /\ flying[k][a].at # "taken"
    BY <1>1, <1>6, FlyingReplaced DEF FlushFails
  <2>2. ~FlushTakes(k, a) /\ ~FlushDrops(k, a)
    BY <2>1 DEF FlushTakes, FlushDrops
  <2>3. Rest
    BY <2>1 DEF Replaced, SameFile
  <2> QED
    BY <1>4, <1>5, <1>6, <2>1, <2>2, <2>3 DEF Replaced, FlushedFile
<1> QED
  BY <1>2, <1>3, <1>4, <1>5, <1>6 DEF Flush

LEMMA UsersNext == DataTypeOK /\ UsersInv /\ [DataNext]_dataVars => UsersInv'
<1> SUFFICES ASSUME DataTypeOK, UsersInv, [DataNext]_dataVars PROVE UsersInv'
  OBVIOUS
<1> USE DEF UsersInv
<1>0. TypedParts /\ CommandsTyped
  BY TypesInParts DEF TypedParts
<1>1. ASSUME NEW a, cache' = [cache EXCEPT !["meta"][a] = View(a)],
             UNCHANGED <<store, thread, overlap>>
      PROVE  UsersInv'
  <2>1. OneUser'
    BY <1>1 DEF OneUser, Uses
  <2>2. \A k \in Kind : k # "meta" => cache'[k] = cache[k]
    BY <1>0, <1>1 DEF TypedParts
  <2> QED
    BY <1>1, <2>1, <2>2 DEF NoCopy, CopyJob, Direct, store
<1>2. ASSUME NEW a \in Account, Select(a) PROVE UsersInv'
  BY <1>1, <1>2 DEF Select, Look, history
<1>3. CASE UnlockPage
  <2>1. OneUser'
    BY <1>3 DEF UnlockPage, OneUser, Uses
  <2>2. \A k \in Kind : cache'[k] \in {cache[k], [cache[k] EXCEPT ![page.of] = None]}
    BY <1>3 DEF UnlockPage
  <2>3. \A k \in Kind, a \in Account : cache'[k][a] \in {cache[k][a], None}
    <3>1. \A k \in Kind : cache[k] \in [Account -> CopyOrNone]
      BY <1>0 DEF TypedParts
    <3> QED
      BY <2>2, <3>1
  <2>4. NoCopy'
    BY <1>3, <2>3 DEF UnlockPage, NoCopy, CopyJob
  <2> QED
    BY <1>3, <2>1, <2>4 DEF UnlockPage, Direct, store
<1>4. CASE Enter
  BY <1>1, <1>4 DEF Enter, Look, history
<1>5. CASE Leave
  BY <1>5 DEF Leave, history, OneUser, NoCopy, CopyJob, Uses, Direct, store
<1>6. CASE Restart
  BY <1>6, CommandForms DEF Restart, OneUser, NoCopy, CopyJob, Uses, NoCommand, Direct
<1>7. ASSUME NEW t \in Thread, Begin(t) PROVE UsersInv'
  <2>0. /\ thread[t] = NoCommand /\ Others(t)
        /\ thread'[t] \in Command /\ thread'[t].at = "look"
        /\ overlap \subseteq overlap'
        /\ \A k \in Kind, a \in Account :
                /\ Uses(t, k, a)'
                /\ \E u \in Thread : Uses(u, k, a)
                => <<k, a>> \in overlap'
    BY <1>7, Beginning
  <2>1. \A u \in Thread \ {t} : \A k, a : Uses(u, k, a)' = Uses(u, k, a)
    BY <2>0 DEF Others, Uses
  <2>2. OneUser'
    <3> SUFFICES ASSUME NEW k \in Kind, NEW a \in Account, <<k, a>> \notin overlap',
                        NEW u \in Thread, NEW v \in Thread,
                        Uses(u, k, a)', Uses(v, k, a)'
                 PROVE  u = v
      BY DEF OneUser
    <3> QED
      BY <2>0, <2>1 DEF OneUser
  <2>3. NoCopy'
    BY <1>7, <2>0, ProceedsNoCopy DEF CopyJob, Begin
  <2> QED
    BY <1>7, <2>2, <2>3 DEF Begin, Direct, store
<1>8. ASSUME NEW t \in Thread, Step(t) PROVE UsersInv'
  <2> DEFINE j == thread[t]
  <2>1. /\ j \in Command /\ j # NoCommand
        /\ j.kind \in Kind /\ j.of \in Account
        /\ j.data \in Updates
        /\ Opened(j) \in Updates /\ Copy(j) \in CopyOrNone
        /\ Proceeds(t) /\ Others(t)
    BY <1>8, Stepping DEF Proceeds
  <2>2. OneUser'
    BY <1>8, <2>1, StepAlone, ProceedsOne
  <2>3. \A k \in Kind, a \in Account :
            k \in {"chat", "storage"} => cache'[k][a] = cache[k][a]
    <3>1. CASE ~Fill(t) /\ ~Insert(t) /\ ~Remove(t)
      BY <1>8, <3>1, StepAlone
    <3>2. ASSUME NEW v, Replaced(cache, cache', j.kind, j.of, v), j.kind \notin {"chat", "storage"}
          PROVE  \A k \in Kind, a \in Account :
                    k \in {"chat", "storage"} => cache'[k][a] = cache[k][a]
      BY <3>2 DEF Replaced
    <3>3. CASE Fill(t)
      BY <1>8, <3>2, <3>3, StepFiles DEF Fill, NoCopy, CopyJob
    <3>4. CASE Insert(t)
      BY <1>8, <3>2, <3>4, StepFiles DEF Insert, NoCopy, CopyJob
    <3>5. CASE Remove(t)
      <4>1. Replaced(cache, cache', j.kind, j.of, None)
        BY <1>8, <3>5, StepFiles
      <4> QED
        BY <2>1, <4>1 DEF Replaced, NoCopy
    <3> QED
      BY <3>1, <3>3, <3>4, <3>5
  <2>4. CopyJob(thread[t])'
    <3>1. CASE Ends(t)
      BY <1>0, <3>1, Ending DEF CopyJob, NoCommand
    <3>2. ASSUME NEW at \in {"ask", "save", "write", "remove"}, NEW data, Went(t, at, data)
          PROVE  CopyJob(thread[t])'
      BY <3>2 DEF Went, CopyJob
    <3>3. ASSUME NEW at \in Place, NEW data, Went(t, at, data),
                 j.kind \notin {"chat", "storage"}
          PROVE  CopyJob(thread[t])'
      BY <3>3 DEF Went, CopyJob
    <3>4. CASE Read(t)
      <4>1. CASE ReadEnds(t)
        BY <3>1, <4>1 DEF ReadEnds
      <4>2. CASE ReadFills(t)
        BY <1>0, <2>1, <3>3, <4>2, Going DEF ReadFills, Place
      <4>3. CASE ReadSaves(t)
        BY <1>0, <2>1, <3>2, <4>3, Going DEF ReadSaves, Place
      <4>4. CASE ReadAsks(t)
        BY <1>0, <2>1, <3>2, <4>4, Going DEF ReadAsks, CopyOrNone, Place
      <4>5. CASE ReadInserts(t)
        BY <1>0, <2>1, <3>3, <4>5, Going DEF ReadInserts, CopyOrNone, Place
      <4>6. CASE ReadCuts(t)
        BY <1>0, <2>1, <3>3, <4>6, Going DEF ReadCuts, CopyOrNone, Place
      <4> QED
        BY <3>4, <4>1, <4>2, <4>3, <4>4, <4>5, <4>6, ReadCases
    <3>5. CASE Fill(t) \/ Insert(t)
      <4>1. j.kind \notin {"chat", "storage"}
        BY <3>5 DEF Fill, Insert, NoCopy, CopyJob
      <4>2. Ends(t) \/ \E at \in Place : Turns(t, at)
        BY <3>5 DEF Fill, Insert, Place
      <4> QED
        BY <1>0, <2>1, <3>1, <3>3, <4>1, <4>2, Turning
    <3>6. CASE Save(t) \/ Write(t)
      <4>1. Ends(t) \/ Turns(t, "remove") \/ (j.kind = "settings" /\ Turns(t, "insert"))
        BY <3>6 DEF Save, Write, Written
      <4> QED
        BY <1>0, <2>1, <3>1, <3>2, <3>3, <4>1, Turning DEF Place
    <3>7. CASE Ask(t)
      BY <1>0, <2>1, <3>2, <3>7, Going DEF Ask, Place
    <3>8. CASE Open(t)
      BY <1>0, <2>1, <3>2, <3>8, Turning DEF Open, Place
    <3>9. CASE Fails(t) \/ Remove(t)
      BY <3>1, <3>9 DEF Fails, Remove
    <3> QED
      BY <1>8, <3>4, <3>5, <3>6, <3>7, <3>8, <3>9 DEF Step
  <2>5. Direct'
    <3>1. CASE Save(t)
      <4>1. j.kind \in Coalesced /\ Replaced(pending, pending', j.kind, j.of, Contained(j))
        BY <1>8, <3>1, StepFiles DEF Save
      <4> QED
        BY <1>8, <4>1, StepAlone DEF Replaced, Direct
    <3>2. CASE ~Save(t)
      BY <1>8, <3>2, StepAlone DEF Direct
    <3> QED
      BY <3>1, <3>2
  <2>6. NoCopy'
    BY <2>1, <2>3, <2>4, ProceedsNoCopy
  <2> QED
    BY <2>2, <2>5, <2>6
<1>9. ASSUME NEW k \in Kind, NEW a \in Account, Flush(k, a) PROVE UsersInv'
  <2>1. UNCHANGED <<cache, thread, overlap>>
    BY <1>9, FlushAlone
  <2>2. k \in Coalesced
    BY <1>9 DEF Direct, Flush, FlushTakes, FlushDrops, FlushOpens, FlushEnds, FlushFails
  <2>3. Direct'
    BY <1>0, <1>9, <2>2, Flushing DEF SameFile, Direct
  <2> QED
    BY <2>1, <2>3 DEF OneUser, NoCopy, CopyJob, Uses
<1>10. CASE UNCHANGED dataVars
  BY <1>10 DEF dataVars, store, OneUser, NoCopy, CopyJob, Uses, Direct
<1> QED
  BY <1>2, <1>3, <1>4, <1>5, <1>6, <1>7, <1>8, <1>9, <1>10 DEF DataNext

-----------------------------------------------------------------------------
(* Files, copies and what the commands hold of them *)

\* Copy c of file k fits the data d.
Near(k, c, d) == c \in {None, d} \/ (k = "meta" /\ c = {})

\* Command j holds what the file has or will have, d, and the copy, c, fits,
\* unless it is about to be replaced.
Works(j, c, d) ==
    /\ j.op \in Ops(j.kind)
    /\ j.at \in {"look", "fill"} => Near(j.kind, c, d)
    /\ j.at = "fill" =>
        /\ j.kind # "settings" => j.op \in {"get", "prune"}
        /\ j.data = d \/ (j.kind = "meta" /\ j.data = {})
    /\ j.at \in {"ask", "save", "write"} =>
        /\ j.op # "drop" => j.data = d
        /\ j.kind = "index" => c \in {None, New(j)}
        /\ j.kind \notin Coalesced => Near(j.kind, c, d)
    /\ j.at = "ask" => j.kind \in Coalesced
    /\ j.at = "write" => j.kind \notin Coalesced
    /\ j.at \in {"insert", "cut"} =>
        /\ j.kind \in {"index", "settings"}
        /\ j.kind = "index" /\ j.op # "drop" => j.data = d
        /\ j.kind = "settings" => New(j) = d
    /\ j.at = "remove" => j.kind = "meta"

Regular(k, a) == ~Excepted(k, a)

\* What is pending or taken is the newest that was saved,
Kept(k, a) ==
    /\ pending[k][a] # None =>
        pending[k][a].data = saved[k][a] /\ pending[k][a].encrypted
    /\ flying[k][a] # None =>
        /\ flying[k][a].save.encrypted
        /\ pending[k][a] = None => flying[k][a].save.data = saved[k][a]
\* and, where nothing is, the file.
FileKept(k, a) ==
    pending[k][a] = None /\ flying[k][a] = None =>
        file[k][a].data = saved[k][a] /\ file[k][a].encrypted

FileFits(k, a) ==
    /\ Kept(k, a)
    /\ \/ FileKept(k, a)
       \/ /\ file[k][a] = Truncated
          /\ \E t \in Thread : Uses(t, k, a) /\ thread[t].at = "write"
    /\ \A t \in Thread : Uses(t, k, a) =>
        Works(thread[t], cache[k][a], saved[k][a])
    /\ \/ Near(k, cache[k][a], saved[k][a])
       \/ \E t \in Thread : Uses(t, k, a)

FilesInv == \A k \in Kind, a \in Account : Regular(k, a) => FileFits(k, a)

\* Nothing is made regular again.
Lasting == overlap \subseteq overlap' /\ closed \subseteq closed' /\ lost \subseteq lost'

LEMMA AlwaysLasting ==
    ASSUME [DataNext]_dataVars PROVE Lasting
<1>1. ASSUME NEW t \in Thread, Step(t) PROVE closed \subseteq closed'
  BY <1>1
  DEF Step, Read, Fill, Insert, Ask, Save, Open, Write, Fails, Remove, Saved, history
<1>2. ASSUME NEW t \in Thread, Step(t) PROVE Lasting
  BY <1>1, <1>2, StepAlone DEF Lasting
<1>3. ASSUME NEW k \in Kind, NEW a \in Account, Flush(k, a) PROVE Lasting
  BY <1>3, FlushAlone DEF Lasting
<1> QED
  BY <1>2, <1>3 DEF DataNext, Select, UnlockPage, Enter, Leave, Restart, Begin,
                    history, dataVars, Lasting

LEMMA LastingFits ==
    ASSUME FilesInv, Lasting, NEW k \in Kind, NEW a \in Account, Regular(k, a)'
    PROVE  Regular(k, a) /\ FileFits(k, a)
BY DEF Lasting, Regular, Excepted, FilesInv

LEMMA FilesInit == DataInit => FilesInv
<1> SUFFICES ASSUME DataInit, NEW k \in Kind, NEW a \in Account
             PROVE  FileFits(k, a)
  BY DEF FilesInv
<1>1. file[k][a] = [data |-> {0}, encrypted |-> TRUE]
  BY DEF DataInit
<1> QED
  BY <1>1 DEF DataInit, FileFits, Uses, Near, Kept, FileKept

\* The copy is dropped, or read again as account_get does it.
Eased(k, c, c2, d) == c2 \in {c, None} \/ (k = "meta" /\ c2 \in {d, {}})

LEMMA EasedFits ==
    ASSUME NEW k, NEW c, NEW c2, NEW d, Eased(k, c, c2, d)
    PROVE  /\ Near(k, c, d) => Near(k, c2, d)
           /\ \A j : j.kind = k /\ Works(j, c, d) => Works(j, c2, d)
BY DEF Eased, Near, Works

\* Steps that leave commands and files alone
LEMMA CopiesEased ==
    ASSUME FilesInv, Lasting, UNCHANGED <<store, saved, thread>>,
           \A k \in Kind, a \in Account : Regular(k, a) =>
                Eased(k, cache[k][a], cache'[k][a], saved[k][a])
    PROVE  FilesInv'
<1> SUFFICES ASSUME NEW k \in Kind, NEW a \in Account, Regular(k, a)'
             PROVE  FileFits(k, a)'
  BY DEF FilesInv
<1>1. Regular(k, a) /\ FileFits(k, a)
  BY LastingFits
<1>2. Eased(k, cache[k][a], cache'[k][a], saved[k][a])
  BY <1>1
<1>3. \A t \in Thread : Uses(t, k, a)' = Uses(t, k, a)
  BY DEF Uses
<1>4. \A t \in Thread : Uses(t, k, a) =>
        Works(thread[t], cache'[k][a], saved[k][a])
  BY <1>1, <1>2, EasedFits DEF FileFits, Uses
<1>5. \/ Near(k, cache'[k][a], saved[k][a])
      \/ \E t \in Thread : Uses(t, k, a)
  BY <1>1, <1>2, EasedFits DEF FileFits
<1>6. Kept(k, a)' = Kept(k, a) /\ FileKept(k, a)' = FileKept(k, a) /\ file' = file
  BY DEF store, Kept, FileKept
<1> QED
  BY <1>1, <1>3, <1>4, <1>5, <1>6 DEF FileFits

\* What is read of the metadata is what they have, or nothing.
LEMMA MetaRead ==
    ASSUME FilesInv, MetaInv, OneUser, NEW a \in Account, Regular("meta", a), "meta" \in Kind
    PROVE  Contents("meta", a) \in {saved["meta"][a], {}}
<1>1. pending["meta"][a] = None /\ flying["meta"][a] = None
  BY DEF MetaInv, MetaFile
<1>2. FileFits("meta", a)
  BY DEF FilesInv
<1>3. CASE FileKept("meta", a)
  BY <1>1, <1>3 DEF FileKept, Contents
<1>4. CASE file["meta"][a] = Truncated
  BY <1>1, <1>4 DEF Truncated, Contents
<1> QED
  BY <1>1, <1>2, <1>3, <1>4 DEF FileFits


\* What the account page makes of the copy of the metadata
LEMMA LookEased ==
    ASSUME DataTypeOK, FilesInv, MetaInv, OneUser, NEW b \in Account, Look(b),
           NEW k \in Kind, NEW a \in Account, Regular(k, a)
    PROVE  Eased(k, cache[k][a], cache'[k][a], saved[k][a])
<1>1. TypedParts /\ "meta" \in Kind
  BY TypesInParts, DataAssumptions DEF DataAssumptions
<1>2. View(b) \in CopyOrNone
  BY Reading DEF CopyOrNone
<1>3. cache' = Put(cache, "meta", b, View(b))
  BY DEF Look, Put
<1>4. Replaced(cache, cache', "meta", b, View(b))
  BY <1>1, <1>2, <1>3, CopyReplaced
<1>5. CASE k = "meta" /\ a = b
  <2>1. cache'[k][a] = View(a)
    BY <1>4, <1>5 DEF Replaced
  <2> QED
    BY <1>1, <2>1, <1>5, MetaRead DEF View, Eased
<1>6. CASE ~(k = "meta" /\ a = b)
  <2>1. cache'[k][a] = cache[k][a]
    BY <1>4, <1>6 DEF Replaced
  <2> QED
    BY <2>1 DEF Eased
<1> QED
  BY <1>5, <1>6

\* A step of command t, which has file k of account a, changes nothing of the
\* other files.
Elsewhere(k, a) ==
    \A l \in Kind, b \in Account : l # k \/ b # a =>
        /\ SameFile(l, b)
        /\ saved'[l][b] = saved[l][b]
        /\ cache'[l][b] = cache[l][b]

\* How command t leaves its file
Leaves(t, k, a) ==
    /\ Kept(k, a)
    /\ \/ /\ thread[t] = NoCommand /\ Near(k, cache[k][a], saved[k][a])
          /\ FileKept(k, a)
       \/ /\ thread[t] \in Command
          /\ Works(thread[t], cache[k][a], saved[k][a])
          /\ FileKept(k, a) \/ (file[k][a] = Truncated /\ thread[t].at = "write")

LEMMA CommandFits ==
    ASSUME FilesInv, OneUser, Lasting, NEW t \in Thread, Proceeds(t),
           thread[t] # NoCommand,
           NEW k \in Kind, NEW a \in Account, thread[t].kind = k, thread[t].of = a,
           Elsewhere(k, a),
           Regular(k, a)' => Leaves(t, k, a)'
    PROVE  FilesInv'
<1> SUFFICES ASSUME NEW l \in Kind, NEW b \in Account, Regular(l, b)'
             PROVE  FileFits(l, b)'
  BY DEF FilesInv
<1>1. Regular(l, b) /\ FileFits(l, b)
  BY LastingFits
<1>2. CASE l = k /\ b = a
  <2>1. Leaves(t, k, a)'
    BY <1>2
  <2>2. \A u \in Thread \ {t} : ~Uses(u, k, a)
    BY <1>1, <1>2 DEF OneUser, Uses, Regular, Excepted
  <2>3. \A u \in Thread \ {t} : ~Uses(u, k, a)'
    BY <2>2 DEF Proceeds, Others, Uses
  <2>4. Uses(t, k, a)' <=> thread'[t] \in Command
    BY CommandForms DEF Proceeds, Uses
  <2>5. \A u \in Thread : Uses(u, k, a)' =>
            Works(thread'[u], cache'[k][a], saved'[k][a])
    BY <2>1, <2>3, <2>4, CommandForms DEF Leaves
  <2>6. \/ FileKept(k, a)'
        \/ file'[k][a] = Truncated /\ Uses(t, k, a)' /\ thread'[t].at = "write"
    BY <2>1, <2>4 DEF Leaves
  <2>7. \/ Near(k, cache'[k][a], saved'[k][a])
        \/ Uses(t, k, a)'
    BY <2>1, <2>4 DEF Leaves
  <2>8. Kept(k, a)'
    BY <2>1 DEF Leaves
  <2> QED
    BY <1>2, <2>5, <2>6, <2>7, <2>8 DEF FileFits
<1>3. CASE ~(l = k /\ b = a)
  <2>1. /\ SameFile(l, b)
        /\ saved'[l][b] = saved[l][b]
        /\ cache'[l][b] = cache[l][b]
    BY <1>3 DEF Elsewhere
  <2>2. ~Uses(t, l, b) /\ ~Uses(t, l, b)'
    BY <1>3 DEF Proceeds, Uses
  <2>3. \A u \in Thread \ {t} : thread'[u] = thread[u] /\ Uses(u, l, b)' = Uses(u, l, b)
    BY DEF Proceeds, Others, Uses
  <2>4. Kept(l, b)' = Kept(l, b) /\ FileKept(l, b)' = FileKept(l, b)
        /\ file'[l][b] = file[l][b]
    BY <2>1 DEF SameFile, Kept, FileKept
  <2> QED
    BY <1>1, <2>1, <2>2, <2>3, <2>4 DEF FileFits
<1> QED
  BY <1>2, <1>3

\* A command begins.
LEMMA BeginFits ==
    ASSUME FilesInv, Lasting, DataTypeOK, NEW t \in Thread, Begin(t)
    PROVE  FilesInv'
<1>0. /\ thread[t] = NoCommand /\ Others(t)
      /\ thread'[t] \in Command /\ thread'[t].at = "look"
      /\ thread'[t].op \in Ops(thread'[t].kind)
      /\ \A k \in Kind, a \in Account :
            /\ Uses(t, k, a)'
            /\ \E u \in Thread : Uses(u, k, a)
            => <<k, a>> \in overlap'
      /\ UNCHANGED <<store, cache, saved>>
  BY Beginning DEF Begin
<1> SUFFICES ASSUME NEW k \in Kind, NEW a \in Account, Regular(k, a)'
             PROVE  FileFits(k, a)'
  BY DEF FilesInv
<1>1. FileFits(k, a)
  BY LastingFits
<1>2. \A u \in Thread \ {t} : thread'[u] = thread[u] /\ Uses(u, k, a)' = Uses(u, k, a)
  BY <1>0 DEF Others, Uses
<1>3. ~Uses(t, k, a)
  BY <1>0 DEF Uses
<1>4. Kept(k, a)' = Kept(k, a) /\ FileKept(k, a)' = FileKept(k, a) /\ file' = file
  BY <1>0 DEF store, Kept, FileKept
<1>5. CASE Uses(t, k, a)'
  <2>0. \A u \in Thread : ~Uses(u, k, a)
    BY <1>0, <1>5 DEF Regular, Excepted
  <2>1. Near(k, cache[k][a], saved[k][a]) /\ FileKept(k, a)
    BY <1>1, <2>0 DEF FileFits
  <2>2. \A u \in Thread \ {t} : ~Uses(u, k, a)'
    BY <1>2, <2>0
  <2>3. Works(thread'[t], cache[k][a], saved[k][a])
    BY <1>0, <1>5, <2>1 DEF Works, Uses
  <2> QED
    BY <1>0, <1>1, <1>4, <1>5, <2>1, <2>2, <2>3 DEF FileFits
<1>6. CASE ~Uses(t, k, a)'
  BY <1>0, <1>1, <1>2, <1>3, <1>4, <1>6 DEF FileFits
<1> QED
  BY <1>5, <1>6

\* The flush of a file
LEMMA FlushFits ==
    ASSUME FilesInv, OneUser, Lasting, Direct, DataTypeOK, NEW k \in Kind, NEW a \in Account,
           Flush(k, a)
    PROVE  FilesInv'
<1> SUFFICES ASSUME NEW l \in Kind, NEW b \in Account, Regular(l, b)'
             PROVE  FileFits(l, b)'
  BY DEF FilesInv
<1>0. UNCHANGED <<cache, thread, saved>> /\ \A u \in Thread : Uses(u, l, b)' = Uses(u, l, b)
  BY FlushAlone DEF Uses
<1>1. FileFits(l, b)
  BY LastingFits
<1>2. CASE l = k /\ b = a
  <2>1. FlushedFile(k, a)
    BY Flushing, TypesInParts
  <2>2. <<k, a>> \notin lost'
    BY <1>2 DEF Regular, Excepted
  <2>3. Kept(k, a)
    BY <1>1, <1>2 DEF FileFits
  <2>4. k \in Coalesced
    BY DEF Direct, Flush, FlushTakes, FlushDrops, FlushOpens, FlushEnds, FlushFails
  <2>5. \A t \in Thread : Uses(t, k, a) => thread[t].at # "write"
    BY <1>1, <1>2, <2>4 DEF FileFits, Works, Uses
  <2>6. FileKept(k, a)
    BY <1>1, <1>2, <2>5 DEF FileFits
  <2>7. Kept(k, a)' /\ FileKept(k, a)'
    <3>1. CASE FlushTakes(k, a)
      BY <1>0, <2>1, <2>2, <2>3, <2>6, <3>1 DEF FlushedFile, Kept, FileKept
    <3>2. CASE FlushDrops(k, a)
      BY <1>0, <2>1, <2>2, <2>3, <2>6, <3>2 DEF FlushedFile, Kept, FileKept
    <3>3. CASE FlushOpens(k, a)
      BY <1>0, <2>1, <2>2, <2>3, <2>6, <3>3 DEF FlushedFile, Kept, FileKept
    <3>4. CASE FlushEnds(k, a)
      BY <1>0, <2>1, <2>2, <2>3, <2>6, <3>4 DEF FlushedFile, Kept, FileKept
    <3>5. CASE FlushFails(k, a)
      BY <1>0, <2>1, <2>2, <2>3, <2>6, <3>5 DEF FlushedFile, Kept, FileKept
    <3> QED
      BY <2>1, <3>1, <3>2, <3>3, <3>4, <3>5 DEF FlushedFile
  <2> QED
    BY <1>0, <1>1, <1>2, <2>7 DEF FileFits
<1>3. CASE ~(l = k /\ b = a)
  <2>1. SameFile(l, b)
    BY <1>3, Flushing, TypesInParts
  <2>2. Kept(l, b)' = Kept(l, b) /\ FileKept(l, b)' = FileKept(l, b)
        /\ file'[l][b] = file[l][b]
    BY <1>0, <2>1 DEF SameFile, Kept, FileKept
  <2> QED
    BY <1>0, <1>1, <2>2 DEF FileFits
<1> QED
  BY <1>2, <1>3

\* Where a command stands that is about to step on a regular file
Held(t, k, a) ==
    /\ thread[t] \in Command /\ thread[t].kind = k /\ thread[t].of = a
    /\ Kept(k, a)
    /\ FileKept(k, a) \/ (file[k][a] = Truncated /\ thread[t].at = "write")
    /\ Works(thread[t], cache[k][a], saved[k][a])

LEMMA Holding ==
    ASSUME FilesInv, OneUser, Lasting, NEW t \in Thread, thread[t] \in Command,
           NEW k \in Kind, NEW a \in Account, thread[t].kind = k, thread[t].of = a,
           Regular(k, a)'
    PROVE  Held(t, k, a)
<1>1. FileFits(k, a) /\ <<k, a>> \notin overlap
  BY LastingFits DEF Regular, Excepted
<1>2. Uses(t, k, a)
  BY CommandForms DEF Uses
<1>3. \A u \in Thread : Uses(u, k, a) => u = t
  BY <1>1, <1>2 DEF OneUser
<1> QED
  BY <1>1, <1>2, <1>3 DEF FileFits, Held

LEMMA ReadLeaves ==
    ASSUME DataTypeOK, Direct, NEW t \in Thread, Read(t), NEW k \in Kind, NEW a \in Account,
           Held(t, k, a), Regular(k, a)'
    PROVE  Leaves(t, k, a)'
<1> DEFINE j == thread[t]
           d == saved[k][a]
           c == cache[k][a]
<1>0. CommandsTyped
  BY DataTypes
<1>1. /\ j \in Command /\ j.kind = k /\ j.of = a /\ j.at = "look"
      /\ UNCHANGED <<store, cache, saved>>
      /\ Copy(j) = c
      /\ Opened(j) = Contents(k, a)
      /\ Step(t)
  BY ReadCases DEF Held, Read, Copy, Opened, Step
<1>2. Near(k, c, d) /\ j.op \in Ops(k) /\ Kept(k, a) /\ FileKept(k, a)
  BY <1>1 DEF Held, Works
<1>3. c = None \/ k \notin Coalesced =>
        /\ Opened(j) = d \/ (k = "meta" /\ Opened(j) = {})
        /\ k = "meta" /\ Opened(j) # {} => Opened(j) = d
  <2>1. k # "meta" => unlocked = a
    BY <1>1 DEF Read, Regular, Excepted
  <2>2. c = None \/ k \notin Coalesced => pending[k][a] # None \/ flying[k][a] = None
    BY <1>1 DEF Read, Regular, Excepted, Direct
  <2> QED
    BY <1>1, <1>2, <2>1, <2>2 DEF Kept, FileKept, Contents
<1>4. Opened(j) \in Updates /\ Copy(j) \in CopyOrNone
  BY <1>1, Stepping
<1>5. \/ thread'[t] = NoCommand
      \/ thread'[t] \in Command /\ Works(thread'[t], c, d)
  <2>1. CASE ReadEnds(t)
    BY <1>0, <2>1, Ending DEF ReadEnds
  <2>2. CASE ReadFills(t)
    <3>1. Went(t, "fill", Opened(j))
      BY <1>0, <1>1, <1>4, <2>2, Going DEF ReadFills, Place
    <3> QED
      BY <1>1, <1>2, <1>3, <2>2, <3>1 DEF ReadFills, Went, Works
  <2>3. CASE ReadSaves(t)
    <3>1. Went(t, "save", Opened(j))
      BY <1>0, <1>1, <1>4, <2>3, Going DEF ReadSaves, Place
    <3>2. k \notin Coalesced /\ k # "index"
      BY <1>1, <2>3 DEF ReadSaves, Coalesced
    <3>3. Opened(j) = d
      BY <1>1, <1>3, <2>3, <3>2 DEF ReadSaves
    <3> QED
      BY <1>1, <1>2, <3>1, <3>2, <3>3 DEF Went, Works
  <2>4. CASE ReadAsks(t)
    <3>1. Went(t, "ask", Copy(j))
      BY <1>0, <1>1, <1>4, <2>4, Going DEF ReadAsks, CopyOrNone, Place
    <3>2. Copy(j) = d /\ k = "settings"
      BY <1>1, <1>2, <2>4 DEF ReadAsks, Near
    <3> QED
      BY <1>1, <1>2, <3>1, <3>2 DEF Went, Works, Coalesced
  <2>5. CASE ReadInserts(t)
    <3>1. (IF Copy(j) = None THEN Opened(j) ELSE Copy(j)) = d /\ k = "index"
      BY <1>1, <1>2, <1>3, <2>5 DEF ReadInserts, Near
    <3>2. Goes(t, "insert", d) /\ d \in Updates
      BY <1>4, <2>5, <3>1 DEF ReadInserts, CopyOrNone
    <3>3. Went(t, "insert", d)
      BY <1>0, <1>1, <3>2, Going DEF Place
    <3> QED
      BY <1>1, <1>2, <3>1, <3>3 DEF Went, Works
  <2>6. CASE ReadCuts(t)
    <3>1. Went(t, "cut", Copy(j))
      BY <1>0, <1>1, <1>4, <2>6, Going DEF ReadCuts, CopyOrNone, Place
    <3>2. Copy(j) = d /\ k = "index"
      BY <1>1, <1>2, <2>6 DEF ReadCuts, Near
    <3> QED
      BY <1>1, <1>2, <3>1, <3>2 DEF Went, Works
  <2> QED
    BY <2>1, <2>2, <2>3, <2>4, <2>5, <2>6, ReadCases
<1>6. Kept(k, a)' /\ FileKept(k, a)'
  BY <1>1, <1>2 DEF store, Kept, FileKept
<1> QED
  BY <1>1, <1>2, <1>5, <1>6 DEF Leaves

\* A step that leaves the files alone
LEMMA StoreStays ==
    ASSUME NEW k, NEW a, Kept(k, a), UNCHANGED <<store, saved>>
    PROVE  Kept(k, a)' /\ (FileKept(k, a) => FileKept(k, a)')
BY DEF store, Kept, FileKept

LEMMA CopyElsewhere ==
    ASSUME NEW k, NEW a, NEW v, Replaced(cache, cache', k, a, v), UNCHANGED <<store, saved>>
    PROVE  Elsewhere(k, a) /\ cache'[k][a] = v
BY DEF Replaced, Elsewhere, SameFile, store

LEMMA FillLeaves ==
    ASSUME DataTypeOK, NEW t \in Thread, Fill(t), NEW k \in Kind, NEW a \in Account,
           thread[t].kind = k, thread[t].of = a
    PROVE  Elsewhere(k, a) /\ (Held(t, k, a) => Leaves(t, k, a)')
<1> DEFINE j == thread[t]
           d == saved[k][a]
<1>0. CommandsTyped /\ Step(t)
  BY DataTypes DEF Step
<1>1. j.data \in Updates /\ j \in Command
  BY <1>0, Stepping
<1>2. Elsewhere(k, a) /\ cache'[k][a] = j.data /\ UNCHANGED <<store, saved>> /\ j.at = "fill"
  BY <1>0, StepFiles, CopyElsewhere DEF Fill, history
<1>3. ASSUME Held(t, k, a) PROVE Leaves(t, k, a)'
  <2>1. /\ j.op \in Ops(k)
        /\ j.kind # "settings" => j.op \in {"get", "prune"}
        /\ j.data = d \/ (k = "meta" /\ j.data = {})
        /\ Kept(k, a) /\ FileKept(k, a)
    BY <1>2, <1>3 DEF Held, Works
  <2>2. Kept(k, a)' /\ FileKept(k, a)' /\ saved' = saved
    BY <1>2, <2>1, StoreStays
  <2>3. Near(k, cache'[k][a], d)
    BY <1>2, <2>1 DEF Near
  <2>4. CASE Ends(t)
    BY <1>0, <2>2, <2>3, <2>4, Ending DEF Leaves
  <2>5. CASE j.op = "add" /\ Turns(t, "ask")
    <3>1. Went(t, "ask", j.data)
      BY <1>0, <1>1, <2>5, Turning DEF Place
    <3>2. k = "settings" /\ j.data = d
      BY <2>1, <2>5
    <3>3. thread'[t] \in Command /\ Works(thread'[t], cache'[k][a], d)
      BY <2>1, <3>1, <3>2 DEF Went, Works, Coalesced
    <3> QED
      BY <2>2, <3>3 DEF Leaves
  <2>6. CASE j.op = "prune" /\ Turns(t, "insert")
    <3>1. Went(t, "insert", j.data)
      BY <1>0, <1>1, <2>6, Turning DEF Place
    <3>2. k = "index" /\ j.data = d
      BY <2>1, <2>6, DataAssumptions DEF Ops, DataAssumptions
    <3>3. thread'[t] \in Command /\ Works(thread'[t], cache'[k][a], d)
      BY <2>1, <3>1, <3>2 DEF Went, Works
    <3> QED
      BY <2>2, <3>3 DEF Leaves
  <2> QED
    BY <2>4, <2>5, <2>6 DEF Fill
<1> QED
  BY <1>2, <1>3

LEMMA InsertLeaves ==
    ASSUME DataTypeOK, NEW t \in Thread, Insert(t), NEW k \in Kind, NEW a \in Account,
           thread[t].kind = k, thread[t].of = a
    PROVE  Elsewhere(k, a) /\ (Held(t, k, a) => Leaves(t, k, a)')
<1> DEFINE j == thread[t]
           d == saved[k][a]
<1>0. CommandsTyped /\ Step(t)
  BY DataTypes DEF Step
<1>1. New(j) \in Updates /\ j \in Command
  BY <1>0, Stepping
<1>2. /\ Elsewhere(k, a) /\ cache'[k][a] = New(j) /\ UNCHANGED <<store, saved>>
      /\ j.at \in {"insert", "cut"}
  BY <1>0, StepFiles, CopyElsewhere DEF Insert, history
<1>3. ASSUME Held(t, k, a) PROVE Leaves(t, k, a)'
  <2>1. /\ j.op \in Ops(k)
        /\ k \in {"index", "settings"}
        /\ k = "index" /\ j.op # "drop" => j.data = d
        /\ k = "settings" => New(j) = d
        /\ Kept(k, a) /\ FileKept(k, a)
    BY <1>2, <1>3 DEF Held, Works
  <2>2. Kept(k, a)' /\ FileKept(k, a)' /\ saved' = saved
    BY <1>2, <2>1, StoreStays
  <2>3. CASE k = "settings"
    <3>1. Ends(t)
      BY <2>3 DEF Insert
    <3> QED
      BY <1>0, <1>2, <2>1, <2>2, <2>3, <3>1, Ending DEF Leaves, Near
  <2>4. CASE k = "index"
    <3>1. PICK at \in {"ask", "save"} : Turns(t, at)
      BY <2>4 DEF Insert
    <3>2. Went(t, at, j.data)
      BY <1>0, <1>1, <3>1, Turning DEF Place
    <3>3. New(thread'[t]) = New(j)
      BY <3>2 DEF New, Went
    <3>4. thread'[t] \in Command /\ Works(thread'[t], cache'[k][a], d)
      BY <1>2, <2>1, <2>4, <3>2, <3>3 DEF Went, Works, Coalesced
    <3> QED
      BY <2>2, <3>4 DEF Leaves
  <2> QED
    BY <2>1, <2>3, <2>4
<1> QED
  BY <1>2, <1>3

LEMMA AskLeaves ==
    ASSUME DataTypeOK, NEW t \in Thread, Ask(t), NEW k \in Kind, NEW a \in Account,
           thread[t].kind = k, thread[t].of = a
    PROVE  Elsewhere(k, a) /\ (Held(t, k, a) => Leaves(t, k, a)')
<1> DEFINE j == thread[t]
<1>0. CommandsTyped /\ Step(t)
  BY DataTypes DEF Step
<1>1. j.data \in Updates /\ j \in Command
  BY <1>0, Stepping
<1>2. Elsewhere(k, a) /\ UNCHANGED <<store, saved, cache>> /\ j.at = "ask"
  BY DEF Ask, history, Elsewhere, SameFile, store
<1>3. Went(t, "save", j.data)
  BY <1>0, <1>1, Going DEF Ask, Place
<1>4. New(thread'[t]) = New(j)
  BY <1>3 DEF New, Went
<1>5. ASSUME Held(t, k, a) PROVE Leaves(t, k, a)'
  <2>1. Works(j, cache[k][a], saved[k][a]) /\ Kept(k, a) /\ FileKept(k, a)
    BY <1>2, <1>5 DEF Held
  <2>2. Works(thread'[t], cache[k][a], saved[k][a])
    BY <1>2, <1>3, <1>4, <2>1 DEF Went, Works
  <2> QED
    BY <1>2, <1>3, <2>1, <2>2, StoreStays DEF Went, Leaves
<1> QED
  BY <1>2, <1>5

\* What a command that saves makes of the file, and of the history
LEMMA SavedNew ==
    ASSUME DataTypeOK, NEW t \in Thread, Save(t) \/ Write(t), NEW k \in Kind,
           NEW a \in Account, Held(t, k, a), Regular(k, a)'
    PROVE  /\ saved'[k][a] = New(thread[t])
           /\ Contained(thread[t]).data = New(thread[t])
           /\ Contained(thread[t]).encrypted
<1> DEFINE j == thread[t]
           list == Change(j.op, saved[k][a], j.sets)
<1>0. Step(t) /\ Saved(j)
  BY DEF Step, Save, Write
<1>1. j.kind = k /\ j.of = a /\ (j.op # "drop" => j.data = saved[k][a])
  BY DEF Held, Works, Save, Write
<1>2. saved'[k][a] = list
  BY <1>0, <1>1, SavedAll DEF Replaced
<1>3. New(j) = list
  BY <1>1 DEF New, Change
<1>4. j.open
  <2>1. a \notin closed'
    BY DEF Regular, Excepted
  <2> QED
    BY <1>0, <1>1, <2>1 DEF Saved
<1> QED
  BY <1>0, <1>2, <1>3, <1>4, Containing

LEMMA SaveElsewhere ==
    ASSUME DataTypeOK, NEW t \in Thread, Save(t) \/ Write(t), NEW k \in Kind,
           NEW a \in Account, thread[t].kind = k, thread[t].of = a
    PROVE  Elsewhere(k, a)
<1>0. Step(t) /\ Saved(thread[t])
  BY DEF Step, Save, Write
<1>1. \A l \in Kind, b \in Account : l # k \/ b # a => saved'[l][b] = saved[l][b]
  BY <1>0, SavedAll DEF Replaced
<1>2. CASE Save(t)
  BY <1>0, <1>1, <1>2, StepFiles DEF Save, Replaced, Elsewhere, SameFile
<1>3. CASE Write(t)
  BY <1>0, <1>1, <1>3, StepFiles DEF Write, Replaced, Elsewhere, SameFile
<1> QED
  BY <1>2, <1>3

LEMMA SaveLeaves ==
    ASSUME DataTypeOK, NEW t \in Thread, Save(t), NEW k \in Kind,
           NEW a \in Account, Held(t, k, a), Regular(k, a)'
    PROVE  Leaves(t, k, a)'
<1> DEFINE j == thread[t]
<1>0. CommandsTyped /\ Step(t) /\ j \in Command /\ j.kind = k /\ j.of = a
  BY DataTypes DEF Step, Held
<1>1. /\ saved'[k][a] = New(j)
      /\ Contained(j).data = New(j) /\ Contained(j).encrypted
  BY SavedNew
<1>2. pending'[k][a] = Contained(j) /\ UNCHANGED <<file, flying, cache>>
  BY <1>0, StepFiles DEF Save, Replaced
<1>3. Contained(j) # None
  BY <1>0, Containing, NoneIsNoSave
<1>4. Kept(k, a)' /\ FileKept(k, a)'
  BY <1>1, <1>2, <1>3 DEF Held, Kept, FileKept
<1>5. Works(j, cache[k][a], saved[k][a]) /\ j.at = "save" /\ k \in {"settings", "index"}
  BY <1>0 DEF Held, Save, Coalesced
<1>6. CASE k = "settings"
  <2>1. Went(t, "insert", j.data)
    BY <1>0, <1>6, Stepping, Turning DEF Save, Written, Place
  <2>2. New(thread'[t]) = New(j)
    BY <2>1 DEF Went, New
  <2> QED
    BY <1>0, <1>1, <1>4, <1>5, <1>6, <2>1, <2>2 DEF Went, Works, Leaves
<1>7. CASE k = "index"
  <2>1. Ends(t)
    BY <1>0, <1>7 DEF Save, Written
  <2>2. cache[k][a] \in {None, New(j)}
    BY <1>0, <1>5, <1>7 DEF Works
  <2> QED
    BY <1>0, <1>1, <1>2, <1>4, <2>1, <2>2, Ending DEF Near, Leaves
<1> QED
  BY <1>5, <1>6, <1>7

LEMMA OpenLeaves ==
    ASSUME DataTypeOK, Direct, NEW t \in Thread, Open(t), NEW k \in Kind,
           NEW a \in Account, thread[t].kind = k, thread[t].of = a
    PROVE  Elsewhere(k, a) /\ (Held(t, k, a) => Leaves(t, k, a)')
<1> DEFINE j == thread[t]
<1>0. CommandsTyped /\ Step(t) /\ j \in Command /\ j.data \in Updates
  <2>1. Step(t)
    BY DEF Step
  <2> QED
    BY <2>1, DataTypes, Stepping
<1>1. /\ Replaced(file, file', k, a, Truncated)
      /\ UNCHANGED <<pending, flying, cache, saved>> /\ j.at = "save" /\ k \notin Coalesced
  BY <1>0, StepFiles DEF Open, history
<1>2. Elsewhere(k, a) /\ file'[k][a] = Truncated
  BY <1>1 DEF Replaced, Elsewhere, SameFile
<1>3. Went(t, "write", j.data)
  BY <1>0, Turning DEF Open, Place
<1>4. New(thread'[t]) = New(j)
  BY <1>3 DEF New, Went
<1>5. ASSUME Held(t, k, a) PROVE Leaves(t, k, a)'
  <2>1. Works(j, cache[k][a], saved[k][a]) /\ Kept(k, a)
    BY <1>5 DEF Held
  <2>2. Works(thread'[t], cache[k][a], saved[k][a])
    BY <1>1, <1>3, <1>4, <2>1 DEF Went, Works
  <2>3. Kept(k, a)'
    BY <1>1, <2>1 DEF Kept
  <2> QED
    BY <1>1, <1>2, <1>3, <2>2, <2>3 DEF Went, Leaves
<1> QED
  BY <1>2, <1>5

LEMMA WriteLeaves ==
    ASSUME DataTypeOK, NoCopy, Direct, NEW t \in Thread, Write(t), NEW k \in Kind,
           NEW a \in Account, Held(t, k, a), Regular(k, a)'
    PROVE  Leaves(t, k, a)'
<1> DEFINE j == thread[t]
<1>0. CommandsTyped /\ Step(t) /\ j \in Command /\ j.kind = k /\ j.of = a
  BY DataTypes DEF Step, Held
<1>1. /\ saved'[k][a] = New(j)
      /\ Contained(j).data = New(j) /\ Contained(j).encrypted
  BY SavedNew
<1>2. file'[k][a] = Contained(j) /\ UNCHANGED <<pending, flying, cache>>
  BY <1>0, StepFiles DEF Write, Replaced
<1>3. Works(j, cache[k][a], saved[k][a]) /\ j.at = "write" /\ k \in {"meta", "chat", "storage"}
  BY <1>0, DataAssumptions DEF Held, Write, Works, Coalesced, DataAssumptions
<1>4. pending[k][a] = None /\ flying[k][a] = None
  BY <1>3 DEF Direct, Coalesced
<1>5. Kept(k, a)' /\ FileKept(k, a)'
  BY <1>1, <1>2, <1>4 DEF Kept, FileKept
<1>6. CASE k = "meta"
  <2>1. Went(t, "remove", j.data)
    BY <1>0, <1>6, Stepping, Turning DEF Write, Written, Place
  <2> QED
    BY <1>0, <1>3, <1>5, <1>6, <2>1 DEF Went, Works, Leaves
<1>7. CASE k \in {"chat", "storage"}
  <2>1. Ends(t)
    BY <1>0, <1>7 DEF Write, Written
  <2>2. cache[k][a] = None
    BY <1>7 DEF NoCopy
  <2> QED
    BY <1>0, <1>2, <1>5, <2>1, <2>2, Ending DEF Near, Leaves
<1> QED
  BY <1>3, <1>6, <1>7

LEMMA FailLeaves ==
    ASSUME DataTypeOK, NEW t \in Thread, Fails(t), NEW k \in Kind, NEW a \in Account,
           thread[t].kind = k, thread[t].of = a
    PROVE  Elsewhere(k, a) /\ (Held(t, k, a) /\ Regular(k, a)' => Leaves(t, k, a)')
<1>0. CommandsTyped
  BY DataTypes
<1>1. UNCHANGED <<store, cache, saved>> /\ thread'[t] = NoCommand
  BY <1>0, Ending DEF Fails
<1>2. ASSUME Held(t, k, a), Regular(k, a)' PROVE Leaves(t, k, a)'
  <2>1. thread[t].at = "save" /\ k \notin Coalesced
    BY <1>2 DEF Fails, Regular, Excepted
  <2>2. Kept(k, a) /\ FileKept(k, a) /\ Near(k, cache[k][a], saved[k][a])
    BY <1>2, <2>1 DEF Held, Works
  <2> QED
    BY <1>1, <2>2, StoreStays DEF Leaves
<1>3. Elsewhere(k, a)
  BY <1>1 DEF Elsewhere, SameFile, store
<1> QED
  BY <1>2, <1>3

LEMMA RemoveLeaves ==
    ASSUME DataTypeOK, NEW t \in Thread, Remove(t), NEW k \in Kind, NEW a \in Account,
           thread[t].kind = k, thread[t].of = a
    PROVE  Elsewhere(k, a) /\ (Held(t, k, a) => Leaves(t, k, a)')
<1>0. CommandsTyped /\ Step(t)
  BY DataTypes DEF Step
<1>1. Elsewhere(k, a) /\ cache'[k][a] = None /\ UNCHANGED <<store, saved>>
  BY <1>0, StepFiles, CopyElsewhere DEF Remove, history
<1>2. thread'[t] = NoCommand /\ thread[t].at = "remove"
  BY <1>0, Ending DEF Remove
<1> QED
  BY <1>1, <1>2, StoreStays DEF Held, Leaves, Near

LEMMA FilesNext ==
    DataTypeOK /\ LooksInv /\ UsersInv /\ FilesInv /\ [DataNext]_dataVars => FilesInv'
<1> SUFFICES ASSUME DataTypeOK, LooksInv, UsersInv, FilesInv, [DataNext]_dataVars
             PROVE  FilesInv'
  OBVIOUS
<1> USE DEF UsersInv, LooksInv
<1>0. Lasting /\ TypedParts
  BY AlwaysLasting, TypesInParts
<1>1. ASSUME NEW a \in Account, Select(a) PROVE FilesInv'
  BY <1>0, <1>1, LookEased, CopiesEased DEF Select, history
<1>2. CASE UnlockPage
  <2>1. \A k \in Kind : cache[k] \in [Account -> CopyOrNone]
    BY <1>0 DEF TypedParts
  <2>2. \A k \in Kind : cache'[k] \in {cache[k], [cache[k] EXCEPT ![page.of] = None]}
    BY <1>2 DEF UnlockPage
  <2>3. \A k \in Kind, a \in Account : cache'[k][a] \in {cache[k][a], None}
    BY <2>1, <2>2
  <2>4. \A k \in Kind, a \in Account :
            Eased(k, cache[k][a], cache'[k][a], saved[k][a])
    BY <2>3 DEF Eased
  <2> QED
    BY <1>0, <1>2, <2>4, CopiesEased DEF UnlockPage
<1>3. CASE Enter
  <2>1. page.of \in Account
    BY <1>0, <1>3, PageForms DEF Enter, TypedParts
  <2> QED
    BY <1>0, <1>3, <2>1, LookEased, CopiesEased DEF Enter, history
<1>4. CASE Leave
  <2>1. \A k \in Kind, a \in Account :
            Eased(k, cache[k][a], cache'[k][a], saved[k][a])
    BY <1>4 DEF Leave, Eased
  <2> QED
    BY <1>0, <1>4, <2>1, CopiesEased DEF Leave, history
<1>5. CASE Restart
  <2> SUFFICES ASSUME NEW k \in Kind, NEW a \in Account, Regular(k, a)'
               PROVE  FileFits(k, a)'
    BY DEF FilesInv
  <2>1. FileFits(k, a)
    BY <1>0, LastingFits
  <2>2. <<k, a>> \notin lost'
    BY DEF Regular, Excepted
  <2>3. /\ pending[k][a] = None /\ flying[k][a] = None
        /\ \A t \in Thread : Uses(t, k, a) => thread[t].at # "write"
    BY <1>5, <2>2 DEF Restart, Uses
  <2>4. FileKept(k, a)
    BY <2>1, <2>3 DEF FileFits
  <2>5. /\ file'[k][a] = file[k][a] /\ saved' = saved
        /\ pending'[k][a] = None /\ flying'[k][a] = None /\ cache'[k][a] = None
        /\ \A t \in Thread : thread'[t] = NoCommand
    BY <1>5 DEF Restart
  <2>6. Kept(k, a)' /\ FileKept(k, a)'
    BY <2>3, <2>4, <2>5 DEF Kept, FileKept
  <2> QED
    BY <2>5, <2>6 DEF FileFits, Uses, Near
<1>6. ASSUME NEW t \in Thread, Begin(t) PROVE FilesInv'
  BY <1>0, <1>6, BeginFits
<1>7. ASSUME NEW t \in Thread, Step(t) PROVE FilesInv'
  <2>1. PICK k \in Kind, a \in Account : thread[t].kind = k /\ thread[t].of = a
    BY <1>7, Stepping
  <2>2. thread[t] \in Command /\ thread[t] # NoCommand /\ Proceeds(t)
    BY <1>7, Stepping
  <2>3. Regular(k, a)' => Held(t, k, a)
    BY <1>0, <2>1, <2>2, Holding
  <2>4. Elsewhere(k, a) /\ (Regular(k, a)' => Leaves(t, k, a)')
    <3>1. CASE Read(t)
      <4>1. Elsewhere(k, a)
        BY <3>1 DEF Read, Elsewhere, SameFile, store
      <4> QED
        BY <2>3, <3>1, <4>1, ReadLeaves
    <3>2. CASE Fill(t)
      BY <2>1, <2>3, <3>2, FillLeaves
    <3>3. CASE Insert(t)
      BY <2>1, <2>3, <3>3, InsertLeaves
    <3>4. CASE Ask(t)
      BY <2>1, <2>3, <3>4, AskLeaves
    <3>5. CASE Save(t)
      BY <2>1, <2>3, <3>5, SaveLeaves, SaveElsewhere
    <3>6. CASE Open(t)
      BY <2>1, <2>3, <3>6, OpenLeaves
    <3>7. CASE Write(t)
      BY <2>1, <2>3, <3>7, WriteLeaves, SaveElsewhere
    <3>8. CASE Fails(t)
      BY <2>1, <2>3, <3>8, FailLeaves
    <3>9. CASE Remove(t)
      BY <2>1, <2>3, <3>9, RemoveLeaves
    <3> QED
      BY <1>7, <3>1, <3>2, <3>3, <3>4, <3>5, <3>6, <3>7, <3>8, <3>9 DEF Step
  <2> QED
    BY <1>0, <2>1, <2>2, <2>4, CommandFits
<1>8. ASSUME NEW k \in Kind, NEW a \in Account, Flush(k, a) PROVE FilesInv'
  BY <1>0, <1>8, FlushFits
<1>9. CASE UNCHANGED dataVars
  <2>1. \A k \in Kind, a \in Account :
            Eased(k, cache[k][a], cache'[k][a], saved[k][a])
    BY <1>9 DEF dataVars, Eased
  <2> QED
    BY <1>0, <1>9, <2>1, CopiesEased DEF dataVars
<1> QED
  BY <1>1, <1>2, <1>3, <1>4, <1>5, <1>6, <1>7, <1>8, <1>9 DEF DataNext

DataInv == DataTypeOK /\ LooksInv /\ UsersInv /\ FilesInv

\* What holds between files, saves, copies, commands and the page at every step
THEOREM DataInvariant == DataSpec => []DataInv
<1>1. DataInit => DataInv
  BY DataTypesInit, LooksInit, UsersInit, FilesInit DEF DataInv
<1>2. DataInv /\ [DataNext]_dataVars => DataInv'
  BY DataTypesNext, LooksNext, UsersNext, FilesNext DEF DataInv
<1> QED
  BY <1>1, <1>2, PTL DEF DataSpec

\* An account that is shown is open, unless it was displaced by another.
THEOREM OnlyOpenShown == DataSpec => []ShownIsOpen
<1>1. DataInv => ShownIsOpen
  BY DEF DataInv, LooksInv, PageSeen, Seen, ShownIsOpen
<1> QED
  BY <1>1, DataInvariant, PTL

\* What a regular file has or will have is what was saved, unless it is being
\* written.
LEMMA NewestSaved ==
    ASSUME FilesInv, NEW k \in Kind, NEW a \in Account, ~Excepted(k, a)
    PROVE  \/ Newest(k, a) = saved[k][a]
           \/ \E t \in Thread : Uses(t, k, a) /\ thread[t].at = "write"
<1>1. FileFits(k, a)
  BY DEF FilesInv, Regular
<1> QED
  BY <1>1 DEF FileFits, Kept, FileKept, Newest

\* No update of a file is lost as long as its commands are one after the other
\* and have the key, and no flush or write drops or fails one.
THEOREM UpdatesStay == DataSpec => []UpdatesKept
<1>1. DataInv => UpdatesKept
  BY NewestSaved DEF DataInv, UpdatesKept, Uses
<1> QED
  BY <1>1, DataInvariant, PTL

\* Nor does a copy keep what the file has no more.
THEOREM CopiesFit == DataSpec => []CopyFits
<1>1. DataInv => CopyFits
  <2> SUFFICES ASSUME DataInv, NEW k \in Kind, NEW a \in Account, ~Excepted(k, a),
                      ~InUse(k, a)
               PROVE  \/ cache[k][a] \in {None, Newest(k, a)}
                      \/ k = "meta" /\ cache[k][a] = {}
    BY DEF CopyFits
  <2>1. \A t \in Thread : ~Uses(t, k, a)
    BY DEF InUse, Uses
  <2>2. FileFits(k, a)
    BY DEF DataInv, FilesInv, Regular
  <2> QED
    BY <2>1, <2>2, NewestSaved DEF DataInv, FileFits, Near
<1> QED
  BY <1>1, DataInvariant, PTL
=============================================================================
