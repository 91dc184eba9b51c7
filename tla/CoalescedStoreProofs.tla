------------------------- MODULE CoalescedStoreProofs -------------------------
(* Proofs about CoalescedStore, for any files, threads and bound on saves.   *)
EXTENDS CoalescedStore, TLAPS

\* Changing the state of one task leaves the others alone.
LEMMA SetTask ==
    ASSUME NEW T \in [Path -> [Save -> TaskState]], NEW U,
           NEW p \in Path, NEW v \in Save, NEW s \in TaskState,
           U = [T EXCEPT ![p][v] = s]
    PROVE  /\ U \in [Path -> [Save -> TaskState]]
           /\ U[p][v] = s
           /\ \A q \in Path, w \in Save : q # p \/ w # v => U[q][w] = T[q][w]
<1>1. [T[p] EXCEPT ![v] = s] \in [Save -> TaskState]
  OBVIOUS
<1>. QED
  BY <1>1

\* The states a task goes through are states a task can have.
LEMMA TaskStates ==
    /\ Off \in TaskState
    /\ [pc |-> "sleeping", item |-> 0] \in TaskState
    /\ [pc |-> "checking", item |-> 0] \in TaskState
    /\ \A x \in Save : /\ [pc |-> "took", item |-> x] \in TaskState
                       /\ [pc |-> "opening", item |-> x] \in TaskState
                       /\ [pc |-> "filling", item |-> x] \in TaskState
BY DEF TaskState, Off, Waiting, Holding

\* A task with something to write holds a save, another holds nothing.
LEMMA TaskItem ==
    ASSUME NEW s \in TaskState
    PROVE  /\ s.pc \in Holding => s.item \in Save
           /\ s.pc \notin Holding => s.item = 0
           /\ s.item \in 0 .. MaxSaves
BY StoreAssumption DEF TaskState, Waiting, Holding, Save

\* Every variable keeps its type.
THEOREM StoreTyped == Spec => []TypeOK
<1>1. Init => TypeOK
  BY StoreAssumption, TaskStates DEF Init, TypeOK
<1>2. TypeOK /\ [Next]_vars => TypeOK'
  <2>. SUFFICES ASSUME TypeOK, [Next]_vars PROVE TypeOK'
    OBVIOUS
  <2>. USE StoreAssumption DEF TypeOK, Save
  <2>1. ASSUME NEW c \in Caller, NEW p \in Path, Insert(c, p) PROVE TypeOK'
    BY <2>1, SMTT(30) DEF Insert
  <2>2. ASSUME NEW c \in Caller, Schedule(c) PROVE TypeOK'
    <3>1. caller[c].path \in Path /\ caller[c].ver \in Save
      BY <2>2 DEF Schedule
    <3>2. task' \in [Path -> [Save -> TaskState]]
      BY <2>2, <3>1, TaskStates, SetTask DEF Schedule
    <3>. QED
      BY <2>2, <3>1, <3>2 DEF Schedule
  <2>3. ASSUME NEW p \in Path, NEW v \in Save PROVE Step(p, v) => TypeOK'
    <3>. DEFINE was == task[p][v]
    <3>1. was \in TaskState /\ was.item \in 0 .. MaxSaves
      BY TaskItem
    <3>2. CASE Take(p, v)
      <4>1. [pc |-> IF pending[p] = 0 THEN "checking" ELSE "took",
             item |-> pending[p]] \in TaskState
        <5>1. CASE pending[p] = 0
          BY <5>1, TaskStates
        <5>2. CASE pending[p] # 0
          BY <5>2, pending[p] \in Save, TaskStates
        <5>. QED
          BY <5>1, <5>2
      <4>2. task' \in [Path -> [Save -> TaskState]]
        BY <3>2, <4>1, SetTask DEF Take
      <4>. QED
        BY <3>2, <4>2 DEF Take
    <3>3. CASE DropPending(p, v)
      <4>1. [pc |-> "opening", item |-> was.item] \in TaskState
        BY <3>3, TaskStates, TaskItem DEF DropPending, Holding
      <4>2. task' \in [Path -> [Save -> TaskState]]
        BY <3>3, <4>1, SetTask DEF DropPending
      <4>. QED
        BY <3>3, <4>2 DEF DropPending
    <3>4. CASE Open(p, v)
      <4>1. [pc |-> "filling", item |-> was.item] \in TaskState
        BY <3>4, TaskStates, TaskItem DEF Open, Holding
      <4>2. task' \in [Path -> [Save -> TaskState]]
        BY <3>4, <4>1, SetTask DEF Open
      <4>. QED
        BY <3>4, <4>2 DEF Open
    <3>5. CASE Fill(p, v)
      <4>1. task' \in [Path -> [Save -> TaskState]]
        BY <3>5, TaskStates, SetTask DEF Fill
      <4>. QED
        BY <3>1, <3>5, <4>1 DEF Fill
    <3>6. CASE FailWrite(p, v)
      <4>1. task' \in [Path -> [Save -> TaskState]]
        BY <3>6, TaskStates, SetTask DEF FailWrite
      <4>. QED
        BY <3>6, <4>1 DEF FailWrite
    <3>7. CASE Finish(p, v)
      <4>1. task' \in [Path -> [Save -> TaskState]]
        <5>1. \E s \in TaskState : task' = [task EXCEPT ![p][v] = s]
          BY <3>7, TaskStates DEF Finish
        <5>. QED
          BY <5>1, SetTask
      <4>. QED
        BY <3>7, <4>1 DEF Finish
    <3>. QED
      BY <3>2, <3>3, <3>4, <3>5, <3>6, <3>7 DEF Step
  <2>4. ASSUME NEW p \in Path, Clear(p) PROVE TypeOK'
    <3>1. task'[p] \in [Save -> TaskState]
      BY <2>4, TaskStates DEF Clear
    <3>2. task' \in [Path -> [Save -> TaskState]]
      BY <2>4, <3>1 DEF Clear
    <3>. QED
      BY <2>4, <3>2 DEF Clear
  <2>5. CASE Crash
    BY <2>5, TaskStates DEF Crash
  <2>6. CASE UNCHANGED vars
    BY <2>6 DEF vars
  <2>. QED
    BY <2>1, <2>2, <2>3, <2>4, <2>5, <2>6 DEF Next
<1>. QED
  BY <1>1, <1>2, PTL DEF Spec

\* In a state of StoreInv the flush task of a file is the only one at work, so
\* the contents it took are the newest that any task has.
LEMMA OnlyTask ==
    ASSUME StoreInv, NEW p \in Path, NEW v \in Save, task[p][v].pc # "off"
    PROVE  /\ Active(p) = {v} /\ p \in scheduled
           /\ \A w \in Save : w # v => task[p][w].pc = "off"
BY DEF StoreInv, OneFlushTask, ScheduledHasTask, Active

\* What a step of a flush task to state s does to the sets of the invariant.
Moves(p, v, s) ==
    /\ task'[p][v] = s
    /\ \A q \in Path \ {p} : /\ Active(q)' = Active(q)
                            /\ Writing(q)' = Writing(q)
                            /\ \A w \in Save : task'[q][w] = task[q][w]
    /\ Active(p) = {v} /\ p \in scheduled
    /\ Active(p)' = IF s.pc = "off" THEN {} ELSE {v}
    /\ Writing(p) = IF task[p][v].pc \in Holding THEN {v} ELSE {}
    /\ Writing(p)' = IF s.pc \in Holding THEN {v} ELSE {}

LEMMA TaskStep ==
    ASSUME TypeOK, StoreInv, NEW p \in Path, NEW v \in Save, NEW s \in TaskState,
           task[p][v].pc # "off", task' = [task EXCEPT ![p][v] = s]
    PROVE  Moves(p, v, s)
<1>1. /\ task'[p][v] = s
      /\ \A q \in Path, w \in Save : q # p \/ w # v => task'[q][w] = task[q][w]
  BY SetTask DEF TypeOK
<1>2. \A w \in Save : w # v => task[p][w].pc = "off" /\ task'[p][w].pc = "off"
  BY <1>1, OnlyTask
<1>. QED
  BY <1>1, <1>2, OnlyTask DEF Active, Writing, Holding, Moves

\* The counters of a file are numbers.
LEMMA Numbers ==
    ASSUME TypeOK, NEW p \in Path
    PROVE  /\ pending[p] \in Nat /\ newest[p] \in Nat
           /\ flushed[p] \in Nat /\ disk[p] \in Nat
           /\ \A v \in Save : task[p][v].item \in Nat
BY StoreAssumption, TaskItem DEF TypeOK

\* A task that goes on keeps the parts of StoreInv about scheduling.
LEMMA TaskGoesOn ==
    ASSUME StoreInv, NEW p \in Path, NEW v \in Save, NEW s,
           Moves(p, v, s), s.pc # "off", scheduled' = scheduled, caller' = caller,
           \A q \in Path \ {p} : pending'[q] = pending[q]
    PROVE  ScheduledHasTask' /\ OneFlushTask' /\ NoStrandedSave'
<1>1. \A q \in Path : Active(q)' = Active(q) /\ Saving(q)' = Saving(q)
  BY DEF Moves, Saving
<1>2. Active(p) # {}
  BY DEF Moves
<1>. QED
  BY <1>1, <1>2 DEF StoreInv, ScheduledHasTask, OneFlushTask, NoStrandedSave

\* The orders of InOrder at one file.
OrderAt(p) ==
    /\ disk[p] <= flushed[p] /\ flushed[p] <= newest[p]
    /\ pending[p] # 0 => pending[p] = newest[p] /\ flushed[p] < newest[p]
    /\ \A v \in Writing(p) :
          /\ flushed[p] < task[p][v].item /\ task[p][v].item <= newest[p]
          /\ pending[p] # 0 => task[p][v].item < newest[p]

AccountedAt(p) ==
    \/ p \in lost
    \/ pending[p] = newest[p] /\ newest[p] # 0
    \/ \E v \in Writing(p) : task[p][v].item = newest[p]
    \/ disk[p] = newest[p] /\ p \notin torn

\* A step of a task of p concerns p alone.
LEMMA OtherFiles ==
    ASSUME StoreInv, NEW p \in Path, NEW v \in Save, NEW s, Moves(p, v, s),
           newest' = newest,
           \A q \in Path \ {p} :
              /\ pending'[q] = pending[q] /\ disk'[q] = disk[q]
              /\ flushed'[q] = flushed[q] /\ (q \in torn' <=> q \in torn)
              /\ (q \in lost' <=> q \in lost),
           OrderAt(p)', AccountedAt(p)'
    PROVE  InOrder' /\ Accounted'
<1>1. ASSUME NEW q \in Path \ {p} PROVE OrderAt(q)' /\ AccountedAt(q)'
  <2>1. /\ Writing(q)' = Writing(q)
        /\ \A w \in Writing(q) : task'[q][w] = task[q][w]
    BY DEF Moves, Writing
  <2>. QED
    BY <2>1 DEF StoreInv, InOrder, Accounted, OrderAt, AccountedAt
<1>. QED
  BY <1>1 DEF InOrder, Accounted, OrderAt, AccountedAt

THEOREM StoreInvariant == Spec => []StoreInv
<1>1. Init => StoreInv
  <2>. SUFFICES ASSUME Init PROVE StoreInv
    OBVIOUS
  <2>1. \A p \in Path : Active(p) = {} /\ Writing(p) = {}
    BY DEF Init, Active, Writing, Off, Holding
  <2>2. TypeOK
    BY StoreAssumption, TaskStates DEF Init, TypeOK
  <2>. QED
    BY <2>1, <2>2, StoreAssumption
       DEF Init, StoreInv, ScheduledHasTask, OneFlushTask, NoStrandedSave,
           InOrder, Accounted
<1>2. StoreInv /\ TypeOK' /\ [Next]_vars => StoreInv'
  <2>. SUFFICES ASSUME StoreInv, TypeOK', [Next]_vars PROVE StoreInv'
    OBVIOUS
  <2>. USE StoreAssumption DEF Save
  <2>. DEFINE Parts == /\ ScheduledHasTask /\ OneFlushTask /\ NoStrandedSave
                       /\ InOrder /\ Accounted
  <2>. TypeOK
    BY DEF StoreInv
  <2>0. TypeOK /\ Parts /\ (Parts' => StoreInv')
    BY DEF StoreInv
  <2>1. ASSUME NEW c \in Caller, NEW p \in Path, Insert(c, p) PROVE Parts'
    <3>1. \A q \in Path : Active(q)' = Active(q) /\ Writing(q)' = Writing(q)
      BY <2>1 DEF Insert, Active, Writing
    <3>0. /\ newest'[p] = newest[p] + 1 /\ pending'[p] = newest[p] + 1
          /\ c \in Saving(p)'
          /\ \A q \in Path \ {p} : /\ newest'[q] = newest[q] /\ pending'[q] = pending[q]
                                  /\ Saving(q)' = Saving(q)
      BY <2>0, <2>1 DEF Insert, TypeOK, Saving, Idle
    <3>2. ScheduledHasTask' /\ OneFlushTask'
      BY <2>0, <2>1, <3>1 DEF Insert, ScheduledHasTask, OneFlushTask
    <3>3. NoStrandedSave'
      BY <3>0, <3>1, <2>0 DEF NoStrandedSave
    <3>4. InOrder'
      <4>. SUFFICES ASSUME NEW q \in Path PROVE OrderAt(q)'
        BY DEF InOrder, OrderAt
      <4>1. OrderAt(q)
        BY <2>0 DEF InOrder, OrderAt
      <4>2. \A w \in Writing(q) : w \in Save
        BY DEF Writing
      <4>3. task' = task /\ disk' = disk /\ flushed' = flushed
        BY <2>1 DEF Insert
      <4>. QED
        BY <3>0, <3>1, <4>1, <4>2, <4>3, Numbers DEF OrderAt
    <3>5. Accounted'
      BY <2>0, <2>1, <3>0, <3>1, Numbers DEF Insert, Accounted
    <3>. QED
      BY <3>2, <3>3, <3>4, <3>5
  <2>2. ASSUME NEW c \in Caller, Schedule(c) PROVE Parts'
    <3>1. PICK p \in Path, v \in Save : caller[c].path = p /\ caller[c].ver = v
      BY <2>0, <2>2 DEF Schedule, TypeOK
    <3>2. CASE p \in scheduled
      <4>1. \A q \in Path : Active(q)' = Active(q) /\ Writing(q)' = Writing(q)
        BY <2>2, <3>1, <3>2 DEF Schedule, Active, Writing
      <4>2. ScheduledHasTask' /\ OneFlushTask'
        BY <2>0, <2>2, <3>1, <3>2, <4>1 DEF Schedule, ScheduledHasTask, OneFlushTask
      <4>3. NoStrandedSave'
        <5>1. \A q \in Path \ {p} : Saving(q)' = Saving(q)
          BY <2>2, <3>1 DEF Schedule, Saving, TypeOK
        <5>2. Active(p) # {} /\ pending' = pending
          BY <2>0, <2>2, <3>1, <3>2 DEF Schedule, ScheduledHasTask
        <5>. QED
          BY <2>0, <4>1, <5>1, <5>2 DEF NoStrandedSave
      <4>4. InOrder' /\ Accounted'
        BY <2>0, <2>2, <3>1, <3>2, <4>1 DEF Schedule, InOrder, Accounted, Writing
      <4>. QED
        BY <4>2, <4>3, <4>4
    <3>3. CASE p \notin scheduled
      <4>. DEFINE s == [pc |-> "sleeping", item |-> 0]
      <4>1. Active(p) = {} /\ \A w \in Save : task[p][w].pc = "off"
        BY <2>0, <3>1, <3>3 DEF ScheduledHasTask, Active
      <4>2. /\ task'[p][v] = s
            /\ \A q \in Path, w \in Save : q # p \/ w # v => task'[q][w] = task[q][w]
        BY <2>0, <2>2, <3>1, <3>3, SetTask, TaskStates DEF Schedule, TypeOK
      <4>3. /\ Active(p)' = {v} /\ Writing(p)' = {} /\ Writing(p) = {}
            /\ \A q \in Path \ {p} : Active(q)' = Active(q) /\ Writing(q)' = Writing(q)
        <5>1. \A w \in Save : w # v => task'[p][w].pc = "off"
          BY <3>1, <4>1, <4>2
        <5>2. task'[p][v].pc = "sleeping"
          BY <4>2
        <5>3. Active(p)' = {v} /\ Writing(p)' = {} /\ Writing(p) = {}
          BY <3>1, <4>1, <5>1, <5>2 DEF Active, Writing, Holding
        <5>4. \A q \in Path \ {p} : Active(q)' = Active(q) /\ Writing(q)' = Writing(q)
          BY <3>1, <4>2 DEF Active, Writing
        <5>. QED
          BY <5>3, <5>4
      <4>9. /\ \A q \in Path \ {p} : Saving(q)' = Saving(q)
            /\ scheduled' = scheduled \cup {p} /\ pending' = pending
        BY <2>2, <3>1 DEF Schedule, Saving, TypeOK
      <4>4. ScheduledHasTask' /\ OneFlushTask'
        BY <2>0, <3>1, <4>3, <4>9 DEF ScheduledHasTask, OneFlushTask
      <4>5. NoStrandedSave'
        BY <2>0, <3>1, <4>3, <4>9 DEF NoStrandedSave
      <4>6. InOrder'
        BY <2>0, <2>2, <3>1, <4>2, <4>3 DEF Schedule, InOrder, Writing
      <4>7. Accounted'
        BY <2>0, <2>2, <3>1, <4>2, <4>3 DEF Schedule, Accounted, Writing
      <4>. QED
        BY <4>4, <4>5, <4>6, <4>7
    <3>. QED
      BY <3>2, <3>3
  <2>3. ASSUME NEW p \in Path, NEW v \in Save, Step(p, v) PROVE Parts'
    <3>. DEFINE was == task[p][v]
    <3>0. /\ was \in TaskState /\ (was.pc \in Holding => was.item \in Save)
          /\ OrderAt(p) /\ AccountedAt(p)
      BY TaskItem DEF TypeOK, StoreInv, InOrder, Accounted, OrderAt, AccountedAt
    <3>. newest' = newest /\ caller' = caller
      BY <2>3 DEF Step, Take, DropPending, Open, Fill, FailWrite, Finish
    <3>1. CASE Take(p, v)
      <4>. DEFINE s == [pc |-> IF pending[p] = 0 THEN "checking" ELSE "took", item |-> pending[p]]
      <4>1. /\ s \in TaskState /\ was.pc # "off"
            /\ task' = [task EXCEPT ![p][v] = s]
        BY <3>0, <3>1, TaskStates DEF Take, Holding, TypeOK
      <4>2. Moves(p, v, s)
        BY <4>1, TaskStep
      <4>3. \A q \in Path \ {p} :
              /\ pending'[q] = pending[q] /\ disk'[q] = disk[q]
              /\ flushed'[q] = flushed[q] /\ (q \in torn' <=> q \in torn)
              /\ (q \in lost' <=> q \in lost)
        BY <3>1 DEF Take, TypeOK
      <4>4. ScheduledHasTask' /\ OneFlushTask' /\ NoStrandedSave'
        BY <3>1, <4>2, <4>3, TaskGoesOn DEF Take
      <4>5. OrderAt(p)' /\ AccountedAt(p)'
        BY <3>0, <3>1, <4>2, Numbers
           DEF Take, Moves, OrderAt, AccountedAt, Holding, Off, TypeOK
      <4>. QED
        BY <4>2, <4>3, <4>4, <4>5, OtherFiles
    <3>2. CASE DropPending(p, v)
      <4>. DEFINE s == [pc |-> "opening", item |-> was.item]
      <4>1. /\ s \in TaskState /\ was.pc # "off"
            /\ task' = [task EXCEPT ![p][v] = s]
        BY <3>0, <3>2, TaskStates DEF DropPending, Holding, TypeOK
      <4>2. Moves(p, v, s)
        BY <4>1, TaskStep
      <4>3. \A q \in Path \ {p} :
              /\ pending'[q] = pending[q] /\ disk'[q] = disk[q]
              /\ flushed'[q] = flushed[q] /\ (q \in torn' <=> q \in torn)
              /\ (q \in lost' <=> q \in lost)
        BY <3>2 DEF DropPending, TypeOK
      <4>4. ScheduledHasTask' /\ OneFlushTask' /\ NoStrandedSave'
        BY <3>2, <4>2, <4>3, TaskGoesOn DEF DropPending
      <4>5. OrderAt(p)' /\ AccountedAt(p)'
        BY <3>0, <3>2, <4>2, Numbers
           DEF DropPending, Moves, OrderAt, AccountedAt, Holding, Off, TypeOK
      <4>. QED
        BY <4>2, <4>3, <4>4, <4>5, OtherFiles
    <3>3. CASE Open(p, v)
      <4>. DEFINE s == [pc |-> "filling", item |-> was.item]
      <4>1. /\ s \in TaskState /\ was.pc # "off"
            /\ task' = [task EXCEPT ![p][v] = s]
        BY <3>0, <3>3, TaskStates DEF Open, Holding, TypeOK
      <4>2. Moves(p, v, s)
        BY <4>1, TaskStep
      <4>3. \A q \in Path \ {p} :
              /\ pending'[q] = pending[q] /\ disk'[q] = disk[q]
              /\ flushed'[q] = flushed[q] /\ (q \in torn' <=> q \in torn)
              /\ (q \in lost' <=> q \in lost)
        BY <3>3 DEF Open, TypeOK
      <4>4. ScheduledHasTask' /\ OneFlushTask' /\ NoStrandedSave'
        BY <3>3, <4>2, <4>3, TaskGoesOn DEF Open
      <4>5. OrderAt(p)' /\ AccountedAt(p)'
        BY <3>0, <3>3, <4>2, Numbers
           DEF Open, Moves, OrderAt, AccountedAt, Holding, Off, TypeOK
      <4>. QED
        BY <4>2, <4>3, <4>4, <4>5, OtherFiles
    <3>4. CASE Fill(p, v)
      <4>. DEFINE s == [pc |-> "checking", item |-> 0]
      <4>1. /\ s \in TaskState /\ was.pc # "off"
            /\ task' = [task EXCEPT ![p][v] = s]
        BY <3>0, <3>4, TaskStates DEF Fill, Holding, TypeOK
      <4>2. Moves(p, v, s)
        BY <4>1, TaskStep
      <4>3. \A q \in Path \ {p} :
              /\ pending'[q] = pending[q] /\ disk'[q] = disk[q]
              /\ flushed'[q] = flushed[q] /\ (q \in torn' <=> q \in torn)
              /\ (q \in lost' <=> q \in lost)
        BY <3>4 DEF Fill, TypeOK
      <4>4. ScheduledHasTask' /\ OneFlushTask' /\ NoStrandedSave'
        BY <3>4, <4>2, <4>3, TaskGoesOn DEF Fill
      <4>5. OrderAt(p)' /\ AccountedAt(p)'
        BY <3>0, <3>4, <4>2, Numbers
           DEF Fill, Moves, OrderAt, AccountedAt, Holding, Off, TypeOK
      <4>. QED
        BY <4>2, <4>3, <4>4, <4>5, OtherFiles
    <3>5. CASE FailWrite(p, v)
      <4>. DEFINE s == [pc |-> "checking", item |-> 0]
      <4>1. /\ s \in TaskState /\ was.pc # "off"
            /\ task' = [task EXCEPT ![p][v] = s]
        BY <3>0, <3>5, TaskStates DEF FailWrite, Holding, TypeOK
      <4>2. Moves(p, v, s)
        BY <4>1, TaskStep
      <4>3. \A q \in Path \ {p} :
              /\ pending'[q] = pending[q] /\ disk'[q] = disk[q]
              /\ flushed'[q] = flushed[q] /\ (q \in torn' <=> q \in torn)
              /\ (q \in lost' <=> q \in lost)
        BY <3>5 DEF FailWrite, TypeOK
      <4>4. ScheduledHasTask' /\ OneFlushTask' /\ NoStrandedSave'
        BY <3>5, <4>2, <4>3, TaskGoesOn DEF FailWrite
      <4>5. OrderAt(p)' /\ AccountedAt(p)'
        BY <3>0, <3>5, <4>2, Numbers
           DEF FailWrite, Moves, OrderAt, AccountedAt, Holding, Off, TypeOK
      <4>. QED
        BY <4>2, <4>3, <4>4, <4>5, OtherFiles
    <3>6. CASE Finish(p, v)
      <4>. DEFINE s == IF pending[p] # 0 THEN [pc |-> "sleeping", item |-> 0] ELSE Off
      <4>1. /\ s \in TaskState /\ was.pc # "off"
            /\ task' = [task EXCEPT ![p][v] = s]
        BY <3>0, <3>6, TaskStates DEF Finish, Holding, TypeOK
      <4>2. Moves(p, v, s)
        BY <4>1, TaskStep
      <4>3. \A q \in Path \ {p} :
              /\ pending'[q] = pending[q] /\ disk'[q] = disk[q]
              /\ flushed'[q] = flushed[q] /\ (q \in torn' <=> q \in torn)
              /\ (q \in lost' <=> q \in lost)
        BY <3>6 DEF Finish, TypeOK
      <4>4. ScheduledHasTask' /\ OneFlushTask' /\ NoStrandedSave'
        <5>1. CASE pending[p] # 0
          BY <3>6, <4>2, <4>3, <5>1, TaskGoesOn DEF Finish
        <5>2. CASE pending[p] = 0
          <6>1. /\ \A q \in Path : Saving(q)' = Saving(q)
                /\ \A q \in Path \ {p} : Active(q)' = Active(q)
                /\ Active(p)' = {} /\ pending'[p] = 0
                /\ scheduled' = scheduled \ {p}
            BY <3>6, <4>2, <5>2 DEF Finish, Moves, Saving, Off
          <6>. QED
            BY <4>3, <6>1 DEF StoreInv, ScheduledHasTask, OneFlushTask, NoStrandedSave
        <5>. QED
          BY <5>1, <5>2
      <4>5. OrderAt(p)' /\ AccountedAt(p)'
        BY <3>0, <3>6, <4>2, Numbers
           DEF Finish, Moves, OrderAt, AccountedAt, Holding, Off, TypeOK
      <4>. QED
        BY <4>2, <4>3, <4>4, <4>5, OtherFiles
    <3>. QED
      BY <2>3, <3>1, <3>2, <3>3, <3>4, <3>5, <3>6 DEF Step
  <2>4. ASSUME NEW p \in Path, Clear(p) PROVE Parts'
    <3>1. /\ \A q \in Path \ {p}, w \in Save : task'[q][w] = task[q][w]
          /\ \A w \in Save : task'[p][w] = IF task[p][w].pc = "filling"
                                           THEN [pc |-> "checking", item |-> 0]
                                           ELSE task[p][w]
      BY <2>0, <2>4 DEF Clear, TypeOK
    <3>2. /\ \A q \in Path : Active(q)' = Active(q) /\ Writing(q)' \subseteq Writing(q)
          /\ \A q \in Path \ {p} : Writing(q)' = Writing(q)
          /\ \A w \in Writing(p)' : task[p][w].pc # "filling" /\ task'[p][w] = task[p][w]
          /\ Writing(p)' = {w \in Save : task[p][w].pc \in {"took", "opening"}}
      BY <3>1 DEF Active, Writing, Holding
    <3>3. ScheduledHasTask' /\ OneFlushTask'
      BY <2>0, <2>4, <3>2 DEF Clear, ScheduledHasTask, OneFlushTask
    <3>4. NoStrandedSave'
      BY <2>0, <2>4, <3>2 DEF Clear, NoStrandedSave, Saving
    <3>5. InOrder'
      
      <4>. SUFFICES ASSUME NEW q \in Path PROVE OrderAt(q)'
        BY DEF InOrder, OrderAt
      <4>1. /\ \A w \in Writing(q)' : w \in Writing(q) /\ task'[q][w] = task[q][w]
            /\ OrderAt(q)
        BY <2>0, <3>1, <3>2 DEF InOrder, OrderAt, Writing
      <4>2. /\ pending' = pending /\ newest' = newest /\ flushed' = flushed
            /\ disk'[q] = disk[q] \/ disk'[q] = 0
        BY <2>4 DEF Clear, TypeOK
      <4>. QED
        BY <4>1, <4>2, Numbers DEF OrderAt
    <3>6. Accounted'
      <4>1. ASSUME NEW q \in Path \ {p} PROVE AccountedAt(q)'
        <5>1. /\ Writing(q)' = Writing(q)
              /\ \A w \in Writing(q) : task'[q][w] = task[q][w]
              /\ AccountedAt(q)
          BY <2>0, <3>1, <3>2 DEF Writing, Accounted, AccountedAt
        <5>2. /\ pending' = pending /\ newest' = newest /\ disk'[q] = disk[q]
              /\ (q \in torn' <=> q \in torn) /\ (q \in lost' <=> q \in lost)
          BY <2>4 DEF Clear, TypeOK
        <5>. QED
          BY <5>1, <5>2 DEF AccountedAt
      <4>2. AccountedAt(p)'
        <5>. SUFFICES ASSUME p \notin lost' PROVE AccountedAt(p)'
          BY DEF AccountedAt
        <5>1. p \notin lost /\ pending' = pending /\ newest' = newest
          BY <2>4 DEF Clear
        <5>2. CASE pending[p] # 0
          BY <2>0, <5>1, <5>2, Numbers DEF InOrder, AccountedAt
        <5>3. ASSUME NEW w \in Save, task[p][w].pc \in {"took", "opening"},
                     pending[p] = 0
              PROVE  AccountedAt(p)'
          <6>1. Writing(p) = {w} /\ w \in Writing(p)' /\ task'[p][w] = task[p][w]
            BY <2>0, <3>1, <3>2, <5>3, OnlyTask DEF Writing, Holding
          <6>2. flushed[p] < task[p][w].item /\ task[p][w].item <= newest[p]
                /\ disk[p] <= flushed[p]
            BY <2>0, <6>1 DEF InOrder
          <6>3. newest[p] # 0 /\ disk[p] # newest[p]
            BY <6>2, Numbers
          <6>4. task[p][w].item = newest[p]
            BY <2>0, <5>1, <5>3, <6>1, <6>3 DEF Accounted
          <6>. QED
            BY <5>1, <6>1, <6>4 DEF AccountedAt
        <5>. QED
          BY <2>4, <5>1, <5>2, <5>3 DEF Clear
      <4>. QED
        BY <4>1, <4>2 DEF Accounted, AccountedAt
    <3>. QED
      BY <3>3, <3>4, <3>5, <3>6
  <2>5. CASE Crash
    <3>1. \A q \in Path : Active(q)' = {} /\ Writing(q)' = {}
      BY <2>5 DEF Crash, Active, Writing, Off, Holding
    <3>2. ScheduledHasTask' /\ OneFlushTask' /\ NoStrandedSave' /\ InOrder'
      BY <2>0, <2>5, <3>1
         DEF Crash, ScheduledHasTask, OneFlushTask, NoStrandedSave, InOrder, TypeOK
    <3>3. Accounted'
      <4>. SUFFICES ASSUME NEW p \in Path, p \notin lost'
                    PROVE  disk[p] = newest[p] /\ p \notin torn
        BY <2>5 DEF Crash, Accounted
      <4>1. p \notin lost /\ flushed[p] = newest[p]
        BY <2>0, <2>5 DEF Crash, InOrder, TypeOK
      <4>2. pending[p] = 0
        BY <2>0, <4>1 DEF InOrder, TypeOK
      <4>3. ASSUME NEW w \in Writing(p) PROVE FALSE
        <5>1. w \in Save /\ task[p][w].item \in 0 .. MaxSaves
          BY <2>0, TaskItem DEF TypeOK, Writing
        <5>. QED
          BY <2>0, <4>1, <5>1 DEF InOrder, TypeOK
      <4>. QED
        BY <2>0, <4>1, <4>2, <4>3 DEF Accounted
    <3>. QED
      BY <2>0, <3>2, <3>3
  <2>6. CASE UNCHANGED vars
    BY <2>0, <2>6 DEF vars, ScheduledHasTask, OneFlushTask, NoStrandedSave, InOrder,
                      Accounted, Active, Writing, Saving
  <2>. QED
    BY <2>0, <2>1, <2>2, <2>3, <2>4, <2>5, <2>6 DEF Next
<1>. QED
  BY <1>1, <1>2, StoreTyped, PTL DEF Spec

\* At any time a file has at most one flush task, so no two threads write it.
THEOREM OneFlushTaskAlways == Spec => []OneFlushTask
BY StoreInvariant, PTL DEF StoreInv

\* Pending contents always have a flush task, or a thread about to spawn one.
THEOREM NeverStranded == Spec => []NoStrandedSave
BY StoreInvariant, PTL DEF StoreInv

\* A load outside the write window returns the last save that was not lost.
THEOREM ReaderFresh == Spec => []ReaderSeesNewest
<1>1. StoreInv => ReaderSeesNewest
  <2>. SUFFICES ASSUME StoreInv, NEW p \in Path, p \notin lost, Writing(p) = {}
                PROVE  Load(p) = newest[p]
    BY DEF ReaderSeesNewest
  <2>1. pending[p] # 0 => pending[p] = newest[p]
    BY DEF StoreInv, InOrder
  <2>2. AccountedAt(p) /\ OrderAt(p) /\ TypeOK
    BY DEF StoreInv, Accounted, AccountedAt, InOrder, OrderAt
  <2>. QED
    BY <2>1, <2>2, Numbers DEF Load, AccountedAt, OrderAt
<1>. QED
  BY <1>1, StoreInvariant, PTL

\* Once a file is quiet the disk holds its last save, unless that was lost.
THEOREM QuietDurable == Spec => []QuietMeansDurable
<1>1. StoreInv => QuietMeansDurable
  <2>. SUFFICES ASSUME StoreInv, NEW p \in Path, p \notin scheduled,
                       Saving(p) = {}, p \notin lost
                PROVE  disk[p] = newest[p] /\ p \notin torn
    BY DEF QuietMeansDurable
  <2>1. Active(p) = {} /\ pending[p] = 0
    BY DEF StoreInv, ScheduledHasTask, NoStrandedSave
  <2>2. Writing(p) = {}
    BY <2>1 DEF Active, Writing, Holding
  <2>. QED
    BY <2>1, <2>2 DEF StoreInv, Accounted
<1>. QED
  BY <1>1, StoreInvariant, PTL

\* Whatever the interleaving, faults and restarts, the store writes the saves
\* of a file in the order they were made and none of them twice.
THEOREM StoreRefines == Spec => ImplementsWriteBehind
<1>1. Init => WB!AInit
  BY DEF Init, WB!AInit
<1>2. StoreInv /\ [Next]_vars => [WB!ANext]_(WB!avars)
  <2>. SUFFICES ASSUME StoreInv, [Next]_vars
                PROVE  WB!ANext \/ UNCHANGED WB!avars
    BY DEF WB!avars
  <2>1. ASSUME NEW c \in Caller, NEW p \in Path, Insert(c, p) PROVE WB!ANext
    BY <2>1 DEF Insert, WB!ANext, WB!Request
  <2>2. ASSUME NEW p \in Path, NEW v \in Save, Open(p, v) PROVE WB!ANext
    BY <2>2 DEF Open, WB!ANext, WB!Truncate
  <2>3. ASSUME NEW p \in Path, NEW v \in Save, Fill(p, v) PROVE WB!ANext
    <3>1. v \in Writing(p) /\ TypeOK /\ OrderAt(p)
      BY <2>3 DEF Fill, Writing, Holding, StoreInv, InOrder, OrderAt
    <3>2. task[p][v].item \in (flushed[p] + 1) .. newest[p]
      BY <3>1, Numbers DEF OrderAt
    <3>3. WB!Write(p)
      BY <2>3, <3>2 DEF Fill, WB!Write
    <3>. QED
      BY <3>3 DEF WB!ANext
  <2>4. ASSUME NEW p \in Path, Clear(p) PROVE WB!ANext
    BY <2>4 DEF Clear, WB!ANext, WB!Remove
  <2>5. ASSUME NEW p \in Path, NEW v \in Save,
               Take(p, v) \/ DropPending(p, v) \/ FailWrite(p, v) \/ Finish(p, v)
        PROVE  UNCHANGED WB!avars
    BY <2>5 DEF Take, DropPending, FailWrite, Finish, WB!avars
  <2>6. ASSUME NEW c \in Caller, Schedule(c) PROVE UNCHANGED WB!avars
    BY <2>6 DEF Schedule, WB!avars
  <2>7. CASE Crash \/ UNCHANGED vars
    BY <2>7 DEF Crash, vars, WB!avars
  <2>. QED
    BY <2>1, <2>2, <2>3, <2>4, <2>5, <2>6, <2>7 DEF Next, Step
<1>. QED
  BY <1>1, <1>2, StoreInvariant, PTL DEF Spec, ImplementsWriteBehind, WB!ASpec
==============================================================================
