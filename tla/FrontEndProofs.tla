---------------------------- MODULE FrontEndProofs ----------------------------
(***************************************************************************)
(* Proofs about what runs in the pages of the app, checked by TLAPS for    *)
(* every value of the constants: first the connection to the server        *)
(* (Connection), then the message list of a chat (ChatList).               *)
(***************************************************************************)
EXTENDS Connection, ChatList, FiniteSetTheorems, TLAPS

(***************************************************************************)
(* Types                                                                   *)
(***************************************************************************)

\* A bound that is not reached can be counted up.
LEMMA Counting ==
    ASSUME TypeOK
    PROVE  /\ faults < MaxFaults => faults + 1 \in 0 .. MaxFaults
           /\ moves < MaxMoves => moves + 1 \in 0 .. MaxMoves
  BY ConnectionAssumption DEF TypeOK

\* The states that agents are put in.
LEMMA AgentStates ==
    /\ Off \in AgentState
    /\ \A pc \in {"picking", "delay", "init", "back", "sync"} :
         [Off EXCEPT !.pc = pc] \in AgentState
    /\ \A pc \in {"init", "back"}, own \in BOOLEAN :
         [pc |-> pc, own |-> own, res |-> "no"] \in AgentState
    /\ [Off EXCEPT !.pc = "init", !.own = TRUE] \in AgentState
  BY DEF AgentState, Off, Outcome

\* An agent changes its program counter.
LEMMA AgentMoves ==
    ASSUME agent \in [Agent -> AgentState], NEW a \in Agent,
           NEW pc \in {"delay", "sync", "got", "latched"}
    PROVE  [agent EXCEPT ![a].pc = pc] \in [Agent -> AgentState]
  BY DEF AgentState

\* An agent starts anew.
LEMMA AgentSet ==
    ASSUME agent \in [Agent -> AgentState], NEW a \in Agent, NEW r \in AgentState
    PROVE  [agent EXCEPT ![a] = r] \in [Agent -> AgentState]
  OBVIOUS

\* What the settling of a promise makes of the agents.
LEMMA AnsweredTyped ==
    ASSUME agent \in [Agent -> AgentState], NEW res \in Outcome
    PROVE  Answered(agent, res) \in [Agent -> AgentState]
  BY DEF Answered, AgentState

LEMMA SynchronizedTyped ==
    ASSUME agent \in [Agent -> AgentState]
    PROVE  Synchronized \in [Agent -> AgentState]
  BY DEF Synchronized, AgentState

\* The states that init is put in.
LEMMA InitStates == NoInit \in InitState /\ ForcedInit \in InitState
  BY DEF InitState, NoInit, ForcedInit

LEMMA InitMoves ==
    ASSUME init \in InitState,
           NEW pc \in {"wire", "answered", "sync", "synced", "latched", "account"}
    PROVE  [init EXCEPT !.pc = pc] \in InitState
  BY DEF InitState

\* What the settling of a promise makes of the calls.
LEMMA CallsSettle ==
    ASSUME call \in [Call -> CallState]
    PROVE  Released \in [Call -> CallState] /\ Woken \in [Call -> CallState]
  BY DEF CallState, Released, Woken

\* A call is idle, sent, waiting, or sent again.
LEMMA CallSet ==
    ASSUME call \in [Call -> CallState], NEW c \in Call
    PROVE  /\ [call EXCEPT ![c] = Idle] \in [Call -> CallState]
           /\ [call EXCEPT ![c] = [pc |-> "sent", sent |-> 1]] \in [Call -> CallState]
           /\ [call EXCEPT ![c] = [pc |-> "waiting", sent |-> 0]]
                 \in [Call -> CallState]
           /\ [call EXCEPT ![c] = [pc |-> "sent", sent |-> @.sent + 1]]
                 \in [Call -> CallState]
  BY DEF CallState, Idle

LEMMA CallMoves ==
    ASSUME call \in [Call -> CallState], NEW c \in Call,
           NEW pc \in {"restart", "woken"}
    PROVE  [call EXCEPT ![c].pc = pc] \in [Call -> CallState]
  BY DEF CallState

\* reconnect() and the end of a sync keep the types.
LEMMA ReconnectTyped ==
    ASSUME TypeOK, Reconnect
    PROVE  /\ connected' \in BOOLEAN /\ synced' \in BOOLEAN /\ pending' \in BOOLEAN
           /\ missed' \in BOOLEAN
           /\ agent' \in [Agent -> AgentState]
  <1>1. agent' \in [Agent -> AgentState]
    <2>1. Loop \in Agent
      BY DEF Agent
    <2> QED
      BY <2>1, AgentMoves DEF TypeOK, Reconnect
  <1> QED
    BY <1>1 DEF TypeOK, Reconnect, Overtaken

LEMMA SyncEndsTyped ==
    ASSUME TypeOK, SyncEnds
    PROVE  /\ sync' \in SyncState /\ pending' \in BOOLEAN
           /\ call' \in [Call -> CallState]
           /\ agent' \in [Agent -> AgentState]
           /\ init' \in InitState
  BY CallsSettle, SynchronizedTyped, InitMoves DEF TypeOK, SyncEnds, SyncState

LEMMA SubscriberTyped ==
    ASSUME TypeOK
    PROVE  /\ InitBySubscriber \in InitState
           /\ SubscriberWaits \in AgentState
           /\ \A now \in SyncState : SyncBySubscriber(now) \in SyncState
           /\ AwaitInit(InitBySubscriber) \in {"init", "back"}
  <1>1. InitBySubscriber \in InitState
    BY DEF TypeOK, InitBySubscriber, InitState, NoInit
  <1>2. AwaitInit(InitBySubscriber) \in {"init", "back"}
    BY DEF AwaitInit
  <1>3. SubscriberWaits \in AgentState
    BY <1>2, AgentStates DEF TypeOK, SubscriberWaits
  <1> QED
    BY <1>1, <1>2, <1>3 DEF TypeOK, SyncBySubscriber, SyncState

\* One lemma for each group of actions: they keep the types.
LEMMA InitKeepsTypes == TypeOK /\ InitStep => TypeOK'
  <1> SUFFICES ASSUME TypeOK, InitStep PROVE TypeOK'
    OBVIOUS
  <1>1. CASE Connect
    <2>1. init' \in InitState
      BY <1>1, InitMoves, InitStates DEF TypeOK, Connect
    <2>2. agent' \in [Agent -> AgentState]
      BY <1>1, AnsweredTyped DEF TypeOK, Connect, Outcome
    <2>3. missed' \in BOOLEAN /\ closing' \in BOOLEAN
      BY <1>1 DEF TypeOK, Connect
    <2> QED
      BY <1>1, <2>1, <2>2, <2>3, ZenonT(40)
         DEF TypeOK, Connect, session, who, calls, bounds
  <1>2. CASE Accept
    <2>1. init' \in InitState
      BY <1>2, InitMoves DEF TypeOK, Accept
    <2> QED
      BY <1>2, <2>1 DEF TypeOK, Accept, session, who, calls, bounds
  <1>3. CASE InitSucceeds
    <2>1. init' \in InitState
      BY <1>3, InitMoves, InitStates DEF TypeOK, InitSucceeds, CallSync
    <2>2. agent' \in [Agent -> AgentState]
      BY <1>3, AnsweredTyped DEF TypeOK, InitSucceeds, Outcome
    <2>3. call' \in [Call -> CallState]
      BY <1>3, CallsSettle DEF TypeOK, InitSucceeds
    <2>4. sync' \in SyncState
      BY <1>3 DEF TypeOK, InitSucceeds, CallSync, SyncState
    <2>5. connected' \in BOOLEAN /\ pending' \in BOOLEAN
      BY <1>3 DEF TypeOK, InitSucceeds
    <2> QED
      BY <1>3, <2>1, <2>2, <2>3, <2>4, <2>5
         DEF TypeOK, InitSucceeds, who, wire, bounds
  <1>4. CASE InitFails
    <2>1. init' \in InitState
      BY <1>4, InitStates DEF TypeOK, InitFails
    <2>2. agent' \in [Agent -> AgentState]
      BY <1>4, AnsweredTyped DEF TypeOK, InitFails, Outcome
    <2>3. call' \in [Call -> CallState]
      BY <1>4, CallsSettle DEF TypeOK, InitFails
    <2> QED
      BY <1>4, <2>1, <2>2, <2>3, Counting, ZenonT(40)
         DEF TypeOK, InitFails, who, wire
  <1>5. CASE InitReturns
    <2>1. init' \in InitState
      BY <1>5, InitStates DEF TypeOK, InitReturns
    <2>2. agent' \in [Agent -> AgentState]
      BY <1>5, AnsweredTyped DEF TypeOK, InitReturns, Outcome
    <2> QED
      BY <1>5, <2>1, <2>2
         DEF TypeOK, InitReturns, session, who, calls, wire, bounds
  <1> QED
    BY <1>1, <1>2, <1>3, <1>4, <1>5 DEF InitStep

LEMMA SyncKeepsTypes == TypeOK /\ SyncStep => TypeOK'
  <1> SUFFICES ASSUME TypeOK, SyncStep PROVE TypeOK'
    OBVIOUS
  <1>1. CASE SyncAsks
    <2>1. CASE account
      BY <1>1, <2>1 DEF SyncAsks, SyncState, TypeOK, who, wire, bounds
    <2>2. CASE ~account
      BY <1>1, <2>2, SyncEndsTyped DEF SyncAsks, TypeOK, who, wire, bounds
    <2> QED
      BY <2>1, <2>2
  <1>2. CASE SyncAnswered
    BY <1>2 DEF SyncAnswered, SyncState, TypeOK, session, who, calls, bounds
  <1>3. CASE SyncFails
    <2>1. faults' \in 0 .. MaxFaults
      BY <1>3, Counting DEF SyncFails, CutOff, TypeOK
    <2>2. /\ sync' \in SyncState /\ pending' \in BOOLEAN
          /\ call' \in [Call -> CallState]
          /\ agent' \in [Agent -> AgentState] /\ init' \in InitState
      BY <1>3, SyncEndsTyped DEF SyncFails
    <2> QED
      BY <1>3, <2>1, <2>2, ZenonT(40) DEF SyncFails, TypeOK, who, wire
  <1>8. CASE SyncRefused
    <2>1. faults' \in 0 .. MaxFaults
      BY <1>8, Counting DEF SyncRefused, TypeOK
    <2>2. /\ sync' \in SyncState /\ pending' \in BOOLEAN
          /\ call' \in [Call -> CallState]
          /\ agent' \in [Agent -> AgentState] /\ init' \in InitState
      BY <1>8, SyncEndsTyped DEF SyncRefused
    <2> QED
      BY <1>8, <2>1, <2>2 DEF SyncRefused, TypeOK, wire
  <1>4. CASE SyncArrives
    BY <1>4 DEF SyncArrives, SyncState, TypeOK, who, calls, wire, bounds
  <1>5. ASSUME NEW s \in Sub, SyncShows(s) PROVE TypeOK'
    <2>1. s \in Agent
      BY DEF Agent
    <2>2. agent' \in [Agent -> AgentState] /\ init' \in InitState
      BY <1>5, <2>1, SubscriberTyped, AgentSet DEF SyncShows, Subscribed, TypeOK
    <2>3. sync' \in SyncState
      BY <1>5 DEF SyncShows, Subscribed, SyncBySubscriber, SyncState
    <2> QED
      BY <1>5, <2>2, <2>3 DEF SyncShows, TypeOK, session, calls, wire, bounds
  <1>6. CASE SyncFetches
    <2>1. call' \in [Call -> CallState]
      BY <1>6, CallSet DEF SyncFetches, TypeOK, Call
    <2> QED
      BY <1>6, <2>1
         DEF SyncFetches, SyncState, TypeOK, session, who, wire, bounds
  <1>7. CASE SyncFinishes
    BY <1>7, SyncEndsTyped DEF SyncFinishes, TypeOK, who, wire, bounds
  <1> QED
    BY <1>1, <1>2, <1>3, <1>4, <1>5, <1>6, <1>7, <1>8 DEF SyncStep

LEMMA AgentsKeepTypes ==
    TypeOK /\ (LoopStep \/ \E a \in Agent : AgentStep(a)) => TypeOK'
  <1> SUFFICES ASSUME TypeOK, LoopStep \/ \E a \in Agent : AgentStep(a) PROVE TypeOK'
    OBVIOUS
  <1>a. Loop \in Agent
    BY DEF Agent
  <1>1. CASE Retry
    <2>1. AwaitInit(init) \in {"init", "back"}
      BY DEF AwaitInit
    <2>2. agent' \in [Agent -> AgentState]
      BY <1>1, <1>a, <2>1, AgentStates, AgentSet DEF Retry, TypeOK
    <2>3. init' \in InitState
      BY <1>1, InitStates DEF Retry, TypeOK
    <2> QED
      BY <1>1, <2>2, <2>3 DEF Retry, TypeOK, session, who, calls, wire, bounds
  <1>2. CASE LoopTurns
    <2>1. agent' \in [Agent -> AgentState]
      BY <1>2, <1>a, AgentStates, AgentSet DEF LoopTurns, TypeOK
    <2>2. call' \in [Call -> CallState]
      BY <1>2, CallsSettle DEF LoopTurns, TypeOK
    <2>3. active' \in BOOLEAN
      BY <1>2 DEF LoopTurns, TypeOK
    <2> QED
      BY <1>2, <2>1, <2>2, <2>3
         DEF LoopTurns, TypeOK, session, who, wire, bounds
  <1>3. ASSUME NEW a \in Agent, BackFromInit(a) PROVE TypeOK'
    <2>1. agent' \in [Agent -> AgentState]
      BY <1>3, AgentMoves, ZenonT(40) DEF BackFromInit, CallSync, TypeOK
    <2>2. sync' \in SyncState
      BY <1>3 DEF BackFromInit, CallSync, SyncState, TypeOK
    <2> QED
      BY <1>3, <2>1, <2>2
         DEF BackFromInit, TypeOK, session, who, calls, wire, bounds
  <1>4. ASSUME NEW a \in Agent, AgentEnds(a) PROVE TypeOK'
    <2>1. agent' \in [Agent -> AgentState]
      BY <1>4, AgentStates, AgentSet DEF AgentEnds, TypeOK
    <2> QED
      BY <1>4, <2>1 DEF AgentEnds, TypeOK, session, who, calls, wire, bounds
  <1> QED
    BY <1>1, <1>2, <1>3, <1>4 DEF LoopStep, AgentStep

LEMMA CallsKeepTypes ==
    ASSUME TypeOK, NEW c \in Call, CallStep(c) \/ Begin(c) \/ BeginDirectly(c)
    PROVE  TypeOK'
  <1>a. KeyOf(c) \in Key
    BY DEF Key
  <1>1. CASE WaitTimesOut(c) \/ WaitEnds(c) \/ Begin(c) \/ BeginDirectly(c)
    <2>1. call' \in [Call -> CallState]
      BY <1>1, CallSet DEF WaitTimesOut, WaitEnds, Begin, BeginDirectly, TypeOK
    <2> QED
      BY <1>1, <2>1
         DEF WaitTimesOut, WaitEnds, Begin, BeginDirectly, TypeOK, session,
                        who, flows, wire, bounds
  <1>2. ASSUME NEW b \in BOOLEAN, Return(c, b)
        PROVE  /\ call' \in [Call -> CallState] /\ retries' \in [Key -> 0 .. 2]
               /\ sync' \in SyncState
    <2>1. call' \in [Call -> CallState]
      BY <1>2, CallSet DEF Return, TypeOK
    <2>2. retries' \in [Key -> 0 .. 2]
      BY <1>2, <1>a DEF Return, TypeOK
    <2> QED
      BY <1>2, <2>1, <2>2 DEF Return, SyncState, TypeOK
  <1>3. CASE CallAnswered(c)
    <2>1. /\ call' \in [Call -> CallState] /\ retries' \in [Key -> 0 .. 2]
          /\ sync' \in SyncState
      <3>1. Return(c, call[c].sent > 1) /\ (call[c].sent > 1) \in BOOLEAN
        BY <1>3 DEF CallAnswered
      <3> QED
        BY <1>2, <3>1
    <2> QED
      BY <1>3, <2>1 DEF CallAnswered, TypeOK, session, who, wire, bounds
  <1>6. CASE CallRefused(c)
    <2>1. /\ call' \in [Call -> CallState] /\ retries' \in [Key -> 0 .. 2]
          /\ sync' \in SyncState
      <3>1. Return(c, call[c].sent > 1) /\ (call[c].sent > 1) \in BOOLEAN
        BY <1>6 DEF CallRefused
      <3> QED
        BY <1>2, <3>1
    <2>2. faults' \in 0 .. MaxFaults /\ account' \in BOOLEAN
      BY <1>6, Counting DEF CallRefused
    <2> QED
      BY <1>6, <2>1, <2>2 DEF CallRefused, TypeOK, session, wire
  <1>4. CASE CallFails(c)
    <2>1. faults' \in 0 .. MaxFaults
      BY <1>4, Counting DEF CallFails, CutOff, TypeOK
    <2>2. CASE retries[KeyOf(c)] = MaxRetries
      <3>1. Return(c, TRUE)
        BY <1>4, <2>2 DEF CallFails
      <3>2. /\ call' \in [Call -> CallState] /\ retries' \in [Key -> 0 .. 2]
            /\ sync' \in SyncState
        BY <1>2, <3>1
      <3> QED
        BY <1>4, <2>1, <2>2, <3>2 DEF CallFails, TypeOK, who, wire
    <2>3. CASE retries[KeyOf(c)] # MaxRetries
      <3>1. /\ connected' \in BOOLEAN /\ synced' \in BOOLEAN /\ pending' \in BOOLEAN
            /\ missed' \in BOOLEAN
            /\ agent' \in [Agent -> AgentState]
            /\ active' \in BOOLEAN
        BY <1>4, <2>3, ReconnectTyped DEF CallFails, TypeOK
      <3>2. call' \in [Call -> CallState]
        BY <1>4, <2>3, CallMoves DEF CallFails, TypeOK
      <3>3. retries' \in [Key -> 0 .. 2]
        BY <1>4, <1>a, <2>3 DEF CallFails, MaxRetries, TypeOK
      <3> QED
        BY <1>4, <2>1, <2>3, <3>1, <3>2, <3>3 DEF CallFails, TypeOK, who, wire
    <2> QED
      BY <2>2, <2>3
  <1>5. CASE RestartEnds(c)
    <2>1. CASE connected
      <3>1. call' \in [Call -> CallState]
        BY <1>5, <2>1, CallSet DEF RestartEnds, TypeOK
      <3> QED
        BY <1>5, <2>1, <3>1 DEF RestartEnds, TypeOK, session, who, wire, bounds
    <2>2. CASE ~connected
      <3>1. Return(c, TRUE)
        BY <1>5, <2>2 DEF RestartEnds
      <3>2. /\ call' \in [Call -> CallState] /\ retries' \in [Key -> 0 .. 2]
            /\ sync' \in SyncState
        BY <1>2, <3>1
      <3> QED
        BY <1>5, <3>2 DEF RestartEnds, TypeOK, session, who, wire, bounds
    <2> QED
      BY <2>1, <2>2
  <1> QED
    BY <1>1, <1>3, <1>4, <1>5, <1>6 DEF CallStep

LEMMA TypedStep == TypeOK /\ [Next]_vars => TypeOK'
  <1> SUFFICES ASSUME TypeOK, [Next]_vars PROVE TypeOK'
    OBVIOUS
  <1>a. Page \in Agent /\ Bye \in Call /\ Sub \subseteq Agent /\ Caller \subseteq Call
    BY DEF Agent, Call
  <1>1. CASE InitStep \/ SyncStep \/ LoopStep \/ \E a \in Agent : AgentStep(a)
    BY <1>1, InitKeepsTypes, SyncKeepsTypes, AgentsKeepTypes
  <1>2. CASE \/ \E c \in Call : CallStep(c)
             \/ \E c \in Caller : Begin(c) \/ BeginDirectly(c)
    BY <1>2, <1>a, CallsKeepTypes
  <1>3. CASE Drop \/ Expire \/ LogOutOther
    <2>1. CASE Drop
      BY <2>1, Counting, ZenonT(40) DEF Drop, TypeOK, session, who, flows, calls
    <2>2. CASE Expire
      <3>1. /\ recent' \in BOOLEAN /\ connected' \in BOOLEAN /\ synced' \in BOOLEAN
            /\ pending' \in BOOLEAN /\ missed' \in BOOLEAN
        BY <2>2 DEF Expire, TypeOK
      <3> QED
        BY <2>2, <3>1 DEF Expire, TypeOK, who, flows, calls, wire, bounds
    <2>3. CASE LogOutOther
      BY <2>3, Counting DEF LogOutOther, TypeOK, session, who, flows, calls
    <2> QED
      BY <1>3, <2>1, <2>2, <2>3
  <1>4. CASE StartAuth \/ AccountRemoved \/ Hangup
    <2>1. CASE StartAuth
      <3>1. link' \in BOOLEAN /\ faults' \in 0 .. MaxFaults
        BY <2>1, Counting DEF StartAuth, TypeOK
      <3> QED
        BY <2>1, <3>1 DEF StartAuth, TypeOK, session, who, flows, calls
    <2>2. CASE AccountRemoved
      BY <2>2, ZenonT(40)
         DEF AccountRemoved, TypeOK, session, flows, calls, wire, bounds
    <2>3. CASE Hangup
      <3>1. missed' \in BOOLEAN
        BY <2>3 DEF Hangup, TypeOK
      <3> QED
        BY <2>3, <3>1 DEF Hangup, TypeOK, session, who, flows, calls, bounds
    <2> QED
      BY <1>4, <2>1, <2>2, <2>3
  <1>5. CASE Closed
    BY <1>5, ReconnectTyped DEF Closed, TypeOK, who, calls, wire, bounds
  <1>6. CASE Online
    BY <1>6, ReconnectTyped DEF Online, TypeOK, who, calls, wire, bounds
  <1>7. CASE PickAccount
    <2>1. agent' \in [Agent -> AgentState]
      BY <1>7, <1>a, AgentStates, AgentSet DEF PickAccount, TypeOK
    <2> QED
      BY <1>7, <2>1, Counting, ZenonT(40)
         DEF PickAccount, Overtaken, Displaced, TypeOK, calls, wire
  <1>8. ASSUME NEW s \in Sub, SignIn(s) PROVE TypeOK'
    <2>1. agent' \in [Agent -> AgentState] /\ init' \in InitState /\ sync' \in SyncState
      BY <1>8, <1>a, SubscriberTyped, AgentSet DEF SignIn, Subscribed, TypeOK
    <2> QED
      BY <1>8, <2>1, Counting
         DEF SignIn, Displaced, TypeOK, session, calls, wire
  <1>9. ASSUME NEW s \in Sub, SwitchAccount(s) PROVE TypeOK'
    <2>1. init' \in InitState
      BY <1>9, SubscriberTyped, InitStates DEF SwitchAccount
    <2>2. sync' \in SyncState
      BY <1>9, SubscriberTyped DEF SwitchAccount, TypeOK
    <2>3. [pc |-> AwaitInit(InitBySubscriber), own |-> InitBySubscriber.pc = "off",
           res |-> "no"] \in AgentState
      BY SubscriberTyped, AgentStates
    <2>4. agent' \in [Agent -> AgentState]
      BY <1>9, <1>a, <2>3, SubscriberTyped DEF SwitchAccount, TypeOK
    <2> QED
      BY <1>9, <2>1, <2>2, <2>4, ZenonT(40)
         DEF SwitchAccount, TypeOK, calls, wire, bounds
  <1>10. CASE LogOut
    <2>1. call' \in [Call -> CallState]
      BY <1>10, <1>a, CallSet DEF LogOut, TypeOK
    <2> QED
      BY <1>10, <2>1, Counting, ZenonT(40) DEF LogOut, TypeOK, session, flows, wire
  <1>11. CASE LoggedOut \/ RemoveAccount
    <2>1. call' \in [Call -> CallState]
      BY <1>11, CallsSettle DEF LoggedOut, RemoveAccount, Disconnected, TypeOK
    <2> QED
      BY <1>11, <2>1, Counting
      DEF LoggedOut, RemoveAccount, Disconnected, Overtaken, TypeOK, flows, bounds
  <1>12. CASE UNCHANGED vars
    BY <1>12 DEF TypeOK, vars, session, who, flows, calls, wire, bounds
  <1> QED
    BY <1>1, <1>2, <1>3, <1>4, <1>5, <1>6, <1>7, <1>8, <1>9, <1>10, <1>11, <1>12
    DEF Next

\* The initial state has the types of TypeOK.
LEMMA TypedInit == Init => TypeOK
  <1> SUFFICES ASSUME Init PROVE TypeOK
    OBVIOUS
  <1>1. agent \in [Agent -> AgentState] /\ init \in InitState
    BY AgentStates, InitStates DEF Init
  <1>2. call \in [Call -> CallState]
    BY DEF Init, Idle, CallState
  <1>3. retries \in [Key -> 0 .. 2] /\ faults \in 0 .. MaxFaults /\ moves \in 0 .. MaxMoves
    BY ConnectionAssumption DEF Init
  <1> QED
    BY <1>1, <1>2, <1>3 DEF Init, TypeOK, SyncState

(***************************************************************************)
(* Facts about the parts of the state that the invariants look at: where   *)
(* the loop and the account page are, and the call of the sync.            *)
(***************************************************************************)

LEMMA Apart ==
    /\ Loop \in Agent /\ Page \in Agent /\ Loop # Page
    /\ \A s \in Sub : s \in Agent /\ s # Loop /\ s # Page
    /\ Fetch \in Call /\ Bye \in Call /\ Fetch # Bye
    /\ \A c \in Caller : c \in Call /\ c # Fetch
  BY ConnectionAssumption DEF Agent, Call, Loop, Page, Fetch, Bye

\* No event is handled while a function is ready to run.
LEMMA EventAlone ==
    ASSUME Event
    PROVE  agent[Loop].pc \notin {"back", "got"} /\ init.pc # "synced"
  BY Apart DEF Event, Ready

\* What the settling of a promise makes of one agent.
LEMMA SettledAgent ==
    ASSUME TypeOK, NEW a \in Agent, NEW res
    PROVE  /\ Answered(agent, res)[a].pc =
                IF agent[a].pc = "init" THEN "back" ELSE agent[a].pc
           /\ Answered(agent, res)[a].res =
                IF agent[a].pc = "init" THEN res ELSE agent[a].res
           /\ Synchronized[a].pc =
                IF agent[a].pc = "sync" THEN "got" ELSE agent[a].pc
           /\ Synchronized[a].res = agent[a].res
  BY DEF TypeOK, AgentState, Answered, Synchronized

\* No promise makes a call idle, or an idle call busy.
LEMMA SettledCall ==
    ASSUME TypeOK, NEW c \in Call
    PROVE  /\ Released[c].pc = "idle" <=> call[c].pc = "idle"
           /\ Woken[c].pc = "idle" <=> call[c].pc = "idle"
  BY DEF TypeOK, CallState, Released, Woken

\* What reconnect() makes of the loop.
LEMMA ReconnectLoop ==
    ASSUME TypeOK, Reconnect
    PROVE  /\ agent'[Loop].pc = IF agent[Loop].pc # "off" THEN agent[Loop].pc
                                ELSE IF user THEN "delay" ELSE "latched"
           /\ agent'[Loop].res = agent[Loop].res
           /\ agent'[Page] = agent[Page]
  BY Apart DEF TypeOK, AgentState, Reconnect

(***************************************************************************)
(* Nobody waits for a this.synchronized that nobody will resolve           *)
(***************************************************************************)

Waiters == ToldIsResolved /\ WaitsForWork /\ NoStrandedWaiter

LEMMA WaitersInit ==
    ASSUME TypeOK, Waiters, InitStep
    PROVE  Waiters'
  <1> USE Apart
  <1>1. CASE Connect
    <2>1. CASE account
      BY <1>1, <2>1, EventAlone
         DEF Connect, Waiters, ToldIsResolved, WaitsForWork,
                                    NoStrandedWaiter, TypeOK, InitState, who, calls
    <2>2. CASE ~account
      BY <1>1, <2>2, EventAlone, SettledAgent
      DEF Connect, Waiters, ToldIsResolved, WaitsForWork, NoStrandedWaiter, NoInit, who,
          calls, session
    <2> QED
      BY <2>1, <2>2
  <1>2. CASE Accept
    BY <1>2
       DEF Accept, Waiters, ToldIsResolved, WaitsForWork, NoStrandedWaiter, TypeOK,
                InitState, session, who, calls
  <1>3. CASE InitSucceeds
    <2>1. CASE init.force
      BY <1>3, <2>1, EventAlone
      DEF InitSucceeds, CallSync, Waiters, ToldIsResolved, WaitsForWork,
          NoStrandedWaiter, TypeOK, InitState, who
    <2>2. CASE ~init.force
      BY <1>3, <2>2, EventAlone, SettledAgent, SettledCall
      DEF InitSucceeds, Waiters, ToldIsResolved, WaitsForWork, NoStrandedWaiter, NoInit,
          who
    <2> QED
      BY <2>1, <2>2
  <1>4. CASE InitFails
    BY <1>4, EventAlone, SettledAgent, SettledCall
    DEF InitFails, Waiters, ToldIsResolved, WaitsForWork, NoStrandedWaiter, NoInit, who
  <1>5. CASE InitReturns
    BY <1>5, SettledAgent
    DEF InitReturns, Waiters, ToldIsResolved, WaitsForWork, NoStrandedWaiter, NoInit,
        session, who, calls
  <1> QED
    BY <1>1, <1>2, <1>3, <1>4, <1>5 DEF InitStep

LEMMA WaitersSyncEnds ==
    ASSUME TypeOK, Waiters, Event, sync # "fetching", SyncEnds, user' \in {user, FALSE},
           UNCHANGED leaving
    PROVE  Waiters'
  BY Apart, EventAlone, SettledAgent, SettledCall
  DEF SyncEnds, Waiters, ToldIsResolved, WaitsForWork, NoStrandedWaiter, TypeOK, InitState

\* currentUser is set: its subscriber sees to the rest.
LEMMA WaitersSubscribed ==
    ASSUME TypeOK, Waiters, Event, NEW s \in Sub, NEW now, Subscribed(s, now),
           now = sync \/ (now = "storing" /\ sync = "saving"),
           UNCHANGED <<synced, pending, connected, call>>
    PROVE  NoStrandedWaiter' /\ WaitsForWork'
  <1>1. agent'[Loop] = agent[Loop] /\ agent'[Page] = agent[Page]
    BY Apart DEF Subscribed, TypeOK
  <1>2. CASE synced
    BY <1>1, <1>2, Apart
    DEF Subscribed, SyncBySubscriber, InitBySubscriber, Waiters, ToldIsResolved,
        WaitsForWork, NoStrandedWaiter
  <1>3. CASE ~synced
    <2>1. /\ init.pc # "off" => init' = init
          /\ init.pc = "off" /\ ~connected => init'.pc \in {"account", "latched"}
          /\ init.pc = "off" /\ connected => init' = init /\ sync' # "off"
          /\ sync' # sync => \/ sync' = "account" /\ sync = "off"
                             \/ sync' = "storing" /\ sync = "saving"
      BY <1>3 DEF Subscribed, SyncBySubscriber, InitBySubscriber, NoInit
    <2> QED
      BY <1>1, <1>3, <2>1, Apart, EventAlone
      DEF Waiters, WaitsForWork, NoStrandedWaiter
  <1> QED
    BY <1>2, <1>3

LEMMA WaitersSync ==
    ASSUME TypeOK, Waiters, SyncStep
    PROVE  Waiters'
  <1> USE Apart
  <1>1. CASE SyncAsks
    <2>1. CASE account
      BY <1>1, <2>1 DEF SyncAsks, Waiters, ToldIsResolved, WaitsForWork,
                        NoStrandedWaiter, who
    <2>2. CASE ~account
      BY <1>1, <2>2, WaitersSyncEnds DEF SyncAsks, who
    <2> QED
      BY <2>1, <2>2
  <1>2. CASE SyncAnswered
    BY <1>2
       DEF SyncAnswered, Waiters, ToldIsResolved, WaitsForWork, NoStrandedWaiter,
                session, who, calls
  <1>3. CASE SyncFails \/ SyncRefused
    BY <1>3, WaitersSyncEnds DEF SyncFails, SyncRefused, who
  <1>4. CASE SyncArrives
    BY <1>4
       DEF SyncArrives, Waiters, ToldIsResolved, WaitsForWork, NoStrandedWaiter,
                who, calls
  <1>5. ASSUME NEW s \in Sub, SyncShows(s) PROVE Waiters'
    <2>1. agent'[Loop] = agent[Loop] /\ agent'[Page] = agent[Page]
      BY <1>5 DEF SyncShows, Subscribed, TypeOK
    <2>2. sync' # "off" /\ ToldIsResolved'
      BY <1>5, <2>1, EventAlone DEF SyncShows, Subscribed, SyncBySubscriber,
             Waiters, ToldIsResolved, NoStrandedWaiter, session
    <2>3. WaitsForWork'
      <3>1. CASE user \/ \A t \in Sub : agent[t].pc # "off"
        BY <1>5, <3>1 DEF SyncShows, Waiters, WaitsForWork, calls
      <3>2. CASE ~(user \/ \A t \in Sub : agent[t].pc # "off")
        BY <1>5, <3>2, WaitersSubscribed DEF SyncShows, session, calls
      <3> QED
        BY <3>1, <3>2
    <2> QED
      BY <2>2, <2>3 DEF Waiters, NoStrandedWaiter
  <1>6. CASE SyncFetches
    BY <1>6
       DEF SyncFetches, Waiters, ToldIsResolved, WaitsForWork, NoStrandedWaiter,
                session, who
  <1>7. CASE SyncFinishes
    BY <1>7, WaitersSyncEnds DEF SyncFinishes, who
  <1> QED
    BY <1>1, <1>2, <1>3, <1>4, <1>5, <1>6, <1>7 DEF SyncStep

\* Where the return of init() leads.
LEMMA BackLeads ==
    ASSUME TypeOK, NEW a \in Agent, BackFromInit(a)
    PROVE  /\ agent'[a].pc \in {"sync", "got"} /\ agent'[a].res = agent[a].res
           /\ \A b \in Agent \ {a} : agent'[b] = agent[b]
           /\ agent'[a].pc = "sync" => sync' # "off"
           /\ sync' = sync \/ (sync = "off" /\ sync' = "account")
           /\ agent'[a].pc = "sync" /\ a = Loop => agent[a].res # "throw"
  <1> DEFINE Moved(pc) ==
               /\ agent'[a].pc = pc /\ agent'[a].res = agent[a].res
               /\ \A b \in Agent \ {a} : agent'[b] = agent[b]
             Syncs == \/ agent' = [agent EXCEPT ![a].pc = "sync"] /\ sync' # "off"
                        /\ (sync' = sync \/ (sync = "off" /\ sync' = "account"))
                      \/ agent' = [agent EXCEPT ![a].pc = "got"] /\ sync' = sync
             Halts == agent' = [agent EXCEPT ![a].pc = "got"] /\ sync' = sync
  <1>1. agent' = [agent EXCEPT ![a].pc = "sync"] => Moved("sync")
    BY DEF TypeOK, AgentState
  <1>2. agent' = [agent EXCEPT ![a].pc = "got"] => Moved("got")
    BY DEF TypeOK, AgentState
  <1>3. Syncs \/ Halts
    BY DEF BackFromInit, CallSync
  <1>4. a = Loop => agent[a].res # "throw" \/ Halts
    BY Apart DEF BackFromInit
  <1> QED
    BY <1>1, <1>2, <1>3, <1>4

LEMMA WaitersAgents ==
    ASSUME TypeOK, Waiters, LoopStep \/ \E a \in Agent : AgentStep(a)
    PROVE  Waiters'
  <1> USE Apart
  <1>1. CASE Retry
    <2>1. /\ agent'[Loop].res = "no"
          /\ agent'[Loop].pc = IF init.pc = "latched" THEN "back" ELSE "init"
          /\ init'.pc = IF init.pc = "off" THEN "account" ELSE init.pc
          /\ agent'[Page] = agent[Page]
      <3>1. CASE init.pc = "off"
        <4>1. agent' = [agent EXCEPT ![Loop] = [Off EXCEPT !.pc = "init", !.own = TRUE]]
          BY <1>1, <3>1 DEF Retry
        <4>2. init' = ForcedInit
          BY <1>1, <3>1 DEF Retry
        <4> QED
          BY <3>1, <4>1, <4>2 DEF ForcedInit, Off, TypeOK
      <3>2. CASE init.pc # "off"
        BY <1>1, <3>2 DEF Retry, AwaitInit, Off, TypeOK
      <3> QED
        BY <3>1, <3>2
    <2> QED
      BY <1>1, <2>1, EventAlone
      DEF Retry, Waiters, ToldIsResolved, WaitsForWork, NoStrandedWaiter, session, who,
          calls
  <1>2. CASE LoopTurns
    BY <1>2, SettledCall
    DEF LoopTurns, Off, Waiters, ToldIsResolved, WaitsForWork, NoStrandedWaiter, TypeOK,
        AgentState, Outcome, session, who
  <1>3. ASSUME NEW a \in Agent, BackFromInit(a) PROVE Waiters'
    <2>1. /\ agent'[a].pc \in {"sync", "got"} /\ agent'[a].res = agent[a].res
          /\ \A b \in Agent \ {a} : agent'[b] = agent[b]
          /\ agent'[a].pc = "sync" => sync' # "off"
          /\ sync' = sync \/ (sync = "off" /\ sync' = "account")
          /\ agent'[a].pc = "sync" /\ a = Loop => agent[a].res # "throw"
      BY <1>3, BackLeads
    <2>2. UNCHANGED <<init, call, session, who>>
      BY <1>3 DEF BackFromInit, calls
    <2> QED
      BY <1>3, <2>1, <2>2
      DEF BackFromInit, Waiters, ToldIsResolved, WaitsForWork, NoStrandedWaiter, session,
          who
  <1>4. ASSUME NEW a \in Agent, AgentEnds(a) PROVE Waiters'
    BY <1>4
       DEF AgentEnds, Off, Waiters, ToldIsResolved, WaitsForWork, NoStrandedWaiter,
                TypeOK, session, who, calls
  <1> QED
    BY <1>1, <1>2, <1>3, <1>4 DEF LoopStep, AgentStep

\* A busy call of the sync stays the call of a sync that fetches.
LEMMA FetchStays ==
    ASSUME TypeOK, Waiters, UNCHANGED <<init, agent, pending, synced, user, account>>,
           call[Fetch].pc = "idle" => call'[Fetch].pc = "idle",
           \/ sync' = sync
           \/ call'[Fetch].pc = "idle" /\ sync' = "merging"
    PROVE  Waiters'
  BY DEF Waiters, ToldIsResolved, WaitsForWork, NoStrandedWaiter

LEMMA ReturnFetch ==
    ASSUME TypeOK, NEW c \in Call, NEW b, Return(c, b)
    PROVE  /\ call[Fetch].pc = "idle" => call'[Fetch].pc = "idle"
           /\ sync' = sync \/ (call'[Fetch].pc = "idle" /\ sync' = "merging")
  BY Apart DEF Return, Idle, TypeOK

\* reconnect() strands nobody: there is a loop, or one is latched.
LEMMA WaitersReconnect ==
    ASSUME TypeOK, Waiters, Event, Reconnect, UNCHANGED <<init, sync, user, account>>,
           call[Fetch].pc = "idle" => call'[Fetch].pc = "idle"
    PROVE  Waiters'
  <1>1. /\ agent'[Loop].pc # "off" /\ agent'[Loop].pc \notin {"back", "got"}
        /\ agent'[Loop].pc = "sync" => agent[Loop].pc = "sync"
        /\ agent'[Loop].res = agent[Loop].res
    BY EventAlone, ReconnectLoop
  <1>2. synced' = FALSE /\ init'.pc # "synced"
    BY EventAlone DEF Reconnect
  <1> QED
    BY <1>1, <1>2 DEF Waiters, ToldIsResolved, WaitsForWork, NoStrandedWaiter

LEMMA WaitersCalls ==
    ASSUME TypeOK, Waiters, NEW c \in Call, CallStep(c)
    PROVE  Waiters'
  <1> USE Apart
  <1>1. CASE WaitTimesOut(c) \/ WaitEnds(c)
    <2>1. call[Fetch].pc = "idle" => call'[Fetch].pc = "idle"
      BY <1>1 DEF WaitTimesOut, WaitEnds, Idle, TypeOK
    <2> QED
      BY <1>1, <2>1, FetchStays DEF WaitTimesOut, WaitEnds, session, who, flows
  <1>2. CASE CallAnswered(c)
    BY <1>2, ReturnFetch, FetchStays DEF CallAnswered, session, who
  <1>3. CASE CallRefused(c)
    <2>1. /\ call[Fetch].pc = "idle" => call'[Fetch].pc = "idle"
          /\ sync' = sync \/ (call'[Fetch].pc = "idle" /\ sync' = "merging")
      BY <1>3, ReturnFetch DEF CallRefused
    <2> QED
      BY <1>3, <2>1, EventAlone
      DEF CallRefused, session, Waiters, ToldIsResolved, WaitsForWork, NoStrandedWaiter
  <1>4. CASE CallFails(c)
    <2>1. CASE retries[KeyOf(c)] = MaxRetries
      BY <1>4, <2>1, ReturnFetch, FetchStays DEF CallFails, who
    <2>2. CASE retries[KeyOf(c)] # MaxRetries
      <3>1. call[Fetch].pc = "idle" => call'[Fetch].pc = "idle"
        BY <1>4, <2>2 DEF CallFails, TypeOK
      <3>2. sync' = sync /\ UNCHANGED <<init, user, account>>
        BY <1>4, <2>2 DEF CallFails, who
      <3>3. CASE active
        BY <1>4, <2>2, <3>1, <3>2, <3>3, FetchStays DEF CallFails
      <3>4. CASE ~active
        BY <1>4, <2>2, <3>1, <3>2, <3>4, WaitersReconnect DEF CallFails
      <3> QED
        BY <3>3, <3>4
    <2> QED
      BY <2>1, <2>2
  <1>5. CASE RestartEnds(c)
    <2>1. CASE connected
      <3>1. call[Fetch].pc = "idle" => call'[Fetch].pc = "idle"
        BY <1>5, <2>1 DEF RestartEnds, TypeOK
      <3> QED
        BY <1>5, <2>1, <3>1, FetchStays DEF RestartEnds, session, who
    <2>2. CASE ~connected
      BY <1>5, <2>2, ReturnFetch, FetchStays DEF RestartEnds, session, who
    <2> QED
      BY <2>1, <2>2
  <1> QED
    BY <1>1, <1>2, <1>3, <1>4, <1>5 DEF CallStep

\* Steps that touch none of what the invariant looks at but this.synchronized,
\* which they settle, or the account page.
LEMMA WaitersKept ==
    ASSUME TypeOK, Waiters, Event \/ UNCHANGED <<account, user>>,
           UNCHANGED <<init, sync>>,
           agent'[Loop] = agent[Loop],
           agent'[Page].pc = "picking" \/ UNCHANGED <<account, agent>> \/ account' = FALSE,
           call[Fetch].pc = "idle" => call'[Fetch].pc = "idle",
           pending' = pending \/ pending' = FALSE,
           synced' = synced \/ synced' = FALSE,
           user' = user \/ user' = FALSE
    PROVE  Waiters'
  BY EventAlone DEF Waiters, ToldIsResolved, WaitsForWork, NoStrandedWaiter

LEMMA WaitersMoves ==
    ASSUME TypeOK, Waiters, Next
    PROVE  Waiters'
  <1> USE Apart
  <1>1. CASE InitStep \/ SyncStep \/ LoopStep \/ \E a \in Agent : AgentStep(a)
    BY <1>1, WaitersInit, WaitersSync, WaitersAgents
  <1>2. CASE \E c \in Call : CallStep(c)
    BY <1>2, WaitersCalls
  <1>3. ASSUME NEW c \in Caller, Begin(c) \/ BeginDirectly(c) PROVE Waiters'
    <2>1. call[Fetch].pc = "idle" => call'[Fetch].pc = "idle"
      BY <1>3 DEF Begin, BeginDirectly, TypeOK
    <2> QED
      BY <1>3, <2>1, FetchStays DEF Begin, BeginDirectly, session, who, flows
  <1>4. CASE Drop \/ Expire \/ StartAuth \/ LogOutOther \/ Hangup
    BY <1>4, FetchStays
       DEF Drop, Expire, StartAuth, LogOutOther, Hangup, session, who,
                            flows, calls
  <1>5. CASE Closed \/ Online
    BY <1>5, WaitersReconnect DEF Closed, Online, who, calls
  <1>6. ASSUME NEW s \in Sub, SignIn(s) PROVE Waiters'
    <2>1. NoStrandedWaiter' /\ WaitsForWork'
      BY <1>6, WaitersSubscribed DEF SignIn, session, calls
    <2>2. agent'[Loop] = agent[Loop] /\ (sync # "off" => sync' = sync)
      BY <1>6 DEF SignIn, Subscribed, SyncBySubscriber, TypeOK
    <2>3. ToldIsResolved'
      BY <1>6, <2>2, EventAlone
      DEF SignIn, Subscribed, InitBySubscriber, NoInit, Waiters, ToldIsResolved, session
    <2> QED
      BY <2>1, <2>3 DEF Waiters
  <1>7. CASE PickAccount
    <2>1. agent'[Loop] = agent[Loop] /\ agent'[Page].pc = "picking"
      BY <1>7 DEF PickAccount, Off, TypeOK
    <2> QED
      BY <1>7, <2>1, WaitersKept DEF PickAccount, calls
  <1>8. ASSUME NEW s \in Sub, SwitchAccount(s) PROVE Waiters'
    <2>1. agent'[Loop] = agent[Loop]
      BY <1>8 DEF SwitchAccount, TypeOK
    <2>2. /\ (init'.pc \notin {"off", "sync", "synced"}) \/ init' = init
          /\ sync # "off" => sync' = sync
      BY <1>8
         DEF SwitchAccount, SyncBySubscriber, InitBySubscriber, NoInit, ForcedInit
    <2>3. init'.pc # "off"
      BY <1>8 DEF SwitchAccount, InitBySubscriber, NoInit, ForcedInit
    <2> QED
      BY <1>8, <2>1, <2>2, <2>3, EventAlone
      DEF SwitchAccount, SyncBySubscriber, calls, Waiters, ToldIsResolved, WaitsForWork,
          NoStrandedWaiter
  <1>9. CASE LogOut
    <2>1. call[Fetch].pc = "idle" => call'[Fetch].pc = "idle"
      BY <1>9 DEF LogOut, TypeOK
    <2> QED
      BY <1>9, <2>1, WaitersKept DEF LogOut, session, flows
  <1>10. CASE LoggedOut \/ RemoveAccount
    BY <1>10, WaitersKept, SettledCall
       DEF LoggedOut, RemoveAccount, Disconnected, flows
  <1>11. CASE AccountRemoved
    BY <1>11, WaitersKept DEF AccountRemoved, session, flows, calls
  <1> QED
    BY <1>1, <1>2, <1>3, <1>4, <1>5, <1>6, <1>7, <1>8, <1>9, <1>10, <1>11
       DEF Next

(***************************************************************************)
(* What the session says of the connection is so                           *)
(***************************************************************************)

Wires == AnsweredLive /\ NoPhantom /\ WireFresh /\ SyncFresh /\ SuccessIsReal

LEMMA WiresInit ==
    ASSUME TypeOK, Waiters, Wires, InitStep
    PROVE  Wires'
  <1> USE Apart DEF Wires, AnsweredLive, NoPhantom, WireFresh, SyncFresh, SuccessIsReal
  <1>1. CASE Connect
    <2>1. CASE account
      <3>1. init'.pc = "wire" /\ agent' = agent /\ sync' = sync
        BY <1>1, <2>1 DEF Connect, TypeOK, InitState
      <3>2. /\ connected' = FALSE /\ synced' = FALSE /\ link' = FALSE /\ authed' = FALSE
            /\ missed' = (sync # "off")
        BY <1>1, <2>1 DEF Connect
      <3>3. agent[Loop].pc \notin {"back", "got"}
        BY <1>1, EventAlone DEF Connect
      <3>4. agent[Loop].pc = "sync" => missed'
        BY <3>2 DEF Waiters, WaitsForWork
      <3> QED
        BY <3>1, <3>2, <3>3, <3>4
    <2>2. CASE ~account
      <3>1. init'.pc = "off" /\ UNCHANGED <<session, sync, link, authed, closing, missed>>
        BY <1>1, <2>2 DEF Connect, NoInit
      <3>2. /\ agent'[Loop].pc = "sync" => agent[Loop].pc = "sync"
            /\ agent'[Loop].pc \in {"back", "got"} => agent'[Loop].res = "throw"
            /\ agent'[Loop].pc = "sync" => agent'[Loop].res = agent[Loop].res
        BY <1>1, <2>2, SettledAgent, EventAlone DEF Connect
      <3> QED
        BY <3>1, <3>2 DEF session
    <2> QED
      BY <2>1, <2>2
  <1>2. CASE Accept
    BY <1>2 DEF Accept, TypeOK, InitState, session
  <1>3. CASE InitSucceeds
    <2>1. connected' = TRUE /\ UNCHANGED <<synced, link, authed, closing, missed>>
      BY <1>3 DEF InitSucceeds, wire
    <2>2. /\ init'.pc \in {"sync", "synced", "off"}
          /\ sync' = "answered" => sync = "answered"
      BY <1>3 DEF InitSucceeds, CallSync, NoInit, TypeOK, InitState
    <2> QED
      BY <1>3, <2>1, <2>2 DEF InitSucceeds
  <1>4. CASE InitFails
    <2>1. /\ init'.pc = "off" /\ connected' = FALSE /\ synced' = FALSE
          /\ UNCHANGED <<sync, link, authed, closing, missed>>
      BY <1>4 DEF InitFails, NoInit, wire
    <2>2. /\ agent'[Loop].pc = "sync" => agent[Loop].pc = "sync"
          /\ agent'[Loop].pc \in {"back", "got"} => agent'[Loop].res = "no"
      BY <1>4, SettledAgent, EventAlone DEF InitFails
    <2> QED
      BY <1>4, <2>1, <2>2 DEF InitFails
  <1>5. CASE InitReturns
    <2>1. /\ init'.pc = "off"
          /\ UNCHANGED <<session, sync, link, authed, closing, missed>>
      BY <1>5 DEF InitReturns, NoInit, wire
    <2> QED
      BY <1>5, <2>1 DEF InitReturns, session
  <1> QED
    BY <1>1, <1>2, <1>3, <1>4, <1>5 DEF InitStep

LEMMA WiresSyncEnds ==
    ASSUME TypeOK, Wires, Event, SyncEnds, synced' \in {synced, FALSE},
           UNCHANGED <<connected, link, authed, closing, missed>>
    PROVE  Wires'
  <1>1. /\ init.pc # "sync" => init' = init
        /\ init.pc = "sync" => init'.pc = "synced"
        /\ sync' = "off"
    BY DEF SyncEnds, TypeOK, InitState
  <1>2. /\ agent'[Loop].pc = IF agent[Loop].pc = "sync" THEN "got" ELSE agent[Loop].pc
        /\ agent'[Loop].res = agent[Loop].res
    BY Apart, SettledAgent DEF SyncEnds
  <1>3. synced' => synced
    OBVIOUS
  <1> QED
    BY <1>1, <1>2, <1>3
       DEF Wires, AnsweredLive, NoPhantom, WireFresh, SyncFresh, SuccessIsReal

\* The subscriber changes nothing of the connection and of an init under way.
LEMMA SubscribedKeeps ==
    ASSUME TypeOK, NEW s \in Sub, NEW now, Subscribed(s, now)
    PROVE  /\ agent'[Loop] = agent[Loop]
           /\ init' = init \/ (init.pc = "off" /\ init'.pc \in {"account", "latched"})
           /\ sync' = now \/ (now = "off" /\ sync' = "account")
  BY Apart DEF Subscribed, SyncBySubscriber, InitBySubscriber, NoInit, TypeOK

LEMMA WiresSync ==
    ASSUME TypeOK, Waiters, Wires, SyncStep
    PROVE  Wires'
  <1> USE Apart DEF Wires, AnsweredLive, NoPhantom, WireFresh, SyncFresh, SuccessIsReal
  <1>1. CASE SyncAsks
    <2>1. CASE account
      BY <1>1, <2>1 DEF SyncAsks, wire
    <2>2. CASE ~account
      BY <1>1, <2>2, WiresSyncEnds DEF SyncAsks, wire
    <2> QED
      BY <2>1, <2>2
  <1>2. CASE SyncAnswered
    BY <1>2 DEF SyncAnswered, session
  <1>3. CASE SyncFails \/ SyncRefused
    BY <1>3, WiresSyncEnds DEF SyncFails, SyncRefused, wire
  <1>4. CASE SyncArrives
    BY <1>4 DEF SyncArrives, wire
  <1>5. ASSUME NEW s \in Sub, SyncShows(s) PROVE Wires'
    <2>1. /\ agent'[Loop] = agent[Loop]
          /\ init' = init \/ (init.pc = "off" /\ init'.pc \in {"account", "latched"})
          /\ sync' = "storing"
      BY <1>5, SubscribedKeeps DEF SyncShows
    <2> QED
      BY <1>5, <2>1 DEF SyncShows, session, wire
  <1>6. CASE SyncFetches
    BY <1>6 DEF SyncFetches, session, wire
  <1>7. CASE SyncFinishes
    BY <1>7, WiresSyncEnds DEF SyncFinishes, wire
  <1> QED
    BY <1>1, <1>2, <1>3, <1>4, <1>5, <1>6, <1>7 DEF SyncStep

LEMMA WiresAgents ==
    ASSUME TypeOK, Waiters, Wires, LoopStep \/ \E a \in Agent : AgentStep(a)
    PROVE  Wires'
  <1> USE Apart DEF Wires, AnsweredLive, NoPhantom, WireFresh, SyncFresh, SuccessIsReal
  <1>1. CASE Retry
    <2>1. agent'[Loop].res = "no" /\ agent'[Loop].pc # "sync"
      BY <1>1 DEF Retry, AwaitInit, Off, TypeOK
    <2>2. init' = init \/ init'.pc = "account"
      BY <1>1 DEF Retry, ForcedInit
    <2> QED
      BY <1>1, <2>1, <2>2 DEF Retry, session, wire
  <1>2. CASE LoopTurns
    <2>1. agent'[Loop].pc \in {"delay", "off"}
      BY <1>2 DEF LoopTurns, Off, TypeOK
    <2> QED
      BY <1>2, <2>1 DEF LoopTurns, session, wire
  <1>3. ASSUME NEW a \in Agent, BackFromInit(a) PROVE Wires'
    <2>1. /\ agent'[a].pc \in {"sync", "got"} /\ agent'[a].res = agent[a].res
          /\ \A b \in Agent \ {a} : agent'[b] = agent[b]
          /\ sync' = sync \/ (sync = "off" /\ sync' = "account")
      BY <1>3, BackLeads
    <2>2. UNCHANGED <<session, init, wire, missed>> /\ agent[a].pc = "back"
      BY <1>3 DEF BackFromInit
    <2> QED
      BY <2>1, <2>2 DEF Waiters, WaitsForWork, session, wire
  <1>4. ASSUME NEW a \in Agent, AgentEnds(a) PROVE Wires'
    <2>1. agent'[Loop] = agent[Loop]
      BY <1>4 DEF AgentEnds, TypeOK
    <2> QED
      BY <1>4, <2>1 DEF AgentEnds, session, wire
  <1> QED
    BY <1>1, <1>2, <1>3, <1>4 DEF LoopStep, AgentStep

\* reconnect() owns up to a success that is on its way.
LEMMA WiresReconnect ==
    ASSUME TypeOK, Wires, Event, Reconnect, UNCHANGED <<init, sync, link, authed>>
    PROVE  Wires'
  <1>1. /\ agent'[Loop].pc \notin {"back", "got"}
        /\ agent'[Loop].pc = "sync" => agent[Loop].pc = "sync"
        /\ init.pc # "synced"
    BY EventAlone, ReconnectLoop
  <1>2. /\ connected' = FALSE /\ synced' = FALSE
        /\ ~missed' => ~missed /\ init.pc \notin {"answered", "sync"}
                         /\ agent[Loop].pc # "sync"
    BY DEF Reconnect, Overtaken
  <1> QED
    BY <1>1, <1>2
       DEF Wires, AnsweredLive, NoPhantom, WireFresh, SyncFresh, SuccessIsReal

\* The session is broken on the side of the page.
LEMMA WiresBroken ==
    ASSUME TypeOK, Wires, Event, connected' = FALSE, synced' = FALSE,
           missed' = (missed \/ Overtaken), agent'[Loop] = agent[Loop],
           UNCHANGED <<init, sync, link, authed, closing>>
    PROVE  Wires'
  BY EventAlone
  DEF Overtaken, Wires, AnsweredLive, NoPhantom, WireFresh, SyncFresh, SuccessIsReal

LEMMA WiresCalls ==
    ASSUME TypeOK, Waiters, Wires, NEW c \in Call, CallStep(c)
    PROVE  Wires'
  <1> USE Apart DEF Wires, AnsweredLive, NoPhantom, WireFresh, SyncFresh, SuccessIsReal
  <1>1. CASE WaitTimesOut(c) \/ WaitEnds(c)
    BY <1>1 DEF WaitTimesOut, WaitEnds, session, flows, wire
  <1>2. ASSUME NEW b, Return(c, b), call[c].pc # "idle",
               UNCHANGED <<connected, synced, agent, init, wire, missed>>
        PROVE  Wires'
    <2>1. sync' = sync \/ (sync = "fetching" /\ sync' = "merging")
      BY <1>2 DEF Return, Waiters, WaitsForWork
    <2> QED
      BY <1>2, <2>1 DEF wire
  <1>3. CASE CallAnswered(c) \/ CallRefused(c)
    BY <1>2, <1>3 DEF CallAnswered, CallRefused, session
  <1>4. CASE CallFails(c)
    <2>1. CASE retries[KeyOf(c)] = MaxRetries
      BY <1>2, <1>4, <2>1 DEF CallFails
    <2>2. CASE retries[KeyOf(c)] # MaxRetries
      <3>1. CASE active
        BY <1>4, <2>2, <3>1 DEF CallFails, wire
      <3>2. CASE ~active
        BY <1>4, <2>2, <3>2, WiresReconnect DEF CallFails, wire
      <3> QED
        BY <3>1, <3>2
    <2> QED
      BY <2>1, <2>2
  <1>5. CASE RestartEnds(c)
    <2>1. CASE connected
      BY <1>5, <2>1 DEF RestartEnds, session, wire
    <2>2. CASE ~connected
      BY <1>2, <1>5, <2>2 DEF RestartEnds, session
    <2> QED
      BY <2>1, <2>2
  <1> QED
    BY <1>1, <1>3, <1>4, <1>5 DEF CallStep

LEMMA WiresMoves ==
    ASSUME TypeOK, Waiters, Wires, Next
    PROVE  Wires'
  <1> USE Apart
  <1>1. CASE InitStep \/ SyncStep \/ LoopStep \/ \E a \in Agent : AgentStep(a)
    BY <1>1, WiresInit, WiresSync, WiresAgents
  <1>2. CASE \E c \in Call : CallStep(c)
    BY <1>2, WiresCalls
  <1>3. CASE \/ \E c \in Caller : Begin(c) \/ BeginDirectly(c)
             \/ Expire \/ LogOut \/ AccountRemoved
    BY <1>3
       DEF Begin, BeginDirectly, Expire, LogOut, AccountRemoved, session, flows,
                wire, Wires, AnsweredLive, NoPhantom, WireFresh, SyncFresh, SuccessIsReal
  <1>4. CASE Drop \/ StartAuth \/ LogOutOther \/ Hangup
    <2>1. CASE Drop
      BY <2>1
         DEF Drop, session, flows, Wires, AnsweredLive, NoPhantom, WireFresh, SyncFresh,
                  SuccessIsReal
    <2>2. CASE StartAuth \/ LogOutOther
      BY <2>2
         DEF StartAuth, LogOutOther, flows, Wires, AnsweredLive, NoPhantom, WireFresh,
                  SyncFresh, SuccessIsReal
    <2>3. CASE Hangup
      <3>1. /\ link' = FALSE /\ authed' = FALSE /\ (~missed' => ~missed /\ ~link)
            /\ UNCHANGED <<session, flows, closing>>
        BY <2>3 DEF Hangup
      <3> QED
        BY <3>1
           DEF session, flows, Wires, AnsweredLive, NoPhantom, WireFresh, SyncFresh,
                    SuccessIsReal
    <2> QED
      BY <1>4, <2>1, <2>2, <2>3
  <1>5. CASE Closed \/ Online
    BY <1>5, WiresReconnect DEF Closed, Online, wire
  <1>6. ASSUME NEW s \in Sub, SignIn(s) PROVE Wires'
    <2>1. /\ agent'[Loop] = agent[Loop]
          /\ init' = init \/ (init.pc = "off" /\ init'.pc \in {"account", "latched"})
          /\ sync' = sync \/ (sync = "off" /\ sync' = "account")
      BY <1>6, SubscribedKeeps DEF SignIn
    <2> QED
      BY <1>6, <2>1
         DEF SignIn, session, wire, Wires, AnsweredLive, NoPhantom, WireFresh,
                        SyncFresh, SuccessIsReal
  <1>7. CASE PickAccount
    <2>1. agent'[Loop] = agent[Loop]
      BY <1>7 DEF PickAccount, TypeOK
    <2> QED
      BY <1>7, <2>1, WiresBroken DEF PickAccount, wire
  <1>8. ASSUME NEW s \in Sub, SwitchAccount(s) PROVE Wires'
    <2>1. /\ agent'[Loop] = agent[Loop]
          /\ init' = init \/ init'.pc \in {"account", "latched"}
          /\ sync' = sync \/ (sync = "off" /\ sync' = "account")
      BY <1>8
         DEF SwitchAccount, SyncBySubscriber, InitBySubscriber, NoInit, ForcedInit,
                  TypeOK
    <2> QED
      BY <1>8, <2>1
         DEF SwitchAccount, wire, Wires, AnsweredLive, NoPhantom, WireFresh,
                        SyncFresh, SuccessIsReal
  <1>9. CASE LoggedOut \/ RemoveAccount
    BY <1>9, WiresBroken DEF LoggedOut, RemoveAccount, Disconnected, flows
  <1> QED
    BY <1>1, <1>2, <1>3, <1>4, <1>5, <1>6, <1>7, <1>8, <1>9 DEF Next

(***************************************************************************)
(* The retries of a call                                                   *)
(***************************************************************************)

\* No other call has the key of one that is not among those alike.
LEMMA OwnKey ==
    ASSUME NEW c \in Caller \ Alike, NEW d \in Call, d # c
    PROVE  KeyOf(d) # KeyOf(c)
  BY ConnectionAssumption DEF KeyOf, Call, Fetch, Bye

\* A call that does not move, or that the settling of a promise lets go, stays
\* counted if its key does.
LEMMA CountedKept ==
    ASSUME TypeOK, NEW c \in Caller \ Alike, Counted(c),
           call'[c] = call[c] \/ call' = Released \/ call' = Woken,
           retries'[KeyOf(c)] = retries[KeyOf(c)]
    PROVE  Counted(c)'
  <1>1. c \in Call
    BY DEF Call
  <1>2. CASE call'[c] = call[c]
    BY <1>2 DEF Counted
  <1>3. CASE call' = Released
    BY <1>1, <1>3 DEF Counted, Released, TypeOK, CallState
  <1>4. CASE call' = Woken
    BY <1>1, <1>4 DEF Counted, Woken, TypeOK, CallState
  <1> QED
    BY <1>2, <1>3, <1>4

\* A call that returns forgets its retries, if it had any.
LEMMA CountedReturn ==
    ASSUME TypeOK, NEW c \in Caller \ Alike, Counted(c), NEW d \in Call,
           NEW b \in BOOLEAN, Return(d, b),
           b \/ (call[d].pc = "sent" /\ ~(call[d].sent > 1))
    PROVE  Counted(c)'
  <1>1. c \in Call /\ KeyOf(c) \in Key /\ KeyOf(d) \in Key
    BY DEF Call, Key
  <1>2. CASE d = c
    <2>1. call'[c] = Idle
      BY <1>1, <1>2 DEF Return, TypeOK
    <2>2. retries'[KeyOf(c)] = 0
      <3>1. CASE b
        BY <1>1, <1>2, <3>1 DEF Return, TypeOK
      <3>2. CASE ~b
        BY <1>1, <1>2, <3>2 DEF Return, Counted, TypeOK
      <3> QED
        BY <3>1, <3>2
    <2> QED
      BY <2>1, <2>2 DEF Counted, Idle
  <1>3. CASE d # c
    <2>1. call'[c] = call[c]
      BY <1>1, <1>3 DEF Return, TypeOK
    <2>2. retries'[KeyOf(c)] = retries[KeyOf(c)]
      BY <1>1, <1>3, OwnKey DEF Return, TypeOK
    <2> QED
      BY <2>1, <2>2, CountedKept
  <1> QED
    BY <1>2, <1>3

LEMMA CountedCalls ==
    ASSUME TypeOK, NEW c \in Caller \ Alike, Counted(c), NEW d \in Call,
           CallStep(d) \/ Begin(d) \/ BeginDirectly(d)
    PROVE  Counted(c)'
  <1>a. c \in Call /\ KeyOf(c) \in Key /\ KeyOf(d) \in Key
    BY DEF Call, Key
  <1>1. CASE Begin(d) \/ BeginDirectly(d) \/ WaitTimesOut(d) \/ WaitEnds(d)
    <2>1. UNCHANGED retries
      BY <1>1 DEF Begin, BeginDirectly, WaitTimesOut, WaitEnds
    <2>2. CASE d = c
      BY <1>a, <1>1, <2>1, <2>2
      DEF Begin, BeginDirectly, WaitTimesOut, WaitEnds, Counted, Idle, TypeOK
    <2>3. CASE d # c
      <3>1. call'[c] = call[c]
        BY <1>a, <1>1, <2>3
           DEF Begin, BeginDirectly, WaitTimesOut, WaitEnds, TypeOK
      <3> QED
        BY <2>1, <3>1, CountedKept
    <2> QED
      BY <2>2, <2>3
  <1>2. CASE CallAnswered(d) \/ CallRefused(d)
    <2>1. call[d].pc = "sent" /\ Return(d, call[d].sent > 1)
      BY <1>2 DEF CallAnswered, CallRefused
    <2>2. (call[d].sent > 1) \in BOOLEAN
      OBVIOUS
    <2> QED
      BY <2>1, <2>2, CountedReturn
  <1>3. CASE CallFails(d)
    <2>1. CASE retries[KeyOf(d)] = MaxRetries
      <3>1. Return(d, TRUE)
        BY <1>3, <2>1 DEF CallFails
      <3> QED
        BY <3>1, CountedReturn
    <2>2. CASE retries[KeyOf(d)] # MaxRetries
      <3>1. /\ call[d].pc = "sent"
            /\ retries' = [retries EXCEPT ![KeyOf(d)] = @ + 1]
            /\ \/ call' = [call EXCEPT ![d].pc = "restart"]
               \/ call' = [call EXCEPT ![d].pc = "woken"]
        BY <1>3, <2>2 DEF CallFails
      <3>2. CASE d = c
        <4>1. /\ call'[c].pc \in {"restart", "woken"} /\ call'[c].sent = call[c].sent
              /\ retries'[KeyOf(c)] = retries[KeyOf(c)] + 1
          BY <1>a, <3>1, <3>2 DEF TypeOK, CallState
        <4> QED
          BY <3>1, <3>2, <4>1 DEF Counted
      <3>3. CASE d # c
        <4>1. call'[c] = call[c]
          BY <1>a, <3>1, <3>3 DEF TypeOK
        <4>2. retries'[KeyOf(c)] = retries[KeyOf(c)]
          BY <1>a, <3>1, <3>3, OwnKey DEF TypeOK
        <4> QED
          BY <4>1, <4>2, CountedKept
      <3> QED
        BY <3>2, <3>3
    <2> QED
      BY <2>1, <2>2
  <1>4. CASE RestartEnds(d)
    <2>1. CASE connected
      <3>1. /\ call[d].pc = "woken" /\ retries' = retries
            /\ call' = [call EXCEPT ![d] = [pc |-> "sent", sent |-> @.sent + 1]]
        BY <1>4, <2>1 DEF RestartEnds
      <3>2. CASE d = c
        BY <1>a, <3>1, <3>2 DEF Counted, TypeOK
      <3>3. CASE d # c
        <4>1. call'[c] = call[c]
          BY <1>a, <3>1, <3>3 DEF TypeOK
        <4> QED
          BY <3>1, <4>1, CountedKept
      <3> QED
        BY <3>2, <3>3
    <2>2. CASE ~connected
      <3>1. Return(d, TRUE)
        BY <1>4, <2>2 DEF RestartEnds
      <3> QED
        BY <3>1, CountedReturn
    <2> QED
      BY <2>1, <2>2
  <1> QED
    BY <1>1, <1>2, <1>3, <1>4 DEF CallStep

LEMMA CountedStep ==
    ASSUME TypeOK, RetriesCounted, Next
    PROVE  RetriesCounted'
  <1> SUFFICES ASSUME NEW c \in Caller \ Alike PROVE Counted(c)'
    BY DEF RetriesCounted
  <1>a. Counted(c)
    BY DEF RetriesCounted
  <1>b. c \in Call /\ c # Fetch /\ c # Bye /\ Fetch \in Call /\ Bye \in Call
    BY ConnectionAssumption DEF Call, Fetch, Bye
  <1>1. CASE InitStep
    <2>1. UNCHANGED retries /\ (call' = call \/ call' = Released)
      BY <1>1
         DEF InitStep, Connect, Accept, InitSucceeds, InitFails, InitReturns, calls
    <2> QED
      BY <1>a, <2>1, CountedKept
  <1>2. CASE SyncStep
    <2>1. UNCHANGED retries /\ (call'[c] = call[c] \/ call' = Released)
      BY <1>2, <1>b
      DEF SyncStep, SyncAsks, SyncAnswered, SyncFails, SyncRefused, SyncArrives,
          SyncShows, SyncFetches, SyncFinishes, SyncEnds, calls, TypeOK
    <2> QED
      BY <1>a, <2>1, CountedKept
  <1>3. CASE LoopStep \/ \E a \in Agent : AgentStep(a)
    <2>1. UNCHANGED retries /\ (call' = call \/ call' = Woken)
      BY <1>3
         DEF LoopStep, Retry, LoopTurns, AgentStep, BackFromInit, AgentEnds, calls
    <2> QED
      BY <1>a, <2>1, CountedKept
  <1>4. CASE \/ \E d \in Call : CallStep(d)
             \/ \E d \in Caller : Begin(d) \/ BeginDirectly(d)
    BY <1>a, <1>4, CountedCalls DEF Call
  <1>5. CASE LogOut
    <2>1. UNCHANGED retries /\ call'[c] = call[c]
      BY <1>5, <1>b DEF LogOut, TypeOK
    <2> QED
      BY <1>a, <2>1, CountedKept
  <1>6. CASE LoggedOut \/ RemoveAccount
    <2>1. UNCHANGED retries /\ call' = Released
      BY <1>6 DEF LoggedOut, RemoveAccount, Disconnected
    <2> QED
      BY <1>a, <2>1, CountedKept
  <1>7. CASE \/ Drop \/ Closed \/ Online \/ Expire \/ StartAuth \/ PickAccount
             \/ (\E s \in Sub : SignIn(s) \/ SwitchAccount(s))
             \/ LogOutOther \/ AccountRemoved \/ Hangup
    <2>1. UNCHANGED calls
      BY <1>7 DEF Drop, Closed, Online, Expire, StartAuth, PickAccount, SignIn,
                  SwitchAccount, LogOutOther, AccountRemoved, Hangup
    <2> QED
      BY <1>a, <2>1, CountedKept DEF calls
  <1> QED
    BY <1>1, <1>2, <1>3, <1>4, <1>5, <1>6, <1>7 DEF Next

(***************************************************************************)
(* The end of the loop                                                     *)
(***************************************************************************)

\* The loop ends in LoopTurns and nowhere else.
LEMMA LoopGoesOn ==
    ASSUME TypeOK, Next, Looping, ~Looping'
    PROVE  LoopTurns
  <1> USE Apart
  <1> SUFFICES ASSUME ~LoopTurns PROVE agent'[Loop].pc \notin {"off", "latched"}
    BY DEF Looping
  <1>a. agent[Loop].pc \notin {"off", "latched"}
    BY DEF Looping
  <1>1. CASE InitStep
    <2>1. agent' = agent \/ \E res \in Outcome : agent' = Answered(agent, res)
      BY <1>1
         DEF InitStep, Connect, Accept, InitSucceeds, InitFails, InitReturns, Outcome
    <2> QED
      BY <1>a, <2>1, SettledAgent
  <1>2. CASE SyncStep
    <2>1. ASSUME NEW s \in Sub, SyncShows(s) PROVE agent'[Loop] = agent[Loop]
      BY <2>1 DEF SyncShows, Subscribed, TypeOK
    <2>2. agent' = agent \/ agent' = Synchronized \/ \E s \in Sub : SyncShows(s)
      BY <1>2
         DEF SyncStep, SyncAsks, SyncAnswered, SyncFails, SyncRefused, SyncArrives,
                  SyncFetches, SyncFinishes, SyncEnds
    <2> QED
      BY <1>a, <2>1, <2>2, SettledAgent
  <1>3. CASE LoopStep
    BY <1>3 DEF LoopStep, Retry, AwaitInit, Off, TypeOK
  <1>4. ASSUME NEW a \in Agent, BackFromInit(a)
        PROVE  agent'[Loop].pc \notin {"off", "latched"}
    BY <1>a, <1>4, BackLeads
  <1>5. ASSUME NEW a \in Agent, AgentEnds(a) PROVE agent'[Loop] = agent[Loop]
    BY <1>5 DEF AgentEnds, TypeOK
  <1>6. CASE \E c \in Call : CallStep(c)
    <2>1. agent' = agent \/ Reconnect
      BY <1>6
         DEF CallStep, WaitTimesOut, WaitEnds, CallAnswered, CallRefused, CallFails,
                  RestartEnds, flows
    <2> QED
      BY <1>a, <2>1, ReconnectLoop
  <1>7. CASE Closed \/ Online
    BY <1>a, <1>7, ReconnectLoop DEF Closed, Online
  <1>8. ASSUME NEW s \in Sub, SignIn(s) \/ SwitchAccount(s)
        PROVE  agent'[Loop] = agent[Loop]
    BY <1>8 DEF SignIn, SwitchAccount, Subscribed, TypeOK
  <1>9. CASE PickAccount
    BY <1>a, <1>9 DEF PickAccount, TypeOK
  <1>10. CASE \/ \E c \in Caller : Begin(c) \/ BeginDirectly(c)
              \/ Drop \/ Expire \/ StartAuth \/ LogOut \/ LoggedOut \/ LogOutOther
              \/ RemoveAccount \/ AccountRemoved \/ Hangup
    BY <1>a, <1>10
       DEF Begin, BeginDirectly, Drop, Expire, StartAuth, LogOut, LoggedOut,
                       LogOutOther, RemoveAccount, AccountRemoved, Hangup, flows
  <1> QED
    BY <1>a, <1>1, <1>2, <1>3, <1>4, <1>5, <1>6, <1>7, <1>8, <1>9, <1>10
    DEF Next, AgentStep

(***************************************************************************)
(* The theorems                                                            *)
(***************************************************************************)

\* The inductive invariant holds throughout: each of its parts is kept by every
\* step given the types and the parts before it.
THEOREM SessionInvariant == Spec => []SessionInv
  <1>1. Init => SessionInv
    <2> SUFFICES ASSUME Init PROVE SessionInv
      OBVIOUS
    <2>1. TypeOK
      BY TypedInit
    <2>2. agent[Loop].pc = "off" /\ init.pc = "off" /\ call[Fetch].pc = "idle"
      BY Apart DEF Init, Off, NoInit, Idle
    <2>3. Waiters /\ Wires
      BY <2>2
         DEF Init, Waiters, ToldIsResolved, WaitsForWork, NoStrandedWaiter, Wires,
                  AnsweredLive, NoPhantom, WireFresh, SyncFresh, SuccessIsReal
    <2>4. RetriesCounted
      BY DEF Init, Idle, Call, Key, RetriesCounted, Counted
    <2> QED
      BY <2>1, <2>3, <2>4 DEF SessionInv, Waiters, Wires
  <1>2. SessionInv /\ [Next]_vars => SessionInv'
    <2> SUFFICES ASSUME SessionInv, [Next]_vars PROVE SessionInv'
      OBVIOUS
    <2>1. TypeOK /\ Waiters /\ Wires /\ RetriesCounted
      BY DEF SessionInv, Waiters, Wires
    <2>2. CASE Next
      <3>1. TypeOK' /\ Waiters' /\ Wires' /\ RetriesCounted'
        BY <2>1, <2>2, TypedStep, WaitersMoves, WiresMoves, CountedStep
      <3> QED
        BY <3>1 DEF SessionInv, Waiters, Wires
    <2>3. CASE UNCHANGED vars
      BY <2>1, <2>3, TypedStep
      DEF vars, session, who, flows, calls, wire, SessionInv, ToldIsResolved,
          WaitsForWork, NoStrandedWaiter, AnsweredLive, NoPhantom, WireFresh, SyncFresh,
          SuccessIsReal, RetriesCounted, Counted
    <2> QED
      BY <2>2, <2>3
  <1> QED
    BY <1>1, <1>2, PTL DEF Spec

\* Every state has the types that TypeOK says, whatever the callers, the faults and
\* the moves of the user: in particular restart() never counts a third retry.
THEOREM SessionTyped == Spec => []TypeOK
  BY TypedInit, TypedStep, PTL DEF Spec

\* While a user is signed in with an account, an unresolved this.synchronized has a
\* loop, an init, a sync or a switch of accounts that will resolve it.
THEOREM NobodyStranded == Spec => []NoStrandedWaiter
  BY SessionInvariant, PTL DEF SessionInv

\* The session is marked connected over a live connection, or the news of its end
\* is on the way, or a break was overtaken by the success of init.
THEOREM ConnectedIsReal == Spec => []NoPhantom
  BY SessionInvariant, PTL DEF SessionInv

\* A session that counts as synchronized was synchronized on the connection it has,
\* with the same exceptions.
THEOREM SyncedOnThisLink == Spec => []SyncedIsReal
  <1>1. SessionInv => SyncedIsReal
    BY DEF SessionInv, SyncFresh, SyncedIsReal
  <1> QED
    BY <1>1, SessionInvariant, PTL

\* No call that has its key for itself is sent a fourth time.
THEOREM AtMostThreeSends == Spec => []RetryBudget
  <1>1. SessionInv => RetryBudget
    <2> SUFFICES ASSUME SessionInv, NEW c \in Caller \ Alike PROVE call[c].sent <= 3
      BY DEF RetryBudget
    <2>1. c \in Call /\ KeyOf(c) \in Key
      BY DEF Call, Key
    <2>2. retries[KeyOf(c)] \in 0 .. 2 /\ call[c] \in CallState
      BY <2>1 DEF SessionInv, TypeOK
    <2>3. Counted(c)
      BY DEF SessionInv, RetriesCounted
    <2> QED
      BY <2>2, <2>3 DEF Counted, CallState
  <1> QED
    BY <1>1, SessionInvariant, PTL

\* The reconnect loop ends with a connection, or because the user left, or after a
\* break that the success of init overtook.
THEOREM LoopPersists == Spec => LoopKeepsOn
  <1>1. SessionInv /\ [Next]_vars
          => [Looping /\ ~Looping' /\ user /\ ~missed => connected']_vars
    <2> SUFFICES ASSUME SessionInv, Next, Looping, ~Looping', user, ~missed
                 PROVE  connected'
      OBVIOUS
    <2>a. TypeOK /\ Loop \in Agent
      BY Apart DEF SessionInv
    <2>1. LoopTurns
      BY <2>a, LoopGoesOn
    <2>2. agent[Loop].res = "yes" \/ connected
      <3>1. CASE agent[Loop].res # "yes" /\ ~connected /\ user
        <4>1. agent'[Loop].pc = "delay"
          BY <2>1, <2>a, <3>1 DEF LoopTurns, Off, TypeOK
        <4> QED
          BY <4>1 DEF Looping
      <3> QED
        BY <3>1
    <2>3. connected
      BY <2>1, <2>2 DEF LoopTurns, SessionInv, SuccessIsReal
    <2> QED
      BY <2>1, <2>3 DEF LoopTurns, session
  <1> QED
    BY <1>1, SessionInvariant, PTL DEF Spec, LoopKeepsOn

-----------------------------------------------------------------------------
(***************************************************************************)
(* ChatList                                                                *)
(***************************************************************************)

-----------------------------------------------------------------------------
(* Sets of numbers *)

\* What orders the times of messages: a set of them has a first one, and a last
\* one if it is bounded.
LEMMA FirstOf ==
    ASSUME NEW S, S \subseteq Nat, S # {}
    PROVE  \E x \in S : \A y \in S : x <= y
<1> DEFINE Less == {ss \in Nat \X Nat : ss[1] < ss[2]}
<1>1. OpToRel(<, Nat) = Less
  BY Zenon DEF OpToRel
<1>2. IsWellFoundedOn(Less, Nat)
  BY <1>1, NatLessThanWellFounded
<1>3. PICK x \in S : \A y \in S : ~ (<<y, x>> \in Less)
  <2> HIDE DEF Less
  <2> QED
    BY <1>2, WFMin
<1>4. ASSUME NEW y \in S PROVE x <= y
  <2>1. x \in Nat /\ y \in Nat /\ ~ (<<y, x>> \in Less)
    BY <1>3
  <2>2. y < x => <<y, x>> \in Less
    BY <2>1
  <2> QED
    BY <2>1, <2>2
<1> QED
  BY <1>4

LEMMA LastOf ==
    ASSUME NEW S, NEW n \in Nat, S \subseteq 0..n, S # {}
    PROVE  \E x \in S : \A y \in S : y <= x
<1> DEFINE T == {n - x : x \in S}
<1>1. T \subseteq Nat /\ T # {}
  <2>1. \A x \in S : n - x \in Nat
    OBVIOUS
  <2>2. PICK x : x \in S
    OBVIOUS
  <2>3. n - x \in T
    BY <2>2
  <2> QED
    BY <2>1, <2>3
<1>2. PICK t \in T : \A u \in T : t <= u
  BY <1>1, FirstOf
<1>3. PICK x \in S : t = n - x
  OBVIOUS
<1>4. ASSUME NEW y \in S PROVE y <= x
  <2>1. n - y \in T
    OBVIOUS
  <2>2. n - x <= n - y
    BY <1>2, <1>3, <2>1
  <2>3. x \in Nat /\ y \in Nat
    OBVIOUS
  <2>4. \A i, j \in Nat : n - i <= n - j => j <= i
    OBVIOUS
  <2> QED
    BY <2>2, <2>3, <2>4
<1> QED
  BY <1>4

LEMMA MinMax ==
    ASSUME NEW S, NEW n \in Nat, S \subseteq 0..n, S # {}
    PROVE  /\ Min(S) \in S /\ \A y \in S : Min(S) <= y
           /\ Max(S) \in S /\ \A y \in S : y <= Max(S)
<1>1. \E x \in S : \A y \in S : x <= y
  <2>1. S \subseteq Nat
    OBVIOUS
  <2> QED
    BY <2>1, FirstOf
<1>2. \E x \in S : \A y \in S : x >= y
  <2>1. PICK x \in S : \A y \in S : y <= x
    BY LastOf
  <2> QED
    BY <2>1
<1>3. Min(S) \in S /\ \A y \in S : Min(S) <= y
  BY <1>1 DEF Min
<1>4. Max(S) \in S /\ \A y \in S : Max(S) >= y
  BY <1>2 DEF Max
<1> QED
  BY <1>3, <1>4

\* What fetch_history gives is a stretch without gaps, up to the time that was
\* asked for, and all there is if it is shorter than what was asked for.
LEMMA BeforeStretch ==
    ASSUME NEW n \in Nat, NEW S \in SUBSET (1..n), NEW from \in Nat, NEW count \in Nat
    PROVE  /\ Before(S, from, count) \subseteq S
           /\ \A m \in Before(S, from, count) : m < from
           /\ \A p \in Before(S, from, count), m \in S :
                p <= m /\ m < from => m \in Before(S, from, count)
           /\ Cardinality(Before(S, from, count)) < count =>
                \A m \in S : m < from => m \in Before(S, from, count)
<1> DEFINE K(m) == {k \in S : m < k /\ k < from}
           B == Before(S, from, count)
<1>1. B = {m \in S : m < from /\ Cardinality(K(m)) < count}
  BY DEF Before
<1>0. S \subseteq Nat
  OBVIOUS
<1>2. \A T \in SUBSET S : IsFiniteSet(T) /\ Cardinality(T) \in Nat
  <2>1. IsFiniteSet(1..n)
    BY FS_Interval
  <2>2. \A T \in SUBSET S : IsFiniteSet(T)
    BY <2>1, FS_Subset
  <2> QED
    BY <2>2, FS_CardinalityType
<1>3. ASSUME NEW p \in B, NEW m \in S, p <= m, m < from PROVE m \in B
  <2>0. p \in S /\ p \in Nat /\ m \in Nat
    BY <1>0, <1>1, <1>3
  <2>1. ASSUME NEW k \in K(m) PROVE k \in K(p)
    <3>1. k \in S /\ k \in Nat /\ m < k /\ k < from
      BY <1>0
    <3>2. p < k
      BY <1>3, <2>0, <3>1
    <3> QED
      BY <3>1, <3>2
  <2>4. K(m) \subseteq K(p) /\ K(p) \subseteq S
    BY <2>1
  <2>2. Cardinality(K(m)) <= Cardinality(K(p))
    BY <1>2, <2>4, FS_Subset
  <2> HIDE DEF K
  <2>3. Cardinality(K(p)) < count /\ Cardinality(K(p)) \in Nat /\ Cardinality(K(m)) \in Nat
    BY <1>1, <1>2 DEF K
  <2> QED
    BY <1>1, <1>3, <2>2, <2>3
<1>4. ASSUME Cardinality(B) < count PROVE \A m \in S : m < from => m \in B
  <2> DEFINE Bad == {m \in S : m < from /\ m \notin B}
  <2> SUFFICES ASSUME Bad # {} PROVE FALSE
    OBVIOUS
  <2>1. Bad \subseteq 0..n
    <3>1. \A m \in 1..n : m \in 0..n
      OBVIOUS
    <3> QED
      BY <3>1
  <2>2. PICK m \in Bad : \A y \in Bad : y <= m
    BY <2>1, LastOf
  <2>3. K(m) \subseteq B
    BY <2>1, <2>2
  <2>4. Cardinality(K(m)) <= Cardinality(B)
    BY <1>1, <1>2, <2>3, FS_Subset
  <2> HIDE DEF K
  <2>5. ~ (Cardinality(K(m)) < count)
    BY <1>1
  <2>6. Cardinality(K(m)) \in Nat /\ Cardinality(B) \in Nat
    BY <1>1, <1>2 DEF K
  <2> QED
    BY <1>4, <2>4, <2>5, <2>6
<1> QED
  BY <1>1, <1>3, <1>4

LEMMA AfterStretch ==
    ASSUME NEW n \in Nat, NEW S \in SUBSET (1..n), NEW from \in Nat, NEW count \in Nat
    PROVE  /\ After(S, from, count) \subseteq S
           /\ \A m \in After(S, from, count) : from <= m
           /\ \A p \in After(S, from, count), m \in S :
                from <= m /\ m <= p => m \in After(S, from, count)
           /\ Cardinality(After(S, from, count)) < count =>
                \A m \in S : from <= m => m \in After(S, from, count)
           /\ count = 0 => After(S, from, count) = {}
<1> DEFINE K(m) == {k \in S : from <= k /\ k < m}
           A == After(S, from, count)
<1>1. A = {m \in S : m >= from /\ Cardinality(K(m)) < count}
  BY DEF After
<1>0. S \subseteq Nat
  OBVIOUS
<1>2. \A T \in SUBSET S : IsFiniteSet(T) /\ Cardinality(T) \in Nat
  <2>1. IsFiniteSet(1..n)
    BY FS_Interval
  <2>2. \A T \in SUBSET S : IsFiniteSet(T)
    BY <2>1, FS_Subset
  <2> QED
    BY <2>2, FS_CardinalityType
<1>3. ASSUME NEW p \in A, NEW m \in S, from <= m, m <= p PROVE m \in A
  <2>0. p \in S /\ p \in Nat /\ m \in Nat
    BY <1>0, <1>1, <1>3
  <2>1. ASSUME NEW k \in K(m) PROVE k \in K(p)
    <3>1. k \in S /\ k \in Nat /\ from <= k /\ k < m
      BY <1>0
    <3>2. k < p
      BY <1>3, <2>0, <3>1
    <3> QED
      BY <3>1, <3>2
  <2>4. K(m) \subseteq K(p) /\ K(p) \subseteq S
    BY <2>1
  <2>2. Cardinality(K(m)) <= Cardinality(K(p))
    BY <1>2, <2>4, FS_Subset
  <2> HIDE DEF K
  <2>3. Cardinality(K(p)) < count /\ Cardinality(K(p)) \in Nat /\ Cardinality(K(m)) \in Nat
    BY <1>1, <1>2 DEF K
  <2> QED
    BY <1>1, <1>3, <2>2, <2>3
<1>4. ASSUME Cardinality(A) < count PROVE \A m \in S : from <= m => m \in A
  <2> DEFINE Bad == {m \in S : from <= m /\ m \notin A}
  <2> SUFFICES ASSUME Bad # {} PROVE FALSE
    OBVIOUS
  <2>1. Bad \subseteq Nat
    BY <1>0
  <2>2. PICK m \in Bad : \A y \in Bad : m <= y
    BY <2>1, FirstOf
  <2>3. K(m) \subseteq A
    BY <2>1, <2>2
  <2>4. Cardinality(K(m)) <= Cardinality(A)
    BY <1>1, <1>2, <2>3, FS_Subset
  <2> HIDE DEF K
  <2>5. ~ (Cardinality(K(m)) < count)
    BY <1>1
  <2>6. Cardinality(K(m)) \in Nat /\ Cardinality(A) \in Nat
    BY <1>1, <1>2 DEF K
  <2> QED
    BY <1>4, <2>4, <2>5, <2>6
<1>5. count = 0 => A = {}
  <2>1. ASSUME NEW m \in S, count = 0 PROVE ~ (Cardinality(K(m)) < count)
    <3>1. K(m) \in SUBSET S
      OBVIOUS
    <3>2. Cardinality(K(m)) \in Nat
      BY <1>2, <3>1
    <3> HIDE DEF K
    <3> QED
      BY <2>1, <3>2
  <2> HIDE DEF K
  <2> QED
    BY <1>1, <2>1
<1> QED
  BY <1>1, <1>3, <1>4, <1>5

-----------------------------------------------------------------------------
(* Types *)

Cell == Contents \union {None}
Asking == [at : {"cache", "ask"}, initial : BOOLEAN, from : Nat,
           forward : {0, Batch}]
ReadOlder == [at : {"read"}, initial : BOOLEAN, from : Nat, forward : {0, Batch},
              page : FilePage]
AnsweredOlder == [at : {"answer"}, initial : BOOLEAN, forward : {0, Batch},
             page : Answer]
AskingNewer == [at : {"ask"}, from : Nat]
AnsweredNewer == [at : {"answer"}, page : Answer]
OlderCall == Asking \union ReadOlder \union AnsweredOlder \union {None}
NewerCall == AskingNewer \union AnsweredNewer \union {None}
Exceptions == {"apart", "jump", "own", "overtaken", "blind",
               "failed", "late", "repeated", "stale"}
Keys == MessageKey \union {None}

ListParts ==
    /\ newest \in 0..MaxMessages
    /\ version \in [Message -> 0..MaxEdits]
    /\ gone \subseteq 1..newest
    /\ pushes \in Seq(Push) /\ Len(pushes) <= MaxQueue
    /\ stored \in [Message -> Cell]
    /\ list \in [Message -> Cell]
    /\ lastKey \in Keys
    /\ older \in OlderCall
    /\ newer \in NewerCall
    /\ mounted \in BOOLEAN /\ initialized \in BOOLEAN
    /\ allOlder \in BOOLEAN /\ allNewer \in BOOLEAN
    /\ sending \subseteq 1..newest
    /\ unsent \subseteq 1..(newest + 1)
    /\ fresh \subseteq 1..newest
    /\ upset \subseteq Exceptions

LEMMA ListInParts == ListTypeOK <=> ListParts
  BY DEF ListTypeOK, ListParts, Loading, Cell, Asking, ReadOlder, AnsweredOlder, AskingNewer,
         AnsweredNewer, OlderCall, NewerCall, Exceptions, Keys

\* What is known of a message.
LEMMA Cells ==
    /\ None \notin Contents /\ None \notin 0..MaxEdits
    /\ \A c \in Cell : c # None =>
        /\ c.version \in 0..MaxEdits /\ c.deleted \in BOOLEAN
        /\ [c EXCEPT !.deleted = TRUE] \in Contents
        /\ [c EXCEPT !.deleted = TRUE].version = c.version
        /\ [c EXCEPT !.deleted = TRUE].deleted = TRUE
    /\ \A v \in 0..MaxEdits, d \in BOOLEAN :
        [version |-> v, deleted |-> d] \in Contents
<1>2. None \notin Contents /\ None \notin 0..MaxEdits
  BY ListAssumptions
<1> QED
  BY <1>2 DEF Cell, Contents

\* l with the cell c of m
Put(l, new, m, c) ==
    /\ new \in [Message -> Cell]
    /\ new[m] = c
    /\ \A k \in Message : k # m => new[k] = l[k]

LEMMA Putting ==
    ASSUME NEW l \in [Message -> Cell], NEW m \in Message, NEW c \in Cell
    PROVE  Put(l, [l EXCEPT ![m] = c], m, c)
  BY DEF Put

\* What the operators do to what is known of a message.
Becomes(c, v, d) == c # None /\ c \in Cell /\ c.version = v /\ (c.deleted <=> d)

LEMMA Knowing ==
    ASSUME NEW l \in [Message -> Cell], NEW m \in Message, NEW v \in 0..MaxEdits
    PROVE  /\ With(l, m, v) \in [Message -> Cell]
           /\ Becomes(With(l, m, v)[m], v, l[m] # None /\ l[m].deleted)
           /\ \A k \in Message : k # m => With(l, m, v)[k] = l[k]
<1> DEFINE c == [version |-> v, deleted |-> l[m] # None /\ l[m].deleted]
<1>1. (l[m] # None /\ l[m].deleted) \in BOOLEAN
  BY Cells
<1>2. c \in Contents /\ c.version = v /\ (c.deleted <=> l[m] # None /\ l[m].deleted)
  BY <1>1, Cells
<1>3. c \in Cell /\ c # None
  BY <1>2, Cells DEF Cell
<1>4. With(l, m, v) = [l EXCEPT ![m] = c]
  BY DEF With
<1> HIDE DEF c
<1>5. Put(l, With(l, m, v), m, c)
  BY <1>3, <1>4, Putting
<1> QED
  BY <1>2, <1>3, <1>5 DEF Put, Becomes

LEMMA Merging ==
    ASSUME NEW l \in [Message -> Cell], NEW page \in Answer
    PROVE  /\ Merged(l, page) \in [Message -> Cell]
           /\ \A m \in Message :
                IF page[m] = None THEN Merged(l, page)[m] = l[m]
                ELSE Becomes(Merged(l, page)[m], page[m], l[m] # None /\ l[m].deleted)
<1> DEFINE c(m) == [version |-> page[m], deleted |-> l[m] # None /\ l[m].deleted]
<1>1. ASSUME NEW m \in Message, page[m] # None
      PROVE  Becomes(c(m), page[m], l[m] # None /\ l[m].deleted)
  <2>1. (l[m] # None /\ l[m].deleted) \in BOOLEAN /\ page[m] \in 0..MaxEdits
    BY <1>1, Cells DEF Answer
  <2>2. c(m) \in Contents /\ c(m).version = page[m]
        /\ (c(m).deleted <=> l[m] # None /\ l[m].deleted)
    BY <2>1, Cells
  <2> QED
    BY <2>2, Cells DEF Cell, Becomes
<1>2. Merged(l, page) = [m \in Message |-> IF page[m] = None THEN l[m] ELSE c(m)]
  BY DEF Merged
<1> HIDE DEF c
<1>3. \A m \in Message : Merged(l, page)[m] = IF page[m] = None THEN l[m] ELSE c(m)
  BY <1>2
<1>4. \A m \in Message : (IF page[m] = None THEN l[m] ELSE c(m)) \in Cell
  BY <1>1 DEF Becomes
<1> QED
  BY <1>1, <1>2, <1>3, <1>4

LEMMA MergingFrom ==
    ASSUME NEW l \in [Message -> Cell], NEW page \in FilePage
    PROVE  /\ MergedFrom(l, page) \in [Message -> Cell]
           /\ \A m \in Message :
                IF m \notin DOMAIN page THEN MergedFrom(l, page)[m] = l[m]
                ELSE Becomes(MergedFrom(l, page)[m], page[m].version,
                             page[m].deleted \/ (l[m] # None /\ l[m].deleted))
<1> DEFINE d(m) == page[m].deleted \/ (l[m] # None /\ l[m].deleted)
           c(m) == [version |-> page[m].version, deleted |-> d(m)]
<1>0. \A m \in DOMAIN page : m \in Message /\ page[m] \in Contents
  BY DEF FilePage
<1>1. ASSUME NEW m \in DOMAIN page PROVE Becomes(c(m), page[m].version, d(m))
  <2>1. page[m] \in Cell /\ l[m] \in Cell /\ page[m] # None
    BY <1>0, Cells DEF Cell
  <2>2. d(m) \in BOOLEAN /\ page[m].version \in 0..MaxEdits
    BY <2>1, Cells
  <2> HIDE DEF d
  <2>3. c(m) \in Contents /\ c(m).version = page[m].version /\ (c(m).deleted <=> d(m))
    BY <2>2, Cells
  <2> QED
    BY <2>3, Cells DEF Cell, Becomes
<1>2. MergedFrom(l, page) = [m \in Message |-> IF m \notin DOMAIN page THEN l[m] ELSE c(m)]
  BY DEF MergedFrom
<1> HIDE DEF c
<1>3. \A m \in Message :
         MergedFrom(l, page)[m] = IF m \notin DOMAIN page THEN l[m] ELSE c(m)
  BY <1>2
<1>4. \A m \in Message : (IF m \notin DOMAIN page THEN l[m] ELSE c(m)) \in Cell
  BY <1>1 DEF Becomes
<1> QED
  BY <1>1, <1>2, <1>3, <1>4

\* m is marked as deleted.
LEMMA Marking ==
    ASSUME NEW l \in [Message -> Cell], NEW m \in Message, l[m] # None
    PROVE  /\ [l EXCEPT ![m].deleted = TRUE] \in [Message -> Cell]
           /\ Becomes([l EXCEPT ![m].deleted = TRUE][m], l[m].version, TRUE)
           /\ \A k \in Message : k # m => [l EXCEPT ![m].deleted = TRUE][k] = l[k]
<1> DEFINE c == [l[m] EXCEPT !.deleted = TRUE]
<1>1. c \in Contents /\ c.version = l[m].version /\ c.deleted = TRUE
  BY Cells
<1>2. c \in Cell /\ c # None
  BY <1>1, Cells DEF Cell
<1>3. [l EXCEPT ![m].deleted = TRUE] = [l EXCEPT ![m] = c]
  OBVIOUS
<1> HIDE DEF c
<1>4. Put(l, [l EXCEPT ![m].deleted = TRUE], m, c)
  BY <1>2, <1>3, Putting
<1> QED
  BY <1>1, <1>2, <1>4 DEF Put, Becomes

\* What the server answers.
LEMMA Serving ==
    ASSUME version \in [Message -> 0..MaxEdits], NEW S \in SUBSET Message
    PROVE  /\ Served(S) \in Answer
           /\ In(Served(S)) = S
           /\ \A m \in S : Served(S)[m] = version[m]
<1>1. \A m \in Message : Served(S)[m] = IF m \in S THEN version[m] ELSE None
  BY DEF Served
<1>2. \A m \in S : version[m] \in 0..MaxEdits /\ version[m] # None
  BY Cells
<1> QED
  BY <1>1, <1>2 DEF Served, Answer, In

LEMMA OlderCalls ==
    \A c \in OlderCall \ {None} :
        /\ c.at = "answer" => c \in AnsweredOlder
        /\ c.at \in {"cache", "ask"} => c \in Asking
        /\ c.at = "read" => c \in ReadOlder
        /\ c.at \in {"cache", "read", "ask", "answer"}
  BY DEF OlderCall, Asking, ReadOlder, AnsweredOlder

LEMMA Calls == None \notin Asking \union ReadOlder \union AnsweredOlder
<1>1. Asking \union ReadOlder \union AnsweredOlder \subseteq Loading
  BY DEF Asking, ReadOlder, AnsweredOlder, Loading
<1> QED
  BY <1>1, ListAssumptions

LEMMA NewerCalls ==
    \A c \in NewerCall \ {None} :
        /\ c.at = "answer" => c \in AnsweredNewer
        /\ c.at = "ask" => c \in AskingNewer
        /\ c.at \in {"ask", "answer"}
  BY DEF NewerCall, AskingNewer, AnsweredNewer

LEMMA Sizes ==
    ASSUME ListParts
    PROVE  /\ MaxMessages \in Nat /\ MaxEdits \in Nat /\ Batch \in Nat /\ Batch # 0
           /\ newest \in Nat /\ 1..newest \subseteq Message
           /\ Existing \subseteq 1..newest /\ Existing \subseteq Message
           /\ Now \in Nat
<1>1. MaxMessages \in Nat /\ MaxEdits \in Nat /\ Batch \in Nat /\ Batch # 0
  BY ListAssumptions
<1>2. newest \in Nat /\ newest <= MaxMessages
  BY <1>1 DEF ListParts
<1>3. 1..newest \subseteq Message
  BY <1>1, <1>2 DEF Message
<1> QED
  BY <1>1, <1>2, <1>3 DEF Existing, Now

\* The pages that the server gives.
LEMMA Pages ==
    ASSUME ListParts, NEW from \in Nat, NEW n \in {0, Batch}
    PROVE  /\ Before(Existing, from, Batch) \in SUBSET Existing
           /\ After(Existing, from, n) \in SUBSET Existing
  BY Sizes DEF Before, After

-----------------------------------------------------------------------------
(* The queue of the server *)

LEMMA Queueing ==
    ASSUME ListParts, NEW kind \in {"new", "own", "edit", "delete"},
           NEW m \in Message, NEW v \in 0..MaxEdits, Pushed(kind, m, v)
    PROVE  /\ pushes' \in Seq(Push) /\ Len(pushes') <= MaxQueue
           /\ Len(pushes) \in Nat /\ Len(pushes') = Len(pushes) + 1
           /\ \A i \in 1..Len(pushes) : pushes'[i] = pushes[i]
           /\ pushes'[Len(pushes')] \in Push
           /\ pushes'[Len(pushes')].kind = kind
           /\ pushes'[Len(pushes')].id = m
           /\ pushes'[Len(pushes')].version = v
<1> DEFINE p == [kind |-> kind, id |-> m, version |-> v]
<1>1. p \in Push /\ p.kind = kind /\ p.id = m /\ p.version = v
  BY DEF Push
<1>2. pushes' = Append(pushes, p) /\ pushes \in Seq(Push) /\ Len(pushes) < MaxQueue
  BY DEF Pushed, ListParts
<1>3. Len(pushes) \in Nat /\ MaxQueue \in Nat
  BY <1>2, ListAssumptions
<1> HIDE DEF p
<1>4. /\ pushes' \in Seq(Push) /\ Len(pushes') = Len(pushes) + 1
      /\ \A i \in 1..Len(pushes) : pushes'[i] = pushes[i]
      /\ pushes'[Len(pushes) + 1] = p
  BY <1>1, <1>2, <1>3
<1> QED
  BY <1>1, <1>2, <1>3, <1>4

LEMMA Popping ==
    ASSUME ListParts, Handle
    PROVE  /\ pushes' \in Seq(Push) /\ Len(pushes') <= MaxQueue
           /\ Len(pushes) \in Nat /\ Len(pushes') = Len(pushes) - 1
           /\ 1 \in 1..Len(pushes)
           /\ Head(pushes) = pushes[1] /\ Head(pushes) \in Push
           /\ \A i \in 1..Len(pushes') : pushes'[i] = pushes[i + 1]
<1>1. pushes' = Tail(pushes) /\ pushes # <<>> /\ pushes \in Seq(Push) /\ Len(pushes) <= MaxQueue
  BY DEF Handle, ListParts
<1>2. MaxQueue \in Nat
  BY ListAssumptions
<1> QED
  BY <1>1, <1>2

-----------------------------------------------------------------------------
(* What the actions do to what is known of each message *)

OlderIs(at) == older # None /\ older.at = at
NewerIs(at) == newer # None /\ newer.at = at

\* What the answer to loadHistory changes in the files.
MergedFile(m) ==
    [version |-> older.page[m],
     deleted |-> list'[m].deleted \/ (stored[m] # None /\ stored[m].deleted)]

LEMMA Filing ==
    ASSUME ListParts, MergeOlder
    PROVE  /\ older \in AnsweredOlder /\ older.page \in Answer
           /\ list' \in [Message -> Cell] /\ stored' \in [Message -> Cell]
           /\ \A m \in Message :
                \/ stored'[m] = stored[m]
                \/ /\ older.page[m] # None /\ list'[m] # None
                   /\ Becomes(stored'[m], older.page[m], list'[m].deleted \/
                                (stored[m] # None /\ stored[m].deleted))
<1>1. older \in AnsweredOlder /\ older.page \in Answer
  BY OlderCalls DEF MergeOlder, ListParts, AnsweredOlder
<1>2. list' \in [Message -> Cell] /\ list' = Merged(list, older.page)
  BY <1>1, Merging DEF MergeOlder, ListParts
<1>3. \A m \in Message : older.page[m] # None => list'[m] # None
  BY SMTT(30), <1>1, <1>2, Merging DEF Becomes, ListParts
<1>4. ASSUME NEW m \in Message, older.page[m] # None
      PROVE  Becomes(MergedFile(m), older.page[m], list'[m].deleted \/
                                (stored[m] # None /\ stored[m].deleted))
  <2>1. older.page[m] \in 0..MaxEdits
    BY <1>1, <1>4 DEF Answer
  <2>2. list'[m] \in Cell /\ list'[m] # None /\ stored[m] \in Cell
    BY <1>2, <1>3, <1>4 DEF ListParts
  <2>3. (list'[m].deleted \/ (stored[m] # None /\ stored[m].deleted)) \in BOOLEAN
    BY <2>2, Cells
  <2>4. MergedFile(m) \in Contents /\ MergedFile(m).version = older.page[m]
        /\ (MergedFile(m).deleted <=>
            list'[m].deleted \/ (stored[m] # None /\ stored[m].deleted))
    BY <2>1, <2>3, Cells DEF MergedFile
  <2> QED
    BY <2>4, Cells DEF Becomes, Cell
<1>5. stored' = [m \in Message |->
            IF older.page[m] = None \/ list'[m] = list[m] THEN stored[m]
            ELSE MergedFile(m)]
  BY DEF MergeOlder, MergedFile
<1>6. \A m \in Message : stored'[m] =
            IF older.page[m] = None \/ list'[m] = list[m] THEN stored[m]
            ELSE MergedFile(m)
  BY <1>5
<1>7. stored' \in [Message -> Cell]
  <2>1. \A m \in Message : stored'[m] \in Cell
    BY <1>4, <1>6 DEF Becomes, ListParts
  <2> QED
    BY <1>5, <2>1
<1> QED
  BY <1>1, <1>2, <1>3, <1>4, <1>6, <1>7


\* What a page of the server, or the files, make of the contents of m.
Merges(m, page) ==
    IF page[m] = None THEN list'[m] = list[m]
    ELSE Becomes(list'[m], page[m], list[m] # None /\ list[m].deleted)
FromFile(m) ==
    Becomes(list'[m], older.page[m].version,
            older.page[m].deleted \/ (list[m] # None /\ list[m].deleted))

FilesBefore(from) == Before({m \in Message : stored[m] # None}, from, Batch)

\* Some messages before a time were read, as they are in the files or older.
LEMMA ReadStep ==
    ASSUME ListParts, ReadFiles
    PROVE  /\ older \in Asking /\ OlderIs("cache")
           /\ older' \in ReadOlder /\ OlderIs("read")'
           /\ older'.initial = older.initial /\ older'.from = older.from
           /\ older'.forward = older.forward
           /\ DOMAIN older'.page = FilesBefore(older.from)
           /\ \A m \in DOMAIN older'.page :
                /\ m \in Message /\ stored[m] # None /\ m < older.from
                /\ older'.page[m] \in Contents
                /\ older'.page[m].version <= stored[m].version
                /\ older'.page[m].deleted => stored[m].deleted
<1>1. older \in Asking
  BY OlderCalls DEF ReadFiles, ListParts
<1>2. FilesBefore(older.from) \in SUBSET Message
      /\ \A m \in FilesBefore(older.from) : stored[m] # None /\ m < older.from
  BY DEF Before, FilesBefore
<1>3. PICK page \in [FilesBefore(older.from) -> Contents] :
        /\ \A m \in DOMAIN page :
            /\ page[m].version <= stored[m].version
            /\ page[m].deleted => stored[m].deleted
        /\ older' = [at |-> "read", initial |-> older.initial, from |-> older.from,
                     forward |-> older.forward, page |-> page]
  BY DEF ReadFiles, FilesBefore
<1>4. page \in FilePage
  BY <1>2 DEF FilePage
<1>5. older' \in ReadOlder
  BY <1>1, <1>3, <1>4 DEF Asking, ReadOlder
<1>6. older' # None
  BY <1>5, Calls DEF OlderCall
<1> QED
  BY <1>1, <1>2, <1>3, <1>5, <1>6 DEF ReadFiles, OlderIs

LEMMA Drafts ==
    ASSUME ListParts, NEW l \in [Message -> Cell], NEW from \in Nat
    PROVE  /\ {m \in Message : l[m] # None} \union sending \union unsent
                \subseteq 0..(MaxMessages + 1)
           /\ MaxMessages + 1 \in Nat
           /\ OldestShown(l, from) \in Nat
<1> DEFINE T == {m \in Message : l[m] # None} \union sending \union unsent
<1>1. MaxMessages + 1 \in Nat /\ newest \in 0..MaxMessages
  BY Sizes DEF ListParts
<1>2. Message \subseteq 0..(MaxMessages + 1) /\ 1..(newest + 1) \subseteq 0..(MaxMessages + 1)
      /\ 1..newest \subseteq 0..(MaxMessages + 1)
  BY <1>1, Sizes DEF Message
<1>3. T \subseteq 0..(MaxMessages + 1)
  BY <1>2 DEF ListParts
<1> HIDE DEF T
<1>4. T # {} => Min(T) \in T
  BY <1>1, <1>3, MinMax
<1>5. (IF T = {} THEN from ELSE Min(T)) \in Nat
  <2>1. T # {} => Min(T) \in 0..(MaxMessages + 1)
    BY <1>3, <1>4
  <2>2. T # {} => Min(T) \in Nat
    BY <1>1, <2>1
  <2> QED
    BY <2>2
<1> QED
  BY <1>1, <1>3, <1>5 DEF T, OldestShown

LEMMA CachedStep ==
    ASSUME ListParts, Cached
    PROVE  /\ older \in ReadOlder /\ OlderIs("read")
           /\ older' \in Asking /\ OlderIs("ask")'
           /\ older'.forward = older.forward
           /\ older'.initial = (older.initial \/ ~initialized)
           /\ older'.from = IF older.initial \/ ~initialized THEN older.from
                            ELSE OldestShown(list', older.from)
           /\ DOMAIN older.page \subseteq Message
           /\ \A m \in DOMAIN older.page : older.page[m] \in Contents
           /\ list' \in [Message -> Cell]
           /\ \A m \in Message :
                IF m \in DOMAIN older.page THEN FromFile(m) ELSE list'[m] = list[m]
<1>1. older \in ReadOlder
  BY OlderCalls DEF Cached, ListParts
<1>2. older.page \in FilePage /\ older.from \in Nat /\ older.initial \in BOOLEAN
      /\ older.forward \in {0, Batch}
  BY <1>1 DEF ReadOlder
<1>3. list' = MergedFrom(list, older.page)
  BY DEF Cached
<1>4. /\ list' \in [Message -> Cell]
      /\ \A m \in Message :
           IF m \in DOMAIN older.page THEN FromFile(m) ELSE list'[m] = list[m]
  BY <1>2, <1>3, MergingFrom DEF ListParts, FromFile
<1>5. OldestShown(list', older.from) \in Nat
  BY <1>2, <1>4, Drafts
<1>6. older' = [at |-> "ask", initial |-> older.initial \/ ~initialized,
                from |-> IF older.initial \/ ~initialized THEN older.from
                         ELSE OldestShown(list', older.from),
                forward |-> older.forward]
  BY DEF Cached
<1>7. (older.initial \/ ~initialized) \in BOOLEAN
  BY <1>2 DEF ListParts
<1>8. older' \in Asking
  BY <1>2, <1>5, <1>6, <1>7 DEF Asking
<1>9. older' # None
  BY <1>8, Calls DEF OlderCall
<1>10. DOMAIN older.page \subseteq Message
       /\ \A m \in DOMAIN older.page : older.page[m] \in Contents
  BY <1>2 DEF FilePage
<1> QED
  BY <1>1, <1>4, <1>6, <1>8, <1>9, <1>10 DEF Cached, OlderIs

LEMMA OlderStep ==
    ASSUME ListParts, MergeOlder
    PROVE  /\ older \in AnsweredOlder /\ older.page \in Answer
           /\ \A m \in Message : Merges(m, older.page)
  BY Filing, Merging DEF MergeOlder, ListParts, Merges

LEMMA NewerStep ==
    ASSUME ListParts, MergeNewer
    PROVE  /\ newer \in AnsweredNewer /\ newer.page \in Answer
           /\ list' \in [Message -> Cell]
           /\ \A m \in Message : Merges(m, newer.page)
<1>1. newer \in AnsweredNewer /\ newer.page \in Answer
  BY NewerCalls DEF MergeNewer, ListParts, AnsweredNewer
<1> QED
  BY <1>1, Merging DEF MergeNewer, ListParts, Merges

\* What is learnt of m from a push
Learns(l, m, v) ==
    /\ Becomes(l'[m], v, l[m] # None /\ l[m].deleted)
    /\ \A k \in Message : k # m => l'[k] = l[k]
Marks(l, m) ==
    /\ IF l[m] = None THEN l'[m] = None ELSE Becomes(l'[m], l[m].version, TRUE)
    /\ \A k \in Message : k # m => l'[k] = l[k]

\* A new message is pushed: it is known already, or added to a list that
\* reaches the end, or left out.
LEMMA NewStep ==
    ASSUME ListParts, Handle, Head(pushes).kind \in {"new", "own"}
    PROVE  LET m == Head(pushes).id  own == Head(pushes).kind = "own" IN
           /\ m \in Message
           /\ UNCHANGED stored
           /\ \/ /\ lastKey = <<m, "new">>
                 /\ UNCHANGED <<lastKey, allNewer, list, fresh, upset>>
              \/ /\ lastKey # <<m, "new">> /\ lastKey' = <<m, "new">>
                 /\ allNewer \/ own
                 /\ allNewer' = TRUE
                 /\ Learns(list, m, 0) /\ fresh' = fresh \union {m}
                 /\ upset \subseteq upset'
                 /\ own /\ ~allNewer => "own" \in upset'
              \/ /\ lastKey # <<m, "new">> /\ lastKey' = <<m, "new">>
                 /\ ~allNewer /\ ~own
                 /\ UNCHANGED <<allNewer, list, fresh>>
                 /\ upset \subseteq upset'
                 /\ NewerIs("answer") => "overtaken" \in upset'
<1> DEFINE m == Head(pushes).id
<1>1. m \in Message /\ 0 \in 0..MaxEdits
  BY Popping, Sizes DEF Push
<1>2. Received(m, Head(pushes).kind) /\ UNCHANGED stored
  BY DEF Handle
<1>3. ASSUME list' = With(list, m, 0) PROVE Learns(list, m, 0)
  <2> HIDE DEF m
  <2>1. /\ Becomes(With(list, m, 0)[m], 0, list[m] # None /\ list[m].deleted)
        /\ \A k \in Message : k # m => With(list, m, 0)[k] = list[k]
    BY <1>1, Knowing DEF ListParts
  <2> QED
    BY <1>3, <2>1 DEF Learns
<1>4. allNewer \in BOOLEAN
  BY DEF ListParts
<1> QED
  BY <1>1, <1>2, <1>3, <1>4 DEF Received, NewerIs

LEMMA EditStep ==
    ASSUME ListParts, Handle, Head(pushes).kind = "edit"
    PROVE  LET m == Head(pushes).id  v == Head(pushes).version IN
           /\ m \in Message /\ v \in 0..MaxEdits
           /\ Learns(stored, m, v)
           /\ \/ /\ lastKey = <<m, "edit">> /\ "repeated" \in upset'
                 /\ UNCHANGED list
              \/ /\ list[m] = None /\ UNCHANGED list
              \/ /\ list[m] # None /\ Learns(list, m, v)
           /\ lastKey' = <<m, "edit">>
           /\ UNCHANGED <<allNewer, fresh>>
           /\ upset' = upset \union Outdated(m, v) \union
                        (IF lastKey = <<m, "edit">> THEN {"repeated"} ELSE {})
<1> DEFINE m == Head(pushes).id
           v == Head(pushes).version
<1>1. m \in Message /\ v \in 0..MaxEdits
  BY Popping DEF Push
<1>2. Edited(m, v)
  BY DEF Handle
<1>3. stored' = With(stored, m, v) /\ (list' = With(list, m, v) => Learns(list, m, v))
  <2> HIDE DEF m, v
  <2>1. stored' = With(stored, m, v)
    BY <1>2 DEF Edited
  <2>2. ASSUME list' = With(list, m, v) PROVE Learns(list, m, v)
    <3>1. list \in [Message -> Cell]
      BY DEF ListParts
    <3> QED
      BY <1>1, <2>2, <3>1, Knowing DEF Learns
  <2> QED
    BY <2>1, <2>2
<1>4. Learns(stored, m, v)
  BY <1>1, <1>3, Knowing DEF Learns, ListParts
<1> QED
  BY <1>1, <1>2, <1>3, <1>4 DEF Edited

LEMMA DeleteStep ==
    ASSUME ListParts, Handle, Head(pushes).kind = "delete"
    PROVE  LET m == Head(pushes).id IN
           /\ m \in Message
           /\ Marks(stored, m) /\ Marks(list, m)
           /\ UNCHANGED <<lastKey, allNewer, fresh>>
           /\ upset' = upset \union
                (IF list[m] = None THEN Outdated(m, MaxEdits + 1) ELSE {})
<1> DEFINE m == Head(pushes).id
<1>1. m \in Message
  BY Popping DEF Push
<1>2. Deleted(m)
  BY DEF Handle
<1>3. Marks(stored, m) /\ Marks(list, m)
  BY <1>1, <1>2, Marking DEF Marks, ListParts, Deleted
<1> QED
  BY <1>1, <1>2, <1>3 DEF Deleted

LEMMA SentStep ==
    ASSUME ListParts, NEW m \in Message, Sent(m)
    PROVE  /\ Becomes(list'[m], 0, FALSE)
           /\ \A k \in Message : k # m => list'[k] = list[k]
           /\ Learns(stored, m, 0)
<1>1. 0 \in 0..MaxEdits
  BY Sizes
<1>2. [version |-> 0, deleted |-> FALSE] \in Contents
  BY <1>1, Cells
<1>3. Becomes([version |-> 0, deleted |-> FALSE], 0, FALSE)
  BY <1>2, Cells DEF Becomes, Cell
<1> QED
  BY SMTT(30), <1>1, <1>3, Putting, Knowing DEF Sent, ListParts, Put, Learns, Becomes

-----------------------------------------------------------------------------
(* Types are kept *)

LEMMA ReplayedKey ==
    ASSUME lastKey \in Replays
    PROVE  /\ lastKey \in Keys
           /\ \A m \in Message :
                /\ lastKey = <<m, "edit">> => version[m] > 0
                /\ lastKey \in {<<m, "new">>, <<m, "sent">>} => m = newest /\ version[m] = 0
<1>1. None \notin MessageKey
  BY ListAssumptions
<1>2. CASE lastKey = None
  BY <1>1, <1>2 DEF MessageKey, Keys
<1>3. ASSUME NEW k \in Message, version[k] > 0, lastKey = <<k, "edit">>
      PROVE  /\ lastKey \in Keys
             /\ \A m \in Message :
                  /\ lastKey = <<m, "edit">> => version[m] > 0
                  /\ lastKey \notin {<<m, "new">>, <<m, "sent">>}
  BY <1>3 DEF MessageKey, Keys
<1>4. ASSUME NEW k \in Message, k = newest, version[k] = 0, NEW kind \in {"new", "sent"},
             lastKey = <<k, kind>>
      PROVE  /\ lastKey \in Keys
             /\ \A m \in Message :
                  /\ lastKey # <<m, "edit">>
                  /\ lastKey \in {<<m, "new">>, <<m, "sent">>} => m = newest /\ version[m] = 0
  BY <1>4 DEF MessageKey, Keys
<1> QED
  BY <1>2, <1>3, <1>4 DEF Replays

LEMMA ListTypesInit == ListInit => ListTypeOK
<1> SUFFICES ASSUME ListInit PROVE ListParts
  BY ListInParts
<1>1. newest \in 0..MaxMessages /\ version \in [Message -> 0..MaxEdits]
  BY DEF ListInit
<1>2. MaxMessages \in Nat /\ newest \in Nat /\ Batch \in Nat /\ MaxQueue \in Nat
      /\ MaxEdits \in Nat /\ 0 \in 0..MaxEdits
  BY <1>1, ListAssumptions
<1>3. stored \in [Message -> Cell] /\ list \in [Message -> Cell]
  <2>1. PICK known : stored = [m \in Message |->
            IF lastKey = <<m, "edit">> THEN [version |-> version[m], deleted |-> FALSE]
            ELSE IF m \in known THEN [version |-> 0, deleted |-> FALSE]
            ELSE None]
    BY DEF ListInit
  <2>2. \A v \in 0..MaxEdits : [version |-> v, deleted |-> FALSE] \in Cell
    BY Cells DEF Cell
  <2>3. None \in Cell
    BY DEF Cell
  <2> QED
    BY <1>1, <1>2, <2>1, <2>2, <2>3 DEF ListInit
<1>4. lastKey \in Keys /\ fresh \subseteq 1..newest
  <2>1. lastKey \in Replays
    BY DEF ListInit
  <2>2. \A m \in Message : lastKey \in {<<m, "new">>, <<m, "sent">>} => m = newest
    BY <2>1, ReplayedKey
  <2>3. \A m \in Message : m = newest => m \in 1..newest
    BY <1>2 DEF Message
  <2> QED
    BY <2>1, <2>2, <2>3, ReplayedKey DEF ListInit
<1>5. older \in OlderCall /\ allNewer \in BOOLEAN
  <2>1. Now \in Nat /\ \A bottom \in 1..newest : bottom + 1 \in Nat
    BY <1>2 DEF Now
  <2>2. \A from \in Nat, n \in {0, Batch} :
            [at |-> "cache", initial |-> TRUE, from |-> from, forward |-> n]
                \in OlderCall
    BY DEF OlderCall, Asking
  <2>3. CASE allNewer = TRUE /\ older = [at |-> "cache", initial |-> TRUE,
                                         from |-> Now, forward |-> 0]
    BY <2>1, <2>2, <2>3
  <2>4. ASSUME NEW bottom \in 1..newest, allNewer = FALSE,
               older = [at |-> "cache", initial |-> TRUE, from |-> bottom + 1,
                        forward |-> Batch]
        PROVE  older \in OlderCall /\ allNewer \in BOOLEAN
    BY <2>1, <2>2, <2>4
  <2> QED
    BY <2>3, <2>4 DEF ListInit
<1>6. gone \subseteq 1..newest /\ pushes \in Seq(Push) /\ Len(pushes) <= MaxQueue
  BY <1>2 DEF ListInit
<1>7. newer \in NewerCall
  BY DEF ListInit, NewerCall
<1>8. mounted \in BOOLEAN /\ initialized \in BOOLEAN /\ allOlder \in BOOLEAN
      /\ sending \subseteq 1..newest /\ unsent \subseteq 1..(newest + 1)
      /\ upset \subseteq Exceptions
  BY DEF ListInit
<1> QED
  BY <1>1, <1>3, <1>4, <1>5, <1>6, <1>7, <1>8 DEF ListParts

\* The file's and the page's contents after a push.
LEMMA HandleTyped ==
    ASSUME ListParts, Handle
    PROVE  /\ stored' \in [Message -> Cell] /\ list' \in [Message -> Cell]
           /\ lastKey' \in Keys /\ allNewer' \in BOOLEAN
           /\ fresh' \subseteq fresh \union {Head(pushes).id}
           /\ upset' \subseteq Exceptions
<1> DEFINE p == Head(pushes)
<1>1. p \in Push
  BY Popping
<1>2. p.id \in Message /\ p.version \in 0..MaxEdits /\ 0 \in 0..MaxEdits
  BY <1>1, Sizes DEF Push
<1>3. \A c, v : Outdated(c, v) \subseteq Exceptions
  BY DEF Outdated, Exceptions
<1>4. CASE p.kind \in {"new", "own"}
  <2>1. Received(p.id, p.kind) /\ UNCHANGED stored
    BY <1>4 DEF Handle
  <2>2. With(list, p.id, 0) \in [Message -> Cell]
    BY <1>2, Knowing DEF ListParts
  <2>3. <<p.id, "new">> \in Keys
    BY <1>2 DEF Keys, MessageKey
  <2>4. upset' \subseteq Exceptions
    BY <2>1 DEF Received, ListParts, Exceptions
  <2> QED
    BY <2>1, <2>2, <2>3, <2>4 DEF Received, ListParts
<1>5. CASE p.kind = "edit"
  <2>1. Edited(p.id, p.version)
    BY <1>5 DEF Handle
  <2>2. With(list, p.id, p.version) \in [Message -> Cell]
        /\ With(stored, p.id, p.version) \in [Message -> Cell]
    BY <1>2, Knowing DEF ListParts
  <2>3. <<p.id, "edit">> \in Keys
    BY <1>2 DEF Keys, MessageKey
  <2>4. upset' \subseteq Exceptions
    BY <1>3, <2>1 DEF Edited, ListParts, Exceptions
  <2> QED
    BY <2>1, <2>2, <2>3, <2>4 DEF Edited, ListParts
<1>6. CASE p.kind = "delete"
  <2>1. Deleted(p.id)
    BY <1>6 DEF Handle
  <2>2. stored' \in [Message -> Cell] /\ list' \in [Message -> Cell]
    BY <1>2, <2>1, Marking DEF Deleted, ListParts
  <2>3. upset' \subseteq Exceptions
    BY <1>3, <2>1 DEF Deleted, ListParts, Exceptions
  <2> QED
    BY <2>1, <2>2, <2>3 DEF Deleted, ListParts
<1> QED
  BY <1>1, <1>4, <1>5, <1>6 DEF Push

LEMMA Sending ==
    ASSUME ListParts, newest < MaxMessages
    PROVE  /\ newest + 1 \in 0..MaxMessages /\ newest + 1 \in Message
           /\ \A S : S \subseteq 1..newest => S \subseteq 1..(newest + 1)
           /\ newest + 1 \in 1..(newest + 1) /\ newest + 1 \notin 1..newest
           /\ \A k \in 1..(newest + 1) : k \in 1..newest \/ k = newest + 1
           /\ 0 \in 0..MaxEdits
<1>1. newest \in Nat /\ MaxMessages \in Nat /\ MaxEdits \in Nat
  BY Sizes
<1> QED
  BY <1>1 DEF Message

LEMMA Editing ==
    ASSUME ListParts, NEW m \in Message, Edit(m)
    PROVE  /\ m \in Existing /\ m \in 1..newest
           /\ version[m] \in 0..MaxEdits /\ version[m] + 1 \in 0..MaxEdits
           /\ version' \in [Message -> 0..MaxEdits]
           /\ version'[m] = version[m] + 1
           /\ \A k \in Message : k # m => version'[k] = version[k]
<1>1. version[m] \in 0..MaxEdits /\ version[m] < MaxEdits /\ MaxEdits \in Nat
  BY Sizes DEF Edit, ListParts
<1>2. version[m] + 1 \in 0..MaxEdits
  BY <1>1
<1>3. version' = [version EXCEPT ![m] = version[m] + 1] /\ version \in [Message -> 0..MaxEdits]
  BY DEF Edit, ListParts
<1> QED
  BY <1>1, <1>2, <1>3, Sizes DEF Edit, Existing

\* Only messages that were sent are shown, stored, pushed and answered.
OnlySent ==
    /\ \A m \in Message :
        list[m] # None \/ stored[m] # None \/ version[m] # 0 => m \in 1..newest
    /\ \A i \in 1..Len(pushes) : pushes[i].id \in 1..newest
    /\ OlderIs("read") => DOMAIN older.page \subseteq 1..newest
    /\ OlderIs("answer") => In(older.page) \subseteq 1..newest
    /\ NewerIs("answer") => In(newer.page) \subseteq 1..newest

LEMMA ListTypesNext == ListTypeOK /\ OnlySent /\ [ListNext]_listVars => ListTypeOK'
<1> SUFFICES ASSUME ListTypeOK, OnlySent, [ListNext]_listVars PROVE ListTypeOK'
  OBVIOUS
<1> SUFFICES ListParts'
  BY ListInParts, PTL
<1>0. ListParts
  BY ListInParts
<1>1. ASSUME NEW kind \in {"new", "own"}, Arrive(kind) PROVE ListParts'
  <2>1. newest < MaxMessages /\ newest' = newest + 1 /\ Pushed(kind, newest + 1, 0)
    BY <1>1 DEF Arrive
  <2>2. pushes' \in Seq(Push) /\ Len(pushes') <= MaxQueue
    BY <1>0, <2>1, Sending, Queueing
  <2>3. unsent \subseteq 1..(newest' + 1)
    BY <1>0, <2>1, Sizes DEF ListParts
  <2> QED
    BY <1>0, <1>1, <2>1, <2>2, <2>3, Sending DEF Arrive, ListParts
<1>2. CASE Send
  <2>1. newest < MaxMessages /\ newest' = newest + 1 /\ Pushed("own", newest + 1, 0)
    BY <1>2 DEF Send
  <2>2. pushes' \in Seq(Push) /\ Len(pushes') <= MaxQueue
    BY <1>0, <2>1, Sending, Queueing
  <2>3. sending' \subseteq 1..(newest + 1)
    BY <1>0, <1>2, <2>1, Sending DEF Send, ListParts
  <2>4. upset' \subseteq Exceptions
    BY <1>0, <1>2 DEF Send, Drafted, Exceptions, ListParts
  <2>5. unsent \subseteq 1..(newest' + 1)
    BY <1>0, <2>1, Sizes DEF ListParts
  <2> QED
    BY <1>0, <1>2, <2>1, <2>2, <2>3, <2>4, <2>5, Sending DEF Send, ListParts
<1>16. CASE NotSent
  <2>1. Now \in 1..(newest + 1)
    BY <1>0, Sizes DEF Now
  <2>2. upset' \subseteq Exceptions
    BY <1>0, <1>16 DEF NotSent, Drafted, Exceptions, ListParts
  <2> QED
    BY <1>0, <1>16, <2>1, <2>2 DEF NotSent, ListParts
<1>17. ASSUME NEW m \in Message, SendFails(m) PROVE ListParts'
  <2>1. 1..newest \subseteq 1..(newest + 1)
    BY <1>0, Sizes
  <2> QED
    BY <1>0, <1>17, <2>1 DEF SendFails, ListParts
<1>18. CASE ReadFiles
  BY <1>0, <1>18, ReadStep DEF ReadFiles, ListParts, OlderCall
<1>3. ASSUME NEW m \in Message, Edit(m) PROVE ListParts'
  <2>1. Pushed("edit", m, version[m] + 1)
    BY <1>3 DEF Edit
  <2>2. version[m] + 1 \in 0..MaxEdits /\ version' \in [Message -> 0..MaxEdits]
    BY <1>0, <1>3, Editing
  <2>3. pushes' \in Seq(Push) /\ Len(pushes') <= MaxQueue
    BY <1>0, <2>1, <2>2, Queueing
  <2> QED
    BY <1>0, <1>3, <2>2, <2>3 DEF Edit, ListParts
<1>4. ASSUME NEW m \in Message, Delete(m) PROVE ListParts'
  <2>1. Pushed("delete", m, version[m]) /\ version[m] \in 0..MaxEdits
    BY <1>0, <1>4 DEF Delete, ListParts
  <2>2. pushes' \in Seq(Push) /\ Len(pushes') <= MaxQueue
    BY <1>0, <2>1, Queueing
  <2>3. gone' \subseteq 1..newest
    BY <1>0, <1>4 DEF Delete, ListParts, Existing
  <2> QED
    BY <1>0, <1>4, <2>2, <2>3 DEF Delete, ListParts
<1>5. ASSUME NEW m \in Message, Sent(m) PROVE ListParts'
  <2>1. 0 \in 0..MaxEdits
    BY <1>0, Sizes
  <2>2. [version |-> 0, deleted |-> FALSE] \in Cell
    BY <2>1, Cells DEF Cell
  <2>3. list' \in [Message -> Cell] /\ stored' \in [Message -> Cell]
    BY <1>0, <1>5, <2>1, <2>2, Putting, Knowing DEF Sent, ListParts, Put
  <2>4. lastKey' \in Keys /\ fresh' \subseteq 1..newest /\ sending' \subseteq 1..newest
    BY <1>0, <1>5 DEF Sent, ListParts, Keys, MessageKey
  <2>5. upset' \subseteq Exceptions
    BY <1>0, <1>5 DEF Sent, Exceptions, ListParts
  <2> QED
    BY <1>0, <1>5, <2>3, <2>4, <2>5 DEF Sent, ListParts
<1>6. CASE LoadOlder \/ Jump
  <2>1. Now \in Nat
    BY <1>0, Sizes
  <2>2. [at |-> "cache", initial |-> FALSE, from |-> Now, forward |-> 0] \in OlderCall
        /\ [at |-> "cache", initial |-> TRUE, from |-> Now, forward |-> 0] \in OlderCall
    BY <2>1 DEF OlderCall, Asking
  <2>3. upset' \subseteq Exceptions
    BY <1>0, <1>6 DEF LoadOlder, Jump, Exceptions, ListParts
  <2> QED
    BY <1>0, <1>6, <2>2, <2>3 DEF LoadOlder, Jump, ListParts
<1>7. CASE Cached
  <2>1. older' \in OlderCall /\ list' \in [Message -> Cell]
    BY <1>0, <1>7, CachedStep DEF OlderCall
  <2>2. upset' \subseteq Exceptions
    BY <1>0, <1>7 DEF Cached, Torn, Exceptions, ListParts
  <2> QED
    BY <1>0, <1>7, <2>1, <2>2 DEF Cached, ListParts
<1>8. CASE AnswerOlder
  <2>1. older \in Asking
    BY <1>0, <1>8, OlderCalls DEF AnswerOlder, ListParts
  <2> DEFINE S == Before(Existing, older.from, Batch) \union
                  After(Existing, older.from, older.forward)
  <2>2. S \in SUBSET Message
    BY <1>0, <2>1, Sizes, Pages DEF Asking
  <2> HIDE DEF S
  <2>3. Served(S) \in Answer
    BY <1>0, <2>2, Serving DEF ListParts
  <2>4. older' = [at |-> "answer", initial |-> older.initial,
                  forward |-> older.forward, page |-> Served(S)]
    BY <1>8 DEF AnswerOlder, S
  <2>5. older' \in OlderCall
    BY <2>1, <2>3, <2>4 DEF OlderCall, Asking, AnsweredOlder
  <2> QED
    BY <1>0, <1>8, <2>5 DEF AnswerOlder, ListParts
<1>9. CASE MergeOlder
  <2>1. list' \in [Message -> Cell] /\ stored' \in [Message -> Cell]
    BY <1>0, <1>9, Filing
  <2>2. upset' \subseteq Exceptions
    BY <1>0, <1>9 DEF MergeOlder, Torn, Exceptions, ListParts
  <2> SUFFICES fresh' \subseteq 1..newest /\ allOlder' \in BOOLEAN
    BY <1>0, <1>9, <2>1, <2>2 DEF MergeOlder, ListParts, OlderCall
  <2>3. In(older.page) \subseteq 1..newest
    BY <1>9 DEF OnlySent, OlderIs, MergeOlder
  <2> QED
    BY <1>0, <1>9, <2>3 DEF MergeOlder, ListParts
<1>10. CASE FailOlder \/ FailNewer
  BY <1>0, <1>10 DEF FailOlder, FailNewer, ListParts, OlderCall, NewerCall, Exceptions
<1>11. CASE LoadNewer
  <2> DEFINE S == Shown \union sending \union unsent
  <2>1. S \subseteq 0..(MaxMessages + 1) /\ MaxMessages + 1 \in Nat /\ Now \in Nat
    BY <1>0, Drafts, Sizes DEF Shown, ListParts
  <2>2. newer' = [at |-> "ask", from |-> IF S = {} THEN Now ELSE Max(S)]
    BY <1>11 DEF LoadNewer
  <2> HIDE DEF S
  <2>5. S # {} => Max(S) \in S
    BY <2>1, MinMax
  <2>7. S # {} => Max(S) \in 0..(MaxMessages + 1)
    BY <2>1, <2>5
  <2>8. S # {} => Max(S) \in Nat
    BY <2>1, <2>7
  <2>6. (IF S = {} THEN Now ELSE Max(S)) \in Nat
    BY <2>1, <2>8
  <2>3. newer' \in NewerCall
    BY <2>2, <2>6 DEF NewerCall, AskingNewer
  <2>4. upset' \subseteq Exceptions
    BY <1>0, <1>11 DEF LoadNewer, Exceptions, ListParts
  <2> QED
    BY <1>0, <1>11, <2>3, <2>4 DEF LoadNewer, ListParts
<1>12. CASE AnswerNewer
  <2>1. newer \in AskingNewer
    BY <1>0, <1>12, NewerCalls DEF AnswerNewer, ListParts
  <2> DEFINE S == After(Existing, newer.from, Batch)
  <2>2. S \in SUBSET Message
    BY <1>0, <2>1, Sizes, Pages DEF AskingNewer
  <2> HIDE DEF S
  <2>3. Served(S) \in Answer
    BY <1>0, <2>2, Serving DEF ListParts
  <2>4. newer' = [at |-> "answer", page |-> Served(S)]
    BY <1>12 DEF AnswerNewer, S
  <2>5. newer' \in NewerCall
    BY <2>1, <2>3, <2>4 DEF NewerCall, AskingNewer, AnsweredNewer
  <2> QED
    BY <1>0, <1>12, <2>5 DEF AnswerNewer, ListParts
<1>13. CASE MergeNewer
  <2>1. newer \in AnsweredNewer
    BY <1>0, <1>13, NewerCalls DEF MergeNewer, ListParts
  <2>2. list' \in [Message -> Cell]
    BY <1>0, <1>13, <2>1, Merging DEF MergeNewer, ListParts, AnsweredNewer
  <2>3. fresh' \subseteq 1..newest /\ allNewer' \in BOOLEAN
    BY <1>0, <1>13 DEF MergeNewer, ListParts, OnlySent, NewerIs, Ends
  <2> QED
    BY <1>0, <1>13, <2>2, <2>3 DEF MergeNewer, ListParts, NewerCall
<1>14. CASE Handle
  <2>1. pushes' \in Seq(Push) /\ Len(pushes') <= MaxQueue /\ Head(pushes).id \in 1..newest
    BY <1>0, <1>14, Popping DEF OnlySent
  <2>2. fresh' \subseteq 1..newest
    BY <1>0, <1>14, <2>1, HandleTyped DEF ListParts
  <2> QED
    BY <1>0, <1>14, <2>1, <2>2, HandleTyped DEF Handle, ListParts
<1>15. CASE UNCHANGED listVars
  BY <1>0, <1>15 DEF listVars, ListParts
<1> QED
  BY <1>1, <1>2, <1>3, <1>4, <1>5, <1>6, <1>7, <1>8, <1>9, <1>10, <1>11, <1>12,
     <1>13, <1>14, <1>15, <1>16, <1>17, <1>18 DEF ListNext

LEMMA AnswerOlderStep ==
    ASSUME ListParts, AnswerOlder
    PROVE  /\ older \in Asking
           /\ OlderIs("ask")
           /\ older' \in AnsweredOlder /\ older'.page \in Answer
           /\ older'.initial = older.initial /\ older'.forward = older.forward
           /\ In(older'.page) = Before(Existing, older.from, Batch) \union
                                After(Existing, older.from, older.forward)
           /\ In(older'.page) \subseteq Existing
           /\ \A m \in In(older'.page) : older'.page[m] = version[m]
<1>1. older \in Asking
  BY OlderCalls DEF AnswerOlder, ListParts
<1> DEFINE S == Before(Existing, older.from, Batch) \union
                After(Existing, older.from, older.forward)
<1>2. S \subseteq Existing /\ S \in SUBSET Message
  BY <1>1, Sizes, Pages DEF Asking
<1>3. older' = [at |-> "answer", initial |-> older.initial,
                forward |-> older.forward, page |-> Served(S)]
  BY DEF AnswerOlder
<1> HIDE DEF S
<1>4. Served(S) \in Answer /\ In(Served(S)) = S /\ \A m \in S : Served(S)[m] = version[m]
  BY <1>2, Serving DEF ListParts
<1>5. older' \in AnsweredOlder
  BY <1>1, <1>3, <1>4 DEF Asking, AnsweredOlder
<1>6. older'.page = Served(S) /\ older'.initial = older.initial
      /\ older'.forward = older.forward
  BY <1>3
<1> QED
  BY <1>1, <1>2, <1>4, <1>5, <1>6 DEF S, AnswerOlder, OlderIs

LEMMA AnswerNewerStep ==
    ASSUME ListParts, AnswerNewer
    PROVE  /\ newer \in AskingNewer
           /\ NewerIs("ask")
           /\ newer' \in AnsweredNewer /\ newer'.page \in Answer
           /\ In(newer'.page) = After(Existing, newer.from, Batch)
           /\ In(newer'.page) \subseteq Existing
           /\ \A m \in In(newer'.page) : newer'.page[m] = version[m]
<1>1. newer \in AskingNewer
  BY NewerCalls DEF AnswerNewer, ListParts
<1> DEFINE S == After(Existing, newer.from, Batch)
<1>2. S \subseteq Existing /\ S \in SUBSET Message
  BY <1>1, Sizes, Pages DEF AskingNewer
<1>3. newer' = [at |-> "answer", page |-> Served(S)]
  BY DEF AnswerNewer
<1> HIDE DEF S
<1>4. Served(S) \in Answer /\ In(Served(S)) = S /\ \A m \in S : Served(S)[m] = version[m]
  BY <1>2, Serving DEF ListParts
<1>5. newer' \in AnsweredNewer
  BY <1>3, <1>4 DEF AnsweredNewer
<1>6. newer'.page = Served(S)
  BY <1>3
<1> QED
  BY <1>1, <1>2, <1>4, <1>5, <1>6 DEF S, AnswerNewer, NewerIs

\* Only an answer of the server makes a request answered.
LEMMA OlderMoves ==
    ASSUME ListParts, [ListNext]_listVars, ~AnswerOlder
    PROVE  OlderIs("answer")' => OlderIs("answer") /\ older' = older
<1>1. CASE LoadOlder \/ Jump
  BY <1>1 DEF LoadOlder, Jump, OlderIs
<1>2. CASE Cached
  BY <1>2, CachedStep DEF OlderIs
<1>4. CASE ReadFiles
  BY <1>4, ReadStep DEF OlderIs
<1>3. older' \in {older, None} => (OlderIs("answer")' => OlderIs("answer") /\ older' = older)
  BY DEF OlderIs
<1> QED
  BY <1>1, <1>2, <1>3, <1>4 DEF ListNext, listVars, Arrive, Send, NotSent, SendFails, Sent,
     Edit, Delete, Handle, MergeOlder, FailOlder, LoadNewer, AnswerNewer, MergeNewer, FailNewer

LEMMA ReadMoves ==
    ASSUME ListParts, [ListNext]_listVars, ~ReadFiles
    PROVE  OlderIs("read")' => OlderIs("read") /\ older' = older
<1>1. CASE LoadOlder \/ Jump
  BY <1>1 DEF LoadOlder, Jump, OlderIs
<1>2. CASE Cached
  BY <1>2, CachedStep DEF OlderIs
<1>4. CASE AnswerOlder
  BY <1>4, AnswerOlderStep DEF OlderIs, AnsweredOlder
<1>3. older' \in {older, None} => (OlderIs("read")' => OlderIs("read") /\ older' = older)
  BY DEF OlderIs
<1> QED
  BY <1>1, <1>2, <1>3, <1>4 DEF ListNext, listVars, Arrive, Send, NotSent, SendFails, Sent,
     Edit, Delete, Handle, MergeOlder, FailOlder, LoadNewer, AnswerNewer, MergeNewer, FailNewer

LEMMA NewerMoves ==
    ASSUME ListParts, [ListNext]_listVars, ~AnswerNewer
    PROVE  NewerIs("answer")' => NewerIs("answer") /\ newer' = newer
<1>1. CASE LoadNewer
  BY <1>1 DEF LoadNewer, NewerIs
<1>2. newer' \in {newer, None} => (NewerIs("answer")' => NewerIs("answer") /\ newer' = newer)
  BY DEF NewerIs
<1> QED
  BY <1>1, <1>2 DEF ListNext, listVars, Arrive, Send, NotSent, SendFails, Sent, Edit,
     Delete, Handle, LoadOlder, Jump, ReadFiles, Cached, AnswerOlder, MergeOlder, FailOlder, MergeNewer, FailNewer

\* The messages that are listed, stored, and on their way stay among the sent.
CellsSent ==
    \A m \in Message :
        list[m] # None \/ stored[m] # None \/ version[m] # 0 => m \in 1..newest
QueueSent == \A i \in 1..Len(pushes) : pushes[i].id \in 1..newest
PagesSent ==
    /\ OlderIs("read") => DOMAIN older.page \subseteq 1..newest
    /\ OlderIs("answer") => In(older.page) \subseteq 1..newest
    /\ NewerIs("answer") => In(newer.page) \subseteq 1..newest

LEMMA QueueSentNext ==
    ASSUME ListParts, QueueSent, [ListNext]_listVars
    PROVE  QueueSent'
<1>1. ASSUME NEW kind \in {"new", "own"}, newest < MaxMessages, newest' = newest + 1,
             Pushed(kind, newest + 1, 0)
      PROVE  QueueSent'
  <2>1. /\ Len(pushes) \in Nat /\ Len(pushes') = Len(pushes) + 1
        /\ \A i \in 1..Len(pushes) : pushes'[i] = pushes[i]
        /\ pushes'[Len(pushes')].id = newest + 1
    BY <1>1, Sending, Queueing
  <2>2. \A i \in 1..Len(pushes') : i \in 1..Len(pushes) \/ i = Len(pushes')
    BY <2>1
  <2> QED
    BY <1>1, <2>1, <2>2, Sending DEF QueueSent
<1>2. ASSUME NEW kind \in {"edit", "delete"}, NEW m \in 1..newest, NEW v \in 0..MaxEdits,
             newest' = newest, Pushed(kind, m, v)
      PROVE  QueueSent'
  <2>1. /\ Len(pushes) \in Nat /\ Len(pushes') = Len(pushes) + 1
        /\ \A i \in 1..Len(pushes) : pushes'[i] = pushes[i]
        /\ pushes'[Len(pushes')].id = m
    BY <1>2, Sizes, Queueing
  <2>2. \A i \in 1..Len(pushes') : i \in 1..Len(pushes) \/ i = Len(pushes')
    BY <2>1
  <2> QED
    BY <1>2, <2>1, <2>2 DEF QueueSent
<1>3. CASE Handle
  <2>1. /\ Len(pushes) \in Nat /\ Len(pushes') = Len(pushes) - 1
        /\ \A i \in 1..Len(pushes') : pushes'[i] = pushes[i + 1]
    BY <1>3, Popping
  <2>2. \A i \in 1..Len(pushes') : i + 1 \in 1..Len(pushes)
    BY <2>1
  <2> QED
    BY <1>3, <2>1, <2>2 DEF QueueSent, Handle
<1>4. \A m \in Message : Edit(m) => QueueSent'
  BY <1>2, Editing DEF Edit
<1>5. ASSUME NEW m \in Message, Delete(m) PROVE QueueSent'
  <2>1. m \in 1..newest /\ version[m] \in 0..MaxEdits /\ Pushed("delete", m, version[m])
        /\ newest' = newest
    BY <1>5, Sizes DEF Delete, ListParts
  <2> QED
    BY <1>2, <2>1
<1>6. UNCHANGED <<newest, pushes>> => QueueSent'
  BY DEF QueueSent
<1> QED
  BY <1>1, <1>3, <1>4, <1>5, <1>6 DEF ListNext, listVars, Arrive, Send, NotSent, SendFails,
     Sent, LoadOlder, ReadFiles, Cached, AnswerOlder, MergeOlder, FailOlder, LoadNewer, AnswerNewer,
     MergeNewer, FailNewer, Jump

LEMMA SentGrows ==
    ASSUME ListParts, [ListNext]_listVars
    PROVE  1..newest \subseteq 1..newest'
<1>1. newest \in Nat
  BY Sizes
<1>2. newest' = newest \/ newest' = newest + 1
  BY DEF ListNext, listVars, Arrive, Send, NotSent, SendFails, Sent, Edit, Delete,
     Handle, LoadOlder, ReadFiles, Cached, AnswerOlder, MergeOlder, FailOlder, LoadNewer, AnswerNewer,
     MergeNewer, FailNewer, Jump
<1> QED
  BY <1>1, <1>2

LEMMA OnlySentNext ==
    ASSUME ListParts, OnlySent, [ListNext]_listVars
    PROVE  OnlySent'
<1>1. OnlySent <=> CellsSent /\ QueueSent /\ PagesSent
  BY DEF OnlySent, CellsSent, QueueSent, PagesSent
<1>2. OnlySent' <=> CellsSent' /\ QueueSent' /\ PagesSent'
  BY DEF OnlySent, CellsSent, QueueSent, PagesSent, OlderIs, NewerIs, In
<1>3. QueueSent'
  BY <1>1, QueueSentNext
<1>4. 1..newest \subseteq 1..newest' /\ newest \in Nat
  BY SentGrows, Sizes
<1>5. PagesSent'
  <2>1. CASE AnswerOlder
    BY <1>1, <2>1, AnswerOlderStep, Sizes DEF PagesSent, OlderIs, NewerIs, AnswerOlder,
       AnsweredOlder
  <2>2. CASE AnswerNewer
    BY <1>1, <2>2, AnswerNewerStep, Sizes DEF PagesSent, OlderIs, NewerIs, AnswerNewer
  <2>4. CASE ReadFiles
    BY <1>1, <2>4, ReadStep DEF PagesSent, CellsSent, OlderIs, NewerIs, ReadFiles
  <2>3. CASE ~AnswerOlder /\ ~AnswerNewer /\ ~ReadFiles
    <3>3. OlderIs("read")' => OlderIs("read") /\ older' = older
      BY <2>3, ReadMoves
    <3>1. OlderIs("answer")' => OlderIs("answer") /\ older' = older
      BY <2>3, OlderMoves
    <3>2. NewerIs("answer")' => NewerIs("answer") /\ newer' = newer
      BY <2>3, NewerMoves
    <3> QED
      BY <1>1, <1>4, <3>1, <3>2, <3>3 DEF PagesSent, OlderIs, NewerIs
  <2> QED
    BY <2>1, <2>2, <2>3, <2>4
<1>6. CellsSent'
  <2>7. ASSUME NEW m \in Message, version'[m] # 0 PROVE m \in 1..newest
    <3>1. \A k \in Message : Edit(k) => k \in 1..newest /\ (m # k => version'[m] = version[m])
      BY Editing
    <3>2. version' = version \/ \E k \in Message : Edit(k)
      BY DEF ListNext, listVars, Arrive, Send, NotSent, SendFails, Sent, Delete, Handle,
         LoadOlder, ReadFiles, Cached, AnswerOlder, MergeOlder, FailOlder, LoadNewer,
         AnswerNewer, MergeNewer, FailNewer, Jump
    <3> QED
      BY <1>1, <2>7, <3>1, <3>2 DEF CellsSent
  <2> SUFFICES ASSUME NEW m \in Message, list'[m] # None \/ stored'[m] # None
               PROVE  m \in 1..newest
    BY <1>4, <2>7 DEF CellsSent
  <2>1. CASE Cached
    BY <1>1, <2>1, CachedStep DEF FromFile, Cached, CellsSent, PagesSent
  <2>2. CASE MergeOlder
    BY <1>1, <2>2, OlderStep, Filing DEF Merges, MergeOlder, CellsSent, PagesSent, OlderIs, In
  <2>3. CASE MergeNewer
    BY <1>1, <2>3, NewerStep DEF Merges, MergeNewer, CellsSent, PagesSent, NewerIs, In
  <2>4. CASE Handle
    <3>1. Head(pushes).id \in 1..newest /\ Head(pushes) \in Push
      BY <1>1, <2>4, Popping DEF QueueSent
    <3>2. m # Head(pushes).id => list'[m] = list[m] /\ stored'[m] = stored[m]
      BY <2>4, <3>1, NewStep, EditStep, DeleteStep DEF Learns, Marks, Push
    <3> QED
      BY <1>1, <3>1, <3>2 DEF CellsSent
  <2>5. ASSUME NEW k \in Message, Sent(k) PROVE m \in 1..newest
    BY <1>1, <2>5, SentStep DEF Learns, CellsSent, Sent, ListParts
  <2>6. CASE UNCHANGED <<list, stored>>
    BY <1>1, <2>6 DEF CellsSent
  <2> QED
    BY <2>1, <2>2, <2>3, <2>4, <2>5, <2>6 DEF ListNext, listVars, Arrive, Send,
       NotSent, SendFails, Edit, Delete, LoadOlder, ReadFiles, AnswerOlder, FailOlder, LoadNewer, AnswerNewer,
       FailNewer, Jump
<1> QED
  BY <1>2, <1>3, <1>5, <1>6

-----------------------------------------------------------------------------
(* What is on its way *)

Newly(p) == p.kind \in {"new", "own"}
EditOf(p, m, v) == p.kind = "edit" /\ p.id = m /\ p.version = v
DeleteOf(p, m) == p.kind = "delete" /\ p.id = m

\* m is announced; its v-th edit is; its deletion is; and these after position i.
Queued(m) == \E i \in 1..Len(pushes) : Newly(pushes[i]) /\ pushes[i].id = m
Coming(m, v) == \E i \in 1..Len(pushes) : EditOf(pushes[i], m, v)
Going(m) == \E i \in 1..Len(pushes) : DeleteOf(pushes[i], m)
EditAfter(i, m, v) == \E j \in 1..Len(pushes) : j > i /\ EditOf(pushes[j], m, v)
DeleteAfter(i, m) == \E j \in 1..Len(pushes) : j > i /\ DeleteOf(pushes[j], m)

\* Announcements are in the order of the messages, up to the newest one; what
\* was announced last is not announced again; an edit or a deletion that a push
\* does not tell of is told of later; a sender waits for what is announced, or
\* was.
InOrder ==
    \A i, j \in 1..Len(pushes) :
        i < j /\ Newly(pushes[i]) /\ Newly(pushes[j]) => pushes[i].id < pushes[j].id
UpToNewest == \A k, l \in 1..newest : Queued(k) /\ k < l => Queued(l)
AnnouncedOnce ==
    \A m \in Message : lastKey = <<m, "new">> => m \in 1..newest /\ ~Queued(m)
Told(i) ==
    LET p == pushes[i] IN
    /\ p.kind = "edit" => /\ p.version <= version[p.id]
                          /\ p.version < version[p.id]
                                => EditAfter(i, p.id, version[p.id])
    /\ Newly(p) => /\ version[p.id] = 0 \/ EditAfter(i, p.id, version[p.id])
                   /\ p.id \in gone => DeleteAfter(i, p.id)
    /\ p.kind = "delete" => p.id \in gone
AllTold == \A i \in 1..Len(pushes) : Told(i)
OwnQueued(m) == \E i \in 1..Len(pushes) : pushes[i].kind = "own" /\ pushes[i].id = m
Waiting == \A m \in sending : OwnQueued(m) \/ m \in fresh
QueueInv == InOrder /\ UpToNewest /\ AnnouncedOnce /\ AllTold /\ Waiting

Appended(kind, m, v) ==
    /\ Len(pushes) \in Nat /\ Len(pushes') = Len(pushes) + 1
    /\ \A i \in 1..Len(pushes) : pushes'[i] = pushes[i]
    /\ pushes'[Len(pushes')].kind = kind
    /\ pushes'[Len(pushes')].id = m
    /\ pushes'[Len(pushes')].version = v

LEMMA Appending ==
    ASSUME NEW kind, NEW m, NEW v, Appended(kind, m, v), NEW k
    PROVE  /\ Queued(k)' <=> Queued(k) \/ (kind \in {"new", "own"} /\ k = m)
           /\ OwnQueued(k)' <=> OwnQueued(k) \/ (kind = "own" /\ k = m)
           /\ Going(k)' <=> Going(k) \/ (kind = "delete" /\ k = m)
           /\ \A w : Coming(k, w)' <=> Coming(k, w) \/ (kind = "edit" /\ k = m /\ w = v)
           /\ \A i \in 1..Len(pushes) :
                /\ DeleteAfter(i, k) => DeleteAfter(i, k)'
                /\ kind = "delete" => DeleteAfter(i, m)'
                /\ \A w : EditAfter(i, k, w) => EditAfter(i, k, w)'
                /\ kind = "edit" => EditAfter(i, m, v)'
<1>1. /\ Len(pushes) \in Nat
      /\ Len(pushes') \in 1..Len(pushes') /\ Len(pushes') > Len(pushes)
      /\ \A i \in 1..Len(pushes') : i \in 1..Len(pushes) \/ i = Len(pushes')
      /\ \A i \in 1..Len(pushes) : i \in 1..Len(pushes') /\ i < Len(pushes')
      /\ \A i \in 1..Len(pushes) : pushes'[i] = pushes[i]
  BY DEF Appended
<1>2. /\ pushes'[Len(pushes')].kind = kind /\ pushes'[Len(pushes')].id = m
      /\ pushes'[Len(pushes')].version = v
  BY DEF Appended
<1>3. Queued(k)' <=> Queued(k) \/ (kind \in {"new", "own"} /\ k = m)
  BY <1>1, <1>2 DEF Queued, Newly
<1>7. OwnQueued(k)' <=> OwnQueued(k) \/ (kind = "own" /\ k = m)
  BY <1>1, <1>2 DEF OwnQueued
<1>4. Going(k)' <=> Going(k) \/ (kind = "delete" /\ k = m)
  BY <1>1, <1>2 DEF Going, DeleteOf
<1>5. \A w : Coming(k, w)' <=> Coming(k, w) \/ (kind = "edit" /\ k = m /\ w = v)
  BY <1>1, <1>2 DEF Coming, EditOf
<1>6. ASSUME NEW i \in 1..Len(pushes)
      PROVE  /\ DeleteAfter(i, k) => DeleteAfter(i, k)'
             /\ kind = "delete" => DeleteAfter(i, m)'
             /\ \A w : EditAfter(i, k, w) => EditAfter(i, k, w)'
             /\ kind = "edit" => EditAfter(i, m, v)'
  <2>1. DeleteAfter(i, k) => DeleteAfter(i, k)'
    BY <1>1 DEF DeleteAfter
  <2>2. kind = "delete" => DeleteAfter(i, m)'
    BY <1>1, <1>2 DEF DeleteAfter, DeleteOf
  <2>3. \A w : EditAfter(i, k, w) => EditAfter(i, k, w)'
    BY <1>1 DEF EditAfter
  <2>4. kind = "edit" => EditAfter(i, m, v)'
    BY <1>1, <1>2 DEF EditAfter, EditOf
  <2> QED
    BY <2>1, <2>2, <2>3, <2>4
<1> QED
  BY <1>3, <1>4, <1>5, <1>6, <1>7

LEMMA Shifting ==
    ASSUME ListParts, Handle, NEW k
    PROVE  /\ Queued(k)' => Queued(k)
           /\ Queued(k) => Queued(k)' \/ (Newly(Head(pushes)) /\ Head(pushes).id = k)
           /\ OwnQueued(k) =>
                OwnQueued(k)' \/ (Head(pushes).kind = "own" /\ Head(pushes).id = k)
           /\ Going(k)' => Going(k)
           /\ Going(k) => Going(k)' \/ DeleteOf(Head(pushes), k)
           /\ DeleteAfter(1, k) => Going(k)'
           /\ \A w :
                /\ Coming(k, w)' => Coming(k, w)
                /\ Coming(k, w) => Coming(k, w)' \/ EditOf(Head(pushes), k, w)
                /\ EditAfter(1, k, w) => Coming(k, w)'
           /\ \A i \in 1..Len(pushes') :
                /\ i + 1 \in 1..Len(pushes) /\ pushes'[i] = pushes[i + 1]
                /\ DeleteAfter(i + 1, k) => DeleteAfter(i, k)'
                /\ \A w : EditAfter(i + 1, k, w) => EditAfter(i, k, w)'
<1>1. /\ Len(pushes) \in Nat /\ Len(pushes') = Len(pushes) - 1
      /\ 1 \in 1..Len(pushes) /\ Head(pushes) = pushes[1]
      /\ \A i \in 1..Len(pushes') : pushes'[i] = pushes[i + 1]
  BY Popping
<1>2. /\ \A i \in 1..Len(pushes') : i + 1 \in 1..Len(pushes) /\ i + 1 > 1
      /\ \A j \in 1..Len(pushes) :
            j = 1 \/ (j - 1 \in 1..Len(pushes') /\ pushes'[j - 1] = pushes[j])
  BY <1>1
<1>3. \A i \in 1..Len(pushes'), j \in 1..Len(pushes) :
         j > i + 1 => j # 1 /\ j - 1 > i
  BY <1>1
<1>4. \A j \in 1..Len(pushes) : j > 1 => j # 1
  BY <1>1
<1>5. /\ Queued(k)' => Queued(k)
      /\ Queued(k) => Queued(k)' \/ (Newly(Head(pushes)) /\ Head(pushes).id = k)
  <2>1. ASSUME NEW i \in 1..Len(pushes'), Newly(pushes'[i]), pushes'[i].id = k
        PROVE  Queued(k)
    <3>1. i + 1 \in 1..Len(pushes) /\ pushes[i + 1] = pushes'[i]
      BY <1>1, <1>2
    <3> QED
      BY <2>1, <3>1 DEF Queued
  <2>2. ASSUME NEW j \in 1..Len(pushes), Newly(pushes[j]), pushes[j].id = k, j # 1
        PROVE  Queued(k)'
    <3>1. j - 1 \in 1..Len(pushes') /\ pushes'[j - 1] = pushes[j]
      BY <1>2, <2>2
    <3> QED
      BY <2>2, <3>1 DEF Queued, Newly
  <2> QED
    BY <1>1, <2>1, <2>2 DEF Queued, Newly
<1>9. OwnQueued(k) => OwnQueued(k)' \/ (Head(pushes).kind = "own" /\ Head(pushes).id = k)
  BY <1>1, <1>2 DEF OwnQueued
<1>6. /\ Going(k)' => Going(k)
      /\ Going(k) => Going(k)' \/ DeleteOf(Head(pushes), k)
      /\ DeleteAfter(1, k) => Going(k)'
  BY <1>1, <1>2, <1>4 DEF Going, DeleteAfter
<1>7. ASSUME NEW w
      PROVE  /\ Coming(k, w)' => Coming(k, w)
             /\ Coming(k, w) => Coming(k, w)' \/ EditOf(Head(pushes), k, w)
             /\ EditAfter(1, k, w) => Coming(k, w)'
  BY <1>1, <1>2, <1>4 DEF Coming, EditAfter
<1>8. ASSUME NEW i \in 1..Len(pushes')
      PROVE  /\ DeleteAfter(i + 1, k) => DeleteAfter(i, k)'
             /\ \A w : EditAfter(i + 1, k, w) => EditAfter(i, k, w)'
  <2>1. DeleteAfter(i + 1, k) => DeleteAfter(i, k)'
    BY <1>2, <1>3 DEF DeleteAfter
  <2>2. \A w : EditAfter(i + 1, k, w) => EditAfter(i, k, w)'
    BY <1>2, <1>3 DEF EditAfter
  <2> QED
    BY <2>1, <2>2
<1> QED
  BY <1>1, <1>2, <1>5, <1>6, <1>7, <1>8, <1>9

LEMMA QueueInit == ListInit => QueueInv
<1> SUFFICES ASSUME ListInit PROVE QueueInv
  OBVIOUS
<1>1. pushes = <<>> /\ lastKey \in Replays /\ sending = {} /\ newest \in 0..MaxMessages
  BY DEF ListInit
<1>2. \A i : i \notin 1..Len(pushes)
  BY <1>1
<1>3. \A m : ~Queued(m)
  BY <1>2 DEF Queued
<1>4. \A m \in Message : lastKey = <<m, "new">> => m \in 1..newest
  <2>1. \A m \in Message : lastKey = <<m, "new">> => m = newest
    BY <1>1, ReplayedKey
  <2>2. \A m \in Message : m \in 1..m
    BY ListAssumptions DEF Message
  <2> QED
    BY <2>1, <2>2
<1> QED
  BY <1>1, <1>2, <1>3, <1>4 DEF QueueInv, InOrder, UpToNewest, AnnouncedOnce, AllTold, Waiting

\* The actions that leave the server and its queue alone.
ServerStill == UNCHANGED <<newest, version, gone, pushes>>

LEMMA StillQueue ==
    ASSUME ServerStill
    PROVE  /\ \A k : Queued(k)' <=> Queued(k)
           /\ \A k : OwnQueued(k)' <=> OwnQueued(k)
           /\ \A k : Going(k)' <=> Going(k)
           /\ \A k, w : Coming(k, w)' <=> Coming(k, w)
           /\ InOrder' <=> InOrder
           /\ UpToNewest' <=> UpToNewest
           /\ AllTold' <=> AllTold
  BY DEF ServerStill, Queued, OwnQueued, Going, Coming, InOrder, UpToNewest, AllTold, Told,
         EditAfter, DeleteAfter

\* A message is sent.
LEMMA QueueSend ==
    ASSUME ListParts, OnlySent, QueueInv, NEW kind \in {"new", "own"},
           newest < MaxMessages, version[newest + 1] = 0,
           newest' = newest + 1, Pushed(kind, newest + 1, 0),
           UNCHANGED <<version, gone>>
    PROVE  /\ InOrder' /\ UpToNewest' /\ AllTold'
           /\ \A k : Queued(k)' <=> Queued(k) \/ k = newest + 1
           /\ \A k : OwnQueued(k) => OwnQueued(k)'
           /\ kind = "own" => \A k : k = newest + 1 => OwnQueued(k)'
           /\ \A k : Going(k)' <=> Going(k)
           /\ \A k, w : Coming(k, w)' <=> Coming(k, w)
<1>1. Appended(kind, newest + 1, 0)
  BY Sending, Queueing DEF Appended
<1>2. newest \in Nat
  BY Sizes
<1>3. \A i \in 1..Len(pushes) : pushes[i].id \in 1..newest
  BY DEF OnlySent
<1>4. /\ Len(pushes) \in Nat /\ Len(pushes') = Len(pushes) + 1
      /\ \A i \in 1..Len(pushes) : pushes'[i] = pushes[i]
      /\ pushes'[Len(pushes')].kind = kind /\ pushes'[Len(pushes')].id = newest + 1
  BY <1>1 DEF Appended
<1>5. \A i \in 1..Len(pushes') : i \in 1..Len(pushes) \/ i = Len(pushes')
  BY <1>4
<1>6. InOrder'
  <2> SUFFICES ASSUME NEW i \in 1..Len(pushes'), NEW j \in 1..Len(pushes'),
                      i < j, Newly(pushes'[i]), Newly(pushes'[j])
               PROVE  pushes'[i].id < pushes'[j].id
    BY DEF InOrder, Newly
  <2>1. i \in 1..Len(pushes)
    BY <1>4
  <2>2. CASE j \in 1..Len(pushes)
    BY <1>4, <2>1, <2>2 DEF QueueInv, InOrder, Newly
  <2>3. CASE j = Len(pushes')
    BY SMTT(30), <1>2, <1>3, <1>4, <2>1, <2>3
  <2> QED
    BY <1>5, <2>2, <2>3
<1>7. \A k : Queued(k)' <=> Queued(k) \/ k = newest + 1
  BY <1>1, Appending
<1>8. UpToNewest'
  <2> SUFFICES ASSUME NEW k \in 1..(newest + 1), NEW l \in 1..(newest + 1),
                      Queued(k)', k < l
               PROVE  Queued(l)'
    BY DEF UpToNewest
  <2>1. k \in 1..newest /\ Queued(k)
    BY <1>2, <1>7
  <2>2. l \in 1..newest \/ l = newest + 1
    BY <1>2
  <2> QED
    BY <1>7, <2>1, <2>2 DEF QueueInv, UpToNewest
<1>9. AllTold'
  <2> SUFFICES ASSUME NEW i \in 1..Len(pushes') PROVE Told(i)'
    BY DEF AllTold
  <2>1. CASE i \in 1..Len(pushes)
    <3>1. Told(i) /\ pushes'[i] = pushes[i]
      BY <1>4, <2>1 DEF QueueInv, AllTold
    <3>2. \A k : (DeleteAfter(i, k) => DeleteAfter(i, k)')
      BY <1>1, <2>1, Appending
    <3>3. \A k, w : EditAfter(i, k, w) => EditAfter(i, k, w)'
      BY <1>1, <2>1, Appending
    <3> QED
      BY <3>1, <3>2, <3>3 DEF Told, Newly
  <2>2. CASE i = Len(pushes')
    <3>1. version'[newest + 1] = 0 /\ newest + 1 \notin gone'
      BY <1>2 DEF ListParts
    <3> QED
      BY <1>4, <2>2, <3>1 DEF Told, Newly
  <2> QED
    BY <1>5, <2>1, <2>2
<1> QED
  BY <1>1, <1>6, <1>7, <1>8, <1>9, Appending

\* A message is edited or deleted.
LEMMA QueueChange ==
    ASSUME ListParts, OnlySent, QueueInv, NEW m \in Message, Edit(m) \/ Delete(m)
    PROVE  /\ InOrder' /\ UpToNewest' /\ AllTold'
           /\ \A k : Queued(k)' <=> Queued(k)
           /\ \A k : OwnQueued(k) => OwnQueued(k)'
           /\ \A k : Going(k)' <=> Going(k) \/ (Delete(m) /\ k = m)
           /\ \A k, w : Coming(k, w) => Coming(k, w)'
           /\ Edit(m) => \A w : w = version[m] + 1 => Coming(m, w)'
<1>1. PICK kind \in {"edit", "delete"}, v \in 0..MaxEdits :
        /\ Appended(kind, m, v)
        /\ kind = "edit" => Edit(m) /\ v = version[m] + 1
        /\ kind = "delete" => Delete(m) /\ v = version[m]
        /\ Edit(m) => kind = "edit"
  <2>1. CASE Edit(m)
    <3>1. version[m] + 1 \in 0..MaxEdits /\ Pushed("edit", m, version[m] + 1)
      BY <2>1, Editing DEF Edit
    <3>2. Appended("edit", m, version[m] + 1)
      BY <3>1, Queueing DEF Appended
    <3> QED
      BY <2>1, <3>1, <3>2
  <2>2. CASE Delete(m) /\ ~Edit(m)
    <3>1. version[m] \in 0..MaxEdits /\ Pushed("delete", m, version[m])
      BY <2>2 DEF Delete, ListParts
    <3>2. Appended("delete", m, version[m])
      BY <3>1, Queueing DEF Appended
    <3> QED
      BY <2>2, <3>1, <3>2
  <2> QED
    BY <2>1, <2>2
<1>2. ~ (Edit(m) /\ Delete(m))
  <2>1. SUFFICES ASSUME Edit(m), Delete(m) PROVE FALSE
    OBVIOUS
  <2> QED
    BY <2>1, Editing DEF Delete, ListParts
<1>4. /\ Len(pushes) \in Nat /\ Len(pushes') = Len(pushes) + 1
      /\ \A i \in 1..Len(pushes) : pushes'[i] = pushes[i]
      /\ pushes'[Len(pushes')].kind = kind /\ pushes'[Len(pushes')].id = m
      /\ pushes'[Len(pushes')].version = v
  BY <1>1 DEF Appended
<1>5. \A i \in 1..Len(pushes') : i \in 1..Len(pushes) \/ i = Len(pushes')
  BY <1>4
<1>6. InOrder'
  <2> SUFFICES ASSUME NEW i \in 1..Len(pushes'), NEW j \in 1..Len(pushes'),
                      i < j, Newly(pushes'[i]), Newly(pushes'[j])
               PROVE  pushes'[i].id < pushes'[j].id
    BY DEF InOrder, Newly
  <2>1. i \in 1..Len(pushes) /\ j \in 1..Len(pushes)
    BY <1>4, <1>5 DEF Newly
  <2> QED
    BY <1>4, <2>1 DEF QueueInv, InOrder, Newly
<1>7. \A k : Queued(k)' <=> Queued(k)
  BY <1>1, Appending
<1>8. UpToNewest' /\ newest' = newest
  BY <1>7 DEF QueueInv, UpToNewest, Edit, Delete
<1>9. AllTold'
  <2> SUFFICES ASSUME NEW i \in 1..Len(pushes') PROVE Told(i)'
    BY DEF AllTold
  <2>1. CASE i \in 1..Len(pushes)
    <3>1. Told(i) /\ pushes'[i] = pushes[i] /\ pushes[i] \in Push
      BY <1>4, <2>1 DEF QueueInv, AllTold, ListParts
    <3>2. \A k : (DeleteAfter(i, k) => DeleteAfter(i, k)')
      BY <1>1, <2>1, Appending
    <3>3. \A k, w : EditAfter(i, k, w) => EditAfter(i, k, w)'
      BY <1>1, <2>1, Appending
    <3>4. pushes[i].id \in Message /\ pushes[i].version \in Nat
      BY <3>1, Sizes DEF Push
    <3>5. CASE kind = "edit"
      <4>1. /\ version'[m] = version[m] + 1 /\ version[m] \in Nat /\ gone' = gone
            /\ \A k \in Message : k # m => version'[k] = version[k]
        BY <1>1, <3>5, Editing, Sizes DEF Edit
      <4>2. EditAfter(i, m, v)' /\ v = version'[m]
        BY <1>1, <2>1, <3>5, <4>1, Appending
      <4>3. version'[pushes[i].id] # version[pushes[i].id] => pushes[i].id = m
        BY <3>4, <4>1
      <4>4. pushes[i].kind = "edit" =>
                /\ pushes[i].version <= version'[pushes[i].id]
                /\ \/ pushes[i].version = version'[pushes[i].id]
                   \/ EditAfter(i, pushes[i].id, version[pushes[i].id])'
        <5>1. CASE pushes[i].id = m
          BY <2>1, <3>1, <3>4, <4>1, <4>2, <5>1, <1>4 DEF Told, EditAfter
        <5>2. CASE pushes[i].id # m
          <6>1. version[pushes[i].id] = version'[pushes[i].id] /\ version[pushes[i].id] \in Nat
            BY <3>4, <4>3, <5>2, Sizes DEF ListParts
          <6> QED
            BY <2>1, <3>1, <3>3, <3>4, <6>1, <1>4 DEF Told, EditAfter
        <5> QED
          BY <5>1, <5>2
      <4>5. Newly(pushes[i]) =>
                \/ version'[pushes[i].id] = 0
                \/ EditAfter(i, pushes[i].id, version[pushes[i].id])'
        <5>1. CASE pushes[i].id = m
          BY <2>1, <3>1, <4>2, <5>1, <1>4 DEF Told, EditAfter
        <5>2. CASE pushes[i].id # m
          <6>1. version[pushes[i].id] = version'[pushes[i].id]
            BY <4>3, <5>2
          <6> QED
            BY <2>1, <3>1, <3>3, <6>1, <1>4 DEF Told, EditAfter
        <5> QED
          BY <5>1, <5>2
      <4> QED
        BY <3>1, <3>2, <3>4, <4>1, <4>4, <4>5 DEF Told, Newly
    <3>6. CASE kind = "delete"
      <4>1. version' = version /\ gone' = gone \union {m}
        BY <1>1, <3>6 DEF Delete
      <4>2. DeleteAfter(i, m)'
        BY <1>1, <2>1, <3>6, Appending
      <4> QED
        BY <3>1, <3>2, <3>3, <3>4, <4>1, <4>2 DEF Told, Newly
    <3> QED
      BY <3>5, <3>6
  <2>2. CASE i = Len(pushes')
    <3>1. kind = "edit" => v = version'[m] /\ v \in Nat
      BY <1>1, Editing, Sizes
    <3>2. kind = "delete" => m \in gone'
      BY <1>1 DEF Delete
    <3> QED
      BY <1>4, <2>2, <3>1, <3>2 DEF Told, Newly
  <2> QED
    BY <1>5, <2>1, <2>2
<1>10. \A k : Going(k)' <=> Going(k) \/ (Delete(m) /\ k = m)
  BY <1>1, <1>2, Appending
<1>11. \A k, w : Coming(k, w) => Coming(k, w)'
  BY <1>1, Appending
<1>12. Edit(m) => \A w : w = version[m] + 1 => Coming(m, w)'
  BY <1>1, Appending
<1>13. \A k : OwnQueued(k) => OwnQueued(k)'
  BY <1>1, Appending
<1> QED
  BY <1>13, <1>6, <1>7, <1>8, <1>9, <1>10, <1>11, <1>12

\* A push is handled.
LEMMA QueueHandle ==
    ASSUME ListParts, OnlySent, QueueInv, Handle, NEW m \in Message, m = Head(pushes).id
    PROVE  /\ InOrder' /\ UpToNewest' /\ AllTold'
           /\ m \in 1..newest
           /\ Newly(Head(pushes)) =>
                /\ Queued(m) /\ ~Queued(m)' /\ lastKey # <<m, "new">>
                /\ \A k : Queued(k)' => m < k
                /\ version[m] = 0 \/ (\A w : w = version[m] => Coming(m, w)')
                /\ m \in gone => Going(m)'
           /\ Head(pushes).kind = "edit" =>
                /\ Head(pushes).version <= version[m]
                /\ \/ Head(pushes).version = version[m]
                   \/ \A w : w = version[m] => Coming(m, w)'
           /\ Head(pushes).kind = "delete" => m \in gone
<1>1. /\ Len(pushes) \in Nat /\ Len(pushes') = Len(pushes) - 1
      /\ 1 \in 1..Len(pushes) /\ Head(pushes) = pushes[1] /\ Head(pushes) \in Push
  BY Popping
<1>2. \A i \in 1..Len(pushes') : i + 1 \in 1..Len(pushes) /\ pushes'[i] = pushes[i + 1]
                                  /\ 1 < i + 1
  BY <1>1, Shifting
<1>3. newest' = newest /\ version' = version /\ gone' = gone
  BY DEF Handle
<1>4. newest \in Nat /\ m \in 1..newest
  BY <1>1, Sizes DEF OnlySent
<1>5. InOrder'
  <2> SUFFICES ASSUME NEW i \in 1..Len(pushes'), NEW j \in 1..Len(pushes'),
                      i < j, Newly(pushes'[i]), Newly(pushes'[j])
               PROVE  pushes'[i].id < pushes'[j].id
    BY DEF InOrder, Newly
  <2>1. i + 1 < j + 1
    BY <1>1
  <2> QED
    BY <1>2, <2>1 DEF QueueInv, InOrder
<1>6. ASSUME Newly(Head(pushes)), NEW k, Queued(k)' PROVE m < k
  <2>1. PICK i \in 1..Len(pushes') : Newly(pushes'[i]) /\ pushes'[i].id = k
    BY <1>6 DEF Queued
  <2>2. i + 1 \in 1..Len(pushes) /\ pushes'[i] = pushes[i + 1] /\ 1 < i + 1
    BY <1>2
  <2> QED
    BY <1>1, <1>6, <2>1, <2>2 DEF QueueInv, InOrder
<1>7. Told(1)
  BY <1>1 DEF QueueInv, AllTold
<1>8. Newly(Head(pushes)) =>
        /\ Queued(m) /\ ~Queued(m)' /\ lastKey # <<m, "new">>
        /\ version[m] = 0 \/ (\A w : w = version[m] => Coming(m, w)')
        /\ m \in gone => Going(m)'
  <2>1. Newly(Head(pushes)) => Queued(m)
    BY <1>1 DEF Queued
  <2>2. Newly(Head(pushes)) => ~Queued(m)'
    <3>1. m \in Nat
      BY <1>4
    <3> QED
      BY <1>6, <3>1
  <2>3. Newly(Head(pushes)) => lastKey # <<m, "new">>
    BY <2>1 DEF QueueInv, AnnouncedOnce
  <2>4. EditAfter(1, m, version[m]) => \A w : w = version[m] => Coming(m, w)'
    BY Shifting
  <2>5. DeleteAfter(1, m) => Going(m)'
    BY Shifting
  <2> QED
    BY <1>1, <1>7, <2>1, <2>2, <2>3, <2>4, <2>5 DEF Told
<1>9. Head(pushes).kind = "edit" =>
        /\ Head(pushes).version <= version[m]
        /\ \/ Head(pushes).version = version[m]
           \/ \A w : w = version[m] => Coming(m, w)'
  <2>1. EditAfter(1, m, version[m]) => \A w : w = version[m] => Coming(m, w)'
    BY Shifting
  <2>2. Head(pushes).version \in Nat /\ version[m] \in Nat
    BY <1>1, Sizes DEF Push, ListParts
  <2> QED
    BY <1>1, <1>7, <2>1, <2>2 DEF Told
<1>10. Head(pushes).kind = "delete" => m \in gone
  BY <1>1, <1>7 DEF Told
<1>11. AllTold'
  <2> SUFFICES ASSUME NEW i \in 1..Len(pushes') PROVE Told(i)'
    BY DEF AllTold
  <2>1. Told(i + 1) /\ pushes'[i] = pushes[i + 1]
    BY <1>2 DEF QueueInv, AllTold
  <2>2. \A k : (DeleteAfter(i + 1, k) => DeleteAfter(i, k)')
    BY Shifting
  <2>3. \A k, w : EditAfter(i + 1, k, w) => EditAfter(i, k, w)'
    BY Shifting
  <2>4. EditAfter(i + 1, pushes[i + 1].id, version[pushes[i + 1].id])
            => EditAfter(i, pushes[i].id, version[pushes[i].id])'
    BY <1>3, <2>1, <2>3 DEF EditAfter
  <2>5. DeleteAfter(i + 1, pushes[i + 1].id) => DeleteAfter(i, pushes[i].id)'
    BY <1>3, <2>1, <2>2 DEF DeleteAfter
  <2> QED
    BY <1>3, <2>1, <2>4, <2>5 DEF Told, Newly
<1>12. UpToNewest'
  <2> SUFFICES ASSUME NEW k \in 1..newest, NEW l \in 1..newest, Queued(k)', k < l
               PROVE  Queued(l)'
    BY <1>3 DEF UpToNewest
  <2>1. Queued(k)
    BY Shifting
  <2>2. Queued(l)
    BY <2>1 DEF QueueInv, UpToNewest
  <2>3. CASE Newly(Head(pushes)) /\ m = l
    <3>1. m < k
      BY <1>6, <2>3
    <3> QED
      BY <1>4, <2>3, <3>1
  <2> QED
    BY <2>2, <2>3, Shifting
<1> QED
  BY <1>4, <1>5, <1>6, <1>8, <1>9, <1>10, <1>11, <1>12

\* A message that was not sent was not edited.
LEMMA Unedited ==
    ASSUME ListParts, OnlySent, newest < MaxMessages
    PROVE  version[newest + 1] = 0
  BY Sending DEF OnlySent

LEMMA QueueNext ==
    ASSUME ListParts, OnlySent, QueueInv, [ListNext]_listVars
    PROVE  QueueInv'
<1>1. ASSUME NEW kind \in {"new", "own"}, Arrive(kind) PROVE QueueInv'
  <2>1. /\ InOrder' /\ UpToNewest' /\ AllTold'
        /\ \A k : Queued(k)' <=> Queued(k) \/ k = newest + 1
        /\ \A k : OwnQueued(k) => OwnQueued(k)'
    BY <1>1, QueueSend, Unedited DEF Arrive
  <2>2. AnnouncedOnce'
    BY <1>1, <2>1, SentGrows, Sizes DEF Arrive, QueueInv, AnnouncedOnce
  <2>3. Waiting'
    BY <1>1, <2>1 DEF Arrive, QueueInv, Waiting
  <2> QED
    BY <2>1, <2>2, <2>3 DEF QueueInv
<1>2. CASE Send
  <2>1. /\ InOrder' /\ UpToNewest' /\ AllTold'
        /\ \A k : Queued(k)' <=> Queued(k) \/ k = newest + 1
        /\ \A k : OwnQueued(k) => OwnQueued(k)'
        /\ \A k : k = newest + 1 => OwnQueued(k)'
    BY <1>2, QueueSend, Unedited DEF Send
  <2>2. AnnouncedOnce'
    BY <1>2, <2>1, SentGrows, Sizes DEF Send, QueueInv, AnnouncedOnce
  <2>3. Waiting'
    BY <1>2, <2>1 DEF Send, QueueInv, Waiting
  <2> QED
    BY <2>1, <2>2, <2>3 DEF QueueInv
<1>3. ASSUME NEW m \in Message, Edit(m) \/ Delete(m) PROVE QueueInv'
  <2>1. /\ InOrder' /\ UpToNewest' /\ AllTold'
        /\ \A k : Queued(k)' <=> Queued(k)
        /\ \A k : OwnQueued(k) => OwnQueued(k)'
    BY <1>3, QueueChange
  <2>2. UNCHANGED <<lastKey, newest, sending, fresh, allNewer>>
    BY <1>3 DEF Edit, Delete
  <2>3. AnnouncedOnce' /\ Waiting'
    BY <2>1, <2>2 DEF QueueInv, Waiting, AnnouncedOnce
  <2> QED
    BY <2>1, <2>3 DEF QueueInv
<1>4. CASE Handle
  <2>0. PICK m \in Message : m = Head(pushes).id
    BY <1>4, Popping DEF Push
  <2>1. /\ InOrder' /\ UpToNewest' /\ AllTold'
        /\ m \in 1..newest
        /\ Newly(Head(pushes)) => ~Queued(m)' /\ lastKey # <<m, "new">>
    BY <1>4, <2>0, QueueHandle
  <2>2. newest' = newest /\ sending' = sending /\ Head(pushes) \in Push
    BY <1>4, Popping DEF Handle
  <2>3. \A k : /\ Queued(k)' => Queued(k)
               /\ OwnQueued(k) => OwnQueued(k)' \/ (Head(pushes).kind = "own" /\ k = m)
    BY <1>4, <2>0, Shifting
  <2>4. CASE Newly(Head(pushes))
    <3>1. lastKey' = <<m, "new">>
      BY <1>4, <2>0, <2>1, <2>4, NewStep DEF Newly
    <3>2. AnnouncedOnce'
      BY <2>1, <2>2, <2>4, <3>1 DEF AnnouncedOnce
    <3>3. Waiting'
      <4> SUFFICES ASSUME NEW k \in sending
                   PROVE  OwnQueued(k)' \/ k \in fresh'
        BY <2>2 DEF Waiting
      <4>1. OwnQueued(k) \/ k \in fresh
        BY DEF QueueInv, Waiting
      <4>2. fresh \subseteq fresh' /\ (Head(pushes).kind = "own" => m \in fresh')
        BY <1>4, <2>0, <2>1, <2>4, NewStep DEF Newly
      <4> QED
        BY <2>3, <4>1, <4>2
    <3> QED
      BY <2>1, <3>2, <3>3 DEF QueueInv
  <2>5. CASE ~Newly(Head(pushes))
    <3>1. /\ lastKey' = lastKey \/ lastKey' = <<m, "edit">>
          /\ UNCHANGED <<allNewer, fresh>>
      BY <1>4, <2>0, <2>2, <2>5, EditStep, DeleteStep DEF Newly, Push
    <3>2. AnnouncedOnce' /\ Waiting'
      BY <2>2, <2>3, <2>5, <3>1 DEF QueueInv, AnnouncedOnce, Waiting, Newly
    <3> QED
      BY <2>1, <3>2 DEF QueueInv
  <2> QED
    BY <2>4, <2>5
<1>5. ASSUME NEW m \in Message, Sent(m) PROVE QueueInv'
  <2>1. /\ ServerStill /\ lastKey' = <<m, "sent">> /\ sending' \subseteq sending
        /\ fresh \subseteq fresh' /\ allNewer' = TRUE /\ newest' = newest
    BY <1>5 DEF Sent, ServerStill
  <2>2. AnnouncedOnce' /\ Waiting'
    BY <2>1, StillQueue DEF QueueInv, AnnouncedOnce, Waiting
  <2> QED
    BY <2>1, <2>2, StillQueue DEF QueueInv
<1>6. ASSUME ServerStill, UNCHANGED lastKey, sending' \subseteq sending, fresh \subseteq fresh'
      PROVE  QueueInv'
  <2>1. AnnouncedOnce' /\ Waiting'
    BY <1>6, StillQueue DEF QueueInv, AnnouncedOnce, Waiting, ServerStill
  <2> QED
    BY <1>6, <2>1, StillQueue DEF QueueInv
<1>7. CASE NotSent \/ LoadOlder \/ ReadFiles \/ Cached \/ AnswerOlder \/ FailOlder
           \/ LoadNewer \/ AnswerNewer \/ FailNewer \/ UNCHANGED listVars
  <2>1. ServerStill /\ UNCHANGED <<lastKey, sending, fresh, allNewer>>
    BY <1>7 DEF listVars, ServerStill, NotSent, LoadOlder, ReadFiles, Cached, AnswerOlder,
       FailOlder, LoadNewer, AnswerNewer, FailNewer
  <2> QED
    BY <1>6, <2>1
<1>9. CASE MergeOlder
  BY <1>6, <1>9 DEF MergeOlder, ServerStill
<1>10. CASE Jump
  BY <1>6, <1>10 DEF Jump, ServerStill
<1>8. CASE MergeNewer
  BY <1>6, <1>8 DEF MergeNewer, ServerStill
<1>11. ASSUME NEW m \in Message, SendFails(m) PROVE QueueInv'
  BY <1>6, <1>11 DEF SendFails, ServerStill
<1> QED
  BY <1>11, <1>1, <1>2, <1>3, <1>4, <1>5, <1>7, <1>8, <1>9, <1>10 DEF ListNext

-----------------------------------------------------------------------------
(* What is known is not more than there is *)

\* c is what the server had of m at some time.
Knows(c, m) == c # None => c.version <= version[m] /\ (c.deleted => m \in gone)
PageKnows(page) == \A m \in In(page) : page[m] <= version[m]
ReadKnows(page) ==
    \A m \in DOMAIN page : page[m].version <= version[m] /\ (page[m].deleted => m \in gone)
KnownInv ==
    /\ \A m \in Message : Knows(list[m], m)
    /\ \A m \in Message : Knows(stored[m], m)
    /\ OlderIs("read") => ReadKnows(older.page)
    /\ OlderIs("answer") => PageKnows(older.page)
    /\ NewerIs("answer") => PageKnows(newer.page)
    /\ fresh \subseteq Shown

\* Messages are edited and deleted, and that is not taken back.
LEMMA ServerGrows ==
    ASSUME ListParts, [ListNext]_listVars, NEW m \in Message
    PROVE  /\ version[m] \in Nat /\ version'[m] \in Nat /\ version[m] <= version'[m]
           /\ gone \subseteq gone'
<1>1. version[m] \in Nat
  BY Sizes DEF ListParts
<1>2. ASSUME NEW k \in Message, Edit(k) PROVE version'[m] \in Nat /\ version[m] <= version'[m]
  <2>1. version'[m] = version[m] \/ version'[m] = version[m] + 1
    BY <1>2, Editing
  <2> QED
    BY <1>1, <2>1
<1>3. ASSUME version' = version PROVE version'[m] \in Nat /\ version[m] <= version'[m]
  BY <1>1, <1>3
<1>4. version' = version \/ \E k \in Message : Edit(k)
  BY DEF ListNext, listVars, Arrive, Send, NotSent, SendFails, Sent, Delete, Handle,
     LoadOlder, ReadFiles, Cached, AnswerOlder, MergeOlder, FailOlder, LoadNewer, AnswerNewer,
     MergeNewer, FailNewer, Jump
<1>5. gone \subseteq gone'
  BY DEF ListNext, listVars, Arrive, Send, NotSent, SendFails, Sent, Edit, Delete,
     Handle, LoadOlder, ReadFiles, Cached, AnswerOlder, MergeOlder, FailOlder, LoadNewer, AnswerNewer,
     MergeNewer, FailNewer, Jump
<1> QED
  BY <1>1, <1>2, <1>3, <1>4, <1>5

\* The actions that change what is shown or stored.
LEMMA ListMoves ==
    ASSUME ListParts, [ListNext]_listVars
    PROVE  \/ Cached \/ MergeOlder \/ MergeNewer \/ Handle
           \/ \E k \in Message : Sent(k)
           \/ UNCHANGED <<list, stored, fresh>>
  BY DEF ListNext, listVars, Arrive, Send, NotSent, SendFails, Edit, Delete,
     LoadOlder, ReadFiles, AnswerOlder, FailOlder, LoadNewer, AnswerNewer, FailNewer, Jump

\* The last message is shown, unless it was edited.
LEMMA FreshAtFirst ==
    ASSUME ListInit
    PROVE  \A m \in Message :
                IF m \in fresh THEN Becomes(list[m], 0, FALSE) /\ version[m] = 0 /\ m = newest
                ELSE list[m] = None
<1>1. [version |-> 0, deleted |-> FALSE] \in Contents
  <2>1. 0 \in 0..MaxEdits
    BY ListAssumptions
  <2> QED
    BY <2>1, Cells
<1>2. Becomes([version |-> 0, deleted |-> FALSE], 0, FALSE)
  BY <1>1, Cells DEF Becomes, Cell
<1>3. \A m \in fresh : m \in Message /\ version[m] = 0 /\ m = newest
  BY ReplayedKey DEF ListInit
<1>4. \A m \in Message : list[m] =
        IF m \in fresh THEN [version |-> 0, deleted |-> FALSE] ELSE None
  BY DEF ListInit
<1> QED
  BY <1>2, <1>3, <1>4

LEMMA KnownInit == ListInit => KnownInv
<1> SUFFICES ASSUME ListInit PROVE KnownInv
  OBVIOUS
<1>0. ListParts
  BY ListTypesInit, ListInParts
<1>1. \A m \in Message : version[m] \in Nat
  BY <1>0, Sizes DEF ListParts
<1>2. \A m \in Message : stored[m] = None \/
        (stored[m].version \in {0, version[m]} /\ stored[m].deleted = FALSE)
  BY DEF ListInit
<1>4. \A m \in Message : IF m \in fresh THEN Becomes(list[m], 0, FALSE) ELSE list[m] = None
  BY FreshAtFirst
<1>5. fresh \subseteq Shown
  <2>1. fresh \subseteq Message
    BY DEF ListInit
  <2> QED
    BY <1>4, <2>1 DEF Shown, Becomes
<1>6. ~OlderIs("read") /\ ~OlderIs("answer") /\ ~NewerIs("answer")
  BY DEF ListInit, OlderIs, NewerIs
<1> QED
  BY <1>1, <1>2, <1>4, <1>5, <1>6 DEF KnownInv, Knows, Becomes

\* The messages that are shown stay, and those that are told of are shown.
LEMMA ShownStay ==
    ASSUME ListParts, KnownInv, [ListNext]_listVars
    PROVE  Shown \subseteq Shown' /\ fresh \subseteq fresh' /\ fresh' \subseteq Shown'
<1>0. \A l : {m \in Message : l[m] # None} \subseteq Message
  OBVIOUS
<1>1. CASE Cached
  <2>1. Shown \subseteq Shown' /\ fresh' = fresh
    BY <1>1, CachedStep DEF FromFile, Becomes, Shown, Cached
  <2> QED
    BY <2>1 DEF KnownInv
<1>2. CASE MergeOlder
  <2>1. Shown \subseteq Shown' /\ In(older.page) \subseteq Shown'
    BY <1>2, OlderStep DEF Merges, Becomes, Shown, In
  <2> QED
    BY <1>2, <2>1 DEF KnownInv, MergeOlder
<1>3. CASE MergeNewer
  <2>1. Shown \subseteq Shown' /\ In(newer.page) \subseteq Shown'
    BY <1>3, NewerStep DEF Merges, Becomes, Shown, In
  <2> QED
    BY <1>3, <2>1 DEF KnownInv, MergeNewer
<1>4. CASE Handle
  <2>0. PICK m \in Message : m = Head(pushes).id
    BY <1>4, Popping DEF Push
  <2>1. CASE Head(pushes).kind \in {"new", "own"}
    <3>1. \/ list' = list /\ fresh' = fresh
          \/ Learns(list, m, 0) /\ fresh' = fresh \union {m}
      BY <1>4, <2>0, <2>1, NewStep
    <3> QED
      BY <3>1 DEF KnownInv, Learns, Becomes, Shown
  <2>2. CASE Head(pushes).kind = "edit"
    <3>1. fresh' = fresh /\ (list' = list \/ \E v : Learns(list, m, v))
      BY <1>4, <2>0, <2>2, EditStep
    <3> QED
      BY <3>1 DEF KnownInv, Learns, Becomes, Shown
  <2>3. CASE Head(pushes).kind = "delete"
    <3>1. fresh' = fresh /\ Marks(list, m)
      BY <1>4, <2>0, <2>3, DeleteStep
    <3> QED
      BY <3>1 DEF KnownInv, Marks, Becomes, Shown
  <2> QED
    BY <1>4, <2>1, <2>2, <2>3, Popping DEF Push
<1>5. ASSUME NEW m \in Message, Sent(m)
      PROVE  Shown \subseteq Shown' /\ fresh \subseteq fresh' /\ fresh' \subseteq Shown'
  <2>1. Shown \subseteq Shown' /\ m \in Shown'
    BY <1>5, SentStep DEF Becomes, Shown
  <2> QED
    BY <1>5, <2>1 DEF KnownInv, Sent
<1>6. CASE UNCHANGED <<list, fresh>>
  BY <1>6 DEF KnownInv, Shown
<1> QED
  BY <1>1, <1>2, <1>3, <1>4, <1>5, <1>6, ListMoves

LEMMA KnownNext ==
    ASSUME ListParts, OnlySent, QueueInv, KnownInv, [ListNext]_listVars
    PROVE  KnownInv'
<1>1. fresh' \subseteq Shown'
  BY ShownStay
<1>3. OlderIs("answer")' => PageKnows(older.page)'
  <2>1. CASE AnswerOlder
    <3>1. /\ \A m \in In(older'.page) : older'.page[m] = version[m]
          /\ In(older'.page) \subseteq Message /\ version' = version
      BY <2>1, AnswerOlderStep, Sizes DEF AnswerOlder
    <3>2. \A m \in Message : version[m] \in Nat
      BY Sizes DEF ListParts
    <3> QED
      BY <3>1, <3>2 DEF PageKnows, In
  <2>2. CASE ~AnswerOlder
    <3> SUFFICES ASSUME OlderIs("answer"), older' = older PROVE PageKnows(older.page)'
      BY <2>2, OlderMoves
    <3>1. older.page \in Answer
      BY OlderCalls DEF OlderIs, ListParts, AnsweredOlder
    <3>2. ASSUME NEW m \in In(older.page) PROVE older.page[m] <= version'[m]
      <4>1. m \in Message /\ older.page[m] \in Nat
        BY <3>1, Sizes DEF In, Answer
      <4>2. version[m] \in Nat /\ version'[m] \in Nat /\ version[m] <= version'[m]
        BY <4>1, ServerGrows
      <4>3. older.page[m] <= version[m]
        BY DEF KnownInv, PageKnows
      <4> QED
        BY <4>1, <4>2, <4>3
    <3> QED
      BY <3>2 DEF PageKnows, In
  <2> QED
    BY <2>1, <2>2
<1>4. NewerIs("answer")' => PageKnows(newer.page)'
  <2>1. CASE AnswerNewer
    <3>1. /\ \A m \in In(newer'.page) : newer'.page[m] = version[m]
          /\ In(newer'.page) \subseteq Message /\ version' = version
      BY <2>1, AnswerNewerStep, Sizes DEF AnswerNewer
    <3>2. \A m \in Message : version[m] \in Nat
      BY Sizes DEF ListParts
    <3> QED
      BY <3>1, <3>2 DEF PageKnows, In
  <2>2. CASE ~AnswerNewer
    <3> SUFFICES ASSUME NewerIs("answer"), newer' = newer PROVE PageKnows(newer.page)'
      BY <2>2, NewerMoves
    <3>1. newer.page \in Answer
      BY NewerCalls DEF NewerIs, ListParts, AnsweredNewer
    <3>2. ASSUME NEW m \in In(newer.page) PROVE newer.page[m] <= version'[m]
      <4>1. m \in Message /\ newer.page[m] \in Nat
        BY <3>1, Sizes DEF In, Answer
      <4>2. version[m] \in Nat /\ version'[m] \in Nat /\ version[m] <= version'[m]
        BY <4>1, ServerGrows
      <4>3. newer.page[m] <= version[m]
        BY DEF KnownInv, PageKnows
      <4> QED
        BY <4>1, <4>2, <4>3
    <3> QED
      BY <3>2 DEF PageKnows, In
  <2> QED
    BY <2>1, <2>2
<1>2. OlderIs("read")' => ReadKnows(older.page)'
  <2>1. CASE ReadFiles
    <3>1. \A m \in DOMAIN older'.page :
            /\ m \in Message /\ stored[m] # None
            /\ older'.page[m] \in Contents
            /\ older'.page[m].version <= stored[m].version
            /\ older'.page[m].deleted => stored[m].deleted
      BY <2>1, ReadStep
    <3>2. version' = version /\ gone' = gone
      BY <2>1 DEF ReadFiles
    <3>3. ASSUME NEW m \in DOMAIN older'.page
          PROVE  older'.page[m].version <= version[m] /\ (older'.page[m].deleted => m \in gone)
      <4>1. stored[m] \in Cell /\ stored[m] # None /\ older'.page[m] \in Cell
            /\ older'.page[m] # None
        BY <3>1, Cells DEF ListParts, Cell
      <4>2. stored[m].version <= version[m] /\ (stored[m].deleted => m \in gone)
        BY <3>1, <4>1 DEF KnownInv, Knows
      <4>3. stored[m].version \in Nat /\ older'.page[m].version \in Nat /\ version[m] \in Nat
        <5>1. \A v \in 0..MaxEdits : v \in Nat
          OBVIOUS
        <5> QED
          BY <3>1, <4>1, <5>1, Cells DEF ListParts
      <4> QED
        BY <3>1, <4>2, <4>3
    <3> QED
      BY <3>2, <3>3 DEF ReadKnows
  <2>2. CASE ~ReadFiles
    <3> SUFFICES ASSUME OlderIs("read"), older' = older PROVE ReadKnows(older.page)'
      BY <2>2, ReadMoves
    <3>1. older.page \in FilePage
      BY OlderCalls DEF OlderIs, ListParts, ReadOlder
    <3>2. ASSUME NEW m \in DOMAIN older.page
          PROVE  older.page[m].version <= version'[m] /\ (older.page[m].deleted => m \in gone')
      <4>1. m \in Message /\ older.page[m] \in Cell /\ older.page[m] # None
        BY <3>1, Cells DEF FilePage, Cell
      <4>2. version[m] \in Nat /\ version'[m] \in Nat /\ version[m] <= version'[m]
            /\ gone \subseteq gone'
        BY <4>1, ServerGrows
      <4>3. older.page[m].version <= version[m] /\ (older.page[m].deleted => m \in gone)
        BY DEF KnownInv, ReadKnows
      <4>4. older.page[m].version \in Nat
        <5>1. \A v \in 0..MaxEdits : v \in Nat
          OBVIOUS
        <5> QED
          BY <4>1, <5>1, Cells
      <4> QED
        BY <4>2, <4>3, <4>4
    <3> QED
      BY <3>2 DEF ReadKnows
  <2> QED
    BY <2>1, <2>2
<1>5. ASSUME NEW m \in Message PROVE Knows(list[m], m)' /\ Knows(stored[m], m)'
  <2>0. /\ Knows(list[m], m) /\ Knows(stored[m], m)
        /\ list[m] \in Cell /\ stored[m] \in Cell
    BY DEF KnownInv, ListParts
  <2>1. CASE Cached
    <3>1. version' = version /\ gone' = gone /\ stored' = stored
      BY <2>1 DEF Cached
    <3>2. (m \in DOMAIN older.page /\ FromFile(m)) \/ list'[m] = list[m]
      BY <2>1, CachedStep
    <3>3. m \in DOMAIN older.page =>
            older.page[m].version <= version[m] /\ (older.page[m].deleted => m \in gone)
      BY <2>1, CachedStep DEF KnownInv, ReadKnows
    <3> QED
      BY <2>0, <3>1, <3>2, <3>3 DEF Knows, FromFile, Becomes
  <2>2. CASE MergeOlder
    <3>1. version' = version /\ gone' = gone
      BY <2>2 DEF MergeOlder
    <3>2. Merges(m, older.page) /\ (older.page[m] # None => older.page[m] <= version[m])
      BY <2>2, OlderStep DEF KnownInv, PageKnows, OlderIs, MergeOlder, In
    <3>3. Knows(list[m], m)'
      BY <2>0, <3>1, <3>2 DEF Knows, Merges, Becomes
    <3>4. \/ stored'[m] = stored[m]
          \/ /\ older.page[m] # None /\ list'[m] # None
             /\ Becomes(stored'[m], older.page[m], list'[m].deleted \/
                                (stored[m] # None /\ stored[m].deleted))
      BY <2>2, Filing
    <3> QED
      BY <2>0, <3>1, <3>2, <3>3, <3>4 DEF Knows, Becomes
  <2>3. CASE MergeNewer
    <3>1. version' = version /\ gone' = gone /\ stored' = stored
      BY <2>3 DEF MergeNewer
    <3>2. Merges(m, newer.page) /\ (newer.page[m] # None => newer.page[m] <= version[m])
      BY <2>3, NewerStep DEF KnownInv, PageKnows, NewerIs, MergeNewer, In
    <3> QED
      BY <2>0, <3>1, <3>2 DEF Knows, Merges, Becomes
  <2>4. CASE Handle
    <3>0. PICK n \in Message : n = Head(pushes).id
      BY <2>4, Popping DEF Push
    <3>1. version' = version /\ gone' = gone /\ version[m] \in Nat
      BY <2>4, ServerGrows DEF Handle
    <3>2. CASE Head(pushes).kind \in {"new", "own"}
      <4>1. stored' = stored /\ (list' = list \/ Learns(list, n, 0))
        BY <2>4, <3>0, <3>2, NewStep
      <4> QED
        BY <2>0, <3>1, <4>1 DEF Knows, Learns, Becomes
    <3>3. CASE Head(pushes).kind = "edit"
      <4>1. Head(pushes).version <= version[n]
        BY <2>4, <3>0, <3>3, QueueHandle
      <4>2. Learns(stored, n, Head(pushes).version)
            /\ (list' = list \/ Learns(list, n, Head(pushes).version))
        BY <2>4, <3>0, <3>3, EditStep
      <4> QED
        BY <2>0, <3>1, <4>1, <4>2 DEF Knows, Learns, Becomes
    <3>4. CASE Head(pushes).kind = "delete"
      <4>1. n \in gone
        BY <2>4, <3>0, <3>4, QueueHandle
      <4>2. Marks(stored, n) /\ Marks(list, n)
        BY <2>4, <3>0, <3>4, DeleteStep
      <4> QED
        BY <2>0, <3>1, <4>1, <4>2 DEF Knows, Marks, Becomes
    <3> QED
      BY <2>4, <3>2, <3>3, <3>4, Popping DEF Push
  <2>5. ASSUME NEW n \in Message, Sent(n) PROVE Knows(list[m], m)' /\ Knows(stored[m], m)'
    <3>1. version' = version /\ gone' = gone /\ version[m] \in Nat
      BY <2>5, ServerGrows DEF Sent
    <3>2. /\ Becomes(list'[n], 0, FALSE)
          /\ \A k \in Message : k # n => list'[k] = list[k]
          /\ Learns(stored, n, 0)
      BY <2>5, SentStep
    <3> QED
      BY <2>0, <3>1, <3>2 DEF Knows, Learns, Becomes
  <2>6. CASE UNCHANGED <<list, stored>>
    <3>1. /\ version[m] \in Nat /\ version'[m] \in Nat /\ version[m] <= version'[m]
          /\ gone \subseteq gone'
      BY ServerGrows
    <3>2. \A v \in 0..MaxEdits : v \in Nat
      BY Sizes
    <3>3. /\ list[m] # None => list[m].version \in Nat
          /\ stored[m] # None => stored[m].version \in Nat
      BY <2>0, <3>2, Cells
    <3> QED
      BY <2>0, <2>6, <3>1, <3>3 DEF Knows
  <2> QED
    BY <2>1, <2>2, <2>3, <2>4, <2>5, <2>6, ListMoves
<1> QED
  BY <1>1, <1>2, <1>3, <1>4, <1>5 DEF KnownInv

-----------------------------------------------------------------------------
(* What is told is current, or what changes it is on its way *)

\* The last edit of m is on its way.
Pending(m) == Coming(m, version[m])
Orderly == upset \intersect {"late", "repeated", "stale"} = {}
ShownDeleted(m) == list[m] # None /\ list[m].deleted
Current(m) == 
    /\ list[m].version = version[m] \/ Pending(m)
    /\ m \in gone => ShownDeleted(m) \/ Going(m)
CurrentPage(page) == \A m \in In(page) :
    /\ page[m] = version[m] \/ Pending(m)
    /\ m \in gone => ShownDeleted(m) \/ Going(m)
\* Of what was told, what is shown or about to be merged is current, or the
\* change is announced still.
FreshInv == Orderly =>
    /\ \A m \in fresh : Current(m)
    /\ OlderIs("answer") => CurrentPage(older.page)
    /\ NewerIs("answer") => CurrentPage(newer.page)

LEMMA UpsetGrows ==
    ASSUME ListParts, [ListNext]_listVars
    PROVE  upset \subseteq upset'
<1>1. CASE Handle
  <2>1. CASE Head(pushes).kind \in {"new", "own"}
    BY <1>1, <2>1, NewStep
  <2>2. CASE Head(pushes).kind = "edit"
    BY <1>1, <2>2, EditStep
  <2>3. CASE Head(pushes).kind = "delete"
    BY <1>1, <2>3, DeleteStep
  <2> QED
    BY <1>1, <2>1, <2>2, <2>3, Popping DEF Push
<1> QED
  BY <1>1 DEF ListNext, listVars, Arrive, Send, NotSent, SendFails, Sent, Drafted,
     Edit, Delete, LoadOlder, ReadFiles, Cached, AnswerOlder, MergeOlder, FailOlder, LoadNewer, AnswerNewer,
     MergeNewer, FailNewer, Jump

\* What the server does is told.
LEMMA ServerTells ==
    ASSUME ListParts, OnlySent, QueueInv,
           \/ Arrive("new") \/ Arrive("own") \/ Send
           \/ \E m \in Message : Edit(m) \/ Delete(m),
           NEW k \in Message
    PROVE  /\ version'[k] = version[k] \/ Pending(k)'
           /\ Pending(k) => Pending(k)'
           /\ Going(k) => Going(k)'
           /\ k \in gone' => k \in gone \/ Going(k)'
           /\ UNCHANGED <<list, stored, older, newer, fresh>>
<1>1. ASSUME NEW kind \in {"new", "own"}, Arrive(kind) \/ Send
      PROVE  /\ version' = version /\ gone' = gone
             /\ Pending(k) => Pending(k)'
             /\ Going(k) => Going(k)'
  <2>1. version' = version /\ gone' = gone
    BY <1>1 DEF Arrive, Send
  <2>2. PICK kind2 \in {"new", "own"} :
            /\ newest < MaxMessages /\ version[newest + 1] = 0
            /\ newest' = newest + 1 /\ Pushed(kind2, newest + 1, 0)
    BY <1>1, Unedited DEF Arrive, Send
  <2>3. Going(k)' <=> Going(k)
    BY <2>1, <2>2, QueueSend
  <2>4. \A w : Coming(k, w)' <=> Coming(k, w)
    BY <2>1, <2>2, QueueSend
  <2>5. Pending(k)' <=> Pending(k)
    BY <2>1, <2>4 DEF Pending, Coming
  <2> QED
    BY <2>1, <2>3, <2>5
<1>2. ASSUME NEW m \in Message, Edit(m) \/ Delete(m)
      PROVE  /\ version'[k] = version[k] \/ Pending(k)'
             /\ Pending(k) => Pending(k)'
             /\ Going(k) => Going(k)'
             /\ k \in gone' => k \in gone \/ Going(k)'
  <2>1. /\ Going(k)' <=> Going(k) \/ (Delete(m) /\ k = m)
        /\ \A w : Coming(k, w) => Coming(k, w)'
        /\ Edit(m) => \A w : w = version[m] + 1 => Coming(m, w)'
    BY <1>2, QueueChange
  <2>2. CASE Edit(m)
    <3>1. /\ version'[m] = version[m] + 1 /\ gone' = gone
          /\ \A n \in Message : n # m => version'[n] = version[n]
      BY <2>2, Editing DEF Edit
    <3>2. Pending(m)'
      BY <2>1, <2>2, <3>1 DEF Pending, Coming
    <3>3. k # m /\ Pending(k) => Pending(k)'
      BY <2>1, <3>1 DEF Pending, Coming
    <3> QED
      BY <2>1, <3>1, <3>2, <3>3
  <2>3. CASE Delete(m)
    <3>1. version' = version /\ gone' = gone \union {m}
      BY <2>3 DEF Delete
    <3>2. Pending(k) => Pending(k)'
      BY <2>1, <3>1 DEF Pending, Coming
    <3> QED
      BY <2>1, <2>3, <3>1, <3>2
  <2> QED
    BY <1>2, <2>2, <2>3
<1>3. UNCHANGED <<list, stored, older, newer, fresh>>
  BY DEF Arrive, Send, Edit, Delete
<1> QED
  BY <1>1, <1>2, <1>3

LEMMA HandleTells ==
    ASSUME ListParts, OnlySent, QueueInv, Handle,
           NEW m \in Message, m = Head(pushes).id, NEW k \in Message
    PROVE  /\ version' = version /\ gone' = gone
           /\ (k = m => Head(pushes).kind # "edit") /\ Pending(k) => Pending(k)'
           /\ (k = m => Head(pushes).kind # "delete") /\ Going(k) => Going(k)'
           /\ Newly(Head(pushes)) => /\ version[m] = 0 \/ Pending(m)'
                                     /\ m \in gone => Going(m)'
           /\ Head(pushes).kind = "edit" =>
                Head(pushes).version = version[m] \/ Pending(m)'
<1>1. version' = version /\ gone' = gone
  BY DEF Handle
<1>2. \A w : Coming(k, w) => Coming(k, w)' \/ EditOf(Head(pushes), k, w)
  BY Shifting
<1>3. (k = m => Head(pushes).kind # "edit") /\ Pending(k) => Pending(k)'
  BY <1>1, <1>2 DEF Pending, Coming, EditOf
<1>4. (k = m => Head(pushes).kind # "delete") /\ Going(k) => Going(k)'
  BY Shifting DEF DeleteOf
<1>5. (\A w : w = version[m] => Coming(m, w)') => Pending(m)'
  BY <1>1 DEF Pending, Coming
<1>6. Newly(Head(pushes)) => /\ version[m] = 0 \/ Pending(m)'
                             /\ m \in gone => Going(m)'
  BY <1>5, QueueHandle
<1>7. Head(pushes).kind = "edit" => Head(pushes).version = version[m] \/ Pending(m)'
  BY <1>5, QueueHandle
<1> QED
  BY <1>1, <1>3, <1>4, <1>6, <1>7

\* What is shown as deleted stays so.
LEMMA DeletedStays ==
    ASSUME ListParts, [ListNext]_listVars, Orderly', NEW k \in Message, ShownDeleted(k)
    PROVE  ShownDeleted(k)'
<1>1. list[k] # None /\ list[k].deleted
  BY DEF ShownDeleted
<1>2. CASE Cached
  <2>1. FromFile(k) \/ list'[k] = list[k]
    BY <1>2, CachedStep
  <2> QED
    BY <1>1, <2>1 DEF FromFile, Becomes, ShownDeleted
<1>3. CASE MergeOlder
  <2>1. Merges(k, older.page)
    BY <1>3, OlderStep
  <2> QED
    BY <1>1, <2>1 DEF Merges, Becomes, ShownDeleted
<1>4. CASE MergeNewer
  <2>1. Merges(k, newer.page)
    BY <1>4, NewerStep
  <2> QED
    BY <1>1, <2>1 DEF Merges, Becomes, ShownDeleted
<1>5. CASE Handle
  <2>0. PICK m \in Message : m = Head(pushes).id
    BY <1>5, Popping DEF Push
  <2>1. CASE Head(pushes).kind \in {"new", "own"}
    <3>1. list' = list \/ Learns(list, m, 0)
      BY <1>5, <2>0, <2>1, NewStep
    <3> QED
      BY <1>1, <3>1 DEF Learns, Becomes, ShownDeleted
  <2>2. CASE Head(pushes).kind = "edit"
    <3>1. list' = list \/ Learns(list, m, Head(pushes).version)
      BY <1>5, <2>0, <2>2, EditStep
    <3> QED
      BY <1>1, <3>1 DEF Learns, Becomes, ShownDeleted
  <2>3. CASE Head(pushes).kind = "delete"
    <3>1. Marks(list, m)
      BY <1>5, <2>0, <2>3, DeleteStep
    <3> QED
      BY <1>1, <3>1 DEF Marks, Becomes, ShownDeleted
  <2> QED
    BY <1>5, <2>1, <2>2, <2>3, Popping DEF Push
<1>6. ASSUME NEW m \in Message, Sent(m) PROVE ShownDeleted(k)'
  <2>1. k # m
    BY <1>1, <1>6 DEF Sent, Orderly
  <2>2. list'[k] = list[k]
    BY <1>6, <2>1, SentStep
  <2> QED
    BY <1>1, <2>2 DEF ShownDeleted
<1>7. CASE UNCHANGED list
  BY <1>1, <1>7 DEF ShownDeleted
<1> QED
  BY <1>2, <1>3, <1>4, <1>5, <1>6, <1>7, ListMoves

\* Of a page that was answered: what it says is current or will be told of.
LEMMA PageStays ==
    ASSUME ListParts, OnlySent, QueueInv, KnownInv, [ListNext]_listVars, Orderly',
           NEW page \in Answer, CurrentPage(page), PageKnows(page),
           \/ OlderIs("answer") /\ page = older.page
           \/ NewerIs("answer") /\ page = newer.page
    PROVE  CurrentPage(page)'
<1> SUFFICES ASSUME NEW k \in In(page)
             PROVE  /\ page[k] = version'[k] \/ Pending(k)'
                    /\ k \in gone' => ShownDeleted(k)' \/ Going(k)'
  BY DEF CurrentPage
<1>1. /\ k \in Message /\ page[k] # None
      /\ page[k] = version[k] \/ Pending(k)
      /\ k \in gone => ShownDeleted(k) \/ Going(k)
      /\ page[k] <= version[k]
  BY DEF CurrentPage, PageKnows, In
<1>2. ShownDeleted(k) => ShownDeleted(k)'
  BY <1>1, DeletedStays
<1>3. CASE \/ Arrive("new") \/ Arrive("own") \/ Send
           \/ \E m \in Message : Edit(m) \/ Delete(m)
  <2>1. /\ version'[k] = version[k] \/ Pending(k)'
        /\ Pending(k) => Pending(k)'
        /\ Going(k) => Going(k)'
        /\ k \in gone' => k \in gone \/ Going(k)'
    BY <1>1, <1>3, ServerTells
  <2> QED
    BY <1>1, <1>2, <2>1
<1>4. CASE Handle
  <2>0. PICK m \in Message : m = Head(pushes).id
    BY <1>4, Popping DEF Push
  <2>1. /\ version' = version /\ gone' = gone
        /\ (k = m => Head(pushes).kind # "edit") /\ Pending(k) => Pending(k)'
        /\ (k = m => Head(pushes).kind # "delete") /\ Going(k) => Going(k)'
        /\ Head(pushes).kind = "edit" =>
                Head(pushes).version = version[m] \/ Pending(m)'
    BY <1>1, <1>4, <2>0, HandleTells
  <2>2. \A v : page[k] < v => "late" \in Outdated(k, v)
    <3>1. ASSUME NEW v, page[k] < v PROVE "late" \in Outdated(k, v)
      <4>1. \E request \in {older, newer} \ {None} :
                request.at = "answer" /\ request.page[k] # None /\ request.page[k] < v
        BY <1>1, <3>1 DEF OlderIs, NewerIs
      <4> QED
        BY <4>1 DEF Outdated
    <3> QED
      BY <3>1
  <2>3. CASE k = m /\ Head(pushes).kind = "edit"
    <3>1. Outdated(k, Head(pushes).version) \subseteq upset'
      BY <1>4, <2>0, <2>3, EditStep
    <3>2. ~ (page[k] < Head(pushes).version)
      BY <2>2, <3>1 DEF Orderly
    <3>3. page[k] \in Nat /\ Head(pushes).version \in Nat /\ version[k] \in Nat
      BY <1>1, <1>4, Popping, Sizes DEF Answer, Push, ListParts
    <3>4. Head(pushes).version = version[k] => page[k] = version[k]
      BY <1>1, <3>2, <3>3
    <3> QED
      BY <1>1, <1>2, <2>1, <2>3, <3>4
  <2>4. CASE k = m /\ Head(pushes).kind = "delete"
    <3>1. Marks(list, m) /\ (list[m] = None => Outdated(m, MaxEdits + 1) \subseteq upset')
      BY <1>4, <2>0, <2>4, DeleteStep
    <3>2. page[k] < MaxEdits + 1
      BY <1>1, Sizes DEF Answer
    <3>3. list[m] # None
      BY <2>2, <2>4, <3>1, <3>2 DEF Orderly
    <3>4. ShownDeleted(k)'
      BY <2>4, <3>1, <3>3 DEF Marks, Becomes, ShownDeleted
    <3> QED
      BY <1>1, <2>1, <2>4, <3>4
  <2>5. CASE ~ (k = m /\ Head(pushes).kind \in {"edit", "delete"})
    BY <1>1, <1>2, <2>1, <2>5
  <2> QED
    BY <2>3, <2>4, <2>5
<1>5. CASE ServerStill
  <2>1. Pending(k)' <=> Pending(k)
    BY <1>5, StillQueue DEF ServerStill, Pending, Coming
  <2>2. Going(k)' <=> Going(k)
    BY <1>5, StillQueue
  <2> QED
    BY <1>1, <1>2, <1>5, <2>1, <2>2 DEF ServerStill
<1>6. Arrive("new") \/ Arrive("own") \/ Send \/ (\E m \in Message : Edit(m) \/ Delete(m))
        \/ Handle \/ ServerStill
  BY DEF ServerStill, ListNext, listVars, Sent, NotSent, SendFails,
     LoadOlder, ReadFiles, Cached, AnswerOlder, MergeOlder, FailOlder, LoadNewer, AnswerNewer,
     MergeNewer, FailNewer, Jump
<1> QED
  BY <1>3, <1>4, <1>5, <1>6

LEMMA StillTells ==
    ASSUME ServerStill, NEW k
    PROVE  /\ Pending(k)' <=> Pending(k)
           /\ Going(k)' <=> Going(k)
           /\ version' = version /\ gone' = gone
<1>1. Pending(k)' <=> Pending(k)
  BY StillQueue DEF ServerStill, Pending, Coming
<1>2. Going(k)' <=> Going(k)
  BY StillQueue
<1> QED
  BY <1>1, <1>2 DEF ServerStill

LEMMA CurrentMerge ==
    ASSUME NEW page \in Answer, CurrentPage(page), ServerStill, Orderly,
           FreshInv, \A m \in Message : Merges(m, page),
           NEW k \in Message, k \in fresh \/ k \in In(page)
    PROVE  Current(k)'
<1>1. Merges(k, page)
  OBVIOUS
<1>2. /\ Pending(k)' <=> Pending(k)
      /\ Going(k)' <=> Going(k)
      /\ version' = version /\ gone' = gone
  BY StillTells
<1>3. CASE k \in In(page)
  BY <1>1, <1>2, <1>3 DEF CurrentPage, In, Merges, Becomes, Current, ShownDeleted
<1>4. CASE k \notin In(page)
  BY <1>1, <1>2, <1>4 DEF FreshInv, In, Merges, Current, ShownDeleted
<1> QED
  BY <1>3, <1>4

LEMMA CurrentNext ==
    ASSUME ListParts, OnlySent, QueueInv, KnownInv, FreshInv, [ListNext]_listVars,
           Orderly, Orderly', NEW k \in fresh'
    PROVE  Current(k)'
<1>0. /\ k \in Message /\ fresh \subseteq Shown /\ fresh \subseteq Message
      /\ \A m \in fresh : Current(m)
      /\ list[k] \in Cell /\ Knows(list[k], k) /\ Knows(stored[k], k)
  BY ShownStay DEF FreshInv, KnownInv, Shown, ListParts
<1>1. CASE \/ Arrive("new") \/ Arrive("own") \/ Send
           \/ \E m \in Message : Edit(m) \/ Delete(m)
  <2>1. /\ version'[k] = version[k] \/ Pending(k)'
        /\ Pending(k) => Pending(k)'
        /\ Going(k) => Going(k)'
        /\ k \in gone' => k \in gone \/ Going(k)'
        /\ UNCHANGED <<list, fresh>>
    BY <1>0, <1>1, ServerTells
  <2> QED
    BY <1>0, <2>1 DEF Current, ShownDeleted
<1>2. CASE Cached
  <2>1. ServerStill /\ fresh' = fresh
    BY <1>2 DEF Cached, ServerStill
  <2>2. Current(k) /\ list[k] # None
    BY <1>0, <2>1 DEF Shown
  <2>3. CASE k \in DOMAIN older.page
    <3>1. FromFile(k) /\ older.page[k] \in Cell /\ older.page[k] # None
      BY <1>0, <1>2, <2>3, CachedStep, Cells DEF Cell
    <3>2. ~ (list[k].version > older.page[k].version)
      BY <1>2, <2>2, <2>3 DEF Cached, Orderly
    <3>3. list[k].version \in Nat /\ older.page[k].version \in Nat /\ version[k] \in Nat
      <4>1. \A v \in 0..MaxEdits : v \in Nat
        BY Sizes
      <4>2. version[k] \in 0..MaxEdits
        BY <1>0 DEF ListParts
      <4> QED
        BY <1>0, <2>2, <3>1, <4>1, <4>2, Cells
    <3>4. older.page[k].version <= version[k]
      BY <1>2, <2>3, CachedStep DEF KnownInv, ReadKnows
    <3>5. list[k].version = version[k] => older.page[k].version = version[k]
      BY <3>2, <3>3, <3>4
    <3> QED
      BY <2>1, <2>2, <3>1, <3>5, StillTells DEF FromFile, Becomes, Current, ShownDeleted
  <2>4. CASE list'[k] = list[k]
    BY <2>1, <2>2, <2>4, StillTells DEF Current, ShownDeleted
  <2> QED
    BY <1>0, <1>2, <2>3, <2>4, CachedStep
<1>3. CASE MergeOlder
  <2>1. ServerStill /\ (k \in fresh \/ k \in In(older.page))
    BY <1>3 DEF MergeOlder, ServerStill
  <2>2. CurrentPage(older.page) /\ older.page \in Answer
        /\ \A m \in Message : Merges(m, older.page)
    BY <1>3, OlderStep DEF FreshInv, OlderIs, MergeOlder
  <2> QED
    BY <1>0, <2>1, <2>2, CurrentMerge
<1>4. CASE MergeNewer
  <2>1. ServerStill /\ (k \in fresh \/ k \in In(newer.page))
    BY <1>4 DEF MergeNewer, ServerStill
  <2>2. CurrentPage(newer.page) /\ newer.page \in Answer
        /\ \A m \in Message : Merges(m, newer.page)
    BY <1>4, NewerStep DEF FreshInv, NewerIs, MergeNewer
  <2> QED
    BY <1>0, <2>1, <2>2, CurrentMerge
<1>5. CASE Handle
  <2>0. PICK m \in Message : m = Head(pushes).id
    BY <1>5, Popping DEF Push
  <2>1. /\ version' = version /\ gone' = gone
        /\ (k = m => Head(pushes).kind # "edit") /\ Pending(k) => Pending(k)'
        /\ (k = m => Head(pushes).kind # "delete") /\ Going(k) => Going(k)'
        /\ Newly(Head(pushes)) => /\ version[m] = 0 \/ Pending(m)'
                                  /\ m \in gone => Going(m)'
        /\ Head(pushes).kind = "edit" =>
                Head(pushes).version = version[m] \/ Pending(m)'
    BY <1>0, <1>5, <2>0, HandleTells
  <2>2. CASE Head(pushes).kind \in {"new", "own"}
    <3>1. \/ UNCHANGED <<list, fresh>>
          \/ Learns(list, m, 0) /\ fresh' = fresh \union {m}
      BY <1>5, <2>0, <2>2, NewStep
    <3>2. CASE k # m \/ UNCHANGED <<list, fresh>>
      <4>1. k \in fresh /\ list'[k] = list[k]
        BY <1>0, <3>1, <3>2 DEF Learns
      <4> QED
        BY <1>0, <2>1, <2>2, <4>1 DEF Current, ShownDeleted
    <3>3. CASE k = m /\ Learns(list, m, 0)
      BY <2>1, <2>2, <3>3 DEF Learns, Becomes, Current, ShownDeleted, Newly
    <3> QED
      BY <3>1, <3>2, <3>3
  <2>3. CASE Head(pushes).kind = "edit"
    <3>1. /\ fresh' = fresh
          /\ \/ lastKey = <<m, "edit">> /\ "repeated" \in upset'
             \/ list[m] = None /\ UNCHANGED list
             \/ Learns(list, m, Head(pushes).version)
      BY <1>5, <2>0, <2>3, EditStep
    <3>2. list[k] # None /\ Current(k)
      BY <1>0, <3>1 DEF Shown
    <3>3. CASE k # m
      <4>1. list'[k] = list[k]
        BY <1>0, <3>1, <3>3 DEF Learns, Orderly
      <4> QED
        BY <2>1, <2>3, <3>2, <3>3, <4>1 DEF Current, ShownDeleted
    <3>4. CASE k = m
      <4>1. Learns(list, m, Head(pushes).version)
        BY <3>1, <3>2, <3>4 DEF Orderly
      <4> QED
        BY <2>1, <2>3, <3>2, <3>4, <4>1 DEF Current, ShownDeleted, Learns, Becomes
    <3> QED
      BY <3>3, <3>4
  <2>4. CASE Head(pushes).kind = "delete"
    <3>1. fresh' = fresh /\ Marks(list, m)
      BY <1>5, <2>0, <2>4, DeleteStep
    <3>2. list[k] # None /\ Current(k)
      BY <1>0, <3>1 DEF Shown
    <3> QED
      BY <1>0, <2>1, <2>4, <3>1, <3>2 DEF Current, ShownDeleted, Marks, Becomes
  <2> QED
    BY <1>5, <2>2, <2>3, <2>4, Popping DEF Push
<1>6. ASSUME NEW m \in Message, Sent(m) PROVE Current(k)'
  <2>1. /\ ServerStill /\ fresh' = fresh \union {m}
        /\ m \in sending
        /\ list[m] = None \/ ~ (list[m].version > 0 \/ list[m].deleted)
    BY <1>6 DEF Sent, ServerStill, Orderly
  <2>2. /\ Becomes(list'[m], 0, FALSE)
        /\ \A n \in Message : n # m => list'[n] = list[n]
    BY <1>6, SentStep
  <2>3. CASE k # m
    <3>1. k \in fresh /\ list'[k] = list[k]
      BY <1>0, <2>1, <2>2, <2>3
    <3> QED
      BY <1>0, <2>1, <3>1, StillTells DEF Current, ShownDeleted
  <2>4. CASE k = m /\ m \in fresh
    <3>1. list[k] # None /\ Current(k)
      BY <1>0, <2>4 DEF Shown
    <3>2. list[k].version = 0 /\ ~list[k].deleted
      <4>0. \A v \in 0..MaxEdits : v \in Nat
        BY Sizes
      <4>1. list[k].version \in Nat
        BY <1>0, <3>1, <4>0, Cells
      <4> QED
        BY <2>1, <2>4, <3>1, <4>1
    <3> QED
      BY <2>1, <2>2, <2>4, <3>1, <3>2, StillTells DEF Current, ShownDeleted, Becomes
  <2>5. CASE k = m /\ OwnQueued(m)
    <3>1. PICK i \in 1..Len(pushes) : Newly(pushes[i]) /\ pushes[i].id = m
      BY <2>5 DEF OwnQueued, Newly
    <3>2. /\ version[m] = 0 \/ EditAfter(i, m, version[m])
          /\ m \in gone => DeleteAfter(i, m)
      BY <3>1 DEF QueueInv, AllTold, Told
    <3>3. /\ version[m] = 0 \/ Pending(m)
          /\ m \in gone => Going(m)
      BY <3>2 DEF EditAfter, DeleteAfter, Pending, Coming, Going
    <3> QED
      BY <2>1, <2>2, <2>5, <3>3, StillTells DEF Current, Becomes
  <2> QED
    BY <2>1, <2>3, <2>4, <2>5 DEF QueueInv, Waiting
<1>7. CASE ServerStill /\ UNCHANGED <<list, fresh>>
  BY <1>0, <1>7, StillTells DEF Current, ShownDeleted
<1> QED
  BY <1>1, <1>2, <1>3, <1>4, <1>5, <1>6, <1>7 DEF ServerStill, ListNext, listVars,
     NotSent, SendFails, LoadOlder, ReadFiles, AnswerOlder, FailOlder, LoadNewer,
     AnswerNewer, FailNewer, Jump

LEMMA FreshInit == ListInit => FreshInv
<1> SUFFICES ASSUME ListInit PROVE FreshInv
  OBVIOUS
<1>1. gone = {} /\ ~OlderIs("answer") /\ ~NewerIs("answer")
  BY DEF ListInit, OlderIs, NewerIs
<1>2. \A m \in fresh : list[m].version = version[m]
  <2>1. fresh \subseteq Message
    BY DEF ListInit
  <2> QED
    BY <2>1, FreshAtFirst DEF Becomes
<1> QED
  BY <1>1, <1>2 DEF FreshInv, Current

LEMMA FreshNext ==
    ASSUME ListParts, OnlySent, QueueInv, KnownInv, FreshInv, [ListNext]_listVars
    PROVE  FreshInv'
<1> SUFFICES ASSUME Orderly'
             PROVE  /\ \A m \in fresh' : Current(m)'
                    /\ OlderIs("answer")' => CurrentPage(older.page)'
                    /\ NewerIs("answer")' => CurrentPage(newer.page)'
  BY DEF FreshInv
<1>1. Orderly
  BY UpsetGrows DEF Orderly
<1>2. \A m \in fresh' : Current(m)'
  BY <1>1, CurrentNext
<1>3. OlderIs("answer")' => CurrentPage(older.page)'
  <2>1. CASE AnswerOlder
    <3>1. /\ In(older'.page) \subseteq Existing
          /\ \A m \in In(older'.page) : older'.page[m] = version[m]
          /\ version' = version /\ gone' = gone
      BY <2>1, AnswerOlderStep DEF AnswerOlder
    <3> QED
      BY <3>1 DEF CurrentPage, Existing, In
  <2>2. CASE ~AnswerOlder
    <3> SUFFICES ASSUME OlderIs("answer"), older' = older PROVE CurrentPage(older.page)'
      BY <2>2, OlderMoves
    <3>1. older.page \in Answer
      BY OlderCalls DEF OlderIs, ListParts, AnsweredOlder
    <3>2. PICK page \in Answer : page = older.page
      BY <3>1
    <3>3. CurrentPage(page) /\ PageKnows(page)
      BY <1>1, <3>2 DEF FreshInv, KnownInv
    <3>4. CurrentPage(page)'
      BY <3>2, <3>3, PageStays
    <3> QED
      BY <3>2, <3>4 DEF CurrentPage, In
  <2> QED
    BY <2>1, <2>2
<1>4. NewerIs("answer")' => CurrentPage(newer.page)'
  <2>1. CASE AnswerNewer
    <3>1. /\ In(newer'.page) \subseteq Existing
          /\ \A m \in In(newer'.page) : newer'.page[m] = version[m]
          /\ version' = version /\ gone' = gone
      BY <2>1, AnswerNewerStep DEF AnswerNewer
    <3> QED
      BY <3>1 DEF CurrentPage, Existing, In
  <2>2. CASE ~AnswerNewer
    <3> SUFFICES ASSUME NewerIs("answer"), newer' = newer PROVE CurrentPage(newer.page)'
      BY <2>2, NewerMoves
    <3>1. newer.page \in Answer
      BY NewerCalls DEF NewerIs, ListParts, AnsweredNewer
    <3>2. PICK page \in Answer : page = newer.page
      BY <3>1
    <3>3. CurrentPage(page) /\ PageKnows(page)
      BY <1>1, <3>2 DEF FreshInv, KnownInv
    <3>4. CurrentPage(page)'
      BY <3>2, <3>3, PageStays
    <3> QED
      BY <3>2, <3>4 DEF CurrentPage, In
  <2> QED
    BY <2>1, <2>2
<1> QED
  BY <1>2, <1>3, <1>4

-----------------------------------------------------------------------------
(* How far the list reaches *)

\* The opening, and a jump, load with "initial"; the page around a saved
\* position is only asked for by the opening, before anything was loaded.
Opening == older # None /\ older.initial
FlowInv ==
    /\ older # None /\ older.forward # 0 => older.initial /\ ~mounted
    /\ ~mounted => newer = None
    /\ older # None /\ ~older.initial => mounted
    /\ "failed" \notin upset /\ mounted => initialized

Clean == upset \intersect {"apart", "jump", "own", "overtaken", "blind", "failed"} = {}

\* The page has what there is before f (from f on): without a gap, and all of it
\* if it is not full.
Below(page, f) ==
    /\ \A p \in In(page) : p < f
    /\ \A m \in Existing : m < f =>
        /\ (\E p \in In(page) : p <= m) => m \in In(page)
        /\ Ends(page, Batch) => m \in In(page)
Above(page, f) ==
    /\ \A p \in In(page) : f <= p
    /\ \A m \in Existing : f <= m =>
        /\ (\E p \in In(page) : m <= p) => m \in In(page)
        /\ Ends(page, Batch) => m \in In(page) \/ allNewer \/ Queued(m)
ShownFrom(f) == \A m \in Existing : f <= m => m \in Shown \/ Queued(m)

\* While the end is loading, what came after it was asked for is shown or comes.
OpeningInv == Opening =>
    /\ older.forward # 0 => ~allNewer
    /\ older.forward = 0 => allNewer
    /\ older.forward = 0 /\ older.at # "answer" =>
        older.from \in 1..Now /\ ShownFrom(older.from)
    /\ older.forward = 0 /\ older.at = "answer" =>
        \E f \in 1..Now : ShownFrom(f) /\ Below(older.page, f)
\* Older messages are asked for from a message that is shown, or from a draft at
\* the end of the list; newer ones from a message that is shown.
Adjoins(f) == f \in Shown \/ (allNewer /\ ShownFrom(f))
OlderInv == older # None /\ ~older.initial =>
    /\ older.at = "ask" => older.from \in 1..Now /\ Adjoins(older.from)
    /\ older.at = "answer" => \E f \in 1..Now : Adjoins(f) /\ Below(older.page, f)
NewerInv ==
    /\ NewerIs("ask") => newer.from \in Shown
    /\ NewerIs("answer") => \E f \in Shown : Above(newer.page, f)
\* The list has no gap; at the end, nor have the list and what is announced.
NoGap == \A a, b \in Shown, m \in Existing : a < m /\ m < b => m \in Shown
AllBelow(m) == Shown # {} /\ \A a \in Shown : m < a
Reaches(m) == m \in Shown \/ Queued(m) \/ AllBelow(m)
WindowInv == ~Opening =>
    /\ allNewer => \A m \in Existing : Reaches(m)
    /\ ~allNewer => NoGap
\* When all older messages count as loaded, nothing is before the list.
Grounded(m) == (\E a \in Shown : a <= m) \/ (allNewer /\ Queued(m))
BottomInv == allOlder =>
    /\ \A m \in Existing : Grounded(m)
    /\ ~allNewer => Shown # {}
\* What was sent after a draft is shown, or announced.
DraftInv == \A d \in sending \union unsent : allNewer /\ ShownFrom(d)
Gaps == OpeningInv /\ OlderInv /\ NewerInv /\ WindowInv /\ BottomInv
GapInv == Clean => Gaps /\ DraftInv

LEMMA FlowInit == ListInit => FlowInv
<1> SUFFICES ASSUME ListInit PROVE FlowInv
  OBVIOUS
<1>1. mounted = FALSE /\ newer = None
  BY DEF ListInit
<1>2. older.initial = TRUE
  BY DEF ListInit
<1> QED
  BY <1>1, <1>2 DEF FlowInv

LEMMA FlowNext ==
    ASSUME ListParts, FlowInv, [ListNext]_listVars
    PROVE  FlowInv'
<1>1. CASE LoadOlder \/ Jump
  BY <1>1 DEF LoadOlder, Jump, FlowInv
<1>2. CASE Cached
  <2>2. older'.forward = older.forward /\ (older.initial => older'.initial)
    BY <1>2, CachedStep
  <2>3. UNCHANGED <<newer, mounted, initialized>> /\ older # None
        /\ ("failed" \notin upset' => "failed" \notin upset)
    BY <1>2 DEF Cached
  <2> QED
    BY <2>2, <2>3 DEF FlowInv
<1>3. CASE AnswerOlder
  BY <1>3, AnswerOlderStep DEF AnswerOlder, FlowInv
<1>8. CASE ReadFiles
  BY <1>8, ReadStep DEF ReadFiles, FlowInv
<1>4. CASE MergeOlder
  BY <1>4 DEF MergeOlder, FlowInv
<1>5. CASE FailOlder
  BY <1>5 DEF FailOlder, FlowInv
<1>6. CASE LoadNewer \/ AnswerNewer \/ MergeNewer \/ FailNewer
  BY <1>6 DEF LoadNewer, AnswerNewer, MergeNewer, FailNewer, FlowInv
<1>7. CASE UNCHANGED <<older, newer, mounted, initialized>>
  BY <1>7, UpsetGrows DEF FlowInv
<1> QED
  BY <1>1, <1>2, <1>3, <1>4, <1>5, <1>6, <1>7, <1>8 DEF ListNext, listVars, Arrive, Send,
     NotSent, SendFails, Edit, Delete, Sent, Handle

LEMMA GapInit == ListInit => GapInv
<1> SUFFICES ASSUME ListInit PROVE GapInv
  OBVIOUS
<1>1. newer = None /\ allOlder = FALSE /\ ListParts /\ sending = {} /\ unsent = {}
  BY ListTypesInit, ListInParts DEF ListInit
<1>2. older.initial = TRUE /\ older.at = "cache" /\ older \in Asking
  <2>1. older.initial = TRUE /\ older.at = "cache"
    BY DEF ListInit
  <2>2. older # None
    <3>1. older \in Loading
      <4>1. newest \in Nat
        BY <1>1, Sizes
      <4>2. Now \in Nat /\ \A bottom \in 1..newest : bottom + 1 \in Nat
        BY <4>1 DEF Now
      <4>3. \A from \in Nat, n \in {0, Batch} :
                [at |-> "cache", initial |-> TRUE, from |-> from, forward |-> n]
                    \in Loading
        BY DEF Loading
      <4> QED
        BY <4>2, <4>3 DEF ListInit
    <3> QED
      BY <3>1, ListAssumptions
  <2> QED
    BY <1>1, <2>1, <2>2, OlderCalls DEF ListParts
<1>3. \/ allNewer = TRUE /\ older.from = Now /\ older.forward = 0
      \/ allNewer = FALSE /\ older.forward = Batch
  BY DEF ListInit
<1>4. Asking \subseteq Loading
  BY DEF Asking, Loading
<1>5. Opening
  BY <1>2, <1>4, ListAssumptions DEF Opening
<1>6. Now \in 1..Now /\ ShownFrom(Now)
  BY <1>1, Sizes DEF Now, ShownFrom, Existing
<1>7. Batch # 0
  BY ListAssumptions
<1>8. OpeningInv
  BY <1>2, <1>3, <1>6, <1>7 DEF OpeningInv
<1> QED
  BY <1>1, <1>2, <1>5, <1>8 DEF GapInv, Gaps, DraftInv, OlderInv, NewerInv, NewerIs,
     WindowInv, BottomInv

LEMMA Numbers ==
    ASSUME ListParts, OnlySent
    PROVE  /\ newest \in Nat
           /\ Message \subseteq Nat
           /\ Shown \subseteq 1..newest /\ Shown \subseteq Message
           /\ Existing \subseteq 1..newest /\ Existing \subseteq Message
           /\ \A m \in 1..Now : m \in Nat
           /\ \A m \in 1..newest : m \in Nat /\ m \in 1..Now /\ m \in Message
<1>1. newest \in Nat /\ Message \subseteq Nat
  BY Sizes DEF Message
<1>2. Shown \subseteq 1..newest /\ Shown \subseteq Message
  BY DEF Shown, OnlySent
<1>3. \A m \in 1..newest : m \in 1..Now
  BY <1>1 DEF Now
<1>4. Now \in Nat
  BY <1>1 DEF Now
<1> QED
  BY <1>1, <1>2, <1>3, <1>4, Sizes

\* A page that is answered stays right when messages are sent and deleted: what
\* is new comes after it, and is announced.
LEMMA BelowStays ==
    ASSUME NEW page, NEW f, \A m \in Existing' : m \in Existing \/ ~(m < f),
           Below(page, f)
    PROVE  Below(page, f)'
  BY DEF Below, In, Ends

LEMMA AboveStays ==
    ASSUME NEW page, NEW f, In(page) \subseteq 1..newest, newest \in Nat,
           \A m \in Existing' : m \in Existing \/ (m = newest + 1 /\ Queued(m)'),
           \A k \in Existing : Queued(k) => Queued(k)' \/ allNewer',
           allNewer => allNewer',
           Above(page, f)
    PROVE  Above(page, f)'
<1>1. ASSUME NEW m \in Existing', f <= m
      PROVE  /\ (\E p \in In(page) : m <= p) => m \in In(page)
             /\ Ends(page, Batch) => m \in In(page) \/ allNewer' \/ Queued(m)'
  <2>1. CASE m \in Existing
    BY <1>1, <2>1 DEF Above
  <2>2. CASE m = newest + 1 /\ Queued(m)'
    <3>1. ~ \E p \in In(page) : m <= p
      BY <2>2
    <3> QED
      BY <2>2, <3>1
  <2> QED
    BY <2>1, <2>2
<1>2. \A p \in In(page) : f <= p
  BY DEF Above
<1> QED
  BY <1>1, <1>2 DEF Above, In, Ends

LEMMA ShownFromStays ==
    ASSUME NEW f, \A m \in Existing' : m \in Existing \/ Queued(m)',
           Shown \subseteq Shown',
           \A k \in Existing : Queued(k) => Queued(k)' \/ k \in Shown',
           ShownFrom(f)
    PROVE  ShownFrom(f)'
  BY DEF ShownFrom

\* What is under way is right as before.
LEMMA CallsStay ==
    ASSUME ListParts, OnlySent, OpeningInv, OlderInv, NewerInv,
           \A m \in Existing' : m \in Existing \/ (m = newest + 1 /\ Queued(m)'),
           \A k \in Existing : Queued(k) => Queued(k)' \/ (k \in Shown' /\ allNewer'),
           Shown \subseteq Shown',
           newest' \in Nat, newest <= newest',
           allNewer' = allNewer \/ (allNewer' = TRUE /\ ~Opening),
           UNCHANGED <<older, newer>>
    PROVE  OpeningInv' /\ OlderInv' /\ NewerInv'
<1>0. /\ newest \in Nat /\ Now \in Nat /\ Shown \subseteq 1..newest
      /\ Existing \subseteq 1..newest /\ allNewer \in BOOLEAN
  BY Numbers, Sizes DEF ListParts
<1>1. (Opening' <=> Opening) /\ (allNewer => allNewer')
  BY <1>0 DEF Opening
<1>2. \A f : ShownFrom(f) => ShownFrom(f)'
  BY ShownFromStays
<1>3. ASSUME NEW page, NEW f \in 1..Now, Below(page, f) PROVE Below(page, f)'
  <2>1. \A m \in Existing' : m \in Existing \/ ~(m < f)
    BY <1>0 DEF Now
  <2> QED
    BY <1>3, <2>1, BelowStays
<1>4. \A f \in 1..Now : f \in 1..Now'
  <2>1. Now' = newest' + 1 /\ Now = newest + 1
    BY DEF Now
  <2>2. \A a, b \in Nat : a <= b => 1..(a + 1) \subseteq 1..(b + 1)
    OBVIOUS
  <2>3. newest \in Nat /\ newest' \in Nat /\ newest <= newest'
    BY <1>0
  <2> QED
    BY <2>1, <2>2, <2>3
<1>5. OpeningInv'
  <2>1. CASE Opening /\ older.forward = 0 /\ older.at = "answer"
    <3>1. PICK f \in 1..Now : ShownFrom(f) /\ Below(older.page, f)
      BY <2>1 DEF OpeningInv
    <3>2. PICK page : page = older.page
      OBVIOUS
    <3>3. Below(page, f)' /\ ShownFrom(f)'
      BY <1>2, <1>3, <3>1, <3>2
    <3>4. Below(older.page, f)'
      BY <3>2, <3>3 DEF Below, In, Ends
    <3> QED
      BY <1>1, <1>4, <2>1, <3>3, <3>4 DEF OpeningInv
  <2>2. CASE Opening /\ older.forward = 0 /\ older.at # "answer"
    <3>1. PICK f \in 1..Now : f = older.from /\ ShownFrom(f)
      BY <2>2 DEF OpeningInv
    <3>2. ShownFrom(f)'
      BY <1>2, <3>1
    <3>3. ShownFrom(older.from)'
      BY <3>1, <3>2 DEF ShownFrom
    <3> QED
      BY <1>1, <1>4, <2>2, <3>1, <3>3 DEF OpeningInv
  <2>3. CASE ~Opening \/ older.forward # 0
    BY <1>0, <1>1, <2>3 DEF OpeningInv
  <2> QED
    BY <2>1, <2>2, <2>3
<1>6. OlderInv'
  <2>1. CASE older # None /\ ~older.initial /\ older.at = "answer"
    <3>1. PICK f \in 1..Now : Adjoins(f) /\ Below(older.page, f)
      BY <2>1 DEF OlderInv
    <3>2. PICK page : page = older.page
      OBVIOUS
    <3>3. f \in 1..Now' /\ Adjoins(f)'
      BY <1>1, <1>2, <1>4, <3>1 DEF Adjoins
    <3>4. Below(page, f)'
      BY <1>3, <3>1, <3>2
    <3>5. Below(older.page, f)'
      BY <3>2, <3>4 DEF Below, In, Ends
    <3> QED
      BY <2>1, <3>3, <3>5 DEF OlderInv
  <2>2. CASE older # None /\ ~older.initial /\ older.at = "ask"
    <3>1. PICK f \in 1..Now : f = older.from /\ Adjoins(f)
      BY <2>2 DEF OlderInv
    <3>2. f \in 1..Now' /\ Adjoins(f)'
      BY <1>1, <1>2, <1>4, <3>1 DEF Adjoins
    <3>3. Adjoins(older.from)'
      BY <3>1, <3>2 DEF Adjoins, ShownFrom
    <3> QED
      BY <2>2, <3>1, <3>2, <3>3 DEF OlderInv
  <2>3. CASE ~ (older # None /\ ~older.initial /\ older.at \in {"ask", "answer"})
    BY <2>3 DEF OlderInv
  <2> QED
    BY <2>1, <2>2, <2>3
<1>7. NewerInv'
  <2>1. CASE NewerIs("answer")
    <3>1. PICK f \in Shown : Above(newer.page, f)
      BY <2>1 DEF NewerInv
    <3>2. PICK page : page = newer.page
      OBVIOUS
    <3>3. In(page) \subseteq 1..newest
      BY <2>1, <3>2 DEF OnlySent
    <3>4. Above(page, f)'
      BY <1>0, <1>1, <3>1, <3>2, <3>3, AboveStays
    <3>5. Above(newer.page, f)'
      BY <3>2, <3>4 DEF Above, In, Ends, Queued
    <3> QED
      BY <2>1, <3>5 DEF NewerInv, NewerIs
  <2>2. CASE ~NewerIs("answer")
    BY <2>2 DEF NewerInv, NewerIs
  <2> QED
    BY <2>1, <2>2
<1> QED
  BY <1>5, <1>6, <1>7

\* The window when the list stays as it is
LEMMA WindowStays ==
    ASSUME ListParts, OnlySent, WindowInv, BottomInv,
           Shown' = Shown,
           \A m \in Existing' : m \in Existing \/ (m = newest + 1 /\ Queued(m)'),
           allNewer => \A k : Queued(k) => Queued(k)',
           allNewer' = allNewer, allOlder' = allOlder, Opening' <=> Opening
    PROVE  WindowInv' /\ BottomInv'
<1>0. /\ newest \in Nat /\ Shown \subseteq 1..newest
      /\ Existing \subseteq 1..newest /\ allNewer \in BOOLEAN
      /\ \A m \in 1..newest : m \in Nat
  BY Numbers DEF ListParts
<1>1. ASSUME NEW m, Reaches(m), allNewer PROVE Reaches(m)'
  BY <1>1 DEF Reaches, AllBelow
<1>2. ASSUME NEW m, Queued(m)' PROVE Reaches(m)'
  BY <1>2 DEF Reaches
<1>3. ASSUME NoGap PROVE NoGap'
  <2> SUFFICES ASSUME NEW a \in Shown, NEW b \in Shown, NEW m \in Existing', a < m, m < b
               PROVE  m \in Shown
    BY DEF NoGap
  <2>1. m # newest + 1
    BY <1>0
  <2> QED
    BY <1>3, <2>1 DEF NoGap
<1>4. WindowInv'
  BY <1>1, <1>2, <1>3 DEF WindowInv
<1>5. ASSUME allOlder, NEW m \in Existing' PROVE Grounded(m)'
  <2>1. CASE m \in Existing
    BY <1>5, <2>1 DEF BottomInv, Grounded
  <2>2. CASE m = newest + 1 /\ Queued(m)' /\ allNewer
    BY <2>2 DEF Grounded
  <2>3. CASE m = newest + 1 /\ ~allNewer
    <3>1. PICK a \in Shown : TRUE
      BY <1>5, <2>3 DEF BottomInv
    <3>2. a <= m
      BY <1>0, <2>3
    <3> QED
      BY <3>2 DEF Grounded
  <2> QED
    BY <2>1, <2>2, <2>3
<1>6. BottomInv'
  BY <1>5 DEF BottomInv
<1> QED
  BY <1>4, <1>6

\* The window, at the end of the history, when an announced message is added
LEMMA WindowAdds ==
    ASSUME ListParts, OnlySent, QueueInv, WindowInv, BottomInv,
           NEW n \in 1..newest, Queued(n),
           Shown' = Shown \union {n},
           Existing' = Existing,
           \A k : Queued(k) => Queued(k)' \/ k = n,
           allNewer = TRUE, allNewer' = TRUE, allOlder' = allOlder, Opening' <=> Opening
    PROVE  WindowInv' /\ BottomInv'
<1>0. /\ newest \in Nat /\ Shown \subseteq 1..newest
      /\ Existing \subseteq 1..newest
      /\ \A m \in 1..newest : m \in Nat
  BY Numbers
<1>1. ASSUME NEW m \in Existing, Reaches(m) PROVE Reaches(m)'
  <2>1. CASE m \in Shown \/ Queued(m)
    BY <2>1 DEF Reaches
  <2>2. CASE AllBelow(m) /\ ~Queued(m)
    <3>1. ~ (n < m)
      BY <1>0, <2>2 DEF QueueInv, UpToNewest
    <3>2. m = n \/ m < n
      BY <1>0, <3>1
    <3> QED
      BY <2>2, <3>2 DEF Reaches, AllBelow
  <2> QED
    BY <1>1, <2>1, <2>2 DEF Reaches
<1>2. WindowInv'
  BY <1>1 DEF WindowInv
<1>3. ASSUME allOlder, NEW m \in Existing PROVE Grounded(m)'
  <2>1. Grounded(m)
    BY <1>3 DEF BottomInv
  <2>2. n <= n
    BY <1>0
  <2> QED
    BY <2>1, <2>2 DEF Grounded
<1>4. BottomInv'
  BY <1>3 DEF BottomInv
<1> QED
  BY <1>2, <1>4

LEMMA GapServer ==
    ASSUME ListParts, OnlySent, QueueInv, Gaps, Clean', [ListNext]_listVars,
           \/ Arrive("new") \/ Arrive("own") \/ Send
           \/ \E m \in Message : Edit(m) \/ Delete(m)
    PROVE  Gaps'
<1>1. /\ Existing' = (1..newest') \ gone' /\ Existing = (1..newest) \ gone
      /\ newest \in Nat
  BY Sizes DEF Existing
<1>2. CASE Arrive("new") \/ Arrive("own") \/ Send
  <2>1. PICK kind \in {"new", "own"} :
            /\ newest < MaxMessages /\ version[newest + 1] = 0
            /\ newest' = newest + 1 /\ Pushed(kind, newest + 1, 0)
            /\ UNCHANGED <<version, gone>>
    BY <1>2, Unedited DEF Arrive, Send
  <2>2. \A k : Queued(k)' <=> Queued(k) \/ k = newest + 1
    BY <2>1, QueueSend
  <2>3. /\ UNCHANGED <<list, older, newer, allOlder>>
        /\ allNewer \in BOOLEAN
    BY <1>2 DEF Arrive, Send, ListParts
  <2>4. allNewer' = allNewer
    BY <1>2 DEF Arrive, Send
  <2>5. \A m \in Existing' : m \in Existing \/ (m = newest + 1 /\ Queued(m)')
    BY <1>1, <2>1, <2>2
  <2>6. newest' \in Nat /\ newest <= newest'
    BY <1>1, <2>1
  <2>7. Shown' = Shown /\ (Opening' <=> Opening)
    BY <2>3 DEF Shown, Opening
  <2>8. \A k : Queued(k) => Queued(k)'
    BY <2>2
  <2>9. OpeningInv' /\ OlderInv' /\ NewerInv'
    BY <1>1, <2>3, <2>4, <2>5, <2>6, <2>7, <2>8, CallsStay DEF Gaps
  <2>10. WindowInv' /\ BottomInv'
    BY <2>3, <2>4, <2>5, <2>7, <2>8, WindowStays DEF Gaps
  <2> QED
    BY <2>9, <2>10 DEF Gaps
<1>3. ASSUME NEW n \in Message, Edit(n) \/ Delete(n) PROVE Gaps'
  <2>1. \A k : Queued(k)' <=> Queued(k)
    BY <1>3, QueueChange
  <2>2. UNCHANGED <<list, older, newer, allNewer, allOlder, newest>> /\ gone \subseteq gone'
    BY <1>3 DEF Edit, Delete
  <2>3. Shown' = Shown /\ (Opening' <=> Opening) /\ Existing' \subseteq Existing
    BY <1>1, <2>2 DEF Shown, Opening
  <2>4. newest' \in Nat /\ newest <= newest'
    BY <1>1, <2>2
  <2>5. OpeningInv' /\ OlderInv' /\ NewerInv'
    BY <2>1, <2>2, <2>3, <2>4, CallsStay DEF Gaps
  <2>6. WindowInv' /\ BottomInv'
    BY <2>1, <2>2, <2>3, WindowStays DEF Gaps
  <2> QED
    BY <2>5, <2>6 DEF Gaps
<1> QED
  BY <1>2, <1>3

LEMMA GapHandle ==
    ASSUME ListParts, OnlySent, QueueInv, Gaps, Clean', Handle
    PROVE  Gaps'
<1>0. PICK n \in Message : n = Head(pushes).id
  BY Popping DEF Push
<1>1. /\ n \in 1..newest /\ newest \in Nat
      /\ Newly(Head(pushes)) => Queued(n) /\ lastKey # <<n, "new">>
  BY <1>0, QueueHandle, Sizes
<1>2. /\ UNCHANGED <<newest, gone, older, newer, allOlder>>
      /\ Existing' = Existing /\ (Opening' <=> Opening) /\ allNewer \in BOOLEAN
  BY DEF Handle, Existing, Opening, ListParts
<1>3. \A k : Queued(k) => Queued(k)' \/ (Newly(Head(pushes)) /\ k = n)
  BY <1>0, Shifting
<1>4. CASE ~Newly(Head(pushes))
  <2>1. /\ allNewer' = allNewer
        /\ \/ list' = list
           \/ list[n] # None /\ \E v : Learns(list, n, v)
           \/ Marks(list, n)
    BY <1>0, <1>4, EditStep, DeleteStep, Popping DEF Newly, Push
  <2>2. Shown' = Shown
    BY <2>1 DEF Shown, Learns, Marks, Becomes
  <2>3. OpeningInv' /\ OlderInv' /\ NewerInv'
    BY <1>1, <1>2, <1>3, <1>4, <2>1, <2>2, CallsStay DEF Gaps
  <2>4. WindowInv' /\ BottomInv'
    BY <1>2, <1>3, <1>4, <2>1, <2>2, WindowStays DEF Gaps
  <2> QED
    BY <2>3, <2>4 DEF Gaps
<1>5. CASE Newly(Head(pushes)) /\ allNewer
  <2>1. /\ allNewer = TRUE /\ allNewer' = TRUE /\ Learns(list, n, 0)
    BY <1>0, <1>1, <1>2, <1>5, NewStep DEF Newly
  <2>2. Shown' = Shown \union {n}
    BY <2>1 DEF Shown, Learns, Becomes
  <2>3. OpeningInv' /\ OlderInv' /\ NewerInv'
    BY <1>1, <1>2, <1>3, <2>1, <2>2, CallsStay DEF Gaps
  <2>4. WindowInv' /\ BottomInv'
    BY <1>1, <1>2, <1>3, <1>5, <2>1, <2>2, WindowAdds DEF Gaps
  <2> QED
    BY <2>3, <2>4 DEF Gaps
<1>6. CASE Newly(Head(pushes)) /\ ~allNewer
  <2>1. /\ UNCHANGED <<allNewer, list>>
        /\ ~NewerIs("answer")
    BY <1>0, <1>1, <1>2, <1>6, NewStep DEF Newly, Clean
  <2>2. Shown' = Shown
    BY <2>1 DEF Shown
  <2>3. NewerInv'
    BY <1>2, <2>1, <2>2 DEF Gaps, NewerInv, NewerIs
  <2>4. OpeningInv'
    BY <1>2, <1>6, <2>1 DEF Gaps, OpeningInv
  <2>5. OlderInv'
    <3>1. \A page, f : Below(page, f) => Below(page, f)'
      BY <1>2, BelowStays
    <3>2. PICK page : page = older.page
      OBVIOUS
    <3>3. \A f : Below(older.page, f) => Below(older.page, f)'
      BY <1>2, <3>1, <3>2 DEF Below, In, Ends
    <3>4. Now' = Now /\ \A f : Adjoins(f) => Adjoins(f)'
      BY <1>2, <1>6, <2>2 DEF Adjoins, Now
    <3>5. PICK f : f = older.from
      OBVIOUS
    <3>6. Adjoins(older.from) => Adjoins(older.from)'
      BY <1>2, <3>4, <3>5 DEF Adjoins, ShownFrom
    <3> QED
      BY <1>2, <3>3, <3>4, <3>6 DEF Gaps, OlderInv
  <2>6. WindowInv' /\ BottomInv'
    BY <1>2, <1>6, <2>1, <2>2, WindowStays DEF Gaps
  <2> QED
    BY <2>3, <2>4, <2>5, <2>6 DEF Gaps
<1> QED
  BY <1>4, <1>5, <1>6

LEMMA GapSent ==
    ASSUME ListParts, OnlySent, QueueInv, KnownInv, Gaps, DraftInv, Clean',
           NEW n \in Message, Sent(n)
    PROVE  Gaps'
<1>1. /\ n \in 1..newest /\ newest \in Nat
      /\ allNewer = TRUE /\ allNewer' = TRUE /\ (Queued(n) \/ n \in Shown)
  <2>1. OwnQueued(n) => Queued(n)
    BY DEF OwnQueued, Queued, Newly
  <2>2. n \in sending /\ allNewer' = TRUE
    BY DEF Sent
  <2>3. allNewer = TRUE
    BY <2>2 DEF DraftInv, ListParts
  <2> QED
    BY <2>1, <2>2, <2>3, Sizes DEF QueueInv, Waiting, KnownInv, ListParts
<1>2. /\ UNCHANGED <<newest, gone, older, newer, allOlder>> /\ ServerStill
      /\ Existing' = Existing /\ (Opening' <=> Opening)
  BY DEF Sent, Existing, Opening, ServerStill
<1>3. \A k : Queued(k) => Queued(k)'
  BY <1>2, StillQueue
<1>4. Shown' = Shown \union {n}
  BY SentStep DEF Shown, Becomes
<1>5. OpeningInv' /\ OlderInv' /\ NewerInv'
  BY <1>1, <1>2, <1>3, <1>4, CallsStay DEF Gaps
<1>6. CASE n \in Shown
  <2>1. Shown' = Shown
    BY <1>4, <1>6
  <2>2. WindowInv' /\ BottomInv'
    BY <1>1, <1>2, <1>3, <2>1, WindowStays DEF Gaps
  <2> QED
    BY <1>5, <2>2 DEF Gaps
<1>7. CASE Queued(n)
  <2>1. WindowInv' /\ BottomInv'
    BY <1>1, <1>2, <1>3, <1>4, <1>7, WindowAdds DEF Gaps
  <2> QED
    BY <1>5, <2>1 DEF Gaps
<1> QED
  BY <1>1, <1>6, <1>7

LEMMA StillGaps ==
    ASSUME ServerStill, UNCHANGED list
    PROVE  /\ Existing' = Existing /\ Shown' = Shown /\ newest' = newest /\ Now' = Now
           /\ \A k : Queued(k)' <=> Queued(k)
           /\ \A f : ShownFrom(f)' <=> ShownFrom(f)
           /\ \A page, f : Below(page, f)' <=> Below(page, f)
           /\ allNewer' = allNewer => \A page, f : Above(page, f)' <=> Above(page, f)
           /\ NoGap' <=> NoGap
           /\ \A m : Reaches(m)' <=> Reaches(m)
           /\ allNewer' = allNewer => \A f : Adjoins(f)' <=> Adjoins(f)
<1>2. /\ Existing' = Existing /\ Shown' = Shown /\ newest' = newest /\ Now' = Now
      /\ \A k : Queued(k)' <=> Queued(k)
  BY StillQueue DEF Existing, Shown, ServerStill, Now
<1>3. /\ \A f : ShownFrom(f)' <=> ShownFrom(f)
      /\ \A page, f : Below(page, f)' <=> Below(page, f)
      /\ allNewer' = allNewer => \A page, f : Above(page, f)' <=> Above(page, f)
      /\ NoGap' <=> NoGap
      /\ \A m : Reaches(m)' <=> Reaches(m)
  <2>1. \A f : ShownFrom(f)' <=> ShownFrom(f)
    BY <1>2 DEF ShownFrom
  <2>2. \A page, f : Below(page, f)' <=> Below(page, f)
    BY <1>2 DEF Below, In, Ends
  <2>3. ASSUME allNewer' = allNewer, NEW page, NEW f PROVE Above(page, f)' <=> Above(page, f)
    BY <1>2, <2>3 DEF Above, In, Ends
  <2>4. NoGap' <=> NoGap
    BY <1>2 DEF NoGap
  <2>5. \A m : Reaches(m)' <=> Reaches(m)
    BY <1>2 DEF Reaches, AllBelow
  <2> QED
    BY <2>1, <2>2, <2>3, <2>4, <2>5
<1>4. ASSUME allNewer' = allNewer, NEW f PROVE Adjoins(f)' <=> Adjoins(f)
  BY <1>2, <1>3, <1>4 DEF Adjoins
<1> QED
  BY <1>2, <1>3, <1>4

\* The files are read.
LEMMA GapRead ==
    ASSUME ListParts, Gaps, ReadFiles
    PROVE  Gaps'
<1>1. ServerStill /\ UNCHANGED <<list, newer, allOlder, allNewer>>
  BY DEF ReadFiles, ServerStill
<1>2. /\ Shown' = Shown /\ Now' = Now /\ Existing' = Existing
      /\ \A k : Queued(k)' <=> Queued(k)
      /\ \A f : ShownFrom(f)' <=> ShownFrom(f)
      /\ \A page, f : Above(page, f)' <=> Above(page, f)
      /\ NoGap' <=> NoGap
      /\ \A m : Reaches(m)' <=> Reaches(m)
  BY <1>1, StillGaps
<1>3. /\ older # None /\ older' # None /\ older.at = "cache" /\ older'.at = "read"
      /\ older'.initial = older.initial /\ older'.from = older.from
      /\ older'.forward = older.forward
  BY ReadStep DEF OlderIs
<1>4. Opening' <=> Opening
  BY <1>3 DEF Opening
<1>5. OpeningInv'
  <2>1. PICK f : f = older.from
    OBVIOUS
  <2>2. ShownFrom(older.from) => ShownFrom(older.from)'
    BY <1>2, <1>3, <2>1 DEF ShownFrom
  <2> QED
    BY <1>1, <1>2, <1>3, <1>4, <2>2 DEF Gaps, OpeningInv
<1>6. OlderInv'
  BY <1>3 DEF OlderInv
<1>7. NewerInv'
  <2>1. PICK page : page = newer.page
    OBVIOUS
  <2>2. \A f : Above(newer.page, f) => Above(newer.page, f)'
    BY <1>1, <1>2, <2>1 DEF Above, In, Ends
  <2> QED
    BY <1>1, <1>2, <2>2 DEF Gaps, NewerInv, NewerIs
<1>8. WindowInv' /\ BottomInv'
  BY <1>1, <1>2, <1>4 DEF Gaps, WindowInv, BottomInv, Grounded
<1> QED
  BY <1>5, <1>6, <1>7, <1>8 DEF Gaps

\* A request fails, or a new one is made.
LEMMA GapLoad ==
    ASSUME ListParts, OnlySent, Gaps, DraftInv, Clean', FlowInv,
           LoadOlder \/ Jump \/ FailOlder \/ LoadNewer \/ FailNewer
    PROVE  Gaps'
<1>1. ServerStill /\ UNCHANGED <<list, allOlder>> /\ allNewer \in BOOLEAN
      /\ newest \in Nat
  BY Sizes DEF LoadOlder, Jump, FailOlder, LoadNewer, FailNewer, ServerStill, ListParts
<1>2. /\ Existing' = Existing /\ Shown' = Shown /\ newest' = newest /\ Now' = Now
      /\ \A k : Queued(k)' <=> Queued(k)
  BY <1>1, StillGaps
<1>3. /\ \A f : ShownFrom(f)' <=> ShownFrom(f)
      /\ \A page, f : Below(page, f)' <=> Below(page, f)
      /\ allNewer' = allNewer => \A page, f : Above(page, f)' <=> Above(page, f)
      /\ NoGap' <=> NoGap
      /\ \A m : Reaches(m)' <=> Reaches(m)
      /\ allNewer' = allNewer => \A f : Adjoins(f)' <=> Adjoins(f)
  BY <1>1, StillGaps
<1>4. CASE Jump
  <2>1. /\ older = None /\ older'.initial = TRUE /\ older'.forward = 0
        /\ older'.at = "cache" /\ older'.from = Now
        /\ newer' = newer /\ allNewer' = TRUE
        /\ older' \in Loading
    <3>1. older = None
      BY <1>4 DEF Jump, Clean
    <3>2. Now \in Nat
      BY Sizes
    <3>3. older' = [at |-> "cache", initial |-> TRUE, from |-> Now, forward |-> 0]
      BY <1>4, <3>1 DEF Jump
    <3> QED
      BY <1>4, <3>1, <3>2, <3>3 DEF Jump, Loading
  <2>2. Opening'
    BY <2>1, ListAssumptions DEF Opening
  <2>3. Now \in 1..Now /\ ShownFrom(Now)
    BY <1>1 DEF Now, ShownFrom, Existing
  <2>4. OpeningInv'
    <3>1. PICK f : f = Now
      OBVIOUS
    <3>2. ShownFrom(f)'
      BY <1>3, <2>3, <3>1
    <3>3. ShownFrom(older.from)'
      BY <2>1, <3>1, <3>2 DEF ShownFrom
    <3> QED
      BY <1>2, <2>1, <2>3, <3>3 DEF OpeningInv
  <2>5. OlderInv' /\ WindowInv'
    BY <2>2, <2>1 DEF OlderInv, WindowInv
  <2>6. NewerInv'
    <3>1. \A page, f : Above(page, f) => Above(page, f)'
      BY <1>2, <2>1 DEF Above, In, Ends
    <3>2. PICK page : page = newer.page
      OBVIOUS
    <3>3. \A f : Above(newer.page, f) => Above(newer.page, f)'
      BY <2>1, <3>1, <3>2 DEF Above, In, Ends
    <3> QED
      BY <1>2, <2>1, <3>3 DEF Gaps, NewerInv, NewerIs
  <2>7. BottomInv'
    BY <1>1, <1>2, <2>1 DEF Gaps, BottomInv, Grounded
  <2> QED
    BY <2>4, <2>5, <2>6, <2>7 DEF Gaps
<1>5. CASE LoadOlder \/ FailOlder
  <2>1. /\ UNCHANGED <<newer, allNewer>>
        /\ \/ older = None /\ older'.initial = FALSE /\ older'.at = "cache"
           \/ older' = None /\ (older.initial => "failed" \in upset')
    BY <1>5 DEF LoadOlder, FailOlder
  <2>2. ~Opening /\ ~Opening'
    BY <2>1 DEF Opening, Clean
  <2>3. OpeningInv'
    BY <2>2 DEF OpeningInv
  <2>4. OlderInv'
    BY <2>1 DEF OlderInv
  <2>5. NewerInv'
    <3>1. PICK page : page = newer.page
      OBVIOUS
    <3>2. \A f : Above(page, f) => Above(page, f)'
      BY <1>3, <2>1
    <3>3. \A f : Above(newer.page, f) => Above(newer.page, f)'
      BY <2>1, <3>1, <3>2 DEF Above, In, Ends
    <3> QED
      BY <1>2, <2>1, <3>3 DEF Gaps, NewerInv, NewerIs
  <2>6. WindowInv'
    BY <1>2, <1>3, <2>1, <2>2 DEF Gaps, WindowInv
  <2>7. BottomInv'
    BY <1>1, <1>2, <2>1 DEF Gaps, BottomInv, Grounded
  <2> QED
    BY <2>3, <2>4, <2>5, <2>6, <2>7 DEF Gaps
<1>6. CASE LoadNewer \/ FailNewer
  <2>1. /\ UNCHANGED <<older, allNewer>>
        /\ \/ newer' = None
           \/ newer'.at = "ask" /\ newer'.from = Max(Shown) /\ Shown # {}
    <3>1. CASE LoadNewer
      <4>1. Shown # {} /\ ~allNewer
        BY <3>1 DEF LoadNewer, Clean
      <4>2. Shown \union sending \union unsent = Shown
        BY <4>1 DEF DraftInv
      <4> QED
        BY <3>1, <4>1, <4>2 DEF LoadNewer
    <3> QED
      BY <1>6, <3>1 DEF FailNewer
  <2>2. Opening' <=> Opening
    BY <2>1 DEF Opening
  <2>3. NewerInv'
    <3>1. Shown \subseteq 0..newest
      BY <1>1, Numbers
    <3>2. Shown # {} => Max(Shown) \in Shown
      BY <1>1, <3>1, MinMax
    <3> QED
      BY <1>2, <2>1, <3>2 DEF NewerInv, NewerIs
  <2>4. PICK page : page = older.page
    OBVIOUS
  <2>5. \A f : Below(older.page, f) => Below(older.page, f)'
    BY <1>3, <2>1, <2>4 DEF Below, In, Ends
  <2>10. Adjoins(older.from) => Adjoins(older.from)'
    <3>1. PICK g : g = older.from
      OBVIOUS
    <3> QED
      BY <1>3, <2>1, <3>1 DEF Adjoins, ShownFrom
  <2>6. OlderInv'
    BY <1>2, <1>3, <2>1, <2>5, <2>10 DEF Gaps, OlderInv
  <2>7. OpeningInv'
    <3>1. PICK g : g = older.from
      OBVIOUS
    <3>2. ShownFrom(older.from) => ShownFrom(older.from)'
      BY <1>3, <2>1, <3>1 DEF ShownFrom
    <3> QED
      BY <1>2, <1>3, <2>1, <2>2, <2>5, <3>2 DEF Gaps, OpeningInv
  <2>8. WindowInv'
    BY <1>2, <1>3, <2>1, <2>2 DEF Gaps, WindowInv
  <2>9. BottomInv'
    BY <1>1, <1>2, <2>1 DEF Gaps, BottomInv, Grounded
  <2> QED
    BY <2>3, <2>6, <2>7, <2>8, <2>9 DEF Gaps
<1> QED
  BY <1>4, <1>5, <1>6

\* What the server answers is right.
LEMMA BelowAnswer ==
    ASSUME ListParts, NEW page, NEW f \in Nat, In(page) = Before(Existing, f, Batch)
    PROVE  Below(page, f)
<1>1. /\ newest \in Nat /\ Existing \in SUBSET (1..newest) /\ Batch \in Nat
  BY Sizes
<1> DEFINE S == Before(Existing, f, Batch)
<1>2. /\ \A p \in S : p < f
      /\ \A p \in S, m \in Existing : p <= m /\ m < f => m \in S
      /\ Cardinality(S) < Batch => \A m \in Existing : m < f => m \in S
  BY <1>1, BeforeStretch
<1>3. In(page) = S
  OBVIOUS
<1> HIDE DEF S
<1>4. /\ \A p \in In(page) : p < f
      /\ \A p \in In(page), m \in Existing : p <= m /\ m < f => m \in In(page)
      /\ Cardinality(In(page)) < Batch => \A m \in Existing : m < f => m \in In(page)
  BY <1>2, <1>3
<1> QED
  BY <1>4 DEF Below, Ends

LEMMA AboveAnswer ==
    ASSUME ListParts, NEW page, NEW f \in Nat, In(page) = After(Existing, f, Batch)
    PROVE  Above(page, f)
<1>1. /\ newest \in Nat /\ Existing \in SUBSET (1..newest) /\ Batch \in Nat
  BY Sizes
<1> DEFINE S == After(Existing, f, Batch)
<1>2. /\ \A p \in S : f <= p
      /\ \A p \in S, m \in Existing : f <= m /\ m <= p => m \in S
      /\ Cardinality(S) < Batch => \A m \in Existing : f <= m => m \in S
  BY <1>1, AfterStretch
<1>3. In(page) = S
  OBVIOUS
<1> HIDE DEF S
<1>4. /\ \A p \in In(page) : f <= p
      /\ \A p \in In(page), m \in Existing : f <= m /\ m <= p => m \in In(page)
      /\ Cardinality(In(page)) < Batch => \A m \in Existing : f <= m => m \in In(page)
  BY <1>2, <1>3
<1> QED
  BY <1>4 DEF Above, Ends

LEMMA GapAnswerOlder ==
    ASSUME ListParts, OnlySent, FlowInv, Gaps, AnswerOlder
    PROVE  Gaps'
<1>1. ServerStill /\ UNCHANGED <<list, newer, allOlder, allNewer>>
  BY DEF AnswerOlder, ServerStill
<1>2. /\ Existing' = Existing /\ Shown' = Shown /\ Now' = Now
      /\ \A k : Queued(k)' <=> Queued(k)
      /\ \A f : ShownFrom(f)' <=> ShownFrom(f)
      /\ \A page, f : Below(page, f)' <=> Below(page, f)
      /\ \A page, f : Above(page, f)' <=> Above(page, f)
      /\ NoGap' <=> NoGap
      /\ \A m : Reaches(m)' <=> Reaches(m)
      /\ \A f : Adjoins(f)' <=> Adjoins(f)
  BY <1>1, StillGaps
<1>3. /\ older \in Asking /\ older.at = "ask" /\ older # None
      /\ older' \in AnsweredOlder /\ older'.at = "answer"
      /\ older'.initial = older.initial /\ older'.forward = older.forward
      /\ In(older'.page) = Before(Existing, older.from, Batch) \union
                           After(Existing, older.from, older.forward)
  BY AnswerOlderStep DEF OlderIs, AnsweredOlder
<1>4. older' # None
  BY <1>3, ListAssumptions DEF Loading, AnsweredOlder
<1>5. Opening' <=> Opening
  BY <1>3, <1>4 DEF Opening
<1>6. ASSUME older.forward = 0, NEW f, f = older.from
      PROVE  f \in Nat /\ Below(older.page, f)'
  <2>1. f \in Nat /\ newest \in Nat /\ Existing \in SUBSET (1..newest)
    BY <1>3, <1>6, Sizes DEF Asking
  <2>2. After(Existing, f, 0) = {}
    BY <2>1, AfterStretch
  <2>3. PICK page : page = older'.page
    OBVIOUS
  <2>4. In(page) = Before(Existing, f, Batch)
    BY <1>3, <1>6, <2>2, <2>3
  <2>5. Below(page, f)'
    BY <1>2, <2>1, <2>4, BelowAnswer
  <2> QED
    BY <2>1, <2>3, <2>5 DEF Below, In, Ends
<1>7. OpeningInv'
  <2>1. CASE Opening /\ older.forward = 0
    <3>1. older.from \in 1..Now /\ ShownFrom(older.from)
      BY <1>3, <2>1 DEF Gaps, OpeningInv
    <3>2. PICK f : f = older.from
      OBVIOUS
    <3>3. Below(older.page, f)' /\ ShownFrom(f)' /\ f \in 1..Now'
      BY <1>2, <1>6, <2>1, <3>1, <3>2
    <3> QED
      BY <1>1, <1>3, <2>1, <3>3 DEF OpeningInv, Gaps
  <2>2. CASE ~Opening \/ older.forward # 0
    BY <1>1, <1>3, <1>5, <2>2 DEF OpeningInv, Gaps
  <2> QED
    BY <2>1, <2>2
<1>8. OlderInv'
  <2>1. CASE older.initial
    BY <1>3, <2>1 DEF OlderInv
  <2>2. CASE ~older.initial
    <3>1. older.from \in 1..Now /\ Adjoins(older.from) /\ older.forward = 0
      BY <1>3, <2>2 DEF Gaps, OlderInv, FlowInv
    <3>2. PICK f : f = older.from
      OBVIOUS
    <3>3. Below(older.page, f)' /\ f \in 1..Now' /\ Adjoins(f)'
      BY <1>2, <1>6, <3>1, <3>2
    <3> QED
      BY <1>3, <3>3 DEF OlderInv
  <2> QED
    BY <2>1, <2>2
<1>9. NewerInv'
  <2>1. PICK page : page = newer.page
    OBVIOUS
  <2>2. \A f : Above(newer.page, f) => Above(newer.page, f)'
    BY <1>1, <1>2, <2>1 DEF Above, In, Ends
  <2> QED
    BY <1>1, <1>2, <2>2 DEF Gaps, NewerInv, NewerIs
<1>10. WindowInv' /\ BottomInv'
  BY <1>1, <1>2, <1>5 DEF Gaps, WindowInv, BottomInv, Grounded
<1> QED
  BY <1>7, <1>8, <1>9, <1>10 DEF Gaps

LEMMA GapAnswerNewer ==
    ASSUME ListParts, OnlySent, Gaps, AnswerNewer
    PROVE  Gaps'
<1>1. ServerStill /\ UNCHANGED <<list, older, allOlder, allNewer>>
  BY DEF AnswerNewer, ServerStill
<1>2. /\ Existing' = Existing /\ Shown' = Shown /\ Now' = Now
      /\ \A k : Queued(k)' <=> Queued(k)
      /\ \A f : ShownFrom(f)' <=> ShownFrom(f)
      /\ \A page, f : Below(page, f)' <=> Below(page, f)
      /\ \A page, f : Above(page, f)' <=> Above(page, f)
      /\ NoGap' <=> NoGap
      /\ \A m : Reaches(m)' <=> Reaches(m)
      /\ \A f : Adjoins(f)' <=> Adjoins(f)
  BY <1>1, StillGaps
<1>3. /\ newer \in AskingNewer /\ NewerIs("ask")
      /\ newer' \in AnsweredNewer
      /\ In(newer'.page) = After(Existing, newer.from, Batch)
  BY AnswerNewerStep
<1>4. NewerInv'
  <2>1. PICK f : f = newer.from
    OBVIOUS
  <2>2. f \in Shown /\ f \in Nat
    BY <1>3, <2>1 DEF Gaps, NewerInv, AskingNewer
  <2>3. PICK page : page = newer'.page
    OBVIOUS
  <2>4. Above(page, f)
    BY <1>3, <2>1, <2>2, <2>3, AboveAnswer
  <2>5. Above(page, f)'
    BY <1>2, <2>4
  <2>6. Above(newer.page, f)'
    BY <2>3, <2>5 DEF Above, In, Ends
  <2>7. newer'.at = "answer"
    BY <1>3 DEF AnsweredNewer
  <2> QED
    BY <1>2, <2>2, <2>6, <2>7 DEF NewerInv, NewerIs
<1>5. PICK page : page = older.page
  OBVIOUS
<1>6. \A f : Below(older.page, f) => Below(older.page, f)'
  BY <1>1, <1>2, <1>5 DEF Below, In, Ends
<1>7. OlderInv'
  <2>1. PICK g : g = older.from
    OBVIOUS
  <2>2. Adjoins(older.from) => Adjoins(older.from)'
    BY <1>1, <1>2, <2>1 DEF Adjoins, ShownFrom
  <2> QED
    BY <1>1, <1>2, <1>6, <2>2 DEF Gaps, OlderInv
<1>8. OpeningInv'
  <2>1. PICK g : g = older.from
    OBVIOUS
  <2>2. ShownFrom(older.from) => ShownFrom(older.from)'
    BY <1>1, <1>2, <2>1 DEF ShownFrom
  <2> QED
    BY <1>1, <1>2, <1>6, <2>2 DEF Gaps, OpeningInv, Opening
<1>9. WindowInv' /\ BottomInv'
  BY <1>1, <1>2 DEF Gaps, WindowInv, BottomInv, Grounded, Opening
<1> QED
  BY <1>4, <1>7, <1>8, <1>9 DEF Gaps

\* The messages of the files are shown.
LEMMA GapCached ==
    ASSUME ListParts, OnlySent, KnownInv, FlowInv, Gaps, DraftInv, Clean, Clean', Cached,
           [ListNext]_listVars
    PROVE  Gaps'
<1>1. /\ ServerStill /\ UNCHANGED <<newer, allOlder, allNewer, fresh>>
      /\ list' \in [Message -> Cell]
  BY CachedStep DEF Cached, ServerStill
<1>2. /\ Existing' = Existing /\ Shown \subseteq Shown' /\ Now' = Now
      /\ \A k : Queued(k)' <=> Queued(k)
      /\ newest \in Nat /\ newest' = newest
      /\ Shown' \subseteq Message /\ Message \subseteq Nat
  BY <1>1, StillQueue, ShownStay, Numbers DEF Existing, ServerStill, Now, Shown
<1>3. \A f : ShownFrom(f) => ShownFrom(f)'
  BY <1>2, ShownFromStays
<1>4. /\ older.at = "read" /\ older # None
      /\ older \in ReadOlder /\ older' \in Asking
      /\ older'.at = "ask" /\ older' # None /\ older'.forward = older.forward
      /\ older'.initial = (older.initial \/ ~initialized)
      /\ older'.from = IF older.initial \/ ~initialized THEN older.from
                       ELSE OldestShown(list', older.from)
  BY CachedStep DEF OlderIs
<1>5. ~older.initial => initialized
  BY <1>4 DEF FlowInv, Clean
<1>6. /\ older.initial \in BOOLEAN /\ older'.initial = older.initial
      /\ older.initial => older'.from = older.from
      /\ ~older.initial => older'.from = OldestShown(list', older.from)
  BY <1>4, <1>5 DEF ReadOlder
<1>7. older' # None
  BY <1>4
<1>8. Opening' <=> Opening
  BY <1>4, <1>6, <1>7 DEF Opening
<1>9. OpeningInv'
  <2>1. PICK f : f = older.from
    OBVIOUS
  <2>2. older.initial /\ ShownFrom(older.from) => ShownFrom(older.from)'
    <3>1. ShownFrom(f) => ShownFrom(f)'
      BY <1>3
    <3> QED
      BY <1>6, <2>1, <3>1 DEF ShownFrom
  <2> QED
    BY <1>1, <1>2, <1>4, <1>6, <1>8, <2>2 DEF Gaps, OpeningInv, Opening
<1>10. OlderInv'
  <2>1. SUFFICES ASSUME ~older.initial
                 PROVE  \E g \in 1..Now : g = older'.from /\ Adjoins(g)'
    <3>1. ASSUME ~older.initial
          PROVE  older'.from \in (1..Now)' /\ Adjoins(older.from)'
      <4>1. PICK g \in 1..Now : g = older'.from /\ Adjoins(g)'
        BY <2>1, <3>1
      <4>2. Adjoins(g)' => Adjoins(older.from)'
        BY <4>1 DEF Adjoins, ShownFrom
      <4> QED
        BY <1>2, <4>1, <4>2
    <3> QED
      BY <1>4, <1>6, <3>1 DEF OlderInv
  <2>2. list' # [m \in Message |-> None]
    BY <1>4, <1>5, <2>1 DEF Cached, Clean
  <2>3. Shown' # {}
    BY <1>1, <2>2 DEF Shown
  <2> DEFINE S == Shown' \union sending \union unsent
  <2>4. S \subseteq 0..(MaxMessages + 1) /\ MaxMessages + 1 \in Nat /\ S # {}
    <3>1. older.from \in Nat
      BY <1>4 DEF ReadOlder
    <3> QED
      BY <1>1, <2>3, <3>1, Drafts DEF Shown
  <2>6. older'.from = Min(S)
    BY <1>6, <2>1, <2>4 DEF OldestShown, Shown
  <2> HIDE DEF S
  <2>5. older'.from \in S
    BY <2>4, <2>6, MinMax
  <2>7. CASE older'.from \in Shown'
    <3>1. Shown' \subseteq 1..newest
      BY <1>2, OnlySentNext, Numbers DEF OnlySent, Shown
    <3>2. 1..newest \subseteq 1..Now
      BY <1>2 DEF Now
    <3>3. PICK g \in Shown' : g = older'.from
      BY <2>7
    <3>4. Adjoins(g)'
      BY <3>3 DEF Adjoins
    <3> QED
      BY <3>1, <3>2, <3>3, <3>4
  <2>8. CASE older'.from \in sending \union unsent
    <3>1. PICK d \in sending \union unsent : d = older'.from
      BY <2>8
    <3>2. allNewer /\ ShownFrom(d)
      BY DEF DraftInv
    <3>3. allNewer' /\ ShownFrom(d)'
      BY <1>1, <1>3, <3>2
    <3>4. d \in 1..Now
      BY <1>2 DEF ListParts, Now
    <3>5. Adjoins(d)'
      BY <3>3 DEF Adjoins
    <3> QED
      BY <3>1, <3>4, <3>5
  <2> QED
    BY <2>5, <2>7, <2>8 DEF S
<1>11. NewerInv'
  <2>1. PICK page : page = newer.page
    OBVIOUS
  <2>2. \A f : Above(page, f) => Above(page, f)'
    BY <1>1, <1>2 DEF Above, In, Ends
  <2>3. \A f : Above(newer.page, f) => Above(newer.page, f)'
    BY <1>1, <2>1, <2>2 DEF Above, In, Ends
  <2> QED
    BY <1>1, <1>2, <2>3 DEF Gaps, NewerInv, NewerIs
<1>12. \A a, b \in Shown', m \in Existing : a < m /\ m < b => m \in Shown'
  <2>1. Torn(list') = {}
    BY DEF Cached, Clean, Torn
  <2>2. Gapless(list')
    BY <2>1 DEF Torn
  <2> QED
    BY <1>2, <2>2, Numbers DEF Gapless, Shown
<1>13. WindowInv'
  <2>1. SUFFICES ASSUME ~Opening
                 PROVE  /\ allNewer => \A m \in Existing : Reaches(m)'
                        /\ NoGap'
    BY <1>1, <1>2, <1>8 DEF WindowInv
  <2>2. NoGap'
    BY <1>2, <1>12 DEF NoGap
  <2>3. ASSUME allNewer, NEW m \in Existing PROVE Reaches(m)'
    <3>1. Reaches(m) /\ m \in Nat
      BY <2>1, <2>3, Numbers DEF Gaps, WindowInv
    <3>2. CASE m \in Shown \/ Queued(m)
      BY <1>2, <3>2 DEF Reaches
    <3>3. CASE AllBelow(m)
      <4>1. PICK b \in Shown : m < b
        BY <3>3 DEF AllBelow
      <4>2. CASE \E a \in Shown' : a < m
        BY <1>2, <1>12, <4>1, <4>2 DEF Reaches
      <4>3. CASE \A a \in Shown' : m = a \/ m < a
        BY <1>2, <4>1, <4>3 DEF Reaches, AllBelow
      <4> QED
        BY <1>2, <3>1, <4>2, <4>3
    <3> QED
      BY <3>1, <3>2, <3>3 DEF Reaches
  <2> QED
    BY <2>2, <2>3
<1>14. BottomInv'
  BY <1>1, <1>2 DEF Gaps, BottomInv, Grounded
<1> QED
  BY <1>9, <1>10, <1>11, <1>13, <1>14 DEF Gaps

\* The answer of the server is merged: it adjoins what is shown, or the whole
\* list is without a gap.
LEMMA GapMergeOlder ==
    ASSUME ListParts, OnlySent, KnownInv, FlowInv, Gaps, Clean', MergeOlder
    PROVE  Gaps'
<1>1. /\ ServerStill /\ UNCHANGED <<newer, allNewer>>
      /\ older # None /\ older.at = "answer" /\ older' = None
      /\ OlderIs("answer")
      /\ allOlder' = (allOlder \/ (older.forward = 0 /\ Ends(older.page, Batch)))
  BY DEF MergeOlder, ServerStill, OlderIs
<1>2. PICK page \in Answer : page = older.page
  BY OlderStep
<1>3. Shown' = Shown \union In(page) /\ In(page) \subseteq 1..newest
  BY <1>1, <1>2, OlderStep DEF Shown, In, Merges, Becomes, OnlySent
<1>4. /\ Existing' = Existing /\ Now' = Now
      /\ \A k : Queued(k)' <=> Queued(k)
      /\ newest \in Nat /\ newest' = newest
      /\ Shown \subseteq 1..newest /\ Existing \subseteq 1..newest
      /\ \A m \in 1..newest : m \in Nat
      /\ \A m \in 1..Now : m \in Nat
  BY <1>1, StillQueue, Numbers DEF Existing, ServerStill, Now
<1>5. OpeningInv' /\ OlderInv' /\ ~Opening'
  BY <1>1 DEF OpeningInv, OlderInv, Opening
<1>6. NewerInv'
  <2>1. PICK q : q = newer.page
    OBVIOUS
  <2>2. \A f : Above(q, f) => Above(q, f)'
    BY <1>1, <1>4 DEF Above, In, Ends
  <2>3. \A f : Above(newer.page, f) => Above(newer.page, f)'
    BY <1>1, <2>1, <2>2 DEF Above, In, Ends
  <2> QED
    BY <1>1, <1>3, <2>3 DEF Gaps, NewerInv, NewerIs
<1>7. CASE older.initial
  <2>0. Opening
    BY <1>1, <1>7 DEF Opening
  <2>1. Gapless(list')
    BY <1>1, <1>7 DEF MergeOlder, Clean, Torn
  <2>2. \A a, b \in Shown', m \in Existing : a < m /\ m < b => m \in Shown'
    <3>1. Shown' \subseteq Message /\ Existing' = Existing
      BY <1>4 DEF Shown
    <3>2. \A a, b \in Message : list'[a] # None /\ list'[b] # None
            => \A m \in Existing : a < m /\ m < b => list'[m] # None
      BY <2>1 DEF Gapless
    <3> QED
      BY <1>4, <3>1, <3>2, Numbers DEF Shown
  <2>3. NoGap'
    BY <1>4, <2>2 DEF NoGap
  <2>4. CASE older.forward = 0
    <3>1. PICK f \in 1..Now : ShownFrom(f) /\ Below(page, f)
      BY <1>1, <1>2, <2>0, <2>4 DEF Gaps, OpeningInv, Below, In, Ends
    <3>2. allNewer
      BY <2>0, <2>4 DEF Gaps, OpeningInv
    <3>3. ASSUME NEW m \in Existing PROVE Reaches(m)'
      <4>1. m \in Nat /\ f \in Nat
        BY <1>4
      <4>2. CASE f <= m
        BY <1>3, <1>4, <3>1, <4>2 DEF ShownFrom, Reaches
      <4>3. CASE m < f /\ m \in In(page)
        BY <1>3, <4>3 DEF Reaches
      <4>4. CASE m < f /\ m \notin In(page)
        <5>1. /\ ~Ends(page, Batch)
              /\ \A p \in In(page) : ~ (p <= m)
          BY <3>1, <4>4 DEF Below
        <5>2. In(page) # {}
          <6>1. Cardinality({}) = 0 /\ Batch \in Nat /\ Batch # 0
            BY FS_EmptySet, ListAssumptions
          <6>2. 0 < Batch
            BY <6>1
          <6> QED
            BY <5>1, <6>1, <6>2 DEF Ends
        <5>3. PICK p \in In(page) : p \in Nat /\ m < p
          BY <1>3, <1>4, <4>1, <5>1, <5>2
        <5>4. CASE \E a \in Shown' : a < m
          BY <1>3, <2>2, <5>3, <5>4 DEF Reaches
        <5>5. CASE \A a \in Shown' : ~ (a < m)
          <6>1. \A a \in Shown' : a \in Nat
            BY <1>3, <1>4
          <6>2. m \in Shown' \/ \A a \in Shown' : m < a
            BY <4>1, <5>5, <6>1
          <6> QED
            BY <1>3, <5>3, <6>2 DEF Reaches, AllBelow
        <5> QED
          BY <5>4, <5>5
      <4> QED
        BY <4>1, <4>2, <4>3, <4>4
    <3>4. WindowInv'
      BY <1>1, <1>4, <3>2, <3>3 DEF WindowInv
    <3>5. BottomInv'
      <4>1. ASSUME allOlder', NEW m \in Existing PROVE Grounded(m)'
        <5>1. CASE allOlder
          BY <1>1, <1>3, <1>4, <5>1 DEF Gaps, BottomInv, Grounded
        <5>2. CASE Ends(page, Batch)
          <6>1. m \in Nat /\ f \in Nat /\ m <= m
            BY <1>4
          <6>2. m \in Shown' \/ Queued(m)'
            BY <1>3, <1>4, <3>1, <5>2, <6>1 DEF ShownFrom, Below
          <6> QED
            BY <1>1, <3>2, <6>1, <6>2 DEF Grounded
        <5> QED
          BY <1>1, <1>2, <4>1, <5>1, <5>2
      <4> QED
        BY <1>1, <1>4, <3>2, <4>1 DEF BottomInv
    <3> QED
      BY <1>5, <1>6, <3>4, <3>5 DEF Gaps
  <2>5. CASE older.forward # 0
    <3>1. ~allNewer
      BY <2>0, <2>5 DEF Gaps, OpeningInv
    <3>2. WindowInv'
      BY <1>1, <2>3, <3>1 DEF WindowInv
    <3>3. BottomInv'
      BY <1>1, <1>3, <1>4, <2>5 DEF Gaps, BottomInv, Grounded
    <3> QED
      BY <1>5, <1>6, <3>2, <3>3 DEF Gaps
  <2> QED
    BY <2>4, <2>5
<1>8. CASE ~older.initial
  <2>0. ~Opening
    BY <1>8 DEF Opening
  <2>1. PICK f \in 1..Now : Adjoins(f) /\ Below(page, f)
    BY <1>1, <1>2, <1>8 DEF Gaps, OlderInv, Below, In, Ends
  <2>2. f \in Nat /\ \A a \in Shown' : a \in Nat
    BY <1>3, <1>4
  <2>3. ASSUME allNewer, NEW m \in Existing PROVE Reaches(m)'
    <3>1. Reaches(m) /\ m \in Nat
      BY <1>4, <2>0, <2>3 DEF Gaps, WindowInv
    <3>2. CASE m \in Shown \/ Queued(m)
      BY <1>3, <1>4, <3>2 DEF Reaches
    <3>4. CASE AllBelow(m) /\ ~ (m < f)
      <4>1. f \notin Shown /\ f <= m
        BY <2>2, <3>1, <3>4 DEF AllBelow
      <4>2. m \in Shown \/ Queued(m)
        BY <2>1, <4>1 DEF Adjoins, ShownFrom
      <4> QED
        BY <1>3, <1>4, <4>2 DEF Reaches
    <3>3. CASE AllBelow(m) /\ m < f
      <4>1. m < f
        BY <3>3
      <4>2. CASE m \in In(page)
        BY <1>3, <4>2 DEF Reaches
      <4>3. CASE m \notin In(page)
        <5>1. \A p \in In(page) : ~ (p <= m)
          BY <2>1, <4>1, <4>3 DEF Below
        <5>2. \A a \in Shown' : m < a
          BY <1>3, <2>2, <3>1, <3>3, <5>1 DEF AllBelow
        <5>3. Shown' # {}
          BY <1>3, <3>3 DEF AllBelow
        <5> QED
          BY <5>2, <5>3 DEF Reaches, AllBelow
      <4> QED
        BY <4>2, <4>3
    <3> QED
      BY <3>1, <3>2, <3>3, <3>4 DEF Reaches
  <2>4. ASSUME ~allNewer PROVE NoGap'
    <3>0. f \in Shown
      BY <2>1, <2>4 DEF Adjoins
    <3>1. NoGap
      BY <2>0, <2>4 DEF Gaps, WindowInv
    <3>2. SUFFICES ASSUME NEW a \in Shown', NEW b \in Shown', NEW m \in Existing,
                          a < m, m < b
                   PROVE  m \in Shown'
      BY <1>4 DEF NoGap
    <3>3. m \in Nat /\ a \in Nat /\ b \in Nat
      BY <1>4, <2>2
    <3>4. CASE m < f
      <4>1. a \in In(page) => m \in In(page)
        BY <2>1, <3>2, <3>3, <3>4 DEF Below
      <4>2. a \in Shown => m \in Shown
        BY <3>0, <3>1, <3>2, <3>4 DEF NoGap
      <4> QED
        BY <1>3, <4>1, <4>2
    <3>5. CASE f < m
      <4>1. b \notin In(page)
        BY <2>1, <2>2, <3>2, <3>3, <3>5 DEF Below
      <4>2. b \in Shown
        BY <1>3, <4>1
      <4>3. m \in Shown
        BY <3>0, <3>1, <3>2, <3>5, <4>2 DEF NoGap
      <4> QED
        BY <1>3, <4>3
    <3> QED
      BY <1>3, <2>2, <3>0, <3>3, <3>4, <3>5
  <2>5. WindowInv'
    BY <1>1, <1>4, <2>3, <2>4 DEF WindowInv
  <2>6. ASSUME allOlder', NEW m \in Existing PROVE Grounded(m)'
    <3>1. CASE allOlder
      BY <1>1, <1>3, <1>4, <3>1 DEF Gaps, BottomInv, Grounded
    <3>2. CASE Ends(page, Batch)
      <4>1. m \in Nat /\ m <= m
        BY <1>4
      <4>2. CASE m < f
        BY <1>3, <2>1, <3>2, <4>1, <4>2 DEF Below, Grounded
      <4>3. CASE f <= m /\ f \in Shown
        BY <1>3, <4>3 DEF Grounded
      <4>4. CASE f <= m /\ f \notin Shown
        <5>1. allNewer /\ (m \in Shown \/ Queued(m))
          BY <2>1, <4>4 DEF Adjoins, ShownFrom
        <5> QED
          BY <1>1, <1>3, <1>4, <4>1, <5>1 DEF Grounded
      <4> QED
        BY <2>2, <4>1, <4>2, <4>3, <4>4
    <3> QED
      BY <1>1, <1>2, <2>6, <3>1, <3>2
  <2>7. BottomInv'
    BY <1>1, <1>3, <1>4, <2>1, <2>6 DEF BottomInv, Adjoins
  <2> QED
    BY <1>5, <1>6, <2>5, <2>7 DEF Gaps
<1> QED
  BY <1>7, <1>8

LEMMA GapMergeNewer ==
    ASSUME ListParts, OnlySent, KnownInv, FlowInv, Gaps, MergeNewer
    PROVE  Gaps'
<1>1. /\ ServerStill /\ UNCHANGED <<older, mounted, allOlder>>
      /\ newer # None /\ newer.at = "answer" /\ newer' = None
      /\ NewerIs("answer") /\ allNewer \in BOOLEAN
      /\ allNewer' = (allNewer \/ Ends(newer.page, Batch))
  BY DEF MergeNewer, ServerStill, NewerIs, ListParts
<1>2. PICK page \in Answer : page = newer.page
  BY NewerStep
<1>3. Shown' = Shown \union In(page) /\ In(page) \subseteq 1..newest
  BY <1>1, <1>2, NewerStep DEF Shown, In, Merges, Becomes, OnlySent
<1>4. /\ Existing' = Existing /\ Now' = Now
      /\ \A k : Queued(k)' <=> Queued(k)
      /\ newest \in Nat /\ newest' = newest
      /\ Shown \subseteq 1..newest /\ Existing \subseteq 1..newest
      /\ \A m \in 1..newest : m \in Nat
  BY <1>1, StillQueue, Numbers DEF Existing, ServerStill, Now
<1>5. PICK f \in Shown : Above(page, f)
  BY <1>1, <1>2 DEF Gaps, NewerInv, Above, In, Ends
<1>6. f \in Nat /\ \A a \in Shown' : a \in Nat
  BY <1>3, <1>4
<1>7. (Opening' <=> Opening) /\ (Opening => older.forward = 0 /\ allNewer)
  BY <1>1 DEF Opening, FlowInv, Gaps, OpeningInv
<1>8. OpeningInv'
  <2>1. \A g : ShownFrom(g) => ShownFrom(g)'
    BY <1>3, <1>4, ShownFromStays
  <2>2. \A q, g : Below(q, g) => Below(q, g)'
    BY <1>4, BelowStays
  <2>3. PICK q : q = older.page
    OBVIOUS
  <2>4. PICK g : g = older.from
    OBVIOUS
  <2>5. \A h : Below(older.page, h) => Below(older.page, h)'
    BY <1>1, <2>2, <2>3 DEF Below, In, Ends
  <2>6. ShownFrom(older.from) => ShownFrom(older.from)'
    BY <1>1, <2>1, <2>4 DEF ShownFrom
  <2> QED
    BY <1>1, <1>4, <1>7, <2>1, <2>5, <2>6 DEF Gaps, OpeningInv
<1>9. OlderInv'
  <2>1. \A q, g : Below(q, g) => Below(q, g)'
    BY <1>4, BelowStays
  <2>2. PICK q : q = older.page
    OBVIOUS
  <2>3. \A h : Below(older.page, h) => Below(older.page, h)'
    BY <1>1, <2>1, <2>2 DEF Below, In, Ends
  <2>4. \A h : ShownFrom(h) => ShownFrom(h)'
    BY <1>3, <1>4, ShownFromStays
  <2>5. \A h : Adjoins(h) => Adjoins(h)'
    BY <1>1, <1>3, <2>4 DEF Adjoins
  <2>6. PICK h : h = older.from
    OBVIOUS
  <2>7. Adjoins(older.from) => Adjoins(older.from)'
    BY <1>1, <2>5, <2>6 DEF Adjoins, ShownFrom
  <2> QED
    BY <1>1, <1>4, <2>3, <2>5, <2>7 DEF Gaps, OlderInv
<1>10. NewerInv'
  BY <1>1 DEF NewerInv, NewerIs
<1>11. ASSUME ~Opening, ~allNewer,
              NEW m \in Existing, NEW a \in Shown', a < m, m < f
       PROVE  m \in Shown
  <2>1. NoGap
    BY <1>11 DEF Gaps, WindowInv
  <2>2. a \notin In(page)
    BY <1>4, <1>5, <1>6, <1>11 DEF Above
  <2> QED
    BY <1>3, <1>11, <2>1, <2>2 DEF NoGap
<1>12. ASSUME NEW m \in Existing, m < f, \A a \in Shown : m < a
       PROVE  Reaches(m)'
  <2>1. \A a \in Shown' : m < a
    BY <1>3, <1>4, <1>5, <1>6, <1>12 DEF Above
  <2> QED
    BY <1>3, <2>1 DEF Reaches, AllBelow
<1>13. ASSUME ~Opening, allNewer', NEW m \in Existing PROVE Reaches(m)'
  <2>0. m \in Nat
    BY <1>4
  <2>1. CASE allNewer
    <3>1. Reaches(m)
      BY <1>13, <2>1 DEF Gaps, WindowInv
    <3>2. CASE AllBelow(m)
      BY <1>5, <1>12, <3>2 DEF AllBelow
    <3> QED
      BY <1>3, <1>4, <3>1, <3>2 DEF Reaches
  <2>2. CASE ~allNewer
    <3>1. Ends(page, Batch)
      BY <1>1, <1>2, <1>13, <2>2
    <3>2. CASE f <= m
      BY <1>3, <1>4, <1>5, <2>2, <3>1, <3>2 DEF Above, Reaches
    <3>3. CASE m < f /\ \E a \in Shown : a < m
      BY <1>3, <1>11, <1>13, <2>2, <3>3 DEF Reaches
    <3>4. CASE m < f /\ \A a \in Shown : ~ (a < m)
      <4>1. m \in Shown \/ \A a \in Shown : m < a
        BY <1>4, <2>0, <3>4
      <4> QED
        BY <1>3, <1>12, <3>4, <4>1 DEF Reaches
    <3> QED
      BY <1>6, <2>0, <3>2, <3>3, <3>4
  <2> QED
    BY <2>1, <2>2
<1>14. ASSUME ~Opening, ~allNewer' PROVE NoGap'
  <2>0. ~allNewer
    BY <1>1, <1>14
  <2>1. NoGap
    BY <1>14, <2>0 DEF Gaps, WindowInv
  <2>2. SUFFICES ASSUME NEW a \in Shown', NEW b \in Shown', NEW m \in Existing,
                        a < m, m < b
                 PROVE  m \in Shown'
    BY <1>4 DEF NoGap
  <2>3. m \in Nat /\ a \in Nat /\ b \in Nat
    BY <1>4, <1>6
  <2>4. CASE m < f
    BY <1>3, <1>11, <1>14, <2>0, <2>2, <2>4
  <2>5. CASE f < m
    <3>0. f <= m /\ m <= b
      BY <1>6, <2>2, <2>3, <2>5
    <3>1. b \in In(page) => m \in In(page)
      BY <1>5, <2>2, <3>0 DEF Above
    <3>2. b \in Shown => m \in Shown
      BY <2>1, <2>2, <2>5 DEF NoGap
    <3> QED
      BY <1>3, <3>1, <3>2
  <2> QED
    BY <1>3, <1>6, <2>3, <2>4, <2>5
<1>15. WindowInv'
  BY <1>4, <1>7, <1>13, <1>14 DEF WindowInv
<1>16. BottomInv'
  BY <1>1, <1>3, <1>4 DEF Gaps, BottomInv, Grounded
<1> QED
  BY <1>8, <1>9, <1>10, <1>15, <1>16 DEF Gaps

\* Nothing that is done makes a gap, but for what the promises make an
\* exception for.
LEMMA DraftNext ==
    ASSUME ListParts, OnlySent, QueueInv, KnownInv, DraftInv, Clean', [ListNext]_listVars
    PROVE  DraftInv'
<1>0. /\ newest \in Nat /\ Existing = (1..newest) \ gone /\ allNewer \in BOOLEAN
  BY Sizes DEF Existing, ListParts
<1>1. CASE ~allNewer
  <2>1. sending = {} /\ unsent = {}
    BY <1>1 DEF DraftInv
  <2>2. ~Send /\ ~NotSent /\ \A m \in Message : ~Sent(m) /\ ~SendFails(m)
    BY <1>1, <2>1 DEF Send, NotSent, Drafted, Sent, SendFails, Clean
  <2>3. sending' = sending /\ unsent' = unsent
    BY <2>2 DEF ListNext, listVars, Arrive, Edit, Delete, Handle, LoadOlder, ReadFiles,
       Cached, AnswerOlder, MergeOlder, FailOlder, LoadNewer, AnswerNewer, MergeNewer,
       FailNewer, Jump
  <2> QED
    BY <2>1, <2>3 DEF DraftInv
<1>2. CASE allNewer
  <2>1. CASE Send
    <3>1. /\ newest < MaxMessages /\ version[newest + 1] = 0
          /\ newest' = newest + 1 /\ Pushed("own", newest + 1, 0)
          /\ UNCHANGED <<version, gone, list, allNewer, unsent>>
          /\ sending' = sending \union {newest + 1}
      BY <2>1, Unedited DEF Send
    <3>2. \A k : Queued(k)' <=> Queued(k) \/ k = newest + 1
      BY <3>1, QueueSend
    <3>3. \A m \in Existing' : m \in Existing \/ (m = newest + 1 /\ Queued(m)')
      BY <1>0, <3>1, <3>2 DEF Existing
    <3>4. Shown' = Shown
      BY <3>1 DEF Shown
    <3>5. \A d : ShownFrom(d) => ShownFrom(d)'
      BY <3>2, <3>3, <3>4, ShownFromStays
    <3>6. \A d : d = newest + 1 => ShownFrom(d)'
      <4>1. \A m \in Existing : ~ (newest + 1 <= m)
        BY <1>0
      <4> QED
        BY <3>3, <4>1 DEF ShownFrom
    <3> QED
      BY <1>2, <3>1, <3>5, <3>6 DEF DraftInv
  <2>2. CASE ~Send
    <3>1. allNewer'
      <4>1. CASE Handle
        BY <1>0, <1>2, <4>1, Popping, NewStep, EditStep, DeleteStep DEF Push
      <4> QED
        BY <1>2, <2>2, <4>1 DEF ListNext, listVars, Arrive, NotSent, SendFails, Sent,
           Edit, Delete, LoadOlder, ReadFiles, Cached, AnswerOlder, MergeOlder, FailOlder,
           LoadNewer, AnswerNewer, MergeNewer, FailNewer, Jump
    <3>2. Shown \subseteq Shown'
      BY ShownStay
    <3>3. /\ \A m \in Existing' : m \in Existing \/ Queued(m)'
          /\ \A k : Queued(k) => Queued(k)' \/ k \in Shown'
      <4>1. ASSUME NEW kind \in {"new", "own"}, Arrive(kind)
            PROVE  /\ \A m \in Existing' : m \in Existing \/ Queued(m)'
                   /\ \A k : Queued(k) => Queued(k)'
        <5>1. /\ newest < MaxMessages /\ version[newest + 1] = 0
              /\ newest' = newest + 1 /\ Pushed(kind, newest + 1, 0)
              /\ UNCHANGED <<version, gone>>
          BY <4>1, Unedited DEF Arrive
        <5>2. \A k : Queued(k)' <=> Queued(k) \/ k = newest + 1
          BY <5>1, QueueSend
        <5> QED
          BY <1>0, <5>1, <5>2 DEF Existing
      <4>2. ASSUME NEW n \in Message, Edit(n) \/ Delete(n)
            PROVE  /\ Existing' \subseteq Existing
                   /\ \A k : Queued(k) => Queued(k)'
        <5>1. \A k : Queued(k)' <=> Queued(k)
          BY <4>2, QueueChange
        <5> QED
          BY <4>2, <5>1 DEF Edit, Delete, Existing
      <4>3. CASE Handle
        <5>1. PICK n \in Message : n = Head(pushes).id
          BY <4>3, Popping DEF Push
        <5>2. \A k : Queued(k) => Queued(k)' \/ (Newly(Head(pushes)) /\ k = n)
          BY <4>3, <5>1, Shifting
        <5>3. Newly(Head(pushes)) => n \in Shown'
          <6>1. Newly(Head(pushes)) => lastKey # <<n, "new">>
            BY <4>3, <5>1, QueueHandle
          <6>2. Newly(Head(pushes)) => Learns(list, n, 0)
            BY <1>2, <4>3, <5>1, <6>1, NewStep DEF Newly
          <6> QED
            BY <6>2 DEF Learns, Becomes, Shown
        <5> QED
          BY <4>3, <5>2, <5>3 DEF Handle, Existing
      <4>4. CASE ServerStill
        BY <4>4, StillQueue DEF ServerStill, Existing
      <4> QED
        BY <2>2, <4>1, <4>2, <4>3, <4>4 DEF ServerStill, ListNext, listVars, NotSent,
           SendFails, Sent, LoadOlder, ReadFiles, Cached, AnswerOlder, MergeOlder,
           FailOlder, LoadNewer, AnswerNewer, MergeNewer, FailNewer, Jump
    <3>4. \A d : ShownFrom(d) => ShownFrom(d)'
      BY <3>2, <3>3, ShownFromStays
    <3>5. \A d \in sending' \union unsent' :
            d \in sending \union unsent \/ (NotSent /\ d = Now)
      BY <2>2 DEF ListNext, listVars, Arrive, NotSent, SendFails, Sent, Edit, Delete,
         Handle, LoadOlder, ReadFiles, Cached, AnswerOlder, MergeOlder, FailOlder,
         LoadNewer, AnswerNewer, MergeNewer, FailNewer, Jump
    <3>6. \A d : d = Now => ShownFrom(d)
      BY <1>0 DEF Now, ShownFrom
    <3> QED
      BY <3>1, <3>4, <3>5, <3>6 DEF DraftInv
  <2> QED
    BY <2>1, <2>2
<1> QED
  BY <1>1, <1>2

LEMMA GapNext ==
    ASSUME ListParts, OnlySent, QueueInv, KnownInv, FlowInv, GapInv, [ListNext]_listVars
    PROVE  GapInv'
<1> SUFFICES ASSUME Clean' PROVE Gaps' /\ DraftInv'
  BY DEF GapInv
<1>1. Clean
  BY UpsetGrows DEF Clean
<1>2. Gaps /\ DraftInv
  BY <1>1 DEF GapInv
<1>13. DraftInv'
  BY <1>2, DraftNext
<1>3. CASE \/ Arrive("new") \/ Arrive("own") \/ Send
           \/ \E m \in Message : Edit(m) \/ Delete(m)
  BY <1>2, <1>13, <1>3, GapServer
<1>4. CASE Handle
  BY <1>2, <1>13, <1>4, GapHandle
<1>5. CASE \E m \in Message : Sent(m)
  BY <1>2, <1>13, <1>5, GapSent
<1>6. CASE LoadOlder \/ Jump \/ FailOlder \/ LoadNewer \/ FailNewer
  BY <1>2, <1>13, <1>6, GapLoad
<1>7. CASE AnswerOlder
  BY <1>2, <1>13, <1>7, GapAnswerOlder
<1>8. CASE AnswerNewer
  BY <1>2, <1>13, <1>8, GapAnswerNewer
<1>9. CASE Cached
  BY <1>1, <1>2, <1>9, <1>13, GapCached
<1>14. CASE ReadFiles
  BY <1>2, <1>13, <1>14, GapRead
<1>10. CASE MergeOlder
  BY <1>2, <1>13, <1>10, GapMergeOlder
<1>11. CASE MergeNewer
  BY <1>2, <1>13, <1>11, GapMergeNewer
<1>12. CASE UNCHANGED listVars \/ NotSent \/ \E m \in Message : SendFails(m)
  <2>1. /\ ServerStill /\ UNCHANGED <<older, newer, allOlder, allNewer>>
        /\ newest \in Nat /\ allNewer \in BOOLEAN
    BY <1>12, Sizes DEF listVars, NotSent, SendFails, ServerStill, ListParts
  <2>2. /\ Existing' = Existing /\ Shown' = Shown /\ newest' = newest
        /\ \A k : Queued(k)' <=> Queued(k)
    <3>1. list' = list
      BY <1>12 DEF listVars, NotSent, SendFails
    <3> QED
      BY <2>1, <3>1, StillGaps
  <2>3. newest' \in Nat /\ newest <= newest'
    BY <2>1, <2>2
  <2>4. Opening' <=> Opening
    BY <2>1 DEF Opening
  <2>5. OpeningInv' /\ OlderInv' /\ NewerInv'
    BY <1>2, <2>1, <2>2, <2>3, CallsStay DEF Gaps
  <2>6. WindowInv' /\ BottomInv'
    BY <1>2, <2>1, <2>2, <2>4, WindowStays DEF Gaps
  <2> QED
    BY <1>13, <2>5, <2>6 DEF Gaps
<1> QED
  BY <1>14, <1>3, <1>4, <1>5, <1>6, <1>7, <1>8, <1>9, <1>10, <1>11, <1>12 DEF ListNext

-----------------------------------------------------------------------------
(* The invariant of the list, and what it promises *)

\* Types; what is shown was sent (OnlySent) and is not newer than what there is
\* (KnownInv); what the queue announces (QueueInv); what is current (FreshInv);
\* which calls are under way when (FlowInv); how far the list reaches (GapInv).
ListInv ==
    /\ ListTypeOK /\ OnlySent /\ QueueInv /\ KnownInv /\ FreshInv
    /\ FlowInv /\ GapInv

\* The messages that are shown, stored, pushed and answered are messages that
\* were sent; each change of one is either known where it is shown or still on
\* its way, in order.
THEOREM ListInvariant == ListSpec => []ListInv
<1>1. ListInit => ListInv
  <2> SUFFICES ASSUME ListInit PROVE ListInv
    OBVIOUS
  <2>1. ListTypeOK /\ ListParts
    BY ListTypesInit, ListInParts
  <2>2. OnlySent
    <3>1. /\ pushes = <<>>
          /\ ~OlderIs("read") /\ ~OlderIs("answer") /\ ~NewerIs("answer")
      BY DEF ListInit, OlderIs, NewerIs
    <3>2. \A m \in Message : list[m] # None => m \in fresh
      BY DEF ListInit
    <3>3. \A m \in Message : version[m] # 0 => m \in 1..newest
      <4>1. \A m \in Message : version[m] > 0 => m <= newest
        BY DEF ListInit
      <4>2. \A m \in Message : version[m] \in Nat /\ m \in Nat /\ m >= 1 /\ newest \in Nat
        BY <2>1, Sizes DEF ListParts, Message
      <4> QED
        BY <4>1, <4>2
    <3>4. \A m \in Message : stored[m] # None => m \in 1..newest
      <4>1. \A m \in Message : lastKey = <<m, "edit">> => version[m] # 0
        <5>1. \A m \in Message : lastKey = <<m, "edit">> => version[m] > 0
          BY ReplayedKey DEF ListInit
        <5> QED
          BY <5>1
      <4>2. PICK known \in SUBSET (1..newest) : \A m \in Message :
                stored[m] # None => lastKey = <<m, "edit">> \/ m \in known
        BY DEF ListInit
      <4> QED
        BY <3>3, <4>1, <4>2
    <3> QED
      BY <2>1, <3>1, <3>2, <3>3, <3>4 DEF OnlySent, ListParts
  <2> QED
    BY <2>1, <2>2, QueueInit, KnownInit, FreshInit, FlowInit, GapInit
       DEF ListInv
<1>2. ListInv /\ [ListNext]_listVars => ListInv'
  <2> SUFFICES ASSUME ListInv, [ListNext]_listVars PROVE ListInv'
    OBVIOUS
  <2>1. ListParts
    BY ListInParts DEF ListInv
  <2>2. ListTypeOK'
    BY ListTypesNext DEF ListInv
  <2>3. OnlySent'
    BY <2>1, OnlySentNext DEF ListInv
  <2>4. QueueInv'
    BY <2>1, QueueNext DEF ListInv
  <2>5. KnownInv'
    BY <2>1, KnownNext DEF ListInv
  <2>6. FreshInv'
    BY <2>1, FreshNext DEF ListInv
  <2>7. FlowInv'
    BY <2>1, FlowNext DEF ListInv
  <2>8. GapInv'
    BY <2>1, GapNext DEF ListInv
  <2> QED
    BY <2>2, <2>3, <2>4, <2>5, <2>6, <2>7, <2>8 DEF ListInv
<1> QED
  BY <1>1, <1>2, PTL DEF ListSpec

\* The variables of the list keep their types.
THEOREM ListTyped == ListSpec => []ListTypeOK
<1>1. ListInv => ListTypeOK
  BY DEF ListInv
<1> QED
  BY <1>1, ListInvariant, PTL

\* What the server has told is shown as it is, once nothing is under way: no
\* edit is older than the last one, and what is deleted shows it.
THEOREM ShownCurrent == ListSpec => []ShownIsCurrent
<1>1. ListInv => ShownIsCurrent
  <2> SUFFICES ASSUME ListInv, pushes = <<>>, Orderly, NEW m \in fresh \intersect Shown
               PROVE  list[m].version = version[m] /\ (list[m].deleted <=> m \in gone)
    BY DEF ShownIsCurrent, AtRest, Orderly
  <2>1. m \in Message /\ list[m] # None
    BY DEF Shown
  <2>2. ~Pending(m) /\ ~Going(m)
    BY DEF Pending, Coming, Going
  <2>3. Current(m) /\ Knows(list[m], m)
    BY <2>1 DEF ListInv, FreshInv, KnownInv
  <2> QED
    BY <2>1, <2>2, <2>3 DEF Current, Knows, ShownDeleted
<1> QED
  BY <1>1, ListInvariant, PTL

\* The list has no gap, once nothing is under way, back to the first message
\* when all older ones count as loaded, and up to the newest when all newer do.
THEOREM NoGaps == ListSpec => []ListComplete
<1> DEFINE first == IF allOlder THEN 1 ELSE Min(Shown)
           last == IF allNewer THEN newest ELSE Max(Shown)
<1>1. ListInv => ListComplete
  <2> SUFFICES ASSUME ListInv, AtRest, Shown # {}, Clean,
                      NEW m \in Existing, m \in first..last
               PROVE  m \in Shown
    BY DEF ListComplete, Clean
  <2>1. ListParts /\ OnlySent /\ Gaps /\ ~Opening
    BY ListInParts DEF ListInv, GapInv, Gaps, AtRest, Opening
  <2>2. /\ newest \in Nat /\ m \in Nat
        /\ \A a \in Shown : a \in Nat
        /\ Shown \subseteq 0..newest
    BY <2>1, Numbers
  <2>3. /\ Min(Shown) \in Shown /\ Max(Shown) \in Shown
    BY <2>2, MinMax
  <2>4. ~Queued(m)
    BY DEF AtRest, Queued
  <2>5. PICK a \in Shown : a <= m
    <3>1. CASE allOlder
      BY <2>1, <2>4, <3>1 DEF Gaps, BottomInv, Grounded
    <3>2. CASE ~allOlder
      <4>1. Min(Shown) <= m
        BY <2>2, <2>3, <3>2
      <4> QED
        BY <2>3, <4>1
    <3> QED
      BY <3>1, <3>2
  <2>6. CASE allNewer
    <3>1. Reaches(m)
      BY <2>1, <2>6 DEF Gaps, WindowInv
    <3>2. ~AllBelow(m)
      BY <2>2, <2>5 DEF AllBelow
    <3> QED
      BY <2>4, <3>1, <3>2 DEF Reaches
  <2>7. CASE ~allNewer
    <3>1. NoGap
      BY <2>1, <2>7 DEF Gaps, WindowInv
    <3>2. PICK b \in Shown : m <= b
      <4>1. PICK b \in Shown : b = Max(Shown)
        BY <2>3
      <4>2. first \in Nat /\ last = b
        BY <2>2, <2>3, <2>7, <4>1
      <4>3. m <= b
        BY <2>2, <4>1, <4>2
      <4> QED
        BY <4>3
    <3>3. CASE a < m /\ m < b
      BY <3>1, <3>3 DEF NoGap
    <3>4. CASE a = m \/ b = m
      BY <3>4
    <3> QED
      BY <2>2, <2>5, <3>2, <3>3, <3>4
  <2> QED
    BY <2>6, <2>7
<1> QED
  BY <1>1, ListInvariant, PTL

=============================================================================
