------------------------------ MODULE Connection ------------------------------
(***************************************************************************)
(* The connection of the app to the server: MobileApi.js (init, sync,      *)
(* reconnect, waitSync, disconnect and the "closed" and "online" events),  *)
(* invoke and its restart in utils/invoke.js, the currentUser subscriber   *)
(* of stores/api.js and the account page that switches accounts.           *)
(*                                                                         *)
(* JavaScript runs one callback at a time: an action is what runs between  *)
(* two awaits, and a suspended function is a program counter.  A function  *)
(* whose promise has settled resumes before any further event is handled   *)
(* (Ready), as microtasks do.  Three calls are shared by all who make them *)
(* while one is under way: this.reconnectPromise (agent Loop),             *)
(* this.initializing (variable init) and this.syncing (variable sync).     *)
(*                                                                         *)
(* The body of such a call is an async function that ends with             *)
(* `finally { this.xxx = null }` and whose promise is then assigned to     *)
(* this.xxx.  A body that returns before its first await is assigned after *)
(* its own reset: the field holds a settled promise from then on, which is *)
(* the program counter "latched" here.                                     *)
(***************************************************************************)
EXTENDS Naturals

CONSTANTS Caller,    \* the callers of the API in the user interface
          Alike,     \* those of them that send equal commands
          Sub,       \* bound: the invocations of the currentUser subscriber alive
                     \* at once (a further one is left out)
          MaxFaults, \* bound: dropped, refused and timed out requests
          MaxMoves   \* bound: sign-ins, account switches, logouts and removals

ASSUME ConnectionAssumption ==
    /\ Alike \subseteq Caller
    /\ {"loop", "page"} \cap Sub = {}
    /\ {"fetch", "bye", "alike"} \cap Caller = {}
    /\ MaxFaults \in Nat /\ MaxMoves \in Nat

Loop == "loop"       \* the body of reconnect()
Page == "page"       \* the account page in select()
Fetch == "fetch"     \* the fetch_contacts request made inside sync()
Bye == "bye"         \* the logout request made inside logoutAccount()

VARIABLES connected, \* sessionGet("connected")
          synced,    \* sessionGet("sync")
          pending,   \* this.synchronizedPending
          recent,    \* this.latest_init is less than three seconds old
          user,      \* currentUser is an id, not null
          account,   \* getCurrentAccount() finds an account
          leaving,   \* where logoutAccount() or removeAccountOnly() is
          agent,     \* agent[a]: where each caller of init() is
          init,      \* the body behind this.initializing
          sync,      \* the body behind this.syncing
          call,      \* call[c]: where each API call is
          active,    \* activeReconnect is set
          retries,   \* inflightRetries
          link,      \* the Rust client has an open connection
          authed,    \* a sync has been answered on the open connection
          closing,   \* a "closed" event is on its way to the listener
          hangup,    \* a disconnect command is on its way to the client
          faults,    \* bound: faults so far
          moves,     \* bound: sign-ins and the like so far
          missed     \* history: since init was last invoked, the session was
                     \* broken while its result was still on the way

session == <<connected, synced, pending, recent>>
who == <<user, account, leaving>>
flows == <<agent, init, sync>>
calls == <<call, active, retries>>
wire == <<link, authed, closing, hangup>>
bounds == <<faults, moves>>
vars == <<session, who, flows, calls, wire, bounds, missed>>

Agent == {Loop, Page} \cup Sub
Call == Caller \cup {Fetch, Bye}
\* The key of a call in inflightRetries: its command and arguments.
KeyOf(c) == IF c \in Alike THEN "alike" ELSE c
Key == {KeyOf(c) : c \in Call}
\* How often restart() sends a command again.
MaxRetries == 2
Outcome == {"yes", "no", "throw"}  \* what init() returns, or that it throws

Off == [pc |-> "off", own |-> FALSE, res |-> "no"]

AgentState == [pc : {"off", "picking", "delay", "init", "back", "sync", "got",
                     "latched"},
               own : BOOLEAN, res : Outcome]
InitState == [pc : {"off", "account", "wire", "answered", "sync", "synced",
                    "latched"},
              force : BOOLEAN]
SyncState == {"off", "account", "wire", "answered", "saving", "storing",
              "fetching", "merging"}
CallState == [pc : {"idle", "waiting", "released", "sent", "restart", "woken"},
              sent : Nat]

TypeOK ==
    /\ connected \in BOOLEAN /\ synced \in BOOLEAN
    /\ pending \in BOOLEAN /\ recent \in BOOLEAN
    /\ user \in BOOLEAN /\ account \in BOOLEAN
    /\ leaving \in {"off", "asking", "removing"}
    /\ agent \in [Agent -> AgentState]
    /\ init \in InitState
    /\ sync \in SyncState
    /\ call \in [Call -> CallState]
    /\ active \in BOOLEAN /\ missed \in BOOLEAN
    /\ link \in BOOLEAN /\ authed \in BOOLEAN
    /\ closing \in BOOLEAN /\ hangup \in BOOLEAN
    /\ retries \in [Key -> 0 .. 2]
    /\ faults \in 0 .. MaxFaults
    /\ moves \in 0 .. MaxMoves

NoInit == [pc |-> "off", force |-> FALSE]
ForcedInit == [pc |-> "account", force |-> TRUE]
Idle == [pc |-> "idle", sent |-> 0]

Init ==
    /\ connected = FALSE /\ synced = FALSE /\ pending = TRUE /\ recent = FALSE
    /\ user = FALSE /\ account = FALSE /\ leaving = "off"
    /\ agent = [a \in Agent |-> Off]
    /\ init = NoInit
    /\ sync = "off"
    /\ call = [c \in Call |-> Idle]
    /\ active = FALSE
    /\ retries = [k \in Key |-> 0]
    /\ link = FALSE /\ authed = FALSE /\ closing = FALSE /\ hangup = FALSE
    /\ faults = 0 /\ moves = 0
    /\ missed = FALSE

-----------------------------------------------------------------------------
(* Promises *)

\* A settled promise has resumed a function that has not run yet.
Ready ==
    \/ \E a \in Agent : agent[a].pc \in {"back", "got"}
    \/ init.pc = "synced"
    \/ \E c \in Call : call[c].pc \in {"released", "woken"}

Event == ~Ready  \* the next event is handled when no function is ready to run

\* resolve_sync(): all that wait for this.synchronized resume.
Released ==
    [c \in Call |-> IF call[c].pc = "waiting"
                      THEN [call[c] EXCEPT !.pc = "released"] ELSE call[c]]
\* Mutant of Woken: those that joined the reconnect of another are left waiting.
NobodyWoken == call
\* activeReconnect settles: all that wait for it in restart resume.
Woken ==
    [c \in Call |-> IF call[c].pc = "restart"
                      THEN [call[c] EXCEPT !.pc = "woken"] ELSE call[c]]
\* `await this.initializing`: a latched promise has settled, with false.
AwaitInit(i) == IF i.pc = "latched" THEN "back" ELSE "init"
\* Mutant of Answered: a failure settles nothing.
OnlySuccessAnswered(ag, res) ==
    [a \in Agent |-> IF ag[a].pc = "init" /\ res # "no"
                       THEN [ag[a] EXCEPT !.pc = "back", !.res = res] ELSE ag[a]]
\* this.initializing settles with res.
Answered(ag, res) ==
    [a \in Agent |-> IF ag[a].pc = "init"
                       THEN [ag[a] EXCEPT !.pc = "back", !.res = res] ELSE ag[a]]
\* this.syncing settles.
Synchronized ==
    [a \in Agent |-> IF agent[a].pc = "sync"
                       THEN [agent[a] EXCEPT !.pc = "got"] ELSE agent[a]]

\* this.sync(), called by one whose program counter becomes what `waits` says:
\* join the sync under way, return at once when there is nothing to do, or begin.
CallSync(waits, returns) ==
    \/ sync # "off" /\ waits /\ UNCHANGED sync
    \/ sync = "off" /\ synced /\ returns /\ UNCHANGED sync
    \/ sync = "off" /\ ~synced /\ waits /\ sync' = "account"

\* The session breaks now, and the loop will still be told that init succeeded.
Overtaken == init.pc \in {"answered", "sync"} \/ agent[Loop].pc = "sync"

\* Mutant of Reconnect: the test for a running loop comes first.
ReconnectTestsFirst ==
    /\ missed' = (missed \/ Overtaken)
    /\ IF agent[Loop].pc # "off"
         THEN UNCHANGED <<connected, synced, pending, agent>>
         ELSE /\ connected' = FALSE /\ synced' = FALSE /\ pending' = TRUE
              /\ agent' = [agent EXCEPT ![Loop].pc =
                              IF user THEN "delay" ELSE "latched"]

\* reconnect(): mark the session broken and start the loop if it has none.
\* Without a user the loop ends before its first await.
Reconnect ==
    /\ connected' = FALSE
    /\ synced' = FALSE
    /\ pending' = TRUE
    /\ agent' = IF agent[Loop].pc # "off" THEN agent
                ELSE [agent EXCEPT ![Loop].pc =
                        IF user THEN "delay" ELSE "latched"]
    /\ missed' = (missed \/ Overtaken)

\* The subscriber of currentUser, up to its first await: nothing to do, or
\* sync(), or init() - which within three seconds of the last one returns false
\* at once and leaves this.initializing set.
InitBySubscriber ==
    IF synced \/ connected \/ init.pc # "off" THEN init
    ELSE [NoInit EXCEPT !.pc = IF recent THEN "latched" ELSE "account"]
SubscriberWaits ==
    CASE synced -> Off
      [] ~synced /\ connected -> [Off EXCEPT !.pc = "sync"]
      [] ~synced /\ ~connected ->
           [Off EXCEPT !.pc = AwaitInit(InitBySubscriber)]
SyncBySubscriber(now) ==
    IF ~synced /\ connected /\ now = "off" THEN "account" ELSE now

Subscribed(s, now) ==
    /\ init' = InitBySubscriber
    /\ sync' = SyncBySubscriber(now)
    /\ agent' = [agent EXCEPT ![s] = SubscriberWaits]

-----------------------------------------------------------------------------
(* reconnect(): the loop *)

\* The delay has passed: init(true, true).
Retry ==
    /\ Event
    /\ agent[Loop].pc = "delay"
    /\ IF init.pc = "off"
         THEN /\ init' = ForcedInit
              /\ agent' = [agent EXCEPT
                              ![Loop] = [Off EXCEPT !.pc = "init", !.own = TRUE]]
         ELSE /\ agent' = [agent EXCEPT
                              ![Loop] = [Off EXCEPT !.pc = AwaitInit(init)]]
              /\ UNCHANGED init
    /\ UNCHANGED <<session, who, sync, calls, wire, bounds, missed>>

\* Mutant of LoopTurns: the loop tries once.
LoopTriesOnce ==
    /\ agent[Loop].pc = "got"
    /\ agent' = [agent EXCEPT ![Loop] = Off]
    /\ call' = Woken
    /\ active' = FALSE
    /\ UNCHANGED <<session, who, init, sync, retries, wire, bounds, missed>>

\* init() has returned: leave the loop on success, else test its condition.
LoopTurns ==
    /\ agent[Loop].pc = "got"
    /\ IF agent[Loop].res # "yes" /\ ~connected /\ user
         THEN /\ agent' = [agent EXCEPT ![Loop] = [Off EXCEPT !.pc = "delay"]]
              /\ UNCHANGED <<call, active>>
         ELSE /\ agent' = [agent EXCEPT ![Loop] = Off]
              /\ call' = Woken
              /\ active' = FALSE
    /\ UNCHANGED <<session, who, init, sync, retries, wire, bounds, missed>>

-----------------------------------------------------------------------------
(* init(): what its callers do when it returns *)

\* The promise of this.initializing has settled.  One that joined it and asked
\* for a sync calls sync(); the subscriber calls sync() after a success.
BackFromInit(a) ==
    /\ agent[a].pc = "back"
    /\ IF IF a \in Sub THEN agent[a].res = "yes"
                       ELSE ~agent[a].own /\ agent[a].res # "throw" /\ ~synced
         THEN CallSync(agent' = [agent EXCEPT ![a].pc = "sync"],
                       agent' = [agent EXCEPT ![a].pc = "got"])
         ELSE agent' = [agent EXCEPT ![a].pc = "got"] /\ UNCHANGED sync
    /\ UNCHANGED <<session, who, init, calls, wire, bounds, missed>>

\* The subscriber and the account page end.
AgentEnds(a) ==
    /\ a # Loop
    /\ agent[a].pc = "got"
    /\ agent' = [agent EXCEPT ![a] = Off]
    /\ UNCHANGED <<session, who, init, sync, calls, wire, bounds, missed>>

(* init(): its body *)

\* Mutant of Connect: the session keeps the result of its last sync.
ConnectKeepsSync ==
    /\ Event
    /\ init.pc = "account"
    /\ account
    /\ init' = [init EXCEPT !.pc = "wire"]
    /\ recent' = TRUE /\ connected' = FALSE /\ pending' = TRUE
    /\ link' = FALSE /\ authed' = FALSE
    /\ missed' = (sync # "off")
    /\ UNCHANGED <<synced, who, agent, sync, calls, closing, hangup, bounds>>

\* After getCurrentAccount: throw without an account, else listen anew - an
\* event that comes in between is lost -, reset the session and invoke the init
\* command, which first closes the connection it finds.
Connect ==
    /\ Event
    /\ init.pc = "account"
    /\ IF account
         THEN /\ init' = [init EXCEPT !.pc = "wire"]
              /\ recent' = TRUE
              /\ connected' = FALSE /\ synced' = FALSE /\ pending' = TRUE
              /\ link' = FALSE /\ authed' = FALSE
              /\ closing' \in {closing, FALSE}
              /\ missed' = (sync # "off")
              /\ UNCHANGED agent
         ELSE /\ init' = NoInit
              /\ agent' = Answered(agent, "throw")
              /\ UNCHANGED <<session, link, authed, closing, missed>>
    /\ UNCHANGED <<who, sync, calls, hangup, bounds>>

\* The client connects; the answer is on its way.
Accept ==
    /\ init.pc = "wire"
    /\ init' = [init EXCEPT !.pc = "answered"]
    /\ link' = TRUE
    /\ UNCHANGED <<session, who, agent, sync, calls, authed, closing, hangup,
                   bounds, missed>>

\* The answer of a successful init command arrives.
InitSucceeds ==
    /\ Event
    /\ init.pc = "answered"
    /\ connected' = TRUE
    /\ IF init.force
         THEN /\ CallSync(init' = [init EXCEPT !.pc = "sync"],
                          init' = [init EXCEPT !.pc = "synced"])
              /\ UNCHANGED <<pending, agent, call>>
         ELSE /\ pending' = FALSE
              /\ call' = Released
              /\ init' = NoInit
              /\ agent' = Answered(agent, "yes")
              /\ UNCHANGED sync
    /\ UNCHANGED <<synced, recent, who, active, retries, wire, bounds, missed>>

\* The init command fails: those who wait for the sync are let go.
InitFails ==
    /\ Event
    /\ init.pc = "wire"
    /\ faults < MaxFaults
    /\ faults' = faults + 1
    /\ connected' = FALSE /\ synced' = FALSE /\ pending' = FALSE
    /\ call' = Released
    /\ init' = NoInit
    /\ agent' = Answered(agent, "no")
    /\ UNCHANGED <<recent, who, sync, active, retries, wire, moves, missed>>

\* The sync that the body waited for is over: init returns true.
InitReturns ==
    /\ init.pc = "synced"
    /\ init' = NoInit
    /\ agent' = Answered(agent, "yes")
    /\ UNCHANGED <<session, who, sync, calls, wire, bounds, missed>>

-----------------------------------------------------------------------------
(* sync() *)

\* Mutant of SyncEnds: the finally block does not resolve this.synchronized.
SyncEndsUnresolved ==
    /\ sync' = "off"
    /\ agent' = Synchronized
    /\ init' = IF init.pc = "sync" THEN [init EXCEPT !.pc = "synced"] ELSE init
    /\ UNCHANGED <<pending, call>>

\* The finally block: all that wait for the sync are let go, whatever came of it.
SyncEnds ==
    /\ sync' = "off"
    /\ pending' = FALSE
    /\ call' = Released
    /\ agent' = Synchronized
    /\ init' = IF init.pc = "sync" THEN [init EXCEPT !.pc = "synced"] ELSE init

\* After getCurrentAccount: without an account reading its id throws.
SyncAsks ==
    /\ Event
    /\ sync = "account"
    /\ IF account
         THEN sync' = "wire" /\ UNCHANGED <<pending, agent, init, call>>
         ELSE SyncEnds
    /\ UNCHANGED <<connected, synced, recent, who, active, retries, wire,
                   bounds, missed>>

\* The client gets the answer of the server; it is on its way to the page.
SyncAnswered ==
    /\ sync = "wire"
    /\ link
    /\ sync' = "answered"
    /\ authed' = TRUE
    /\ UNCHANGED <<session, who, agent, init, calls, link, closing, hangup,
                   bounds, missed>>

\* A request fails: of itself without a connection, else by a fault.
CutOff ==
    IF link THEN faults < MaxFaults /\ faults' = faults + 1 ELSE UNCHANGED faults

\* sync_client fails: its errors are returned and never restart.
SyncFails ==
    /\ Event
    /\ sync = "wire"
    /\ CutOff
    /\ synced' = FALSE
    /\ SyncEnds
    /\ UNCHANGED <<connected, recent, who, active, retries, wire, moves,
                   missed>>

\* The server refuses the token: invoke() removes the current account and goes
\* to the login page, and currentUser stays set.
SyncRefused ==
    /\ Event
    /\ sync = "wire"
    /\ link
    /\ faults < MaxFaults
    /\ faults' = faults + 1
    /\ synced' = FALSE
    /\ account' = FALSE
    /\ SyncEnds
    /\ UNCHANGED <<connected, recent, user, leaving, active, retries, wire, moves,
                   missed>>

\* The answer arrives: the session counts as synchronized before anything of it
\* is stored.
SyncArrives ==
    /\ Event
    /\ sync = "answered"
    /\ synced' = TRUE
    /\ sync' = "saving"
    /\ UNCHANGED <<connected, pending, recent, who, agent, init, calls, wire,
                   bounds, missed>>

\* The contact is stored and currentUser is set, even if it was reset meanwhile.
SyncShows(s) ==
    /\ Event
    /\ sync = "saving"
    /\ user' = TRUE
    /\ IF user \/ \A t \in Sub : agent[t].pc # "off"
         THEN sync' = "storing" /\ UNCHANGED <<agent, init>>
         ELSE agent[s].pc = "off" /\ Subscribed(s, "storing")
    /\ UNCHANGED <<session, account, leaving, calls, wire, bounds, missed>>

\* The chats are stored; contacts of new dialogs are fetched with invoke.
SyncFetches ==
    /\ Event
    /\ sync = "storing"
    /\ sync' = "fetching"
    /\ call' = [call EXCEPT ![Fetch] = [pc |-> "sent", sent |-> 1]]
    /\ UNCHANGED <<session, who, agent, init, active, retries, wire, bounds,
                   missed>>

\* The chats are loaded, the telemetry chats and settings set: sync ends.
SyncFinishes ==
    /\ Event
    /\ sync \in {"storing", "merging"}
    /\ SyncEnds
    /\ UNCHANGED <<connected, synced, recent, who, active, retries, wire,
                   bounds, missed>>

-----------------------------------------------------------------------------
(* API calls: waitSync(), then invoke() *)

\* waitSync(): go on when the session is synchronized or this.synchronized
\* has settled, else wait for it.
Begin(c) ==
    /\ Event
    /\ call[c].pc = "idle"
    /\ call' = [call EXCEPT ![c] =
                  IF (connected /\ synced) \/ ~pending
                    THEN [pc |-> "sent", sent |-> 1]
                    ELSE [pc |-> "waiting", sent |-> 0]]
    /\ UNCHANGED <<session, who, flows, active, retries, wire, bounds, missed>>

\* A command that does not wait, such as start_auth or logout.
BeginDirectly(c) ==
    /\ Event
    /\ call[c].pc = "idle"
    /\ call' = [call EXCEPT ![c] = [pc |-> "sent", sent |-> 1]]
    /\ UNCHANGED <<session, who, flows, active, retries, wire, bounds, missed>>

\* Fifteen seconds have passed in waitSync.
WaitTimesOut(c) ==
    /\ Event
    /\ call[c].pc = "waiting"
    /\ call' = [call EXCEPT ![c] = Idle]
    /\ UNCHANGED <<session, who, flows, active, retries, wire, bounds, missed>>

\* this.synchronized has settled: the command is invoked.
WaitEnds(c) ==
    /\ call[c].pc = "released"
    /\ call' = [call EXCEPT ![c] = [pc |-> "sent", sent |-> 1]]
    /\ UNCHANGED <<session, who, flows, active, retries, wire, bounds, missed>>

\* The call returns to its caller; a restart removes its key on its way out.
Return(c, restarted) ==
    /\ call' = [call EXCEPT ![c] = Idle]
    /\ retries' = IF restarted THEN [retries EXCEPT ![KeyOf(c)] = 0] ELSE retries
    /\ sync' = IF c = Fetch THEN "merging" ELSE sync

\* The server answers the command.
CallAnswered(c) ==
    /\ Event
    /\ call[c].pc = "sent"
    /\ link
    /\ Return(c, call[c].sent > 1)
    /\ UNCHANGED <<session, who, agent, init, active, wire, bounds, missed>>

\* The server refuses the token, and the account is removed as in SyncRefused.
CallRefused(c) ==
    /\ Event
    /\ call[c].pc = "sent"
    /\ link
    /\ faults < MaxFaults
    /\ faults' = faults + 1
    /\ account' = FALSE
    /\ Return(c, call[c].sent > 1)
    /\ UNCHANGED <<session, user, leaving, agent, init, active, wire, moves,
                   missed>>

\* The command fails with a connection error: restart() gives up after two
\* retries, else it starts or joins a reconnect and waits for it.
CallFails(c) ==
    /\ Event
    /\ call[c].pc = "sent"
    /\ CutOff
    /\ IF retries[KeyOf(c)] = MaxRetries
         THEN /\ Return(c, TRUE)
              /\ UNCHANGED <<connected, synced, pending, agent, active, missed>>
         ELSE /\ retries' = [retries EXCEPT ![KeyOf(c)] = @ + 1]
              /\ IF active
                   THEN UNCHANGED <<connected, synced, pending, agent, active,
                                    missed>>
                   ELSE Reconnect /\ active' = (agent'[Loop].pc # "latched")
              /\ call' = [call EXCEPT ![c].pc =
                             IF active' THEN "restart" ELSE "woken"]
              /\ UNCHANGED sync
    /\ UNCHANGED <<recent, who, init, wire, moves>>

\* Mutant of RestartEnds: the retry is forgotten before the command is sent again.
RestartForgets(c) ==
    /\ call[c].pc = "woken"
    /\ retries' = [retries EXCEPT ![KeyOf(c)] = 0]
    /\ IF connected
         THEN /\ call' = [call EXCEPT ![c] = [pc |-> "sent", sent |-> @.sent + 1]]
              /\ UNCHANGED sync
         ELSE Return(c, TRUE)
    /\ UNCHANGED <<session, who, agent, init, active, wire, bounds, missed>>

\* The reconnect is over: send the command again if there is a connection.
RestartEnds(c) ==
    /\ call[c].pc = "woken"
    /\ IF connected
         THEN /\ call' = [call EXCEPT ![c] = [pc |-> "sent", sent |-> @.sent + 1]]
              /\ UNCHANGED <<sync, retries>>
         ELSE Return(c, TRUE)
    /\ UNCHANGED <<session, who, agent, init, active, wire, bounds, missed>>

-----------------------------------------------------------------------------
(* Events *)

\* The connection breaks; the client tells the page.
Drop ==
    /\ link
    /\ faults < MaxFaults
    /\ faults' = faults + 1
    /\ link' = FALSE /\ authed' = FALSE
    /\ closing' = TRUE
    /\ UNCHANGED <<session, who, flows, calls, hangup, moves, missed>>

\* The listener gets "closed".
Closed ==
    /\ Event
    /\ closing
    /\ closing' = FALSE
    /\ Reconnect
    /\ UNCHANGED <<recent, who, init, sync, calls, link, authed, hangup,
                   bounds>>

\* The browser goes online.
Online ==
    /\ Event
    /\ ~connected
    /\ user
    /\ Reconnect
    /\ UNCHANGED <<recent, who, init, sync, calls, wire, bounds>>

\* latest_init becomes three seconds old.
Expire ==
    /\ recent
    /\ recent' = FALSE
    /\ UNCHANGED <<connected, synced, pending, who, flows, calls, wire, bounds,
                   missed>>

-----------------------------------------------------------------------------
(* Accounts *)

\* The account that is being removed is no longer the current one.
Displaced == IF leaving = "removing" THEN "off" ELSE leaving

\* A login, or the start of the app with an account: currentUser is set.  The
\* login page is open to one who is signed in, too, to add an account.
SignIn(s) ==
    /\ Event
    /\ agent[s].pc = "off"
    /\ moves < MaxMoves
    /\ moves' = moves + 1
    /\ user' = TRUE
    /\ account' = TRUE
    /\ leaving' = Displaced
    /\ Subscribed(s, sync)
    /\ UNCHANGED <<session, calls, wire, faults, missed>>

\* startAuth() of the login page invokes init on the client itself, which closes
\* the connection it finds and opens another or fails to; no flag is changed.
StartAuth ==
    /\ Event
    /\ \/ link' = TRUE /\ UNCHANGED faults
       \/ link' = FALSE /\ faults < MaxFaults /\ faults' = faults + 1
    /\ authed' = FALSE
    /\ missed' = TRUE
    /\ UNCHANGED <<session, who, flows, calls, closing, hangup, moves>>

\* select() of the account page: the session is marked broken, and the account
\* stored as the current one; it may be the one that is being removed.
PickAccount ==
    /\ Event
    /\ agent[Page].pc = "off"
    /\ moves < MaxMoves
    /\ moves' = moves + 1
    /\ connected' = FALSE /\ synced' = FALSE
    /\ account' = TRUE
    /\ leaving' \in {leaving, Displaced}
    /\ agent' = [agent EXCEPT ![Page] = [Off EXCEPT !.pc = "picking"]]
    /\ missed' = (missed \/ Overtaken)
    /\ UNCHANGED <<pending, recent, user, init, sync, calls, wire,
                   faults>>

\* Then currentUser is set, latest_init reset and init(true, true) called.
SwitchAccount(s) ==
    /\ Event
    /\ agent[Page].pc = "picking" /\ agent[s].pc = "off"
    /\ user' = TRUE
    /\ recent' = FALSE
    /\ sync' = SyncBySubscriber(sync)
    /\ init' = IF InitBySubscriber.pc # "off" THEN InitBySubscriber
               ELSE ForcedInit
    /\ agent' = [agent EXCEPT
                    ![s] = SubscriberWaits,
                    ![Page] = [pc |-> AwaitInit(InitBySubscriber),
                               own |-> InitBySubscriber.pc = "off", res |-> "no"]]
    /\ UNCHANGED <<connected, synced, pending, account, leaving, calls, wire,
                   bounds, missed>>

\* disconnect(): what is under way is not cancelled.
Disconnected ==
    /\ user' = FALSE
    /\ connected' = FALSE /\ synced' = FALSE
    /\ recent' = FALSE /\ pending' = FALSE
    /\ call' = Released
    /\ hangup' = TRUE
    /\ missed' = (missed \/ Overtaken)

\* logoutAccount(): forget the current account, then ask the server to log out.
LogOut ==
    /\ Event
    /\ user
    /\ leaving = "off"
    /\ moves < MaxMoves
    /\ moves' = moves + 1
    /\ leaving' = "asking"
    /\ account' = FALSE
    /\ call' = [call EXCEPT ![Bye] = [pc |-> "sent", sent |-> 1]]
    /\ UNCHANGED <<session, user, flows, active, retries, wire, faults, missed>>

\* The logout request has returned, whatever it returned: disconnect, and remove
\* the account, which may have been picked again meanwhile.
LoggedOut ==
    /\ Event
    /\ leaving = "asking"
    /\ call[Bye].pc = "idle"
    /\ leaving' = "off" \/ (account /\ leaving' = "removing")
    /\ Disconnected
    /\ UNCHANGED <<account, flows, active, retries, link, authed, closing,
                   bounds>>

\* logoutAccount() of an account that is not the current one: the client leaves
\* its connection and logs in and out as the other, and no flag is changed.
LogOutOther ==
    /\ Event
    /\ user
    /\ link
    /\ moves < MaxMoves
    /\ moves' = moves + 1
    /\ link' = FALSE /\ authed' = FALSE
    /\ missed' = TRUE
    /\ UNCHANGED <<session, who, flows, calls, closing, hangup, faults>>

\* removeAccountOnly(): disconnect, then remove the account.
RemoveAccount ==
    /\ Event
    /\ user
    /\ leaving = "off"
    /\ moves < MaxMoves
    /\ moves' = moves + 1
    /\ leaving' = "removing"
    /\ Disconnected
    /\ UNCHANGED <<account, flows, active, retries, link, authed, closing,
                   faults>>

AccountRemoved ==
    /\ Event
    /\ leaving = "removing"
    /\ leaving' = "off"
    /\ account' = FALSE
    /\ UNCHANGED <<session, user, flows, calls, wire, bounds, missed>>

\* The client carries out the disconnect command.
Hangup ==
    /\ hangup
    /\ hangup' = FALSE
    /\ link' = FALSE /\ authed' = FALSE
    /\ missed' = (missed \/ link)
    /\ UNCHANGED <<session, who, flows, calls, closing, bounds>>

-----------------------------------------------------------------------------

InitStep == Connect \/ Accept \/ InitSucceeds \/ InitFails \/ InitReturns
SyncStep == SyncAsks \/ SyncAnswered \/ SyncFails \/ SyncRefused
              \/ SyncArrives \/ (\E s \in Sub : SyncShows(s)) \/ SyncFetches \/ SyncFinishes
LoopStep == Retry \/ LoopTurns
AgentStep(a) == BackFromInit(a) \/ AgentEnds(a)
CallStep(c) == WaitTimesOut(c) \/ WaitEnds(c) \/ CallAnswered(c)
                 \/ CallRefused(c) \/ CallFails(c) \/ RestartEnds(c)

Next ==
    \/ InitStep \/ SyncStep \/ LoopStep
    \/ \E a \in Agent : AgentStep(a)
    \/ \E c \in Call : CallStep(c)
    \/ \E c \in Caller : Begin(c) \/ BeginDirectly(c)
    \/ Drop \/ Closed \/ Online \/ Expire
    \/ StartAuth \/ PickAccount \/ \E s \in Sub : SignIn(s) \/ SwitchAccount(s)
    \/ LogOut \/ LoggedOut \/ LogOutOther
    \/ RemoveAccount \/ AccountRemoved \/ Hangup

Spec == Init /\ [][Next]_vars

\* Timers fire, commands are answered and events delivered.  Each step waits for
\* the functions that are ready to run, so it is not enabled all the time:
\* strong fairness says that the event loop comes to it.
SessionStep == InitStep \/ SyncStep \/ LoopStep \/ Closed \/ CallStep(Fetch)
                 \/ \E a \in Agent : AgentStep(a)

Fairness ==
    SF_vars(SessionStep) /\ \A c \in Caller \cup {Bye} : SF_vars(CallStep(c))

FairSpec == Spec /\ Fairness

-----------------------------------------------------------------------------
(* Properties *)

Looping == agent[Loop].pc \notin {"off", "latched"}

\* While a user is signed in, an unresolved this.synchronized has someone who
\* will resolve it: a reconnect loop, an init, a sync, or a switch of accounts
\* about to call init (or it never will, one of the fields being latched).
\* Callers of waitSync are not left to time out because the last of these ended
\* without a word.
NoStrandedWaiter ==
    pending /\ user /\ account =>
        \/ agent[Loop].pc # "off" \/ init.pc # "off" \/ sync # "off"
        \/ agent[Page].pc = "picking"

\* The session is not marked connected over a dead connection, unless the
\* connection broke while the success of init was on its way to the page, or
\* the client was used behind the back of the session.
NoPhantom == connected /\ ~missed => link \/ closing

\* A session marked connected and synchronized was synchronized on the
\* connection it has, with the same exceptions and that of a sync begun before
\* the last init: the server would refuse its requests.
SyncedIsReal == connected /\ synced /\ ~missed => authed \/ closing

\* An API call sends its command at most three times before it gives up, unless
\* other calls share its key in inflightRetries.
RetryBudget == \A c \in Caller \ Alike : call[c].sent <= 3

\* The reconnect loop ends with a connection, unless the user left or the
\* connection broke while the success of init was on its way to the loop.
LoopKeepsOn ==
    [][Looping /\ ~Looping' /\ user /\ ~missed => connected']_vars

\* The sync waits in restart() for a reconnect that waits for the sync.
SelfWait ==
    sync = "fetching" /\ call[Fetch].pc = "restart"
      /\ (agent[Loop].pc = "sync" \/ init.pc = "sync")
\* The three ways in which a reconnect never ends: that one, a latched init,
\* and a logout that waits for it after the account is forgotten.
Hung == SelfWait \/ init.pc = "latched" \/ (user /\ ~account)

\* Every API call returns to the user interface, with an answer or an error,
\* unless the session hangs.
CallsReturn ==
    \A c \in Caller : call[c].pc # "idle" ~> call[c].pc = "idle" \/ Hung

\* A reconnect loop goes on until there is a connection, unless it hangs, the
\* user leaves, or a break is overlooked as LoopKeepsOn says.
LoopConnects == Looping ~> connected \/ ~user \/ missed \/ Hung

(* The inductive invariant behind the safety properties. *)

\* One that is told that the session is synchronized, or that init succeeded or
\* failed, is told so with this.synchronized settled or someone about to settle
\* it; init throws for want of an account only.
ToldIsResolved ==
    /\ synced \/ init.pc = "synced" => ~pending \/ sync # "off"
    /\ agent[Loop].pc \in {"back", "got"} =>
          IF agent[Loop].res = "throw" THEN ~account
          ELSE ~pending \/ init.pc # "off" \/ sync # "off"
    /\ agent[Loop].pc = "sync" => agent[Loop].res # "throw"

\* What waits for a promise waits for one that is not settled.
WaitsForWork ==
    /\ agent[Loop].pc = "sync" \/ init.pc = "sync" => sync # "off"
    /\ agent[Loop].pc = "back" => init.pc \in {"off", "latched"}
    /\ call[Fetch].pc # "idle" => sync = "fetching"

\* The success of init reaches the page over a live connection.
AnsweredLive == init.pc = "answered" /\ ~missed => link \/ closing

\* Between the init command and its answer, the session and the sync know
\* nothing of a connection.
WireFresh ==
    init.pc = "wire" /\ ~missed =>
        ~link /\ ~synced /\ sync \in {"off", "account", "wire"}

\* A sync that is answered was answered on the connection there is.
SyncFresh ==
    /\ authed => link
    /\ (init.pc = "answered" \/ connected) /\ ~missed
         /\ (synced \/ sync = "answered") => authed \/ closing

\* One told of a success finds the session connected.
SuccessIsReal ==
    /\ init.pc \in {"sync", "synced"} /\ ~missed => connected
    /\ agent[Loop].pc \in {"back", "got", "sync"} /\ agent[Loop].res = "yes"
         /\ ~missed => connected
    /\ agent[Loop].pc = "sync" /\ init.pc \in {"wire", "answered"} => missed

\* A call has been sent once more than its key was retried, while it is on the
\* wire: of a key that no other call shares.
Counted(c) ==
    /\ call[c].pc \in {"idle", "waiting", "released"} =>
          call[c].sent = 0 /\ retries[KeyOf(c)] = 0
    /\ call[c].pc = "sent" => call[c].sent = retries[KeyOf(c)] + 1
    /\ call[c].pc \in {"restart", "woken"} => call[c].sent = retries[KeyOf(c)]

RetriesCounted == \A c \in Caller \ Alike : Counted(c)

SessionInv ==
    /\ TypeOK
    /\ ToldIsResolved
    /\ NoStrandedWaiter
    /\ WaitsForWork
    /\ AnsweredLive
    /\ NoPhantom
    /\ WireFresh
    /\ SyncFresh
    /\ SuccessIsReal
    /\ RetriesCounted
==============================================================================
