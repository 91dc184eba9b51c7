---------------------------- MODULE E2EHandshake ----------------------------
(***************************************************************************)
(* The handshake of an encrypted chat, at both ends: the back end's        *)
(* commands (crypto/commands.rs) and the chat settings they keep their     *)
(* keys in (stores/chats.rs), the page with its copy of these settings     *)
(* (ChatWindow/e2e.js, lib/stores/messages.js) and the part of a call that *)
(* offers or answers encryption (services/CallService.js).                 *)
(*                                                                         *)
(* A key pair is <<party, number>>; the secret of two key pairs is the set *)
(* of both, which is what Diffie-Hellman makes of them at either end.  The *)
(* chat is the set of the messages sent: any of them may be looked at      *)
(* again at any time and in any order, as the page decodes what it is      *)
(* pushed, what it loads and what it shows again.                          *)
(***************************************************************************)
EXTENDS Naturals, FiniteSets

CONSTANTS
    Party,       \* the two ends of the chat
    Slot,        \* the activities of one end that may be under way at once
    InCalls,     \* does a call offer and answer encryption too?
    MaxKeys,     \* bound: key pairs that are generated in all
    MaxTime,     \* bound: the moments that are compared
    None

ASSUME Assumptions ==
    /\ \E p, q \in Party : p # q /\ Party = {p, q}
    /\ InCalls \in BOOLEAN
    /\ MaxKeys \in Nat
    /\ MaxTime \in Nat
    /\ None \notin Party

VARIABLES
    clock,     \* the time, which both ends agree upon
    chat,      \* the messages sent
    made,      \* how many key pairs have been generated
    stored,    \* stored[p]: the settings of the chat in the back end of p
    page,      \* page[p]: the copy of the page, and the version it is of
    writes,    \* writes[p]: calls of set_chat_settings on their way
    request,   \* request[p]: the offer that p is asked about
    closed,    \* closed[p]: the messages that p will not treat again
    job,       \* job[p][s]: an activity between two awaits
    \* History variables, which no action looks at:
    offered,   \* offered[p]: the keys that p made for offers
    held,      \* held[p]: the secrets that p has had
    upset      \* the irregularities that have happened

vars == <<clock, chat, made, stored, page, writes, request, closed, job,
          offered, held, upset>>

Other(p) == CHOOSE q \in Party : q # p

Key == Party \X (1..MaxKeys)
Owner(key) == key[1]
Secret == {{k, l} : k \in Key, l \in Key}

-----------------------------------------------------------------------------
(* Settings *)

NoSession == [secret |-> {}, at |-> 0]

Settings ==
    [pending : {{}} \union {{k} : k \in Key},
     secret : {{}} \union Secret, at : Nat, archived : SUBSET Secret]

Fresh == [pending |-> {}, secret |-> {}, at |-> 0, archived |-> {}]

Active(settings) == settings.secret # {}

\* What can still be decrypted: get_all_session_keys.
Keys(settings) ==
    settings.archived \union (IF Active(settings) THEN {settings.secret} ELSE {})

\* Mutant of Archive: the secret of the ended session is forgotten.
ArchiveForgets(settings) == [settings EXCEPT !.secret = {}, !.at = 0]

\* The session ends, its secret stays in the list of keys.
Archive(settings) ==
    [settings EXCEPT !.secret = {}, !.at = 0, !.archived = Keys(settings)]

\* A session that begins replaces the one before, and what was pending.
Established(settings, secret, time) ==
    [Archive(settings) EXCEPT !.pending = {}, !.secret = secret, !.at = time]

-----------------------------------------------------------------------------
(* Messages and activities *)

Message(kind, from, key, to, time) ==
    [kind |-> kind, from |-> from, key |-> key, to |-> to, time |-> time]

Messages ==
    [kind : {"init", "accept", "disable"}, from : Party,
     key : Key \union {None}, to : Key \union {None}, time : Nat]

\* "to" is the offer that an accept answers; the message does not carry it.
Send(message) == chat' = chat \union {message}

\* A moment that will be compared with others.
Tick == clock < MaxTime /\ clock' = clock + 1

Idle == [do |-> "idle"]

Job == [do : {"init", "agree", "process", "off", "check"},
        at : {"load", "save", "get", "set", "send", "clear", "handle"},
        call : BOOLEAN, msg : Messages \union {None},
        key : Key \union {None}, view : Settings, stamp : Nat]

Begin(p, do, at, call, msg, view) ==
    \E s \in Slot :
        /\ job[p][s] = Idle
        /\ job' = [job EXCEPT ![p][s] =
                    [do |-> do, at |-> at, call |-> call, msg |-> msg,
                     key |-> None, view |-> view, stamp |-> 0]]

Become(p, s, next) == job' = [job EXCEPT ![p][s] = next]
At(p, s, at) == Become(p, s, [job[p][s] EXCEPT !.at = at])

\* s of p is in the activity "do", at the point "at".
In(p, s, do, at) ==
    /\ job[p][s] # Idle
    /\ job[p][s].do = do
    /\ job[p][s].at = at

TypeOK ==
    /\ clock \in Nat
    /\ chat \subseteq Messages
    /\ made \in 0..MaxKeys
    /\ stored \in [Party -> Settings]
    /\ page \in [Party -> [copy : Settings, of : Settings]]
    /\ writes \in [Party -> SUBSET [data : Settings, of : Settings,
                                   by : {"store", "handler", "dismiss"}]]
    /\ request \in [Party -> Messages \union {None}]
    /\ closed \in [Party -> SUBSET Messages]
    /\ job \in [Party -> [Slot -> Job \union {Idle}]]
    /\ offered \in [Party -> SUBSET Key]
    /\ held \in [Party -> SUBSET Secret]
    /\ upset \subseteq {"stale", "glare", "twice", "late", "over"}

Init ==
    /\ clock = 0
    /\ chat = {}
    /\ made = 0
    /\ stored = [p \in Party |-> Fresh]
    /\ page = [p \in Party |-> [copy |-> Fresh, of |-> Fresh]]
    /\ writes = [p \in Party |-> {}]
    /\ request = [p \in Party |-> None]
    /\ closed = [p \in Party |-> {}]
    /\ job = [p \in Party |-> [s \in Slot |-> Idle]]
    /\ offered = [p \in Party |-> {}]
    /\ held = [p \in Party |-> {}]
    /\ upset = {}

-----------------------------------------------------------------------------
(* The back end *)

\* A command stores what it made of the settings it had loaded.  Nothing
\* locks them meanwhile: it is "stale" to overwrite settings that differ
\* from those the new ones were made of.
Store(p, new) ==
    stored' = [stored EXCEPT ![p] = new]

Stale(p, new, of) ==
    IF of # stored[p] /\ new # stored[p] THEN {"stale"} ELSE {}

\* p has made no offer after that with this key.
Newest(p, key) == \A k \in offered[p] : k[2] <= key[2]

\* p has that secret.
Has(p, key) == \E secret \in held[p] : key \in secret

\* What p offered last, if no answer to it was processed yet
Open(p) == {key \in offered[p] : Newest(p, key) /\ ~Has(p, key)}

\* set_chat_settings: the page hands over the whole of its copy.  The rules
\* that merge in a secret concern settings without one, which the page holds
\* only if the back end did not answer.
Write(p) ==
    \E w \in writes[p] :
        /\ Store(p, w.data)
        /\ writes' = [writes EXCEPT ![p] = @ \ {w}]
        /\ upset' = upset \union Stale(p, w.data, w.of)
        /\ UNCHANGED <<clock, chat, made, page, request, closed, job, held,
                   offered>>

\* init_e2e_handshake
InitLoad(p, s) ==
    /\ In(p, s, "init", "load")
    /\ Become(p, s, [job[p][s] EXCEPT !.at = "save", !.view = stored[p]])
    /\ UNCHANGED <<clock, chat, made, stored, page, writes, request, closed,
                   held, upset, offered>>

\* Mutant of InitSave: an offer that is still pending keeps its key.
InitSaveKeepsFirst(p, s) ==
    /\ In(p, s, "init", "save")
    /\ LET j == job[p][s]
           new == [j.view EXCEPT !.pending = IF @ = {} THEN {j.key} ELSE @]
       IN /\ Store(p, new)
          /\ upset' = upset \union Stale(p, new, j.view)
                \union (IF Active(j.view) \/ ~Newest(p, j.key)
                        THEN {"over"} ELSE {})
          /\ At(p, s, IF j.call THEN "send" ELSE "get")
    /\ UNCHANGED <<clock, chat, made, page, writes, request, closed, held,
                   offered>>

InitSave(p, s) ==
    /\ In(p, s, "init", "save")
    /\ LET j == job[p][s]
           new == [j.view EXCEPT !.pending = {j.key}]
       IN /\ Store(p, new)
          /\ upset' = upset \union Stale(p, new, j.view)
                \union (IF Active(j.view) \/ ~Newest(p, j.key)
                        THEN {"over"} ELSE {})
          /\ At(p, s, IF j.call THEN "send" ELSE "get")
    /\ UNCHANGED <<clock, chat, made, page, writes, request, closed, held,
                   offered>>

\* accept_e2e_handshake
AgreeLoad(p, s) ==
    /\ In(p, s, "agree", "load")
    /\ Tick
    /\ Become(p, s, [job[p][s] EXCEPT !.at = "save", !.view = stored[p],
                                      !.stamp = clock'])
    /\ UNCHANGED <<chat, made, stored, page, writes, request, closed, held,
                   upset, offered>>

AgreeSave(p, s) ==
    /\ In(p, s, "agree", "save")
    /\ LET j == job[p][s]
           secret == {j.key, j.msg.key}
           new == Established(j.view, secret, j.stamp)
       IN /\ Store(p, new)
          /\ held' = [held EXCEPT ![p] = @ \union {secret}]
          /\ upset' = upset \union Stale(p, new, j.view)
                \union (IF Open(p) # {} THEN {"glare"} ELSE {})
                \union (IF Has(p, j.msg.key) THEN {"twice"} ELSE {})
                \union (IF Newest(Other(p), j.msg.key) THEN {} ELSE {"late"})
          /\ At(p, s, IF j.call THEN "send" ELSE "get")
    /\ UNCHANGED <<clock, chat, made, page, writes, request, closed, offered>>

\* process_e2e_accept: nothing pending means that it was done before, or
\* that there is nothing to do it with.
ProcessLoad(p, s) ==
    /\ In(p, s, "process", "load")
    /\ LET j == job[p][s] IN
        \/ /\ stored[p].pending = {}
           /\ Become(p, s, IF Active(stored[p]) /\ ~j.call
                           THEN [j EXCEPT !.at = "get"] ELSE Idle)
           /\ UNCHANGED clock
        \/ /\ stored[p].pending # {}
           /\ Tick
           /\ Become(p, s, [j EXCEPT !.at = "save", !.view = stored[p],
                                     !.stamp = clock'])
    /\ UNCHANGED <<chat, made, stored, page, writes, request, closed, held,
                   upset, offered>>

ProcessSave(p, s) ==
    /\ In(p, s, "process", "save")
    /\ LET j == job[p][s]
           secret == j.view.pending \union {j.msg.key}
           new == Established(j.view, secret, j.stamp)
       IN /\ Store(p, new)
          /\ held' = [held EXCEPT ![p] = @ \union {secret}]
          /\ upset' = upset \union Stale(p, new, j.view)
                \union (IF Newest(p, j.msg.to) THEN {} ELSE {"late"})
          /\ Become(p, s, IF j.call THEN Idle ELSE [j EXCEPT !.at = "get"])
    /\ UNCHANGED <<clock, chat, made, page, writes, request, closed, offered>>

\* get_chat_settings, as the page asks for it after a command
Get(p, s) ==
    /\ \/ In(p, s, "init", "get") /\ ~job[p][s].call /\ UNCHANGED request
       \/ In(p, s, "process", "get") /\ UNCHANGED request
       \/ In(p, s, "agree", "get") /\ request' = [request EXCEPT ![p] = None]
    /\ Become(p, s, [job[p][s] EXCEPT !.at = "set", !.view = stored[p]])
    /\ UNCHANGED <<clock, chat, made, stored, page, writes, closed, held,
                   upset, offered>>

-----------------------------------------------------------------------------
(* The page *)

\* A change of the page's copy is written by its subscriber, and a second
\* time by the handlers that do not rely on it.
Change(p, copy, of, by) ==
    /\ page' = [page EXCEPT ![p] = [copy |-> copy, of |-> copy]]
    /\ writes' = [writes EXCEPT ![p] = @ \union
                    {[data |-> copy, of |-> of, by |-> b] : b \in by}]

\* chatSettings.set(freshSettings)
Set(p, s) ==
    /\ \/ In(p, s, "init", "set") /\ At(p, s, "send") /\ UNCHANGED closed
       \/ In(p, s, "process", "set") /\ Become(p, s, Idle) /\ UNCHANGED closed
       \/ /\ In(p, s, "agree", "set")
          /\ At(p, s, "send")
          /\ closed' = [closed EXCEPT ![p] = @ \union {job[p][s].msg}]
    /\ Change(p, job[p][s].view, job[p][s].view, {"store"})
    /\ UNCHANGED <<clock, chat, made, stored, request, held, upset, offered>>

\* dismissRequest reads the settings and writes them back.
Rewrite(p) == [data |-> stored[p], of |-> stored[p], by |-> "dismiss"]

\* sendMessage, which may fail
SendInit(p, s) ==
    /\ In(p, s, "init", "send")
    /\ \/ Tick /\ Send(Message("init", p, job[p][s].key, None, clock'))
       \/ UNCHANGED <<chat, clock>>
    /\ \/ /\ job[p][s].call
          /\ At(p, s, "clear")
          /\ writes' = [writes EXCEPT ![p] = @ \union {Rewrite(p)}]
       \/ ~job[p][s].call /\ Become(p, s, Idle) /\ UNCHANGED writes
    /\ UNCHANGED <<made, stored, page, request, closed, held, upset, offered>>

\* Mutant of SendAccept: the answer carries the key it answers.
SendAcceptEchoes(p, s) ==
    /\ In(p, s, "agree", "send")
    /\ Send(Message("accept", p, job[p][s].msg.key, job[p][s].msg.key, 0))
    /\ Become(p, s, Idle)
    /\ UNCHANGED <<clock, made, stored, page, writes, request, closed, held,
                   upset, offered>>

SendAccept(p, s) ==
    /\ In(p, s, "agree", "send")
    /\ \/ Send(Message("accept", p, job[p][s].key, job[p][s].msg.key, 0))
       \/ UNCHANGED chat
    /\ Become(p, s, Idle)
    /\ UNCHANGED <<clock, made, stored, page, writes, request, closed, held,
                   upset, offered>>

SendDisable(p, s) ==
    /\ In(p, s, "off", "send")
    /\ \/ Send(Message("disable", p, None, None, job[p][s].stamp))
       \/ UNCHANGED chat
    /\ At(p, s, "clear")
    /\ UNCHANGED <<clock, made, stored, page, writes, request, closed, held,
                   upset, offered>>

\* switchEnc: a new session, or the end of the one there is.
BeginInit(p, call) ==
    /\ made < MaxKeys
    /\ made' = made + 1
    /\ offered' = [offered EXCEPT ![p] = @ \union {<<p, made'>>}]
    /\ \E s \in Slot :
        /\ job[p][s] = Idle
        /\ Become(p, s, [do |-> "init", at |-> "load", call |-> call,
                         msg |-> None, key |-> <<p, made'>>,
                         view |-> Fresh, stamp |-> 0])
    /\ UNCHANGED <<clock, chat, stored, page, writes, request, closed, held,
                   upset>>

SwitchOn(p) == ~Active(page[p].copy) /\ BeginInit(p, FALSE)

SwitchOff(p) ==
    /\ Active(page[p].copy)
    /\ Tick
    /\ \E s \in Slot :
        /\ job[p][s] = Idle
        /\ Become(p, s, [do |-> "off", at |-> "send", call |-> FALSE,
                         msg |-> None, key |-> None, view |-> Fresh,
                         stamp |-> clock'])
    /\ UNCHANGED <<chat, made, stored, page, writes, request, closed, held,
                   upset, offered>>

\* What is left of a copy without its session and what was pending
Ended(settings) == [Archive(settings) EXCEPT !.pending = {}]

ClearPage(p, s) ==
    /\ In(p, s, "off", "clear")
    /\ Change(p, Ended(page[p].copy), page[p].of, {"store", "handler"})
    /\ Become(p, s, Idle)
    /\ UNCHANGED <<clock, chat, made, stored, request, closed, held, upset,
                   offered>>

\* handleEnc "agree": the request stays until the command has returned.
BeginAgree(p, call) ==
    /\ made < MaxKeys
    /\ request[p] # None
    /\ made' = made + 1
    /\ \E s \in Slot :
        /\ job[p][s] = Idle
        /\ Become(p, s, [do |-> "agree", at |-> "load", call |-> call,
                         msg |-> request[p], key |-> <<p, made'>>,
                         view |-> Fresh, stamp |-> 0])
    /\ UNCHANGED <<clock, chat, stored, page, held, upset, offered>>

Agree(p) ==
    /\ BeginAgree(p, FALSE)
    /\ UNCHANGED <<writes, request, closed>>

\* handleEnc "deny" and "block": the whole copy is written back.
Deny(p) ==
    /\ request[p] # None
    /\ closed' = [closed EXCEPT ![p] = @ \union {request[p]}]
    /\ request' = [request EXCEPT ![p] = None]
    /\ Change(p, page[p].copy, page[p].of, {"store", "handler"})
    /\ UNCHANGED <<clock, chat, made, stored, job, held, upset, offered>>

\* dismissRequest: the dialog is closed.
Dismissed(p, m) ==
    /\ closed' = [closed EXCEPT ![p] = @ \union {m}]
    /\ writes' = [writes EXCEPT ![p] = @ \union {Rewrite(p)}]

Dismiss(p) ==
    /\ request[p] # None
    /\ Dismissed(p, request[p])
    /\ request' = [request EXCEPT ![p] = None]
    /\ UNCHANGED <<clock, chat, made, stored, page, job, held, upset,
                   offered>>

\* The app is started again: getChatSettings reads a new copy, and what had
\* been begun is forgotten.  The treated offers and answers are kept in the
\* settings, if they got there; the treated signals to disable are not.
Restart(p) ==
    /\ page' = [page EXCEPT ![p] = [copy |-> stored[p], of |-> stored[p]]]
    /\ writes' = [writes EXCEPT ![p] = {}]
    /\ request' = [request EXCEPT ![p] = None]
    /\ job' = [job EXCEPT ![p] = [s \in Slot |-> Idle]]
    /\ \E kept \in SUBSET {m \in closed[p] : m.kind # "disable"} :
        closed' = [closed EXCEPT ![p] = kept]
    /\ UNCHANGED <<clock, chat, made, stored, held, upset, offered>>

-----------------------------------------------------------------------------
(* checkForEncryptionRequest: it looks at a message with the copy of the   *)
(* settings which it took when it began.                                   *)

\* An offer counts unless it is older than the session.
Offers(p, m, view) ==
    /\ m.kind = "init"
    /\ m \notin closed[p]
    /\ Active(view) => m.time > view.at

\* The signal to disable counts unless it is older than the session.
Disables(p, m, view) ==
    /\ m.kind = "disable"
    /\ m \notin closed[p]
    /\ Active(view)
    /\ m.time > view.at

\* An accept counts if it is waited for.
Accepts(p, m, view) ==
    /\ m.kind = "accept"
    /\ m \notin closed[p]
    /\ view.pending # {}
    /\ ~Active(view)

Counts(p, m, view) ==
    Offers(p, m, view) \/ Disables(p, m, view) \/ Accepts(p, m, view)

Check(p) ==
    \E m \in chat :
        /\ m.from # p
        /\ Counts(p, m, page[p].copy)
        /\ Begin(p, "check", "handle", FALSE, m, page[p].copy)
        /\ UNCHANGED <<clock, chat, made, stored, page, writes, request, closed,
                   held, upset, offered>>

Handle(p, s) ==
    /\ In(p, s, "check", "handle")
    /\ LET j == job[p][s] IN
        \/ /\ Offers(p, j.msg, j.view)
           /\ request' = [request EXCEPT ![p] = j.msg]
           /\ Become(p, s, Idle)
           /\ UNCHANGED <<page, writes, closed>>
        \/ /\ Disables(p, j.msg, j.view)
           /\ closed' = [closed EXCEPT ![p] = @ \union {j.msg}]
           /\ Change(p, Ended(page[p].copy), page[p].of, {"store", "handler"})
           /\ Become(p, s, Idle)
           /\ UNCHANGED request
        \/ /\ Accepts(p, j.msg, j.view)
           /\ Become(p, s, [j EXCEPT !.do = "process", !.at = "load"])
           /\ UNCHANGED <<page, writes, request, closed>>
        \/ /\ ~Counts(p, j.msg, j.view)
           /\ Become(p, s, Idle)
           /\ UNCHANGED <<page, writes, request, closed>>
    /\ UNCHANGED <<clock, chat, made, stored, held, upset, offered>>

-----------------------------------------------------------------------------
(* During a call the page's own check is off; offers and answers go to the *)
(* call, which leaves the copy of the page alone.                          *)

\* enableSecureMode, if the back end has no session yet
CallOffers(p) ==
    /\ InCalls
    /\ ~Active(stored[p])
    /\ BeginInit(p, TRUE)

\* ... which afterwards deletes what is pending.
CallClears(p, s) ==
    /\ In(p, s, "init", "clear")
    /\ Become(p, s, Idle)
    /\ writes' = [writes EXCEPT ![p] = @ \union
                    (IF stored[p].pending = {} THEN {}
                     ELSE {[data |-> [stored[p] EXCEPT !.pending = {}],
                            of |-> stored[p], by |-> "handler"]})]
    /\ UNCHANGED <<clock, chat, made, stored, page, request, closed, held,
                   upset, offered>>

\* The handler of a pushed message while a call is active
CallHears(p) ==
    /\ InCalls
    /\ \E m \in chat :
        /\ m.from # p
        /\ m \notin closed[p]
        /\ Dismissed(p, m)
        /\ \/ /\ m.kind = "init"
              /\ request' = [request EXCEPT ![p] = m]
              /\ UNCHANGED job
           \/ /\ m.kind = "accept"
              /\ Begin(p, "process", "load", TRUE, m, Fresh)
              /\ UNCHANGED request
    /\ UNCHANGED <<clock, chat, made, stored, page, held, upset, offered>>

\* acceptSecureRequest
CallAgrees(p) ==
    /\ InCalls
    /\ BeginAgree(p, TRUE)
    /\ Dismissed(p, request[p])
    /\ request' = [request EXCEPT ![p] = None]

-----------------------------------------------------------------------------
Step(p, s) ==
    \/ InitLoad(p, s) \/ InitSave(p, s)
    \/ AgreeLoad(p, s) \/ AgreeSave(p, s)
    \/ ProcessLoad(p, s) \/ ProcessSave(p, s)
    \/ Get(p, s) \/ Set(p, s)
    \/ SendInit(p, s) \/ SendAccept(p, s) \/ SendDisable(p, s)
    \/ ClearPage(p, s) \/ Handle(p, s) \/ CallClears(p, s)

User(p) ==
    \/ SwitchOn(p) \/ SwitchOff(p)
    \/ Agree(p) \/ Deny(p) \/ Dismiss(p)
    \/ Restart(p)
    \/ CallOffers(p) \/ CallAgrees(p)

Next ==
    \E p \in Party :
        \/ User(p)
        \/ Write(p)
        \/ Check(p)
        \/ CallHears(p)
        \/ \E s \in Slot : Step(p, s)

Spec == Init /\ [][Next]_vars

-----------------------------------------------------------------------------
(* Properties *)

\* Two ends that have a session each have the same one, whatever was lost,
\* repeated or read late: unless settings were overwritten, an end agreed to
\* an offer while its own was open or to one twice, an answer was made or
\* processed after a newer offer, or an offer was stored over a session or a
\* newer offer (init_e2e_handshake, accept_e2e_handshake,
\* process_e2e_accept).
Agreement ==
    upset = {} =>
        \A p, q \in Party :
            Active(stored[p]) /\ Active(stored[q]) =>
                stored[p].secret = stored[q].secret

\* Whatever could be decrypted once can still be: the secrets a party has
\* had are its session and its archive, unless settings were overwritten by
\* older ones (chats.rs, set_chat_settings_sync).
KeysKept ==
    "stale" \notin upset => \A p \in Party : held[p] = Keys(stored[p])

\* Who has made one offer and gets an accept has the secret that the other
\* end has, in a call or not and however late or often the accept is read
\* (process_e2e_accept).
ConfirmedIsHeld ==
    \A p \in Party : Cardinality(offered[p]) <= 1 =>
        \A secret \in held[p] :
            secret \intersect offered[p] # {} => secret \in held[Other(p)]

\* The handshake is a key agreement: every step is one of its steps or
\* changes nothing that it speaks of.
KA == INSTANCE KeyAgreement WITH
        Party <- Party, Key <- Key, Owner <- Owner,
        offered <- offered, held <- held,
        answered <- {m.key : m \in {n \in chat : n.kind = "accept"}}

AgreesOnKeys == KA!Spec
=============================================================================
