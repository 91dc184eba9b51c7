-------------------------- MODULE E2EHandshakeProofs --------------------------
(***************************************************************************)
(* Proofs about E2EHandshake, for any number of activities, key pairs and  *)
(* moments, in calls and out of them: the handshake implements             *)
(* KeyAgreement, whatever is lost, repeated or overwritten, and its ends   *)
(* agree but for the irregularities that the module names.                 *)
(***************************************************************************)
EXTENDS E2EHandshake, FiniteSetTheorems, TLAPS

-----------------------------------------------------------------------------
(* Parties and settings *)

LEMMA OtherParty ==
    ASSUME NEW p \in Party
    PROVE  /\ Other(p) \in Party /\ Other(p) # p /\ Other(Other(p)) = p
           /\ \A q \in Party : q # p => q = Other(p)
<1>1. PICK a \in Party, b \in Party : a # b /\ Party = {a, b}
  BY Assumptions DEF Assumptions
<1>2. Other(a) = b /\ Other(b) = a
  BY <1>1 DEF Other
<1> QED
  BY <1>1, <1>2

\* What a command or the page makes of settings are settings, and keeps what
\* can be decrypted.
LEMMA SettingsMade ==
    ASSUME NEW settings \in Settings
    PROVE  /\ Archive(settings) \in Settings
           /\ Ended(settings) \in Settings /\ Ended(settings).pending = {}
           /\ Keys(Ended(settings)) = Keys(settings)
           /\ Ended(settings).secret = {}
           /\ \A key \in Key :
                /\ [settings EXCEPT !.pending = {key}] \in Settings
                /\ [settings EXCEPT !.pending = {key}].pending = {key}
                /\ Keys([settings EXCEPT !.pending = {key}]) = Keys(settings)
           /\ [settings EXCEPT !.pending = {}] \in Settings
           /\ [settings EXCEPT !.pending = {}].pending = {}
           /\ [settings EXCEPT !.pending = {}].secret = settings.secret
           /\ Keys([settings EXCEPT !.pending = {}]) = Keys(settings)
<1>1. Archive(settings) \in Settings /\ Keys(Archive(settings)) = Keys(settings)
  BY DEF Settings, Archive, Keys, Active
<1>2. /\ Ended(settings) \in Settings /\ Ended(settings).pending = {}
      /\ Keys(Ended(settings)) = Keys(Archive(settings))
  BY <1>1 DEF Settings, Ended, Keys, Active
<1>3. Ended(settings).secret = {}
  BY DEF Settings, Ended, Archive
<1> QED
  BY <1>1, <1>2, <1>3 DEF Settings, Keys, Active

LEMMA SessionMade ==
    ASSUME NEW settings \in Settings, NEW secret \in Secret, NEW time \in Nat
    PROVE  LET new == Established(settings, secret, time) IN
           /\ new \in Settings /\ new.pending = {}
           /\ Keys(new) = Keys(settings) \union {secret}
<1>1. Archive(settings) \in Settings /\ Keys(Archive(settings)) = Keys(settings)
  BY DEF Settings, Archive, Keys, Active
<1>2. Archive(settings).archived = Keys(settings)
  BY DEF Settings, Archive
<1>3. secret # {}
  BY DEF Secret
<1> QED
  BY <1>1, <1>2, <1>3 DEF Settings, Established, Keys, Active

LEMMA Beginnings ==
    /\ Fresh \in Settings /\ Fresh.pending = {} /\ Keys(Fresh) = {}
    /\ Idle \notin Job
BY DEF Fresh, Settings, Keys, Active, Idle, Job

\* One activity of p goes on to `next'.
LEMMA OneJob ==
    ASSUME TypeOK, NEW p \in Party, NEW s \in Slot, NEW next,
           job' = [job EXCEPT ![p][s] = next]
    PROVE  /\ job'[p][s] = next
           /\ \A q \in Party, t \in Slot :
                q # p \/ t # s => job'[q][t] = job[q][t]
           /\ next \in Job \union {Idle} =>
                job' \in [Party -> [Slot -> Job \union {Idle}]]
<1>1. job \in [Party -> [Slot -> Job \union {Idle}]]
  BY DEF TypeOK
<1> QED
  BY <1>1
-----------------------------------------------------------------------------
(* The invariant *)

\* Settings that p may hold: what is pending in them, p offered.
Own(p, settings) == settings \in Settings /\ settings.pending \subseteq offered[p]

SettingsOwn ==
    \A p \in Party :
        /\ Own(p, stored[p]) /\ Own(p, page[p].copy) /\ Own(p, page[p].of)
        /\ \A w \in writes[p] : Own(p, w.data) /\ Own(p, w.of)

\* An offer has a key that its sender offered, an answer has one of a secret
\* that its sender has.
Honest(m) ==
    /\ m.kind \in {"init", "accept"} => m.key \in Key /\ Owner(m.key) = m.from
    /\ m.kind = "init" => m.key \in offered[m.from]
    /\ m.kind = "accept" => /\ m.to \in offered[Other(m.from)]
                            /\ {m.key, m.to} \in held[m.from]

\* p has got message m.
Got(p, m) == m \in chat /\ m.from # p

MessagesHonest ==
    /\ \A m \in chat : Honest(m)
    /\ \A p \in Party : request[p] # None =>
        Got(p, request[p]) /\ request[p].kind = "init"

\* What an activity of p works with
Sound(p, j) ==
    /\ Own(p, j.view)
    /\ j.do = "init" => j.key \in offered[p]
    /\ j.do \in {"agree", "process", "check"} => Got(p, j.msg)
    /\ j.do = "agree" =>
        /\ j.msg.kind = "init"
        /\ j.key \in Key /\ Owner(j.key) = p /\ j.key[2] <= made
        /\ j.at \in {"get", "set", "send"} => {j.key, j.msg.key} \in held[p]
    /\ j.do = "process" =>
        /\ j.msg.kind = "accept"
        /\ j.at = "save" => j.view.pending # {}

JobsSound ==
    \A p \in Party, s \in Slot : job[p][s] # Idle => Sound(p, job[p][s])

Used(key) == \E p \in Party : \E secret \in held[p] : key \in secret

Agreeing(p, s) == job[p][s] # Idle /\ job[p][s].do = "agree"

\* The key of an answer was not offered, and serves for one secret.
AnswersFresh ==
    \A p \in Party, s \in Slot : Agreeing(p, s) =>
        /\ job[p][s].key \notin offered[p]
        /\ job[p][s].at \in {"load", "save"} => ~Used(job[p][s].key)
        /\ \A t \in Slot \ {s} : Agreeing(p, t) => job[p][t].key # job[p][s].key

\* Keys are generated once.
KeysMade ==
    /\ \A p \in Party : \A key \in offered[p] :
        key \in Key /\ Owner(key) = p /\ key[2] <= made
    /\ \A p \in Party : \A secret \in held[p] : \A key \in secret :
        key \in Key /\ key[2] <= made

HandshakeInv ==
    TypeOK /\ SettingsOwn /\ MessagesHonest /\ JobsSound /\ AnswersFresh /\ KeysMade

\* A secret of p with a key that p offered is made of an answer to p.
Answered(p, secret, mine) ==
    \E theirs \in Key, to \in offered[p] :
        secret = {mine, theirs} /\ {theirs, to} \in held[Other(p)]

Confirmed ==
    \A p \in Party : \A secret \in held[p] : \A mine \in secret :
        mine \in offered[p] => Answered(p, secret, mine)

\* Settings with the same keys, of which a session or what is pending may have
\* been dropped
Lesser(new, old) ==
    /\ Keys(new) = Keys(old)
    /\ new.secret \in {{}, old.secret}
    /\ new.pending \subseteq old.pending

\* Nothing that is about to be stored has lost a key, or has a session or an
\* offer that it was not made of.
WritesKeep ==
    \A p \in Party :
        /\ page[p].copy = page[p].of
        /\ \A w \in writes[p] : Lesser(w.data, w.of)

-----------------------------------------------------------------------------
(* Types *)

LEMMA TypesInit == Init => TypeOK
<1> SUFFICES ASSUME Init PROVE TypeOK
  OBVIOUS
<1>1. made \in 0..MaxKeys
  BY Assumptions DEF Init, Assumptions
<1> QED
  BY <1>1, Beginnings DEF Init, TypeOK

\* An activity at a point of the program has the type of one.
LEMMA InJob ==
    ASSUME TypeOK, NEW p \in Party, NEW s \in Slot, job[p][s] # Idle
    PROVE  job[p][s] \in Job
BY DEF TypeOK

LEMMA JobMoves ==
    ASSUME NEW j \in Job,
           NEW at \in {"load", "save", "get", "set", "send", "clear", "handle"}
    PROVE  /\ [j EXCEPT !.at = at] \in Job
           /\ \A view \in Settings : [j EXCEPT !.at = at, !.view = view] \in Job
           /\ \A view \in Settings, stamp \in Nat :
                [j EXCEPT !.at = at, !.view = view, !.stamp = stamp] \in Job
           /\ [j EXCEPT !.do = "process", !.at = at] \in Job
BY DEF Job

LEMMA TimeMoves == TypeOK /\ Tick => clock' \in Nat
BY DEF TypeOK, Tick

Writes == [data : Settings, of : Settings, by : {"store", "handler", "dismiss"}]

LEMMA WritesTyped ==
    ASSUME TypeOK, NEW p \in Party, NEW data \in Settings, NEW of \in Settings
    PROVE  /\ \A by \in {"store", "handler", "dismiss"} :
                [data |-> data, of |-> of, by |-> by] \in Writes
           /\ \A by \in SUBSET {"store", "handler", "dismiss"} :
                Change(p, data, of, by) =>
                    /\ page' \in [Party -> [copy : Settings, of : Settings]]
                    /\ writes' \in [Party -> SUBSET Writes]
<1>1. \A by \in {"store", "handler", "dismiss"} :
        [data |-> data, of |-> of, by |-> by] \in Writes
  BY DEF Writes
<1>2. ASSUME NEW by \in SUBSET {"store", "handler", "dismiss"},
             Change(p, data, of, by)
      PROVE  page' \in [Party -> [copy : Settings, of : Settings]]
  BY <1>2 DEF Change, TypeOK
<1>3. ASSUME NEW by \in SUBSET {"store", "handler", "dismiss"},
             Change(p, data, of, by)
      PROVE  writes' \in [Party -> SUBSET Writes]
  <2>1. {[data |-> data, of |-> of, by |-> b] : b \in by} \subseteq Writes
    BY <1>1
  <2>2. writes \in [Party -> SUBSET Writes]
    BY DEF TypeOK, Writes
  <2> QED
    BY <1>3, <2>1, <2>2 DEF Change
<1> QED
  BY <1>1, <1>2, <1>3

\* The steps of an activity
LEMMA TypesStep ==
    ASSUME HandshakeInv, NEW p \in Party, NEW s \in Slot, Step(p, s)
    PROVE  TypeOK'
<1> TypeOK
  BY DEF HandshakeInv
<1>0. job[p][s] # Idle /\ job[p][s] \in Job
  BY InJob DEF Step, InitLoad, InitSave, AgreeLoad, AgreeSave, ProcessLoad,
     ProcessSave, Get, Set, SendInit, SendAccept, SendDisable, ClearPage, Handle,
     CallClears, In
<1> DEFINE j == job[p][s]
<1>s. Sound(p, j)
  BY <1>0 DEF HandshakeInv, JobsSound
<1>o. stored[p] \in Settings /\ page[p].copy \in Settings /\ page[p].of \in Settings
  BY DEF HandshakeInv, SettingsOwn, Own
<1>v. /\ j.view \in Settings /\ j.stamp \in Nat /\ j.msg \in Messages \union {None}
      /\ j.key \in Key \union {None}
  BY <1>0 DEF Job
<1>1. CASE InitLoad(p, s)
  <2>1. [j EXCEPT !.at = "save", !.view = stored[p]] \in Job
    BY <1>0, <1>o, JobMoves
  <2>2. job' \in [Party -> [Slot -> Job \union {Idle}]]
    BY <1>1, <2>1, OneJob DEF InitLoad, Become
  <2> QED
    BY <1>1, <2>2 DEF InitLoad, TypeOK
<1>2. CASE InitSave(p, s)
  <2>1. j.key \in Key
    BY <1>2, <1>s DEF InitSave, In, Sound, HandshakeInv, KeysMade
  <2>2. [j.view EXCEPT !.pending = {j.key}] \in Settings
    BY <1>v, <2>1, SettingsMade
  <2>3. stored' \in [Party -> Settings]
    BY <1>2, <2>2 DEF InitSave, Store, TypeOK
  <2>4. job' \in [Party -> [Slot -> Job \union {Idle}]]
    BY <1>0, <1>2, JobMoves, OneJob DEF InitSave, At, Become
  <2> QED
    BY <1>2, <2>3, <2>4 DEF InitSave, TypeOK, Stale
<1>3. CASE AgreeLoad(p, s)
  <2>1. clock' \in Nat
    BY <1>3, TimeMoves DEF AgreeLoad
  <2>2. [j EXCEPT !.at = "save", !.view = stored[p], !.stamp = clock'] \in Job
    BY <1>0, <1>o, <2>1, JobMoves
  <2>3. job' \in [Party -> [Slot -> Job \union {Idle}]]
    BY <1>3, <2>2, OneJob DEF AgreeLoad, Become
  <2> QED
    BY <1>3, <2>1, <2>3 DEF AgreeLoad, TypeOK
<1>4. CASE AgreeSave(p, s)
  <2>1. j.key \in Key /\ j.msg.key \in Key
    BY <1>4, <1>s DEF AgreeSave, In, Sound, Got, HandshakeInv, MessagesHonest,
       Honest
  <2>2. {j.key, j.msg.key} \in Secret
    BY <2>1 DEF Secret
  <2>3. Established(j.view, {j.key, j.msg.key}, j.stamp) \in Settings
    BY <1>v, <2>2, SessionMade
  <2>4. stored' \in [Party -> Settings]
    BY <1>4, <2>3 DEF AgreeSave, Store, TypeOK
  <2>5. held' \in [Party -> SUBSET Secret]
    BY <1>4, <2>2 DEF AgreeSave, TypeOK
  <2>6. job' \in [Party -> [Slot -> Job \union {Idle}]]
    BY <1>0, <1>4, JobMoves, OneJob DEF AgreeSave, At, Become
  <2> QED
    BY <1>4, <2>4, <2>5, <2>6 DEF AgreeSave, TypeOK, Stale
<1>5. CASE ProcessLoad(p, s)
  <2>1. clock' \in Nat
    BY <1>5, TimeMoves DEF ProcessLoad, TypeOK
  <2>2. job' \in [Party -> [Slot -> Job \union {Idle}]]
    <3>1. CASE stored[p].pending = {}
      BY <1>0, <1>5, <3>1, JobMoves, OneJob, ZenonT(40) DEF ProcessLoad, Become
    <3>2. CASE stored[p].pending # {}
      <4>1. [j EXCEPT !.at = "save", !.view = stored[p], !.stamp = clock'] \in Job
        BY <1>0, <1>o, <2>1, JobMoves
      <4> QED
        BY <1>5, <3>2, <4>1, OneJob DEF ProcessLoad, Become
    <3> QED
      BY <3>1, <3>2
  <2> QED
    BY <1>5, <2>1, <2>2 DEF ProcessLoad, TypeOK
<1>6. CASE ProcessSave(p, s)
  <2>1. j.msg.key \in Key /\ j.view.pending # {}
    BY <1>6, <1>s DEF ProcessSave, In, Sound, Got, HandshakeInv, MessagesHonest,
       Honest
  <2>2. j.view.pending \union {j.msg.key} \in Secret
    <3>1. PICK key \in Key : j.view.pending = {key}
      BY <1>v, <2>1 DEF Settings
    <3>2. j.view.pending \union {j.msg.key} = {key, j.msg.key}
      BY <3>1
    <3> QED
      BY <2>1, <3>2 DEF Secret
  <2>3. Established(j.view, j.view.pending \union {j.msg.key}, j.stamp) \in Settings
    BY <1>v, <2>2, SessionMade
  <2>4. stored' \in [Party -> Settings]
    BY <1>6, <2>3 DEF ProcessSave, Store, TypeOK
  <2>5. held' \in [Party -> SUBSET Secret]
    BY <1>6, <2>2 DEF ProcessSave, TypeOK
  <2>6. job' \in [Party -> [Slot -> Job \union {Idle}]]
    BY <1>0, <1>6, JobMoves, OneJob DEF ProcessSave, Become
  <2> QED
    BY <1>6, <2>4, <2>5, <2>6 DEF ProcessSave, TypeOK, Stale
<1>7. CASE Get(p, s)
  <2>1. [j EXCEPT !.at = "set", !.view = stored[p]] \in Job
    BY <1>0, <1>o, JobMoves
  <2>2. job' \in [Party -> [Slot -> Job \union {Idle}]]
    BY <1>7, <2>1, OneJob DEF Get, Become
  <2> QED
    BY <1>7, <2>2 DEF Get, TypeOK
<1>8. CASE Set(p, s)
  <2>1. job' \in [Party -> [Slot -> Job \union {Idle}]]
    BY <1>0, <1>8, JobMoves, OneJob DEF Set, At, Become
  <2>2. /\ page' \in [Party -> [copy : Settings, of : Settings]]
        /\ writes' \in [Party -> SUBSET Writes]
    BY <1>8, <1>v, WritesTyped, ZenonT(40) DEF Set
  <2>3. closed' \in [Party -> SUBSET Messages]
    <3>1. In(p, s, "agree", "set") => j.msg \in Messages
      BY <1>s DEF In, Sound, Got, TypeOK
    <3> QED
      BY <1>8, <3>1, SMTT(30) DEF Set, TypeOK
  <2> QED
    BY <1>8, <2>1, <2>2, <2>3 DEF Set, TypeOK, Writes
<1>9. CASE SendInit(p, s)
  <2>1. j.key \in Key
    BY <1>9, <1>s DEF SendInit, In, Sound, HandshakeInv, KeysMade
  <2>2. clock' \in Nat
    BY <1>9, TimeMoves DEF SendInit, TypeOK
  <2>3. chat' \subseteq Messages
    <3>1. Message("init", p, j.key, None, clock') \in Messages
      BY <2>1, <2>2 DEF Message, Messages
    <3> QED
      BY <1>9, <3>1 DEF SendInit, Send, TypeOK
  <2>4. job' \in [Party -> [Slot -> Job \union {Idle}]]
    BY <1>0, <1>9, JobMoves, OneJob, ZenonT(40) DEF SendInit, At, Become
  <2>5. writes' \in [Party -> SUBSET Writes]
    <3>1. Rewrite(p) \in Writes
      BY <1>o, WritesTyped DEF Rewrite
    <3>2. writes \in [Party -> SUBSET Writes]
      BY DEF TypeOK, Writes
    <3> QED
      BY <1>9, <3>1, <3>2 DEF SendInit
  <2> QED
    BY <1>9, <2>2, <2>3, <2>4, <2>5 DEF SendInit, TypeOK, Writes
<1>10. CASE SendAccept(p, s)
  <2>1. j.key \in Key /\ j.msg.key \in Key
    BY <1>10, <1>s DEF SendAccept, In, Sound, Got, HandshakeInv, MessagesHonest,
       Honest
  <2>2. chat' \subseteq Messages
    <3>1. Message("accept", p, j.key, j.msg.key, 0) \in Messages
      BY <2>1 DEF Message, Messages
    <3> QED
      BY <1>10, <3>1 DEF SendAccept, Send, TypeOK
  <2>3. job' \in [Party -> [Slot -> Job \union {Idle}]]
    BY <1>10, OneJob DEF SendAccept, Become
  <2> QED
    BY <1>10, <2>2, <2>3 DEF SendAccept, TypeOK
<1>11. CASE SendDisable(p, s)
  <2>1. chat' \subseteq Messages
    <3>1. Message("disable", p, None, None, j.stamp) \in Messages
      BY <1>v DEF Message, Messages
    <3> QED
      BY <1>11, <3>1 DEF SendDisable, Send, TypeOK
  <2>2. job' \in [Party -> [Slot -> Job \union {Idle}]]
    BY <1>0, <1>11, JobMoves, OneJob DEF SendDisable, At, Become
  <2> QED
    BY <1>11, <2>1, <2>2 DEF SendDisable, TypeOK
<1>12. CASE ClearPage(p, s)
  <2>1. job' \in [Party -> [Slot -> Job \union {Idle}]]
    BY <1>12, OneJob DEF ClearPage, Become
  <2>2. Ended(page[p].copy) \in Settings
    BY <1>o, SettingsMade
  <2>3. /\ page' \in [Party -> [copy : Settings, of : Settings]]
        /\ writes' \in [Party -> SUBSET Writes]
    BY <1>12, <1>o, <2>2, WritesTyped DEF ClearPage
  <2> QED
    BY <1>12, <2>1, <2>3 DEF ClearPage, TypeOK, Writes
<1>13. CASE Handle(p, s)
  <2>1. job' \in [Party -> [Slot -> Job \union {Idle}]]
    BY <1>0, <1>13, JobMoves, OneJob, ZenonT(40) DEF Handle, Become
  <2>2. Ended(page[p].copy) \in Settings
    BY <1>o, SettingsMade
  <2>3. /\ page' \in [Party -> [copy : Settings, of : Settings]]
        /\ writes' \in [Party -> SUBSET Writes]
    <3>1. \/ UNCHANGED <<page, writes>>
          \/ Change(p, Ended(page[p].copy), page[p].of, {"store", "handler"})
      BY <1>13 DEF Handle
    <3>2. CASE UNCHANGED <<page, writes>>
      BY <3>2 DEF TypeOK, Writes
    <3> QED
      BY <1>o, <2>2, <3>1, <3>2, WritesTyped
  <2>4. j.msg \in Messages
    BY <1>13, <1>s DEF Handle, In, Sound, Got, TypeOK
  <2>5. request' \in [Party -> Messages \union {None}]
    BY <1>13, <2>4 DEF Handle, TypeOK
  <2>6. closed' \in [Party -> SUBSET Messages]
    <3>1. \/ UNCHANGED closed
          \/ closed' = [closed EXCEPT ![p] = @ \union {j.msg}]
      BY <1>13 DEF Handle
    <3> QED
      BY <2>4, <3>1 DEF TypeOK
  <2>7. UNCHANGED <<clock, chat, made, stored, held, upset, offered>>
    BY <1>13 DEF Handle
  <2> QED
    BY <2>1, <2>3, <2>5, <2>6, <2>7 DEF TypeOK, Writes
<1>14. CASE CallClears(p, s)
  <2>1. job' \in [Party -> [Slot -> Job \union {Idle}]]
    BY <1>14, OneJob DEF CallClears, Become
  <2>2. writes' \in [Party -> SUBSET Writes]
    <3>1. [stored[p] EXCEPT !.pending = {}] \in Settings
      BY <1>o, SettingsMade
    <3>2. [data |-> [stored[p] EXCEPT !.pending = {}], of |-> stored[p],
           by |-> "handler"] \in Writes
      BY <1>o, <3>1, WritesTyped
    <3>3. writes \in [Party -> SUBSET Writes]
      BY DEF TypeOK, Writes
    <3> QED
      BY <1>14, <3>2, <3>3 DEF CallClears
  <2> QED
    BY <1>14, <2>1, <2>2 DEF CallClears, TypeOK, Writes
<1> QED
  BY <1>1, <1>2, <1>3, <1>4, <1>5, <1>6, <1>7, <1>8, <1>9, <1>10, <1>11, <1>12,
     <1>13, <1>14 DEF Step

\* What else a party does
LEMMA TypesOther ==
    ASSUME HandshakeInv, NEW p \in Party,
           User(p) \/ Write(p) \/ Check(p) \/ CallHears(p)
    PROVE  TypeOK'
<1> TypeOK
  BY DEF HandshakeInv
<1>o. stored[p] \in Settings /\ page[p].copy \in Settings /\ page[p].of \in Settings
  BY DEF HandshakeInv, SettingsOwn, Own
<1>r. request[p] # None => request[p] \in chat
  BY DEF HandshakeInv, MessagesHonest, Got
<1>w. /\ writes \in [Party -> SUBSET Writes]
      /\ \A w \in writes[p] : w.data \in Settings
      /\ Rewrite(p) \in Writes
  BY <1>o, WritesTyped DEF TypeOK, Writes, Rewrite
<1>1. ASSUME NEW call \in BOOLEAN, BeginInit(p, call) PROVE TypeOK'
  <2>1. made' \in 0..MaxKeys /\ made' \in 1..MaxKeys
    BY <1>1, Assumptions DEF BeginInit, TypeOK, Assumptions
  <2>2. <<p, made'>> \in Key
    BY <2>1 DEF Key
  <2>3. [do |-> "init", at |-> "load", call |-> call, msg |-> None,
         key |-> <<p, made'>>, view |-> Fresh, stamp |-> 0] \in Job
    BY <2>2, Beginnings DEF Job
  <2>4. job' \in [Party -> [Slot -> Job \union {Idle}]]
    <3>1. PICK t \in Slot : job' = [job EXCEPT ![p][t] =
                [do |-> "init", at |-> "load", call |-> call, msg |-> None,
                 key |-> <<p, made'>>, view |-> Fresh, stamp |-> 0]]
      BY <1>1 DEF BeginInit, Become
    <3> QED
      BY <2>3, <3>1, OneJob
  <2>5. offered' \in [Party -> SUBSET Key]
    BY <1>1, <2>2 DEF BeginInit, TypeOK
  <2> QED
    BY <1>1, <2>1, <2>4, <2>5 DEF BeginInit, TypeOK
<1>2. CASE SwitchOff(p)
  <2>1. clock' \in Nat
    BY <1>2, TimeMoves DEF SwitchOff
  <2>2. [do |-> "off", at |-> "send", call |-> FALSE, msg |-> None,
         key |-> None, view |-> Fresh, stamp |-> clock'] \in Job
    BY <2>1, Beginnings DEF Job
  <2>3. job' \in [Party -> [Slot -> Job \union {Idle}]]
    <3>1. PICK t \in Slot : job' = [job EXCEPT ![p][t] =
                [do |-> "off", at |-> "send", call |-> FALSE, msg |-> None,
                 key |-> None, view |-> Fresh, stamp |-> clock']]
      BY <1>2 DEF SwitchOff, Become
    <3> QED
      BY <2>2, <3>1, OneJob
  <2> QED
    BY <1>2, <2>1, <2>3 DEF SwitchOff, TypeOK
<1>3. ASSUME NEW call \in BOOLEAN, BeginAgree(p, call)
      PROVE  /\ job' \in [Party -> [Slot -> Job \union {Idle}]]
             /\ made' \in 0..MaxKeys
             /\ UNCHANGED <<clock, chat, stored, page, held, upset, offered>>
  <2>1. made' \in 0..MaxKeys /\ made' \in 1..MaxKeys
    BY <1>3, Assumptions DEF BeginAgree, TypeOK, Assumptions
  <2>2. <<p, made'>> \in Key
    BY <2>1 DEF Key
  <2>3. [do |-> "agree", at |-> "load", call |-> call, msg |-> request[p],
         key |-> <<p, made'>>, view |-> Fresh, stamp |-> 0] \in Job
    BY <1>3, <2>2, Beginnings DEF Job, BeginAgree, TypeOK
  <2> QED
    BY <1>3, <2>1, <2>3, OneJob DEF BeginAgree, Become
<1>4. CASE Agree(p)
  BY <1>3, <1>4 DEF Agree, TypeOK
<1>5. ASSUME NEW m \in chat, Dismissed(p, m)
      PROVE  /\ closed' \in [Party -> SUBSET Messages]
             /\ writes' \in [Party -> SUBSET Writes]
  BY <1>5, <1>w DEF Dismissed, TypeOK
<1>6. CASE CallAgrees(p)
  <2>1. BeginAgree(p, TRUE) /\ Dismissed(p, request[p]) /\ request[p] \in chat
    BY <1>6, <1>r DEF CallAgrees, BeginAgree
  <2>2. /\ closed' \in [Party -> SUBSET Messages]
        /\ writes' \in [Party -> SUBSET Writes]
    BY <1>5, <2>1
  <2>3. request' \in [Party -> Messages \union {None}]
    BY <1>6 DEF CallAgrees, TypeOK
  <2> QED
    BY <1>3, <2>1, <2>2, <2>3 DEF TypeOK, Writes
<1>7. CASE Deny(p)
  <2>1. /\ page' \in [Party -> [copy : Settings, of : Settings]]
        /\ writes' \in [Party -> SUBSET Writes]
    BY <1>7, <1>o, WritesTyped DEF Deny
  <2>2. closed' \in [Party -> SUBSET Messages]
    BY <1>7, <1>r DEF Deny, TypeOK
  <2>3. request' \in [Party -> Messages \union {None}]
    BY <1>7 DEF Deny, TypeOK
  <2> QED
    BY <1>7, <2>1, <2>2, <2>3 DEF Deny, TypeOK, Writes
<1>8. CASE Dismiss(p)
  <2>1. /\ closed' \in [Party -> SUBSET Messages]
        /\ writes' \in [Party -> SUBSET Writes]
    BY <1>5, <1>8, <1>r DEF Dismiss
  <2>2. request' \in [Party -> Messages \union {None}]
    BY <1>8 DEF Dismiss, TypeOK
  <2> QED
    BY <1>8, <2>1, <2>2 DEF Dismiss, TypeOK, Writes
<1>9. CASE Restart(p)
  <2>1. job' \in [Party -> [Slot -> Job \union {Idle}]]
    BY <1>9 DEF Restart, TypeOK
  <2>2. page' \in [Party -> [copy : Settings, of : Settings]]
    BY <1>9, <1>o DEF Restart, TypeOK
  <2>3. closed' \in [Party -> SUBSET Messages]
    BY <1>9 DEF Restart, TypeOK
  <2>4. writes' \in [Party -> SUBSET Writes]
    BY <1>9, <1>w DEF Restart
  <2> QED
    BY <1>9, <2>1, <2>2, <2>3, <2>4 DEF Restart, TypeOK, Writes
<1>10. CASE Write(p)
  <2>1. stored' \in [Party -> Settings]
    BY <1>10, <1>w DEF Write, Store, TypeOK
  <2>2. writes' \in [Party -> SUBSET Writes]
    BY <1>10, <1>w DEF Write
  <2>3. upset' \subseteq {"stale", "glare", "twice", "late", "over"}
    BY <1>10 DEF Write, Stale, TypeOK
  <2> QED
    BY <1>10, <2>1, <2>2, <2>3 DEF Write, TypeOK, Writes
<1>11. ASSUME NEW do \in {"check", "process"}, NEW at \in {"handle", "load"},
              NEW call \in BOOLEAN, NEW m \in chat, NEW view \in Settings,
              Begin(p, do, at, call, m, view)
       PROVE  job' \in [Party -> [Slot -> Job \union {Idle}]]
  <2>1. [do |-> do, at |-> at, call |-> call, msg |-> m, key |-> None,
         view |-> view, stamp |-> 0] \in Job
    BY DEF Job, TypeOK
  <2>2. PICK t \in Slot : job' = [job EXCEPT ![p][t] =
            [do |-> do, at |-> at, call |-> call, msg |-> m, key |-> None,
             view |-> view, stamp |-> 0]]
    BY <1>11 DEF Begin
  <2> QED
    BY <2>1, <2>2, OneJob
<1>12. CASE Check(p)
  <2>1. job' \in [Party -> [Slot -> Job \union {Idle}]]
    BY <1>11, <1>12, <1>o DEF Check
  <2> QED
    BY <1>12, <2>1 DEF Check, TypeOK
<1>13. CASE CallHears(p)
  <2>1. PICK m \in chat :
            /\ Dismissed(p, m)
            /\ \/ request' = [request EXCEPT ![p] = m] /\ UNCHANGED job
               \/ Begin(p, "process", "load", TRUE, m, Fresh) /\ UNCHANGED request
    BY <1>13 DEF CallHears
  <2>2. /\ closed' \in [Party -> SUBSET Messages]
        /\ writes' \in [Party -> SUBSET Writes]
    BY <1>5, <2>1
  <2>3. job' \in [Party -> [Slot -> Job \union {Idle}]]
    BY <1>11, <2>1, Beginnings DEF TypeOK
  <2>4. request' \in [Party -> Messages \union {None}]
    BY <2>1 DEF TypeOK
  <2> QED
    BY <1>13, <2>2, <2>3, <2>4 DEF CallHears, TypeOK, Writes
<1> QED
  BY <1>1, <1>2, <1>4, <1>6, <1>7, <1>8, <1>9, <1>10, <1>12, <1>13
     DEF User, SwitchOn, CallOffers

LEMMA TypesNext == HandshakeInv /\ [Next]_vars => TypeOK'
<1>1. CASE UNCHANGED vars
  BY <1>1 DEF HandshakeInv, TypeOK, vars
<1> QED
  BY <1>1, TypesStep, TypesOther DEF Next

-----------------------------------------------------------------------------
(* Keys, messages and activities *)

\* Nothing is taken back.
Grows ==
    /\ \A p \in Party : offered[p] \subseteq offered'[p] /\ held[p] \subseteq held'[p]
    /\ chat \subseteq chat' /\ made <= made' /\ made' \in Nat

LEMMA NextGrows == HandshakeInv /\ [Next]_vars => Grows
<1> SUFFICES ASSUME HandshakeInv, [Next]_vars PROVE Grows
  OBVIOUS
<1> TypeOK
  BY DEF HandshakeInv
<1>t. /\ made \in Nat /\ offered \in [Party -> SUBSET Key]
      /\ held \in [Party -> SUBSET Secret]
  BY Assumptions DEF TypeOK, Assumptions
<1>1. CASE UNCHANGED <<offered, held, made>> /\ chat \subseteq chat'
  BY <1>1, <1>t DEF Grows
<1>2. ASSUME NEW p \in Party, NEW s \in Slot, Step(p, s) PROVE Grows
  <2>1. CASE AgreeSave(p, s)
    BY <1>t, <2>1 DEF AgreeSave, Grows
  <2>2. CASE ProcessSave(p, s)
    BY <1>t, <2>2 DEF ProcessSave, Grows
  <2>3. CASE \/ InitLoad(p, s) \/ InitSave(p, s) \/ AgreeLoad(p, s)
             \/ ProcessLoad(p, s) \/ Get(p, s) \/ Set(p, s)
    BY <1>1, <2>3
       DEF InitLoad, InitSave, AgreeLoad, ProcessLoad, Get, Set
  <2>4. CASE \/ SendInit(p, s) \/ SendAccept(p, s) \/ SendDisable(p, s)
             \/ ClearPage(p, s) \/ Handle(p, s) \/ CallClears(p, s)
    BY <1>1, <2>4
       DEF SendInit, SendAccept, SendDisable, ClearPage, Handle, CallClears, Send
  <2> QED
    BY <1>2, <2>1, <2>2, <2>3, <2>4 DEF Step
<1>3. ASSUME NEW p \in Party, User(p) PROVE Grows
  <2>1. ASSUME NEW call, BeginInit(p, call) PROVE Grows
    BY <1>t, <2>1 DEF BeginInit, Grows
  <2>2. ASSUME NEW call, BeginAgree(p, call) PROVE Grows
    BY <1>t, <2>2 DEF BeginAgree, Grows
  <2>3. CASE SwitchOff(p) \/ Deny(p) \/ Dismiss(p) \/ Restart(p)
    BY <1>1, <2>3 DEF SwitchOff, Deny, Dismiss, Restart
  <2> QED
    BY <1>3, <2>1, <2>2, <2>3 DEF User, SwitchOn, Agree, CallOffers, CallAgrees
<1>4. ASSUME NEW p \in Party, Write(p) \/ Check(p) \/ CallHears(p) PROVE Grows
  BY <1>1, <1>4 DEF Write, Check, CallHears
<1>5. CASE UNCHANGED vars
  BY <1>1, <1>5 DEF vars
<1> QED
  BY <1>2, <1>3, <1>4, <1>5 DEF Next

\* What was true of settings, messages and activities stays true of them.
LEMMA StillTrue ==
    ASSUME HandshakeInv, Grows
    PROVE  /\ \A p \in Party, settings \in Settings :
                Own(p, settings) => settings.pending \subseteq offered'[p]
           /\ \A m \in Messages : Honest(m) => Honest(m)'
           /\ \A p \in Party, m \in Messages : Got(p, m) => Got(p, m)'
           /\ \A p \in Party, j \in Job : Sound(p, j) => Sound(p, j)'
<1>1. \A p \in Party, settings \in Settings :
        Own(p, settings) => settings.pending \subseteq offered'[p]
  BY DEF Grows, Own
<1>2. \A m \in Messages : Honest(m) => Honest(m)'
  <2> SUFFICES ASSUME NEW m \in Messages, Honest(m) PROVE Honest(m)'
    OBVIOUS
  <2>1. m.from \in Party /\ Other(m.from) \in Party
    BY OtherParty DEF Messages
  <2> QED
    BY <2>1 DEF Honest, Grows, Other
<1>3. \A p \in Party, m \in Messages : Got(p, m) => Got(p, m)'
  BY DEF Got, Grows
<1>4. \A p \in Party, j \in Job : Sound(p, j) => Sound(p, j)'
  <2> SUFFICES ASSUME NEW p \in Party, NEW j \in Job, Sound(p, j)
               PROVE  Sound(p, j)'
    OBVIOUS
  <2>1. Own(p, j.view)'
    BY <1>1 DEF Sound, Own
  <2>2. j.do \in {"agree", "process", "check"} => Got(p, j.msg)'
    BY DEF Sound, Got, Grows
  <2>3. j.do = "agree" => j.key[2] <= made'
    <3>1. made \in Nat /\ (j.key \in Key => j.key[2] \in Nat)
      BY Assumptions DEF HandshakeInv, TypeOK, Assumptions, Key
    <3> QED
      BY <3>1 DEF Sound, Grows
  <2> QED
    BY <2>1, <2>2, <2>3 DEF Sound, Grows
<1> QED
  BY <1>1, <1>2, <1>3, <1>4

\* What a step leaves alone keeps its part of the invariant.
LEMMA LeftAlone ==
    ASSUME HandshakeInv, Grows
    PROVE  /\ UNCHANGED <<stored, page, writes>> => SettingsOwn'
           /\ UNCHANGED <<chat, request>> => MessagesHonest'
           /\ UNCHANGED <<offered, held, made>> => KeysMade'
           /\ UNCHANGED job => JobsSound'
           /\ UNCHANGED <<job, offered, held>> => AnswersFresh'
<1> TypeOK
  BY DEF HandshakeInv
<1>1. ASSUME UNCHANGED <<stored, page, writes>> PROVE SettingsOwn'
  BY <1>1 DEF HandshakeInv, SettingsOwn, Own, Grows
<1>2. ASSUME UNCHANGED <<chat, request>> PROVE MessagesHonest'
  <2>1. ASSUME NEW m \in chat' PROVE Honest(m)'
    BY <1>2, <2>1, StillTrue DEF HandshakeInv, MessagesHonest, TypeOK
  <2> QED
    BY <1>2, <2>1 DEF HandshakeInv, MessagesHonest, Got
<1>3. ASSUME UNCHANGED <<offered, held, made>> PROVE KeysMade'
  BY <1>3 DEF HandshakeInv, KeysMade
<1>4. ASSUME UNCHANGED job PROVE JobsSound'
  <2>1. ASSUME NEW p \in Party, NEW s \in Slot, job[p][s] # Idle
        PROVE  Sound(p, job[p][s])'
    <3>1. PICK j \in Job : j = job[p][s]
      BY <2>1, InJob
    <3>2. Sound(p, j)
      BY <2>1, <3>1 DEF HandshakeInv, JobsSound
    <3>3. Sound(p, j)'
      BY <3>2, StillTrue
    <3>4. job'[p][s] = j
      BY <1>4, <3>1
    <3> QED
      BY <3>3, <3>4 DEF Sound, Own, Got
  <2> QED
    BY <1>4, <2>1 DEF JobsSound
<1>5. ASSUME UNCHANGED <<job, offered, held>> PROVE AnswersFresh'
  BY <1>5 DEF HandshakeInv, AnswersFresh, Agreeing, Used
<1> QED
  BY <1>1, <1>2, <1>3, <1>4, <1>5

\* An activity that goes on to something sound, or ends
LEMMA JobGoes ==
    ASSUME HandshakeInv, Grows, NEW p \in Party, NEW s \in Slot, NEW next,
           job' = [job EXCEPT ![p][s] = next],
           next # Idle => Sound(p, next)'
    PROVE  JobsSound'
<1> TypeOK
  BY DEF HandshakeInv
<1>0. /\ job'[p][s] = next
      /\ \A q \in Party, t \in Slot : q # p \/ t # s => job'[q][t] = job[q][t]
  BY OneJob, ZenonT(40)
<1> SUFFICES ASSUME NEW q \in Party, NEW t \in Slot, job'[q][t] # Idle
             PROVE  Sound(q, job[q][t])'
  BY DEF JobsSound
<1>1. CASE q = p /\ t = s
  BY <1>0, <1>1 DEF Sound, Own, Got
<1>2. CASE q # p \/ t # s
  <2>1. job'[q][t] = job[q][t]
    BY <1>0, <1>2
  <2>2. PICK j \in Job : j = job[q][t]
    BY <2>1, InJob
  <2>3. Sound(q, j)
    BY <2>1, <2>2 DEF HandshakeInv, JobsSound
  <2>4. Sound(q, j)'
    BY <2>3, StillTrue
  <2> QED
    BY <2>1, <2>2, <2>4 DEF Sound, Own, Got
<1> QED
  BY <1>1, <1>2

\* ... without a new key: then the keys of answers are as fresh as before.
LEMMA FreshGoes ==
    ASSUME HandshakeInv, NEW p \in Party, NEW s \in Slot, NEW next,
           job' = [job EXCEPT ![p][s] = next], UNCHANGED <<offered, held>>,
           next # Idle /\ next.do = "agree" =>
                /\ Agreeing(p, s) /\ next.key = job[p][s].key
                /\ next.at \in {"load", "save"} => job[p][s].at \in {"load", "save"}
    PROVE  AnswersFresh'
<1> TypeOK
  BY DEF HandshakeInv
<1>1. ASSUME NEW q \in Party, NEW t \in Slot, Agreeing(q, t)'
      PROVE  /\ Agreeing(q, t) /\ job'[q][t].key = job[q][t].key
             /\ job'[q][t].at \in {"load", "save"} =>
                    job[q][t].at \in {"load", "save"}
  BY <1>1, OneJob DEF Agreeing
<1>2. \A key : Used(key)' => Used(key)
  BY DEF Used
<1> SUFFICES ASSUME NEW q \in Party, NEW t \in Slot, Agreeing(q, t)'
             PROVE  /\ job'[q][t].key \notin offered'[q]
                    /\ job'[q][t].at \in {"load", "save"} => ~Used(job[q][t].key)'
                    /\ \A u \in Slot \ {t} : Agreeing(q, u)' =>
                            job'[q][u].key # job'[q][t].key
  BY DEF AnswersFresh
<1>3. /\ job[q][t].key \notin offered[q]
      /\ job[q][t].at \in {"load", "save"} => ~Used(job[q][t].key)
      /\ \A u \in Slot \ {t} : Agreeing(q, u) => job[q][u].key # job[q][t].key
  BY <1>1 DEF HandshakeInv, AnswersFresh
<1>4. job'[q][t].at \in {"load", "save"} => ~Used(job[q][t].key)'
  BY <1>1, <1>3 DEF Used
<1> QED
  BY <1>1, <1>3, <1>4

\* A step of p that leaves p with settings that p may hold
LEMMA OwnGoes ==
    ASSUME HandshakeInv, Grows, NEW p \in Party,
           \A q \in Party \ {p} : /\ stored'[q] = stored[q] /\ page'[q] = page[q]
                                  /\ writes'[q] = writes[q],
           Own(p, stored'[p]), Own(p, page'[p].copy), Own(p, page'[p].of),
           \A w \in writes'[p] : Own(p, w.data) /\ Own(p, w.of)
    PROVE  SettingsOwn'
<1> SUFFICES ASSUME NEW q \in Party
             PROVE  /\ Own(q, stored[q])' /\ Own(q, page[q].copy)'
                    /\ Own(q, page[q].of)'
                    /\ \A w \in writes'[q] : Own(q, w.data)' /\ Own(q, w.of)'
  BY DEF SettingsOwn, Own
<1>1. \A settings \in Settings : Own(q, settings) =>
        settings \in Settings /\ settings.pending \subseteq offered'[q]
  BY StillTrue
<1>2. /\ Own(q, stored[q]) /\ Own(q, page[q].copy) /\ Own(q, page[q].of)
      /\ \A w \in writes[q] : Own(q, w.data) /\ Own(q, w.of)
  BY DEF HandshakeInv, SettingsOwn
<1>3. CASE q = p
  BY <1>1, <1>3 DEF Own
<1>4. CASE q # p
  BY <1>1, <1>2, <1>4 DEF Own
<1> QED
  BY <1>3, <1>4

LEMMA OwnChange ==
    ASSUME HandshakeInv, Grows, NEW p \in Party, UNCHANGED stored,
           NEW copy, NEW of, NEW by, Change(p, copy, of, by),
           Own(p, copy), Own(p, of)
    PROVE  SettingsOwn'
<1>1. /\ page \in [Party -> [copy : Settings, of : Settings]]
      /\ writes \in [Party -> SUBSET Writes]
  BY DEF HandshakeInv, TypeOK, Writes
<1>2. /\ page'[p].copy = copy /\ page'[p].of = copy
      /\ \A q \in Party \ {p} : page'[q] = page[q] /\ writes'[q] = writes[q]
      /\ \A w \in writes'[p] : w \in writes[p] \/ (w.data = copy /\ w.of = of)
  BY <1>1 DEF Change
<1>3. /\ Own(p, stored[p])
      /\ \A w \in writes[p] : Own(p, w.data) /\ Own(p, w.of)
  BY DEF HandshakeInv, SettingsOwn
<1>4. /\ Own(p, page'[p].copy) /\ Own(p, page'[p].of) /\ Own(p, stored'[p])
      /\ \A w \in writes'[p] : Own(p, w.data) /\ Own(p, w.of)
  BY <1>2, <1>3 DEF Own
<1> QED
  BY <1>2, <1>4, OwnGoes

LEMMA OwnWrites ==
    ASSUME HandshakeInv, Grows, NEW p \in Party, UNCHANGED <<stored, page>>,
           \A q \in Party \ {p} : writes'[q] = writes[q],
           \A w \in writes'[p] :
                w \in writes[p] \/ (Own(p, w.data) /\ Own(p, w.of))
    PROVE  SettingsOwn'
<1>1. /\ Own(p, stored'[p]) /\ Own(p, page'[p].copy) /\ Own(p, page'[p].of)
      /\ \A w \in writes[p] : Own(p, w.data) /\ Own(p, w.of)
  BY DEF HandshakeInv, SettingsOwn
<1> QED
  BY <1>1, OwnGoes

LEMMA OwnStore ==
    ASSUME HandshakeInv, Grows, NEW p \in Party, UNCHANGED <<page, writes>>,
           NEW new, Store(p, new), Own(p, new)
    PROVE  SettingsOwn'
<1>1. stored \in [Party -> Settings]
  BY DEF HandshakeInv, TypeOK
<1>2. stored'[p] = new /\ \A q \in Party \ {p} : stored'[q] = stored[q]
  BY <1>1 DEF Store
<1>3. /\ Own(p, page'[p].copy) /\ Own(p, page'[p].of) /\ Own(p, stored'[p])
      /\ \A w \in writes'[p] : Own(p, w.data) /\ Own(p, w.of)
  BY <1>2 DEF HandshakeInv, SettingsOwn
<1> QED
  BY <1>2, <1>3, OwnGoes

\* A message that is added to the chat
LEMMA HonestGoes ==
    ASSUME HandshakeInv, Grows, NEW m, Honest(m)', chat' = chat \union {m},
           UNCHANGED request
    PROVE  MessagesHonest'
<1>1. ASSUME NEW n \in chat PROVE Honest(n)'
  BY <1>1, StillTrue DEF HandshakeInv, MessagesHonest, TypeOK
<1>2. \A n \in chat' : Honest(n)'
  BY <1>1 DEF Honest
<1>3. \A p \in Party : request'[p] # None =>
        Got(p, request[p])' /\ request'[p].kind = "init"
  BY DEF HandshakeInv, MessagesHonest, Got
<1> QED
  BY <1>2, <1>3 DEF MessagesHonest

\* A request that is made or goes
LEMMA RequestGoes ==
    ASSUME HandshakeInv, Grows, NEW p \in Party, NEW m, UNCHANGED chat,
           request' = [request EXCEPT ![p] = m],
           m # None => Got(p, m) /\ m.kind = "init"
    PROVE  MessagesHonest'
<1>1. \A n \in chat' : Honest(n)'
  BY StillTrue DEF HandshakeInv, MessagesHonest, TypeOK
<1>2. ASSUME NEW q \in Party, request'[q] # None
      PROVE  Got(q, request[q])' /\ request'[q].kind = "init"
  <2>1. request \in [Party -> Messages \union {None}]
    BY DEF HandshakeInv, TypeOK
  <2> QED
    BY <1>2, <2>1 DEF HandshakeInv, MessagesHonest, Got
<1> QED
  BY <1>1, <1>2 DEF MessagesHonest

\* The steps of an activity that use no key: they read settings, change the copy
\* of the page or send a message.
LEMMA SafeStep ==
    ASSUME HandshakeInv, NEW p \in Party, NEW s \in Slot, Step(p, s),
           ~AgreeSave(p, s), ~ProcessSave(p, s)
    PROVE  /\ SettingsOwn' /\ MessagesHonest' /\ JobsSound' /\ AnswersFresh'
           /\ KeysMade'
<1> TypeOK
  BY DEF HandshakeInv
<1>g. Grows
  BY NextGrows DEF Next
<1>0. PICK j \in Job : j = job[p][s] /\ Sound(p, j)
  BY InJob DEF HandshakeInv, JobsSound, Step, InitLoad, InitSave, AgreeLoad,
     ProcessLoad, Get, Set, SendInit, SendAccept, SendDisable, ClearPage, Handle,
     CallClears, In
<1>s. Sound(p, j)'
  BY <1>0, <1>g, StillTrue
<1>o. /\ Own(p, stored[p]) /\ Own(p, page[p].copy) /\ Own(p, page[p].of)
      /\ \A w \in writes[p] : Own(p, w.data) /\ Own(p, w.of)
      /\ Own(p, j.view)
  BY <1>0 DEF HandshakeInv, SettingsOwn, Sound
<1>k. UNCHANGED <<offered, held, made>>
  BY DEF Step, InitLoad, InitSave, AgreeLoad, ProcessLoad, Get, Set, SendInit,
     SendAccept, SendDisable, ClearPage, Handle, CallClears
<1>k1. KeysMade'
  BY <1>g, <1>k, LeftAlone
<1>i. ASSUME job' = [job EXCEPT ![p][s] = Idle] PROVE JobsSound' /\ AnswersFresh'
  BY <1>g, <1>k, <1>i, JobGoes, FreshGoes
\* It moves to another point, perhaps with settings just read.
<1>m. ASSUME NEW next \in Job, job' = [job EXCEPT ![p][s] = next],
             next.msg = j.msg, next.key = j.key, Own(p, next.view),
             \/ next.do = j.do
             \/ next.do = "process" /\ next.at = "load" /\ j.do = "check"
                /\ j.msg.kind = "accept",
             next.do = "process" /\ next.at = "save" => next.view.pending # {},
             next.do = "agree" =>
                (next.at \in {"load", "save"} <=> j.at \in {"load", "save"})
                /\ (next.at \in {"get", "set", "send"}
                        => j.at \in {"get", "set", "send"})
      PROVE  JobsSound' /\ AnswersFresh'
  <2>1. Own(p, next.view)'
    BY <1>g, <1>m, StillTrue DEF Own
  <2>2. Sound(p, next)'
    BY <1>s, <1>m, <2>1 DEF Sound
  <2>3. JobsSound'
    BY <1>g, <1>m, <2>2, JobGoes
  <2>4. next.do = "agree" =>
            /\ Agreeing(p, s) /\ next.key = job[p][s].key
            /\ next.at \in {"load", "save"} => job[p][s].at \in {"load", "save"}
    BY <1>0, <1>m, Beginnings DEF Agreeing
  <2>5. AnswersFresh'
    BY <1>k, <1>m, <2>4, FreshGoes
  <2> QED
    BY <2>3, <2>5
<1>1. CASE InitLoad(p, s)
  <2> DEFINE next == [j EXCEPT !.at = "save", !.view = stored[p]]
  <2>1. next \in Job
    BY <1>o, JobMoves DEF Own
  <2>2. job' = [job EXCEPT ![p][s] = next] /\ j.do = "init"
    BY <1>0, <1>1 DEF InitLoad, Become, In
  <2>3. /\ next.msg = j.msg /\ next.key = j.key /\ next.do = j.do
        /\ next.view = stored[p]
    BY DEF Job
  <2>4. JobsSound' /\ AnswersFresh'
    BY <1>m, <1>o, <2>1, <2>2, <2>3
  <2> QED
    BY <1>1, <1>g, <1>k1, <2>4, LeftAlone DEF InitLoad
<1>2. CASE InitSave(p, s)
  <2>1. PICK at \in {"get", "send"} : At(p, s, at)
    BY <1>2 DEF InitSave
  <2> DEFINE next == [j EXCEPT !.at = at]
  <2>2. next \in Job
    BY JobMoves
  <2>3. job' = [job EXCEPT ![p][s] = next] /\ j.do = "init"
    BY <1>0, <1>2, <2>1 DEF InitSave, At, Become, In
  <2>4. /\ next.msg = j.msg /\ next.key = j.key /\ next.do = j.do
        /\ next.view = j.view
    BY DEF Job
  <2>5. JobsSound' /\ AnswersFresh'
    BY <1>m, <1>o, <2>2, <2>3, <2>4
  <2>6. Own(p, [j.view EXCEPT !.pending = {j.key}])
    <3>1. j.key \in offered[p] /\ j.key \in Key
      BY <1>0, <2>3 DEF Sound, HandshakeInv, KeysMade
    <3>2. /\ [j.view EXCEPT !.pending = {j.key}] \in Settings
          /\ [j.view EXCEPT !.pending = {j.key}].pending = {j.key}
      <4>1. j.view \in Settings
        BY <1>o DEF Own
      <4> QED
        BY <3>1, <4>1, SettingsMade
    <3> QED
      BY <3>1, <3>2 DEF Own
  <2>7. SettingsOwn'
    BY <1>0, <1>2, <1>g, <2>6, OwnStore DEF InitSave
  <2> QED
    BY <1>2, <1>g, <1>k1, <2>5, <2>7, LeftAlone DEF InitSave
<1>3. CASE AgreeLoad(p, s)
  <2> DEFINE next == [j EXCEPT !.at = "save", !.view = stored[p], !.stamp = clock']
  <2>1. next \in Job
    BY <1>3, <1>o, JobMoves, TimeMoves DEF Own, AgreeLoad
  <2>2. /\ job' = [job EXCEPT ![p][s] = next]
        /\ j.do = "agree" /\ j.at = "load"
    BY <1>0, <1>3 DEF AgreeLoad, Become, In
  <2>3. /\ next.msg = j.msg /\ next.key = j.key /\ next.do = j.do
        /\ next.at = "save" /\ next.view = stored[p]
    BY DEF Job
  <2>4. JobsSound' /\ AnswersFresh'
    BY <1>m, <1>o, <2>1, <2>2, <2>3
  <2> QED
    BY <1>3, <1>g, <1>k1, <2>4, LeftAlone DEF AgreeLoad
<1>4. CASE ProcessLoad(p, s)
  <2>1. j.do = "process"
    BY <1>0, <1>4 DEF ProcessLoad, In
  <2>2. JobsSound' /\ AnswersFresh'
    <3>1. CASE job' = [job EXCEPT ![p][s] = Idle]
      BY <1>i, <3>1
    <3>2. CASE job' = [job EXCEPT ![p][s] = [j EXCEPT !.at = "get"]]
      <4> DEFINE next == [j EXCEPT !.at = "get"]
      <4>1. next \in Job
        BY JobMoves
      <4>2. /\ next.msg = j.msg /\ next.key = j.key /\ next.do = j.do
            /\ next.view = j.view /\ next.at = "get"
        BY DEF Job
      <4> QED
        BY <1>m, <1>o, <2>1, <3>2, <4>1, <4>2
    <3>3. CASE /\ stored[p].pending # {} /\ Tick
               /\ job' = [job EXCEPT ![p][s] =
                    [j EXCEPT !.at = "save", !.view = stored[p], !.stamp = clock']]
      <4> DEFINE next == [j EXCEPT !.at = "save", !.view = stored[p], !.stamp = clock']
      <4>1. next \in Job
        BY <1>o, <3>3, JobMoves, TimeMoves DEF Own
      <4>2. /\ next.msg = j.msg /\ next.key = j.key /\ next.do = j.do
            /\ next.view = stored[p] /\ next.at = "save"
        BY DEF Job
      <4> QED
        BY <1>m, <1>o, <2>1, <3>3, <4>1, <4>2
    <3> QED
      BY <1>0, <1>4, <3>1, <3>2, <3>3 DEF ProcessLoad, Become
  <2> QED
    BY <1>4, <1>g, <1>k1, <2>2, LeftAlone DEF ProcessLoad
<1>5. CASE Get(p, s)
  <2> DEFINE next == [j EXCEPT !.at = "set", !.view = stored[p]]
  <2>1. next \in Job
    BY <1>o, JobMoves DEF Own
  <2>2. job' = [job EXCEPT ![p][s] = next] /\ j.at = "get"
    BY <1>0, <1>5 DEF Get, Become, In
  <2>3. /\ next.msg = j.msg /\ next.key = j.key /\ next.do = j.do
        /\ next.at = "set" /\ next.view = stored[p]
    BY DEF Job
  <2>4. JobsSound' /\ AnswersFresh'
    BY <1>m, <1>o, <2>1, <2>2, <2>3
  <2>5. MessagesHonest'
    <3>1. CASE UNCHANGED request
      BY <1>5, <1>g, <3>1, LeftAlone DEF Get
    <3>2. CASE request' = [request EXCEPT ![p] = None]
      BY <1>5, <1>g, <3>2, RequestGoes DEF Get
    <3> QED
      BY <1>5, <3>1, <3>2 DEF Get
  <2> QED
    BY <1>5, <1>g, <1>k1, <2>4, <2>5, LeftAlone DEF Get
<1>6. CASE Set(p, s)
  <2>1. JobsSound' /\ AnswersFresh'
    <3>1. CASE job' = [job EXCEPT ![p][s] = Idle]
      BY <1>i, <3>1
    <3>2. CASE j.at = "set" /\ job' = [job EXCEPT ![p][s] = [j EXCEPT !.at = "send"]]
      <4> DEFINE next == [j EXCEPT !.at = "send"]
      <4>1. next \in Job
        BY JobMoves
      <4>2. /\ next.msg = j.msg /\ next.key = j.key /\ next.do = j.do
            /\ next.view = j.view /\ next.at = "send"
        BY DEF Job
      <4> QED
        BY <1>m, <1>o, <3>2, <4>1, <4>2
    <3> QED
      BY <1>0, <1>6, <3>1, <3>2 DEF Set, At, Become, In
  <2>2. SettingsOwn'
    BY <1>0, <1>6, <1>g, <1>o, OwnChange DEF Set
  <2> QED
    BY <1>6, <1>g, <1>k1, <2>1, <2>2, LeftAlone DEF Set
<1>7. CASE SendInit(p, s)
  <2>0. j.do = "init" /\ j.key \in offered[p] /\ j.key \in Key /\ Owner(j.key) = p
    BY <1>0, <1>7 DEF SendInit, In, Sound, HandshakeInv, KeysMade
  <2>1. JobsSound' /\ AnswersFresh'
    <3>1. CASE job' = [job EXCEPT ![p][s] = Idle]
      BY <1>i, <3>1
    <3>2. CASE job' = [job EXCEPT ![p][s] = [j EXCEPT !.at = "clear"]]
      <4> DEFINE next == [j EXCEPT !.at = "clear"]
      <4>1. next \in Job
        BY JobMoves
      <4>2. /\ next.msg = j.msg /\ next.key = j.key /\ next.do = j.do
            /\ next.view = j.view /\ next.at = "clear"
        BY DEF Job
      <4> QED
        BY <1>m, <1>o, <2>0, <3>2, <4>1, <4>2
    <3> QED
      BY <1>0, <1>7, <3>1, <3>2 DEF SendInit, At, Become
  <2>2. MessagesHonest'
    <3>1. CASE UNCHANGED <<chat, clock>>
      BY <1>7, <1>g, <3>1, LeftAlone DEF SendInit
    <3>2. CASE Send(Message("init", p, j.key, None, clock'))
      <4>1. Honest(Message("init", p, j.key, None, clock))'
        BY <1>k, <2>0 DEF Honest, Message
      <4>2. chat' = chat \union {Message("init", p, j.key, None, clock')}
        BY <3>2 DEF Send
      <4>3. UNCHANGED request
        BY <1>7 DEF SendInit
      <4> QED
        BY <1>g, <4>1, <4>2, <4>3, HonestGoes
    <3> QED
      BY <1>0, <1>7, <3>1, <3>2 DEF SendInit
  <2>3. SettingsOwn'
    <3>1. CASE UNCHANGED writes
      BY <1>7, <1>g, <3>1, LeftAlone DEF SendInit
    <3>2. CASE writes' = [writes EXCEPT ![p] = @ \union {Rewrite(p)}]
      <4>1. Own(p, Rewrite(p).data) /\ Own(p, Rewrite(p).of)
        BY <1>o DEF Rewrite
      <4>2. /\ \A q \in Party \ {p} : writes'[q] = writes[q]
            /\ \A w \in writes'[p] : w \in writes[p] \/ w = Rewrite(p)
        BY <3>2 DEF TypeOK
      <4>3. UNCHANGED <<stored, page>>
        BY <1>7 DEF SendInit
      <4> QED
        BY <1>g, <4>1, <4>2, <4>3, OwnWrites
    <3> QED
      BY <1>7, <3>1, <3>2 DEF SendInit
  <2> QED
    BY <1>k1, <2>1, <2>2, <2>3
<1>8. CASE SendAccept(p, s)
  <2>0. /\ j.key \in Key /\ Owner(j.key) = p /\ {j.key, j.msg.key} \in held[p]
        /\ Got(p, j.msg) /\ j.msg.kind = "init"
    BY <1>0, <1>8 DEF SendAccept, In, Sound
  <2>1. j.msg.key \in offered[Other(p)]
    <3>1. j.msg \in Messages /\ Honest(j.msg) /\ j.msg.from # p
      BY <2>0 DEF Got, HandshakeInv, MessagesHonest, TypeOK
    <3> QED
      BY <2>0, <3>1, OtherParty DEF Honest, Messages
  <2>2. JobsSound' /\ AnswersFresh'
    BY <1>8, <1>i DEF SendAccept, Become
  <2>3. MessagesHonest'
    <3>1. CASE UNCHANGED chat
      BY <1>8, <1>g, <3>1, LeftAlone DEF SendAccept
    <3>2. CASE Send(Message("accept", p, j.key, j.msg.key, 0))
      <4>1. Honest(Message("accept", p, j.key, j.msg.key, 0))'
        BY <1>k, <2>0, <2>1 DEF Honest, Message, Other
      <4>2. chat' = chat \union {Message("accept", p, j.key, j.msg.key, 0)}
        BY <3>2 DEF Send
      <4>3. UNCHANGED request
        BY <1>8 DEF SendAccept
      <4> QED
        BY <1>g, <4>1, <4>2, <4>3, HonestGoes
    <3> QED
      BY <1>0, <1>8, <3>1, <3>2 DEF SendAccept
  <2> QED
    BY <1>8, <1>g, <1>k1, <2>2, <2>3, LeftAlone DEF SendAccept
<1>9. CASE SendDisable(p, s)
  <2> DEFINE next == [j EXCEPT !.at = "clear"]
  <2>1. next \in Job
    BY JobMoves
  <2>2. job' = [job EXCEPT ![p][s] = next] /\ j.do = "off"
    BY <1>0, <1>9 DEF SendDisable, At, Become, In
  <2>3. /\ next.msg = j.msg /\ next.key = j.key /\ next.do = j.do
        /\ next.view = j.view
    BY DEF Job
  <2>4. JobsSound' /\ AnswersFresh'
    BY <1>m, <1>o, <2>1, <2>2, <2>3
  <2>5. MessagesHonest'
    <3>1. CASE UNCHANGED chat
      BY <1>9, <1>g, <3>1, LeftAlone DEF SendDisable
    <3>2. CASE Send(Message("disable", p, None, None, j.stamp))
      <4>1. Honest(Message("disable", p, None, None, j.stamp))'
        BY DEF Honest, Message
      <4>2. chat' = chat \union {Message("disable", p, None, None, j.stamp)}
        BY <3>2 DEF Send
      <4>3. UNCHANGED request
        BY <1>9 DEF SendDisable
      <4> QED
        BY <1>g, <4>1, <4>2, <4>3, HonestGoes
    <3> QED
      BY <1>0, <1>9, <3>1, <3>2 DEF SendDisable
  <2> QED
    BY <1>9, <1>g, <1>k1, <2>4, <2>5, LeftAlone DEF SendDisable
<1>10. CASE ClearPage(p, s)
  <2>1. JobsSound' /\ AnswersFresh'
    BY <1>10, <1>i DEF ClearPage, Become
  <2>2. Own(p, Ended(page[p].copy))
    BY <1>o, SettingsMade DEF Own
  <2>3. SettingsOwn'
    BY <1>10, <1>g, <1>o, <2>2, OwnChange DEF ClearPage
  <2> QED
    BY <1>10, <1>g, <1>k1, <2>1, <2>3, LeftAlone DEF ClearPage
<1>11. CASE Handle(p, s)
  <2>0. j.do = "check" /\ Got(p, j.msg)
    BY <1>0, <1>11 DEF Handle, In, Sound
  <2>1. CASE Offers(p, j.msg, j.view) /\ request' = [request EXCEPT ![p] = j.msg]
             /\ Become(p, s, Idle) /\ UNCHANGED <<page, writes>>
    <3>1. MessagesHonest'
      BY <1>11, <1>g, <2>0, <2>1, RequestGoes DEF Handle, Offers
    <3>2. JobsSound' /\ AnswersFresh'
      BY <1>i, <2>1 DEF Become
    <3> QED
      BY <1>11, <1>g, <1>k1, <2>1, <3>1, <3>2, LeftAlone DEF Handle
  <2>2. CASE Change(p, Ended(page[p].copy), page[p].of, {"store", "handler"})
             /\ Become(p, s, Idle) /\ UNCHANGED request
    <3>1. Own(p, Ended(page[p].copy))
      BY <1>o, SettingsMade DEF Own
    <3>2. SettingsOwn'
      BY <1>11, <1>g, <1>o, <2>2, <3>1, OwnChange DEF Handle
    <3>3. JobsSound' /\ AnswersFresh'
      BY <1>i, <2>2 DEF Become
    <3> QED
      BY <1>11, <1>g, <1>k1, <2>2, <3>2, <3>3, LeftAlone DEF Handle
  <2>3. CASE Accepts(p, j.msg, j.view)
             /\ Become(p, s, [j EXCEPT !.do = "process", !.at = "load"])
             /\ UNCHANGED <<page, writes, request>>
    <3> DEFINE next == [j EXCEPT !.do = "process", !.at = "load"]
    <3>1. next \in Job
      BY JobMoves
    <3>2. job' = [job EXCEPT ![p][s] = next] /\ j.msg.kind = "accept"
      BY <2>3 DEF Become, Accepts
    <3>3. /\ next.msg = j.msg /\ next.key = j.key /\ next.do = "process"
          /\ next.at = "load" /\ next.view = j.view
      BY DEF Job
    <3>4. JobsSound' /\ AnswersFresh'
      BY <1>m, <1>o, <2>0, <3>1, <3>2, <3>3
    <3> QED
      BY <1>11, <1>g, <1>k1, <2>3, <3>4, LeftAlone DEF Handle
  <2>4. CASE Become(p, s, Idle) /\ UNCHANGED <<page, writes, request>>
    <3>1. JobsSound' /\ AnswersFresh'
      BY <1>i, <2>4 DEF Become
    <3> QED
      BY <1>11, <1>g, <1>k1, <2>4, <3>1, LeftAlone DEF Handle
  <2> QED
    BY <1>0, <1>11, <2>1, <2>2, <2>3, <2>4 DEF Handle
<1>12. CASE CallClears(p, s)
  <2>1. JobsSound' /\ AnswersFresh'
    BY <1>12, <1>i DEF CallClears, Become
  <2>2. Own(p, [stored[p] EXCEPT !.pending = {}])
    BY <1>o, SettingsMade DEF Own
  <2>3. SettingsOwn'
    <3>1. /\ \A q \in Party \ {p} : writes'[q] = writes[q]
          /\ \A w \in writes'[p] :
                \/ w \in writes[p]
                \/ w = [data |-> [stored[p] EXCEPT !.pending = {}],
                        of |-> stored[p], by |-> "handler"]
      BY <1>12 DEF CallClears, TypeOK
    <3>2. \A w \in writes'[p] :
                w \in writes[p] \/ (Own(p, w.data) /\ Own(p, w.of))
      BY <1>o, <2>2, <3>1
    <3>3. UNCHANGED <<stored, page>>
      BY <1>12 DEF CallClears
    <3> QED
      BY <1>g, <3>1, <3>2, <3>3, OwnWrites
  <2> QED
    BY <1>12, <1>g, <1>k1, <2>1, <2>3, LeftAlone DEF CallClears
<1> QED
  BY <1>1, <1>2, <1>3, <1>4, <1>5, <1>6, <1>7, <1>8, <1>9, <1>10, <1>11, <1>12
     DEF Step

\* No answer but that of s waits to use a key of the secret.
Untouched(p, s, secret) ==
    \A q \in Party, t \in Slot :
        /\ q # p \/ t # s
        /\ Agreeing(q, t) /\ job[q][t].at \in {"load", "save"}
        => job[q][t].key \notin secret

\* An activity of p makes a secret of keys that no other answer waits to use.
LEMMA FreshUses ==
    ASSUME HandshakeInv, NEW p \in Party, NEW s \in Slot, NEW next, NEW secret,
           job' = [job EXCEPT ![p][s] = next], UNCHANGED <<offered, made>>,
           \A q \in Party : \A old \in held'[q] : old \in held[q] \/ old = secret,
           next # Idle /\ next.do = "agree" =>
                /\ Agreeing(p, s) /\ next.key = job[p][s].key
                /\ next.at \notin {"load", "save"},
           Untouched(p, s, secret)
    PROVE  AnswersFresh'
<1> TypeOK
  BY DEF HandshakeInv
<1>0. /\ job'[p][s] = next
      /\ \A q \in Party, t \in Slot : q # p \/ t # s => job'[q][t] = job[q][t]
  <2>1. job \in [Party -> [Slot -> Job \union {Idle}]]
    BY DEF TypeOK
  <2>2. job'[p][s] = next
    BY <2>1
  <2>3. \A q \in Party, t \in Slot : q # p \/ t # s => job'[q][t] = job[q][t]
    BY <2>1
  <2> QED
    BY <2>2, <2>3
<1>1. ASSUME NEW q \in Party, NEW t \in Slot, Agreeing(q, t)'
      PROVE  /\ Agreeing(q, t) /\ job'[q][t].key = job[q][t].key
             /\ job'[q][t].at \in {"load", "save"} =>
                    /\ job[q][t].at \in {"load", "save"}
                    /\ q # p \/ t # s
  BY <1>0, <1>1 DEF Agreeing
<1>2. \A key : Used(key)' => Used(key) \/ key \in secret
  BY DEF Used
<1>3. ASSUME NEW q \in Party, NEW t \in Slot, Agreeing(q, t)'
      PROVE  /\ job'[q][t].key \notin offered'[q]
             /\ job'[q][t].at \in {"load", "save"} => ~Used(job[q][t].key)'
             /\ \A u \in Slot \ {t} : Agreeing(q, u)' =>
                    job'[q][u].key # job'[q][t].key
  <2>1. /\ job[q][t].key \notin offered[q]
        /\ job[q][t].at \in {"load", "save"} => ~Used(job[q][t].key)
        /\ \A u \in Slot \ {t} : Agreeing(q, u) => job[q][u].key # job[q][t].key
    BY <1>1, <1>3 DEF HandshakeInv, AnswersFresh
  <2>2. ASSUME job'[q][t].at \in {"load", "save"}, Used(job[q][t].key)'
        PROVE  FALSE
    <3>1. PICK key : key = job[q][t].key
      OBVIOUS
    <3>2. Used(key)'
      BY <1>1, <1>3, <2>2, <3>1 DEF Used
    <3>3. key \in secret
      BY <1>1, <1>2, <1>3, <2>1, <2>2, <3>1, <3>2
    <3> QED
      BY <1>1, <1>3, <2>2, <3>1, <3>3 DEF Untouched
  <2> QED
    BY <1>1, <1>3, <2>1, <2>2
<1>4. AnswersFresh'
  BY <1>3 DEF AnswersFresh
<1> QED
  BY <1>4

\* A secret is stored: of the key of an answer and the one it answers, or of an
\* offered key and the one that was answered with.
LEMMA SafeSave ==
    ASSUME HandshakeInv, NEW p \in Party, NEW s \in Slot,
           AgreeSave(p, s) \/ ProcessSave(p, s)
    PROVE  /\ SettingsOwn' /\ MessagesHonest' /\ JobsSound' /\ AnswersFresh'
           /\ KeysMade'
<1> TypeOK
  BY DEF HandshakeInv
<1>g. Grows
  BY NextGrows DEF Next, Step
<1>0. PICK j \in Job : j = job[p][s] /\ Sound(p, j)
  BY InJob DEF HandshakeInv, JobsSound, AgreeSave, ProcessSave, In
<1>s. Sound(p, j)'
  BY <1>0, <1>g, StillTrue
<1>v. Own(p, j.view) /\ j.view \in Settings /\ j.stamp \in Nat
  BY <1>0 DEF Sound, Own, Job
<1>n. MessagesHonest'
  BY <1>g, LeftAlone DEF AgreeSave, ProcessSave
<1>w. ASSUME NEW q \in Party, NEW t \in Slot, Agreeing(q, t)
      PROVE  /\ job[q][t].key \in Key /\ Owner(job[q][t].key) = q
             /\ job[q][t].key \notin offered[q]
             /\ job[q][t].at \in {"load", "save"} => ~Used(job[q][t].key)
  BY <1>w DEF HandshakeInv, JobsSound, Sound, AnswersFresh, Agreeing
<1>x. \A q \in Party : \A key \in offered[q] : Owner(key) = q /\ key \in Key
                            /\ key[2] <= made
  BY DEF HandshakeInv, KeysMade
<1>1. CASE AgreeSave(p, s)
  <2>0. PICK secret : secret = {j.key, j.msg.key}
    OBVIOUS
  <2>1. j.do = "agree" /\ j.at = "save" /\ Agreeing(p, s)
    BY <1>0, <1>1 DEF AgreeSave, In, Agreeing
  <2>2. /\ Got(p, j.msg) /\ j.msg.kind = "init"
        /\ j.key \in Key /\ Owner(j.key) = p /\ j.key[2] <= made
    BY <1>0, <2>1 DEF Sound
  <2>3. j.msg.key \in offered[Other(p)] /\ Other(p) \in Party /\ Other(p) # p
    <3>1. j.msg \in Messages /\ Honest(j.msg) /\ j.msg.from # p
      BY <2>2 DEF Got, HandshakeInv, MessagesHonest, TypeOK
    <3> QED
      BY <2>2, <3>1, OtherParty DEF Honest, Messages
  <2>4. j.msg.key \in Key /\ j.msg.key[2] <= made /\ Owner(j.msg.key) = Other(p)
    BY <1>x, <2>3
  <2>5. secret \in Secret
    BY <2>0, <2>2, <2>4 DEF Secret
  <2>6. /\ Store(p, Established(j.view, secret, j.stamp))
        /\ held' = [held EXCEPT ![p] = @ \union {secret}]
        /\ UNCHANGED <<page, writes, offered, made>>
    BY <1>0, <1>1, <2>0 DEF AgreeSave
  <2>7. SettingsOwn'
    <3>1. Own(p, Established(j.view, secret, j.stamp))
      BY <1>v, <2>5, SessionMade DEF Own
    <3> QED
      BY <1>g, <2>6, <3>1, OwnStore
  <2>8. PICK at \in {"get", "send"} :
            job' = [job EXCEPT ![p][s] = [j EXCEPT !.at = at]]
    BY <1>0, <1>1 DEF AgreeSave, At, Become
  <2> DEFINE next == [j EXCEPT !.at = at]
  <2>9. /\ next.msg = j.msg /\ next.key = j.key /\ next.do = j.do
        /\ next.view = j.view /\ next.at = at
    BY DEF Job
  <2>10. JobsSound'
    <3>1. secret \in held'[p]
      BY <2>6 DEF TypeOK
    <3>2. Sound(p, next)'
      BY <1>s, <2>0, <2>1, <2>9, <3>1 DEF Sound
    <3> QED
      BY <1>g, <2>8, <3>2, JobGoes
  <2>11. ASSUME NEW q \in Party, NEW t \in Slot, q # p \/ t # s, Agreeing(q, t),
                job[q][t].at \in {"load", "save"}
         PROVE  job[q][t].key \notin secret
    <3>1. CASE q # p
      BY <1>w, <2>0, <2>2, <2>3, <2>11, <3>1, OtherParty
    <3>2. CASE q = p
      <4>1. job[p][t].key # j.key
        BY <1>0, <2>1, <2>11, <3>2 DEF HandshakeInv, AnswersFresh
      <4> QED
        BY <1>w, <2>0, <2>3, <2>4, <2>11, <3>2, <4>1
    <3> QED
      BY <3>1, <3>2
  <2>12. \A key \in secret : key \in Key /\ key[2] <= made
    BY <2>0, <2>2, <2>4
  <2>13. /\ \A q \in Party : \A old \in held'[q] : old \in held[q] \/ old = secret
         /\ UNCHANGED <<offered, made>>
    BY <2>6 DEF TypeOK
  <2>14. KeysMade'
    BY <2>12, <2>13 DEF HandshakeInv, KeysMade
  <2>15. AnswersFresh'
    <3>1. /\ Agreeing(p, s) /\ next.key = job[p][s].key
          /\ next.at \notin {"load", "save"}
      BY <1>0, <2>1, <2>9
    <3>2. Untouched(p, s, secret)
      BY <2>11 DEF Untouched
    <3> QED
      BY <2>8, <2>13, <3>1, <3>2, FreshUses
  <2> QED
    BY <1>n, <2>7, <2>10, <2>15, <2>14
<1>2. CASE ProcessSave(p, s)
  <2>1. j.do = "process" /\ j.at = "save"
    BY <1>0, <1>2 DEF ProcessSave, In
  <2>2. Got(p, j.msg) /\ j.msg.kind = "accept" /\ j.view.pending # {}
    BY <1>0, <2>1 DEF Sound
  <2>3. PICK mine \in offered[p] : j.view.pending = {mine}
    BY <1>v, <2>2 DEF Settings, Own
  <2>4. /\ j.msg.key \in Key /\ Used(j.msg.key) /\ j.msg.key[2] <= made
    <3>1. /\ j.msg \in Messages /\ Honest(j.msg) /\ j.msg.from # p
          /\ j.msg.from \in Party
      BY <2>2 DEF Got, HandshakeInv, MessagesHonest, TypeOK, Messages
    <3>2. {j.msg.key, j.msg.to} \in held[j.msg.from] /\ j.msg.key \in Key
      BY <2>2, <3>1 DEF Honest
    <3> QED
      BY <3>1, <3>2 DEF HandshakeInv, KeysMade, Used
  <2>0. PICK secret : secret = j.view.pending \union {j.msg.key}
    OBVIOUS
  <2>5. secret = {mine, j.msg.key} /\ mine \in Key /\ Owner(mine) = p
        /\ mine[2] <= made
    BY <1>x, <2>0, <2>3
  <2>6. secret \in Secret
    BY <2>4, <2>5 DEF Secret
  <2>7. /\ Store(p, Established(j.view, secret, j.stamp))
        /\ held' = [held EXCEPT ![p] = @ \union {secret}]
        /\ UNCHANGED <<page, writes, offered, made>>
    BY <1>0, <1>2, <2>0 DEF ProcessSave
  <2>8. SettingsOwn'
    <3>1. Own(p, Established(j.view, secret, j.stamp))
      BY <1>v, <2>6, SessionMade DEF Own
    <3> QED
      BY <1>g, <2>7, <3>1, OwnStore
  <2>9. PICK next : /\ job' = [job EXCEPT ![p][s] = next]
                    /\ next = Idle \/ next = [j EXCEPT !.at = "get"]
    BY <1>0, <1>2 DEF ProcessSave, Become
  <2>10. next # Idle => /\ next.msg = j.msg /\ next.key = j.key
                        /\ next.do = j.do /\ next.view = j.view /\ next.at = "get"
    BY <2>9 DEF Job
  <2>11. JobsSound'
    <3>1. next # Idle => Sound(p, next)'
      BY <1>s, <2>1, <2>10 DEF Sound
    <3> QED
      BY <1>g, <2>9, <3>1, JobGoes
  <2>12. ASSUME NEW q \in Party, NEW t \in Slot, q # p \/ t # s, Agreeing(q, t),
                job[q][t].at \in {"load", "save"}
         PROVE  job[q][t].key \notin secret
    BY <1>w, <2>3, <2>4, <2>5, <2>12
  <2>13. \A key \in secret : key \in Key /\ key[2] <= made
    BY <2>4, <2>5
  <2>14. /\ \A q \in Party : \A old \in held'[q] : old \in held[q] \/ old = secret
         /\ UNCHANGED <<offered, made>>
    BY <2>7 DEF TypeOK
  <2>15. KeysMade'
    BY <2>13, <2>14 DEF HandshakeInv, KeysMade
  <2>16. AnswersFresh'
    <3>1. next # Idle => next.do # "agree"
      BY <2>1, <2>10
    <3>2. Untouched(p, s, secret)
      BY <2>12 DEF Untouched
    <3> QED
      BY <2>9, <2>14, <3>1, <3>2, FreshUses
  <2> QED
    BY <1>n, <2>8, <2>11, <2>16, <2>15
<1> QED
  BY <1>1, <1>2

\* dismissRequest writes back what is stored.
LEMMA DismissedOwns ==
    ASSUME HandshakeInv, Grows, NEW p \in Party, NEW m, Dismissed(p, m),
           UNCHANGED <<stored, page>>
    PROVE  SettingsOwn'
<1>1. writes \in [Party -> SUBSET Writes]
  BY DEF HandshakeInv, TypeOK, Writes
<1>2. /\ \A q \in Party \ {p} : writes'[q] = writes[q]
      /\ \A w \in writes'[p] : w \in writes[p] \/ w = Rewrite(p)
  BY <1>1 DEF Dismissed
<1>3. Own(p, Rewrite(p).data) /\ Own(p, Rewrite(p).of)
  BY DEF HandshakeInv, SettingsOwn, Rewrite
<1> QED
  BY <1>2, <1>3, OwnWrites

\* A new key pair
LEMMA NewKey ==
    ASSUME HandshakeInv, NEW p \in Party, made < MaxKeys, made' = made + 1
    PROVE  /\ <<p, made'>> \in Key /\ Owner(<<p, made'>>) = p
           /\ <<p, made'>>[2] <= made'
           /\ made \in Nat /\ made' \in Nat /\ made <= made'
           /\ \A key \in Key : key[2] <= made => key # <<p, made'>>
           /\ \A key \in Key : key[2] <= made => key[2] <= made'
<1>1. made \in 0..MaxKeys /\ MaxKeys \in Nat
  BY Assumptions DEF HandshakeInv, TypeOK, Assumptions
<1>2. made \in Nat /\ made' \in 1..MaxKeys /\ ~(made' <= made)
  BY <1>1
<1>3. /\ <<p, made'>> \in Key /\ Owner(<<p, made'>>) = p /\ <<p, made'>>[2] = made'
  BY <1>2 DEF Key, Owner
<1>4. \A key \in Key : key[2] <= made => key # <<p, made'>>
  BY <1>2, <1>3
<1>5. \A key \in Key : key[2] <= made => key[2] <= made'
  BY <1>2 DEF Key
<1> QED
  BY <1>2, <1>3, <1>4, <1>5

LEMMA SafeBeginInit ==
    ASSUME HandshakeInv, Grows, NEW p \in Party, NEW call, BeginInit(p, call)
    PROVE  /\ SettingsOwn' /\ MessagesHonest' /\ JobsSound' /\ AnswersFresh'
           /\ KeysMade'
<1> TypeOK
  BY DEF HandshakeInv
<1>1. PICK s \in Slot, key \in Key :
        /\ key = <<p, made'>> /\ job[p][s] = Idle
        /\ offered' = [offered EXCEPT ![p] = @ \union {key}]
        /\ job' = [job EXCEPT ![p][s] =
                    [do |-> "init", at |-> "load", call |-> call, msg |-> None,
                     key |-> key, view |-> Fresh, stamp |-> 0]]
  BY NewKey DEF BeginInit, Become
<1>2. /\ Owner(key) = p /\ key[2] <= made'
      /\ \A k \in Key : k[2] <= made => k # key /\ k[2] <= made'
  BY <1>1, NewKey DEF BeginInit
<1>3. /\ \A q \in Party \ {p} : offered'[q] = offered[q]
      /\ offered'[p] = offered[p] \union {key}
  BY <1>1 DEF TypeOK
<1>4. JobsSound'
  <2> DEFINE next == [do |-> "init", at |-> "load", call |-> call, msg |-> None,
                      key |-> key, view |-> Fresh, stamp |-> 0]
  <2>1. Sound(p, next)'
    BY <1>3, Beginnings DEF Sound, Own
  <2> QED
    BY <1>1, <2>1, JobGoes
<1>5. AnswersFresh'
  <2>1. ASSUME NEW q \in Party, NEW t \in Slot, Agreeing(q, t)'
        PROVE  Agreeing(q, t) /\ job'[q][t] = job[q][t]
    <3>0. job \in [Party -> [Slot -> Job \union {Idle}]]
      BY DEF TypeOK
    <3>1. job'[p][s].do = "init"
      BY <1>1, <3>0
    <3>2. q # p \/ t # s
      BY <2>1, <3>1 DEF Agreeing
    <3>3. job'[q][t] = job[q][t]
      BY <1>1, <3>2, OneJob
    <3> QED
      BY <2>1, <3>3 DEF Agreeing
  <2>2. ASSUME NEW q \in Party, NEW t \in Slot, Agreeing(q, t)
        PROVE  /\ job[q][t].key \notin offered'[q]
               /\ job[q][t].at \in {"load", "save"} => ~Used(job[q][t].key)
               /\ \A u \in Slot \ {t} : Agreeing(q, u) =>
                    job[q][u].key # job[q][t].key
    <3>1. job[q][t].key \in Key /\ job[q][t].key[2] <= made
      BY <2>2 DEF Agreeing, HandshakeInv, JobsSound, Sound
    <3>2. job[q][t].key # key
      BY <1>2, <3>1
    <3> QED
      BY <1>3, <2>2, <3>2 DEF HandshakeInv, AnswersFresh
  <2>3. UNCHANGED held
    BY DEF BeginInit
  <2>4. ASSUME NEW q \in Party, NEW t \in Slot, Agreeing(q, t)'
        PROVE  job'[q][t].at \in {"load", "save"} => ~Used(job[q][t].key)'
    BY <2>1, <2>2, <2>3, <2>4 DEF Used
  <2> QED
    BY <2>1, <2>2, <2>4 DEF AnswersFresh
<1>6. KeysMade'
  <2>1. ASSUME NEW q \in Party, NEW k \in offered'[q]
        PROVE  k \in Key /\ Owner(k) = q /\ k[2] <= made'
    <3>1. k \in offered[q] \/ (q = p /\ k = key)
      BY <1>3
    <3> QED
      BY <1>2, <3>1 DEF HandshakeInv, KeysMade
  <2>2. ASSUME NEW q \in Party, NEW secret \in held[q], NEW k \in secret
        PROVE  k \in Key /\ k[2] <= made'
    BY <1>2 DEF HandshakeInv, KeysMade
  <2> QED
    BY <2>1, <2>2 DEF KeysMade, BeginInit
<1> QED
  BY <1>4, <1>5, <1>6, LeftAlone DEF BeginInit

LEMMA SafeBeginAgree ==
    ASSUME HandshakeInv, Grows, NEW p \in Party, NEW call, BeginAgree(p, call)
    PROVE  JobsSound' /\ AnswersFresh' /\ KeysMade'
<1> TypeOK
  BY DEF HandshakeInv
<1>1. PICK s \in Slot, key \in Key, m \in chat :
        /\ key = <<p, made'>> /\ job[p][s] = Idle /\ Got(p, m) /\ m.kind = "init"
        /\ job' = [job EXCEPT ![p][s] =
                    [do |-> "agree", at |-> "load", call |-> call, msg |-> m,
                     key |-> key, view |-> Fresh, stamp |-> 0]]
  <2>1. PICK m \in chat : m = request[p] /\ Got(p, m) /\ m.kind = "init"
    BY DEF BeginAgree, HandshakeInv, MessagesHonest, Got
  <2>2. PICK key \in Key : key = <<p, made'>>
    BY NewKey DEF BeginAgree
  <2>3. PICK s \in Slot :
            /\ job[p][s] = Idle
            /\ job' = [job EXCEPT ![p][s] =
                        [do |-> "agree", at |-> "load", call |-> call, msg |-> m,
                         key |-> key, view |-> Fresh, stamp |-> 0]]
    BY <2>1, <2>2 DEF BeginAgree, Become
  <2> QED
    BY <2>1, <2>2, <2>3
<1>2. /\ Owner(key) = p /\ key[2] <= made'
      /\ \A k \in Key : k[2] <= made => k # key /\ k[2] <= made'
      /\ UNCHANGED <<offered, held>>
  BY <1>1, NewKey DEF BeginAgree
<1>3. PICK next : next = [do |-> "agree", at |-> "load", call |-> call,
                          msg |-> m, key |-> key, view |-> Fresh, stamp |-> 0]
  OBVIOUS
<1>4. job' = [job EXCEPT ![p][s] = next]
  BY <1>1, <1>3
<1>5. JobsSound'
  <2>1. Got(p, m)'
    BY <1>1 DEF Got, Grows
  <2>2. Own(p, Fresh)'
    BY Beginnings DEF Own
  <2>3. Sound(p, next)'
    BY <1>1, <1>2, <1>3, <2>1, <2>2 DEF Sound
  <2> QED
    BY <1>4, <2>3, JobGoes
<1>6. \A q \in Party, t \in Slot : q # p \/ t # s => job'[q][t] = job[q][t]
  BY <1>4, OneJob
<1>7. job'[p][s] = next
  <2>1. job \in [Party -> [Slot -> Job \union {Idle}]]
    BY DEF TypeOK
  <2> QED
    BY <1>4, <2>1
<1>8. /\ key \notin offered[p] /\ ~Used(key)
      /\ \A t \in Slot : Agreeing(p, t) => job[p][t].key # key
  <2>1. \A t \in Slot : Agreeing(p, t) =>
            job[p][t].key \in Key /\ job[p][t].key[2] <= made
    BY DEF Agreeing, HandshakeInv, JobsSound, Sound
  <2> QED
    BY <1>2, <2>1 DEF HandshakeInv, KeysMade, Used
<1>9. ASSUME NEW q \in Party, NEW t \in Slot, Agreeing(q, t)'
      PROVE  /\ job'[q][t].key \notin offered'[q]
             /\ job'[q][t].at \in {"load", "save"} => ~Used(job[q][t].key)'
             /\ \A u \in Slot \ {t} : Agreeing(q, u)' =>
                    job'[q][u].key # job'[q][t].key
  <2>1. CASE q = p /\ t = s
    <3>1. job'[q][t].key = key
      BY <1>3, <1>7, <2>1
    <3>2. ~Used(job[q][t].key)'
      BY <1>2, <1>8, <3>1 DEF Used
    <3>3. \A u \in Slot \ {t} : Agreeing(q, u)' => job'[q][u].key # key
      BY <1>6, <1>8, <2>1 DEF Agreeing
    <3> QED
      BY <1>2, <1>8, <2>1, <3>1, <3>2, <3>3
  <2>2. CASE q # p \/ t # s
    <3>1. job'[q][t] = job[q][t] /\ Agreeing(q, t)
      BY <1>6, <1>9, <2>2 DEF Agreeing
    <3>2. /\ job[q][t].key \notin offered[q]
          /\ job[q][t].at \in {"load", "save"} => ~Used(job[q][t].key)
          /\ \A u \in Slot \ {t} : Agreeing(q, u) => job[q][u].key # job[q][t].key
      BY <3>1 DEF HandshakeInv, AnswersFresh
    <3>3. job'[q][t].at \in {"load", "save"} => ~Used(job[q][t].key)'
      BY <1>2, <3>1, <3>2 DEF Used
    <3>4. ASSUME NEW u \in Slot \ {t}, Agreeing(q, u)'
          PROVE  job'[q][u].key # job'[q][t].key
      <4>1. CASE q = p /\ u = s
        BY <1>3, <1>7, <1>8, <3>1, <4>1
      <4>2. CASE q # p \/ u # s
        BY <1>6, <3>1, <3>2, <3>4, <4>2 DEF Agreeing
      <4> QED
        BY <4>1, <4>2
    <3> QED
      BY <1>2, <3>1, <3>2, <3>3, <3>4
  <2> QED
    BY <2>1, <2>2
<1>10. AnswersFresh'
  BY <1>9 DEF AnswersFresh
<1>11. KeysMade'
  BY <1>2 DEF HandshakeInv, KeysMade
<1> QED
  BY <1>5, <1>10, <1>11

\* The steps of the user, of writes that arrive and of messages that are heard
LEMMA SafeOther ==
    ASSUME HandshakeInv, NEW p \in Party,
           User(p) \/ Write(p) \/ Check(p) \/ CallHears(p)
    PROVE  /\ SettingsOwn' /\ MessagesHonest' /\ JobsSound' /\ AnswersFresh'
           /\ KeysMade'
<1> TypeOK
  BY DEF HandshakeInv
<1>g. Grows
  BY NextGrows DEF Next
<1>o. /\ Own(p, stored[p]) /\ Own(p, page[p].copy) /\ Own(p, page[p].of)
      /\ \A w \in writes[p] : Own(p, w.data) /\ Own(p, w.of)
  BY DEF HandshakeInv, SettingsOwn
\* An activity that is no answer begins.
<1>b. ASSUME NEW s \in Slot, NEW next, next.do # "agree", Sound(p, next)',
             job' = [job EXCEPT ![p][s] = next], UNCHANGED <<offered, held>>
      PROVE  JobsSound' /\ AnswersFresh'
  BY <1>b, <1>g, JobGoes, FreshGoes
<1>1. ASSUME NEW call, BeginInit(p, call)
      PROVE  /\ SettingsOwn' /\ MessagesHonest' /\ JobsSound' /\ AnswersFresh'
             /\ KeysMade'
  BY <1>1, <1>g, SafeBeginInit
<1>2. CASE SwitchOff(p)
  <2>1. PICK s, next :
            /\ s \in Slot
            /\ job' = [job EXCEPT ![p][s] = next]
            /\ next = [do |-> "off", at |-> "send", call |-> FALSE, msg |-> None,
                       key |-> None, view |-> Fresh, stamp |-> clock']
    BY <1>2 DEF SwitchOff, Become
  <2>2. Own(p, Fresh)'
    BY Beginnings DEF Own
  <2>3. Sound(p, next)' /\ next.do # "agree"
    BY <2>1, <2>2 DEF Sound
  <2>4. JobsSound' /\ AnswersFresh'
    BY <1>2, <1>b, <2>1, <2>3 DEF SwitchOff
  <2> QED
    BY <1>2, <1>g, <2>4, LeftAlone DEF SwitchOff
<1>3. CASE Agree(p)
  <2>1. BeginAgree(p, FALSE)
    BY <1>3 DEF Agree
  <2>2. JobsSound' /\ AnswersFresh' /\ KeysMade'
    BY <1>g, <2>1, SafeBeginAgree
  <2> QED
    BY <1>3, <1>g, <2>2, LeftAlone DEF Agree, BeginAgree
<1>4. CASE CallAgrees(p)
  <2>1. BeginAgree(p, TRUE)
    BY <1>4 DEF CallAgrees
  <2>2. JobsSound' /\ AnswersFresh' /\ KeysMade'
    BY <1>g, <2>1, SafeBeginAgree
  <2>3. SettingsOwn'
    BY <1>4, <1>g, DismissedOwns DEF CallAgrees, BeginAgree
  <2>4. MessagesHonest'
    BY <1>4, <1>g, RequestGoes DEF CallAgrees, BeginAgree
  <2> QED
    BY <2>2, <2>3, <2>4
<1>5. CASE Deny(p)
  <2>1. SettingsOwn'
    BY <1>5, <1>g, <1>o, OwnChange DEF Deny
  <2>2. MessagesHonest'
    BY <1>5, <1>g, RequestGoes DEF Deny
  <2> QED
    BY <1>5, <1>g, <2>1, <2>2, LeftAlone DEF Deny
<1>6. CASE Dismiss(p)
  <2>1. SettingsOwn'
    BY <1>6, <1>g, DismissedOwns DEF Dismiss
  <2>2. MessagesHonest'
    BY <1>6, <1>g, RequestGoes DEF Dismiss
  <2> QED
    BY <1>6, <1>g, <2>1, <2>2, LeftAlone DEF Dismiss
<1>7. CASE Restart(p)
  <2>1. /\ page'[p].copy = stored[p] /\ page'[p].of = stored[p] /\ writes'[p] = {}
        /\ \A q \in Party \ {p} : page'[q] = page[q] /\ writes'[q] = writes[q]
        /\ UNCHANGED stored
    BY <1>7 DEF Restart, TypeOK
  <2>2. SettingsOwn'
    <3>1. /\ Own(p, stored'[p]) /\ Own(p, page'[p].copy) /\ Own(p, page'[p].of)
          /\ \A w \in writes'[p] : Own(p, w.data) /\ Own(p, w.of)
      BY <1>o, <2>1
    <3> QED
      BY <1>g, <2>1, <3>1, OwnGoes
  <2>3. MessagesHonest'
    BY <1>7, <1>g, RequestGoes DEF Restart
  <2>4. /\ \A t \in Slot : job'[p][t] = Idle
        /\ \A q \in Party : q # p => job'[q] = job[q]
        /\ UNCHANGED <<offered, held>>
    BY <1>7 DEF Restart, TypeOK
  <2>5. JobsSound'
    <3>1. ASSUME NEW q \in Party, NEW t \in Slot, job'[q][t] # Idle
          PROVE  Sound(q, job[q][t])'
      <4>1. job'[q][t] = job[q][t]
        BY <2>4, <3>1
      <4>2. PICK j \in Job : j = job[q][t]
        BY <3>1, <4>1, InJob
      <4>3. Sound(q, j)'
        BY <1>g, <3>1, <4>1, <4>2, StillTrue DEF HandshakeInv, JobsSound
      <4> QED
        BY <4>1, <4>2, <4>3 DEF Sound, Own, Got
    <3> QED
      BY <3>1 DEF JobsSound
  <2>6. AnswersFresh'
    <3>1. ASSUME NEW q \in Party, NEW t \in Slot, Agreeing(q, t)'
          PROVE  q # p /\ Agreeing(q, t) /\ job'[q] = job[q]
      BY <2>4, <3>1 DEF Agreeing
    <3>2. ASSUME NEW q \in Party, NEW t \in Slot, Agreeing(q, t)'
          PROVE  /\ job'[q][t].key \notin offered'[q]
                 /\ \A u \in Slot \ {t} : Agreeing(q, u)' =>
                        job'[q][u].key # job'[q][t].key
      BY <2>4, <3>1, <3>2 DEF HandshakeInv, AnswersFresh
    <3>3. ASSUME NEW q \in Party, NEW t \in Slot, Agreeing(q, t)',
                 job'[q][t].at \in {"load", "save"}
          PROVE  ~Used(job[q][t].key)'
      BY <2>4, <3>1, <3>3 DEF HandshakeInv, AnswersFresh, Used
    <3> QED
      BY <3>2, <3>3 DEF AnswersFresh
  <2> QED
    BY <1>7, <1>g, <2>2, <2>3, <2>5, <2>6, LeftAlone DEF Restart
<1>8. CASE Write(p)
  <2>1. PICK w \in writes[p] :
            /\ Store(p, w.data)
            /\ writes' = [writes EXCEPT ![p] = @ \ {w}]
    BY <1>8 DEF Write
  <2>2. /\ stored'[p] = w.data
        /\ \A q \in Party \ {p} : stored'[q] = stored[q] /\ writes'[q] = writes[q]
        /\ writes'[p] \subseteq writes[p]
        /\ UNCHANGED page
    BY <1>8, <2>1 DEF Write, Store, TypeOK
  <2>3. SettingsOwn'
    <3>1. /\ Own(p, stored'[p]) /\ Own(p, page'[p].copy) /\ Own(p, page'[p].of)
          /\ \A v \in writes'[p] : Own(p, v.data) /\ Own(p, v.of)
      BY <1>o, <2>2
    <3> QED
      BY <1>g, <2>2, <3>1, OwnGoes
  <2> QED
    BY <1>8, <1>g, <2>3, LeftAlone DEF Write
<1>9. CASE Check(p)
  <2>1. PICK m, s, next :
            /\ m \in chat
            /\ s \in Slot
            /\ m.from # p
            /\ job' = [job EXCEPT ![p][s] = next]
            /\ next = [do |-> "check", at |-> "handle", call |-> FALSE,
                       msg |-> m, key |-> None, view |-> page[p].copy, stamp |-> 0]
    BY <1>9 DEF Check, Begin
  <2>2. Own(p, page[p].copy) /\ UNCHANGED <<page, chat, offered, held>>
    BY <1>9, <1>o DEF Check
  <2>3. Sound(p, next)' /\ next.do # "agree"
    BY <2>1, <2>2 DEF Sound, Own, Got
  <2>4. JobsSound' /\ AnswersFresh'
    BY <1>b, <2>1, <2>2, <2>3
  <2> QED
    BY <1>9, <1>g, <2>4, LeftAlone DEF Check
<1>10. CASE CallHears(p)
  <2>1. PICK m \in chat :
            /\ m.from # p /\ Dismissed(p, m)
            /\ \/ /\ m.kind = "init"
                  /\ request' = [request EXCEPT ![p] = m] /\ UNCHANGED job
               \/ /\ m.kind = "accept"
                  /\ Begin(p, "process", "load", TRUE, m, Fresh)
                  /\ UNCHANGED request
    BY <1>10 DEF CallHears
  <2>2. UNCHANGED <<chat, made, stored, page, offered, held>>
    BY <1>10 DEF CallHears
  <2>3. SettingsOwn'
    BY <1>g, <2>1, <2>2, DismissedOwns
  <2>4. CASE /\ m.kind = "init"
             /\ request' = [request EXCEPT ![p] = m] /\ UNCHANGED job
    <3>1. MessagesHonest'
      BY <1>g, <2>1, <2>2, <2>4, RequestGoes DEF Got
    <3> QED
      BY <1>g, <2>2, <2>3, <2>4, <3>1, LeftAlone
  <2>5. CASE /\ m.kind = "accept"
             /\ Begin(p, "process", "load", TRUE, m, Fresh)
             /\ UNCHANGED request
    <3>1. PICK s, next :
            /\ s \in Slot
            /\ job' = [job EXCEPT ![p][s] = next]
            /\ next = [do |-> "process", at |-> "load", call |-> TRUE,
                       msg |-> m, key |-> None, view |-> Fresh, stamp |-> 0]
      BY <2>5 DEF Begin
    <3>2. Own(p, Fresh)'
      BY Beginnings DEF Own
    <3>3. Sound(p, next)' /\ next.do # "agree"
      BY <2>1, <2>2, <2>5, <3>1, <3>2 DEF Sound, Got
    <3>4. JobsSound' /\ AnswersFresh'
      BY <1>b, <2>2, <3>1, <3>3
    <3> QED
      BY <1>g, <2>2, <2>3, <2>5, <3>4, LeftAlone
  <2> QED
    BY <2>1, <2>4, <2>5
<1> QED
  BY <1>1, <1>2, <1>3, <1>4, <1>5, <1>6, <1>7, <1>8, <1>9, <1>10
     DEF User, SwitchOn, CallOffers

LEMMA SafeNext == HandshakeInv /\ [Next]_vars => HandshakeInv'
<1> SUFFICES ASSUME HandshakeInv, [Next]_vars PROVE HandshakeInv'
  OBVIOUS
<1>1. TypeOK'
  BY TypesNext
<1>2. SettingsOwn' /\ MessagesHonest' /\ JobsSound' /\ AnswersFresh' /\ KeysMade'
  <2>1. CASE UNCHANGED vars
    BY <2>1, NextGrows, LeftAlone DEF vars
  <2>2. ASSUME NEW p \in Party, NEW s \in Slot, Step(p, s)
        PROVE  SettingsOwn' /\ MessagesHonest' /\ JobsSound' /\ AnswersFresh'
               /\ KeysMade'
    BY <2>2, SafeStep, SafeSave
  <2>3. ASSUME NEW p \in Party, User(p) \/ Write(p) \/ Check(p) \/ CallHears(p)
        PROVE  SettingsOwn' /\ MessagesHonest' /\ JobsSound' /\ AnswersFresh'
               /\ KeysMade'
    BY <2>3, SafeOther
  <2> QED
    BY <2>1, <2>2, <2>3 DEF Next
<1> QED
  BY <1>1, <1>2 DEF HandshakeInv

\* Settings, messages and activities work with keys that their owners made for
\* them, and the key of an answer serves once, whatever is lost, repeated,
\* overwritten or forgotten by a restart.
THEOREM HandshakeInvariant == Spec => []HandshakeInv
<1>1. Init => HandshakeInv
  <2> SUFFICES ASSUME Init PROVE HandshakeInv
    OBVIOUS
  <2>1. TypeOK
    BY TypesInit
  <2>2. SettingsOwn
    BY Beginnings DEF Init, SettingsOwn, Own
  <2>3. MessagesHonest /\ KeysMade
    BY DEF Init, MessagesHonest, KeysMade
  <2>4. JobsSound /\ AnswersFresh
    BY DEF Init, JobsSound, AnswersFresh, Agreeing
  <2> QED
    BY <2>1, <2>2, <2>3, <2>4 DEF HandshakeInv
<1> QED
  BY <1>1, SafeNext, PTL DEF Spec

-----------------------------------------------------------------------------
(* The handshake implements the key agreement. *)

\* Activity s of p stores a session with the secret.
Stores(p, s, secret) ==
    \E j \in Job :
        LET new == Established(j.view, secret, j.stamp) IN
        /\ j = job[p][s]
        /\ Store(p, new)
        /\ secret \in Secret /\ Own(p, j.view)
        /\ Stale(p, new, j.view) \subseteq upset'

\* What the steps that store a secret know
LEMMA AgreeSaves ==
    ASSUME HandshakeInv, NEW p \in Party, NEW s \in Slot, AgreeSave(p, s)
    PROVE  \E mine, theirs \in Key :
            /\ Owner(mine) = p /\ mine \notin offered[p] /\ ~Used(mine)
            /\ theirs \in offered[Other(p)] /\ Owner(theirs) = Other(p)
            /\ held' = [held EXCEPT ![p] = @ \union {{mine, theirs}}]
            /\ UNCHANGED <<offered, chat>>
            /\ Stores(p, s, {mine, theirs})
<1> TypeOK
  BY DEF HandshakeInv
<1>1. PICK j \in Job : j = job[p][s] /\ Sound(p, j)
  BY InJob DEF HandshakeInv, JobsSound, AgreeSave, In
<1>2. /\ j.do = "agree" /\ j.at = "save" /\ Agreeing(p, s)
  BY <1>1 DEF AgreeSave, In, Agreeing
<1>3. /\ j.key \in Key /\ Owner(j.key) = p /\ j.key \notin offered[p]
      /\ ~Used(j.key)
  BY <1>1, <1>2 DEF Sound, HandshakeInv, AnswersFresh
<1>4. j.msg.key \in offered[Other(p)] /\ Other(p) \in Party
  <2>1. Got(p, j.msg) /\ j.msg.kind = "init"
    BY <1>1, <1>2 DEF Sound
  <2>2. j.msg \in Messages /\ Honest(j.msg) /\ j.msg.from # p
    BY <2>1 DEF Got, HandshakeInv, MessagesHonest, TypeOK
  <2> QED
    BY <2>1, <2>2, OtherParty DEF Honest, Messages
<1>5. j.msg.key \in Key /\ Owner(j.msg.key) = Other(p)
  BY <1>4 DEF HandshakeInv, KeysMade
<1>6. PICK mine \in Key, theirs \in Key : mine = j.key /\ theirs = j.msg.key
  BY <1>3, <1>5
<1>7. {mine, theirs} \in Secret /\ Own(p, j.view)
  BY <1>1 DEF Secret, Sound
<1>8. /\ held' = [held EXCEPT ![p] = @ \union {{mine, theirs}}]
      /\ UNCHANGED <<offered, chat>>
      /\ Store(p, Established(j.view, {mine, theirs}, j.stamp))
  BY <1>1, <1>6 DEF AgreeSave
<1>9. Stale(p, Established(j.view, {mine, theirs}, j.stamp), j.view) \subseteq upset'
  BY <1>1, <1>6 DEF AgreeSave
<1>10. Stores(p, s, {mine, theirs})
  BY <1>1, <1>7, <1>8, <1>9 DEF Stores
<1> QED
  BY <1>3, <1>4, <1>5, <1>6, <1>8, <1>10

LEMMA ProcessSaves ==
    ASSUME HandshakeInv, NEW p \in Party, NEW s \in Slot, ProcessSave(p, s)
    PROVE  \E mine, theirs \in Key :
            /\ mine \in offered[p] /\ Owner(mine) = p
            /\ Owner(theirs) = Other(p)
            /\ \E m \in chat : m.kind = "accept" /\ m.key = theirs
            /\ \E to \in offered[p] : {theirs, to} \in held[Other(p)]
            /\ held' = [held EXCEPT ![p] = @ \union {{mine, theirs}}]
            /\ UNCHANGED <<offered, chat>>
            /\ Stores(p, s, {mine, theirs})
<1> TypeOK
  BY DEF HandshakeInv
<1>1. PICK j \in Job : j = job[p][s] /\ Sound(p, j)
  BY InJob DEF HandshakeInv, JobsSound, ProcessSave, In
<1>2. j.do = "process" /\ j.at = "save"
  BY <1>1 DEF ProcessSave, In
<1>3. /\ Got(p, j.msg) /\ j.msg.kind = "accept" /\ j.view.pending # {}
      /\ Own(p, j.view)
  BY <1>1, <1>2 DEF Sound
<1>4. PICK mine \in Key : /\ mine \in offered[p] /\ Owner(mine) = p
                          /\ j.view.pending = {mine}
  <2>1. PICK mine \in Key : j.view.pending = {mine}
    BY <1>3 DEF Settings, Own
  <2> QED
    BY <1>3, <2>1 DEF Own, HandshakeInv, KeysMade
<1>5. /\ j.msg \in chat /\ j.msg \in Messages /\ Honest(j.msg)
      /\ j.msg.from \in Party /\ j.msg.from = Other(p) /\ Other(j.msg.from) = p
  BY <1>3, OtherParty DEF Got, HandshakeInv, MessagesHonest, TypeOK, Messages
<1>6. PICK theirs \in Key, to \in offered[p] :
        /\ theirs = j.msg.key /\ Owner(theirs) = Other(p)
        /\ {theirs, to} \in held[Other(p)]
  BY <1>3, <1>5 DEF Honest
<1>7. {mine, theirs} \in Secret
  BY DEF Secret
<1>8. j.view.pending \union {j.msg.key} = {mine, theirs}
  BY <1>4, <1>6
<1>9. /\ held' = [held EXCEPT ![p] = @ \union {{mine, theirs}}]
      /\ UNCHANGED <<offered, chat>>
      /\ Store(p, Established(j.view, {mine, theirs}, j.stamp))
  BY <1>1, <1>8 DEF ProcessSave
<1>10. Stale(p, Established(j.view, {mine, theirs}, j.stamp), j.view) \subseteq upset'
  BY <1>1, <1>8 DEF ProcessSave
<1>11. \E m \in chat : m.kind = "accept" /\ m.key = theirs
  BY <1>3, <1>5, <1>6
<1>12. Stores(p, s, {mine, theirs})
  BY <1>1, <1>3, <1>7, <1>9, <1>10 DEF Stores
<1> QED
  BY <1>4, <1>6, <1>9, <1>11, <1>12

\* Apart from new offers and secrets stored, no step changes what parties
\* offered or have.
LEMMA KeysAlone ==
    ASSUME HandshakeInv, [Next]_vars,
           \A p \in Party : ~\E call \in BOOLEAN : BeginInit(p, call),
           \A p \in Party, s \in Slot : ~AgreeSave(p, s) /\ ~ProcessSave(p, s)
    PROVE  UNCHANGED <<offered, held>>
<1>1. ASSUME NEW p \in Party, NEW s \in Slot, Step(p, s)
      PROVE  UNCHANGED <<offered, held>>
  BY <1>1 DEF Step, InitLoad, InitSave, AgreeLoad, ProcessLoad, Get, Set, SendInit,
     SendAccept, SendDisable, ClearPage, Handle, CallClears
<1>2. ASSUME NEW p \in Party, User(p) PROVE UNCHANGED <<offered, held>>
  BY <1>2 DEF User, SwitchOn, SwitchOff, Agree, Deny, Dismiss, Restart, CallOffers,
     CallAgrees, BeginAgree
<1>3. ASSUME NEW p \in Party, Write(p) \/ Check(p) \/ CallHears(p)
      PROVE  UNCHANGED <<offered, held>>
  BY <1>3 DEF Write, Check, CallHears
<1>4. CASE UNCHANGED vars
  BY <1>4 DEF vars
<1> QED
  BY <1>1, <1>2, <1>3, <1>4 DEF Next

\* A key that is new was not part of anything.
LEMMA NewIsUnused ==
    ASSUME HandshakeInv, NEW p \in Party, NEW call, BeginInit(p, call)
    PROVE  \E key \in Key :
            /\ key = <<p, made'>> /\ Owner(key) = p /\ ~Used(key)
            /\ \A m \in chat : m.kind = "accept" => m.key # key
            /\ offered' = [offered EXCEPT ![p] = @ \union {key}]
            /\ UNCHANGED <<held, chat>>
<1> TypeOK
  BY DEF HandshakeInv
<1>1. PICK key \in Key : key = <<p, made'>>
  BY NewKey DEF BeginInit
<1>2. Owner(key) = p /\ \A k \in Key : k[2] <= made => k # key
  BY <1>1, NewKey DEF BeginInit
<1>3. ~Used(key)
  BY <1>2 DEF Used, HandshakeInv, KeysMade
<1>4. ASSUME NEW m \in chat, m.kind = "accept" PROVE m.key # key
  <2>1. Honest(m) /\ m.from \in Party
    BY DEF HandshakeInv, MessagesHonest, TypeOK, Messages
  <2>2. {m.key, m.to} \in held[m.from]
    BY <1>4, <2>1 DEF Honest
  <2> QED
    BY <1>3, <2>1, <2>2 DEF Used
<1> QED
  BY <1>1, <1>2, <1>3, <1>4 DEF BeginInit

\* The chat grows by an answer only when one is sent.
Answers == {m.key : m \in {n \in chat : n.kind = "accept"}}

LEMMA AnswersSent ==
    ASSUME HandshakeInv, [Next]_vars
    PROVE  \/ Answers' = Answers
           \/ \E p \in Party, key \in Key :
                /\ Owner(key) = p /\ key \notin offered[p]
                /\ \E secret \in held[p] : key \in secret
                /\ Answers' = Answers \union {key}
                /\ UNCHANGED <<offered, held>>
<1>1. CASE UNCHANGED chat
  BY <1>1 DEF Answers
<1>2. ASSUME NEW m, m.kind # "accept", chat' = chat \union {m}
      PROVE  Answers' = Answers
  BY <1>2 DEF Answers
<1>3. ASSUME NEW p \in Party, NEW s \in Slot, SendInit(p, s) PROVE Answers' = Answers
  <2>1. CASE UNCHANGED chat
    BY <1>1, <2>1 DEF Answers
  <2>2. CASE Send(Message("init", p, job[p][s].key, None, clock'))
    <3>1. PICK m : m = Message("init", p, job[p][s].key, None, clock')
      OBVIOUS
    <3>2. m.kind # "accept" /\ chat' = chat \union {m}
      BY <2>2, <3>1 DEF Send, Message
    <3> QED
      BY <1>2, <3>2
  <2> QED
    BY <1>3, <2>1, <2>2 DEF SendInit
<1>4. ASSUME NEW p \in Party, NEW s \in Slot, SendDisable(p, s)
      PROVE  Answers' = Answers
  <2>1. CASE UNCHANGED chat
    BY <1>1, <2>1 DEF Answers
  <2>2. CASE Send(Message("disable", p, None, None, job[p][s].stamp))
    <3>1. PICK m : m = Message("disable", p, None, None, job[p][s].stamp)
      OBVIOUS
    <3>2. m.kind # "accept" /\ chat' = chat \union {m}
      BY <2>2, <3>1 DEF Send, Message
    <3> QED
      BY <1>2, <3>2
  <2> QED
    BY <1>4, <2>1, <2>2 DEF SendDisable
<1>5. ASSUME NEW p \in Party, NEW s \in Slot, SendAccept(p, s), ~UNCHANGED chat
      PROVE  \E key \in Key :
                /\ Owner(key) = p /\ key \notin offered[p]
                /\ \E secret \in held[p] : key \in secret
                /\ Answers' = Answers \union {key}
                /\ UNCHANGED <<offered, held>>
  <2>1. PICK j \in Job : j = job[p][s] /\ Sound(p, j)
    BY <1>5, InJob DEF HandshakeInv, JobsSound, SendAccept, In
  <2>2. j.do = "agree" /\ j.at = "send" /\ Agreeing(p, s)
    BY <1>5, <2>1 DEF SendAccept, In, Agreeing
  <2>3. /\ j.key \in Key /\ Owner(j.key) = p /\ {j.key, j.msg.key} \in held[p]
        /\ j.key \notin offered[p]
    BY <2>1, <2>2 DEF Sound, HandshakeInv, AnswersFresh
  <2>4. PICK m : m = Message("accept", p, j.key, j.msg.key, 0)
    OBVIOUS
  <2>5. chat' = chat \union {m} /\ UNCHANGED <<offered, held>>
    BY <1>5, <2>1, <2>4 DEF SendAccept, Send
  <2>6. m.kind = "accept" /\ m.key = j.key
    BY <2>4 DEF Message
  <2>7. Answers' = Answers \union {j.key}
    BY <2>5, <2>6 DEF Answers
  <2> QED
    BY <2>3, <2>5, <2>7
<1>6. ASSUME NEW p \in Party, NEW s \in Slot, Step(p, s), ~UNCHANGED chat
      PROVE  SendInit(p, s) \/ SendAccept(p, s) \/ SendDisable(p, s)
  BY <1>6 DEF Step, InitLoad, InitSave, AgreeLoad, AgreeSave, ProcessLoad,
     ProcessSave, Get, Set, ClearPage, Handle, CallClears
<1>7. ASSUME NEW p \in Party,
             User(p) \/ Write(p) \/ Check(p) \/ CallHears(p)
      PROVE  UNCHANGED chat
  BY <1>7 DEF User, SwitchOn, SwitchOff, Agree, Deny, Dismiss, Restart, CallOffers,
     CallAgrees, BeginInit, BeginAgree, Write, Check, CallHears
<1> QED
  BY <1>1, <1>3, <1>4, <1>5, <1>6, <1>7 DEF Next, vars

\* Whatever is lost, repeated or overwritten, every step of the two ends is a
\* step of KeyAgreement or changes nothing of which it speaks.
THEOREM HandshakeRefines == Spec => AgreesOnKeys
<1>1. Init => KA!Init
  BY DEF Init, KA!Init
<1>2. HandshakeInv /\ [Next]_vars => [KA!Next]_(KA!vars)
  <2> SUFFICES ASSUME HandshakeInv, [Next]_vars
               PROVE  KA!Next \/ UNCHANGED KA!vars
    BY DEF KA!vars
  <2>1. ASSUME NEW p \in Party, NEW call, BeginInit(p, call) PROVE KA!Next
    <3>1. PICK key \in Key :
            /\ Owner(key) = p /\ ~Used(key)
            /\ \A m \in chat : m.kind = "accept" => m.key # key
            /\ offered' = [offered EXCEPT ![p] = @ \union {key}]
            /\ UNCHANGED <<held, chat>>
      BY <2>1, NewIsUnused
    <3>2. KA!Offer(p, key)
      BY <3>1 DEF KA!Offer, KA!Used, Used
    <3> QED
      BY <3>2 DEF KA!Next
  <2>2. ASSUME NEW p \in Party, NEW s \in Slot, AgreeSave(p, s) PROVE KA!Next
    <3>1. PICK mine \in Key, theirs \in Key :
            /\ Owner(mine) = p /\ mine \notin offered[p] /\ ~Used(mine)
            /\ theirs \in offered[Other(p)] /\ Owner(theirs) = Other(p)
            /\ held' = [held EXCEPT ![p] = @ \union {{mine, theirs}}]
            /\ UNCHANGED <<offered, chat>>
      BY <2>2, AgreeSaves
    <3>2. KA!Answer(p, mine, theirs)
      BY <3>1, OtherParty DEF KA!Answer, KA!Hold, KA!Used, Used
    <3> QED
      BY <3>2 DEF KA!Next
  <2>3. ASSUME NEW p \in Party, NEW s \in Slot, ProcessSave(p, s) PROVE KA!Next
    <3>1. PICK mine \in Key, theirs \in Key :
            /\ mine \in offered[p] /\ Owner(mine) = p /\ Owner(theirs) = Other(p)
            /\ \E m \in chat : m.kind = "accept" /\ m.key = theirs
            /\ held' = [held EXCEPT ![p] = @ \union {{mine, theirs}}]
            /\ UNCHANGED <<offered, chat>>
      BY <2>3, ProcessSaves
    <3>2. KA!Confirm(p, mine, theirs)
      BY <3>1, OtherParty DEF KA!Confirm, KA!Hold
    <3> QED
      BY <3>2 DEF KA!Next
  <2>4. CASE /\ \A p \in Party : ~\E call \in BOOLEAN : BeginInit(p, call)
             /\ \A p \in Party, s \in Slot : ~AgreeSave(p, s) /\ ~ProcessSave(p, s)
    <3>1. UNCHANGED <<offered, held>>
      BY <2>4, KeysAlone
    <3>2. CASE Answers' = Answers
      BY <3>1, <3>2 DEF KA!vars, Answers
    <3>3. CASE \E p \in Party, key \in Key :
                /\ Owner(key) = p /\ key \notin offered[p]
                /\ \E secret \in held[p] : key \in secret
                /\ Answers' = Answers \union {key}
      <4>1. PICK key \in Key : KA!Reply(key)
        BY <3>1, <3>3 DEF KA!Reply, Answers
      <4> QED
        BY <4>1 DEF KA!Next
    <3> QED
      BY <3>2, <3>3, AnswersSent
  <2> QED
    BY <2>1, <2>2, <2>3, <2>4
<1> QED
  BY <1>1, <1>2, HandshakeInvariant, PTL DEF Spec, AgreesOnKeys, KA!Spec

-----------------------------------------------------------------------------
(* Confirmed answers *)

LEMMA ConfirmedNext == HandshakeInv /\ Confirmed /\ [Next]_vars => Confirmed'
<1> SUFFICES ASSUME HandshakeInv, Confirmed, [Next]_vars PROVE Confirmed'
  OBVIOUS
<1> TypeOK
  BY DEF HandshakeInv
<1>g. /\ \A p \in Party : offered[p] \subseteq offered'[p]
      /\ \A p \in Party : held[p] \subseteq held'[p] /\ held[Other(p)] \subseteq held'[Other(p)]
  BY NextGrows, OtherParty DEF Grows
<1>o. ASSUME NEW q \in Party, NEW old, NEW k, Answered(q, old, k)
      PROVE  Answered(q, old, k)'
  <2>1. PICK theirs \in Key, to \in offered[q] :
            old = {k, theirs} /\ {theirs, to} \in held[Other(q)]
    BY <1>o DEF Answered
  <2>2. to \in offered'[q] /\ {theirs, to} \in held'[Other(q)]
    BY <1>g, <2>1
  <2> QED
    BY <2>1, <2>2 DEF Answered, Other
\* It is enough that what p did not have or had not offered is confirmed.
<1>1. SUFFICES ASSUME NEW p \in Party, NEW secret \in held'[p],
                      NEW mine \in secret, mine \in offered'[p],
                      secret \notin held[p] \/ mine \notin offered[p]
               PROVE  Answered(p, secret, mine)'
  BY <1>o DEF Confirmed
<1>2. ASSUME NEW q \in Party, NEW call, BeginInit(q, call) PROVE FALSE
  <2>1. PICK key \in Key :
            /\ ~Used(key) /\ offered' = [offered EXCEPT ![q] = @ \union {key}]
            /\ UNCHANGED held
    BY <1>2, NewIsUnused
  <2>2. secret \in held[p] /\ mine = key
    BY <1>1, <2>1 DEF TypeOK
  <2> QED
    BY <1>1, <2>1, <2>2 DEF Used
<1>3. ASSUME NEW q \in Party, NEW s \in Slot, AgreeSave(q, s) PROVE FALSE
  <2>1. PICK k \in Key, theirs \in Key :
            /\ Owner(k) = q /\ k \notin offered[q] /\ Owner(theirs) = Other(q)
            /\ held' = [held EXCEPT ![q] = @ \union {{k, theirs}}]
            /\ UNCHANGED offered
    BY <1>3, AgreeSaves
  <2>2. p = q /\ secret = {k, theirs} /\ mine \in offered[p]
    BY <1>1, <2>1 DEF TypeOK
  <2>3. Owner(mine) = p
    BY <2>2 DEF HandshakeInv, KeysMade
  <2> QED
    BY <2>1, <2>2, <2>3, OtherParty
<1>4. ASSUME NEW q \in Party, NEW s \in Slot, ProcessSave(q, s)
      PROVE  Answered(p, secret, mine)'
  <2>0. PICK k \in Key, theirs \in Key :
            /\ Owner(theirs) = Other(q)
            /\ \E to \in offered[q] : {theirs, to} \in held[Other(q)]
            /\ theirs \in Key
            /\ held' = [held EXCEPT ![q] = @ \union {{k, theirs}}]
            /\ UNCHANGED offered
    BY <1>4, ProcessSaves
  <2>1. PICK to \in offered[q] : {theirs, to} \in held[Other(q)]
    BY <2>0
  <2>2. p = q /\ secret = {k, theirs} /\ mine \in offered[p]
    BY <1>1, <2>0 DEF TypeOK
  <2>3. mine # theirs
    BY <2>0, <2>2, OtherParty DEF HandshakeInv, KeysMade
  <2>4. secret = {mine, theirs}
    BY <2>2, <2>3
  <2>5. to \in offered'[p] /\ {theirs, to} \in held'[Other(p)]
    BY <1>g, <2>1, <2>2
  <2> QED
    BY <2>0, <2>4, <2>5 DEF Answered, Other
<1>5. CASE UNCHANGED <<offered, held>>
  BY <1>1, <1>5
<1> QED
  BY <1>2, <1>3, <1>4, <1>5, KeysAlone

\* A set with at most one element
LEMMA AtMostOne ==
    ASSUME NEW S, IsFiniteSet(S), Cardinality(S) <= 1, NEW a \in S, NEW b \in S
    PROVE  a = b
<1>1. {a} \in SUBSET S /\ Cardinality({a}) = 1
  BY FS_Singleton
<1>2. Cardinality(S) = 1
  BY <1>1, FS_Subset, FS_CardinalityType
<1> QED
  BY <1>1, <1>2, FS_Subset

LEMMA OfferedFinite ==
    ASSUME HandshakeInv, NEW p \in Party
    PROVE  IsFiniteSet(offered[p])
<1>0. IsFiniteSet(1..MaxKeys)
  <2>1. MaxKeys \in Int
    BY Assumptions DEF Assumptions
  <2> QED
    BY <2>1, FS_Interval
<1>1. IsFiniteSet({p}) /\ IsFiniteSet(1..MaxKeys)
  BY <1>0, FS_Singleton
<1>2. IsFiniteSet({p} \X (1..MaxKeys))
  BY <1>1, FS_Product
<1>3. offered[p] \in SUBSET ({p} \X (1..MaxKeys))
  BY DEF HandshakeInv, KeysMade, Key, Owner
<1> QED
  BY <1>2, <1>3, FS_Subset

\* For any number of keys, activities, losses and repetitions: who has made
\* one offer and treated an answer has a secret that the other end has
\* (process_e2e_accept).
THEOREM AcceptIsHeld == Spec => []ConfirmedIsHeld
<1>1. Init => Confirmed
  BY DEF Init, Confirmed
<1>2. HandshakeInv /\ Confirmed => ConfirmedIsHeld
  <2> SUFFICES ASSUME HandshakeInv, Confirmed, NEW p \in Party,
                      Cardinality(offered[p]) <= 1, NEW secret \in held[p],
                      NEW mine \in secret, mine \in offered[p]
               PROVE  secret \in held[Other(p)]
    BY DEF ConfirmedIsHeld
  <2>1. PICK theirs \in Key, to \in offered[p] :
            secret = {mine, theirs} /\ {theirs, to} \in held[Other(p)]
    <3>1. Answered(p, secret, mine)
      BY DEF Confirmed
    <3> QED
      BY <3>1 DEF Answered
  <2>2. to = mine
    BY OfferedFinite, AtMostOne
  <2>3. secret = {theirs, to}
    BY <2>1, <2>2
  <2> QED
    BY <2>1, <2>3
<1> QED
  BY <1>1, <1>2, ConfirmedNext, HandshakeInvariant, PTL DEF Spec

-----------------------------------------------------------------------------
(* What could be decrypted once *)

\* A page's copy that was changed, and the writes of it
LEMMA KeepChange ==
    ASSUME HandshakeInv, WritesKeep, NEW p \in Party,
           NEW copy, NEW of, NEW by, Change(p, copy, of, by), Lesser(copy, of)
    PROVE  WritesKeep'
<1>1. /\ page \in [Party -> [copy : Settings, of : Settings]]
      /\ writes \in [Party -> SUBSET Writes]
  BY DEF HandshakeInv, TypeOK, Writes
<1>2. /\ page'[p].copy = copy /\ page'[p].of = copy
      /\ \A q \in Party \ {p} : page'[q] = page[q] /\ writes'[q] = writes[q]
      /\ \A w \in writes'[p] : w \in writes[p] \/ (w.data = copy /\ w.of = of)
  BY <1>1 DEF Change
<1> SUFFICES ASSUME NEW q \in Party
             PROVE  /\ page'[q].copy = page'[q].of
                    /\ \A w \in writes'[q] : Lesser(w.data, w.of)
  BY DEF WritesKeep, Lesser, Keys, Active
<1> QED
  BY <1>2 DEF WritesKeep

\* ... or writes alone
LEMMA KeepWrites ==
    ASSUME WritesKeep, NEW p \in Party, UNCHANGED page,
           \A q \in Party \ {p} : writes'[q] = writes[q],
           \A w \in writes'[p] : w \in writes[p] \/ Lesser(w.data, w.of)
    PROVE  WritesKeep'
<1> SUFFICES ASSUME NEW q \in Party
             PROVE  /\ page'[q].copy = page'[q].of
                    /\ \A w \in writes'[q] : Lesser(w.data, w.of)
  BY DEF WritesKeep, Lesser, Keys, Active
<1> QED
  BY DEF WritesKeep

LEMMA KeepDismissed ==
    ASSUME HandshakeInv, WritesKeep, NEW p \in Party, NEW m, Dismissed(p, m),
           UNCHANGED page
    PROVE  WritesKeep'
<1>1. writes \in [Party -> SUBSET Writes]
  BY DEF HandshakeInv, TypeOK, Writes
<1>2. /\ \A q \in Party \ {p} : writes'[q] = writes[q]
      /\ \A w \in writes'[p] : w \in writes[p] \/ w = Rewrite(p)
  BY <1>1 DEF Dismissed
<1>3. Lesser(Rewrite(p).data, Rewrite(p).of)
  BY DEF Rewrite, Lesser
<1> QED
  BY <1>2, <1>3, KeepWrites

LEMMA WritesKeepNext == HandshakeInv /\ WritesKeep /\ [Next]_vars => WritesKeep'
<1> SUFFICES ASSUME HandshakeInv, WritesKeep, [Next]_vars PROVE WritesKeep'
  OBVIOUS
<1> TypeOK
  BY DEF HandshakeInv
<1>t. writes \in [Party -> SUBSET Writes]
  BY DEF TypeOK, Writes
<1>1. CASE UNCHANGED <<page, writes>>
  BY <1>1 DEF WritesKeep, Lesser, Keys, Active
<1>o. ASSUME NEW p \in Party
      PROVE  /\ page[p].copy \in Settings /\ page[p].of = page[p].copy
             /\ stored[p] \in Settings
             /\ Lesser(Ended(page[p].copy), page[p].copy)
             /\ Lesser(page[p].copy, page[p].copy)
  BY SettingsMade DEF Lesser, HandshakeInv, SettingsOwn, Own, WritesKeep
<1>2. ASSUME NEW p \in Party, NEW s \in Slot, Step(p, s) PROVE WritesKeep'
  <2>1. CASE \/ InitLoad(p, s) \/ InitSave(p, s) \/ AgreeLoad(p, s)
             \/ AgreeSave(p, s) \/ ProcessLoad(p, s) \/ ProcessSave(p, s)
             \/ Get(p, s) \/ SendAccept(p, s) \/ SendDisable(p, s)
    BY <1>1, <2>1 DEF InitLoad, InitSave, AgreeLoad, AgreeSave, ProcessLoad,
       ProcessSave, Get, SendAccept, SendDisable
  <2>2. CASE Set(p, s)
    BY <2>2, KeepChange DEF Set, Lesser
  <2>3. CASE SendInit(p, s)
    <3>1. CASE writes' = [writes EXCEPT ![p] = @ \union {Rewrite(p)}]
      <4>1. /\ \A q \in Party \ {p} : writes'[q] = writes[q]
            /\ \A w \in writes'[p] : w \in writes[p] \/ w = Rewrite(p)
        BY <1>t, <3>1
      <4>2. Lesser(Rewrite(p).data, Rewrite(p).of) /\ UNCHANGED page
        BY <2>3 DEF Rewrite, Lesser, SendInit
      <4> QED
        BY <4>1, <4>2, KeepWrites
    <3> QED
      BY <1>1, <2>3, <3>1 DEF SendInit
  <2>4. CASE ClearPage(p, s)
    BY <1>o, <2>4, KeepChange DEF ClearPage
  <2>5. CASE Handle(p, s)
    <3>1. CASE Change(p, Ended(page[p].copy), page[p].of, {"store", "handler"})
      BY <1>o, <3>1, KeepChange
    <3> QED
      BY <1>1, <2>5, <3>1 DEF Handle
  <2>6. CASE CallClears(p, s)
    <3>1. /\ \A q \in Party \ {p} : writes'[q] = writes[q]
          /\ \A w \in writes'[p] :
                \/ w \in writes[p]
                \/ w = [data |-> [stored[p] EXCEPT !.pending = {}],
                        of |-> stored[p], by |-> "handler"]
      BY <1>t, <2>6 DEF CallClears
    <3>2. Lesser([stored[p] EXCEPT !.pending = {}], stored[p])
      BY <1>o, SettingsMade DEF Lesser
    <3>3. \A w \in writes'[p] : w \in writes[p] \/ Lesser(w.data, w.of)
      BY <3>1, <3>2
    <3>4. UNCHANGED page
      BY <2>6 DEF CallClears
    <3> QED
      BY <3>1, <3>3, <3>4, KeepWrites
  <2> QED
    BY <1>2, <2>1, <2>2, <2>3, <2>4, <2>5, <2>6 DEF Step
<1>3. ASSUME NEW p \in Party, User(p) PROVE WritesKeep'
  <2>1. ASSUME NEW call, BeginInit(p, call) PROVE WritesKeep'
    BY <1>1, <2>1 DEF BeginInit
  <2>2. CASE SwitchOff(p) \/ Agree(p)
    BY <1>1, <2>2 DEF SwitchOff, Agree, BeginAgree
  <2>3. CASE Deny(p)
    BY <1>o, <2>3, KeepChange DEF Deny
  <2>4. CASE Dismiss(p)
    BY <2>4, KeepDismissed DEF Dismiss
  <2>5. CASE CallAgrees(p)
    BY <2>5, KeepDismissed DEF CallAgrees, BeginAgree
  <2>6. CASE Restart(p)
    <3>1. /\ page'[p].copy = page'[p].of /\ writes'[p] = {}
          /\ \A q \in Party : q # p => page'[q] = page[q] /\ writes'[q] = writes[q]
      BY <1>t, <2>6 DEF Restart, TypeOK
    <3>2. ASSUME NEW q \in Party
          PROVE  /\ page'[q].copy = page'[q].of
                 /\ \A w \in writes'[q] : Lesser(w.data, w.of)
      BY <3>1 DEF WritesKeep
    <3> QED
      BY <3>2 DEF WritesKeep, Lesser, Keys, Active
  <2> QED
    BY <1>3, <2>1, <2>2, <2>3, <2>4, <2>5, <2>6 DEF User, SwitchOn, CallOffers
<1>4. ASSUME NEW p \in Party, Write(p) PROVE WritesKeep'
  <2>1. /\ \A q \in Party \ {p} : writes'[q] = writes[q]
        /\ \A w \in writes'[p] : w \in writes[p]
        /\ UNCHANGED page
    BY <1>t, <1>4 DEF Write
  <2> QED
    BY <2>1, KeepWrites
<1>5. ASSUME NEW p \in Party, CallHears(p) PROVE WritesKeep'
  BY <1>5, KeepDismissed DEF CallHears
<1>6. ASSUME NEW p \in Party, Check(p) PROVE WritesKeep'
  BY <1>1, <1>6 DEF Check
<1> QED
  BY <1>1, <1>2, <1>3, <1>4, <1>5, <1>6 DEF Next, vars

LEMMA SessionKeeps ==
    ASSUME HandshakeInv, KeysKept, NEW p \in Party, NEW s \in Slot, NEW secret,
           Stores(p, s, secret), held' = [held EXCEPT ![p] = @ \union {secret}],
           upset \subseteq upset'
    PROVE  KeysKept'
<1> SUFFICES ASSUME "stale" \notin upset', NEW q \in Party
             PROVE  held'[q] = Keys(stored'[q])
  BY DEF KeysKept, Keys, Active
<1>1. PICK j \in Job :
        /\ Store(p, Established(j.view, secret, j.stamp))
        /\ secret \in Secret /\ Own(p, j.view)
        /\ Stale(p, Established(j.view, secret, j.stamp), j.view) \subseteq upset'
  BY DEF Stores
<1>2. \A r \in Party : held[r] = Keys(stored[r])
  BY DEF KeysKept
<1>3. /\ held'[p] = held[p] \union {secret}
      /\ q # p => held'[q] = held[q] /\ stored'[q] = stored[q]
  BY <1>1 DEF HandshakeInv, TypeOK, Store
<1>4. PICK new : new = Established(j.view, secret, j.stamp)
  OBVIOUS
<1>5. Keys(new) = Keys(j.view) \union {secret}
  BY <1>1, <1>4, SessionMade DEF Own, Job
<1>6. Keys(stored'[p]) = held[p] \union {secret}
  <2>1. Store(p, new) /\ Stale(p, new, j.view) \subseteq upset'
    BY <1>1, <1>4
  <2>2. stored'[p] = new
    BY <2>1 DEF HandshakeInv, TypeOK, Store
  <2>3. j.view = stored[p] \/ new = stored[p]
    BY <2>1 DEF Stale
  <2>4. CASE j.view = stored[p]
    BY <1>2, <1>5, <2>2, <2>4
  <2>5. CASE new = stored[p]
    <3>1. Keys(new) = held[p] /\ secret \in held[p]
      BY <1>2, <1>5, <2>5
    <3> QED
      BY <2>2, <3>1
  <2> QED
    BY <2>3, <2>4, <2>5
<1> QED
  BY <1>2, <1>3, <1>6

LEMMA KeysKeptNext == HandshakeInv /\ WritesKeep /\ KeysKept /\ [Next]_vars => KeysKept'
<1> SUFFICES ASSUME HandshakeInv, WritesKeep, KeysKept, [Next]_vars PROVE KeysKept'
  OBVIOUS
<1> TypeOK
  BY DEF HandshakeInv
<1>1. CASE UNCHANGED <<stored, held>> /\ upset \subseteq upset'
  BY <1>1 DEF KeysKept, Keys, Active
\* Settings stored without a new secret
<1>2. ASSUME NEW p \in Party, NEW new, NEW of, Store(p, new), UNCHANGED held,
             upset \subseteq upset', Stale(p, new, of) \subseteq upset',
             Keys(new) = Keys(of)
      PROVE  KeysKept'
  <2> SUFFICES ASSUME "stale" \notin upset', NEW q \in Party
               PROVE  held[q] = Keys(stored'[q])
    BY <1>2 DEF KeysKept, Keys, Active
  <2>1. \A r \in Party : held[r] = Keys(stored[r])
    BY <1>2 DEF KeysKept
  <2>2. q # p => stored'[q] = stored[q]
    BY <1>2 DEF TypeOK, Store
  <2>3. of = stored[p] \/ new = stored[p]
    BY <1>2 DEF Stale
  <2>4. Keys(stored'[p]) = held[p]
    <3>1. stored'[p] = new
      BY <1>2 DEF TypeOK, Store
    <3> QED
      BY <1>2, <2>1, <2>3, <3>1
  <2> QED
    BY <2>1, <2>2, <2>4
<1>3. ASSUME NEW p \in Party, NEW s \in Slot, AgreeSave(p, s) PROVE KeysKept'
  <2>1. PICK secret : /\ held' = [held EXCEPT ![p] = @ \union {secret}]
                      /\ Stores(p, s, secret)
    BY <1>3, AgreeSaves
  <2>2. upset \subseteq upset'
    BY <1>3 DEF AgreeSave
  <2> QED
    BY <2>1, <2>2, SessionKeeps
<1>4. ASSUME NEW p \in Party, NEW s \in Slot, ProcessSave(p, s) PROVE KeysKept'
  <2>1. PICK secret : /\ held' = [held EXCEPT ![p] = @ \union {secret}]
                      /\ Stores(p, s, secret)
    BY <1>4, ProcessSaves
  <2>2. upset \subseteq upset'
    BY <1>4 DEF ProcessSave
  <2> QED
    BY <2>1, <2>2, SessionKeeps
<1>5. ASSUME NEW p \in Party, NEW s \in Slot, InitSave(p, s) PROVE KeysKept'
  <2>1. PICK j \in Job : j = job[p][s] /\ Sound(p, j)
    BY <1>5, InJob DEF HandshakeInv, JobsSound, InitSave, In
  <2>2. PICK new : new = [j.view EXCEPT !.pending = {j.key}]
    OBVIOUS
  <2>3. j.view \in Settings /\ j.key \in Key
    BY <1>5, <2>1 DEF InitSave, In, Sound, Own, HandshakeInv, KeysMade
  <2>4. Keys(new) = Keys(j.view)
    BY <2>2, <2>3, SettingsMade
  <2>5. /\ Store(p, new) /\ UNCHANGED held
        /\ upset \subseteq upset' /\ Stale(p, new, j.view) \subseteq upset'
    BY <1>5, <2>1, <2>2 DEF InitSave
  <2> QED
    BY <1>2, <2>4, <2>5
<1>6. ASSUME NEW p \in Party, Write(p) PROVE KeysKept'
  <2>1. PICK w \in writes[p] :
            /\ Store(p, w.data) /\ UNCHANGED held
            /\ upset \subseteq upset' /\ Stale(p, w.data, w.of) \subseteq upset'
    BY <1>6 DEF Write
  <2>2. Keys(w.data) = Keys(w.of)
    BY DEF WritesKeep, Lesser
  <2> QED
    BY <1>2, <2>1, <2>2
<1>7. ASSUME NEW p \in Party, NEW s \in Slot, Step(p, s), ~AgreeSave(p, s),
             ~ProcessSave(p, s), ~InitSave(p, s)
      PROVE  KeysKept'
  BY <1>1, <1>7 DEF Step, InitLoad, AgreeLoad, ProcessLoad, Get, Set, SendInit,
     SendAccept, SendDisable, ClearPage, Handle, CallClears
<1>8. ASSUME NEW p \in Party, User(p) \/ Check(p) \/ CallHears(p) PROVE KeysKept'
  BY <1>1, <1>8 DEF User, SwitchOn, SwitchOff, Agree, Deny, Dismiss, Restart,
     CallOffers, CallAgrees, BeginInit, BeginAgree, Check, CallHears
<1> QED
  BY <1>1, <1>3, <1>4, <1>5, <1>6, <1>7, <1>8 DEF Next, vars

\* While no command or write has stored settings made of others than it
\* replaces, whatever could be decrypted once still can be, for any number of
\* sessions, in calls or not (chats.rs, set_chat_settings_sync).
THEOREM KeysStay == Spec => []KeysKept
<1>1. Init => WritesKeep /\ KeysKept
  <2>1. Init => WritesKeep
    BY DEF Init, WritesKeep
  <2>2. Init => KeysKept
    BY Beginnings DEF Init, KeysKept
  <2> QED
    BY <2>1, <2>2
<1> QED
  BY <1>1, WritesKeepNext, KeysKeptNext, HandshakeInvariant, PTL DEF Spec

-----------------------------------------------------------------------------
(* Offers on their way *)

Sent(key) == \E m \in chat : m.kind = "init" /\ m.key = key

Offering(p, s) == job[p][s] # Idle /\ job[p][s].do = "init"

Early(p, s) == job[p][s].at \in {"load", "save"}

\* The settings of p have got this offer, if they were not restored since.
Saved(p, key) ==
    \/ Sent(key)
    \/ \E s \in Slot : Offering(p, s) /\ ~Early(p, s) /\ job[p][s].key = key

Unsent(p, s) == ~Sent(job[p][s].key)

\* An offer is not sent before it is saved, and made by one activity.
OffersOnce ==
    \A p \in Party, s \in Slot : Offering(p, s) =>
        /\ Early(p, s) => Unsent(p, s)
        /\ \A t \in Slot \ {s} :
                Offering(p, t) => job[p][t].key # job[p][s].key

\* s makes the same offer as before, if any, and is as far with it.
SameOffer(p, s) ==
    Offering(p, s)' =>
        /\ Offering(p, s)
        /\ job'[p][s].key = job[p][s].key
        /\ Early(p, s)' <=> Early(p, s)

\* An activity moves one at a time.
LEMMA StepMovesOne ==
    ASSUME NEW p \in Party, NEW s \in Slot, Step(p, s)
    PROVE  \E next : job' = [job EXCEPT ![p][s] = next]
<1>1. ASSUME NEW at, At(p, s, at) PROVE \E next : Become(p, s, next)
  BY <1>1 DEF At
<1>2. \E next : Become(p, s, next)
  <2>1. CASE \/ InitLoad(p, s) \/ AgreeLoad(p, s) \/ Get(p, s) \/ SendAccept(p, s)
             \/ ClearPage(p, s) \/ CallClears(p, s)
    BY <2>1 DEF InitLoad, AgreeLoad, Get, SendAccept, ClearPage, CallClears
  <2>2. CASE InitSave(p, s) \/ AgreeSave(p, s)
    BY <1>1, <2>2 DEF InitSave, AgreeSave
  <2>3. CASE ProcessLoad(p, s) \/ ProcessSave(p, s)
    BY <2>3 DEF ProcessLoad, ProcessSave
  <2>4. CASE Set(p, s) \/ SendInit(p, s) \/ SendDisable(p, s)
    BY <1>1, <2>4 DEF Set, SendInit, SendDisable
  <2>5. CASE Handle(p, s)
    BY <2>5 DEF Handle
  <2> QED
    BY <2>1, <2>2, <2>3, <2>4, <2>5 DEF Step
<1> QED
  BY <1>2 DEF Become

\* Only a new offer and its being saved change how far offers are.
LEMMA OffersStay ==
    ASSUME HandshakeInv, [Next]_vars, NEW q \in Party, NEW t \in Slot,
           \A call \in BOOLEAN : ~BeginInit(q, call), ~InitSave(q, t)
    PROVE  SameOffer(q, t)
<1> TypeOK
  BY DEF HandshakeInv
<1>1. CASE job'[q][t] = job[q][t]
  BY <1>1 DEF SameOffer, Offering, Early
<1>2. CASE job'[q][t] = Idle \/ job'[q][t].do # "init"
  BY <1>2 DEF SameOffer, Offering
<1>3. ASSUME NEW p \in Party, NEW s \in Slot, NEW next,
             job' = [job EXCEPT ![p][s] = next], ~(p = q /\ s = t)
      PROVE  SameOffer(q, t)
  <2>1. job'[q][t] = job[q][t]
    BY <1>3 DEF TypeOK
  <2> QED
    BY <1>1, <2>1
<1>4. ASSUME NEW next, job' = [job EXCEPT ![q][t] = next],
             next = Idle \/ next.do # "init"
      PROVE  SameOffer(q, t)
  <2>1. job'[q][t] = next
    BY <1>4 DEF TypeOK
  <2> QED
    BY <1>2, <1>4, <2>1
<1>5. ASSUME NEW j, j = job[q][t], j \in Job, j # Idle, NEW next,
             job' = [job EXCEPT ![q][t] = next],
             next.key = j.key, next.do = j.do,
             next.at \in {"load", "save"} <=> j.at \in {"load", "save"}
      PROVE  SameOffer(q, t)
  <2>1. job'[q][t] = next
    BY <1>5 DEF TypeOK
  <2> QED
    BY <1>5, <2>1 DEF SameOffer, Offering, Early
<1>6. ASSUME NEW p \in Party, NEW s \in Slot, Step(p, s) PROVE SameOffer(q, t)
  <2>1. CASE ~(p = q /\ s = t)
    <3>1. \E next : job' = [job EXCEPT ![p][s] = next]
      BY <1>6, StepMovesOne
    <3> QED
      BY <1>3, <2>1, <3>1
  <2>2. CASE p = q /\ s = t
    <3>0. PICK j \in Job : j = job[q][t] /\ j # Idle
      BY <1>6, <2>2, InJob DEF Step, InitLoad, InitSave, AgreeLoad, AgreeSave,
         ProcessLoad, ProcessSave, Get, Set, SendInit, SendAccept, SendDisable,
         ClearPage, Handle, CallClears, In
    <3>1. CASE job' = [job EXCEPT ![q][t] = Idle]
      BY <1>4, <3>1
    <3>2. CASE /\ j.at \in {"get", "set", "send", "clear", "handle"} \/ j.do # "init"
               /\ \E at \in {"get", "set", "send", "clear"} :
                    job' = [job EXCEPT ![q][t] = [j EXCEPT !.at = at]]
      <4>1. PICK at \in {"get", "set", "send", "clear"} :
                job' = [job EXCEPT ![q][t] = [j EXCEPT !.at = at]]
        BY <3>2
      <4>2. PICK next : next = [j EXCEPT !.at = at]
        OBVIOUS
      <4>3. next.key = j.key /\ next.do = j.do /\ next.at = at
        BY <4>2 DEF Job
      <4> QED
        BY <1>4, <1>5, <3>0, <3>2, <4>1, <4>2, <4>3
    <3>3. CASE /\ j.do # "init"
               /\ \E at, view, stamp : job' = [job EXCEPT ![q][t] =
                    [j EXCEPT !.at = at, !.view = view, !.stamp = stamp]]
      <4>1. PICK at, view, stamp : job' = [job EXCEPT ![q][t] =
                    [j EXCEPT !.at = at, !.view = view, !.stamp = stamp]]
        BY <3>3
      <4>2. PICK next : next = [j EXCEPT !.at = at, !.view = view, !.stamp = stamp]
        OBVIOUS
      <4>3. next.do = j.do
        BY <4>2 DEF Job
      <4> QED
        BY <1>4, <3>3, <4>1, <4>2, <4>3
    <3>4. CASE \/ /\ j.at = "load"
                  /\ job' = [job EXCEPT ![q][t] =
                                [j EXCEPT !.at = "save", !.view = stored[q]]]
               \/ /\ j.at = "get"
                  /\ job' = [job EXCEPT ![q][t] =
                                [j EXCEPT !.at = "set", !.view = stored[q]]]
      <4>1. PICK at \in {"save", "set"} :
                /\ job' = [job EXCEPT ![q][t] =
                                [j EXCEPT !.at = at, !.view = stored[q]]]
                /\ (at = "save" /\ j.at = "load") \/ (at = "set" /\ j.at = "get")
        BY <3>4
      <4>2. PICK next : next = [j EXCEPT !.at = at, !.view = stored[q]]
        OBVIOUS
      <4>3. next.key = j.key /\ next.do = j.do /\ next.at = at
        BY <4>2 DEF Job
      <4> QED
        BY <1>5, <3>0, <4>1, <4>2, <4>3
    <3>5. CASE job' = [job EXCEPT ![q][t] = [j EXCEPT !.do = "process", !.at = "load"]]
      <4>1. PICK next : next = [j EXCEPT !.do = "process", !.at = "load"]
        OBVIOUS
      <4>2. next.do = "process"
        BY <4>1 DEF Job
      <4> QED
        BY <1>4, <3>5, <4>1, <4>2
    <3>6. CASE InitLoad(q, t)
      BY <3>0, <3>4, <3>6 DEF InitLoad, Become, In
    <3>7. CASE AgreeLoad(q, t)
      BY <3>0, <3>3, <3>7 DEF AgreeLoad, Become, In
    <3>8. CASE AgreeSave(q, t)
      BY <3>0, <3>2, <3>8 DEF AgreeSave, At, Become, In
    <3>9. CASE ProcessLoad(q, t)
      <4>1. j.do = "process"
        BY <3>0, <3>9 DEF ProcessLoad, In
      <4>2. \/ job' = [job EXCEPT ![q][t] = Idle]
            \/ job' = [job EXCEPT ![q][t] = [j EXCEPT !.at = "get"]]
            \/ job' = [job EXCEPT ![q][t] =
                  [j EXCEPT !.at = "save", !.view = stored[q], !.stamp = clock']]
        BY <3>0, <3>9 DEF ProcessLoad, Become
      <4>3. CASE job' = [job EXCEPT ![q][t] = [j EXCEPT !.at = "get"]]
        BY <3>2, <4>1, <4>3
      <4>4. CASE job' = [job EXCEPT ![q][t] =
                  [j EXCEPT !.at = "save", !.view = stored[q], !.stamp = clock']]
        BY <3>3, <4>1, <4>4
      <4> QED
        BY <3>1, <4>2, <4>3, <4>4
    <3>10. CASE ProcessSave(q, t)
      BY <3>0, <3>1, <3>2, <3>10 DEF ProcessSave, Become, In
    <3>11. CASE Get(q, t)
      BY <3>0, <3>4, <3>11 DEF Get, Become, In
    <3>12. CASE Set(q, t)
      BY <3>0, <3>1, <3>2, <3>12 DEF Set, At, Become, In
    <3>13. CASE SendInit(q, t)
      BY <3>0, <3>1, <3>2, <3>13 DEF SendInit, At, Become, In
    <3>14. CASE \/ SendAccept(q, t) \/ ClearPage(q, t) \/ CallClears(q, t)
      BY <3>1, <3>14 DEF SendAccept, ClearPage, CallClears, Become
    <3>15. CASE SendDisable(q, t)
      BY <3>0, <3>2, <3>15 DEF SendDisable, At, Become, In
    <3>16. CASE Handle(q, t)
      BY <3>0, <3>1, <3>5, <3>16 DEF Handle, Become
    <3> QED
      BY <1>6, <2>2, <3>6, <3>7, <3>8, <3>9, <3>10, <3>11, <3>12, <3>13, <3>14,
         <3>15, <3>16 DEF Step
  <2> QED
    BY <2>1, <2>2
<1>7. ASSUME NEW p \in Party, NEW s \in Slot, NEW next, next.do # "init",
             job' = [job EXCEPT ![p][s] = next]
      PROVE  SameOffer(q, t)
  BY <1>3, <1>4, <1>7
<1>8. ASSUME NEW p \in Party, NEW do, do # "init", NEW at, NEW call, NEW m, NEW view,
             Begin(p, do, at, call, m, view)
      PROVE  SameOffer(q, t)
  <2>1. PICK next : next = [do |-> do, at |-> at, call |-> call, msg |-> m,
                            key |-> None, view |-> view, stamp |-> 0]
    OBVIOUS
  <2>2. \E s \in Slot : job' = [job EXCEPT ![p][s] = next]
    BY <1>8, <2>1 DEF Begin
  <2>3. next.do # "init"
    BY <1>8, <2>1
  <2> QED
    BY <1>7, <2>2, <2>3
<1>9. ASSUME NEW p \in Party, NEW call, BeginAgree(p, call) PROVE SameOffer(q, t)
  <2>1. PICK next : next = [do |-> "agree", at |-> "load", call |-> call,
                            msg |-> request[p], key |-> <<p, made'>>,
                            view |-> Fresh, stamp |-> 0]
    OBVIOUS
  <2>2. \E s \in Slot : job' = [job EXCEPT ![p][s] = next]
    BY <1>9, <2>1 DEF BeginAgree, Become
  <2>3. next.do # "init"
    BY <2>1
  <2> QED
    BY <1>7, <2>2, <2>3
<1>10. ASSUME NEW p \in Party, NEW call \in BOOLEAN, BeginInit(p, call)
       PROVE  SameOffer(q, t)
  <2>1. p # q
    BY <1>10
  <2>2. PICK s \in Slot : \E next : job' = [job EXCEPT ![p][s] = next]
    BY <1>10 DEF BeginInit, Become
  <2> QED
    BY <1>3, <2>1, <2>2
<1>11. ASSUME NEW p \in Party, User(p) PROVE SameOffer(q, t)
  <2>1. CASE SwitchOff(p)
    <3>1. PICK next : next = [do |-> "off", at |-> "send", call |-> FALSE,
                              msg |-> None, key |-> None, view |-> Fresh,
                              stamp |-> clock']
      OBVIOUS
    <3>2. \E s \in Slot : job' = [job EXCEPT ![p][s] = next]
      BY <2>1, <3>1 DEF SwitchOff, Become
    <3>3. next.do # "init"
      BY <3>1
    <3> QED
      BY <1>7, <3>2, <3>3
  <2>2. CASE Deny(p) \/ Dismiss(p)
    BY <1>1, <2>2 DEF Deny, Dismiss
  <2>3. CASE Restart(p)
    <3>1. job'[q][t] = job[q][t] \/ job'[q][t] = Idle
      BY <2>3 DEF Restart, TypeOK
    <3> QED
      BY <1>1, <1>2, <3>1
  <2> QED
    BY <1>9, <1>10, <1>11, <2>1, <2>2, <2>3
       DEF User, SwitchOn, Agree, CallOffers, CallAgrees
<1>12. ASSUME NEW p \in Party, Write(p) \/ Check(p) \/ CallHears(p)
       PROVE  SameOffer(q, t)
  BY <1>1, <1>8, <1>12 DEF Write, Check, CallHears
<1> QED
  BY <1>1, <1>6, <1>11, <1>12 DEF Next, vars

\* A new offer, and the activity that makes it
LEMMA OfferBegins ==
    ASSUME HandshakeInv, NEW p \in Party, NEW call, BeginInit(p, call)
    PROVE  \E key \in Key, s \in Slot :
            /\ \A q \in Party : key \notin offered[q]
            /\ \A q \in Party : \A k \in offered[q] : ~(key[2] <= k[2])
            /\ offered' = [offered EXCEPT ![p] = @ \union {key}]
            /\ ~Used(key) /\ ~Sent(key) /\ Owner(key) = p
            /\ UNCHANGED <<held, chat, stored, upset>>
            /\ Offering(p, s)' /\ job'[p][s].key = key /\ Early(p, s)'
            /\ \A q \in Party, t \in Slot : q # p \/ t # s => job'[q][t] = job[q][t]
<1> TypeOK
  BY DEF HandshakeInv
<1>1. PICK key \in Key :
        /\ key = <<p, made'>> /\ Owner(key) = p /\ ~Used(key)
        /\ offered' = [offered EXCEPT ![p] = @ \union {key}]
        /\ UNCHANGED <<held, chat>>
  BY NewIsUnused
<1>2. /\ \A k \in Key : k[2] <= made => k # key
      /\ key[2] = made + 1 /\ made \in Nat
  BY <1>1, NewKey DEF BeginInit
<1>3. \A q \in Party : \A k \in offered[q] : k # key /\ ~(key[2] <= k[2])
  <2>1. ASSUME NEW q \in Party, NEW k \in offered[q]
        PROVE  k \in Key /\ k[2] <= made /\ k[2] \in Nat
    BY DEF HandshakeInv, KeysMade, Key
  <2> QED
    BY <1>2, <2>1
<1>4. ~Sent(key)
  <2>1. ASSUME NEW m \in chat, m.kind = "init" PROVE m.key # key
    <3>1. m.from \in Party /\ m.key \in offered[m.from]
      BY <2>1 DEF HandshakeInv, MessagesHonest, Honest, TypeOK, Messages
    <3> QED
      BY <1>3, <3>1
  <2> QED
    BY <2>1 DEF Sent
<1>5. PICK next : next = [do |-> "init", at |-> "load", call |-> call, msg |-> None,
                          key |-> key, view |-> Fresh, stamp |-> 0]
  OBVIOUS
<1>6. PICK s \in Slot : job' = [job EXCEPT ![p][s] = next]
  BY <1>1, <1>5 DEF BeginInit, Become
<1>7. /\ job'[p][s] = next
      /\ \A q \in Party, t \in Slot : q # p \/ t # s => job'[q][t] = job[q][t]
  BY <1>6 DEF TypeOK
<1>8. next # Idle /\ next.do = "init" /\ next.at = "load" /\ next.key = key
  BY <1>5 DEF Idle
<1>9. Offering(p, s)' /\ job'[p][s].key = key /\ Early(p, s)'
  BY <1>7, <1>8 DEF Offering, Early
<1>10. UNCHANGED <<stored, upset>>
  BY DEF BeginInit
<1> QED
  BY <1>1, <1>3, <1>4, <1>7, <1>9, <1>10

\* What is sent as an offer was saved.
LEMMA OffersSent ==
    ASSUME HandshakeInv, [Next]_vars, NEW key, Sent(key)', ~Sent(key)
    PROVE  \E p \in Party, s \in Slot :
            Offering(p, s) /\ ~Early(p, s) /\ job[p][s].key = key
<1>1. PICK m \in chat' : m.kind = "init" /\ m.key = key /\ m \notin chat
  BY DEF Sent
<1>2. ASSUME NEW p \in Party, NEW s \in Slot, SendInit(p, s)
      PROVE  Offering(p, s) /\ ~Early(p, s) /\ job[p][s].key = key
  <2>1. Offering(p, s) /\ ~Early(p, s)
    BY <1>2 DEF SendInit, In, Offering, Early
  <2>2. m = Message("init", p, job[p][s].key, None, clock')
    BY <1>1, <1>2 DEF SendInit, Send
  <2>3. m.key = job[p][s].key
    BY <2>2 DEF Message
  <2> QED
    BY <1>1, <2>1, <2>3
<1>3. ASSUME NEW p \in Party, NEW s \in Slot, SendAccept(p, s) PROVE FALSE
  <2>1. m = Message("accept", p, job[p][s].key, job[p][s].msg.key, 0)
    BY <1>1, <1>3 DEF SendAccept, Send
  <2> QED
    BY <1>1, <2>1 DEF Message
<1>4. ASSUME NEW p \in Party, NEW s \in Slot, SendDisable(p, s) PROVE FALSE
  <2>1. m = Message("disable", p, None, None, job[p][s].stamp)
    BY <1>1, <1>4 DEF SendDisable, Send
  <2> QED
    BY <1>1, <2>1 DEF Message
<1>5. ASSUME NEW p \in Party, NEW s \in Slot, Step(p, s)
      PROVE  SendInit(p, s) \/ SendAccept(p, s) \/ SendDisable(p, s)
  BY <1>1, <1>5 DEF Step, InitLoad, InitSave, AgreeLoad, AgreeSave, ProcessLoad,
     ProcessSave, Get, Set, ClearPage, Handle, CallClears
<1>6. ASSUME NEW p \in Party, User(p) \/ Write(p) \/ Check(p) \/ CallHears(p)
      PROVE  FALSE
  BY <1>1, <1>6 DEF User, SwitchOn, SwitchOff, Agree, Deny, Dismiss, Restart,
     CallOffers, CallAgrees, BeginInit, BeginAgree, Write, Check, CallHears
<1> QED
  BY <1>1, <1>2, <1>3, <1>4, <1>5, <1>6 DEF Next, vars

\* The key of an offer that p makes is its own.
LEMMA OffersOwn ==
    ASSUME HandshakeInv, NEW p \in Party, NEW s \in Slot, Offering(p, s)
    PROVE  /\ job[p][s].key \in offered[p] /\ job[p][s].key \in Key
           /\ Owner(job[p][s].key) = p
BY DEF HandshakeInv, JobsSound, Sound, KeysMade, Offering

\* How InitSave moves its activity
LEMMA InitSaves ==
    ASSUME HandshakeInv, NEW p \in Party, NEW s \in Slot, InitSave(p, s)
    PROVE  /\ Offering(p, s) /\ Early(p, s)
           /\ Offering(p, s)' /\ ~Early(p, s)' /\ job'[p][s].key = job[p][s].key
           /\ \A q \in Party, t \in Slot : q # p \/ t # s => job'[q][t] = job[q][t]
           /\ UNCHANGED <<offered, held, chat>>
<1> TypeOK
  BY DEF HandshakeInv
<1>1. PICK j \in Job : j = job[p][s] /\ j # Idle /\ j.do = "init" /\ j.at = "save"
  BY InJob DEF InitSave, In
<1>2. PICK at \in {"get", "send"} : job' = [job EXCEPT ![p][s] = [j EXCEPT !.at = at]]
  BY <1>1 DEF InitSave, At, Become
<1>3. PICK next : next = [j EXCEPT !.at = at]
  OBVIOUS
<1>4. next \in Job /\ next.do = "init" /\ next.at = at /\ next.key = j.key
  <2>1. next \in Job
    BY <1>3, JobMoves
  <2>2. next.do = j.do /\ next.at = at /\ next.key = j.key
    BY <1>3 DEF Job
  <2> QED
    BY <1>1, <2>1, <2>2
<1>5. /\ job'[p][s] = next
      /\ \A q \in Party, t \in Slot : q # p \/ t # s => job'[q][t] = job[q][t]
  BY <1>2, <1>3 DEF TypeOK
<1>6. Offering(p, s)' /\ ~Early(p, s)' /\ job'[p][s].key = job[p][s].key
  BY <1>1, <1>4, <1>5, Beginnings DEF Offering, Early
<1>7. Offering(p, s) /\ Early(p, s)
  BY <1>1 DEF Offering, Early
<1> QED
  BY <1>5, <1>6, <1>7 DEF InitSave

LEMMA OffersOnceNext == HandshakeInv /\ OffersOnce /\ [Next]_vars => OffersOnce'
<1> SUFFICES ASSUME HandshakeInv, OffersOnce, [Next]_vars,
                    NEW p \in Party, NEW s \in Slot, Offering(p, s)'
             PROVE  /\ Early(p, s)' => Unsent(p, s)'
                    /\ \A t \in Slot \ {s} :
                        Offering(p, t)' => job'[p][t].key # job'[p][s].key
  BY DEF OffersOnce
\* No step sends what was not saved.
<1>1. ASSUME NEW q \in Party, NEW t \in Slot, Offering(q, t), Early(q, t),
             \E key : key = job[q][t].key /\ Sent(key)'
      PROVE  FALSE
  <2>0. PICK key : key = job[q][t].key /\ Sent(key)'
    BY <1>1
  <2>1. ~Sent(key)
    BY <1>1, <2>0 DEF OffersOnce, Unsent
  <2>2. PICK r \in Party, u \in Slot :
            Offering(r, u) /\ ~Early(r, u) /\ job[r][u].key = key
    BY <2>0, <2>1, OffersSent
  <2>3. r = q
    <3>1. Owner(job[r][u].key) = r /\ Owner(job[q][t].key) = q
      BY <1>1, <2>2, OffersOwn
    <3> QED
      BY <2>0, <2>2, <3>1
  <2> QED
    BY <1>1, <2>0, <2>2, <2>3 DEF OffersOnce
<1>2. ASSUME NEW q \in Party, NEW call, BeginInit(q, call)
      PROVE  /\ Early(p, s)' => Unsent(p, s)'
             /\ \A t \in Slot \ {s} :
                    Offering(p, t)' => job'[p][t].key # job'[p][s].key
  <2>1. PICK key \in Key, u \in Slot :
            /\ \A r \in Party : key \notin offered[r]
            /\ ~Sent(key) /\ UNCHANGED chat
            /\ job'[q][u].key = key
            /\ \A r \in Party, t \in Slot :
                    r # q \/ t # u => job'[r][t] = job[r][t]
    BY <1>2, OfferBegins
  <2>2. ~Sent(key)'
    BY <2>1 DEF Sent
  <2>3. ASSUME NEW t \in Slot, p # q \/ t # u, Offering(p, t)'
        PROVE  /\ job'[p][t] = job[p][t] /\ Offering(p, t)
               /\ Early(p, t)' => Early(p, t)
               /\ job'[p][t].key # key
    <3>1. job'[p][t] = job[p][t]
      BY <2>1, <2>3
    <3>2. Offering(p, t) /\ (Early(p, t)' => Early(p, t))
      BY <2>3, <3>1 DEF Offering, Early
    <3>3. job[p][t].key \in offered[p]
      BY <3>2, OffersOwn
    <3> QED
      BY <2>1, <3>1, <3>2, <3>3
  <2>4. CASE p = q /\ s = u
    <3>1. Unsent(p, s)'
      BY <2>1, <2>2, <2>4 DEF Unsent
    <3> QED
      BY <2>1, <2>3, <2>4, <3>1
  <2>5. CASE p # q \/ s # u
    <3>1. Early(p, s)' => Unsent(p, s)'
      BY <1>1, <2>3, <2>5 DEF Unsent
    <3>2. ASSUME NEW t \in Slot \ {s}, Offering(p, t)'
          PROVE  job'[p][t].key # job'[p][s].key
      BY <2>1, <2>3, <2>5, <3>2 DEF OffersOnce
    <3> QED
      BY <3>1, <3>2
  <2> QED
    BY <2>4, <2>5
<1>3. ASSUME \A q \in Party, call \in BOOLEAN : ~BeginInit(q, call),
             NEW t \in Slot, Offering(p, t)'
      PROVE  /\ Offering(p, t) /\ job'[p][t].key = job[p][t].key
             /\ Early(p, t)' => Early(p, t)
  <2>1. CASE InitSave(p, t)
    BY <2>1, InitSaves
  <2>2. CASE ~InitSave(p, t)
    BY <1>3, <2>2, OffersStay DEF SameOffer
  <2> QED
    BY <2>1, <2>2
<1>4. CASE \A q \in Party, call \in BOOLEAN : ~BeginInit(q, call)
  <2>1. Early(p, s)' => Unsent(p, s)'
    BY <1>1, <1>3, <1>4 DEF Unsent
  <2>2. ASSUME NEW t \in Slot \ {s}, Offering(p, t)'
        PROVE  job'[p][t].key # job'[p][s].key
    BY <1>3, <1>4, <2>2 DEF OffersOnce
  <2> QED
    BY <2>1, <2>2
<1> QED
  BY <1>2, <1>4

\* Only InitSave saves an offer.
LEMMA SavedLater ==
    ASSUME HandshakeInv, [Next]_vars, NEW p \in Party, NEW key \in offered[p],
           Saved(p, key)', ~Saved(p, key)
    PROVE  \E s \in Slot : InitSave(p, s) /\ job[p][s].key = key
<1>1. ~Sent(key)'
  <2> SUFFICES ASSUME Sent(key)' PROVE FALSE
    OBVIOUS
  <2>1. ~Sent(key)
    BY DEF Saved
  <2>2. PICK r \in Party, u \in Slot :
            Offering(r, u) /\ ~Early(r, u) /\ job[r][u].key = key
    BY <2>1, OffersSent
  <2>3. r = p
    BY <2>2, OffersOwn DEF HandshakeInv, KeysMade
  <2> QED
    BY <2>2, <2>3 DEF Saved
<1>2. PICK s \in Slot : Offering(p, s)' /\ ~Early(p, s)' /\ job'[p][s].key = key
  BY <1>1 DEF Saved
<1>3. CASE InitSave(p, s)
  BY <1>2, <1>3, InitSaves
<1>4. CASE \E call : BeginInit(p, call)
  <2>1. PICK u \in Slot :
            /\ Early(p, u)'
            /\ \A r \in Party, t \in Slot :
                    r # p \/ t # u => job'[r][t] = job[r][t]
    BY <1>4, OfferBegins
  <2>2. job'[p][s] = job[p][s]
    BY <1>2, <2>1
  <2> QED
    BY <1>2, <2>2 DEF Saved, Offering, Early
<1>5. CASE ~InitSave(p, s) /\ ~\E call : BeginInit(p, call)
  <2>1. SameOffer(p, s)
    BY <1>5, OffersStay
  <2> QED
    BY <1>2, <2>1 DEF SameOffer, Saved
<1> QED
  BY <1>3, <1>4, <1>5

-----------------------------------------------------------------------------
(* The sessions of both ends *)

\* A secret is made of the key of an offer that was sent and of one that was
\* not offered, by the end that got the offer.
Dealt(secret) ==
    \E x \in Party, k \in Key, a \in Key :
        /\ secret = {k, a} /\ k \in offered[x]
        /\ \A y \in Party : a \notin offered[y]
        /\ secret \in held[Other(x)]
        /\ Sent(k)

Deals == \A q \in Party : \A secret \in held[q] : Dealt(secret)

\* An offer makes one secret.
DealtOnce ==
    \A q, r \in Party : \A secret \in held[q], other \in held[r] :
        \A x \in Party : \A k \in offered[x] :
            k \in secret /\ k \in other => secret = other

\* What is pending has no answer yet, and was saved last.
PendingOpen ==
    \A x \in Party : \A k \in stored[x].pending :
        /\ ~Has(x, k)
        /\ \A l \in offered[x] : Saved(x, l) => l[2] <= k[2]

\* Who waits for an answer has no session,
OpenRests ==
    \A x \in Party : \A k \in Open(x) : Saved(x, k) => ~Active(stored[x])

\* and who gave it has the one it makes, if any;
OpenMet ==
    \A x \in Party : \A k \in Open(x) :
        Has(Other(x), k) =>
            ~Active(stored[Other(x)]) \/ k \in stored[Other(x)].secret

\* no two ends wait for each other's.
OneSided ==
    \A x \in Party : \A k \in Open(x), l \in Open(Other(x)) :
        ~(Has(Other(x), k) /\ Has(x, l))

SessionsAgree ==
    \A p, q \in Party :
        Active(stored[p]) /\ Active(stored[q]) =>
            stored[p].secret = stored[q].secret

Agreed ==
    /\ Deals /\ DealtOnce /\ PendingOpen
    /\ OpenRests /\ OpenMet /\ OneSided /\ SessionsAgree

AgreedInv == upset = {} => Agreed

\* No session has begun.
SecretsRest == \A x \in Party : stored'[x].secret \in {{}, stored[x].secret}

SavedRest == \A x \in Party : \A l \in offered[x] : Saved(x, l)' => Saved(x, l)

LEMMA KeysOffered ==
    ASSUME HandshakeInv, NEW x \in Party, NEW k \in offered[x]
    PROVE  k \in Key /\ Owner(k) = x /\ k[2] \in Nat
BY DEF HandshakeInv, KeysMade, Key

LEMMA SameKey ==
    ASSUME HandshakeInv, NEW x \in Party, NEW k \in offered[x], NEW l \in offered[x],
           k[2] <= l[2], l[2] <= k[2]
    PROVE  k = l
<1>1. /\ k \in Party \X (1..MaxKeys) /\ l \in Party \X (1..MaxKeys)
      /\ k[1] = l[1] /\ MaxKeys \in Nat
  BY KeysOffered, Assumptions DEF Key, Owner, Assumptions
<1> QED
  BY <1>1

\* What an end offered is another's offer for nobody.
LEMMA OneOwner ==
    ASSUME HandshakeInv, NEW x \in Party, NEW y \in Party,
           NEW k \in offered[x], k \in offered[y]
    PROVE  x = y
BY KeysOffered

LEMMA SentStays ==
    ASSUME HandshakeInv, [Next]_vars, NEW k, Sent(k)
    PROVE  Sent(k)'
<1>1. chat \subseteq chat'
  BY NextGrows DEF Grows
<1> QED
  BY <1>1 DEF Sent

\* Secrets that were dealt stay so.
LEMMA DealtStays ==
    ASSUME HandshakeInv, [Next]_vars, UNCHANGED offered, NEW secret, Dealt(secret)
    PROVE  Dealt(secret)'
<1>1. PICK x \in Party, k \in Key, a \in Key :
        /\ secret = {k, a} /\ k \in offered[x]
        /\ \A y \in Party : a \notin offered[y]
        /\ secret \in held[Other(x)]
        /\ Sent(k)
  BY DEF Dealt
<1>2. secret \in held'[Other(x)]
  BY <1>1, OtherParty, NextGrows DEF Grows
<1>3. Sent(k)'
  BY <1>1, SentStays
<1> QED
  BY <1>1, <1>2, <1>3 DEF Dealt, Other

\* Where no key, secret or session is new, what is pending or open decides.
LEMMA AgreedRest ==
    ASSUME HandshakeInv, Agreed, [Next]_vars, UNCHANGED <<offered, held>>, SecretsRest,
           PendingOpen', OpenRests'
    PROVE  Agreed'
<1>1. \A x \in Party : Open(x)' = Open(x) /\ \A k : Has(x, k)' <=> Has(x, k)
  BY DEF Open, Has, Newest
<1>2. Deals'
  BY DealtStays DEF Agreed, Deals
<1>3. DealtOnce'
  BY DEF Agreed, DealtOnce
<1>4. OpenMet'
  <2> SUFFICES ASSUME NEW x \in Party, NEW k \in Open(x), Has(Other(x), k),
                      Active(stored[Other(x)])'
               PROVE  k \in stored'[Other(x)].secret
    BY <1>1, OtherParty DEF OpenMet, Other
  <2>1. /\ stored'[Other(x)].secret # {} /\ Other(x) \in Party
        /\ stored'[Other(x)].secret = stored[Other(x)].secret
    BY OtherParty DEF SecretsRest, Active, Other
  <2> QED
    BY <2>1 DEF Agreed, OpenMet, Active
<1>5. OneSided'
  BY <1>1, OtherParty DEF Agreed, OneSided, Other
<1>6. SessionsAgree'
  <2> SUFFICES ASSUME NEW p \in Party, NEW q \in Party,
                      stored'[p].secret # {}, stored'[q].secret # {}
               PROVE  stored'[p].secret = stored'[q].secret
    BY DEF SessionsAgree, Active
  <2>1. stored'[p].secret = stored[p].secret /\ stored'[q].secret = stored[q].secret
    BY DEF SecretsRest
  <2> QED
    BY <2>1 DEF Agreed, SessionsAgree, Active
<1> QED
  BY <1>2, <1>3, <1>4, <1>5, <1>6 DEF Agreed

\* Nothing begins: settings are kept, or lose a session or what was pending.
LEMMA AgreedStays ==
    ASSUME HandshakeInv, Agreed, [Next]_vars, UNCHANGED <<offered, held>>, SecretsRest,
           SavedRest, \A x \in Party : stored'[x].pending \subseteq stored[x].pending
    PROVE  Agreed'
<1>1. \A x \in Party : Open(x)' = Open(x) /\ \A k : Has(x, k)' <=> Has(x, k)
  BY DEF Open, Has, Newest
<1>2. PendingOpen'
  <2> SUFFICES ASSUME NEW x \in Party, NEW k \in stored'[x].pending
               PROVE  /\ ~Has(x, k)'
                      /\ \A l \in offered[x] : Saved(x, l)' => l[2] <= k[2]
    BY DEF PendingOpen
  <2> QED
    BY <1>1 DEF Agreed, PendingOpen, SavedRest
<1>3. OpenRests'
  <2> SUFFICES ASSUME NEW x \in Party, NEW k \in Open(x), Saved(x, k)'
               PROVE  stored'[x].secret = {}
    BY <1>1 DEF OpenRests, Active
  <2>1. Saved(x, k)
    BY DEF SavedRest, Open
  <2> QED
    BY <2>1 DEF Agreed, OpenRests, Active, SecretsRest
<1> QED
  BY <1>2, <1>3, AgreedRest

\* An offer is saved: it is the newest, and its end has no session.
LEMMA AgreedInitSave ==
    ASSUME HandshakeInv, OffersOnce, Agreed, [Next]_vars, upset' = {},
           NEW p \in Party, NEW s \in Slot, InitSave(p, s)
    PROVE  Agreed'
<1> TypeOK
  BY DEF HandshakeInv
<1>1. PICK j \in Job : j = job[p][s] /\ j.view \in Settings
  BY InJob DEF InitSave, In, HandshakeInv, JobsSound, Sound, Own
<1>2. PICK key \in Key : key = j.key /\ key \in offered[p]
  BY <1>1, InitSaves, OffersOwn
<1>3. /\ Active(j.view) => "over" \in upset'
      /\ ~Newest(p, key) => "over" \in upset'
      /\ Store(p, [j.view EXCEPT !.pending = {key}])
      /\ UNCHANGED <<offered, held, chat>>
  BY <1>1, <1>2 DEF InitSave
<1>4. j.view.secret = {} /\ \A l \in offered[p] : l[2] <= key[2]
  BY <1>3 DEF Active, Newest
<1>5. PICK new : new = [j.view EXCEPT !.pending = {key}]
  OBVIOUS
<1>6. new.secret = {} /\ new.pending = {key}
  BY <1>1, <1>4, <1>5 DEF Settings
<1>7. /\ stored'[p] = new
      /\ \A x \in Party : x # p => stored'[x] = stored[x]
  BY <1>3, <1>5 DEF Store, TypeOK
<1>8. \A x \in Party : Open(x)' = Open(x) /\ \A k : Has(x, k)' <=> Has(x, k)
  BY <1>3 DEF Open, Has, Newest
<1>9. SecretsRest
  BY <1>6, <1>7 DEF SecretsRest
<1>10. ~Has(p, key)
  <2> SUFFICES ASSUME NEW secret \in held[p], key \in secret PROVE FALSE
    BY DEF Has
  <2>1. Dealt(secret)
    BY DEF Agreed, Deals
  <2>2. Sent(key)
    BY <1>2, <2>1 DEF Dealt
  <2> QED
    BY <1>1, <1>2, <2>2, InitSaves DEF OffersOnce, Unsent
<1>11. ASSUME NEW x \in Party, x # p, NEW l \in offered[x], Saved(x, l)'
       PROVE  Saved(x, l)
  <2> SUFFICES ASSUME NEW t \in Slot, InitSave(x, t) PROVE FALSE
    BY <1>11, SavedLater
  <2>1. Early(x, t) /\ ~Early(x, t)'
    BY InitSaves
  <2>2. job'[x][t] = job[x][t]
    BY <1>11, InitSaves
  <2> QED
    BY <2>1, <2>2 DEF Early
<1>12. PendingOpen'
  <2> SUFFICES ASSUME NEW x \in Party, NEW k \in stored'[x].pending
               PROVE  /\ ~Has(x, k)
                      /\ \A l \in offered[x] : Saved(x, l)' => l[2] <= k[2]
    BY <1>3, <1>8 DEF PendingOpen
  <2>1. CASE x = p
    BY <1>4, <1>6, <1>7, <1>10, <2>1
  <2>2. CASE x # p
    BY <1>7, <1>11, <2>2 DEF Agreed, PendingOpen
  <2> QED
    BY <2>1, <2>2
<1>13. OpenRests'
  <2> SUFFICES ASSUME NEW x \in Party, NEW k \in Open(x), Saved(x, k)'
               PROVE  stored'[x].secret = {}
    BY <1>8 DEF OpenRests, Active
  <2>1. CASE x = p
    BY <1>6, <1>7, <2>1
  <2>2. CASE x # p
    <3>1. Saved(x, k)
      BY <1>11, <2>2 DEF Open
    <3> QED
      BY <1>7, <2>2, <3>1 DEF Agreed, OpenRests, Active
  <2> QED
    BY <2>1, <2>2
<1> QED
  BY <1>3, <1>9, <1>12, <1>13, AgreedRest

\* A new offer: its key is used for nothing yet.
LEMMA AgreedBeginInit ==
    ASSUME HandshakeInv, OffersOnce, Agreed, [Next]_vars,
           NEW p \in Party, NEW call, BeginInit(p, call)
    PROVE  Agreed'
<1> TypeOK
  BY DEF HandshakeInv
<1>1. PICK key \in Key, s \in Slot :
        /\ \A q \in Party : key \notin offered[q]
        /\ \A q \in Party : \A k \in offered[q] : ~(key[2] <= k[2])
        /\ offered' = [offered EXCEPT ![p] = @ \union {key}]
        /\ ~Used(key) /\ ~Sent(key)
        /\ UNCHANGED <<held, chat, stored, upset>>
        /\ job'[p][s].key = key /\ Early(p, s)'
        /\ \A q \in Party, t \in Slot : q # p \/ t # s => job'[q][t] = job[q][t]
  BY OfferBegins
<1>2. /\ offered'[p] = offered[p] \union {key}
      /\ \A x \in Party : x # p => offered'[x] = offered[x]
  BY <1>1 DEF TypeOK
<1>3. \A x \in Party : \A secret \in held[x] : key \notin secret
  BY <1>1 DEF Used
<1>4. ASSUME NEW x \in Party, NEW l \in offered[x], Saved(x, l)'
      PROVE  Saved(x, l)
  <2> SUFFICES ASSUME NEW t \in Slot, InitSave(x, t) PROVE FALSE
    BY <1>4, SavedLater
  <2>1. made' = made /\ made' = made + 1 /\ made \in 0..MaxKeys /\ MaxKeys \in Nat
    BY Assumptions DEF InitSave, BeginInit, TypeOK, Assumptions
  <2> QED
    BY <2>1
<1>5. ~Saved(p, key)'
  <2>1. ~Sent(key)'
    BY <1>1 DEF Sent
  <2>2. ASSUME NEW t \in Slot, Offering(p, t)', ~Early(p, t)', job'[p][t].key = key
        PROVE  FALSE
    <3>1. job'[p][t] = job[p][t]
      BY <1>1, <2>2
    <3>2. job[p][t].key \in offered[p]
      BY <2>2, <3>1, OffersOwn DEF Offering
    <3> QED
      BY <1>1, <2>2, <3>1, <3>2
  <2> QED
    BY <2>1, <2>2 DEF Saved
<1>6. \A x \in Party : \A k : Has(x, k)' <=> Has(x, k)
  BY <1>1 DEF Has
<1>7. ASSUME NEW x \in Party, NEW k \in Open(x)', k # key
      PROVE  k \in Open(x)
  <2>1. k \in offered[x]
    BY <1>2, <1>7 DEF Open
  <2>2. \A l \in offered[x] : l[2] <= k[2]
    BY <1>2, <1>7 DEF Open, Newest
  <2> QED
    BY <1>6, <1>7, <2>1, <2>2 DEF Open, Newest
<1>8. Deals'
  <2> SUFFICES ASSUME NEW q \in Party, NEW secret \in held[q] PROVE Dealt(secret)'
    BY <1>1 DEF Deals
  <2>1. PICK x \in Party, k \in Key, a \in Key :
          /\ secret = {k, a} /\ k \in offered[x]
          /\ \A y \in Party : a \notin offered[y]
          /\ secret \in held[Other(x)]
          /\ Sent(k)
    BY DEF Agreed, Deals, Dealt
  <2>2. \A y \in Party : a \notin offered'[y]
    BY <1>2, <1>3, <2>1
  <2>3. k \in offered'[x] /\ secret \in held'[Other(x)]
    BY <1>1, <1>2, <2>1
  <2>4. Sent(k)'
    BY <2>1, SentStays
  <2> QED
    BY <2>1, <2>2, <2>3, <2>4 DEF Dealt, Other
<1>9. DealtOnce'
  BY <1>1, <1>2, <1>3 DEF Agreed, DealtOnce
<1>10. PendingOpen'
  <2> SUFFICES ASSUME NEW x \in Party, NEW k \in stored[x].pending
               PROVE  /\ ~Has(x, k)
                      /\ \A l \in offered'[x] : Saved(x, l)' => l[2] <= k[2]
    BY <1>1, <1>6 DEF PendingOpen
  <2>1. ~Has(x, k) /\ \A l \in offered[x] : Saved(x, l) => l[2] <= k[2]
    BY DEF Agreed, PendingOpen
  <2>2. ASSUME NEW l \in offered'[x], Saved(x, l)' PROVE l \in offered[x]
    BY <1>2, <1>5, <2>2
  <2> QED
    BY <1>4, <2>1, <2>2
<1>11. OpenRests'
  <2> SUFFICES ASSUME NEW x \in Party, NEW k \in Open(x)', Saved(x, k)'
               PROVE  ~Active(stored[x])
    BY <1>1 DEF OpenRests, Active
  <2>1. k # key
    <3>1. k \in offered'[x]
      BY DEF Open
    <3> QED
      BY <1>1, <1>2, <1>5, <3>1
  <2>2. k \in Open(x) /\ k \in offered[x]
    BY <1>7, <2>1 DEF Open
  <2> QED
    BY <1>4, <2>2 DEF Agreed, OpenRests
<1>12. OpenMet'
  <2> SUFFICES ASSUME NEW x \in Party, NEW k \in Open(x)', Has(Other(x), k)
               PROVE  ~Active(stored[Other(x)]) \/ k \in stored[Other(x)].secret
    BY <1>1, <1>6, OtherParty DEF OpenMet, Active, Other
  <2>1. k # key
    BY <1>3, OtherParty DEF Has
  <2> QED
    BY <1>7, <2>1 DEF Agreed, OpenMet
<1>13. OneSided'
  <2> SUFFICES ASSUME NEW x \in Party, NEW k \in Open(x)', NEW l \in Open(Other(x))',
                      Has(Other(x), k), Has(x, l)
               PROVE  FALSE
    BY <1>6, OtherParty DEF OneSided, Other
  <2>1. k # key /\ l # key /\ Other(x) \in Party
    BY <1>3, OtherParty DEF Has
  <2> QED
    BY <1>7, <2>1 DEF Agreed, OneSided
<1>14. SessionsAgree'
  BY <1>1 DEF Agreed, SessionsAgree, Active
<1> QED
  BY <1>8, <1>9, <1>10, <1>11, <1>12, <1>13, <1>14 DEF Agreed

LEMMA SessionIs ==
    ASSUME NEW settings \in Settings, NEW secret, NEW time
    PROVE  /\ Established(settings, secret, time).secret = secret
           /\ Established(settings, secret, time).pending = {}
BY DEF Settings, Established, Archive

\* A session of p that begins ends its wait, and is the one of the other end
\* if that has one.
LEMMA AgreedSession ==
    ASSUME HandshakeInv, Agreed, [Next]_vars, NEW p \in Party, NEW x \in Party,
           x = Other(p), NEW secret,
           SavedRest, UNCHANGED offered,
           held'[p] = held[p] \union {secret}, held'[x] = held[x],
           stored'[p].secret = secret, stored'[p].pending = {},
           stored'[x] = stored[x], Dealt(secret)',
           \A k \in offered[p] : ~(Newest(p, k) /\ ~Has(p, k)'),
           \A q \in Party : \A other \in held[q] : \A y \in Party : \A k \in offered[y] :
                k \in secret /\ k \in other => secret = other,
           \A k \in Open(x) : Has(p, k)' => k \in secret,
           Active(stored[x]) => stored[x].secret = secret
    PROVE  Agreed'
<1>0. /\ Other(p) = x /\ Other(x) = p /\ p # x
      /\ \A q \in Party : q = p \/ q = x
  BY OtherParty
<1>1. /\ Open(x)' = Open(x) /\ Open(p)' = {}
      /\ \A k : Has(x, k)' <=> Has(x, k)
  BY DEF Open, Has, Newest
<1>2. Deals'
  <2> SUFFICES ASSUME NEW q \in Party, NEW t \in held'[q] PROVE Dealt(t)'
    BY DEF Deals
  <2>1. CASE t = secret
    BY <2>1
  <2>2. CASE t # secret
    <3>1. t \in held[q]
      BY <1>0, <2>2
    <3> QED
      BY <3>1, DealtStays DEF Agreed, Deals
  <2> QED
    BY <2>1, <2>2
<1>3. DealtOnce'
  <2> SUFFICES ASSUME NEW q \in Party, NEW r \in Party,
                      NEW t \in held'[q], NEW u \in held'[r],
                      NEW y \in Party, NEW k \in offered[y], k \in t, k \in u
               PROVE  t = u
    BY DEF DealtOnce
  <2>1. (t = secret \/ t \in held[q]) /\ (u = secret \/ u \in held[r])
    BY <1>0
  <2> QED
    BY <2>1 DEF Agreed, DealtOnce
<1>4. PendingOpen'
  <2> SUFFICES ASSUME NEW y \in Party, NEW k \in stored'[y].pending
               PROVE  /\ ~Has(y, k)'
                      /\ \A l \in offered[y] : Saved(y, l)' => l[2] <= k[2]
    BY DEF PendingOpen
  <2>1. y = x /\ k \in stored[x].pending
    BY <1>0
  <2> QED
    BY <1>1, <2>1 DEF Agreed, PendingOpen, SavedRest
<1>5. OpenRests'
  <2> SUFFICES ASSUME NEW y \in Party, NEW k \in Open(y)', Saved(y, k)'
               PROVE  stored'[y].secret = {}
    BY DEF OpenRests, Active
  <2>1. y = x /\ k \in Open(x) /\ k \in offered[x]
    BY <1>0, <1>1 DEF Open
  <2> QED
    BY <2>1 DEF Agreed, OpenRests, Active, SavedRest
<1>6. OpenMet'
  <2> SUFFICES ASSUME NEW y \in Party, NEW k \in Open(y)', Has(Other(y), k)'
               PROVE  k \in stored'[Other(y)].secret
    BY DEF OpenMet, Other
  <2>1. y = x /\ Other(y) = p /\ k \in Open(x)
    BY <1>0, <1>1
  <2> QED
    BY <2>1
<1>7. OneSided'
  <2> SUFFICES ASSUME NEW y \in Party, NEW k \in Open(y)', NEW l \in Open(Other(y))'
               PROVE  FALSE
    BY DEF OneSided, Other
  <2> QED
    BY <1>0, <1>1
<1>8. SessionsAgree'
  <2> SUFFICES ASSUME NEW q \in Party, NEW r \in Party,
                      stored'[q].secret # {}, stored'[r].secret # {}
               PROVE  stored'[q].secret = stored'[r].secret
    BY DEF SessionsAgree, Active
  <2> QED
    BY <1>0 DEF Active
<1> QED
  BY <1>2, <1>3, <1>4, <1>5, <1>6, <1>7, <1>8 DEF Agreed

\* Which offers a step has saved that does not save an offer
LEMMA NothingSaved ==
    ASSUME HandshakeInv, [Next]_vars, \A p \in Party, s \in Slot : ~InitSave(p, s)
    PROVE  SavedRest
BY SavedLater DEF SavedRest

\* accept_e2e_handshake: the offer is open, and the other end has no session.
LEMMA AgreedAgreeSave ==
    ASSUME HandshakeInv, Agreed, [Next]_vars, upset' = {}, SavedRest,
           NEW p \in Party, NEW s \in Slot, AgreeSave(p, s)
    PROVE  Agreed'
<1> TypeOK
  BY DEF HandshakeInv
<1>0. PICK x \in Party : /\ x = Other(p) /\ Other(x) = p /\ x # p
                         /\ \A q \in Party : q = p \/ q = x
  BY OtherParty
<1>1. PICK j \in Job : /\ j = job[p][s] /\ Sound(p, j) /\ Agreeing(p, s)
                       /\ j.do = "agree" /\ j.at = "save"
  BY InJob DEF AgreeSave, In, Agreeing, HandshakeInv, JobsSound
<1>2. PICK a \in Key, k \in Key :
        a = j.key /\ k = j.msg.key /\ Owner(a) = p /\ k \in offered[x] /\ Sent(k)
  <2>1. Got(p, j.msg) /\ j.msg.kind = "init"
    BY <1>1 DEF Sound
  <2>2. j.msg \in Messages /\ Honest(j.msg) /\ j.msg.from # p /\ j.msg \in chat
    BY <2>1 DEF Got, HandshakeInv, MessagesHonest, TypeOK
  <2>3. j.msg.key \in offered[x]
    BY <1>0, <2>1, <2>2 DEF Honest, Messages
  <2>4. j.key \in Key /\ Owner(j.key) = p
    BY <1>1 DEF Sound
  <2> QED
    BY <2>1, <2>2, <2>3, <2>4, KeysOffered DEF Sent
<1>3. /\ \A q \in Party : a \notin offered[q]
      /\ ~Used(a)
  <2>1. a \notin offered[p] /\ ~Used(a)
    BY <1>1, <1>2 DEF HandshakeInv, AnswersFresh
  <2> QED
    BY <1>2, <2>1, KeysOffered
<1>4. PICK secret : secret = {a, k}
  OBVIOUS
<1>5. /\ Store(p, Established(j.view, secret, j.stamp))
      /\ held' = [held EXCEPT ![p] = @ \union {secret}]
      /\ UNCHANGED <<offered, chat>>
  BY <1>1, <1>2, <1>4 DEF AgreeSave
<1>6. /\ Open(p) # {} => "glare" \in upset'
      /\ Has(p, k) => "twice" \in upset'
      /\ ~Newest(x, k) => "late" \in upset'
  BY <1>0, <1>1, <1>2 DEF AgreeSave
<1>7. Open(p) = {} /\ ~Has(p, k) /\ Newest(x, k)
  BY <1>6
<1>8. ~Has(x, k)
  <2> SUFFICES ASSUME NEW t \in held[x], k \in t PROVE FALSE
    BY DEF Has
  <2>1. PICK y \in Party, l \in Key, b \in Key :
          /\ t = {l, b} /\ l \in offered[y]
          /\ \A z \in Party : b \notin offered[z]
          /\ t \in held[Other(y)]
    BY DEF Agreed, Deals, Dealt
  <2>2. k = l
    BY <1>2, <2>1
  <2>3. y = x
    BY <1>2, <2>1, <2>2, OneOwner
  <2> QED
    BY <1>0, <1>7, <2>1, <2>3 DEF Has
<1>9. k \in Open(x)
  BY <1>2, <1>7, <1>8 DEF Open
<1>10. ~Active(stored[x])
  BY <1>2, <1>9 DEF Agreed, OpenRests, Saved
<1>11. /\ stored'[p].secret = secret /\ stored'[p].pending = {}
       /\ stored'[x] = stored[x]
       /\ held'[p] = held[p] \union {secret} /\ held'[x] = held[x]
  <2>1. j.view \in Settings
    BY <1>1 DEF Sound, Own
  <2>2. PICK new : new = Established(j.view, secret, j.stamp)
    OBVIOUS
  <2>3. new.secret = secret /\ new.pending = {}
    BY <2>1, <2>2, SessionIs
  <2>4. stored' = [stored EXCEPT ![p] = new]
    BY <1>5, <2>2 DEF Store
  <2> QED
    BY <1>0, <1>5, <2>3, <2>4 DEF TypeOK
<1>12. Dealt(secret)'
  <2>1. secret \in held'[Other(x)] /\ Sent(k)'
    BY <1>0, <1>2, <1>4, <1>11, SentStays
  <2>2. k \in offered'[x] /\ \A y \in Party : a \notin offered'[y]
    BY <1>2, <1>3, <1>5
  <2> QED
    BY <1>4, <2>1, <2>2 DEF Dealt, Other
<1>13. ASSUME NEW l \in offered[p], Newest(p, l), ~Has(p, l)' PROVE FALSE
  <2>1. ~Has(p, l)
    BY <1>11, <1>13 DEF Has
  <2> QED
    BY <1>7, <1>13, <2>1 DEF Open
<1>14. ASSUME NEW q \in Party, NEW other \in held[q], NEW y \in Party,
              NEW l \in offered[y], l \in secret, l \in other
       PROVE  FALSE
  <2>1. l = k
    BY <1>3, <1>4, <1>14
  <2> QED
    BY <1>0, <1>7, <1>8, <1>14, <2>1 DEF Has
<1>15. ASSUME NEW l \in Open(x) PROVE l \in secret
  <2>1. l \in offered[x] /\ l[2] <= k[2] /\ k[2] <= l[2]
    BY <1>2, <1>7, <1>15 DEF Open, Newest
  <2> QED
    BY <1>2, <1>4, <2>1, SameKey
<1> QED
  BY <1>0, <1>5, <1>10, <1>11, <1>12, <1>13, <1>14, <1>15, AgreedSession

\* process_e2e_accept: what is pending is the offer that was answered.
LEMMA AgreedProcessSave ==
    ASSUME HandshakeInv, KeysKept, Agreed, [Next]_vars, upset' = {}, upset = {},
           SavedRest, NEW p \in Party, NEW s \in Slot, ProcessSave(p, s)
    PROVE  Agreed'
<1> TypeOK
  BY DEF HandshakeInv
<1>0. PICK x \in Party : /\ x = Other(p) /\ Other(x) = p /\ x # p
                         /\ \A q \in Party : q = p \/ q = x
  BY OtherParty
<1>1. PICK j \in Job : /\ j = job[p][s] /\ Sound(p, j)
                       /\ j.do = "process" /\ j.at = "save"
  BY InJob DEF ProcessSave, In, HandshakeInv, JobsSound
<1>2. /\ Got(p, j.msg) /\ j.msg.kind = "accept" /\ j.view.pending # {}
      /\ Own(p, j.view)
  BY <1>1 DEF Sound
<1>3. PICK mine \in Key : mine \in offered[p] /\ j.view.pending = {mine}
  <2>1. PICK mine \in Key : j.view.pending = {mine}
    BY <1>2 DEF Settings, Own
  <2> QED
    BY <1>2, <2>1 DEF Own
<1>4. PICK k \in Key, a \in Key :
        /\ k = j.msg.to /\ a = j.msg.key /\ k \in offered[p] /\ Owner(a) = x
        /\ {a, k} \in held[x]
  <2>1. /\ j.msg \in chat /\ j.msg \in Messages /\ Honest(j.msg)
        /\ j.msg.from \in Party /\ j.msg.from = x
    BY <1>0, <1>2 DEF Got, HandshakeInv, MessagesHonest, TypeOK, Messages
  <2> QED
    BY <1>0, <1>2, <2>1, KeysOffered DEF Honest
<1>5. /\ \A q \in Party : a \notin offered[q]
      /\ Sent(k)
  <2>1. PICK y \in Party, l \in Key, b \in Key :
          /\ {a, k} = {l, b} /\ l \in offered[y]
          /\ \A z \in Party : b \notin offered[z]
          /\ Sent(l)
    BY <1>4 DEF Agreed, Deals, Dealt
  <2>2. k = l /\ a = b
    BY <1>4, <2>1
  <2> QED
    BY <2>1, <2>2
<1>6. PICK secret : secret = {mine, a}
  OBVIOUS
<1>7. PICK new : new = Established(j.view, secret, j.stamp)
  OBVIOUS
<1>8. /\ Store(p, new)
      /\ held' = [held EXCEPT ![p] = @ \union {secret}]
      /\ Stale(p, new, j.view) \subseteq upset'
      /\ ~Newest(p, k) => "late" \in upset'
      /\ UNCHANGED <<offered, chat>>
  <2>1. j.view.pending \union {j.msg.key} = secret
    BY <1>3, <1>4, <1>6
  <2> QED
    BY <1>1, <1>4, <1>7, <2>1 DEF ProcessSave
<1>9. Newest(p, k) /\ (j.view = stored[p] \/ new = stored[p])
  BY <1>8 DEF Stale
<1>10. new.secret = secret /\ new.pending = {}
  BY <1>2, <1>7, SessionIs DEF Own
<1>11. /\ stored'[p].secret = secret /\ stored'[p].pending = {}
       /\ stored'[x] = stored[x] /\ stored'[p] = new
       /\ held'[p] = held[p] \union {secret} /\ held'[x] = held[x]
  <2>1. stored' = [stored EXCEPT ![p] = new]
    BY <1>8 DEF Store
  <2> QED
    BY <1>0, <1>8, <1>10, <2>1 DEF TypeOK
<1>12. \A q \in Party : Active(stored[q]) => stored[q].secret \in held[q]
  BY DEF KeysKept, Keys, Active
\* The session was stored before.
<1>13. CASE new = stored[p]
  <2>1. Active(stored[p]) /\ stored[p].secret = secret
    BY <1>6, <1>10, <1>13 DEF Active
  <2>2. held'[p] = held[p]
    BY <1>11, <1>12, <2>1
  <2>3. UNCHANGED held
    BY <1>8, <2>2 DEF TypeOK
  <2>4. \A q \in Party : stored'[q] = stored[q]
    BY <1>0, <1>11, <1>13
  <2>5. SecretsRest /\ \A q \in Party : stored'[q].pending \subseteq stored[q].pending
    BY <2>4 DEF SecretsRest
  <2> QED
    BY <1>8, <2>3, <2>5, AgreedStays
<1>14. CASE j.view = stored[p]
  <2>1. mine = k
    <3>1. \A l \in offered[p] : Saved(p, l) => l[2] <= mine[2]
      BY <1>3, <1>14 DEF Agreed, PendingOpen
    <3>2. k[2] <= mine[2] /\ mine[2] <= k[2]
      BY <1>3, <1>4, <1>5, <1>9, <3>1 DEF Saved, Newest
    <3> QED
      BY <1>3, <1>4, <3>2, SameKey
  <2>2. secret = {a, k} /\ secret \in held[x]
    BY <1>4, <1>6, <2>1
  <2>3. ~Has(p, k) /\ k \in Open(p) /\ Has(x, k)
    <3>1. ~Has(p, k)
      BY <1>3, <1>14, <2>1 DEF Agreed, PendingOpen
    <3> QED
      BY <1>4, <1>9, <2>2, <3>1 DEF Open, Has
  <2>4. Active(stored[x]) => stored[x].secret = secret
    <3> SUFFICES ASSUME Active(stored[x]) PROVE stored[x].secret = secret
      OBVIOUS
    <3>1. k \in stored[x].secret
      BY <1>0, <2>3 DEF Agreed, OpenMet
    <3> QED
      BY <1>4, <1>12, <2>2, <3>1 DEF Agreed, DealtOnce
  <2>5. Dealt(secret)'
    BY <1>8, <2>2, DealtStays DEF Agreed, Deals
  <2>6. ASSUME NEW l \in offered[p], Newest(p, l), ~Has(p, l)' PROVE FALSE
    <3>1. l = k
      BY <1>4, <1>9, <2>6, SameKey DEF Newest
    <3> QED
      BY <1>11, <2>2, <2>6, <3>1 DEF Has
  <2>7. ASSUME NEW q \in Party, NEW other \in held[q], NEW y \in Party,
               NEW l \in offered[y], l \in secret, l \in other
        PROVE  secret = other
    BY <2>2, <2>7 DEF Agreed, DealtOnce
  <2>8. ASSUME NEW l \in Open(x), Has(p, l)' PROVE l \in secret
    <3>1. CASE Has(p, l)
      BY <1>0, <2>3, <2>8, <3>1 DEF Agreed, OneSided
    <3>2. CASE ~Has(p, l)
      BY <1>11, <2>8, <3>2 DEF Has
    <3> QED
      BY <3>1, <3>2
  <2> QED
    BY <1>0, <1>8, <1>11, <2>4, <2>5, <2>6, <2>7, <2>8, AgreedSession
<1> QED
  BY <1>9, <1>13, <1>14

\* A write of the page that replaces what it was made of begins nothing.
LEMMA AgreedWrite ==
    ASSUME HandshakeInv, WritesKeep, Agreed, [Next]_vars, upset' = {}, SavedRest,
           NEW p \in Party, Write(p)
    PROVE  Agreed'
<1>1. PICK w \in writes[p] :
        /\ Store(p, w.data)
        /\ Stale(p, w.data, w.of) \subseteq upset'
        /\ UNCHANGED <<offered, held>>
  BY DEF Write
<1>2. Lesser(w.data, w.of) /\ (w.of = stored[p] \/ w.data = stored[p])
  BY <1>1 DEF WritesKeep, Stale
<1>3. /\ w.data.secret \in {{}, stored[p].secret}
      /\ w.data.pending \subseteq stored[p].pending
  BY <1>2 DEF Lesser
<1>4. /\ stored'[p] = w.data
      /\ \A x \in Party : x # p => stored'[x] = stored[x]
  BY <1>1 DEF Store, HandshakeInv, TypeOK
<1>5. SecretsRest /\ \A x \in Party : stored'[x].pending \subseteq stored[x].pending
  BY <1>3, <1>4 DEF SecretsRest
<1> QED
  BY <1>1, <1>5, AgreedStays

LEMMA AgreedNext ==
    HandshakeInv /\ WritesKeep /\ KeysKept /\ OffersOnce /\ AgreedInv /\ [Next]_vars
        => AgreedInv'
<1> SUFFICES ASSUME HandshakeInv, WritesKeep, KeysKept, OffersOnce, AgreedInv,
                    [Next]_vars, upset' = {}
             PROVE  Agreed'
  BY DEF AgreedInv
<1>1. upset \subseteq upset'
  <2>1. ASSUME NEW p \in Party, NEW s \in Slot, Step(p, s) PROVE upset \subseteq upset'
    BY <2>1 DEF Step, InitLoad, InitSave, AgreeLoad, AgreeSave, ProcessLoad,
       ProcessSave, Get, Set, SendInit, SendAccept, SendDisable, ClearPage, Handle,
       CallClears
  <2>2. ASSUME NEW p \in Party, User(p) \/ Write(p) \/ Check(p) \/ CallHears(p)
        PROVE  upset \subseteq upset'
    BY <2>2 DEF User, SwitchOn, SwitchOff, Agree, Deny, Dismiss, Restart, CallOffers,
       CallAgrees, BeginInit, BeginAgree, Write, Check, CallHears
  <2> QED
    BY <2>1, <2>2 DEF Next, vars
<1>2. upset = {} /\ Agreed
  BY <1>1 DEF AgreedInv
<1>3. CASE \E p \in Party, s \in Slot : InitSave(p, s)
  BY <1>2, <1>3, AgreedInitSave
<1>4. CASE \A p \in Party, s \in Slot : ~InitSave(p, s)
  <2>1. SavedRest
    BY <1>4, NothingSaved
  <2>2. CASE UNCHANGED <<stored, offered, held>>
    <3>1. SecretsRest /\ \A x \in Party : stored'[x].pending \subseteq stored[x].pending
      BY <2>2 DEF SecretsRest
    <3> QED
      BY <1>2, <2>1, <2>2, <3>1, AgreedStays
  <2>3. ASSUME NEW p \in Party, NEW s \in Slot, Step(p, s) PROVE Agreed'
    <3>1. CASE AgreeSave(p, s)
      BY <1>2, <2>1, <3>1, AgreedAgreeSave
    <3>2. CASE ProcessSave(p, s)
      BY <1>2, <2>1, <3>2, AgreedProcessSave
    <3>3. CASE ~AgreeSave(p, s) /\ ~ProcessSave(p, s)
      BY <1>4, <2>2, <2>3, <3>3 DEF Step, InitLoad, AgreeLoad, ProcessLoad, Get, Set,
         SendInit, SendAccept, SendDisable, ClearPage, Handle, CallClears
    <3> QED
      BY <3>1, <3>2, <3>3
  <2>4. ASSUME NEW p \in Party, User(p) PROVE Agreed'
    <3>1. ASSUME NEW call, BeginInit(p, call) PROVE Agreed'
      BY <1>2, <3>1, AgreedBeginInit
    <3>2. CASE SwitchOn(p) \/ CallOffers(p)
      BY <3>1, <3>2 DEF SwitchOn, CallOffers
    <3>3. CASE ~SwitchOn(p) /\ ~CallOffers(p)
      BY <2>2, <2>4, <3>3 DEF User, SwitchOff, Agree, Deny, Dismiss, Restart,
         CallAgrees, BeginAgree
    <3> QED
      BY <3>2, <3>3
  <2>5. ASSUME NEW p \in Party, Write(p) PROVE Agreed'
    BY <1>2, <2>1, <2>5, AgreedWrite
  <2>6. ASSUME NEW p \in Party, Check(p) \/ CallHears(p) PROVE Agreed'
    BY <2>2, <2>6 DEF Check, CallHears
  <2>7. CASE UNCHANGED vars
    BY <2>2, <2>7 DEF vars
  <2> QED
    BY <2>3, <2>4, <2>5, <2>6, <2>7 DEF Next
<1> QED
  BY <1>3, <1>4

THEOREM AgreementInvariant == Spec => [](OffersOnce /\ AgreedInv)
<1>1. Init => WritesKeep /\ KeysKept
  BY Beginnings DEF Init, WritesKeep, KeysKept
<1>2. Init => OffersOnce /\ AgreedInv
  <2> SUFFICES ASSUME Init PROVE OffersOnce /\ AgreedInv
    OBVIOUS
  <2>1. \A p \in Party : offered[p] = {} /\ held[p] = {} /\ stored[p] = Fresh
    BY DEF Init
  <2>2. Fresh.secret = {} /\ Fresh.pending = {}
    BY DEF Fresh
  <2>3. OffersOnce
    BY DEF Init, OffersOnce, Offering
  <2>4. Deals /\ DealtOnce
    BY <2>1 DEF Deals, DealtOnce
  <2>5. \A p \in Party : Open(p) = {} /\ ~Active(stored[p]) /\ stored[p].pending = {}
    BY <2>1, <2>2 DEF Open, Active
  <2>6. PendingOpen /\ OpenRests /\ OpenMet /\ OneSided /\ SessionsAgree
    BY <2>5 DEF PendingOpen, OpenRests, OpenMet, OneSided, SessionsAgree
  <2> QED
    BY <2>3, <2>4, <2>6 DEF AgreedInv, Agreed
<1> QED
  BY <1>1, <1>2, WritesKeepNext, KeysKeptNext, OffersOnceNext, AgreedNext,
     HandshakeInvariant, PTL DEF Spec

\* For any number of keys, activities, restarts, losses and repetitions, in calls
\* and out of them: while none of the named irregularities has happened, two ends
\* that have a session each have the same one (init_e2e_handshake,
\* accept_e2e_handshake, process_e2e_accept).
THEOREM EndsAgree == Spec => []Agreement
<1>1. AgreedInv => Agreement
  BY DEF AgreedInv, Agreed, SessionsAgree, Agreement
<1> QED
  BY <1>1, AgreementInvariant, PTL
=============================================================================
