------------------------------ MODULE ChatList ------------------------------
(***************************************************************************)
(* The messages that an open chat shows (components/ChatWindow.svelte and  *)
(* ChatWindow/chatMessagesLoader.js): pages of the history are fetched and *)
(* merged while the server pushes new, edited and deleted messages, and    *)
(* the user scrolls, jumps to the bottom and sends.                        *)
(*                                                                         *)
(* A message is its time, which orders it; its contents are the number of  *)
(* its edits.  Pushes come in order; answers to requests come on their     *)
(* own.  Left out: decryption, scrolling itself, deleting and purging by   *)
(* the user, deletions before the chat was opened.                         *)
(***************************************************************************)
EXTENDS Naturals, Sequences, FiniteSets, FiniteSetsExt

CONSTANTS
    MaxMessages, \* bound: messages of the chat
    Changing,    \* messages that may be edited and deleted
    MaxEdits,    \* bound: edits of each
    MaxQueue,    \* bound: pushes on their way
    Batch,       \* BATCH_SIZE
    None

Message == 1..MaxMessages

Contents == [version : 0..MaxEdits, deleted : BOOLEAN]
Push == [kind : {"new", "own", "edit", "delete"}, id : Message,
         version : 0..MaxEdits]
MessageKey == Message \X {"new", "edit", "sent"}
Answer == [Message -> 0..MaxEdits \union {None}]
FilePage == UNION {[S -> Contents] : S \in SUBSET Message}
Loading == [at : {"cache", "ask"}, initial : BOOLEAN, from : Nat, forward : {0, Batch}]
    \union [at : {"read"}, initial : BOOLEAN, from : Nat, forward : {0, Batch},
            page : FilePage]
    \union [at : {"answer"}, initial : BOOLEAN, forward : {0, Batch}, page : Answer]

ASSUME ListAssumptions ==
    /\ MaxMessages \in Nat /\ MaxEdits \in Nat /\ MaxQueue \in Nat
    /\ Changing \subseteq Message
    /\ Batch \in Nat \ {0}
    /\ None \notin Nat /\ None \notin Contents /\ None \notin MessageKey /\ None \notin Loading

VARIABLES
    newest,    \* the messages 1..newest have been sent (server)
    version,   \* version[m]: edits of m (server)
    gone,      \* deleted messages (server)
    pushes,    \* what the server has pushed and the page has not handled
    stored,    \* stored[m]: what the chat files have of m, or None
    list,      \* list[m]: what the page shows of m, or None
    lastKey,   \* lastProcessedMessageKey
    older,     \* the call of loadHistory that is under way (loading), or None
    newer,     \* the call of loadNewer (loadingNewer), or None
    mounted,   \* has the first loading returned? (not isInitialMounting)
    initialized,
    allOlder,  \* all_loaded
    allNewer,  \* all_loaded_newer
    sending,   \* messages whose sender waits for the answer: drafts in the list
    unsent,    \* drafts that failed and stay in the list, by their times
    \* History variables, which no action looks at:
    fresh,     \* messages of which the server told since the chat was opened
    upset      \* what happened that the promises make an exception for

listVars == <<newest, version, gone, pushes, stored, list, lastKey, older, newer,
          mounted, initialized, allOlder, allNewer, sending, unsent, fresh, upset>>

ListTypeOK ==
    /\ newest \in 0..MaxMessages
    /\ version \in [Message -> 0..MaxEdits]
    /\ gone \subseteq 1..newest
    /\ pushes \in Seq(Push) /\ Len(pushes) <= MaxQueue
    /\ stored \in [Message -> Contents \union {None}]
    /\ list \in [Message -> Contents \union {None}]
    /\ lastKey \in MessageKey \union {None}
    /\ older \in Loading \union {None}
    /\ newer \in [at : {"ask"}, from : Nat] \union [at : {"answer"}, page : Answer]
            \union {None}
    /\ mounted \in BOOLEAN /\ initialized \in BOOLEAN
    /\ allOlder \in BOOLEAN /\ allNewer \in BOOLEAN
    /\ sending \subseteq 1..newest
    /\ unsent \subseteq 1..(newest + 1)
    /\ fresh \subseteq 1..newest
    /\ upset \subseteq {"apart", "jump", "own", "overtaken", "blind",
                        "failed", "late", "repeated", "stale"}

Shown == {m \in Message : list[m] # None}
In(page) == {m \in Message : page[m] # None}
Existing == (1..newest) \ gone
Now == newest + 1

\* The last n elements of S that are before `from', and the first n after.
Before(S, from, n) ==
    {m \in S : m < from /\ Cardinality({k \in S : m < k /\ k < from}) < n}
After(S, from, n) ==
    {m \in S : m >= from /\ Cardinality({k \in S : from <= k /\ k < m}) < n}

\* Is what l shows a stretch of the history without a gap?
Gapless(l) ==
    \A a, b \in Message :
        l[a] # None /\ l[b] # None
            => \A m \in Existing : a < m /\ m < b => l[m] # None
Torn(l) == IF Gapless(l) THEN {} ELSE {"apart"}

\* Mutant of Merged: what is known of a message is replaced.
MergedOver(l, page) ==
    [m \in Message |->
        IF page[m] = None THEN l[m]
        ELSE [version |-> page[m], deleted |-> FALSE]]

\* mergeMessages of a page of the server: what was deleted stays deleted.
Merged(l, page) ==
    [m \in Message |->
        IF page[m] = None THEN l[m]
        ELSE [version |-> page[m], deleted |-> l[m] # None /\ l[m].deleted]]

\* mergeMessages of what was read in the chat files
MergedFrom(l, page) ==
    [m \in Message |->
        IF m \notin DOMAIN page THEN l[m]
        ELSE [version |-> page[m].version,
              deleted |-> page[m].deleted \/ (l[m] # None /\ l[m].deleted)]]

\* What receivedMessage may hold of the last event of the chat.  A draft that it
\* holds has no chatId, and is refused.
Replays == {None} \union {<<m, "edit">> : m \in {k \in Message : version[k] > 0}}
    \union {<<m, kind>> : m \in {k \in {newest} \intersect Message : version[k] = 0},
                         kind \in {"new", "sent"}}

\* The chat is opened, at its end or at a saved position; the files have some
\* messages as they were, and the last message received is replayed: its key is
\* kept, and it is shown unless it is an edit.
ListInit ==
    /\ newest \in 0..MaxMessages
    /\ version \in {v \in [Message -> 0..MaxEdits] :
            \A m \in Message : v[m] > 0 => v[m] = 1 /\ m \in Changing /\ m <= newest}
    /\ gone = {}
    /\ pushes = <<>>
    /\ lastKey \in Replays
    /\ \E known \in SUBSET (1..newest) :
        stored = [m \in Message |->
            IF lastKey = <<m, "edit">> THEN [version |-> version[m], deleted |-> FALSE]
            ELSE IF m \in known THEN [version |-> 0, deleted |-> FALSE]
            ELSE None]
    /\ fresh = {m \in Message : lastKey \in {<<m, "new">>, <<m, "sent">>}}
    /\ list = [m \in Message |->
            IF m \in fresh THEN [version |-> 0, deleted |-> FALSE] ELSE None]
    /\ \/ /\ allNewer = TRUE
          /\ older = [at |-> "cache", initial |-> TRUE, from |-> Now,
                      forward |-> 0]
       \/ \E bottom \in 1..newest :
          /\ allNewer = FALSE
          /\ older = [at |-> "cache", initial |-> TRUE, from |-> bottom + 1,
                      forward |-> Batch]
    /\ newer = None
    /\ mounted = FALSE
    /\ initialized = FALSE
    /\ allOlder = FALSE
    /\ sending = {} /\ unsent = {}
    /\ upset = {}

-----------------------------------------------------------------------------
(* The server *)

Pushed(kind, m, v) ==
    /\ Len(pushes) < MaxQueue
    /\ pushes' = Append(pushes, [kind |-> kind, id |-> m, version |-> v])

\* Somebody sends a message; or the user does, on another device.
Arrive(kind) ==
    /\ newest < MaxMessages
    /\ newest' = newest + 1
    /\ Pushed(kind, newest + 1, 0)
    /\ UNCHANGED <<version, gone, stored, list, lastKey, older, newer,
                   mounted, initialized, allOlder, allNewer, sending, unsent, fresh, upset>>

Edit(m) ==
    /\ m \in Existing \intersect Changing /\ version[m] < MaxEdits
    /\ version' = [version EXCEPT ![m] = @ + 1]
    /\ Pushed("edit", m, version[m] + 1)
    /\ UNCHANGED <<newest, gone, stored, list, lastKey, older, newer,
                   mounted, initialized, allOlder, allNewer, sending, unsent, fresh, upset>>

Delete(m) ==
    /\ m \in Existing \intersect Changing
    /\ gone' = gone \union {m}
    /\ Pushed("delete", m, version[m])
    /\ UNCHANGED <<newest, version, stored, list, lastKey, older, newer,
                   mounted, initialized, allOlder, allNewer, sending, unsent, fresh, upset>>

Served(S) == [m \in Message |-> IF m \in S THEN version[m] ELSE None]

\* fetch_history is answered: so many messages before a time, and after it.
AnswerOlder ==
    /\ older # None /\ older.at = "ask"
    /\ older' = [at |-> "answer", initial |-> older.initial,
                 forward |-> older.forward,
                 page |-> Served(Before(Existing, older.from, Batch) \union
                                 After(Existing, older.from, older.forward))]
    /\ UNCHANGED <<newest, version, gone, pushes, stored, list, lastKey, newer,
                   mounted, initialized, allOlder, allNewer, sending, unsent, fresh, upset>>

AnswerNewer ==
    /\ newer # None /\ newer.at = "ask"
    /\ newer' = [at |-> "answer",
                 page |-> Served(After(Existing, newer.from, Batch))]
    /\ UNCHANGED <<newest, version, gone, pushes, stored, list, lastKey, older,
                   mounted, initialized, allOlder, allNewer, sending, unsent, fresh, upset>>

-----------------------------------------------------------------------------
(* loadHistory *)

\* The user scrolls to the top.  What is cached is asked for from now on.
LoadOlder ==
    /\ mounted /\ older = None /\ ~allOlder
    /\ older' = [at |-> "cache", initial |-> FALSE, from |-> Now, forward |-> 0]
    /\ UNCHANGED <<newest, version, gone, pushes, stored, list, lastKey, newer,
                   mounted, initialized, allOlder, allNewer, sending, unsent, fresh, upset>>

\* jumpToBottom: the end counts as loaded at once.
Jump ==
    /\ ~allNewer
    /\ allNewer' = TRUE
    /\ IF older = None
       THEN /\ older' = [at |-> "cache", initial |-> TRUE, from |-> Now,
                         forward |-> 0]
            /\ UNCHANGED upset
       ELSE /\ upset' = upset \union {"jump"}
            /\ UNCHANGED older
    /\ UNCHANGED <<newest, version, gone, pushes, stored, list, lastKey, newer,
                   mounted, initialized, allOlder, sending, unsent, fresh>>

\* load_messages reads the files, which may be behind: update_messages may be
\* under way, or its save lost.
ReadFiles ==
    /\ older # None /\ older.at = "cache"
    /\ \E page \in [Before({m \in Message : stored[m] # None}, older.from, Batch)
                    -> Contents] :
        /\ \A m \in DOMAIN page :
            /\ page[m].version <= stored[m].version
            /\ page[m].deleted => stored[m].deleted
        /\ older' = [at |-> "read", initial |-> older.initial, from |-> older.from,
                     forward |-> older.forward, page |-> page]
    /\ UNCHANGED <<newest, version, gone, pushes, stored, list, lastKey, newer,
                   mounted, initialized, allOlder, allNewer, sending, unsent, fresh, upset>>

\* The time from which older messages are asked for: drafts count.
OldestShown(l, from) ==
    LET S == {m \in Message : l[m] # None} \union sending \union unsent IN
    IF S = {} THEN from ELSE Min(S)

\* What was read is there and shown, whatever came since: the server is asked.
Cached ==
    /\ older # None /\ older.at = "read"
    /\ list' = MergedFrom(list, older.page)
    /\ upset' = upset \union Torn(list')
            \union (IF \E m \in DOMAIN older.page :
                        list[m] # None /\ list[m].version > older.page[m].version
                    THEN {"stale"} ELSE {})
            \union (IF ~older.initial /\ initialized /\ list' = [m \in Message |-> None]
                    THEN {"blind"} ELSE {})
    /\ older' = [at |-> "ask", initial |-> older.initial \/ ~initialized,
                 from |-> IF older.initial \/ ~initialized THEN older.from
                          ELSE OldestShown(list', older.from),
                 forward |-> older.forward]
    /\ UNCHANGED <<newest, version, gone, pushes, stored, lastKey, newer,
                   mounted, initialized, allOlder, allNewer, sending, unsent, fresh>>

\* Mutant of Ends: a full page is taken for the last one.
EndsEarly(page, n) == Cardinality(In(page)) <= n

\* Is the history over, if n messages were asked for?
Ends(page, n) == Cardinality(In(page)) < n

\* The answer of the server is merged, and what it changes is stored.
MergeOlder ==
    /\ older # None /\ older.at = "answer"
    /\ list' = Merged(list, older.page)
    /\ stored' = [m \in Message |->
            IF older.page[m] = None \/ list'[m] = list[m] THEN stored[m]
            ELSE [version |-> older.page[m],
                  deleted |-> list'[m].deleted \/
                              (stored[m] # None /\ stored[m].deleted)]]
    /\ allOlder' = \/ allOlder
                   \/ older.forward = 0 /\ Ends(older.page, Batch)
    /\ mounted' = TRUE
    /\ initialized' = TRUE
    /\ upset' = IF older.initial THEN upset \union Torn(list') ELSE upset
    /\ fresh' = fresh \union In(older.page)
    /\ older' = None
    /\ UNCHANGED <<newest, version, gone, pushes, lastKey, newer, allNewer,
                   sending, unsent>>

\* The files cannot be read, or the server does not answer.
FailOlder ==
    /\ older # None /\ older.at \in {"cache", "ask"}
    /\ older' = None
    /\ mounted' = TRUE
    /\ upset' = IF older.initial THEN upset \union {"failed"} ELSE upset
    /\ UNCHANGED <<newest, version, gone, pushes, stored, list, lastKey, newer,
                   initialized, allOlder, allNewer, sending, unsent, fresh>>

-----------------------------------------------------------------------------
(* loadNewer *)

\* The user scrolls to the bottom of what is shown, drafts included.
LoadNewer ==
    /\ mounted /\ newer = None /\ ~allNewer
    /\ LET S == Shown \union sending \union unsent IN
        newer' = [at |-> "ask", from |-> IF S = {} THEN Now ELSE Max(S)]
    /\ upset' = IF Shown = {} THEN upset \union {"blind"} ELSE upset
    /\ UNCHANGED <<newest, version, gone, pushes, stored, list, lastKey, older,
                   mounted, initialized, allOlder, allNewer, sending, unsent, fresh>>

MergeNewer ==
    /\ newer # None /\ newer.at = "answer"
    /\ list' = Merged(list, newer.page)
    /\ allNewer' = (allNewer \/ Ends(newer.page, Batch))
    /\ fresh' = fresh \union In(newer.page)
    /\ newer' = None
    /\ UNCHANGED <<newest, version, gone, pushes, stored, lastKey, older,
                   mounted, initialized, allOlder, sending, unsent, upset>>

FailNewer ==
    /\ newer # None /\ newer.at = "ask"
    /\ newer' = None
    /\ UNCHANGED <<newest, version, gone, pushes, stored, list, lastKey, older,
                   mounted, initialized, allOlder, allNewer, sending, unsent, fresh, upset>>

-----------------------------------------------------------------------------
(* What the server pushes *)

\* The answers that are on their way know less of m than this push.
Outdated(m, v) ==
    IF \E request \in {older, newer} \ {None} :
        request.at = "answer" /\ request.page[m] # None /\ request.page[m] < v
    THEN {"late"} ELSE {}

\* l with the contents v of m; what was deleted stays deleted.
With(l, m, v) ==
    [l EXCEPT ![m] = [version |-> v, deleted |-> l[m] # None /\ l[m].deleted]]

\* The subscriber of receivedMessage is told of a new message.  It is shown if
\* the list reaches the end, and a message of the user's own says so.
Received(m, kind) ==
    LET key == <<m, "new">>  mine == kind = "own" IN
    IF key = lastKey THEN UNCHANGED <<lastKey, allNewer, list, fresh, upset>>
    ELSE
    /\ lastKey' = key
    /\ allNewer' = (allNewer \/ mine)
    /\ IF allNewer \/ mine
       THEN list' = With(list, m, 0) /\ fresh' = fresh \union {m}
       ELSE UNCHANGED <<list, fresh>>
    /\ upset' = upset
            \union (IF mine /\ ~allNewer THEN {"own"} ELSE {})
            \union (IF /\ ~mine /\ ~allNewer
                       /\ newer # None /\ newer.at = "answer"
                    THEN {"overtaken"} ELSE {})

\* A message was edited: the files learn of it, and the list if it has it.
\* The key of two edits in a row is the same.
Edited(m, v) ==
    /\ stored' = With(stored, m, v)
    /\ lastKey' = <<m, "edit">>
    /\ IF lastKey = <<m, "edit">> \/ list[m] = None
       THEN UNCHANGED list
       ELSE list' = With(list, m, v)
    /\ upset' = upset \union Outdated(m, v) \union
            (IF lastKey = <<m, "edit">> THEN {"repeated"} ELSE {})
    /\ UNCHANGED <<allNewer, fresh>>

\* A message was deleted: files and list mark it, if they have it.
Deleted(m) ==
    /\ stored' = IF stored[m] = None THEN stored
                 ELSE [stored EXCEPT ![m].deleted = TRUE]
    /\ list' = IF list[m] = None THEN list
               ELSE [list EXCEPT ![m].deleted = TRUE]
    /\ upset' = upset \union
            (IF list[m] = None THEN Outdated(m, MaxEdits + 1) ELSE {})
    /\ UNCHANGED <<lastKey, allNewer, fresh>>

\* The listener of MobileApi handles the next push.
Handle ==
    /\ pushes # <<>>
    /\ pushes' = Tail(pushes)
    /\ LET p == Head(pushes) IN
       CASE p.kind \in {"new", "own"} -> Received(p.id, p.kind) /\ UNCHANGED stored
         [] p.kind = "edit" -> Edited(p.id, p.version)
         [] p.kind = "delete" -> Deleted(p.id)
    /\ UNCHANGED <<newest, version, gone, older, newer, mounted,
                   initialized, allOlder, sending, unsent>>

\* A draft below a window that does not reach the end
Drafted == upset' = IF allNewer THEN upset ELSE upset \union {"own"}

\* The user sends a message here.  Its draft is shown; the subscriber of
\* receivedMessage refuses it, for it has no chatId.
Send ==
    /\ newest < MaxMessages
    /\ newest' = newest + 1
    /\ Pushed("own", newest + 1, 0)
    /\ sending' = sending \union {newest + 1}
    /\ Drafted
    /\ UNCHANGED <<version, gone, stored, list, lastKey, older, newer, mounted,
                   initialized, allOlder, allNewer, unsent, fresh>>

\* A message does not reach the server: its draft stays.
NotSent ==
    /\ unsent' = unsent \union {Now}
    /\ Drafted
    /\ UNCHANGED <<newest, version, gone, pushes, stored, list, lastKey, older, newer,
                   mounted, initialized, allOlder, allNewer, sending, fresh>>

\* The message was sent, but the answer is lost: the draft stays as well.
SendFails(m) ==
    /\ m \in sending
    /\ sending' = sending \ {m}
    /\ unsent' = unsent \union {m}
    /\ UNCHANGED <<newest, version, gone, pushes, stored, list, lastKey, older, newer,
                   mounted, initialized, allOlder, allNewer, fresh, upset>>

\* The sender gets the answer: the message is stored, and shown as it was sent,
\* whatever the page has learnt of it since.
Sent(m) ==
    /\ m \in sending
    /\ sending' = sending \ {m}
    /\ lastKey' = <<m, "sent">>
    /\ allNewer' = TRUE
    /\ list' = [list EXCEPT ![m] = [version |-> 0, deleted |-> FALSE]]
    /\ fresh' = fresh \union {m}
    /\ stored' = With(stored, m, 0)
    /\ upset' = upset \union
            (IF list[m] # None /\ (list[m].version > 0 \/ list[m].deleted)
             THEN {"late"} ELSE {})
    /\ UNCHANGED <<newest, version, gone, pushes, older, newer, mounted,
                   initialized, allOlder, unsent>>

ListNext ==
    \/ Arrive("new") \/ Arrive("own") \/ Send \/ NotSent
    \/ \E m \in Message : Edit(m) \/ Delete(m) \/ Sent(m) \/ SendFails(m)
    \/ LoadOlder \/ ReadFiles \/ Cached \/ AnswerOlder \/ MergeOlder \/ FailOlder
    \/ LoadNewer \/ AnswerNewer \/ MergeNewer \/ FailNewer
    \/ Jump \/ Handle

ListSpec == ListInit /\ [][ListNext]_listVars

-----------------------------------------------------------------------------
(* Properties *)

AtRest == older = None /\ newer = None /\ pushes = <<>> /\ sending = {}

\* The list has no gaps: when nothing is under way it shows every message
\* between its first and its last one, back to the first of the chat when all
\* older ones count as loaded, and up to the newest when all newer ones do.
\* Excepted are a page of the files, of the opening or of a jump that does not
\* adjoin the list, a jump while a page loads, a message of one's own below the
\* window, a message that overtakes the last page, an empty list, which asks
\* for older and newer messages from now on, and a failed opening.
ListComplete ==
    /\ AtRest /\ Shown # {}
    /\ upset \intersect {"apart", "jump", "own", "overtaken", "blind", "failed"} = {}
    => LET first == IF allOlder THEN 1 ELSE Min(Shown)
           last == IF allNewer THEN newest ELSE Max(Shown) IN
       Existing \intersect (first..last) \subseteq Shown

\* Messages of which the server told are shown as they are: with their last
\* edit, and as deleted if they were deleted; unless an answer was computed
\* before a change and merged after it, a message was edited twice in a row, or
\* the files had an older version, or were read before a change.
ShownIsCurrent ==
    /\ AtRest
    /\ upset \intersect {"late", "repeated", "stale"} = {}
    => \A m \in fresh \intersect Shown :
          list[m].version = version[m] /\ (list[m].deleted <=> m \in gone)
=============================================================================
