------------------------------ MODULE Contacts ------------------------------
(***************************************************************************)
(* Contacts as the page learns and keeps them: utils/caching.js, which     *)
(* asks the server for those that it does not know, some at a time, and    *)
(* stores/contacts.js, which has a store for every contact that was opened *)
(* and writes to disk what is set in it.                                   *)
(*                                                                         *)
(* What a contact says is its version on the server.  Only contacts in     *)
(* Followed change, and only their stores are followed; for the others it  *)
(* matters whether they are known.  Left out: getContactAsync, which       *)
(* nothing calls, getContactDirect, and the change of the account.         *)
(***************************************************************************)
EXTENDS Naturals, FiniteSets, FiniteSetsExt, Functions

CONSTANTS
    Contact,
    Followed,     \* the contacts whose contents are followed
    Sender,       \* bound: batches and syncs at a time
    ChunkSize,    \* CHUNK_SIZE
    MaxVersion    \* bound: versions of a contact

ASSUME Assumptions ==
    /\ Followed \subseteq Contact
    /\ {ChunkSize, MaxVersion} \subseteq Nat \ {0}

VARIABLES
    \* utils/caching.js
    known,     \* knownContactIds
    pending,   \* pendingContactIds
    failed,    \* failedContactIds, those less than 15 seconds old
    lookups,   \* contacts for which getContact awaits getCachedContacts
    batch,     \* contactBatch.ids; empty: there is none
    request,   \* request[r]: a batch that is being sent, or a sync
    \* stores/contacts.js
    list,      \* cachedContacts, contactsLoaded and the call that loads them
    opening,   \* opening[c]: how far the store of c is
    found,     \* found[c]: what get_contact has found, 0: nothing
    shown,     \* shown[c]: the value of the store, 0: undefined
    saving,    \* calls of set_contact on their way
    disk,      \* disk[c]: the file of a contact, 0: there is none
    \* The server
    server,    \* server[c]: the version of c
    heard,     \* heard[c]: the last version that was pushed and heard
    \* History variables, which no action looks at:
    told,      \* contacts of which the page was told
    crossed    \* those of which it was told while something else was on its way

asking == <<known, pending, failed, lookups, batch, request, list>>
stores == <<opening, found, shown, saving, disk, told, crossed>>
vars == <<asking, stores, server, heard>>

Idle == [at |-> "idle"]
Version == 0..MaxVersion

TypeOK ==
    /\ known \subseteq Contact /\ pending \subseteq Contact
    /\ failed \subseteq Contact /\ lookups \subseteq Contact
    /\ batch \subseteq Contact
    /\ \A r \in Sender :
        \/ request[r] = Idle
        \/ /\ request[r].at \in {"synced", "asked", "answered", "pause"}
           /\ request[r].of \in {"batch", "sync"}
           /\ request[r].ids \subseteq Contact
           /\ request[r].left \subseteq Contact
           /\ DOMAIN request[r].answer \subseteq request[r].ids
    /\ list \in [at : {"idle", "asked", "read"}, loaded : BOOLEAN,
                 ids : SUBSET Contact, read : SUBSET Contact]
    /\ opening \in [Followed -> {"none", "asked", "read", "open"}]
    /\ found \in [Followed -> Version] /\ shown \in [Followed -> Version]
    /\ saving \subseteq Followed \X Version
    /\ disk \in [Contact -> Version]
    /\ server \in [Contact -> Version] /\ heard \in [Followed -> Version]
    /\ crossed \subseteq told /\ told \subseteq Followed

Init ==
    /\ known = {} /\ pending = {} /\ failed = {} /\ lookups = {} /\ batch = {}
    /\ request = [r \in Sender |-> Idle]
    /\ list = [at |-> "idle", loaded |-> FALSE, ids |-> {}, read |-> {}]
    /\ opening = [c \in Followed |-> "none"]
    /\ found = [c \in Followed |-> 0]
    /\ shown = [c \in Followed |-> 0]
    /\ saving = {}
    /\ disk \in [Contact -> {0, 1}]
    /\ server = [c \in Contact |-> 1]
    /\ heard = [c \in Followed |-> 1]
    /\ told = {} /\ crossed = {}

-----------------------------------------------------------------------------
(* stores/contacts.js *)

\* The requests that will bring contents of c
OnWay(c) == {r \in Sender : request[r].at \in {"synced", "asked", "answered"}
                             /\ c \in request[r].ids}

\* Mutant of Saves: only the first value of a store is saved.
SavesFirst(given) ==
    {<<c, given[c]>> : c \in {d \in DOMAIN given : opening[d] = "open" /\ shown[d] = 0}}

\* The subscriber of an open store saves what is set.
Saves(given) ==
    {<<c, given[c]>> : c \in {d \in DOMAIN given : opening[d] = "open"}}

\* updateContact of the contacts `all' with the contents `given': a store that
\* is not there is opened, and will have the answer of get_contact.
Update(all, given, by) ==
    /\ list' = [list EXCEPT !.ids = @ \union all]
    /\ opening' = [c \in Followed |->
            IF c \in DOMAIN given /\ opening[c] = "none" THEN "asked"
            ELSE opening[c]]
    /\ shown' = [c \in Followed |->
            IF c \in DOMAIN given THEN given[c] ELSE shown[c]]
    /\ saving' = saving \union Saves(given)
    /\ told' = told \union DOMAIN given
    /\ crossed' = crossed \union
            {c \in DOMAIN given : \/ opening[c] # "open"
                                  \/ OnWay(c) \ by # {}
                                  \/ \E v \in Version : <<c, v>> \in saving}
    /\ UNCHANGED <<found, disk>>

\* get_contact reads the file, or asks the server if there is none.
Read(c) ==
    /\ opening[c] = "asked"
    /\ opening' = [opening EXCEPT ![c] = "read"]
    /\ \/ /\ disk[c] # 0
          /\ found' = [found EXCEPT ![c] = disk[c]]
          /\ UNCHANGED disk
       \/ /\ disk[c] = 0
          /\ found' = [found EXCEPT ![c] = server[c]]
          /\ disk' = [disk EXCEPT ![c] = server[c]]
       \/ /\ disk[c] = 0
          /\ UNCHANGED <<found, disk>>
    /\ UNCHANGED <<asking, shown, saving, server, heard, told, crossed>>

\* The answer is shown, whatever the store has by now; then changes are saved.
Opened(c) ==
    /\ opening[c] = "read"
    /\ opening' = [opening EXCEPT ![c] = "open"]
    /\ shown' = [shown EXCEPT ![c] = IF found[c] # 0 THEN found[c] ELSE @]
    /\ UNCHANGED <<asking, found, saving, disk, server, heard, told, crossed>>

\* set_contact, one of those on their way
Saved(c, v) ==
    /\ <<c, v>> \in saving
    /\ saving' = saving \ {<<c, v>>}
    /\ disk' = [disk EXCEPT ![c] = v]
    /\ UNCHANGED <<asking, opening, found, shown, server, heard, told, crossed>>

-----------------------------------------------------------------------------
(* utils/caching.js *)

\* Mutant of Wanted: what is pending is asked for again.
WantedAgain(c) == c \notin known' \union failed

\* requestAndCacheContact: is c to be asked for?
Wanted(c) == c \notin known' \union pending \union failed

\* What is in the list is known, and those of S that are not join the batch.
LookUp(S, ids) ==
    LET new == {c \in S : Wanted(c)} IN
    /\ known' = known \union ids
    /\ pending' = pending \union new
    /\ batch' = batch \union new

\* getContact: a view shows a contact.  What is not known is looked up in the
\* list, which may have to be loaded first.
Ask(c) ==
    /\ opening' = [d \in Followed |->
            IF d = c /\ opening[d] = "none" THEN "asked" ELSE opening[d]]
    /\ IF c \in known \union failed
       THEN UNCHANGED <<known, pending, batch, lookups, list>>
       ELSE IF list.loaded /\ list.ids # {}
       THEN LookUp({c}, list.ids) /\ UNCHANGED <<lookups, list>>
       ELSE /\ lookups' = lookups \union {c}
            /\ list' = [list EXCEPT !.at = IF @ = "idle" THEN "asked" ELSE @]
            /\ UNCHANGED <<known, pending, batch>>
    /\ UNCHANGED <<failed, request, found, shown, saving, disk, server, heard,
                   told, crossed>>

\* getCachedContacts: the directory is read.
ReadList ==
    /\ list.at = "asked"
    /\ list' = [list EXCEPT !.at = "read", !.read = {c \in Contact : disk[c] # 0}]
    /\ UNCHANGED <<known, pending, failed, lookups, batch, request, stores,
                   server, heard>>

\* The list is there, and replaces what was added to it; or it cannot be read,
\* and those who wait have what there is.
ListArrives ==
    /\ list.at = "read"
    /\ \/ list' = [at |-> "idle", loaded |-> TRUE, ids |-> list.read, read |-> {}]
       \/ list' = [list EXCEPT !.at = "idle", !.read = {}]
    /\ LookUp(lookups, list'.ids)
    /\ lookups' = {}
    /\ UNCHANGED <<failed, request, stores, server, heard>>

\* Request r asks for some of ids, and later for the others, for a batch or for
\* a sync.
Asks(r, ids, of) ==
    \E chunk \in kSubset(IF Cardinality(ids) < ChunkSize THEN Cardinality(ids)
                         ELSE ChunkSize, ids) :
        request' = [request EXCEPT ![r] =
            [at |-> "asked", ids |-> chunk, left |-> ids \ chunk, answer |-> <<>>,
             of |-> of]]

\* 200 ms after the first joined, the batch is sent; the next one is another.
Send(r) ==
    LET ids == batch \ known IN
    /\ batch # {} /\ request[r] = Idle
    /\ batch' = {}
    /\ IF ids = {} THEN UNCHANGED request ELSE Asks(r, ids, "batch")
    /\ UNCHANGED <<known, pending, failed, lookups, list, stores, server, heard>>

\* The server answers a sync with the contacts in S; others, members of dialogs
\* that the list does not have, are to be asked for.
Sync(r, S, others) ==
    /\ request[r] = Idle
    /\ request' = [request EXCEPT ![r] =
            [at |-> "synced", ids |-> S, left |-> others,
             answer |-> [c \in S |-> server[c]], of |-> "sync"]]
    /\ UNCHANGED <<known, pending, failed, lookups, batch, list, stores,
                   server, heard>>

\* What is answered to r, of the contacts that are followed
Answered(r) == Restrict(request[r].answer, DOMAIN request[r].answer \intersect Followed)

\* The answer arrives, and the stores have it.  If others are to be asked for,
\* syncContacts counts the contacts as known, and asks for the rest of the
\* others, whether they are pending or not.
Synced(r) ==
    LET given == request[r].ids
        rest == request[r].left \ given
    IN
    /\ request[r].at = "synced"
    /\ IF request[r].left = {} THEN UNCHANGED <<known, pending, failed>>
       ELSE /\ known' = known \union given
            /\ pending' = pending \ given
            /\ failed' = failed \ given
    /\ Update(given, Answered(r), {r})
    /\ IF rest = {} THEN request' = [request EXCEPT ![r] = Idle]
       ELSE Asks(r, rest, "sync")
    /\ UNCHANGED <<lookups, batch, server, heard>>

\* The server answers with the contacts that it has.
Served(r) ==
    /\ request[r].at = "asked"
    /\ \E S \in SUBSET request[r].ids :
        request' = [request EXCEPT ![r].at = "answered", ![r].answer =
                        [c \in S |-> server[c]]]
    /\ UNCHANGED <<known, pending, failed, lookups, batch, list, stores,
                   server, heard>>

\* A request goes on after a pause of 60 ms, or is over.
Goes(r) ==
    request' = [request EXCEPT ![r] =
        IF @.left = {} THEN Idle ELSE [@ EXCEPT !.at = "pause", !.answer = <<>>]]

\* What was asked for by a batch; a sync leaves pending and failed alone.
Batched(r) == IF request[r].of = "batch" THEN request[r].ids ELSE {}

\* Mutant of Settled: only an answer settles what was asked for.
SettledIfFound(r) == Batched(r) \intersect DOMAIN request[r].answer

\* What is not pending any more once r is answered or fails
Settled(r) == Batched(r)

Answer(r) ==
    LET got == DOMAIN request[r].answer IN
    /\ request[r].at = "answered"
    /\ known' = known \union got
    /\ failed' = failed \ got
    /\ pending' = pending \ (got \union Settled(r))
    /\ Update(got, Answered(r), {r})
    /\ Goes(r)
    /\ UNCHANGED <<lookups, batch, server, heard>>

\* fetch_contacts fails: for 15 seconds a batch does not ask for them again.
Fail(r) ==
    /\ request[r].at = "asked"
    /\ failed' = failed \union Batched(r)
    /\ pending' = pending \ Settled(r)
    /\ Goes(r)
    /\ UNCHANGED <<known, lookups, batch, list, stores, server, heard>>

NextChunk(r) ==
    /\ request[r].at = "pause"
    /\ Asks(r, request[r].left, request[r].of)
    /\ UNCHANGED <<known, pending, failed, lookups, batch, list, stores,
                   server, heard>>

Expire(c) ==
    /\ c \in failed
    /\ failed' = failed \ {c}
    /\ UNCHANGED <<known, pending, lookups, batch, request, list, stores,
                   server, heard>>

-----------------------------------------------------------------------------
(* The server *)

Change(c) ==
    /\ server[c] < MaxVersion
    /\ server' = [server EXCEPT ![c] = @ + 1]
    /\ UNCHANGED <<asking, stores, heard>>

\* A push of a changed contact is heard: its store has it, and caching.js is
\* not told.
Hear(c) ==
    /\ heard[c] < server[c]
    /\ heard' = [heard EXCEPT ![c] = @ + 1]
    /\ Update({c}, [d \in {c} |-> heard[c] + 1], {})
    /\ UNCHANGED <<known, pending, failed, lookups, batch, request, server>>

Next ==
    \/ \E c \in Contact : Ask(c) \/ Expire(c)
    \/ \E c \in Followed :
        \/ Read(c) \/ Opened(c) \/ Change(c) \/ Hear(c)
        \/ \E v \in Version : Saved(c, v)
    \/ ReadList \/ ListArrives
    \/ \E r \in Sender : Send(r)
    \/ \E r \in Sender : Served(r) \/ Answer(r) \/ Fail(r) \/ NextChunk(r)
    \/ \E r \in Sender : Synced(r) \/ \E S, others \in SUBSET Contact : Sync(r, S, others)

Spec == Init /\ [][Next]_vars

-----------------------------------------------------------------------------
(* Properties *)

\* The contacts that batch r still stands for
Has(r) == IF request[r] = Idle \/ request[r].of # "batch" THEN {}
          ELSE request[r].left \union
               (IF request[r].at = "pause" THEN {} ELSE request[r].ids)

\* A contact is in one batch at a time, however often it is asked for, and in
\* none while its last request is less than 15 seconds past its failure
\* (requestAndCacheContact).
AskedOnce ==
    /\ \A r \in Sender : Has(r) \intersect (batch \union failed) = {}
    /\ \A r, q \in Sender : r # q => Has(r) \intersect Has(q) = {}
    /\ batch \intersect failed = {}

\* Who asks for a contact is not left waiting: what is pending and not known is
\* in the batch or in one that is being sent, and a lookup has a call of
\* getCachedContacts that will end it, also when requests fail or another
\* answer overtakes them (getContact, requestAndCacheContact).
PendingIsServed ==
    /\ pending \ known \subseteq batch \union UNION {Has(r) : r \in Sender}
    /\ lookups # {} => list.at # "idle"

\* Nothing about c is on its way.
AtRest(c) ==
    /\ opening[c] \in {"none", "open"}
    /\ OnWay(c) = {} /\ heard[c] = server[c]
    /\ \A v \in Version : <<c, v>> \notin saving

\* A contact of which the page was told is shown and saved in its newest
\* version once nothing is on its way; unless it was told while its store was
\* not open yet, or while another answer or save was on its way.
NewestKept ==
    \A c \in told \ crossed : AtRest(c) =>
        shown[c] = server[c] /\ disk[c] = server[c]
=============================================================================
