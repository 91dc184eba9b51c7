--------------------------- MODULE ContactsProofs ---------------------------
(***************************************************************************)
(* Proofs about Contacts, for any number of contacts, batches and versions *)
(* and any size of a chunk: a contact is asked for once, who asks is       *)
(* served, and the newest version is kept.                                 *)
(***************************************************************************)
EXTENDS Contacts, TLAPS

-----------------------------------------------------------------------------
(* The invariants *)

Answers == UNION {[S -> Version] : S \in SUBSET Contact}

Batch == [at : {"synced", "asked", "answered", "pause"}, ids : SUBSET Contact,
          left : SUBSET Contact, answer : Answers, of : {"batch", "sync"}]

Typed == TypeOK /\ request \in [Sender -> Batch \union {Idle}]

\* What is in the batch or in one being sent was pending, and is until it is
\* known or its request is over; what a batch has asked for is not left.
Queued ==
    /\ batch \subseteq pending \union known
    /\ \A r \in Sender : Has(r) \subseteq pending \union known
    /\ \A r \in Sender : request[r] # Idle =>
        /\ request[r].of = "batch" => /\ request[r].ids \intersect request[r].left = {}
                                      /\ request[r].at # "synced"
        /\ DOMAIN request[r].answer \subseteq request[r].ids

QueueInv == Queued /\ AskedOnce /\ PendingIsServed

\* What was served about c is its newest version, if no push of it is on its way.
AnswerNew(c) ==
    \A r \in Sender :
        /\ request[r].at \in {"synced", "answered"} /\ c \in DOMAIN request[r].answer
        /\ heard[c] = server[c]
        => request[r].answer[c] = server[c]

\* So is what the store of c shows, and what it shows is saved or will be.
StoreNew(c) ==
    /\ opening[c] = "open"
    /\ heard[c] = server[c] => shown[c] = server[c]
    /\ \A v \in Version : <<c, v>> \in saving => v = shown[c]
    /\ (\A v \in Version : <<c, v>> \notin saving) => disk[c] = shown[c]

NewsInv ==
    \A c \in Followed :
        /\ heard[c] <= server[c]
        /\ c \notin crossed => AnswerNew(c)
        /\ c \in told \ crossed => StoreNew(c)

-----------------------------------------------------------------------------
(* Requests and answers *)

LEMMA NoAnswer == <<>> \in Answers /\ DOMAIN <<>> = {}
<1>1. DOMAIN <<>> = {}
  OBVIOUS
<1>2. <<>> \in [{} -> Version]
  OBVIOUS
<1> QED
  BY <1>1, <1>2 DEF Answers

LEMMA AnswerFacts ==
    ASSUME NEW answer \in Answers
    PROVE  /\ DOMAIN answer \subseteq Contact
           /\ \A c \in DOMAIN answer : answer[c] \in Version
           /\ answer \in [DOMAIN answer -> Version]
BY DEF Answers

LEMMA IdleOrNot == /\ Idle \notin Batch /\ Idle.at = "idle"
                   /\ \A b \in Batch : b.at # "idle" /\ b # Idle
BY DEF Idle, Batch

LEMMA VersionsNat ==
    /\ MaxVersion \in Nat \ {0} /\ 0 \in Version /\ 1 \in Version
    /\ \A v \in Version : v \in Nat
BY Assumptions DEF Assumptions, Version

\* A batch or what is left of one is sent in part.
LEMMA AsksPart ==
    ASSUME Typed, NEW r \in Sender, NEW ids \in SUBSET Contact,
           NEW of \in {"batch", "sync"}, Asks(r, ids, of)
    PROVE  /\ request' \in [Sender -> Batch \union {Idle}]
           /\ request'[r].at = "asked" /\ request'[r] # Idle /\ request'[r].of = of
           /\ request'[r].ids \union request'[r].left = ids
           /\ request'[r].ids \intersect request'[r].left = {}
           /\ DOMAIN request'[r].answer = {}
           /\ \A q \in Sender \ {r} : request'[q] = request[q]
<1>1. PICK chunk \in SUBSET ids :
        request' = [request EXCEPT ![r] =
            [at |-> "asked", ids |-> chunk, left |-> ids \ chunk, answer |-> <<>>,
             of |-> of]]
  BY DEF Asks, kSubset
<1>2. [at |-> "asked", ids |-> chunk, left |-> ids \ chunk, answer |-> <<>>,
             of |-> of] \in Batch
  BY NoAnswer DEF Batch
<1>3. request \in [Sender -> Batch \union {Idle}]
  BY DEF Typed
<1>4. request'[r] =
        [at |-> "asked", ids |-> chunk, left |-> ids \ chunk, answer |-> <<>>,
             of |-> of]
  BY <1>1, <1>3
<1>5. \A q \in Sender \ {r} : request'[q] = request[q]
  BY <1>1, <1>3
<1>6. request' \in [Sender -> Batch \union {Idle}]
  BY <1>1, <1>2, <1>3
<1>7. DOMAIN request'[r].answer = {}
  BY <1>4, NoAnswer
<1> QED
  BY <1>2, <1>4, <1>5, <1>6, <1>7, IdleOrNot

LEMMA ServedPart ==
    ASSUME Typed, NEW r \in Sender, Served(r)
    PROVE  /\ request' \in [Sender -> Batch \union {Idle}]
           /\ request'[r].at = "answered" /\ request'[r] # Idle
           /\ request'[r].ids = request[r].ids /\ request'[r].left = request[r].left
           /\ request'[r].of = request[r].of
           /\ DOMAIN request'[r].answer \subseteq request[r].ids
           /\ \A c \in DOMAIN request'[r].answer : request'[r].answer[c] = server[c]
           /\ \A q \in Sender \ {r} : request'[q] = request[q]
<1>1. request \in [Sender -> Batch \union {Idle}] /\ server \in [Contact -> Version]
  BY DEF Typed, TypeOK
<1>2. request[r] \in Batch
  BY <1>1, IdleOrNot DEF Served
<1>3. PICK S \in SUBSET request[r].ids :
        request' = [request EXCEPT ![r].at = "answered", ![r].answer =
                        [c \in S |-> server[c]]]
  BY DEF Served
<1>4. PICK answer : answer = [c \in S |-> server[c]]
  OBVIOUS
<1>5. answer \in Answers /\ DOMAIN answer = S
  BY <1>1, <1>2, <1>3, <1>4 DEF Answers, Batch
<1>6. PICK b : b = [request[r] EXCEPT !.at = "answered", !.answer = answer]
  OBVIOUS
<1>7. /\ b \in Batch /\ b.at = "answered" /\ b.answer = answer
      /\ b.left = request[r].left /\ b.ids = request[r].ids /\ b.of = request[r].of
  BY <1>2, <1>5, <1>6 DEF Batch
<1>8. /\ request'[r] = b /\ \A q \in Sender \ {r} : request'[q] = request[q]
      /\ request' = [q \in Sender |-> request'[q]]
  <2>1. request' = [request EXCEPT ![r].at = "answered", ![r].answer = answer]
    BY <1>3, <1>4
  <2>2. request'[r] = [request[r] EXCEPT !.at = "answered", !.answer = answer]
    BY <1>1, <2>1
  <2>3. /\ \A q \in Sender \ {r} : request'[q] = request[q]
        /\ request' = [q \in Sender |-> request'[q]]
    BY <1>1, <2>1
  <2> QED
    BY <1>6, <2>2, <2>3
<1>9. request'[r] = b /\ request' \in [Sender -> Batch \union {Idle}]
      /\ \A q \in Sender \ {r} : request'[q] = request[q]
  <2>1. \A q \in Sender : request'[q] \in Batch \union {Idle}
    BY <1>1, <1>8, <1>7
  <2> QED
    BY <1>8, <2>1
<1> QED
  BY <1>4, <1>5, <1>7, <1>9, IdleOrNot

LEMMA GoesOn ==
    ASSUME Typed, NEW r \in Sender, Goes(r), request[r] # Idle
    PROVE  /\ request' \in [Sender -> Batch \union {Idle}]
           /\ \/ request'[r] = Idle /\ request[r].left = {}
              \/ /\ request'[r].at = "pause" /\ request'[r] # Idle
                 /\ request'[r].left = request[r].left
                 /\ request'[r].ids = request[r].ids
                 /\ request'[r].of = request[r].of
                 /\ DOMAIN request'[r].answer = {}
           /\ \A q \in Sender \ {r} : request'[q] = request[q]
<1>1. request \in [Sender -> Batch \union {Idle}]
  BY DEF Typed
<1>2. request[r] \in Batch
  BY <1>1
<1>3. PICK b : b = [request[r] EXCEPT !.at = "pause", !.answer = <<>>]
  OBVIOUS
<1>4. b \in Batch /\ b.at = "pause" /\ b.left = request[r].left
      /\ b.ids = request[r].ids /\ b.answer = <<>> /\ b.of = request[r].of
  BY <1>2, <1>3, NoAnswer DEF Batch
<1>5. request' = [request EXCEPT ![r] = IF request[r].left = {} THEN Idle ELSE b]
  BY <1>3 DEF Goes
<1>6. /\ request'[r] = (IF request[r].left = {} THEN Idle ELSE b)
      /\ \A q \in Sender \ {r} : request'[q] = request[q]
      /\ request' \in [Sender -> Batch \union {Idle}]
  BY <1>1, <1>4, <1>5
<1> QED
  BY <1>4, <1>6, IdleOrNot, NoAnswer

LEMMA SyncPart ==
    ASSUME Typed, NEW r \in Sender, NEW S \in SUBSET Contact,
           NEW others \in SUBSET Contact, Sync(r, S, others)
    PROVE  /\ request' \in [Sender -> Batch \union {Idle}]
           /\ request'[r].at = "synced" /\ request'[r] # Idle
           /\ request'[r].of = "sync"
           /\ DOMAIN request'[r].answer = request'[r].ids
           /\ \A c \in DOMAIN request'[r].answer : request'[r].answer[c] = server[c]
           /\ \A q \in Sender \ {r} : request'[q] = request[q]
<1>1. request \in [Sender -> Batch \union {Idle}] /\ server \in [Contact -> Version]
  BY DEF Typed, TypeOK
<1>2. PICK answer : answer = [c \in S |-> server[c]]
  OBVIOUS
<1>3. answer \in Answers /\ DOMAIN answer = S
  BY <1>1, <1>2 DEF Answers
<1>4. PICK b : b = [at |-> "synced", ids |-> S, left |-> others, answer |-> answer,
                    of |-> "sync"]
  OBVIOUS
<1>5. /\ b \in Batch /\ b.at = "synced" /\ b.of = "sync" /\ b.ids = S
      /\ b.answer = answer
  BY <1>3, <1>4 DEF Batch
<1>6. request' = [request EXCEPT ![r] = b]
  BY <1>2, <1>4 DEF Sync
<1>7. /\ request'[r] = b /\ \A q \in Sender \ {r} : request'[q] = request[q]
      /\ request' \in [Sender -> Batch \union {Idle}]
  BY <1>1, <1>5, <1>6
<1> QED
  BY <1>2, <1>3, <1>5, <1>7, IdleOrNot

\* Once a sync has arrived, its request is over or asks for others.
LEMMA SyncedPart ==
    ASSUME Typed, NEW r \in Sender, Synced(r)
    PROVE  /\ request' \in [Sender -> Batch \union {Idle}]
           /\ \/ request'[r] = Idle
              \/ /\ request'[r].at = "asked" /\ request'[r] # Idle
                 /\ request'[r].of = "sync" /\ DOMAIN request'[r].answer = {}
           /\ \A q \in Sender \ {r} : request'[q] = request[q]
<1>1. request \in [Sender -> Batch \union {Idle}] /\ request[r] \in Batch
  BY IdleOrNot DEF Synced, Typed
<1>2. PICK rest \in SUBSET Contact :
        \/ request' = [request EXCEPT ![r] = Idle]
        \/ Asks(r, rest, "sync")
  BY <1>1 DEF Synced, Batch
<1>3. CASE request' = [request EXCEPT ![r] = Idle]
  BY <1>1, <1>3
<1>4. CASE Asks(r, rest, "sync")
  BY <1>4, AsksPart
<1> QED
  BY <1>2, <1>3, <1>4

-----------------------------------------------------------------------------
(* Contents that are told *)

Told(given) ==
    /\ DOMAIN given \subseteq Followed
    /\ \A c \in DOMAIN given : given[c] \in Version

\* A contact of which the page was told with nothing on its way but `by'
\* shows what is given, and saves that.
TellsNew(given, by) ==
    \A c \in DOMAIN given \ crossed' :
        /\ c \in told' /\ opening[c] = "open" /\ OnWay(c) \ by = {}
        /\ shown'[c] = given[c]
        /\ \A v \in Version : <<c, v>> \in saving' <=> v = given[c]

LeavesOthers(given) ==
    \A c \in Followed \ DOMAIN given :
        /\ c \in told' <=> c \in told
        /\ c \in crossed' <=> c \in crossed
        /\ shown'[c] = shown[c]
        /\ \A v \in Version : <<c, v>> \in saving' <=> <<c, v>> \in saving

\* What updateContact does
LEMMA Updated ==
    ASSUME Typed, NEW all \in SUBSET Contact, NEW given, Told(given), NEW by,
           Update(all, given, by)
    PROVE  /\ list' \in [at : {"idle", "asked", "read"}, loaded : BOOLEAN,
                         ids : SUBSET Contact, read : SUBSET Contact]
           /\ list'.at = list.at
           /\ opening' \in [Followed -> {"none", "asked", "read", "open"}]
           /\ shown' \in [Followed -> Version]
           /\ saving' \subseteq Followed \X Version
           /\ crossed' \subseteq told' /\ told' \subseteq Followed
           /\ crossed \subseteq crossed'
           /\ \A c \in Followed : opening[c] = "open" => opening'[c] = "open"
           /\ TellsNew(given, by)
           /\ LeavesOthers(given)
<1>t. /\ opening \in [Followed -> {"none", "asked", "read", "open"}]
      /\ shown \in [Followed -> Version] /\ saving \subseteq Followed \X Version
      /\ crossed \subseteq told /\ told \subseteq Followed
      /\ list \in [at : {"idle", "asked", "read"}, loaded : BOOLEAN,
                   ids : SUBSET Contact, read : SUBSET Contact]
  BY DEF Typed, TypeOK
<1>g. DOMAIN given \subseteq Followed /\ \A c \in DOMAIN given : given[c] \in Version
  BY DEF Told
<1>1. /\ list' \in [at : {"idle", "asked", "read"}, loaded : BOOLEAN,
                    ids : SUBSET Contact, read : SUBSET Contact]
      /\ list'.at = list.at
  BY <1>t DEF Update
<1>2. /\ opening' \in [Followed -> {"none", "asked", "read", "open"}]
      /\ \A c \in Followed : opening[c] = "open" => opening'[c] = "open"
  BY <1>t DEF Update
<1>3. /\ shown' \in [Followed -> Version]
      /\ \A c \in DOMAIN given : shown'[c] = given[c]
      /\ \A c \in Followed \ DOMAIN given : shown'[c] = shown[c]
  BY <1>t, <1>g DEF Update
<1>4. \A c, v : <<c, v>> \in Saves(given) <=>
        c \in DOMAIN given /\ opening[c] = "open" /\ v = given[c]
  BY DEF Saves
<1>5. saving' = saving \union Saves(given)
  BY DEF Update
<1>6. saving' \subseteq Followed \X Version
  <2>1. Saves(given) \subseteq Followed \X Version
    BY <1>g DEF Saves
  <2> QED
    BY <1>t, <1>5, <2>1
<1>7. /\ told' = told \union DOMAIN given
      /\ crossed \subseteq crossed'
      /\ \A c : c \in crossed' \ crossed => c \in DOMAIN given
      /\ \A c \in DOMAIN given \ crossed' :
            /\ opening[c] = "open" /\ OnWay(c) \ by = {}
            /\ \A v \in Version : <<c, v>> \notin saving
  BY DEF Update
<1>8. crossed' \subseteq told' /\ told' \subseteq Followed
  BY <1>t, <1>g, <1>7
<1>9. ASSUME NEW c \in DOMAIN given \ crossed'
      PROVE  /\ c \in told' /\ opening[c] = "open" /\ OnWay(c) \ by = {}
             /\ shown'[c] = given[c]
             /\ \A v \in Version : <<c, v>> \in saving' <=> v = given[c]
  BY <1>3, <1>4, <1>5, <1>7
<1>10. ASSUME NEW c \in Followed \ DOMAIN given
       PROVE  /\ c \in told' <=> c \in told
              /\ c \in crossed' <=> c \in crossed
              /\ shown'[c] = shown[c]
              /\ \A v \in Version : <<c, v>> \in saving' <=> <<c, v>> \in saving
  BY <1>3, <1>4, <1>5, <1>7
<1> QED
  BY <1>1, <1>2, <1>3, <1>6, <1>7, <1>8, <1>9, <1>10 DEF TellsNew, LeavesOthers

\* What Synced, Answer and Hear tell
LEMMA TellsTyped ==
    ASSUME Typed
    PROVE  /\ \A r \in Sender : request[r].at \in {"synced", "answered"} =>
                Told(Answered(r))
           /\ \A c \in Followed : heard[c] < server[c] =>
                Told([d \in {c} |-> heard[c] + 1])
<1>t. /\ server \in [Contact -> Version] /\ heard \in [Followed -> Version]
      /\ Followed \subseteq Contact
  BY Assumptions DEF Typed, TypeOK, Assumptions
<1>2. ASSUME NEW r \in Sender, request[r].at \in {"synced", "answered"}
      PROVE  Told(Answered(r))
  <2>1. request[r].answer \in Answers
    BY <1>2, IdleOrNot DEF Typed, Batch
  <2> QED
    BY <2>1, AnswerFacts DEF Told, Answered, Restrict
<1>3. ASSUME NEW c \in Followed, heard[c] < server[c]
      PROVE  Told([d \in {c} |-> heard[c] + 1])
  <2>1. heard[c] + 1 \in Version
    BY <1>t, <1>3, VersionsNat DEF Version
  <2> QED
    BY <2>1 DEF Told
<1> QED
  BY <1>2, <1>3

-----------------------------------------------------------------------------
(* Types *)

LEMMA TypedInit == Init => Typed
BY VersionsNat DEF Init, Typed, TypeOK

\* Requests of Typed, in the form of TypeOK
LEMMA RequestsTyped ==
    ASSUME request' \in [Sender -> Batch \union {Idle}],
           \A r \in Sender : request'[r] # Idle =>
                DOMAIN request'[r].answer \subseteq request'[r].ids
    PROVE  \A r \in Sender :
            \/ request'[r] = Idle
            \/ /\ request'[r].at \in {"synced", "asked", "answered", "pause"}
               /\ request'[r].of \in {"batch", "sync"}
               /\ request'[r].ids \subseteq Contact
               /\ request'[r].left \subseteq Contact
               /\ DOMAIN request'[r].answer \subseteq request'[r].ids
BY DEF Batch

LEMMA LookUpTyped ==
    ASSUME Typed, NEW S \in SUBSET Contact, NEW ids \in SUBSET Contact,
           LookUp(S, ids)
    PROVE  known' \subseteq Contact /\ pending' \subseteq Contact
           /\ batch' \subseteq Contact
BY DEF LookUp, Typed, TypeOK

LEMMA TypedNext == Typed /\ Queued /\ [Next]_vars => Typed'
<1> SUFFICES ASSUME Typed, Queued, [Next]_vars PROVE Typed'
  OBVIOUS
<1>t. TypeOK /\ request \in [Sender -> Batch \union {Idle}]
  BY DEF Typed
<1>q. \A r \in Sender : request[r] # Idle =>
        DOMAIN request[r].answer \subseteq request[r].ids
  BY DEF Queued
<1>v. \A c \in Contact : server[c] \in Version
  BY <1>t DEF TypeOK
<1>f. Followed \subseteq Contact
  BY Assumptions DEF Assumptions
<1>1. CASE UNCHANGED vars
  BY <1>t, <1>1 DEF vars, asking, stores, Typed, TypeOK
<1>2. ASSUME NEW c \in Contact, Ask(c) PROVE Typed'
  <2>1. opening' \in [Followed -> {"none", "asked", "read", "open"}]
    BY <1>t, <1>2 DEF Ask, TypeOK
  <2>2. /\ known' \subseteq Contact /\ pending' \subseteq Contact
        /\ batch' \subseteq Contact
    <3>1. CASE LookUp({c}, list.ids)
      BY <1>t, <3>1, LookUpTyped DEF TypeOK
    <3> QED
      BY <1>t, <1>2, <3>1 DEF Ask, TypeOK
  <2>3. /\ lookups' \subseteq Contact
        /\ list' \in [at : {"idle", "asked", "read"}, loaded : BOOLEAN,
                      ids : SUBSET Contact, read : SUBSET Contact]
    BY <1>t, <1>2 DEF Ask, TypeOK
  <2> QED
    BY <1>t, <1>2, <2>1, <2>2, <2>3 DEF Ask, Typed, TypeOK
<1>3. ASSUME NEW c \in Contact, Expire(c) PROVE Typed'
  BY <1>t, <1>3 DEF Expire, stores, Typed, TypeOK
<1>4. ASSUME NEW c \in Followed, Read(c) PROVE Typed'
  <2>1. opening' \in [Followed -> {"none", "asked", "read", "open"}]
    BY <1>t, <1>4 DEF Read, TypeOK
  <2>2. found' \in [Followed -> Version] /\ disk' \in [Contact -> Version]
    BY <1>t, <1>v, <1>f, <1>4 DEF Read, TypeOK
  <2> QED
    BY <1>t, <1>4, <2>1, <2>2 DEF Read, asking, Typed, TypeOK
<1>5. ASSUME NEW c \in Followed, Opened(c) PROVE Typed'
  <2>1. opening' \in [Followed -> {"none", "asked", "read", "open"}]
    BY <1>t, <1>5 DEF Opened, TypeOK
  <2>2. shown' \in [Followed -> Version]
    BY <1>t, <1>5 DEF Opened, TypeOK
  <2> QED
    BY <1>t, <1>5, <2>1, <2>2 DEF Opened, asking, Typed, TypeOK
<1>6. ASSUME NEW c \in Followed, NEW v \in Version, Saved(c, v) PROVE Typed'
  <2>1. disk' \in [Contact -> Version] /\ saving' \subseteq Followed \X Version
    BY <1>t, <1>f, <1>6 DEF Saved, TypeOK
  <2> QED
    BY <1>t, <1>6, <2>1 DEF Saved, asking, Typed, TypeOK
<1>7. CASE ReadList
  <2>1. list' \in [at : {"idle", "asked", "read"}, loaded : BOOLEAN,
                   ids : SUBSET Contact, read : SUBSET Contact]
    BY <1>t, <1>7 DEF ReadList, TypeOK
  <2> QED
    BY <1>t, <1>7, <2>1 DEF ReadList, stores, Typed, TypeOK
<1>8. CASE ListArrives
  <2>1. list' \in [at : {"idle", "asked", "read"}, loaded : BOOLEAN,
                   ids : SUBSET Contact, read : SUBSET Contact]
    <3>1. list \in [at : {"idle", "asked", "read"}, loaded : BOOLEAN,
                    ids : SUBSET Contact, read : SUBSET Contact]
      BY <1>t DEF TypeOK
    <3>2. \/ list' = [at |-> "idle", loaded |-> TRUE, ids |-> list.read, read |-> {}]
          \/ list' = [list EXCEPT !.at = "idle", !.read = {}]
      BY <1>8 DEF ListArrives
    <3>3. CASE list' = [at |-> "idle", loaded |-> TRUE, ids |-> list.read, read |-> {}]
      BY <3>1, <3>3
    <3>4. CASE list' = [list EXCEPT !.at = "idle", !.read = {}]
      BY <3>1, <3>4
    <3> QED
      BY <3>2, <3>3, <3>4
  <2>2. LookUp(lookups, list'.ids) /\ list'.ids \in SUBSET Contact
    BY <1>8, <2>1 DEF ListArrives
  <2>3. /\ known' \subseteq Contact /\ pending' \subseteq Contact
        /\ batch' \subseteq Contact
    BY <1>t, <2>2 DEF LookUp, TypeOK
  <2> QED
    BY <1>t, <1>8, <2>1, <2>3 DEF ListArrives, stores, Typed, TypeOK
\* A step that changes requests in the ways above, and what is failed or pending
<1>r. ASSUME NEW r \in Sender, request' \in [Sender -> Batch \union {Idle}],
             \A q \in Sender \ {r} : request'[q] = request[q],
             request'[r] # Idle => DOMAIN request'[r].answer \subseteq request'[r].ids
      PROVE  \A q \in Sender :
                \/ request'[q] = Idle
                \/ /\ request'[q].at \in {"synced", "asked", "answered", "pause"}
                   /\ request'[q].of \in {"batch", "sync"}
                   /\ request'[q].ids \subseteq Contact
                   /\ request'[q].left \subseteq Contact
                   /\ DOMAIN request'[q].answer \subseteq request'[q].ids
  <2>1. \A q \in Sender : request'[q] # Idle =>
            DOMAIN request'[q].answer \subseteq request'[q].ids
    BY <1>q, <1>r
  <2> QED
    BY <1>r, <2>1, RequestsTyped
<1>9. ASSUME NEW r \in Sender, Send(r) PROVE Typed'
  <2>1. CASE UNCHANGED request
    BY <1>t, <1>9, <2>1 DEF Send, stores, Typed, TypeOK
  <2>2. CASE Asks(r, batch \ known, "batch")
    <3>1. batch \ known \in SUBSET Contact
      BY <1>t DEF TypeOK
    <3>2. /\ request' \in [Sender -> Batch \union {Idle}]
          /\ DOMAIN request'[r].answer = {}
          /\ \A q \in Sender \ {r} : request'[q] = request[q]
      BY <2>2, <3>1, AsksPart
    <3>3. \A q \in Sender :
            \/ request'[q] = Idle
            \/ /\ request'[q].at \in {"synced", "asked", "answered", "pause"}
               /\ request'[q].of \in {"batch", "sync"}
               /\ request'[q].ids \subseteq Contact
               /\ request'[q].left \subseteq Contact
               /\ DOMAIN request'[q].answer \subseteq request'[q].ids
      BY <1>r, <3>2
    <3> QED
      BY <1>t, <1>9, <3>2, <3>3 DEF Send, stores, Typed, TypeOK
  <2> QED
    BY <1>9, <2>1, <2>2 DEF Send
<1>10. ASSUME NEW r \in Sender, Served(r) PROVE Typed'
  <2>1. /\ request' \in [Sender -> Batch \union {Idle}]
        /\ DOMAIN request'[r].answer \subseteq request'[r].ids
        /\ \A q \in Sender \ {r} : request'[q] = request[q]
    BY <1>10, ServedPart
  <2>2. \A q \in Sender :
            \/ request'[q] = Idle
            \/ /\ request'[q].at \in {"synced", "asked", "answered", "pause"}
               /\ request'[q].of \in {"batch", "sync"}
               /\ request'[q].ids \subseteq Contact
               /\ request'[q].left \subseteq Contact
               /\ DOMAIN request'[q].answer \subseteq request'[q].ids
    BY <1>r, <2>1
  <2> QED
    BY <1>t, <1>10, <2>1, <2>2 DEF Served, stores, Typed, TypeOK
<1>11. ASSUME NEW r \in Sender, Goes(r), request[r] # Idle
       PROVE  /\ request' \in [Sender -> Batch \union {Idle}]
              /\ \A q \in Sender :
                    \/ request'[q] = Idle
                    \/ /\ request'[q].at \in {"synced", "asked", "answered", "pause"}
                       /\ request'[q].of \in {"batch", "sync"}
                       /\ request'[q].ids \subseteq Contact
                       /\ request'[q].left \subseteq Contact
                       /\ DOMAIN request'[q].answer \subseteq request'[q].ids
  <2>1. /\ request' \in [Sender -> Batch \union {Idle}]
        /\ \A q \in Sender \ {r} : request'[q] = request[q]
        /\ request'[r] # Idle => DOMAIN request'[r].answer = {}
    BY <1>11, GoesOn
  <2> QED
    BY <1>r, <2>1
<1>12. ASSUME NEW r \in Sender, Answer(r) PROVE Typed'
  <2>1. request[r] \in Batch /\ request[r].at = "answered"
    BY <1>t, <1>12, IdleOrNot DEF Answer
  <2>2. /\ known' \subseteq Contact /\ failed' \subseteq Contact
        /\ pending' \subseteq Contact
    BY <1>t, <1>12, <2>1, AnswerFacts DEF Answer, TypeOK, Batch
  <2> DEFINE got == DOMAIN request[r].answer
             given == Answered(r)
  <2>3. Update(got, given, {r}) /\ Told(given) /\ got \in SUBSET Contact
    BY <1>12, <2>1, TellsTyped, AnswerFacts DEF Answer, Batch
  <2>4. /\ list' \in [at : {"idle", "asked", "read"}, loaded : BOOLEAN,
                      ids : SUBSET Contact, read : SUBSET Contact]
        /\ opening' \in [Followed -> {"none", "asked", "read", "open"}]
        /\ shown' \in [Followed -> Version]
        /\ saving' \subseteq Followed \X Version
        /\ crossed' \subseteq told' /\ told' \subseteq Followed
    BY <2>3, Updated
  <2>5. UNCHANGED <<found, disk>>
    BY <2>3 DEF Update
  <2>6. Goes(r) /\ request[r] # Idle /\ UNCHANGED <<lookups, batch, server, heard>>
    BY <1>12, <2>1, IdleOrNot DEF Answer
  <2> HIDE DEF got, given
  <2> QED
    BY <1>t, <1>11, <2>2, <2>4, <2>5, <2>6 DEF Typed, TypeOK
<1>13. ASSUME NEW r \in Sender, Fail(r) PROVE Typed'
  <2>1. request[r] \in Batch /\ request[r] # Idle
    BY <1>t, <1>13, IdleOrNot DEF Fail
  <2>2. failed' \subseteq Contact /\ pending' \subseteq Contact
    BY <1>t, <1>13, <2>1 DEF Fail, Batched, TypeOK, Batch
  <2>3. /\ Goes(r)
        /\ UNCHANGED <<known, lookups, batch, list, stores, server, heard>>
    BY <1>13 DEF Fail
  <2> QED
    BY <1>t, <1>11, <2>1, <2>2, <2>3 DEF stores, Typed, TypeOK
<1>14. ASSUME NEW r \in Sender, NextChunk(r) PROVE Typed'
  <2>1. /\ request[r].left \in SUBSET Contact /\ request[r].of \in {"batch", "sync"}
        /\ Asks(r, request[r].left, request[r].of)
    BY <1>t, <1>14, IdleOrNot DEF NextChunk, Batch
  <2>2. /\ request' \in [Sender -> Batch \union {Idle}]
        /\ DOMAIN request'[r].answer = {}
        /\ \A q \in Sender \ {r} : request'[q] = request[q]
    BY <2>1, AsksPart
  <2>3. \A q \in Sender :
            \/ request'[q] = Idle
            \/ /\ request'[q].at \in {"synced", "asked", "answered", "pause"}
               /\ request'[q].of \in {"batch", "sync"}
               /\ request'[q].ids \subseteq Contact
               /\ request'[q].left \subseteq Contact
               /\ DOMAIN request'[q].answer \subseteq request'[q].ids
    BY <1>r, <2>2
  <2> QED
    BY <1>t, <1>14, <2>2, <2>3 DEF NextChunk, stores, Typed, TypeOK
<1>15. ASSUME NEW r \in Sender, Synced(r) PROVE Typed'
  <2>1. request[r] \in Batch /\ request[r].at = "synced"
    BY <1>t, <1>15, IdleOrNot DEF Synced
  <2>2. /\ known' \subseteq Contact /\ failed' \subseteq Contact
        /\ pending' \subseteq Contact
    BY <1>t, <1>15, <2>1 DEF Synced, TypeOK, Batch
  <2>3. PICK all, given : all = request[r].ids /\ given = Answered(r)
    OBVIOUS
  <2>4. Update(all, given, {r}) /\ Told(given) /\ all \in SUBSET Contact
    BY <1>15, <2>1, <2>3, TellsTyped DEF Synced, Batch
  <2>5. /\ list' \in [at : {"idle", "asked", "read"}, loaded : BOOLEAN,
                      ids : SUBSET Contact, read : SUBSET Contact]
        /\ opening' \in [Followed -> {"none", "asked", "read", "open"}]
        /\ shown' \in [Followed -> Version]
        /\ saving' \subseteq Followed \X Version
        /\ crossed' \subseteq told' /\ told' \subseteq Followed
    BY <2>4, Updated
  <2>6. UNCHANGED <<found, disk>>
    BY <2>4 DEF Update
  <2>7. /\ request' \in [Sender -> Batch \union {Idle}]
        /\ \A q \in Sender \ {r} : request'[q] = request[q]
        /\ request'[r] # Idle => DOMAIN request'[r].answer \subseteq request'[r].ids
    BY <1>15, SyncedPart
  <2>8. \A q \in Sender :
            \/ request'[q] = Idle
            \/ /\ request'[q].at \in {"synced", "asked", "answered", "pause"}
               /\ request'[q].of \in {"batch", "sync"}
               /\ request'[q].ids \subseteq Contact
               /\ request'[q].left \subseteq Contact
               /\ DOMAIN request'[q].answer \subseteq request'[q].ids
    BY <1>r, <2>7
  <2>9. UNCHANGED <<lookups, batch, server, heard>>
    BY <1>15 DEF Synced
  <2> QED
    BY <1>t, <2>2, <2>5, <2>6, <2>7, <2>8, <2>9 DEF Typed, TypeOK
<1>18. ASSUME NEW r \in Sender, NEW S \in SUBSET Contact,
              NEW others \in SUBSET Contact, Sync(r, S, others)
       PROVE  Typed'
  <2>1. /\ request' \in [Sender -> Batch \union {Idle}]
        /\ \A q \in Sender \ {r} : request'[q] = request[q]
        /\ DOMAIN request'[r].answer \subseteq request'[r].ids
    BY <1>18, SyncPart
  <2>2. \A q \in Sender :
            \/ request'[q] = Idle
            \/ /\ request'[q].at \in {"synced", "asked", "answered", "pause"}
               /\ request'[q].of \in {"batch", "sync"}
               /\ request'[q].ids \subseteq Contact
               /\ request'[q].left \subseteq Contact
               /\ DOMAIN request'[q].answer \subseteq request'[q].ids
    BY <1>r, <2>1
  <2> QED
    BY <1>t, <1>18, <2>1, <2>2 DEF Sync, stores, Typed, TypeOK
<1>16. ASSUME NEW c \in Followed, Change(c) PROVE Typed'
  <2>1. server' \in [Contact -> Version]
    <3>1. server[c] + 1 \in Version
      BY <1>v, <1>f, <1>16, VersionsNat DEF Change, Version
    <3> QED
      BY <1>t, <1>f, <1>16, <3>1 DEF Change, TypeOK
  <2> QED
    BY <1>t, <1>16, <2>1 DEF Change, asking, stores, Typed, TypeOK
<1>17. ASSUME NEW c \in Followed, Hear(c) PROVE Typed'
  <2>1. heard' \in [Followed -> Version]
    <3>1. heard[c] + 1 \in Version
      <4>1. heard[c] \in Version /\ server[c] \in Version /\ heard[c] < server[c]
        BY <1>t, <1>v, <1>f, <1>17 DEF Hear, TypeOK
      <4> QED
        BY <4>1, VersionsNat DEF Version
    <3> QED
      BY <1>t, <1>17, <3>1 DEF Hear, TypeOK
  <2> DEFINE given == [d \in {c} |-> heard[c] + 1]
  <2>2. Update({c}, given, {}) /\ Told(given) /\ {c} \in SUBSET Contact
    BY <1>f, <1>17, TellsTyped DEF Hear
  <2> HIDE DEF given
  <2>3. /\ list' \in [at : {"idle", "asked", "read"}, loaded : BOOLEAN,
                      ids : SUBSET Contact, read : SUBSET Contact]
        /\ opening' \in [Followed -> {"none", "asked", "read", "open"}]
        /\ shown' \in [Followed -> Version]
        /\ saving' \subseteq Followed \X Version
        /\ crossed' \subseteq told' /\ told' \subseteq Followed
    BY <2>2, Updated
  <2>4. UNCHANGED <<found, disk>>
    BY <2>2 DEF Update
  <2> QED
    BY <1>t, <1>17, <2>1, <2>3, <2>4 DEF Hear, Typed, TypeOK
<1> QED
  BY <1>1, <1>2, <1>3, <1>4, <1>5, <1>6, <1>7, <1>8, <1>9, <1>10, <1>12, <1>13,
     <1>14, <1>15, <1>16, <1>17, <1>18 DEF Next

-----------------------------------------------------------------------------
(* A contact is asked for once, and who asks is served *)

\* A batch that is being sent: what it still stands for
Sent(b) == b # Idle /\ b.of = "batch"

LEMMA HasFacts ==
    ASSUME NEW r \in Sender
    PROVE  /\ ~ Sent(request[r]) => Has(r) = {}
           /\ Sent(request[r]) /\ request[r].at = "pause" => Has(r) = request[r].left
           /\ Sent(request[r]) /\ request[r].at # "pause" =>
                Has(r) = request[r].left \union request[r].ids
           /\ request'[r] = request[r] => Has(r)' = Has(r)
           /\ request'[r] = Idle \/ request'[r].of = "sync" => Has(r)' = {}
           /\ request'[r] # Idle /\ request'[r].of = "batch" /\ request'[r].at = "pause"
                => Has(r)' = request'[r].left
           /\ request'[r] # Idle /\ request'[r].of = "batch" /\ request'[r].at # "pause"
                => Has(r)' = request'[r].left \union request'[r].ids
           /\ Typed /\ request[r] # Idle /\ request[r].of # "batch" =>
                request[r].of = "sync"
<1>1. Typed /\ request[r] # Idle => request[r].of \in {"batch", "sync"}
  BY DEF Typed, Batch
<1>2. /\ ~ Sent(request[r]) => Has(r) = {}
      /\ Sent(request[r]) /\ request[r].at = "pause" => Has(r) = request[r].left
      /\ Sent(request[r]) /\ request[r].at # "pause" =>
            Has(r) = request[r].left \union request[r].ids
  BY DEF Has, Sent
<1>3. request'[r] = request[r] => Has(r)' = Has(r)
  BY DEF Has
<1>4. request'[r] = Idle \/ request'[r].of = "sync" => Has(r)' = {}
  BY DEF Has
<1>5. request'[r] # Idle /\ request'[r].of = "batch" /\ request'[r].at = "pause"
        => Has(r)' = request'[r].left
  BY DEF Has
<1>6. request'[r] # Idle /\ request'[r].of = "batch" /\ request'[r].at # "pause"
        => Has(r)' = request'[r].left \union request'[r].ids
  BY DEF Has
<1> QED
  BY <1>1, <1>2, <1>3, <1>4, <1>5, <1>6

\* What a batch that is being sent has asked for is not left to be asked for.
Parted(r) == request[r] # Idle =>
    /\ request[r].of = "batch" => /\ request[r].ids \intersect request[r].left = {}
                                  /\ request[r].at # "synced"
    /\ DOMAIN request[r].answer \subseteq request[r].ids

\* The queue, by what each batch stands for
LEMMA QueueParts ==
    /\ QueueInv <=>
        /\ batch \subseteq pending \union known
        /\ \A r \in Sender :
            /\ Has(r) \subseteq pending \union known
            /\ Has(r) \intersect batch = {} /\ Has(r) \intersect failed = {}
            /\ Parted(r)
        /\ \A r, q \in Sender : r # q => Has(r) \intersect Has(q) = {}
        /\ batch \intersect failed = {}
        /\ \A c \in pending \ known : c \in batch \/ \E r \in Sender : c \in Has(r)
        /\ lookups # {} => list.at # "idle"
BY DEF QueueInv, Queued, AskedOnce, PendingIsServed, Parted

LEMMA QueueMade ==
    ASSUME batch' \subseteq pending' \union known',
           \A r \in Sender :
            /\ Has(r)' \subseteq pending' \union known'
            /\ Has(r)' \intersect batch' = {} /\ Has(r)' \intersect failed' = {}
            /\ Parted(r)',
           \A r, q \in Sender : r # q => Has(r)' \intersect Has(q)' = {},
           batch' \intersect failed' = {},
           \A c \in pending' \ known' : c \in batch' \/ \E r \in Sender : c \in Has(r)',
           lookups' # {} => list'.at # "idle"
    PROVE  QueueInv'
BY DEF QueueInv, Queued, AskedOnce, PendingIsServed, Parted

LEMMA LookUpQueue ==
    ASSUME QueueInv, NEW S, NEW ids, LookUp(S, ids), UNCHANGED <<request, failed>>,
           lookups' # {} => list'.at # "idle"
    PROVE  QueueInv'
<1> DEFINE new == {c \in S : Wanted(c)}
<1>1. \A r \in Sender : Has(r)' = Has(r) /\ Parted(r)' = Parted(r)
  BY HasFacts DEF Parted
<1>2. /\ known' = known \union ids /\ pending' = pending \union new
      /\ batch' = batch \union new
  BY DEF LookUp
<1>3. \A c \in new : c \notin known' /\ c \notin pending /\ c \notin failed
  BY DEF Wanted
<1> HIDE DEF new
<1>4. \A r \in Sender :
        /\ Has(r)' \subseteq pending' \union known'
        /\ Has(r)' \intersect batch' = {} /\ Has(r)' \intersect failed' = {}
        /\ Parted(r)'
  BY <1>1, <1>2, <1>3, QueueParts
<1>5. \A c \in pending' \ known' : c \in batch' \/ \E r \in Sender : c \in Has(r)'
  BY <1>1, <1>2, QueueParts
<1>6. /\ batch' \subseteq pending' \union known'
      /\ batch' \intersect failed' = {}
      /\ \A r, q \in Sender : r # q => Has(r)' \intersect Has(q)' = {}
  BY <1>1, <1>2, <1>3, QueueParts
<1> QED
  BY <1>4, <1>5, <1>6, QueueMade

\* A request of r is over: what it was for is known, failed, or left to be asked.
LEMMA OverQueue ==
    ASSUME Typed, QueueInv, NEW r \in Sender, Goes(r), Sent(request[r]),
           request[r].at # "pause", NEW got \in SUBSET request[r].ids,
           NEW lost \in SUBSET request[r].ids,
           known' = known \union got, failed' \subseteq failed \union lost,
           pending' = pending \ request[r].ids, batch' = batch,
           lookups' = lookups, list'.at = list.at
    PROVE  QueueInv'
<1>1. /\ \A q \in Sender \ {r} : request'[q] = request[q]
      /\ \/ request'[r] = Idle /\ request[r].left = {}
         \/ /\ request'[r].at = "pause" /\ request'[r] # Idle
            /\ request'[r].left = request[r].left
            /\ request'[r].ids = request[r].ids
            /\ request'[r].of = request[r].of
            /\ DOMAIN request'[r].answer = {}
  BY GoesOn DEF Sent
<1>2. Has(r) = request[r].left \union request[r].ids /\ Has(r)' = request[r].left
  BY <1>1, HasFacts DEF Sent
<1>3. Parted(r) /\ request[r].ids \intersect request[r].left = {}
  BY QueueParts DEF Parted, Sent
<1>4. Parted(r)'
  BY <1>1, <1>3 DEF Parted
<1>5. \A q \in Sender \ {r} : Has(q)' = Has(q) /\ Parted(q)'
  BY <1>1, HasFacts, QueueParts DEF Parted
<1>6. /\ batch \intersect request[r].ids = {}
      /\ \A q \in Sender \ {r} : Has(q) \intersect request[r].ids = {}
  BY <1>2, QueueParts
<1>7. ASSUME NEW q \in Sender
      PROVE  /\ Has(q)' \subseteq pending' \union known'
             /\ Has(q)' \intersect batch' = {} /\ Has(q)' \intersect failed' = {}
             /\ Parted(q)'
  <2>1. Has(q)' \subseteq Has(q) /\ Has(q)' \intersect request[r].ids = {}
    BY <1>2, <1>3, <1>5, <1>6
  <2>2. Has(q) \subseteq pending \union known /\ Has(q) \intersect batch = {}
        /\ Has(q) \intersect failed = {}
    BY QueueParts
  <2> QED
    BY <1>4, <1>5, <2>1, <2>2
<1>8. \A p, q \in Sender : p # q => Has(p)' \intersect Has(q)' = {}
  BY <1>2, <1>5, QueueParts
<1>9. ASSUME NEW c \in pending' \ known'
      PROVE  c \in batch' \/ \E q \in Sender : c \in Has(q)'
  <2>1. c \in pending \ known /\ c \notin request[r].ids
    BY <1>9
  <2>2. c \in batch \/ \E q \in Sender : c \in Has(q)
    BY <2>1, QueueParts
  <2> QED
    BY <1>2, <1>5, <2>1, <2>2
<1>10. batch' \subseteq pending' \union known' /\ batch' \intersect failed' = {}
       /\ (lookups' # {} => list'.at # "idle")
  BY <1>6, QueueParts
<1> QED
  BY <1>7, <1>8, <1>9, <1>10, QueueMade

\* A sync comes, goes on or ends: no batch is about it.
LEMMA SyncQueue ==
    ASSUME Typed, QueueInv, NEW r \in Sender, ~ Sent(request[r]),
           request'[r] = Idle \/
                (request'[r].of = "sync" /\
                 DOMAIN request'[r].answer \subseteq request'[r].ids),
           \A q \in Sender \ {r} : request'[q] = request[q]
    PROVE  \A q \in Sender : Has(q)' = Has(q) /\ Parted(q)'
<1>1. Has(r)' = Has(r)
  BY HasFacts
<1>2. Parted(r)'
  BY DEF Parted
<1>3. \A q \in Sender \ {r} : Has(q)' = Has(q) /\ Parted(q)'
  BY HasFacts, QueueParts DEF Parted
<1> QED
  BY <1>1, <1>2, <1>3

\* Batch r asks for what it has not asked for, which is all that it stands for.
LEMMA AsksQueue ==
    ASSUME Typed, QueueInv, NEW r \in Sender, NEW ids \in SUBSET Contact,
           Asks(r, ids, "batch"), Has(r) \subseteq ids, ids \subseteq Has(r) \union batch,
           \/ batch' = {} /\ batch \subseteq ids \union known
           \/ batch' = batch /\ ids \subseteq Has(r),
           known' = known, pending' = pending, failed' = failed,
           lookups' = lookups, list' = list
    PROVE  QueueInv'
<1>1. /\ request'[r].at = "asked" /\ request'[r] # Idle
      /\ request'[r].of = "batch"
      /\ request'[r].ids \union request'[r].left = ids
      /\ request'[r].ids \intersect request'[r].left = {}
      /\ DOMAIN request'[r].answer = {}
      /\ \A q \in Sender \ {r} : request'[q] = request[q]
  BY AsksPart
<1>2. Has(r)' = ids /\ Parted(r)'
  BY <1>1, HasFacts DEF Parted
<1>3. \A q \in Sender \ {r} : Has(q)' = Has(q) /\ Parted(q)'
  BY <1>1, HasFacts, QueueParts DEF Parted
<1>4. \A q \in Sender :
        /\ Has(q)' \subseteq pending' \union known'
        /\ Has(q)' \intersect batch' = {} /\ Has(q)' \intersect failed' = {}
        /\ Parted(q)'
  BY <1>2, <1>3, QueueParts
<1>5. \A p, q \in Sender : p # q => Has(p)' \intersect Has(q)' = {}
  BY <1>2, <1>3, QueueParts
<1>6. \A c \in pending' \ known' : c \in batch' \/ \E q \in Sender : c \in Has(q)'
  BY <1>2, <1>3, QueueParts
<1>7. batch' \subseteq pending' \union known' /\ batch' \intersect failed' = {}
      /\ (lookups' # {} => list'.at # "idle")
  BY QueueParts
<1> QED
  BY <1>4, <1>5, <1>6, <1>7, QueueMade

\* The queue with all that it is about as it was, or less
LEMMA SameQueue ==
    ASSUME QueueInv, \A r \in Sender : Has(r)' = Has(r) /\ Parted(r)',
           batch' = batch,
           pending \union known \subseteq pending' \union known',
           pending' \ known' \subseteq pending \ known,
           failed' \subseteq failed,
           lookups' # {} => list'.at # "idle"
    PROVE  QueueInv'
<1>1. \A r \in Sender :
        /\ Has(r)' \subseteq pending' \union known'
        /\ Has(r)' \intersect batch' = {} /\ Has(r)' \intersect failed' = {}
        /\ Parted(r)'
  BY QueueParts
<1>2. \A c \in pending' \ known' : c \in batch' \/ \E r \in Sender : c \in Has(r)'
  BY QueueParts
<1>3. /\ batch' \subseteq pending' \union known'
      /\ batch' \intersect failed' = {}
      /\ \A r, q \in Sender : r # q => Has(r)' \intersect Has(q)' = {}
  BY QueueParts
<1> QED
  BY <1>1, <1>2, <1>3, QueueMade

LEMMA SameRequests ==
    ASSUME QueueInv, request' = request
    PROVE  \A r \in Sender : Has(r)' = Has(r) /\ Parted(r)'
BY HasFacts, QueueParts DEF Parted

LEMMA QueueNext == Typed /\ QueueInv /\ [Next]_vars => QueueInv'
<1> SUFFICES ASSUME Typed, QueueInv, [Next]_vars PROVE QueueInv'
  OBVIOUS
<1>t. TypeOK /\ request \in [Sender -> Batch \union {Idle}]
  BY DEF Typed
<1>w. lookups # {} => list.at # "idle"
  BY QueueParts
<1>u. ASSUME UNCHANGED asking PROVE QueueInv'
  BY <1>u, <1>w, SameRequests, SameQueue DEF asking
<1>1. CASE UNCHANGED vars
  BY <1>1, <1>u DEF vars
<1>2. ASSUME NEW c \in Contact, Ask(c) PROVE QueueInv'
  <2>1. CASE LookUp({c}, list.ids) /\ UNCHANGED <<lookups, list>>
    BY <1>2, <1>w, <2>1, LookUpQueue DEF Ask
  <2>2. CASE UNCHANGED <<known, pending, batch, lookups, list>>
    BY <1>2, <1>u, <2>2 DEF Ask, asking
  <2>3. CASE /\ list' = [list EXCEPT !.at = IF @ = "idle" THEN "asked" ELSE @]
             /\ UNCHANGED <<known, pending, batch>>
    <3>1. list'.at # "idle"
      BY <1>t, <2>3 DEF TypeOK
    <3>2. UNCHANGED <<failed, request>>
      BY <1>2 DEF Ask
    <3> QED
      BY <2>3, <3>1, <3>2, SameRequests, SameQueue
  <2> QED
    BY <1>2, <2>1, <2>2, <2>3 DEF Ask
<1>3. ASSUME NEW c \in Contact, Expire(c) PROVE QueueInv'
  BY <1>3, <1>w, SameRequests, SameQueue DEF Expire
<1>4. ASSUME NEW c \in Followed, Read(c) PROVE QueueInv'
  BY <1>4, <1>u DEF Read
<1>5. ASSUME NEW c \in Followed, Opened(c) PROVE QueueInv'
  BY <1>5, <1>u DEF Opened
<1>6. ASSUME NEW c \in Followed, NEW v \in Version, Saved(c, v) PROVE QueueInv'
  BY <1>6, <1>u DEF Saved
<1>7. CASE ReadList
  <2>1. list'.at = "read"
    BY <1>t, <1>7 DEF ReadList, TypeOK
  <2> QED
    BY <1>7, <2>1, SameRequests, SameQueue DEF ReadList
<1>8. CASE ListArrives
  BY <1>8, LookUpQueue DEF ListArrives
<1>9. ASSUME NEW r \in Sender, Send(r) PROVE QueueInv'
  <2>1. /\ Has(r) = {} /\ batch' = {}
        /\ known' = known /\ pending' = pending /\ failed' = failed
        /\ lookups' = lookups /\ list' = list
    BY <1>9, HasFacts DEF Send, Sent
  <2>2. CASE batch \ known = {} /\ UNCHANGED request
    <3>1. \A q \in Sender : Has(q)' = Has(q) /\ Parted(q)'
      BY <2>2, SameRequests
    <3>2. \A q \in Sender :
            /\ Has(q)' \subseteq pending' \union known'
            /\ Has(q)' \intersect batch' = {} /\ Has(q)' \intersect failed' = {}
            /\ Parted(q)'
      BY <2>1, <3>1, QueueParts
    <3>3. \A c \in pending' \ known' : c \in batch' \/ \E q \in Sender : c \in Has(q)'
      BY <2>1, <2>2, <3>1, QueueParts
    <3>4. /\ batch' \subseteq pending' \union known'
          /\ batch' \intersect failed' = {}
          /\ \A p, q \in Sender : p # q => Has(p)' \intersect Has(q)' = {}
          /\ lookups' # {} => list'.at # "idle"
      BY <1>w, <2>1, <3>1, QueueParts
    <3> QED
      BY <3>2, <3>3, <3>4, QueueMade
  <2>3. CASE Asks(r, batch \ known, "batch")
    <3>1. PICK ids : ids = batch \ known
      OBVIOUS
    <3>2. ids \in SUBSET Contact /\ Asks(r, ids, "batch")
      BY <1>t, <2>3, <3>1 DEF TypeOK
    <3>3. Has(r) \subseteq ids /\ ids \subseteq Has(r) \union batch
      BY <2>1, <3>1
    <3>4. \/ batch' = {} /\ batch \subseteq ids \union known
          \/ batch' = batch /\ ids \subseteq Has(r)
      BY <2>1, <3>1
    <3> QED
      BY <2>1, <3>2, <3>3, <3>4, AsksQueue
  <2> QED
    BY <1>9, <2>2, <2>3 DEF Send
<1>10. ASSUME NEW r \in Sender, Served(r) PROVE QueueInv'
  <2>1. /\ request'[r].at = "answered" /\ request'[r] # Idle
        /\ request'[r].ids = request[r].ids /\ request'[r].left = request[r].left
        /\ request'[r].of = request[r].of
        /\ DOMAIN request'[r].answer \subseteq request[r].ids
        /\ \A q \in Sender \ {r} : request'[q] = request[q]
    BY <1>10, ServedPart
  <2>2. request[r] # Idle /\ request[r].at = "asked"
    BY <1>10, IdleOrNot DEF Served
  <2>3. Has(r)' = Has(r) /\ Parted(r)'
    <3>1. CASE Sent(request[r])
      <4>1. Has(r)' = Has(r)
        BY <2>1, <2>2, <3>1, HasFacts DEF Sent
      <4>2. Parted(r)
        BY QueueParts
      <4> QED
        BY <2>1, <2>2, <4>1, <4>2 DEF Parted
    <3>2. CASE ~ Sent(request[r])
      <4>1. request'[r].of = "sync"
        BY <2>1, <2>2, <3>2, HasFacts DEF Sent
      <4> QED
        BY <2>1, <3>2, <4>1, SyncQueue
    <3> QED
      BY <3>1, <3>2
  <2>4. \A q \in Sender \ {r} : Has(q)' = Has(q) /\ Parted(q)'
    BY <2>1, HasFacts, QueueParts DEF Parted
  <2> QED
    BY <1>10, <1>w, <2>3, <2>4, SameQueue DEF Served
\* What a sync becomes when a request of it is over
<1>18. ASSUME NEW r \in Sender, Goes(r), request[r] # Idle, ~ Sent(request[r])
       PROVE  /\ \/ request'[r] = Idle
                 \/ /\ request'[r].of = "sync"
                    /\ DOMAIN request'[r].answer \subseteq request'[r].ids
              /\ \A q \in Sender \ {r} : request'[q] = request[q]
  <2>1. request[r].of = "sync"
    BY <1>18, HasFacts DEF Sent
  <2> QED
    BY <1>18, <2>1, GoesOn
<1>11. ASSUME NEW r \in Sender, Answer(r) PROVE QueueInv'
  <2>1. request[r].at = "answered" /\ request[r] # Idle /\ Goes(r)
    BY <1>11, IdleOrNot DEF Answer
  <2>2. PICK got : got = DOMAIN request[r].answer
    OBVIOUS
  <2>3. got \subseteq request[r].ids
    BY <2>1, <2>2, QueueParts DEF Parted
  <2>4. /\ known' = known \union got /\ failed' = failed \ got
        /\ pending' = pending \ (got \union Batched(r))
        /\ batch' = batch /\ lookups' = lookups
    BY <1>11, <2>2 DEF Answer, Settled
  <2>5. list'.at = list.at
    BY <1>t, <1>11 DEF Answer, Update, TypeOK
  <2>6. CASE Sent(request[r])
    <3>1. pending' = pending \ request[r].ids
      BY <2>3, <2>4, <2>6 DEF Batched, Sent
    <3>2. {} \in SUBSET request[r].ids /\ got \in SUBSET request[r].ids
          /\ failed' \subseteq failed \union {}
      BY <2>3, <2>4
    <3> QED
      BY <2>1, <2>4, <2>5, <2>6, <3>1, <3>2, OverQueue
  <2>7. CASE ~ Sent(request[r])
    <3>1. pending' = pending \ got
      BY <2>1, <2>4, <2>7 DEF Batched, Sent
    <3>2. \A q \in Sender : Has(q)' = Has(q) /\ Parted(q)'
      BY <1>18, <2>1, <2>7, SyncQueue
    <3> QED
      BY <1>w, <2>4, <2>5, <3>1, <3>2, SameQueue
  <2> QED
    BY <2>6, <2>7
<1>12. ASSUME NEW r \in Sender, Fail(r) PROVE QueueInv'
  <2>1. request[r].at = "asked" /\ request[r] # Idle /\ Goes(r)
    BY <1>12, IdleOrNot DEF Fail
  <2>2. /\ known' = known /\ failed' = failed \union Batched(r)
        /\ pending' = pending \ Batched(r)
        /\ UNCHANGED <<batch, lookups, list>>
    BY <1>12 DEF Fail, Settled
  <2>3. CASE Sent(request[r])
    <3>1. {} \in SUBSET request[r].ids /\ request[r].ids \in SUBSET request[r].ids
          /\ known' = known \union {} /\ failed' \subseteq failed \union request[r].ids
          /\ pending' = pending \ request[r].ids
      BY <2>2, <2>3 DEF Batched, Sent
    <3> QED
      BY <2>1, <2>2, <2>3, <3>1, OverQueue
  <2>4. CASE ~ Sent(request[r])
    <3>1. pending' = pending /\ failed' = failed
      BY <2>1, <2>2, <2>4 DEF Batched, Sent
    <3>2. \A q \in Sender : Has(q)' = Has(q) /\ Parted(q)'
      BY <1>18, <2>1, <2>4, SyncQueue
    <3> QED
      BY <1>w, <2>2, <3>1, <3>2, SameQueue
  <2> QED
    BY <2>3, <2>4
<1>13. ASSUME NEW r \in Sender, NextChunk(r) PROVE QueueInv'
  <2>1. request[r] \in Batch /\ request[r] # Idle /\ request[r].at = "pause"
    BY <1>t, <1>13, IdleOrNot DEF NextChunk
  <2>2. Asks(r, request[r].left, request[r].of)
        /\ UNCHANGED <<known, pending, failed, lookups, batch, list>>
    BY <1>13 DEF NextChunk
  <2>3. request[r].left \in SUBSET Contact /\ request[r].of \in {"batch", "sync"}
    BY <2>1 DEF Batch
  <2>4. CASE Sent(request[r])
    <3>1. Has(r) = request[r].left
      BY <2>1, <2>4, HasFacts
    <3>2. PICK ids \in SUBSET Contact : ids = Has(r)
      BY <2>3, <3>1
    <3>3. Asks(r, ids, "batch")
      BY <2>2, <2>4, <3>1, <3>2 DEF Sent
    <3> QED
      BY <2>2, <3>2, <3>3, AsksQueue
  <2>5. CASE ~ Sent(request[r])
    <3>1. /\ request'[r].of = "sync" /\ DOMAIN request'[r].answer = {}
          /\ \A q \in Sender \ {r} : request'[q] = request[q]
      <4>1. request[r].of = "sync"
        BY <2>1, <2>3, <2>5 DEF Sent
      <4> QED
        BY <2>2, <2>3, <4>1, AsksPart
    <3>2. \A q \in Sender : Has(q)' = Has(q) /\ Parted(q)'
      BY <2>5, <3>1, SyncQueue
    <3> QED
      BY <1>w, <2>2, <3>2, SameQueue
  <2> QED
    BY <2>4, <2>5
<1>14. ASSUME NEW r \in Sender, Synced(r) PROVE QueueInv'
  <2>1. request[r].at = "synced" /\ request[r] # Idle
    BY <1>14, IdleOrNot DEF Synced
  <2>2. ~ Sent(request[r])
    BY <2>1, QueueParts DEF Parted, Sent
  <2>3. list'.at = list.at
    BY <1>t, <1>14 DEF Synced, Update, TypeOK
  <2>4. \E given \in {{}, request[r].ids} :
            /\ known' = known \union given /\ pending' = pending \ given
            /\ failed' = failed \ given
    BY <1>14 DEF Synced
  <2>5. batch' = batch /\ lookups' = lookups
    BY <1>14 DEF Synced
  <2>6. \A q \in Sender : Has(q)' = Has(q) /\ Parted(q)'
    BY <1>14, <2>2, SyncedPart, SyncQueue
  <2>7. /\ pending \union known \subseteq pending' \union known'
        /\ pending' \ known' \subseteq pending \ known
        /\ failed' \subseteq failed
    BY <2>4
  <2> QED
    BY <1>w, <2>3, <2>5, <2>6, <2>7, SameQueue
<1>17. ASSUME NEW r \in Sender, NEW S \in SUBSET Contact,
              NEW others \in SUBSET Contact, Sync(r, S, others)
       PROVE  QueueInv'
  <2>1. ~ Sent(request[r])
        /\ UNCHANGED <<known, pending, failed, lookups, batch, list>>
    BY <1>17 DEF Sync, Sent
  <2>2. \A q \in Sender : Has(q)' = Has(q) /\ Parted(q)'
    <3>1. /\ request'[r].of = "sync"
          /\ DOMAIN request'[r].answer \subseteq request'[r].ids
          /\ \A q \in Sender \ {r} : request'[q] = request[q]
      BY <1>17, SyncPart
    <3> QED
      BY <2>1, <3>1, SyncQueue
  <2> QED
    BY <1>w, <2>1, <2>2, SameQueue
<1>15. ASSUME NEW c \in Followed, Change(c) PROVE QueueInv'
  BY <1>15, <1>u DEF Change
<1>16. ASSUME NEW c \in Followed, Hear(c) PROVE QueueInv'
  <2>1. list'.at = list.at
    BY <1>t, <1>16 DEF Hear, Update, TypeOK
  <2>2. UNCHANGED <<known, pending, failed, lookups, batch, request>>
    BY <1>16 DEF Hear
  <2> QED
    BY <1>w, <2>1, <2>2, SameRequests, SameQueue
<1> QED
  BY <1>1, <1>2, <1>3, <1>4, <1>5, <1>6, <1>7, <1>8, <1>9, <1>10, <1>11, <1>12,
     <1>13, <1>14, <1>15, <1>16, <1>17 DEF Next

-----------------------------------------------------------------------------
(* The newest version *)

LEMMA NewsInit == Init => NewsInv
BY Assumptions DEF Assumptions, Init, NewsInv, AnswerNew, Idle

\* No request that is not over is about c.
NoneOn(c, by) ==
    \A r \in Sender : r \notin by =>
        \/ request[r].at \notin {"synced", "asked", "answered"}
        \/ c \notin request[r].ids

LEMMA NotOnWay ==
    ASSUME NEW c, NEW by, OnWay(c) \ by = {}
    PROVE  NoneOn(c, by)
BY DEF OnWay, NoneOn

\* Contents are told by the requests `by'; the other ones stay as they are.
LEMMA ToldNews ==
    ASSUME Typed, NewsInv, NEW all \in SUBSET Contact, NEW given, Told(given), NEW by,
           Update(all, given, by),
           UNCHANGED server,
           \A c \in Followed : heard'[c] <= server[c],
           \A c \in Followed \ DOMAIN given : heard'[c] = heard[c],
           \A c \in DOMAIN given \ crossed' :
                heard'[c] = server[c] => given[c] = server[c],
           \A r \in Sender : r \in by => request'[r].at \notin {"synced", "answered"},
           \A r \in Sender : r \notin by => request'[r] = request[r]
    PROVE  NewsInv'
<1>u. /\ crossed \subseteq crossed'
      /\ \A c \in Followed : opening[c] = "open" => opening'[c] = "open"
      /\ TellsNew(given, by)
      /\ LeavesOthers(given)
  BY Updated
<1>d. UNCHANGED disk /\ DOMAIN given \subseteq Followed
      /\ \A c \in DOMAIN given : given[c] \in Version
  BY DEF Update, Told
<1>a. \A r \in Sender : request[r].at \in {"synced", "answered"} =>
        DOMAIN request[r].answer \subseteq request[r].ids
  BY IdleOrNot DEF Typed, TypeOK
<1>1. ASSUME NEW c \in DOMAIN given, c \notin crossed'
      PROVE  AnswerNew(c)' /\ StoreNew(c)'
  <2>1. opening'[c] = "open" /\ shown'[c] = given[c]
        /\ \A v \in Version : <<c, v>> \in saving' <=> v = given[c]
    BY <1>u, <1>d, <1>1 DEF TellsNew
  <2>2. (\A v \in Version : <<c, v>> \in saving' => v = shown'[c])
        /\ ~ (\A v \in Version : <<c, v>> \notin saving')
    BY <1>d, <2>1
  <2>3. heard'[c] = server'[c] => shown'[c] = server'[c]
    BY <1>1, <2>1
  <2>4. StoreNew(c)'
    BY <2>1, <2>2, <2>3 DEF StoreNew
  <2>5. NoneOn(c, by)
    BY <1>u, <1>1, NotOnWay DEF TellsNew
  <2>6. AnswerNew(c)'
    <3>1. ASSUME NEW r \in Sender, request'[r].at \in {"synced", "answered"},
                 c \in DOMAIN request'[r].answer
          PROVE  FALSE
      <4>1. r \notin by /\ request'[r] = request[r]
        BY <3>1
      <4> QED
        BY <1>a, <2>5, <3>1, <4>1 DEF NoneOn
    <3> QED
      BY <3>1 DEF AnswerNew
  <2> QED
    BY <2>4, <2>6
<1>2. ASSUME NEW c \in Followed \ DOMAIN given, c \notin crossed'
      PROVE  AnswerNew(c)' /\ (c \in told' => StoreNew(c)')
  <2>1. c \notin crossed /\ AnswerNew(c) /\ (c \in told => StoreNew(c))
    BY <1>u, <1>2 DEF NewsInv, LeavesOthers
  <2>2. AnswerNew(c)'
    <3>1. ASSUME NEW r \in Sender, request'[r].at \in {"synced", "answered"},
                 c \in DOMAIN request'[r].answer, heard'[c] = server'[c]
          PROVE  request'[r].answer[c] = server'[c]
      <4>1. r \notin by /\ request'[r] = request[r]
        BY <3>1
      <4>2. heard[c] = server[c] /\ server' = server
        BY <1>2, <3>1
      <4> QED
        BY <2>1, <3>1, <4>1, <4>2 DEF AnswerNew
    <3> QED
      BY <3>1 DEF AnswerNew
  <2>3. ASSUME c \in told' PROVE StoreNew(c)'
    <3>1. StoreNew(c)
      BY <1>u, <1>2, <2>1, <2>3 DEF LeavesOthers
    <3>2. heard'[c] = heard[c] /\ server' = server /\ disk' = disk
          /\ shown'[c] = shown[c] /\ (opening[c] = "open" => opening'[c] = "open")
          /\ \A v \in Version : <<c, v>> \in saving' <=> <<c, v>> \in saving
      BY <1>u, <1>d, <1>2 DEF LeavesOthers
    <3> QED
      BY <3>1, <3>2 DEF StoreNew
  <2> QED
    BY <2>2, <2>3
<1> QED
  BY <1>1, <1>2 DEF NewsInv

\* A step that tells nothing: what is answered about c and what the store of c
\* has may only become what the server has.
LEMMA SameNews ==
    ASSUME NewsInv, UNCHANGED <<server, heard, told, crossed>>,
           \A r \in Sender, c \in Followed :
                request'[r].at \in {"synced", "answered"} /\ c \in DOMAIN request'[r].answer =>
                    \/ request'[r] = request[r]
                    \/ request'[r].answer[c] = server[c],
           \A c \in Followed : StoreNew(c) => StoreNew(c)'
    PROVE  NewsInv'
<1>1. ASSUME NEW c \in Followed, c \notin crossed PROVE AnswerNew(c)'
  <2>1. AnswerNew(c)
    BY <1>1 DEF NewsInv
  <2> QED
    BY <2>1 DEF AnswerNew
<1> QED
  BY <1>1 DEF NewsInv

LEMMA NewsNext == Typed /\ NewsInv /\ [Next]_vars => NewsInv'
<1> SUFFICES ASSUME Typed, NewsInv, [Next]_vars PROVE NewsInv'
  OBVIOUS
<1>t. /\ request \in [Sender -> Batch \union {Idle}]
      /\ opening \in [Followed -> {"none", "asked", "read", "open"}]
      /\ shown \in [Followed -> Version] /\ disk \in [Contact -> Version]
      /\ server \in [Contact -> Version] /\ heard \in [Followed -> Version]
      /\ saving \subseteq Followed \X Version
  BY DEF Typed, TypeOK
<1>f. Followed \subseteq Contact
  BY Assumptions DEF Assumptions
<1>h. \A c \in Followed : heard[c] <= server[c] /\ heard[c] \in Nat /\ server[c] \in Nat
  BY <1>t, <1>f, VersionsNat DEF NewsInv
\* Nothing about the stores changes, and what is answered does not either.
<1>u. ASSUME UNCHANGED <<stores, server, heard>>,
             \A r \in Sender : request'[r].at \in {"synced", "answered"} =>
                \/ request'[r] = request[r]
                \/ \A c \in DOMAIN request'[r].answer : request'[r].answer[c] = server[c]
      PROVE  NewsInv'
  <2>1. \A c \in Followed : StoreNew(c) => StoreNew(c)'
    BY <1>u DEF StoreNew, stores
  <2>2. UNCHANGED <<server, heard, told, crossed>>
    BY <1>u DEF stores
  <2> QED
    BY <1>u, <2>1, <2>2, SameNews
<1>1. CASE UNCHANGED vars
  BY <1>1, <1>u DEF vars, asking
<1>2. ASSUME NEW c \in Contact, Ask(c) PROVE NewsInv'
  <2>1. \A d \in Followed : opening[d] = "open" => opening'[d] = "open"
    BY <1>2 DEF Ask
  <2>2. /\ UNCHANGED <<request, shown, saving, disk>>
        /\ UNCHANGED <<server, heard, told, crossed>>
    BY <1>2 DEF Ask
  <2>3. \A d \in Followed : StoreNew(d) => StoreNew(d)'
    BY <2>1, <2>2 DEF StoreNew
  <2> QED
    BY <2>2, <2>3, SameNews
<1>3. ASSUME NEW c \in Contact, Expire(c) PROVE NewsInv'
  BY <1>3, <1>u DEF Expire
<1>4. ASSUME NEW c \in Followed, Read(c) PROVE NewsInv'
  <2>1. /\ UNCHANGED <<request, shown, saving>>
        /\ UNCHANGED <<server, heard, told, crossed>>
    BY <1>4 DEF Read, asking
  <2>2. ASSUME NEW d \in Followed, StoreNew(d) PROVE StoreNew(d)'
    <3>1. d # c
      BY <1>4, <2>2 DEF Read, StoreNew
    <3>2. opening'[d] = opening[d]
      BY <1>t, <1>4, <3>1 DEF Read
    <3>3. disk'[d] = disk[d]
      BY <1>t, <1>f, <1>4, <3>1 DEF Read
    <3> QED
      BY <2>1, <2>2, <3>2, <3>3 DEF StoreNew
  <2> QED
    BY <2>1, <2>2, SameNews
<1>5. ASSUME NEW c \in Followed, Opened(c) PROVE NewsInv'
  <2>1. /\ UNCHANGED <<request, disk, saving>>
        /\ UNCHANGED <<server, heard, told, crossed>>
    BY <1>5 DEF Opened, asking
  <2>2. ASSUME NEW d \in Followed, StoreNew(d) PROVE StoreNew(d)'
    <3>1. d # c
      BY <1>5, <2>2 DEF Opened, StoreNew
    <3>2. opening'[d] = opening[d] /\ shown'[d] = shown[d]
      BY <1>t, <1>5, <3>1 DEF Opened
    <3> QED
      BY <2>1, <2>2, <3>2 DEF StoreNew
  <2> QED
    BY <2>1, <2>2, SameNews
<1>6. ASSUME NEW c \in Followed, NEW v \in Version, Saved(c, v) PROVE NewsInv'
  <2>1. /\ UNCHANGED <<request, opening, shown>>
        /\ UNCHANGED <<server, heard, told, crossed>>
        /\ saving' = saving \ {<<c, v>>} /\ <<c, v>> \in saving
        /\ disk' = [disk EXCEPT ![c] = v]
    BY <1>6 DEF Saved, asking
  <2>2. ASSUME NEW d \in Followed, StoreNew(d) PROVE StoreNew(d)'
    <3>1. CASE d # c
      <4>1. disk'[d] = disk[d]
        BY <1>t, <2>1, <3>1
      <4>2. \A w \in Version : <<d, w>> \in saving' <=> <<d, w>> \in saving
        BY <2>1, <3>1
      <4> QED
        BY <2>1, <2>2, <4>1, <4>2 DEF StoreNew
    <3>2. CASE d = c
      <4>1. v = shown[c] /\ disk'[c] = v
        BY <1>t, <1>f, <2>1, <2>2, <3>2 DEF StoreNew
      <4> QED
        BY <2>1, <2>2, <3>2, <4>1 DEF StoreNew
    <3> QED
      BY <3>1, <3>2
  <2> QED
    BY <2>1, <2>2, SameNews
<1>7. CASE ReadList
  BY <1>7, <1>u DEF ReadList
<1>8. CASE ListArrives
  BY <1>8, <1>u DEF ListArrives
<1>9. ASSUME NEW r \in Sender, Send(r) PROVE NewsInv'
  <2>1. CASE UNCHANGED request
    BY <1>9, <1>u, <2>1 DEF Send
  <2>2. CASE Asks(r, batch \ known, "batch")
    <3>1. batch \ known \in SUBSET Contact
      BY DEF Typed, TypeOK
    <3>2. request'[r].at = "asked" /\ \A q \in Sender \ {r} : request'[q] = request[q]
      BY <2>2, <3>1, AsksPart
    <3> QED
      BY <1>9, <1>u, <3>2 DEF Send
  <2> QED
    BY <1>9, <2>1, <2>2 DEF Send
<1>10. ASSUME NEW r \in Sender, Served(r) PROVE NewsInv'
  <2>1. /\ \A c \in DOMAIN request'[r].answer : request'[r].answer[c] = server[c]
        /\ \A q \in Sender \ {r} : request'[q] = request[q]
    BY <1>10, ServedPart
  <2> QED
    BY <1>10, <1>u, <2>1 DEF Served
<1>11. ASSUME NEW r \in Sender, Goes(r), request[r] # Idle
       PROVE  /\ request'[r].at \notin {"synced", "answered"}
              /\ \A q \in Sender \ {r} : request'[q] = request[q]
  BY <1>11, GoesOn, IdleOrNot
<1>12. ASSUME NEW r \in Sender, Answer(r) PROVE NewsInv'
  <2>1. request[r].at = "answered" /\ request[r] \in Batch /\ request[r] # Idle
    BY <1>t, <1>12, IdleOrNot DEF Answer
  <2>2. PICK all : all = DOMAIN request[r].answer
    OBVIOUS
  <2>3. PICK given : given = Answered(r)
    OBVIOUS
  <2>4. all \in SUBSET Contact /\ Told(given) /\ Update(all, given, {r})
    BY <1>12, <2>1, <2>2, <2>3, TellsTyped, AnswerFacts DEF Answer, Batch
  <2>5. /\ DOMAIN given = all \intersect Followed
        /\ \A c \in DOMAIN given : given[c] = request[r].answer[c]
    BY <2>2, <2>3 DEF Answered, Restrict
  <2>6. server' = server /\ heard' = heard /\ Goes(r)
    BY <1>12 DEF Answer
  <2>7. request'[r].at \notin {"synced", "answered"} /\ \A q \in Sender \ {r} : request'[q] = request[q]
    BY <1>11, <2>1, <2>6
  <2>8. crossed \subseteq crossed'
    BY <2>4, Updated
  <2>9. \A c \in DOMAIN given \ crossed' :
            heard'[c] = server[c] => given[c] = server[c]
    <3>1. ASSUME NEW c \in DOMAIN given, c \notin crossed', heard[c] = server[c]
          PROVE  given[c] = server[c]
      <4>1. AnswerNew(c) /\ c \in DOMAIN request[r].answer
        BY <2>2, <2>5, <2>8, <3>1 DEF NewsInv
      <4> QED
        BY <2>1, <2>5, <3>1, <4>1 DEF AnswerNew
    <3> QED
      BY <2>6, <3>1
  <2>10. \A q \in Sender : q \in {r} => request'[q].at \notin {"synced", "answered"}
    BY <2>7
  <2>11. \A q \in Sender : q \notin {r} => request'[q] = request[q]
    BY <2>7
  <2>12. /\ \A c \in Followed : heard'[c] <= server[c]
         /\ \A c \in Followed \ DOMAIN given : heard'[c] = heard[c]
    BY <1>h, <2>6
  <2> QED
    BY <2>4, <2>6, <2>9, <2>10, <2>11, <2>12, ToldNews
<1>13. ASSUME NEW r \in Sender, Fail(r) PROVE NewsInv'
  <2>1. request[r] # Idle /\ Goes(r)
    BY <1>13, IdleOrNot DEF Fail
  <2>2. request'[r].at \notin {"synced", "answered"} /\ \A q \in Sender \ {r} : request'[q] = request[q]
    BY <1>11, <2>1
  <2> QED
    BY <1>13, <1>u, <2>2 DEF Fail
<1>14. ASSUME NEW r \in Sender, NextChunk(r) PROVE NewsInv'
  <2>1. request[r] \in Batch /\ Asks(r, request[r].left, request[r].of)
    BY <1>t, <1>14, IdleOrNot DEF NextChunk
  <2>2. request[r].left \in SUBSET Contact /\ request[r].of \in {"batch", "sync"}
    BY <2>1 DEF Batch
  <2>3. request'[r].at = "asked" /\ \A q \in Sender \ {r} : request'[q] = request[q]
    BY <2>1, <2>2, AsksPart
  <2> QED
    BY <1>14, <1>u, <2>3 DEF NextChunk
<1>15. ASSUME NEW r \in Sender, Synced(r) PROVE NewsInv'
  <2>1. request[r].at = "synced" /\ request[r] \in Batch
    BY <1>t, <1>15, IdleOrNot DEF Synced
  <2>2. PICK all : all = request[r].ids
    OBVIOUS
  <2>3. PICK given : given = Answered(r)
    OBVIOUS
  <2>4. all \in SUBSET Contact /\ Told(given) /\ Update(all, given, {r})
    BY <1>15, <2>1, <2>2, <2>3, TellsTyped DEF Synced, Batch
  <2>5. /\ DOMAIN given = DOMAIN request[r].answer \intersect Followed
        /\ \A c \in DOMAIN given : given[c] = request[r].answer[c]
    BY <2>3 DEF Answered, Restrict
  <2>6. server' = server /\ heard' = heard
    BY <1>15 DEF Synced
  <2>7. /\ request'[r].at \notin {"synced", "answered"}
        /\ \A q \in Sender \ {r} : request'[q] = request[q]
    BY <1>15, SyncedPart, IdleOrNot
  <2>8. crossed \subseteq crossed'
    BY <2>4, Updated
  <2>9. \A c \in DOMAIN given \ crossed' :
            heard'[c] = server[c] => given[c] = server[c]
    <3>1. ASSUME NEW c \in DOMAIN given, c \notin crossed', heard[c] = server[c]
          PROVE  given[c] = server[c]
      <4>1. AnswerNew(c) /\ c \in DOMAIN request[r].answer
        BY <2>5, <2>8, <3>1 DEF NewsInv
      <4> QED
        BY <2>1, <2>5, <3>1, <4>1 DEF AnswerNew
    <3> QED
      BY <2>6, <3>1
  <2>10. \A q \in Sender : q \in {r} => request'[q].at \notin {"synced", "answered"}
    BY <2>7
  <2>11. \A q \in Sender : q \notin {r} => request'[q] = request[q]
    BY <2>7
  <2>12. /\ \A c \in Followed : heard'[c] <= server[c]
         /\ \A c \in Followed \ DOMAIN given : heard'[c] = heard[c]
    BY <1>h, <2>6
  <2> QED
    BY <2>4, <2>6, <2>9, <2>10, <2>11, <2>12, ToldNews
<1>18. ASSUME NEW r \in Sender, NEW S \in SUBSET Contact,
              NEW others \in SUBSET Contact, Sync(r, S, others)
       PROVE  NewsInv'
  <2>1. /\ \A c \in DOMAIN request'[r].answer : request'[r].answer[c] = server[c]
        /\ \A q \in Sender \ {r} : request'[q] = request[q]
    BY <1>18, SyncPart
  <2> QED
    BY <1>18, <1>u, <2>1 DEF Sync
<1>16. ASSUME NEW c \in Followed, Change(c) PROVE NewsInv'
  <2>1. /\ server'[c] = server[c] + 1 /\ \A d \in Followed \ {c} : server'[d] = server[d]
        /\ UNCHANGED <<request, heard, told, crossed>>
        /\ UNCHANGED <<opening, shown, saving, disk>>
    BY <1>t, <1>f, <1>16 DEF Change, asking, stores
  <2>2. heard'[c] # server'[c] /\ heard'[c] <= server'[c]
    BY <1>h, <2>1
  <2>3. ASSUME NEW d \in Followed, StoreNew(d) PROVE StoreNew(d)'
    BY <2>1, <2>2, <2>3 DEF StoreNew
  <2>4. ASSUME NEW d \in Followed, AnswerNew(d) PROVE AnswerNew(d)'
    BY <2>1, <2>2, <2>4 DEF AnswerNew
  <2>5. ASSUME NEW d \in Followed PROVE heard'[d] <= server'[d]
    BY <1>h, <2>1, <2>2
  <2> QED
    BY <2>1, <2>3, <2>4, <2>5 DEF NewsInv
<1>17. ASSUME NEW c \in Followed, Hear(c) PROVE NewsInv'
  <2>1. PICK given : given = [d \in {c} |-> heard[c] + 1]
    OBVIOUS
  <2>2. Told(given) /\ Update({c}, given, {}) /\ {c} \in SUBSET Contact
    BY <1>f, <1>17, <2>1, TellsTyped DEF Hear
  <2>3. server' = server /\ request' = request
        /\ heard'[c] = heard[c] + 1 /\ \A d \in Followed \ {c} : heard'[d] = heard[d]
    BY <1>t, <1>17 DEF Hear
  <2>4. DOMAIN given = {c} /\ given[c] = heard'[c]
    BY <2>1, <2>3
  <2>5. \A d \in DOMAIN given \ crossed' :
            heard'[d] = server[d] => given[d] = server[d]
    BY <2>4
  <2>6. \A d \in Followed \ DOMAIN given : heard'[d] = heard[d]
    BY <2>3, <2>4
  <2>7. \A d \in Followed : heard'[d] <= server[d]
    <3>1. heard[c] < server[c]
      BY <1>17 DEF Hear
    <3>2. heard'[c] <= server[c]
      BY <1>h, <2>3, <3>1
    <3> QED
      BY <1>h, <2>3, <3>2
  <2>8. /\ \A q \in Sender : q \in {} => request'[q].at \notin {"synced", "answered"}
        /\ \A q \in Sender : q \notin {} => request'[q] = request[q]
    BY <2>3
  <2> QED
    BY <2>2, <2>3, <2>5, <2>6, <2>7, <2>8, ToldNews
<1> QED
  BY <1>1, <1>2, <1>3, <1>4, <1>5, <1>6, <1>7, <1>8, <1>9, <1>10, <1>12, <1>13,
     <1>14, <1>15, <1>16, <1>17, <1>18 DEF Next

-----------------------------------------------------------------------------
(* Theorems *)

LEMMA QueueInit == Init => QueueInv
BY DEF Init, QueueInv, Queued, AskedOnce, PendingIsServed, Has

\* Types, with what a batch is, and the two invariants: what is queued is
\* pending or known, stands in one batch and was not asked for yet
\* (requestAndCacheContact); what the page was told last of a contact is what
\* its store shows and saves (updateContact and the subscriber that saves, in
\* stores/contacts.js).
THEOREM ContactsInvariant == Spec => [](Typed /\ QueueInv /\ NewsInv)
<1>1. Init => Typed /\ QueueInv /\ NewsInv
  BY TypedInit, QueueInit, NewsInit
<1>2. Typed /\ QueueInv /\ NewsInv /\ [Next]_vars => (Typed /\ QueueInv /\ NewsInv)'
  BY TypedNext, QueueNext, NewsNext DEF QueueInv
<1> QED
  BY <1>1, <1>2, PTL DEF Spec

\* A contact is in one batch at a time, however often it is asked for, and in
\* none while it counts as failed: whatever the number of batches that are
\* being sent and the size of their chunks (requestAndCacheContact).
THEOREM AskedForOnce == Spec => []AskedOnce
<1>1. QueueInv => AskedOnce
  BY DEF QueueInv
<1> QED
  BY <1>1, ContactsInvariant, PTL

\* No contact stays pending without a batch that stands for it, and no lookup
\* without a call that ends it, whichever requests fail and whichever answers
\* overtake each other (getContact, requestAndCacheContact).
THEOREM AskersAreServed == Spec => []PendingIsServed
<1>1. QueueInv => PendingIsServed
  BY DEF QueueInv
<1> QED
  BY <1>1, ContactsInvariant, PTL

\* What the page was told of a contact whose store was open, with nothing else
\* on its way, ends up shown and on disk in the newest version (syncContacts,
\* updateContact, set_contact).
THEOREM NewestIsKept == Spec => []NewestKept
<1>1. Typed /\ NewsInv => NewestKept
  <2> SUFFICES ASSUME Typed, NewsInv, NEW c \in told \ crossed, AtRest(c)
               PROVE  shown[c] = server[c] /\ disk[c] = server[c]
    BY DEF NewestKept
  <2>1. c \in Followed
    BY DEF Typed, TypeOK
  <2>2. StoreNew(c)
    BY <2>1 DEF NewsInv
  <2> QED
    BY <2>2 DEF AtRest, StoreNew
<1> QED
  BY <1>1, ContactsInvariant, PTL
=============================================================================
