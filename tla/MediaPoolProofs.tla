--------------------------- MODULE MediaPoolProofs ---------------------------
(***************************************************************************)
(* Proofs about MediaPool, for any number of addresses, canvases, entries  *)
(* and loadings: what is held is pooled, every player has an owner that    *)
(* stops it, a canvas shows its own media, and what is visible plays.      *)
(***************************************************************************)
EXTENDS MediaPool, FiniteSetTheorems, TLAPS

-----------------------------------------------------------------------------
(* The invariants *)

Holders(k) == {c \in Canvas : holds[c] = k}

\* A loading that goes on, or the player that it has made
Active(s) == At(s) \in {"resolve", "retry", "again", "image"} \/ video[s].on

\* Nothing was loaded anew or evicted while it was loading.
Orderly == "reloaded" \notin upset /\ "outlived" \notin upset

Keyed == \A k \in Key : pool[k] # None =>
    entry[pool[k]] # None /\ entry[pool[k]].key = k

Loads == \A s \in Source :
    /\ load[s] # None =>
        /\ entry[load[s].of] # None
        /\ load[s].at = "image" => entry[load[s].of].type = "image"
    /\ video[s].on => At(s) = "video"

\* The media of an entry was made by a loading for it.
Sources == \A e \in Entry : entry[e] # None /\ entry[e].source # None =>
    load[entry[e].source] # None /\ load[entry[e].source].of = e

\* An entry counts the canvases that hold its address; when safe avatars were
\* purged, perhaps not all of them.
Counts == \A k \in Key :
    /\ pool[k] = None /\ k \notin Avatar => Holders(k) = {}
    /\ pool[k] # None =>
        /\ entry[pool[k]].refs <= Cardinality(Holders(k))
        /\ entry[pool[k]].consumers \subseteq Holders(k)
        /\ entry[pool[k]].visible \subseteq Holders(k)
        /\ k \notin Avatar =>
            /\ entry[pool[k]].refs = Cardinality(Holders(k))
            /\ entry[pool[k]].consumers = Holders(k)

Unpooled == \A e \in Entry : entry[e] # None /\ e \notin Pooled => entry[e].refs = 0

\* One loading at a time is for an entry, which is in the pool, and its player
\* is the source of the entry.
OneLoad == Orderly =>
    /\ \A s \in Source : Active(s) => load[s].of \in Pooled
    /\ \A s, q \in Source : Active(s) /\ Active(q) /\ load[s].of = load[q].of => s = q
    /\ \A s \in Source : video[s].on =>
        entry[load[s].of].source = s /\ entry[load[s].of].type = "video"

\* The player of an entry that is visible runs.
Playing == upset = {} => \A e \in Pooled : entry[e].type = "video" =>
    /\ entry[e].status = "ready" => entry[e].source # None
    /\ entry[e].source # None /\ entry[e].visible # {} =>
            ~video[entry[e].source].paused

PoolInv ==
    /\ TypeOK
    /\ Keyed /\ Counts /\ Unpooled
    /\ Loads /\ Sources /\ OneLoad
    /\ ShowsOwn /\ Playing

-----------------------------------------------------------------------------
(* The pool, its entries and their loadings *)

Player == [on : BOOLEAN, loaded : BOOLEAN, paused : BOOLEAN]

LEMMA TypesOf ==
    ASSUME TypeOK
    PROVE  /\ pool \in [Key -> Entry \union {None}]
           /\ entry \in [Entry -> MediaEntry \union {None}]
           /\ load \in [Source -> Loading \union {None}]
           /\ video \in [Source -> Player]
           /\ holds \in [Canvas -> Key \union {None}]
           /\ shown \in [Canvas -> Key \union {None}]
BY DEF TypeOK, Player

LEMMA NoneIsNew ==
    /\ None \notin Key /\ None \notin Entry /\ None \notin Source
    /\ None \notin MediaEntry /\ None \notin Loading
    /\ Avatar \subseteq Key /\ IsFiniteSet(Canvas)
BY Assumptions DEF Assumptions

LEMMA InPool ==
    \A e : e \in Pooled <=> e # None /\ \E k \in Key : pool[k] = e
BY DEF Pooled

LEMMA InPoolNext ==
    \A e : e \in Pooled' <=> e # None /\ \E k \in Key : pool'[k] = e
BY DEF Pooled

LEMMA PooledFacts ==
    ASSUME TypeOK, Keyed
    PROVE  /\ \A e \in Pooled : /\ e \in Entry /\ entry[e] \in MediaEntry
                                /\ entry[e].key \in Key /\ pool[entry[e].key] = e
           /\ \A k \in Key : pool[k] # None => pool[k] \in Pooled
BY TypesOf, InPool, NoneIsNew DEF Keyed

LEMMA LoadFacts ==
    ASSUME TypeOK, Loads, NEW s \in Source
    PROVE  /\ load[s] # None => /\ load[s] \in Loading /\ load[s].of \in Entry
                                /\ entry[load[s].of] \in MediaEntry
                                /\ At(s) = load[s].at
           /\ At(s) # "over" => load[s] # None
           /\ Active(s) => load[s] # None
           /\ video[s].on => At(s) = "video" /\ load[s] # None
BY TypesOf, NoneIsNew DEF Loads, At, Active, Loading

LEMMA UnderWayFacts ==
    ASSUME NEW e
    PROVE  UnderWay(e) <=> \E s \in Source :
                load[s] # None /\ load[s].of = e
                /\ At(s) \in {"resolve", "retry", "again", "image"}
BY DEF UnderWay, Of

LEMMA HoldersFinite ==
    ASSUME NEW k
    PROVE  /\ IsFiniteSet(Holders(k)) /\ Cardinality(Holders(k)) \in Nat
           /\ Cardinality(Holders(k)) <= Cardinality(Canvas)
           /\ Cardinality(Canvas) \in Nat
           /\ Cardinality(Holders(k)) = 0 <=> Holders(k) = {}
<1>1. Holders(k) \subseteq Canvas
  BY DEF Holders
<1> QED
  BY <1>1, NoneIsNew, FS_Subset, FS_CardinalityType, FS_EmptySet

\* c takes or lets go the address k.
LEMMA HoldersChange ==
    ASSUME TypeOK, NEW c \in Canvas, NEW k \in Key
    PROVE  /\ holds[c] = None /\ holds' = [holds EXCEPT ![c] = k] =>
                /\ Holders(k)' = Holders(k) \union {c} /\ c \notin Holders(k)
                /\ Cardinality(Holders(k)') = Cardinality(Holders(k)) + 1
                /\ Cardinality(Holders(k)) + 1 <= Cardinality(Canvas)
                /\ \A j \in Key \ {k} : Holders(j)' = Holders(j)
           /\ holds[c] = k /\ holds' = [holds EXCEPT ![c] = None] =>
                /\ Holders(k)' = Holders(k) \ {c} /\ c \in Holders(k)
                /\ Cardinality(Holders(k)') = Cardinality(Holders(k)) - 1
                /\ \A j \in Key \ {k} : Holders(j)' = Holders(j)
<1>h. holds \in [Canvas -> Key \union {None}] /\ None \notin Key
  BY TypesOf, NoneIsNew
<1>1. ASSUME holds[c] = None, holds' = [holds EXCEPT ![c] = k]
      PROVE  /\ Holders(k)' = Holders(k) \union {c} /\ c \notin Holders(k)
             /\ Cardinality(Holders(k)') = Cardinality(Holders(k)) + 1
             /\ Cardinality(Holders(k)) + 1 <= Cardinality(Canvas)
             /\ \A j \in Key \ {k} : Holders(j)' = Holders(j)
  <2>1. Holders(k)' = Holders(k) \union {c} /\ c \notin Holders(k)
        /\ \A j \in Key \ {k} : Holders(j)' = Holders(j)
    BY <1>h, <1>1 DEF Holders
  <2> QED
    <3>1. Cardinality(Holders(k) \union {c}) = Cardinality(Holders(k)) + 1
      BY <2>1, HoldersFinite, FS_AddElement
    <3>2. Holders(k) \union {c} \subseteq Canvas
      BY DEF Holders
    <3>3. Cardinality(Holders(k) \union {c}) <= Cardinality(Canvas)
      BY <3>2, NoneIsNew, FS_Subset
    <3> QED
      BY <2>1, <3>1, <3>3
<1>2. ASSUME holds[c] = k, holds' = [holds EXCEPT ![c] = None]
      PROVE  /\ Holders(k)' = Holders(k) \ {c} /\ c \in Holders(k)
             /\ Cardinality(Holders(k)') = Cardinality(Holders(k)) - 1
             /\ \A j \in Key \ {k} : Holders(j)' = Holders(j)
  <2>1. Holders(k)' = Holders(k) \ {c} /\ c \in Holders(k)
        /\ \A j \in Key \ {k} : Holders(j)' = Holders(j)
    BY <1>h, <1>2 DEF Holders
  <2> QED
    BY <2>1, HoldersFinite, FS_RemoveElement
<1> QED
  BY <1>1, <1>2

\* The player of e is started, unless it was tried just now.
LEMMA PlayFacts ==
    ASSUME TypeOK, NEW e \in Entry, NEW s \in Source, Play(e, s)
    PROVE  /\ video' \in [Source -> Player] /\ recent' \subseteq Entry
           /\ \A q \in Source : video'[q].on = video[q].on
                                /\ (video'[q].paused => video[q].paused)
           /\ video'[s].paused => Hasty(e, s) = {"hasty"}
<1>1. video \in [Source -> Player] /\ recent \subseteq Entry
  BY DEF TypeOK, Player
<1>2. CASE video[s].paused /\ e \notin recent
  <2>1. video' = [video EXCEPT ![s].paused = FALSE] /\ recent' = recent \union {e}
    BY <1>2 DEF Play
  <2>2. PICK p : p = [video[s] EXCEPT !.paused = FALSE]
    OBVIOUS
  <2>3. p \in Player /\ p.on = video[s].on /\ ~p.paused
    BY <1>1, <2>2 DEF Player
  <2>4. video' = [video EXCEPT ![s] = p]
    BY <2>1, <2>2
  <2> QED
    BY <1>1, <2>1, <2>3, <2>4
<1>3. CASE ~(video[s].paused /\ e \notin recent)
  BY <1>1, <1>3 DEF Play, Hasty
<1> QED
  BY <1>2, <1>3

-----------------------------------------------------------------------------
(* Types *)

LEMMA TypeMade ==
    ASSUME pool' \in [Key -> Entry \union {None}],
           entry' \in [Entry -> MediaEntry \union {None}],
           load' \in [Source -> Loading \union {None}],
           video' \in [Source -> Player], loop' \in BOOLEAN, recent' \subseteq Entry,
           holds' \in [Canvas -> Key \union {None}], seen' \in [Canvas -> BOOLEAN],
           shown' \in [Canvas -> Key \union {None}],
           upset' \subseteq {"reloaded", "outlived", "hasty"}
    PROVE  TypeOK'
BY DEF TypeOK, Player

LEMMA LoopTyped ==
    ASSUME TypeOK, NEW called \in BOOLEAN, EnsureRenderLoop(called)
    PROVE  loop' \in BOOLEAN
BY DEF EnsureRenderLoop, TypeOK

-----------------------------------------------------------------------------
(* What a step may leave as it is *)

\* No entry has other media.
SameMedia ==
    \A e \in Entry :
        /\ entry'[e] = None <=> entry[e] = None
        /\ entry[e] # None =>
            /\ entry'[e].key = entry[e].key /\ entry'[e].type = entry[e].type
            /\ entry'[e].source = entry[e].source

\* Loadings stay for their entries, and none begins.
SameLoads ==
    \A s \in Source :
        /\ load'[s] = None <=> load[s] = None
        /\ load[s] # None =>
            /\ load'[s].of = load[s].of
            /\ load'[s].at = "image" => \/ load[s].at = "image"
                                       \/ entry[load[s].of].type = "image"
        /\ Active(s)' => Active(s)
        /\ video'[s].on = video[s].on
        /\ video[s].on => At(s)' = At(s)

LEMMA KeepLoads ==
    ASSUME TypeOK, Keyed, Loads, Sources, OneLoad,
           pool' = pool, SameMedia, SameLoads, upset \subseteq upset'
    PROVE  Keyed' /\ Loads' /\ Sources' /\ OneLoad'
<1>t. /\ pool \in [Key -> Entry \union {None}]
      /\ load \in [Source -> Loading \union {None}]
      /\ entry \in [Entry -> MediaEntry \union {None}]
  BY TypesOf
<1>l. \A s \in Source : load[s] # None => load[s].of \in Entry
  BY LoadFacts
<1>a. \A s \in Source : Active(s) => load[s] # None
  BY LoadFacts
<1>1. Keyed'
  BY <1>t DEF Keyed, SameMedia
<1>2. Loads'
  BY <1>l DEF Loads, SameMedia, SameLoads
<1>3. Sources'
  <2> SUFFICES ASSUME NEW e \in Entry, entry'[e] # None, entry'[e].source # None
               PROVE  load'[entry'[e].source] # None /\ load'[entry'[e].source].of = e
    BY DEF Sources
  <2>1. /\ entry[e] # None /\ entry'[e].source = entry[e].source
        /\ entry[e].source \in Source
        /\ load[entry[e].source] # None /\ load[entry[e].source].of = e
    BY <1>t DEF SameMedia, Sources, MediaEntry
  <2> QED
    BY <2>1 DEF SameLoads
<1>4. OneLoad'
  <2> SUFFICES ASSUME Orderly PROVE
        /\ \A s \in Source : Active(s)' => load'[s].of \in Pooled'
        /\ \A s, q \in Source : Active(s)' /\ Active(q)' /\ load'[s].of = load'[q].of
                => s = q
        /\ \A s \in Source : video'[s].on =>
            entry'[load'[s].of].source = s /\ entry'[load'[s].of].type = "video"
    BY DEF OneLoad, Orderly
  <2>1. Pooled' = Pooled
    BY DEF Pooled
  <2>2. \A s \in Source : Active(s)' => Active(s) /\ load'[s].of = load[s].of
    BY <1>a DEF SameLoads
  <2>3. ASSUME NEW s \in Source, video'[s].on
        PROVE  entry'[load'[s].of].source = s /\ entry'[load'[s].of].type = "video"
    <3>1. video[s].on /\ load[s] # None /\ load'[s].of = load[s].of
      BY <2>3, LoadFacts DEF SameLoads
    <3>2. load[s].of \in Entry /\ entry[load[s].of] # None
      BY <3>1, LoadFacts DEF Loads
    <3> QED
      BY <3>1, <3>2 DEF OneLoad, SameMedia
  <2> QED
    BY <2>1, <2>2, <2>3 DEF OneLoad
<1> QED
  BY <1>1, <1>2, <1>3, <1>4

\* No entry is counted otherwise.
SameCounts ==
    \A e \in Entry : entry[e] # None =>
        /\ entry'[e].refs = entry[e].refs
        /\ entry'[e].consumers = entry[e].consumers
        /\ entry'[e].visible = entry[e].visible

LEMMA KeepCounts ==
    ASSUME TypeOK, Keyed, Counts, Unpooled,
           pool' = pool, holds' = holds, SameCounts,
           \A e \in Entry : entry'[e] = None <=> entry[e] = None
    PROVE  Counts' /\ Unpooled'
<1>1. \A k : Holders(k)' = Holders(k)
  BY DEF Holders
<1>2. Pooled' = Pooled
  BY DEF Pooled
<1>3. \A k \in Key : pool[k] # None => pool[k] \in Entry /\ entry[pool[k]] # None
  BY TypesOf DEF Keyed
<1> QED
  BY <1>1, <1>2, <1>3 DEF Counts, Unpooled, SameCounts

\* A canvas that is told is one that holds the address of the entry.
LEMMA ToldOwn ==
    ASSUME TypeOK, Keyed, Counts, NEW e \in Pooled, NEW c \in Canvas,
           c \in entry[e].consumers \union entry[e].visible
    PROVE  holds[c] = entry[e].key /\ entry[e].key \in Key
<1>1. PICK k \in Key : k = entry[e].key /\ pool[k] = e /\ e # None
  BY PooledFacts, InPool
<1>2. entry[e].consumers \subseteq Holders(k) /\ entry[e].visible \subseteq Holders(k)
  BY <1>1 DEF Counts
<1> QED
  BY <1>1, <1>2 DEF Holders

LEMMA SourcesDiffer ==
    ASSUME TypeOK, Sources
    PROVE  \A d, e \in Entry :
            /\ entry[d] # None /\ entry[e] # None
            /\ entry[d].source = entry[e].source /\ entry[e].source # None
            => d = e
BY DEF Sources

-----------------------------------------------------------------------------
(* Canvases come and go *)

\* Canvas c takes the address k, whose entry is e now.
LEMMA TakesCounted ==
    ASSUME TypeOK, Keyed, Counts, Unpooled, NEW c \in Canvas, NEW k \in Key,
           NEW e \in Entry, pool[k] = e, holds[c] = None,
           holds' = [holds EXCEPT ![c] = k], pool' = pool,
           entry'[e] # None, entry'[e].refs = entry[e].refs + 1,
           entry'[e].consumers = entry[e].consumers \union {c},
           entry'[e].visible \subseteq entry[e].visible \union {c},
           \A d \in Entry : d # e => entry'[d] = entry[d]
    PROVE  Counts' /\ Unpooled'
<1>t. pool \in [Key -> Entry \union {None}] /\ None \notin Entry /\ entry[e] \in MediaEntry
  BY TypesOf, NoneIsNew DEF Keyed
<1>n. entry[e].refs \in Nat /\ Cardinality(Holders(k)) \in Nat
  BY <1>t, HoldersFinite DEF MediaEntry
<1>h. /\ Holders(k)' = Holders(k) \union {c} /\ c \notin Holders(k)
      /\ Cardinality(Holders(k)') = Cardinality(Holders(k)) + 1
      /\ \A j \in Key \ {k} : Holders(j)' = Holders(j)
  BY HoldersChange
<1>k. /\ entry[e].refs <= Cardinality(Holders(k))
      /\ entry[e].consumers \subseteq Holders(k)
      /\ entry[e].visible \subseteq Holders(k)
      /\ k \notin Avatar =>
            /\ entry[e].refs = Cardinality(Holders(k))
            /\ entry[e].consumers = Holders(k)
  BY <1>t DEF Counts
<1>o. \A j \in Key \ {k} : pool[j] # None => pool[j] # e /\ pool[j] \in Entry
  BY <1>t DEF Keyed
<1>1. ASSUME NEW j \in Key, j # k
      PROVE  /\ pool'[j] = None /\ j \notin Avatar => Holders(j)' = {}
             /\ pool'[j] # None =>
                /\ entry'[pool'[j]].refs <= Cardinality(Holders(j)')
                /\ entry'[pool'[j]].consumers \subseteq Holders(j)'
                /\ entry'[pool'[j]].visible \subseteq Holders(j)'
                /\ j \notin Avatar =>
                    /\ entry'[pool'[j]].refs = Cardinality(Holders(j)')
                    /\ entry'[pool'[j]].consumers = Holders(j)'
  <2>1. Holders(j)' = Holders(j) /\ pool'[j] = pool[j]
    BY <1>h, <1>1
  <2>2. pool[j] # None => entry'[pool[j]] = entry[pool[j]]
    BY <1>o, <1>1
  <2> QED
    BY <1>1, <2>1, <2>2 DEF Counts
<1>2. /\ entry'[e].refs <= Cardinality(Holders(k)')
      /\ entry'[e].consumers \subseteq Holders(k)'
      /\ entry'[e].visible \subseteq Holders(k)'
      /\ k \notin Avatar =>
            /\ entry'[e].refs = Cardinality(Holders(k)')
            /\ entry'[e].consumers = Holders(k)'
  BY <1>n, <1>h, <1>k
<1>3. Counts'
  BY <1>t, <1>1, <1>2 DEF Counts
<1>4. Unpooled'
  <2>1. Pooled' = Pooled /\ e \in Pooled
    BY <1>t, InPool DEF Pooled
  <2> QED
    BY <2>1 DEF Unpooled
<1> QED
  BY <1>3, <1>4

\* c lets go the address k, whose entry is e.
LEMMA LeavesCounted ==
    ASSUME TypeOK, Keyed, Counts, Unpooled, NEW c \in Canvas, NEW k \in Key,
           NEW e \in Entry, pool[k] = e, holds[c] = k,
           holds' = [holds EXCEPT ![c] = None], pool' = pool,
           entry'[e] # None, entry'[e].refs = Less(entry[e].refs),
           entry'[e].consumers = entry[e].consumers \ {c},
           entry'[e].visible = entry[e].visible \ {c},
           \A d \in Entry : d # e => entry'[d] = entry[d]
    PROVE  Counts' /\ Unpooled'
<1>t. pool \in [Key -> Entry \union {None}] /\ None \notin Entry /\ entry[e] \in MediaEntry
  BY TypesOf, NoneIsNew DEF Keyed
<1>n. entry[e].refs \in Nat /\ Cardinality(Holders(k)) \in Nat
  BY <1>t, HoldersFinite DEF MediaEntry
<1>h. /\ Holders(k)' = Holders(k) \ {c} /\ c \in Holders(k)
      /\ Cardinality(Holders(k)') = Cardinality(Holders(k)) - 1
      /\ \A j \in Key \ {k} : Holders(j)' = Holders(j)
  BY HoldersChange
<1>p. Cardinality(Holders(k)) > 0
  BY <1>n, <1>h, HoldersFinite
<1>k. /\ entry[e].refs <= Cardinality(Holders(k))
      /\ entry[e].consumers \subseteq Holders(k)
      /\ entry[e].visible \subseteq Holders(k)
      /\ k \notin Avatar =>
            /\ entry[e].refs = Cardinality(Holders(k))
            /\ entry[e].consumers = Holders(k)
  BY <1>t DEF Counts
<1>o. \A j \in Key \ {k} : pool[j] # None => pool[j] # e /\ pool[j] \in Entry
  BY <1>t DEF Keyed
<1>1. ASSUME NEW j \in Key, j # k
      PROVE  /\ pool'[j] = None /\ j \notin Avatar => Holders(j)' = {}
             /\ pool'[j] # None =>
                /\ entry'[pool'[j]].refs <= Cardinality(Holders(j)')
                /\ entry'[pool'[j]].consumers \subseteq Holders(j)'
                /\ entry'[pool'[j]].visible \subseteq Holders(j)'
                /\ j \notin Avatar =>
                    /\ entry'[pool'[j]].refs = Cardinality(Holders(j)')
                    /\ entry'[pool'[j]].consumers = Holders(j)'
  <2>1. Holders(j)' = Holders(j) /\ pool'[j] = pool[j]
    BY <1>h, <1>1
  <2>2. pool[j] # None => entry'[pool[j]] = entry[pool[j]]
    BY <1>o, <1>1
  <2> QED
    BY <1>1, <2>1, <2>2 DEF Counts
<1>2. /\ entry'[e].refs <= Cardinality(Holders(k)')
      /\ k \notin Avatar => entry'[e].refs = Cardinality(Holders(k)')
  BY <1>n, <1>h, <1>k, <1>p DEF Less
<1>3. /\ entry'[e].consumers \subseteq Holders(k)'
      /\ entry'[e].visible \subseteq Holders(k)'
      /\ k \notin Avatar => entry'[e].consumers = Holders(k)'
  BY <1>h, <1>k
<1>4. Counts'
  <2>1. pool'[k] = e /\ e # None
    BY <1>t
  <2>2. /\ entry'[e].refs <= Cardinality(Holders(k)')
        /\ entry'[e].consumers \subseteq Holders(k)'
        /\ entry'[e].visible \subseteq Holders(k)'
        /\ k \notin Avatar =>
            /\ entry'[e].refs = Cardinality(Holders(k)')
            /\ entry'[e].consumers = Holders(k)'
    BY <1>2, <1>3
  <2> QED
    BY <1>1, <2>1, <2>2 DEF Counts
<1>5. Unpooled'
  <2>1. Pooled' = Pooled /\ e \in Pooled
    BY <1>t, InPool DEF Pooled
  <2> QED
    BY <2>1 DEF Unpooled
<1> QED
  BY <1>4, <1>5

\* Entry e, whose address c holds, is seen by c, or not any more.
LEMMA SeenCounted ==
    ASSUME TypeOK, Keyed, Counts, Unpooled, NEW c \in Canvas, NEW k \in Key,
           NEW e \in Entry, pool[k] = e, holds[c] = k, holds' = holds, pool' = pool,
           entry'[e] # None, entry'[e].refs = entry[e].refs,
           entry'[e].consumers = entry[e].consumers,
           entry'[e].visible \subseteq entry[e].visible \union {c},
           \A d \in Entry : d # e => entry'[d] = entry[d]
    PROVE  Counts' /\ Unpooled'
<1>t. pool \in [Key -> Entry \union {None}] /\ None \notin Entry
  BY TypesOf, NoneIsNew
<1>h. c \in Holders(k) /\ \A j : Holders(j)' = Holders(j)
  BY DEF Holders
<1>1. \A j \in Key \ {k} : pool[j] # None =>
        pool[j] \in Entry /\ entry'[pool[j]] = entry[pool[j]]
  BY <1>t DEF Keyed
<1>2. Counts'
  BY <1>t, <1>h, <1>1 DEF Counts
<1>3. Unpooled'
  <2>1. Pooled' = Pooled /\ e \in Pooled
    BY <1>t, InPool DEF Pooled
  <2> QED
    BY <2>1 DEF Unpooled
<1> QED
  BY <1>2, <1>3

\* A canvas shows what it showed, or nothing, or its own.
LEMMA KeepShown ==
    ASSUME ShowsOwn, upset \subseteq upset',
           Orderly /\ Orderly' => \A c \in Canvas :
                \/ shown'[c] = shown[c] /\ holds'[c] = holds[c]
                \/ shown'[c] \in {None, holds'[c]}
    PROVE  ShowsOwn'
BY DEF ShowsOwn, Orderly

\* An entry that is in the pool plays as before, or is not visible any more.
PlaysOn(e) ==
    /\ entry[e].type = "video" /\ entry'[e].source = entry[e].source
    /\ entry'[e].status = "ready" => entry[e].status = "ready" \/ entry[e].source # None
    /\ entry[e].source # None /\ entry'[e].visible # {} =>
         \/ ~video'[entry[e].source].paused
         \/ /\ entry[e].visible # {}
            /\ video'[entry[e].source].paused => video[entry[e].source].paused

LEMMA KeepPlaying ==
    ASSUME Playing, upset \subseteq upset',
           upset' = {} => \A e \in Pooled' : entry'[e].type = "video" =>
                e \in Pooled /\ PlaysOn(e)
    PROVE  Playing'
<1> SUFFICES ASSUME upset' = {}, NEW e \in Pooled', entry'[e].type = "video"
             PROVE  /\ entry'[e].status = "ready" => entry'[e].source # None
                    /\ entry'[e].source # None /\ entry'[e].visible # {} =>
                            ~video'[entry'[e].source].paused
  BY DEF Playing
<1>1. e \in Pooled /\ PlaysOn(e) /\ upset = {}
  OBVIOUS
<1> QED
  BY <1>1 DEF Playing, PlaysOn

LEMMA AttachNewKeeps ==
    ASSUME PoolInv, NEW c \in Canvas, NEW k \in Key, NEW type \in {"video", "image"},
           AttachNew(c, k, type)
    PROVE  PoolInv'
<1>i. /\ TypeOK /\ Keyed /\ Counts /\ Unpooled
      /\ Loads /\ Sources /\ OneLoad /\ ShowsOwn /\ Playing
  BY DEF PoolInv
<1>t. /\ pool \in [Key -> Entry \union {None}]
      /\ entry \in [Entry -> MediaEntry \union {None}]
      /\ load \in [Source -> Loading \union {None}]
      /\ holds \in [Canvas -> Key \union {None}]
      /\ None \notin Key /\ None \notin Entry /\ None \notin MediaEntry /\ None \notin Loading
  BY <1>i, TypesOf, NoneIsNew
<1>p. /\ holds[c] = None /\ pool[k] = None /\ holds' = [holds EXCEPT ![c] = k]
      /\ UNCHANGED <<video, recent, seen, shown, upset>>
      /\ loop' \in BOOLEAN
  BY <1>i, LoopTyped DEF AttachNew, TypeOK
<1>w. PICK e \in Entry, s \in Source :
        /\ entry[e] = None /\ load[s] = None
        /\ pool' = [pool EXCEPT ![k] = e]
        /\ entry' = [entry EXCEPT ![e] = Counted(NewEntry(k, type), c)]
        /\ load' = [load EXCEPT ![s] = [of |-> e, at |-> "resolve"]]
  BY DEF AttachNew
<1>h. /\ Holders(k)' = Holders(k) \union {c} /\ c \notin Holders(k)
      /\ Cardinality(Holders(k)') = Cardinality(Holders(k)) + 1
      /\ Cardinality(Holders(k)) + 1 <= Cardinality(Canvas)
      /\ Cardinality(Holders(k)) \in Nat /\ Cardinality(Canvas) \in Nat
      /\ Cardinality(Holders(k)) = 0 <=> Holders(k) = {}
      /\ \A j \in Key \ {k} : Holders(j)' = Holders(j)
  BY <1>i, <1>p, HoldersChange, HoldersFinite
<1>r. PICK r : r = Counted(NewEntry(k, type), c)
  OBVIOUS
<1>f. /\ r \in MediaEntry /\ r.key = k /\ r.type = type /\ r.status = "loading"
      /\ r.source = None /\ r.refs = 1 /\ r.consumers = {c}
      /\ r.visible \subseteq {c}
  <2>1. 1 \in 0..Cardinality(Canvas) /\ 0 \in 0..Cardinality(Canvas)
    BY <1>h
  <2>2. PICK v : v = IF seen[c] THEN {} \union {c} ELSE {}
    OBVIOUS
  <2>3. r = [key |-> k, type |-> type, status |-> "loading", source |-> None,
             refs |-> 0 + 1, consumers |-> {} \union {c}, visible |-> v,
             timer |-> FALSE]
    BY <1>r, <2>2 DEF Counted, NewEntry
  <2>4. v \in SUBSET Canvas /\ {} \union {c} = {c} /\ 0 + 1 = 1 /\ v \subseteq {c}
    BY <2>2
  <2> QED
    BY <2>1, <2>3, <2>4 DEF MediaEntry
<1>e. /\ entry'[e] = r /\ \A d \in Entry : d # e => entry'[d] = entry[d]
      /\ pool'[k] = e /\ \A j \in Key : j # k => pool'[j] = pool[j]
      /\ load'[s].of = e /\ load'[s].at = "resolve" /\ load'[s] \in Loading
      /\ \A q \in Source : q # s => load'[q] = load[q]
      /\ entry' \in [Entry -> MediaEntry \union {None}]
      /\ pool' \in [Key -> Entry \union {None}]
      /\ load' \in [Source -> Loading \union {None}]
  BY <1>t, <1>w, <1>r, <1>f DEF Loading
<1>o. /\ \A j \in Key : pool[j] # None => pool[j] # e
      /\ \A q \in Source : load[q] # None => q # s /\ load[q].of # e
      /\ \A q \in Source : video[q].on => load[q] # None
  BY <1>i, <1>w, LoadFacts DEF Keyed, Loads
<1>1. TypeOK'
  <2>1. holds' \in [Canvas -> Key \union {None}]
    BY <1>t, <1>p
  <2> QED
    BY <1>i, <1>p, <1>e, <2>1, TypesOf, TypeMade DEF TypeOK
<1>2. Keyed'
  BY <1>t, <1>e, <1>f, <1>i, <1>o DEF Keyed
<1>3. Counts'
  <2>1. ASSUME NEW j \in Key, j # k
        PROVE  /\ pool'[j] = None /\ j \notin Avatar => Holders(j)' = {}
               /\ pool'[j] # None =>
                  /\ entry'[pool'[j]].refs <= Cardinality(Holders(j)')
                  /\ entry'[pool'[j]].consumers \subseteq Holders(j)'
                  /\ entry'[pool'[j]].visible \subseteq Holders(j)'
                  /\ j \notin Avatar =>
                      /\ entry'[pool'[j]].refs = Cardinality(Holders(j)')
                      /\ entry'[pool'[j]].consumers = Holders(j)'
    <3>1. Holders(j)' = Holders(j) /\ pool'[j] = pool[j]
      BY <1>h, <1>e, <2>1
    <3>2. pool[j] # None => entry'[pool[j]] = entry[pool[j]]
      BY <1>t, <1>e, <1>o
    <3> QED
      BY <1>i, <3>1, <3>2 DEF Counts
  <2>2. /\ r.refs <= Cardinality(Holders(k)')
        /\ r.consumers \subseteq Holders(k)' /\ r.visible \subseteq Holders(k)'
        /\ k \notin Avatar => r.refs = Cardinality(Holders(k)')
                              /\ r.consumers = Holders(k)'
    BY <1>i, <1>p, <1>h, <1>f DEF Counts
  <2>3. pool'[k] # None /\ entry'[pool'[k]] = r
    BY <1>t, <1>e
  <2> QED
    BY <2>1, <2>2, <2>3 DEF Counts
<1>4. Unpooled'
  <2>1. \A d : d \in Pooled => d \in Pooled'
    BY <1>p, <1>e, InPool, InPoolNext
  <2>2. e \in Pooled'
    BY <1>t, <1>e, InPoolNext
  <2> QED
    BY <1>i, <1>e, <2>1, <2>2 DEF Unpooled
<1>5. Loads'
  <2>1. ASSUME NEW q \in Source, q # s
        PROVE  /\ load'[q] # None =>
                    /\ entry'[load'[q].of] # None
                    /\ load'[q].at = "image" => entry'[load'[q].of].type = "image"
               /\ video'[q].on => At(q)' = "video"
    <3>1. load'[q] = load[q] /\ At(q)' = At(q) /\ video'[q] = video[q]
      BY <1>p, <1>e, <2>1 DEF At
    <3>2. load[q] # None => entry'[load[q].of] = entry[load[q].of]
      BY <1>i, <1>e, <1>o, LoadFacts
    <3> QED
      BY <1>i, <3>1, <3>2 DEF Loads
  <2>2. /\ entry'[load'[s].of] # None /\ load'[s].at # "image"
        /\ ~video'[s].on
    BY <1>t, <1>p, <1>w, <1>e, <1>f, <1>o
  <2> QED
    BY <2>1, <2>2 DEF Loads
<1>6. Sources'
  <2> SUFFICES ASSUME NEW d \in Entry, entry'[d] # None, entry'[d].source # None
               PROVE  load'[entry'[d].source] # None /\ load'[entry'[d].source].of = d
    BY DEF Sources
  <2>1. entry'[d] = entry[d] /\ entry[d] \in MediaEntry
    BY <1>t, <1>e, <1>f
  <2>2. /\ entry[d].source \in Source /\ load[entry[d].source] # None
        /\ load[entry[d].source].of = d
    BY <1>i, <2>1 DEF Sources, MediaEntry
  <2> QED
    BY <1>e, <1>o, <2>1, <2>2
<1>7. OneLoad'
  <2> SUFFICES ASSUME Orderly PROVE
        /\ \A q \in Source : Active(q)' => load'[q].of \in Pooled'
        /\ \A p, q \in Source : Active(p)' /\ Active(q)' /\ load'[p].of = load'[q].of
                => p = q
        /\ \A q \in Source : video'[q].on =>
            entry'[load'[q].of].source = q /\ entry'[load'[q].of].type = "video"
    BY <1>p DEF OneLoad, Orderly
  <2>1. ASSUME NEW q \in Source, q # s, Active(q)'
        PROVE  Active(q) /\ load'[q] = load[q] /\ load[q] # None /\ load[q].of # e
    <3>1. load'[q] = load[q] /\ At(q)' = At(q) /\ video'[q] = video[q]
      BY <1>p, <1>e, <2>1 DEF At
    <3>2. Active(q)
      BY <2>1, <3>1 DEF Active
    <3> QED
      BY <1>i, <1>o, <3>1, <3>2, LoadFacts
  <2>2. /\ \A d : d \in Pooled => d \in Pooled'
        /\ e \in Pooled'
    BY <1>t, <1>p, <1>e, InPool, InPoolNext
  <2>3. \A q \in Source : Active(q)' => load'[q].of \in Pooled'
    BY <1>i, <1>e, <2>1, <2>2 DEF OneLoad
  <2>4. \A p, q \in Source : Active(p)' /\ Active(q)' /\ load'[p].of = load'[q].of
            => p = q
    BY <1>i, <1>e, <2>1 DEF OneLoad
  <2>5. ASSUME NEW q \in Source, video'[q].on
        PROVE  entry'[load'[q].of].source = q /\ entry'[load'[q].of].type = "video"
    <3>1. video[q].on /\ load[q] # None /\ load[q].of \in Entry
      BY <1>i, <1>p, <2>5, LoadFacts
    <3>2. load'[q] = load[q] /\ entry'[load[q].of] = entry[load[q].of]
      BY <1>e, <1>o, <3>1
    <3> QED
      BY <1>i, <3>1, <3>2 DEF OneLoad
  <2> QED
    BY <2>3, <2>4, <2>5
<1>8. ShowsOwn'
  <2>1. Orderly /\ Orderly' => \A d \in Canvas :
            \/ shown'[d] = shown[d] /\ holds'[d] = holds[d]
            \/ shown'[d] \in {None, holds'[d]}
    BY <1>i, <1>t, <1>p DEF ShowsOwn, Orderly
  <2> QED
    BY <1>i, <1>p, <2>1, KeepShown
<1>9. Playing'
  <2> SUFFICES ASSUME upset' = {}, NEW d \in Pooled', entry'[d].type = "video"
               PROVE  /\ entry'[d].status = "ready" => entry'[d].source # None
                      /\ entry'[d].source # None /\ entry'[d].visible # {} =>
                              ~video'[entry'[d].source].paused
    BY DEF Playing
  <2>1. CASE d = e
    BY <1>e, <1>f, <2>1
  <2>2. CASE d # e
    <3>1. d \in Pooled /\ d \in Entry
      BY <1>t, <1>e, <2>2, InPool, InPoolNext
    <3>2. entry'[d] = entry[d] /\ video' = video /\ upset = {}
      BY <1>p, <1>e, <2>2, <3>1
    <3> QED
      BY <1>i, <3>1, <3>2 DEF Playing
  <2> QED
    BY <2>1, <2>2
<1> QED
  BY <1>1, <1>2, <1>3, <1>4, <1>5, <1>6, <1>7, <1>8, <1>9 DEF PoolInv

LEMMA CountedFacts ==
    ASSUME NEW old \in MediaEntry, NEW c \in Canvas,
           old.refs + 1 <= Cardinality(Canvas), Cardinality(Canvas) \in Nat,
           NEW r, r = Counted(old, c)
    PROVE  /\ r \in MediaEntry /\ r.key = old.key /\ r.type = old.type
           /\ r.status = old.status /\ r.source = old.source
           /\ r.refs = old.refs + 1 /\ r.consumers = old.consumers \union {c}
           /\ r.visible = IF seen[c] THEN old.visible \union {c} ELSE old.visible
<1>1. old.refs + 1 \in 0..Cardinality(Canvas)
  BY DEF MediaEntry
<1>2. PICK v : v = IF seen[c] THEN old.visible \union {c} ELSE old.visible
  OBVIOUS
<1>3. r = [old EXCEPT !.refs = old.refs + 1, !.consumers = old.consumers \union {c},
                      !.visible = v]
  BY <1>2 DEF Counted
<1>4. v \in SUBSET Canvas /\ old.consumers \union {c} \in SUBSET Canvas
  BY <1>2 DEF MediaEntry
<1> QED
  BY <1>1, <1>2, <1>3, <1>4 DEF MediaEntry

\* acquire of the entry e that address k has
Acquired(c, k, e, r) ==
    /\ r \in MediaEntry /\ r.key = k /\ r.type = entry[e].type
    /\ r.source = entry[e].source
    /\ r.visible = IF seen[c] THEN entry[e].visible \union {c} ELSE entry[e].visible
    /\ entry'[e] = r /\ \A d \in Entry : d # e => entry'[d] = entry[d]
    /\ entry' \in [Entry -> MediaEntry \union {None}]
    /\ entry[e] \in MediaEntry /\ entry[e].key = k

LEMMA Acquires ==
    ASSUME PoolInv, NEW c \in Canvas, NEW k \in Key, NEW e \in Entry,
           pool[k] = e, holds[c] = None, holds' = [holds EXCEPT ![c] = k],
           pool' = pool, NEW m, m = Counted(entry[e], c), NEW r,
           NEW status \in {"loading", "ready", "error"},
           \/ r = [m EXCEPT !.timer = FALSE] /\ status = entry[e].status
           \/ r = [m EXCEPT !.timer = FALSE, !.status = status],
           entry' = [entry EXCEPT ![e] = r]
    PROVE  Acquired(c, k, e, r) /\ r.status = status /\ Counts' /\ Unpooled'
<1>i. TypeOK /\ Keyed /\ Counts /\ Unpooled
  BY DEF PoolInv
<1>t. /\ entry \in [Entry -> MediaEntry \union {None}] /\ None \notin Entry
      /\ None \notin MediaEntry
  BY <1>i, TypesOf, NoneIsNew
<1>e. entry[e] \in MediaEntry /\ entry[e].key = k
  BY <1>i, <1>t DEF Keyed
<1>n. entry[e].refs + 1 <= Cardinality(Canvas) /\ Cardinality(Canvas) \in Nat
  <2>1. entry[e].refs <= Cardinality(Holders(k))
    BY <1>i, <1>t DEF Counts
  <2>2. /\ Cardinality(Holders(k)) + 1 <= Cardinality(Canvas)
        /\ Cardinality(Holders(k)) \in Nat /\ Cardinality(Canvas) \in Nat
    BY <1>i, HoldersChange, HoldersFinite
  <2>3. entry[e].refs \in Nat
    BY <1>e, <2>2 DEF MediaEntry
  <2> QED
    BY <2>1, <2>2, <2>3
<1>c. /\ m \in MediaEntry /\ m.key = entry[e].key /\ m.type = entry[e].type
      /\ m.status = entry[e].status /\ m.source = entry[e].source
      /\ m.refs = entry[e].refs + 1 /\ m.consumers = entry[e].consumers \union {c}
      /\ m.visible = IF seen[c] THEN entry[e].visible \union {c} ELSE entry[e].visible
  BY <1>e, <1>n, CountedFacts, SMTT(30)
<1>1. /\ r \in MediaEntry /\ r.key = k /\ r.type = entry[e].type
      /\ r.source = entry[e].source /\ r.status = status
      /\ r.refs = entry[e].refs + 1 /\ r.consumers = entry[e].consumers \union {c}
      /\ r.visible = IF seen[c] THEN entry[e].visible \union {c} ELSE entry[e].visible
  <2>1. CASE r = [m EXCEPT !.timer = FALSE] /\ status = entry[e].status
    BY <1>e, <1>c, <2>1 DEF MediaEntry
  <2>2. CASE r = [m EXCEPT !.timer = FALSE, !.status = status]
    BY <1>e, <1>c, <2>2 DEF MediaEntry
  <2> QED
    BY <2>1, <2>2
<1>3. /\ entry'[e] = r /\ \A d \in Entry : d # e => entry'[d] = entry[d]
      /\ entry' \in [Entry -> MediaEntry \union {None}]
  BY <1>t, <1>1
<1>4. Counts' /\ Unpooled'
  <2>1. /\ entry'[e] # None /\ entry'[e].refs = entry[e].refs + 1
        /\ entry'[e].consumers = entry[e].consumers \union {c}
        /\ entry'[e].visible \subseteq entry[e].visible \union {c}
    BY <1>t, <1>1, <1>3
  <2> QED
    BY <1>i, <1>3, <2>1, TakesCounted
<1>5. Acquired(c, k, e, r)
  BY <1>e, <1>1, <1>3 DEF Acquired
<1> QED
  BY <1>1, <1>4, <1>5

\* The player of e is started, if c sees it.
PlaysIfSeen(c, e) ==
    IF seen[c] /\ entry[e].type = "video" /\ entry[e].source # None
    THEN Play(e, entry[e].source) /\ Hasty(e, entry[e].source) \subseteq upset'
    ELSE video' = video /\ recent' = recent

LEMMA AcquiredPlays ==
    ASSUME PoolInv, NEW c \in Canvas, NEW k \in Key, NEW e \in Entry, NEW r,
           Acquired(c, k, e, r), pool' = pool, upset \subseteq upset',
           r.status \in {"loading", entry[e].status}, PlaysIfSeen(c, e)
    PROVE  /\ video' \in [Source -> Player] /\ recent' \subseteq Entry
           /\ \A q \in Source : video'[q].on = video[q].on
           /\ Playing'
<1>i. TypeOK /\ Keyed /\ Playing
  BY DEF PoolInv
<1>t. /\ entry[e] \in MediaEntry /\ video \in [Source -> Player] /\ recent \subseteq Entry
      /\ entry \in [Entry -> MediaEntry \union {None}] /\ None \notin Entry
  BY <1>i, TypesOf, NoneIsNew DEF TypeOK, Acquired
<1>1. /\ video' \in [Source -> Player] /\ recent' \subseteq Entry
      /\ \A q \in Source : video'[q].on = video[q].on
                           /\ (video'[q].paused => video[q].paused)
      /\ seen[c] /\ entry[e].type = "video" /\ entry[e].source # None
            => ~video'[entry[e].source].paused \/ "hasty" \in upset'
  <2>1. CASE seen[c] /\ entry[e].type = "video" /\ entry[e].source # None
    <3>1. Play(e, entry[e].source) /\ Hasty(e, entry[e].source) \subseteq upset'
      BY <2>1 DEF PlaysIfSeen
    <3>2. PICK s \in Source : s = entry[e].source
      BY <1>t, <2>1 DEF MediaEntry
    <3>3. Play(e, s) /\ Hasty(e, s) \subseteq upset'
      BY <3>1, <3>2
    <3> QED
      BY <1>i, <3>2, <3>3, PlayFacts
  <2>2. CASE ~(seen[c] /\ entry[e].type = "video" /\ entry[e].source # None)
    BY <1>t, <2>2 DEF PlaysIfSeen
  <2> QED
    BY <2>1, <2>2
<1>2. ASSUME upset' = {}, NEW d \in Pooled, entry'[d].type = "video"
      PROVE  PlaysOn(d)
  <2>1. d \in Entry /\ entry[d] \in MediaEntry
    BY <1>i, PooledFacts
  <2>2. PICK s : s = entry[d].source
    OBVIOUS
  <2>3. s # None => s \in Source /\ (video'[s].paused => video[s].paused)
    BY <1>1, <2>1, <2>2 DEF MediaEntry
  <2>4. CASE d # e
    BY <1>2, <2>1, <2>2, <2>3, <2>4 DEF Acquired, PlaysOn
  <2>5. CASE d = e
    <3>1. /\ entry[e].type = "video" /\ entry'[e].source = s
          /\ entry'[e].status \in {"loading", entry[e].status}
          /\ entry'[e].visible =
                IF seen[c] THEN entry[e].visible \union {c} ELSE entry[e].visible
      BY <1>2, <2>2, <2>5 DEF Acquired
    <3>2. seen[c] /\ s # None => ~video'[s].paused
      BY <1>1, <1>2, <2>2, <2>5, <3>1
    <3> QED
      BY <2>2, <2>3, <2>5, <3>1, <3>2 DEF PlaysOn
  <2> QED
    BY <2>4, <2>5
<1>3. Pooled' = Pooled
  BY DEF Pooled
<1> QED
  BY <1>i, <1>1, <1>2, <1>3, KeepPlaying

LEMMA AttachKeeps ==
    ASSUME PoolInv, NEW c \in Canvas, NEW k \in Key, Attach(c, k)
    PROVE  PoolInv'
<1>i. /\ TypeOK /\ Keyed /\ Counts /\ Unpooled
      /\ Loads /\ Sources /\ OneLoad /\ ShowsOwn /\ Playing
  BY DEF PoolInv
<1>e. PICK e \in Entry : e = pool[k]
  BY <1>i, TypesOf DEF Attach
<1>m. PICK m : m = Counted(entry[e], c)
  OBVIOUS
<1>r. PICK r : r = [m EXCEPT !.timer = FALSE]
  OBVIOUS
<1>p. /\ holds[c] = None /\ holds' = [holds EXCEPT ![c] = k]
      /\ entry' = [entry EXCEPT ![e] = r]
      /\ shown' = [shown EXCEPT ![c] = IF r.status = "ready" THEN k ELSE @]
      /\ IF seen[c] /\ r.type = "video" /\ r.source # None
         THEN Play(e, r.source) /\ upset' = upset \union Hasty(e, r.source)
         ELSE video' = video /\ recent' = recent /\ upset' = upset
      /\ pool' = pool /\ load' = load /\ seen' = seen
      /\ EnsureRenderLoop(seen[c] /\ r.type = "video")
  BY <1>e, <1>m, <1>r DEF Attach
<1>s. PICK status \in {"loading", "ready", "error"} : status = entry[e].status
  BY <1>i, <1>e, TypesOf, NoneIsNew DEF Keyed, MediaEntry
<1>a. Acquired(c, k, e, r) /\ r.status = entry[e].status /\ Counts' /\ Unpooled'
  BY <1>e, <1>m, <1>r, <1>p, <1>s, Acquires, ZenonT(40)
<1>u. upset' \subseteq {"reloaded", "outlived", "hasty"} /\ upset \subseteq upset'
      /\ PlaysIfSeen(c, e)
  BY <1>i, <1>p, <1>a, ZenonT(40) DEF Acquired, PlaysIfSeen, Hasty, TypeOK
<1>v. /\ video' \in [Source -> Player] /\ recent' \subseteq Entry
      /\ \A q \in Source : video'[q].on = video[q].on
      /\ Playing'
  BY <1>p, <1>a, <1>u, AcquiredPlays
<1>1. TypeOK'
  <2>1. holds' \in [Canvas -> Key \union {None}] /\ shown' \in [Canvas -> Key \union {None}]
    BY <1>i, <1>p, TypesOf
  <2>2. loop' \in BOOLEAN
    BY <1>i, <1>p, LoopTyped
  <2>3. pool' \in [Key -> Entry \union {None}] /\ load' \in [Source -> Loading \union {None}]
        /\ seen' \in [Canvas -> BOOLEAN]
    BY <1>i, <1>p, TypesOf DEF TypeOK
  <2> QED
    BY <1>a, <1>u, <1>v, <2>1, <2>2, <2>3, TypeMade DEF Acquired
<1>2. Keyed' /\ Loads' /\ Sources' /\ OneLoad'
  <2>1. SameMedia
    BY NoneIsNew, <1>a DEF SameMedia, Acquired
  <2>2. SameLoads
    BY <1>p, <1>v DEF SameLoads, Active, At
  <2> QED
    BY <1>i, <1>p, <1>u, <2>1, <2>2, KeepLoads
<1>3. ShowsOwn'
  <2>1. ASSUME NEW d \in Canvas, Orderly
        PROVE  \/ shown'[d] = shown[d] /\ holds'[d] = holds[d]
               \/ shown'[d] \in {None, holds'[d]}
    <3>1. shown \in [Canvas -> Key \union {None}] /\ holds \in [Canvas -> Key \union {None}]
      BY <1>i, TypesOf
    <3>2. shown[d] \in {None, holds[d]}
      BY <1>i, <2>1 DEF ShowsOwn, Orderly
    <3> QED
      BY <1>p, <3>1, <3>2
  <2> QED
    BY <1>i, <1>u, <2>1, KeepShown
<1> QED
  BY <1>a, <1>v, <1>1, <1>2, <1>3 DEF PoolInv

LEMMA AttachAgainKeeps ==
    ASSUME PoolInv, NEW c \in Canvas, NEW k \in Key, AttachAgain(c, k)
    PROVE  PoolInv'
<1>i. /\ TypeOK /\ Keyed /\ Counts /\ Unpooled
      /\ Loads /\ Sources /\ OneLoad /\ ShowsOwn /\ Playing
  BY DEF PoolInv
<1>t. /\ pool \in [Key -> Entry \union {None}]
      /\ load \in [Source -> Loading \union {None}]
      /\ shown \in [Canvas -> Key \union {None}] /\ holds \in [Canvas -> Key \union {None}]
      /\ None \notin Entry /\ None \notin MediaEntry /\ None \notin Loading
  BY <1>i, TypesOf, NoneIsNew
<1>e. PICK e \in Entry : e = pool[k]
  BY <1>t DEF AttachAgain
<1>m. PICK m : m = Counted(entry[e], c)
  OBVIOUS
<1>r. PICK r : r = [m EXCEPT !.timer = FALSE, !.status = "loading"]
  OBVIOUS
<1>p. /\ holds[c] = None /\ holds' = [holds EXCEPT ![c] = k]
      /\ entry' = [entry EXCEPT ![e] = r]
      /\ IF seen[c] /\ entry[e].type = "video" /\ entry[e].source # None
         THEN Play(e, entry[e].source) ELSE video' = video /\ recent' = recent
      /\ upset' = upset \union
            (IF \/ UnderWay(e)
                \/ \E s \in Of(e) : video[s].on
             THEN {"reloaded"} ELSE {}) \union
            (IF seen[c] /\ entry[e].type = "video" /\ entry[e].source # None
             THEN Hasty(e, entry[e].source) ELSE {})
      /\ pool' = pool /\ seen' = seen /\ shown' = shown
      /\ EnsureRenderLoop(seen[c] /\ entry[e].type = "video")
  <2>1. entry' = [entry EXCEPT ![e] =
            [Counted(entry[e], c) EXCEPT !.timer = FALSE, !.status = "loading"]]
    BY <1>e DEF AttachAgain
  <2>2. entry' = [entry EXCEPT ![e] = r]
    BY <1>m, <1>r, <2>1
  <2> QED
    BY <1>e, <2>2 DEF AttachAgain
<1>w. PICK s \in Source :
        load[s] = None /\ load' = [load EXCEPT ![s] = [of |-> e, at |-> "resolve"]]
  BY <1>e DEF AttachAgain
<1>a. Acquired(c, k, e, r) /\ r.status = "loading" /\ Counts' /\ Unpooled'
  <2>1. PICK status \in {"loading", "ready", "error"} : status = "loading"
    OBVIOUS
  <2> QED
    BY <1>e, <1>m, <1>r, <1>p, <2>1, Acquires
<1>u. upset' \subseteq {"reloaded", "outlived", "hasty"} /\ upset \subseteq upset'
      /\ PlaysIfSeen(c, e)
  BY <1>i, <1>p, <1>a DEF Acquired, PlaysIfSeen, Hasty, TypeOK
<1>v. /\ video' \in [Source -> Player] /\ recent' \subseteq Entry
      /\ \A q \in Source : video'[q].on = video[q].on
      /\ Playing'
  BY <1>p, <1>a, <1>u, AcquiredPlays
<1>l. /\ load'[s].of = e /\ load'[s].at = "resolve" /\ load'[s] # None
      /\ \A q \in Source : q # s => load'[q] = load[q]
      /\ load' \in [Source -> Loading \union {None}]
  BY <1>t, <1>w DEF Loading
<1>o. /\ \A q \in Source : load[q] # None => q # s
      /\ ~video[s].on /\ ~video'[s].on
  BY <1>i, <1>v, <1>w, LoadFacts
<1>b. \A d \in Entry :
        /\ entry'[d] = None <=> entry[d] = None
        /\ entry[d] # None =>
            /\ entry'[d].key = entry[d].key /\ entry'[d].type = entry[d].type
            /\ entry'[d].source = entry[d].source
  BY <1>t, <1>a DEF Acquired
<1>1. TypeOK'
  <2>1. holds' \in [Canvas -> Key \union {None}] /\ shown' \in [Canvas -> Key \union {None}]
    BY <1>t, <1>p
  <2>2. loop' \in BOOLEAN
    BY <1>i, <1>p, LoopTyped
  <2>3. pool' \in [Key -> Entry \union {None}] /\ seen' \in [Canvas -> BOOLEAN]
    BY <1>i, <1>p, TypesOf DEF TypeOK
  <2> QED
    BY <1>a, <1>u, <1>v, <1>l, <2>1, <2>2, <2>3, TypeMade DEF Acquired
<1>2. Keyed'
  BY <1>i, <1>t, <1>p, <1>b DEF Keyed
<1>3. Loads'
  <2>1. ASSUME NEW q \in Source, q # s
        PROVE  /\ load'[q] # None =>
                    /\ entry'[load'[q].of] # None
                    /\ load'[q].at = "image" => entry'[load'[q].of].type = "image"
               /\ video'[q].on => At(q)' = "video"
    <3>1. load'[q] = load[q] /\ At(q)' = At(q) /\ video'[q].on = video[q].on
      BY <1>v, <1>l, <2>1 DEF At
    <3>2. load[q] # None => load[q].of \in Entry
      BY <1>i, LoadFacts
    <3> QED
      BY <1>i, <1>b, <3>1, <3>2 DEF Loads
  <2>2. entry'[load'[s].of] # None /\ load'[s].at # "image" /\ ~video'[s].on
    BY <1>t, <1>l, <1>o, <1>a DEF Acquired
  <2> QED
    BY <2>1, <2>2 DEF Loads
<1>4. Sources'
  <2> SUFFICES ASSUME NEW d \in Entry, entry'[d] # None, entry'[d].source # None
               PROVE  load'[entry'[d].source] # None /\ load'[entry'[d].source].of = d
    BY DEF Sources
  <2>1. /\ entry[d] # None /\ entry'[d].source = entry[d].source
        /\ entry[d] \in MediaEntry
    BY <1>i, <1>b, TypesOf
  <2>2. /\ entry[d].source \in Source /\ load[entry[d].source] # None
        /\ load[entry[d].source].of = d
    BY <1>i, <2>1 DEF Sources, MediaEntry
  <2> QED
    BY <1>l, <1>o, <2>1, <2>2
<1>5. OneLoad'
  <2> SUFFICES ASSUME Orderly' PROVE
        /\ \A q \in Source : Active(q)' => load'[q].of \in Pooled
        /\ \A p, q \in Source : Active(p)' /\ Active(q)' /\ load'[p].of = load'[q].of
                => p = q
        /\ \A q \in Source : video'[q].on =>
            entry'[load'[q].of].source = q /\ entry'[load'[q].of].type = "video"
    BY <1>p DEF OneLoad, Pooled
  <2>1. Orderly /\ ~UnderWay(e) /\ ~(\E q \in Of(e) : video[q].on)
    BY <1>p DEF Orderly
  <2>2. ASSUME NEW q \in Source, q # s, Active(q)'
        PROVE  Active(q) /\ load'[q] = load[q] /\ load[q].of # e
    <3>1. load'[q] = load[q] /\ At(q)' = At(q) /\ video'[q].on = video[q].on
      BY <1>v, <1>l, <2>2 DEF At
    <3>2. Active(q)
      BY <2>2, <3>1 DEF Active
    <3>3. load[q] # None
      BY <1>i, <3>2, LoadFacts
    <3> QED
      BY <2>1, <3>1, <3>2, <3>3, UnderWayFacts DEF Active, Of
  <2>3. e \in Pooled
    BY <1>t, <1>e, InPool
  <2>4. \A q \in Source : Active(q)' => load'[q].of \in Pooled
    BY <1>i, <1>l, <2>1, <2>2, <2>3 DEF OneLoad
  <2>5. \A p, q \in Source : Active(p)' /\ Active(q)' /\ load'[p].of = load'[q].of
            => p = q
    BY <1>i, <1>l, <2>1, <2>2 DEF OneLoad
  <2>6. ASSUME NEW q \in Source, video'[q].on
        PROVE  entry'[load'[q].of].source = q /\ entry'[load'[q].of].type = "video"
    <3>1. video[q].on /\ load[q] # None /\ load[q].of \in Entry /\ load'[q] = load[q]
      BY <1>i, <1>v, <1>l, <1>o, <2>6, LoadFacts
    <3>2. entry[load[q].of] # None
      BY <1>i, <3>1 DEF Loads
    <3> QED
      BY <1>i, <1>b, <2>1, <3>1, <3>2 DEF OneLoad
  <2> QED
    BY <2>4, <2>5, <2>6
<1>6. ShowsOwn'
  <2>1. ASSUME NEW d \in Canvas, Orderly
        PROVE  \/ shown'[d] = shown[d] /\ holds'[d] = holds[d]
               \/ shown'[d] \in {None, holds'[d]}
    <3>1. shown[d] \in {None, holds[d]}
      BY <1>i, <2>1 DEF ShowsOwn, Orderly
    <3> QED
      BY <1>t, <1>p, <3>1
  <2> QED
    BY <1>i, <1>u, <2>1, KeepShown
<1> QED
  BY <1>a, <1>v, <1>1, <1>2, <1>3, <1>4, <1>5, <1>6 DEF PoolInv

\* A video that nobody sees any more is paused; others stay as they are.
LEMMA PauseFacts ==
    ASSUME TypeOK, NEW e, NEW r \in MediaEntry, PauseUnseen(e, r)
    PROVE  /\ video' \in [Source -> Player]
           /\ \A q \in Source : video'[q].on = video[q].on
           /\ \A q \in Source : q # r.source \/ r.visible # {} => video'[q] = video[q]
<1>1. video \in [Source -> Player]
  BY TypesOf
<1>2. CASE r.visible = {} /\ r.type = "video" /\ r.source # None
  <2>1. PICK s \in Source : s = r.source
    BY <1>2 DEF MediaEntry
  <2>2. PICK p : p = [video[s] EXCEPT !.paused = TRUE]
    OBVIOUS
  <2>3. p \in Player /\ p.on = video[s].on
    BY <1>1, <2>2 DEF Player
  <2>4. video' = [video EXCEPT ![s] = p]
    BY <1>2, <2>1, <2>2 DEF PauseUnseen
  <2> QED
    BY <1>1, <1>2, <2>1, <2>3, <2>4
<1>3. CASE ~(r.visible = {} /\ r.type = "video" /\ r.source # None)
  BY <1>1, <1>3 DEF PauseUnseen
<1> QED
  BY <1>2, <1>3

\* A canvas leaves entry e, or is not on the screen any more.
LEMMA LeavesPlaying ==
    ASSUME TypeOK, Keyed, Sources, Playing, NEW e \in Pooled, NEW r \in MediaEntry,
           PauseUnseen(e, r), pool' = pool, entry' = [entry EXCEPT ![e] = r],
           upset' = upset, r.type = entry[e].type, r.source = entry[e].source,
           r.status = entry[e].status, r.visible \subseteq entry[e].visible
    PROVE  Playing'
<1>t. /\ entry \in [Entry -> MediaEntry \union {None}] /\ e \in Entry
      /\ entry[e] \in MediaEntry /\ None \notin MediaEntry
  BY TypesOf, PooledFacts, NoneIsNew
<1>v. \A q \in Source : q # r.source \/ r.visible # {} => video'[q] = video[q]
  BY PauseFacts
<1>1. ASSUME NEW d \in Pooled, entry'[d].type = "video"
      PROVE  PlaysOn(d)
  <2>1. d \in Entry /\ entry[d] \in MediaEntry
    BY PooledFacts
  <2>2. CASE d = e
    <3>1. entry'[e] = r
      BY <1>t
    <3>2. r.source # None => r.source \in Source
      BY DEF MediaEntry
    <3> QED
      BY <1>1, <1>v, <2>2, <3>1, <3>2 DEF PlaysOn
  <2>3. CASE d # e
    <3>1. entry'[d] = entry[d]
      BY <1>t, <2>1, <2>3
    <3>2. entry[d].source # None => entry[d].source \in Source /\ entry[d].source # r.source
      BY <1>t, <2>1, <2>3, SourcesDiffer DEF MediaEntry
    <3> QED
      BY <1>1, <1>v, <3>1, <3>2 DEF PlaysOn
  <2> QED
    BY <2>2, <2>3
<1>2. Pooled' = Pooled
  BY DEF Pooled
<1> QED
  BY <1>1, <1>2, KeepPlaying

LEMMA DetachKeeps ==
    ASSUME PoolInv, NEW c \in Canvas, Detach(c)
    PROVE  PoolInv'
<1>i. /\ TypeOK /\ Keyed /\ Counts /\ Unpooled
      /\ Loads /\ Sources /\ OneLoad /\ ShowsOwn /\ Playing
  BY DEF PoolInv
<1>t. /\ pool \in [Key -> Entry \union {None}]
      /\ entry \in [Entry -> MediaEntry \union {None}]
      /\ load \in [Source -> Loading \union {None}]
      /\ shown \in [Canvas -> Key \union {None}] /\ holds \in [Canvas -> Key \union {None}]
      /\ None \notin Entry /\ None \notin MediaEntry
  BY <1>i, TypesOf, NoneIsNew
<1>k. PICK k \in Key : k = holds[c]
  BY <1>t DEF Detach
<1>p. /\ holds' = [holds EXCEPT ![c] = None] /\ shown' = [shown EXCEPT ![c] = None]
      /\ pool' = pool /\ load' = load /\ loop' = loop /\ recent' = recent
      /\ seen' = seen /\ upset' = upset
  BY DEF Detach
<1>s. ShowsOwn'
  <2>1. ASSUME NEW d \in Canvas, Orderly
        PROVE  \/ shown'[d] = shown[d] /\ holds'[d] = holds[d]
               \/ shown'[d] \in {None, holds'[d]}
    BY <1>t, <1>p
  <2> QED
    BY <1>i, <1>p, <2>1, KeepShown
<1>y. /\ holds' \in [Canvas -> Key \union {None}] /\ shown' \in [Canvas -> Key \union {None}]
      /\ loop' \in BOOLEAN /\ recent' \subseteq Entry /\ seen' \in [Canvas -> BOOLEAN]
      /\ upset' \subseteq {"reloaded", "outlived", "hasty"}
      /\ pool' \in [Key -> Entry \union {None}] /\ load' \in [Source -> Loading \union {None}]
  BY <1>i, <1>t, <1>p DEF TypeOK
<1>1. CASE pool[k] = None
  <2>1. entry' = entry /\ video' = video
    BY <1>k, <1>1 DEF Detach
  <2>2. TypeOK'
    BY <1>i, <1>y, <2>1, TypesOf, TypeMade
  <2>3. c \in Holders(k) /\ k \in Avatar
    BY <1>i, <1>k, <1>1 DEF Counts, Holders
  <2>4. \A j \in Key \ {k} : Holders(j)' = Holders(j)
    BY <1>i, <1>k, <1>p, HoldersChange
  <2>5. Counts'
    BY <1>i, <1>p, <1>1, <2>1, <2>3, <2>4 DEF Counts
  <2>6. Pooled' = Pooled
    BY <1>p DEF Pooled
  <2>7. Keyed' /\ Unpooled' /\ Loads' /\ Sources' /\ OneLoad' /\ Playing'
    BY <1>i, <1>p, <2>1, <2>6
       DEF Keyed, Unpooled, Loads, Sources, OneLoad, Playing, At, Active, Orderly
  <2> QED
    BY <1>s, <2>2, <2>5, <2>7 DEF PoolInv
<1>2. CASE pool[k] # None
  <2>e. PICK e \in Entry : e = pool[k]
    BY <1>t, <1>2
  <2>m. PICK m : m = entry[e]
    OBVIOUS
  <2>f. PICK left : left = Less(m.refs)
    OBVIOUS
  <2>g. PICK timer : timer = (m.timer \/ left = 0)
    OBVIOUS
  <2>r. PICK r : r = [m EXCEPT !.consumers = m.consumers \ {c},
                               !.visible = m.visible \ {c},
                               !.refs = left, !.timer = timer]
    OBVIOUS
  <2>o. m \in MediaEntry /\ e \in Pooled
    BY <1>i, <1>t, <1>2, <2>e, <2>m, InPool DEF Keyed
  <2>n. left \in 0..Cardinality(Canvas) /\ timer \in BOOLEAN
    <3>1. Cardinality(Canvas) \in Nat
      BY HoldersFinite
    <3> QED
      BY <2>o, <2>f, <2>g, <3>1 DEF MediaEntry, Less
  <2>q. /\ r \in MediaEntry /\ r.key = m.key /\ r.type = m.type /\ r.source = m.source
        /\ r.status = m.status /\ r.refs = left
        /\ r.consumers = m.consumers \ {c} /\ r.visible = m.visible \ {c}
    <3>1. m.consumers \ {c} \in SUBSET Canvas /\ m.visible \ {c} \in SUBSET Canvas
      BY <2>o DEF MediaEntry
    <3> QED
      BY <2>o, <2>r, <2>n, <3>1 DEF MediaEntry
  <2>p. entry' = [entry EXCEPT ![e] = r] /\ PauseUnseen(e, r)
    <3>1. r = [Without(entry[e], c) EXCEPT
                !.refs = left, !.timer = (@ \/ left = 0)]
      BY <2>m, <2>f, <2>g, <2>r, <2>o DEF Without, MediaEntry
    <3> QED
      BY <1>k, <1>2, <2>e, <2>m, <2>f, <3>1 DEF Detach
  <2>a. /\ entry'[e] = r /\ \A d \in Entry : d # e => entry'[d] = entry[d]
        /\ entry' \in [Entry -> MediaEntry \union {None}]
    BY <1>t, <2>p, <2>q
  <2>v. video' \in [Source -> Player] /\ \A q \in Source : video'[q].on = video[q].on
    BY <1>i, <2>p, <2>q, PauseFacts
  <2>1. TypeOK'
    BY <1>y, <2>a, <2>v, TypeMade
  <2>2. Counts' /\ Unpooled'
    <3>1. /\ entry'[e] # None /\ entry'[e].refs = Less(entry[e].refs)
          /\ entry'[e].consumers = entry[e].consumers \ {c}
          /\ entry'[e].visible = entry[e].visible \ {c}
      BY <1>t, <2>a, <2>q, <2>m, <2>f
    <3>2. TypeOK /\ Keyed /\ Counts /\ Unpooled
      BY <1>i
    <3>3. /\ pool[k] = e /\ holds[c] = k
          /\ holds' = [holds EXCEPT ![c] = None] /\ pool' = pool
      BY <1>k, <1>p, <2>e
    <3>4. \A d \in Entry : d # e => entry'[d] = entry[d]
      BY <2>a
    <3> QED
      BY <3>1, <3>2, <3>3, <3>4, LeavesCounted, ZenonT(40)
  <2>3. Keyed' /\ Loads' /\ Sources' /\ OneLoad'
    <3>1. SameMedia
      BY <1>t, <2>m, <2>o, <2>q, <2>a DEF SameMedia
    <3>2. SameLoads
      BY <1>p, <2>v DEF SameLoads, Active, At
    <3> QED
      BY <1>i, <1>p, <3>1, <3>2, KeepLoads
  <2>4. Playing'
    <3>1. /\ r.type = entry[e].type /\ r.source = entry[e].source
          /\ r.status = entry[e].status /\ r.visible \subseteq entry[e].visible
      BY <2>m, <2>q
    <3> QED
      BY <1>i, <1>p, <2>o, <2>p, <2>q, <3>1, LeavesPlaying
  <2> QED
    BY <1>s, <2>1, <2>2, <2>3, <2>4 DEF PoolInv
<1> QED
  BY <1>1, <1>2

\* Who sees the entry e, which is in the pool, changes.
SeesOtherwise(e, r, vs) ==
    /\ r \in MediaEntry /\ r.key = entry[e].key /\ r.type = entry[e].type
    /\ r.source = entry[e].source /\ r.status = entry[e].status
    /\ r.refs = entry[e].refs /\ r.consumers = entry[e].consumers /\ r.visible = vs
    /\ entry'[e] = r /\ \A d \in Entry : d # e => entry'[d] = entry[d]
    /\ entry' \in [Entry -> MediaEntry \union {None}]
    /\ entry[e] \in MediaEntry /\ e \in Pooled /\ SameMedia

LEMMA SightChanges ==
    ASSUME PoolInv, NEW c \in Canvas, NEW k \in Key, NEW e \in Entry, pool[k] = e,
           holds[c] = k, holds' = holds, pool' = pool,
           NEW vs, vs \subseteq entry[e].visible \union {c},
           NEW r, r = [entry[e] EXCEPT !.visible = vs],
           entry' = [entry EXCEPT ![e] = r]
    PROVE  SeesOtherwise(e, r, vs) /\ Counts' /\ Unpooled'
<1>i. TypeOK /\ Keyed /\ Counts /\ Unpooled
  BY DEF PoolInv
<1>t. /\ entry \in [Entry -> MediaEntry \union {None}]
      /\ None \notin MediaEntry /\ None \notin Entry
  BY <1>i, TypesOf, NoneIsNew
<1>m. PICK m : m = entry[e]
  OBVIOUS
<1>o. m \in MediaEntry /\ e \in Pooled
  BY <1>i, <1>t, <1>m, InPool DEF Keyed
<1>1. /\ r \in MediaEntry /\ r.key = m.key /\ r.type = m.type /\ r.source = m.source
      /\ r.status = m.status /\ r.refs = m.refs /\ r.consumers = m.consumers
      /\ r.visible = vs
  <2>1. vs \in SUBSET Canvas /\ r = [m EXCEPT !.visible = vs]
    BY <1>m, <1>o DEF MediaEntry
  <2> QED
    BY <1>o, <2>1 DEF MediaEntry
<1>2. /\ entry'[e] = r /\ \A d \in Entry : d # e => entry'[d] = entry[d]
      /\ entry' \in [Entry -> MediaEntry \union {None}]
  BY <1>t, <1>1
<1>3. SameMedia
  BY <1>t, <1>m, <1>o, <1>1, <1>2 DEF SameMedia
<1>4. SeesOtherwise(e, r, vs)
  BY <1>m, <1>o, <1>1, <1>2, <1>3 DEF SeesOtherwise
<1>5. Counts' /\ Unpooled'
  <2>1. /\ entry'[e] # None /\ entry'[e].refs = entry[e].refs
        /\ entry'[e].consumers = entry[e].consumers
        /\ entry'[e].visible \subseteq entry[e].visible \union {c}
    BY <1>t, <1>m, <1>1, <1>2
  <2> QED
    BY <1>i, <1>2, <2>1, SeenCounted
<1> QED
  BY <1>4, <1>5

LEMMA DisappearKeeps ==
    ASSUME PoolInv, NEW c \in Canvas, Disappear(c)
    PROVE  PoolInv'
<1>i. /\ TypeOK /\ Keyed /\ Counts /\ Unpooled
      /\ Loads /\ Sources /\ OneLoad /\ ShowsOwn /\ Playing
  BY DEF PoolInv
<1>t. /\ pool \in [Key -> Entry \union {None}]
      /\ holds \in [Canvas -> Key \union {None}] /\ None \notin MediaEntry
  BY <1>i, TypesOf, NoneIsNew
<1>p. /\ seen' = [seen EXCEPT ![c] = FALSE]
      /\ holds' = holds /\ shown' = shown /\ pool' = pool /\ load' = load
      /\ loop' = loop /\ recent' = recent /\ upset' = upset
  BY DEF Disappear
<1>s. ShowsOwn'
  BY <1>i, <1>p DEF ShowsOwn
<1>y. /\ holds' \in [Canvas -> Key \union {None}] /\ shown' \in [Canvas -> Key \union {None}]
      /\ loop' \in BOOLEAN /\ recent' \subseteq Entry /\ seen' \in [Canvas -> BOOLEAN]
      /\ upset' \subseteq {"reloaded", "outlived", "hasty"}
      /\ pool' \in [Key -> Entry \union {None}] /\ load' \in [Source -> Loading \union {None}]
  BY <1>i, <1>p DEF TypeOK
<1>1. CASE ~(holds[c] # None /\ pool[holds[c]] # None)
  <2>1. entry' = entry /\ video' = video
    BY <1>1 DEF Disappear
  <2>2. TypeOK'
    BY <1>i, <1>y, <2>1, TypesOf, TypeMade
  <2>3. Pooled' = Pooled /\ \A k : Holders(k)' = Holders(k)
    BY <1>p DEF Pooled, Holders
  <2>4. Keyed' /\ Counts' /\ Unpooled' /\ Loads' /\ Sources' /\ OneLoad' /\ Playing'
    BY <1>i, <1>p, <2>1, <2>3
       DEF Keyed, Counts, Unpooled, Loads, Sources, OneLoad, Playing, At, Active, Orderly
  <2> QED
    BY <1>s, <2>2, <2>4 DEF PoolInv
<1>2. CASE holds[c] # None /\ pool[holds[c]] # None
  <2>e. PICK k \in Key, e \in Entry : k = holds[c] /\ e = pool[k]
    BY <1>t, <1>2
  <2>r. PICK vs, r : vs = entry[e].visible \ {c} /\ r = [entry[e] EXCEPT !.visible = vs]
    OBVIOUS
  <2>p. entry' = [entry EXCEPT ![e] = r] /\ PauseUnseen(e, r)
    BY <1>2, <2>e, <2>r DEF Disappear
  <2>a. SeesOtherwise(e, r, vs) /\ Counts' /\ Unpooled'
    <3>1. vs \subseteq entry[e].visible \union {c}
      BY <2>r
    <3> QED
      BY <1>p, <2>e, <2>r, <2>p, <3>1, SightChanges
  <2>v. video' \in [Source -> Player] /\ \A q \in Source : video'[q].on = video[q].on
    BY <1>i, <2>p, <2>a, PauseFacts DEF SeesOtherwise
  <2>1. TypeOK'
    BY <1>y, <2>a, <2>v, TypeMade DEF SeesOtherwise
  <2>2. Keyed' /\ Loads' /\ Sources' /\ OneLoad'
    <3>1. SameLoads
      BY <1>p, <2>v DEF SameLoads, Active, At
    <3> QED
      BY <1>i, <1>p, <2>a, <3>1, KeepLoads DEF SeesOtherwise
  <2>3. Playing'
    <3>1. /\ r.type = entry[e].type /\ r.source = entry[e].source
          /\ r.status = entry[e].status /\ r.visible \subseteq entry[e].visible
          /\ e \in Pooled /\ r \in MediaEntry
      BY <2>r, <2>a DEF SeesOtherwise
    <3> QED
      BY <1>i, <1>p, <2>p, <3>1, LeavesPlaying
  <2> QED
    BY <1>s, <2>1, <2>a, <2>2, <2>3 DEF PoolInv
<1> QED
  BY <1>1, <1>2

LEMMA AppearKeeps ==
    ASSUME PoolInv, NEW c \in Canvas, Appear(c)
    PROVE  PoolInv'
<1>i. /\ TypeOK /\ Keyed /\ Counts /\ Unpooled
      /\ Loads /\ Sources /\ OneLoad /\ ShowsOwn /\ Playing
  BY DEF PoolInv
<1>t. /\ pool \in [Key -> Entry \union {None}]
      /\ holds \in [Canvas -> Key \union {None}] /\ shown \in [Canvas -> Key \union {None}]
      /\ None \notin MediaEntry
  BY <1>i, TypesOf, NoneIsNew
<1>p. seen' = [seen EXCEPT ![c] = TRUE] /\ holds' = holds /\ load' = load
  BY DEF Appear
<1>1. CASE ~(holds[c] # None /\ pool[holds[c]] # None)
  <2>1. /\ pool' = pool /\ entry' = entry /\ video' = video /\ recent' = recent
        /\ upset' = upset /\ shown' = shown /\ loop' = loop
    BY <1>1 DEF Appear
  <2>2. TypeOK'
    <3>1. loop' \in BOOLEAN /\ recent' \subseteq Entry /\ seen' \in [Canvas -> BOOLEAN]
          /\ upset' \subseteq {"reloaded", "outlived", "hasty"}
      BY <1>i, <1>p, <2>1 DEF TypeOK
    <3> QED
      BY <1>i, <1>p, <2>1, <3>1, TypesOf, TypeMade
  <2>3. Pooled' = Pooled /\ \A k : Holders(k)' = Holders(k)
    BY <1>p, <2>1 DEF Pooled, Holders
  <2>4. Keyed' /\ Counts' /\ Unpooled' /\ Loads' /\ Sources' /\ OneLoad' /\ Playing'
        /\ ShowsOwn'
    BY <1>i, <1>p, <2>1, <2>3
       DEF Keyed, Counts, Unpooled, Loads, Sources, OneLoad, Playing, At, Active, Orderly,
           ShowsOwn
  <2> QED
    BY <2>2, <2>4 DEF PoolInv
<1>2. CASE holds[c] # None /\ pool[holds[c]] # None
  <2>e. PICK k \in Key, e \in Entry : k = holds[c] /\ e = pool[k]
    BY <1>t, <1>2
  <2>r. PICK vs, r : vs = entry[e].visible \union {c}
                     /\ r = [entry[e] EXCEPT !.visible = vs]
    OBVIOUS
  <2>p. /\ pool' = pool /\ EnsureRenderLoop(entry[e].type = "video")
        /\ entry' = [entry EXCEPT ![e] = r]
        /\ IF entry[e].type = "video" /\ entry[e].source # None
           THEN /\ Play(e, entry[e].source)
                /\ upset' = upset \union Hasty(e, entry[e].source)
                /\ shown' = shown \/ shown' = [shown EXCEPT ![c] = entry[e].key]
           ELSE video' = video /\ recent' = recent /\ upset' = upset /\ shown' = shown
    <3>1. entry' = [entry EXCEPT ![e].visible = @ \union {c}]
      BY <1>2, <2>e DEF Appear
    <3>2. entry' = [entry EXCEPT ![e] = r]
      BY <2>r, <3>1
    <3> QED
      BY <1>2, <2>e, <3>2 DEF Appear
  <2>a. SeesOtherwise(e, r, vs) /\ Counts' /\ Unpooled'
    <3>1. vs \subseteq entry[e].visible \union {c}
      BY <2>r
    <3> QED
      BY <1>p, <2>e, <2>r, <2>p, <3>1, SightChanges
  <2>k. entry[e].key = k
    BY <1>i, <2>e, <1>2 DEF Keyed
  <2>u. upset' \subseteq {"reloaded", "outlived", "hasty"} /\ upset \subseteq upset'
    BY <1>i, <2>p DEF Hasty, TypeOK
  <2>v. /\ video' \in [Source -> Player] /\ recent' \subseteq Entry
        /\ \A q \in Source : video'[q].on = video[q].on
                             /\ (video'[q].paused => video[q].paused)
        /\ entry[e].type = "video" /\ entry[e].source # None
              => ~video'[entry[e].source].paused \/ "hasty" \in upset'
    <3>1. CASE entry[e].type = "video" /\ entry[e].source # None
      <4>1. Play(e, entry[e].source) /\ Hasty(e, entry[e].source) \subseteq upset'
        BY <2>p, <3>1
      <4>2. PICK s \in Source : s = entry[e].source
        BY <2>a, <3>1 DEF MediaEntry, SeesOtherwise
      <4>3. Play(e, s) /\ Hasty(e, s) \subseteq upset'
        BY <4>1, <4>2
      <4> QED
        BY <1>i, <4>2, <4>3, PlayFacts
    <3>2. CASE ~(entry[e].type = "video" /\ entry[e].source # None)
      <4>1. video' = video /\ recent' = recent
        BY <2>p, <3>2
      <4> QED
        BY <1>i, <3>2, <4>1, TypesOf DEF TypeOK
    <3> QED
      BY <3>1, <3>2
  <2>h. shown' = shown \/ shown' = [shown EXCEPT ![c] = k]
    BY <2>p, <2>k
  <2>1. TypeOK'
    <3>1. loop' \in BOOLEAN
      BY <1>i, <2>p, LoopTyped
    <3>2. /\ shown' \in [Canvas -> Key \union {None}] /\ seen' \in [Canvas -> BOOLEAN]
          /\ holds' \in [Canvas -> Key \union {None}] /\ pool' \in [Key -> Entry \union {None}]
          /\ load' \in [Source -> Loading \union {None}]
      BY <1>i, <1>t, <1>p, <2>h, <2>p, TypesOf DEF TypeOK
    <3> QED
      BY <2>a, <2>u, <2>v, <3>1, <3>2, TypeMade DEF SeesOtherwise
  <2>2. Keyed' /\ Loads' /\ Sources' /\ OneLoad'
    <3>1. SameLoads
      BY <1>p, <2>v DEF SameLoads, Active, At
    <3> QED
      BY <1>i, <2>p, <2>u, <2>a, <3>1, KeepLoads DEF SeesOtherwise
  <2>3. Playing'
    <3>1. ASSUME upset' = {}, NEW d \in Pooled, entry'[d].type = "video"
          PROVE  PlaysOn(d)
      <4>1. d \in Entry /\ entry[d] \in MediaEntry
        BY <1>i, PooledFacts
      <4>2. PICK s : s = entry[d].source
        OBVIOUS
      <4>3. s # None => s \in Source /\ (video'[s].paused => video[s].paused)
        BY <2>v, <4>1, <4>2 DEF MediaEntry
      <4>4. CASE d # e
        BY <2>a, <3>1, <4>1, <4>2, <4>3, <4>4 DEF SeesOtherwise, PlaysOn
      <4>5. CASE d = e
        <5>1. /\ entry[e].type = "video" /\ entry'[e].source = s
              /\ entry'[e].status = entry[e].status
          BY <2>a, <3>1, <4>2, <4>5 DEF SeesOtherwise
        <5>2. s # None => ~video'[s].paused
          BY <2>v, <3>1, <4>2, <4>5, <5>1
        <5> QED
          BY <4>2, <4>3, <4>5, <5>1, <5>2 DEF PlaysOn
      <4> QED
        BY <4>4, <4>5
    <3>2. Pooled' = Pooled
      BY <2>p DEF Pooled
    <3> QED
      BY <1>i, <2>u, <3>1, <3>2, KeepPlaying
  <2>4. ShowsOwn'
    <3>1. ASSUME NEW d \in Canvas, Orderly
          PROVE  \/ shown'[d] = shown[d] /\ holds'[d] = holds[d]
                 \/ shown'[d] \in {None, holds'[d]}
      BY <1>t, <1>p, <2>e, <2>h
    <3> QED
      BY <1>i, <2>u, <3>1, KeepShown
  <2> QED
    BY <2>1, <2>a, <2>2, <2>3, <2>4 DEF PoolInv
<1> QED
  BY <1>1, <1>2

-----------------------------------------------------------------------------
(* Eviction *)

LEMMA EvictKeeps ==
    ASSUME PoolInv, NEW es, es \subseteq Pooled, Evict(es),
           \A k \in Key : pool[k] \in es /\ k \notin Avatar => Holders(k) = {},
           load' = load, loop' = loop, recent' = recent, holds' = holds, seen' = seen,
           shown' = shown
    PROVE  PoolInv'
<1>i. /\ TypeOK /\ Keyed /\ Counts /\ Unpooled
      /\ Loads /\ Sources /\ OneLoad /\ ShowsOwn /\ Playing
  BY DEF PoolInv
<1>t. /\ pool \in [Key -> Entry \union {None}]
      /\ entry \in [Entry -> MediaEntry \union {None}]
      /\ load \in [Source -> Loading \union {None}]
      /\ video \in [Source -> Player]
      /\ None \notin MediaEntry /\ None \notin Entry /\ None \notin Source
  BY <1>i, TypesOf, NoneIsNew
<1>p. /\ pool' = [k \in Key |-> IF pool[k] \in es THEN None ELSE pool[k]]
      /\ entry' = [e \in Entry |->
            IF e \in es THEN [entry[e] EXCEPT !.source = None, !.refs = 0]
            ELSE entry[e]]
      /\ video' = [s \in Source |->
            IF \E e \in es : entry[e].type = "video" /\ entry[e].source = s
            THEN Off ELSE video[s]]
      /\ upset' = IF \E e \in es : UnderWay(e) THEN upset \union {"outlived"}
                  ELSE upset
  BY DEF Evict
<1>e. ASSUME NEW e \in es
      PROVE  /\ e \in Entry /\ entry[e] \in MediaEntry /\ entry'[e] \in MediaEntry
             /\ entry'[e].key = entry[e].key /\ entry'[e].type = entry[e].type
             /\ entry'[e].source = None /\ entry'[e].refs = 0
  <2>1. e \in Entry /\ entry[e] \in MediaEntry
    BY <1>i, PooledFacts
  <2>2. PICK r : r = [entry[e] EXCEPT !.source = None, !.refs = 0]
    OBVIOUS
  <2>3. entry'[e] = r
    BY <1>p, <2>1, <2>2
  <2>4. 0 \in 0..Cardinality(Canvas)
    BY HoldersFinite
  <2> QED
    BY <2>1, <2>2, <2>3, <2>4, ZenonT(40) DEF MediaEntry
<1>o. \A e \in Entry : e \notin es => entry'[e] = entry[e]
  BY <1>p
<1>m. \A e \in Entry :
        /\ entry'[e] = None <=> entry[e] = None
        /\ entry[e] # None => /\ entry'[e].key = entry[e].key
                              /\ entry'[e].type = entry[e].type
                              /\ entry'[e].source \in {entry[e].source, None}
  BY <1>t, <1>e, <1>o
<1>k. \A k \in Key : /\ pool[k] \in es => pool'[k] = None
                     /\ pool[k] \notin es => pool'[k] = pool[k]
  BY <1>p
<1>q. \A e : e \in Pooled' <=> e \in Pooled /\ e \notin es
  BY <1>k, InPool, InPoolNext
<1>v. /\ video' \in [Source -> Player]
      /\ \A s \in Source : video'[s].on => video[s].on
      /\ \A s \in Source : (\A e \in es : entry[e].type = "video" => entry[e].source # s)
            => video'[s] = video[s]
      /\ \A s \in Source : (\E e \in es : entry[e].type = "video" /\ entry[e].source = s)
            => ~video'[s].on
  <2>1. Off \in Player /\ ~Off.on
    BY DEF Off, Player
  <2> QED
    BY <1>t, <1>p, <2>1
<1>u. /\ upset' \subseteq {"reloaded", "outlived", "hasty"} /\ upset \subseteq upset'
      /\ Orderly' => Orderly /\ \A e \in es : ~UnderWay(e)
  BY <1>i, <1>p DEF TypeOK, Orderly
<1>1. TypeOK'
  <2>1. pool' \in [Key -> Entry \union {None}]
    BY <1>t, <1>p
  <2>2. entry' \in [Entry -> MediaEntry \union {None}]
    <3>1. \A e \in Entry : entry'[e] \in MediaEntry \union {None}
      BY <1>t, <1>e, <1>o
    <3>2. PICK f : f = [e \in Entry |-> entry'[e]]
      OBVIOUS
    <3>3. entry' = f
      BY <1>p, <3>2
    <3> QED
      BY <3>1, <3>2, <3>3
  <2>3. /\ loop' \in BOOLEAN /\ recent' \subseteq Entry /\ seen' \in [Canvas -> BOOLEAN]
    BY <1>i DEF TypeOK
  <2> QED
    BY <1>i, <1>u, <1>v, <2>1, <2>2, <2>3, TypesOf, TypeMade
<1>2. Keyed'
  BY <1>i, <1>t, <1>k, <1>m DEF Keyed
<1>3. Counts' /\ Unpooled'
  <2>1. \A k : Holders(k)' = Holders(k)
    BY DEF Holders
  <2>2. ASSUME NEW k \in Key
        PROVE  /\ pool'[k] = None /\ k \notin Avatar => Holders(k) = {}
               /\ pool'[k] # None =>
                  /\ entry'[pool'[k]].refs <= Cardinality(Holders(k))
                  /\ entry'[pool'[k]].consumers \subseteq Holders(k)
                  /\ entry'[pool'[k]].visible \subseteq Holders(k)
                  /\ k \notin Avatar =>
                      /\ entry'[pool'[k]].refs = Cardinality(Holders(k))
                      /\ entry'[pool'[k]].consumers = Holders(k)
    <3>1. CASE pool[k] \in es
      BY <1>k, <3>1
    <3>2. CASE pool[k] \notin es
      <4>1. pool'[k] = pool[k] /\ (pool[k] # None => entry'[pool[k]] = entry[pool[k]])
        BY <1>t, <1>k, <1>o, <3>2
      <4> QED
        BY <1>i, <4>1 DEF Counts
    <3> QED
      BY <3>1, <3>2
  <2>3. Counts'
    BY <2>1, <2>2 DEF Counts
  <2>4. Unpooled'
    BY <1>i, <1>e, <1>o, <1>q DEF Unpooled
  <2> QED
    BY <2>3, <2>4
<1>4. Loads'
  BY <1>i, <1>m, <1>v, LoadFacts DEF Loads, At
<1>5. Sources'
  <2> SUFFICES ASSUME NEW d \in Entry, entry'[d] # None, entry'[d].source # None
               PROVE  load[entry'[d].source] # None /\ load[entry'[d].source].of = d
    BY DEF Sources
  <2> QED
    BY <1>i, <1>m DEF Sources
<1>6. OneLoad'
  <2> SUFFICES ASSUME Orderly' PROVE
        /\ \A s \in Source : Active(s)' => load[s].of \in Pooled'
        /\ \A s, q \in Source : Active(s)' /\ Active(q)' /\ load[s].of = load[q].of
                => s = q
        /\ \A s \in Source : video'[s].on =>
            entry'[load[s].of].source = s /\ entry'[load[s].of].type = "video"
    BY DEF OneLoad
  <2>1. ASSUME NEW s \in Source, Active(s)'
        PROVE  Active(s) /\ load[s] # None /\ load[s].of \in Pooled /\ load[s].of \notin es
    <3>1. At(s)' = At(s)
      BY DEF At
    <3>2. Active(s)
      BY <1>v, <2>1, <3>1 DEF Active
    <3>3. load[s] # None /\ load[s].of \in Pooled
      BY <1>i, <1>u, <3>2, LoadFacts DEF OneLoad
    <3>4. ASSUME load[s].of \in es
          PROVE  FALSE
      <4>1. ~(At(s) \in {"resolve", "retry", "again", "image"})
        BY <1>u, <3>3, <3>4, UnderWayFacts
      <4>2. video'[s].on
        BY <2>1, <3>1, <4>1 DEF Active
      <4>3. entry[load[s].of].source = s /\ entry[load[s].of].type = "video"
        BY <1>i, <1>u, <1>v, <4>2 DEF OneLoad
      <4> QED
        BY <1>v, <3>4, <4>2, <4>3
    <3> QED
      BY <3>2, <3>3, <3>4
  <2>2. ASSUME NEW s \in Source, video'[s].on
        PROVE  entry'[load[s].of].source = s /\ entry'[load[s].of].type = "video"
    <3>1. load[s].of \in Entry /\ load[s].of \notin es
      BY <1>i, <2>1, <2>2, PooledFacts DEF Active
    <3> QED
      BY <1>i, <1>u, <1>v, <1>o, <2>2, <3>1 DEF OneLoad
  <2> QED
    BY <1>i, <1>u, <1>q, <2>1, <2>2 DEF OneLoad
<1>7. ShowsOwn'
  <2>1. Orderly /\ Orderly' => \A c \in Canvas :
            \/ shown'[c] = shown[c] /\ holds'[c] = holds[c]
            \/ shown'[c] \in {None, holds'[c]}
    OBVIOUS
  <2> QED
    BY <1>i, <1>u, <2>1, KeepShown
<1>8. Playing'
  <2>1. ASSUME NEW d \in Pooled', entry'[d].type = "video"
        PROVE  d \in Pooled /\ PlaysOn(d)
    <3>1. d \in Pooled /\ d \notin es /\ d \in Entry /\ entry[d] \in MediaEntry
      BY <1>i, <1>q, PooledFacts
    <3>2. entry'[d] = entry[d]
      BY <1>o, <3>1
    <3>3. PICK s : s = entry[d].source
      OBVIOUS
    <3>4. s # None => s \in Source /\ video'[s] = video[s]
      <4>1. s # None => s \in Source
        BY <3>1, <3>3 DEF MediaEntry
      <4>2. s # None => \A e \in es : entry[e].source # s
        BY <1>i, <1>t, <1>e, <3>1, <3>3, SourcesDiffer
      <4> QED
        BY <1>v, <4>1, <4>2
    <3> QED
      BY <2>1, <3>1, <3>2, <3>3, <3>4 DEF PlaysOn
  <2> QED
    BY <1>i, <1>u, <2>1, KeepPlaying
<1> QED
  BY <1>1, <1>2, <1>3, <1>4, <1>5, <1>6, <1>7, <1>8 DEF PoolInv

LEMMA TimerFiresKeeps ==
    ASSUME PoolInv, NEW e \in Entry, TimerFires(e)
    PROVE  PoolInv'
<1>i. /\ TypeOK /\ Keyed /\ Counts /\ Unpooled
      /\ Loads /\ Sources /\ OneLoad /\ ShowsOwn /\ Playing
  BY DEF PoolInv
<1>p. /\ load' = load /\ loop' = loop /\ recent' = recent /\ holds' = holds
      /\ seen' = seen /\ shown' = shown /\ entry[e] # None
  BY DEF TimerFires
<1>k. PICK k \in Key : k = entry[e].key
  BY <1>i, <1>p, TypesOf DEF MediaEntry
<1>n. PICK now : now = pool[k]
  OBVIOUS
<1>1. CASE now # None /\ entry[now].refs = 0
  <2>1. Evict({now})
    BY <1>k, <1>n, <1>1 DEF TimerFires
  <2>2. now \in Pooled
    BY <1>n, <1>1, InPool
  <2>3. \A j \in Key : pool[j] \in {now} /\ j \notin Avatar => Holders(j) = {}
    <3>1. \A j \in Key : pool[j] = now => j = k
      BY <1>i, <1>n, <1>1 DEF Keyed
    <3>2. k \notin Avatar => Cardinality(Holders(k)) = 0
      BY <1>i, <1>n, <1>1 DEF Counts
    <3> QED
      BY <3>1, <3>2, HoldersFinite
  <2> QED
    BY <1>p, <2>1, <2>2, <2>3, EvictKeeps
<1>2. CASE ~(now # None /\ entry[now].refs = 0)
  <2>1. pool' = pool /\ entry' = entry /\ video' = video /\ upset' = upset
    BY <1>k, <1>n, <1>2 DEF TimerFires
  <2>2. \A j : Holders(j)' = Holders(j)
    BY <1>p DEF Holders
  <2> QED
    BY <1>i, <1>p, <2>1, <2>2
       DEF PoolInv, TypeOK, Keyed, Counts, Unpooled, Loads, Sources, OneLoad, Playing, At,
           Active, Orderly, ShowsOwn, Pooled
<1> QED
  BY <1>1, <1>2

LEMMA PurgeKeeps ==
    ASSUME PoolInv, Purge
    PROVE  PoolInv'
<1>i. TypeOK /\ Keyed
  BY DEF PoolInv
<1>e. PICK es : es = {pool[k] : k \in Avatar} \ {None}
  OBVIOUS
<1>1. /\ Evict(es)
      /\ load' = load /\ loop' = loop /\ recent' = recent /\ holds' = holds
      /\ seen' = seen /\ shown' = shown
  BY <1>e DEF Purge
<1>2. es \subseteq Pooled
  BY <1>e, InPool, NoneIsNew
<1>3. \A k \in Key : pool[k] \in es => k \in Avatar
  BY <1>i, <1>e, NoneIsNew DEF Keyed
<1> QED
  BY <1>1, <1>2, <1>3, EvictKeeps

LEMMA ElapseKeeps ==
    ASSUME PoolInv, NEW e \in Entry, Elapse(e)
    PROVE  PoolInv'
<1>1. /\ recent' = recent \ {e} /\ pool' = pool /\ entry' = entry /\ load' = load
      /\ video' = video /\ loop' = loop /\ holds' = holds /\ seen' = seen
      /\ shown' = shown /\ upset' = upset
  BY DEF Elapse
<1>2. recent' \subseteq Entry
  BY <1>1 DEF PoolInv, TypeOK
<1>3. \A j : Holders(j)' = Holders(j)
  BY <1>1 DEF Holders
<1> QED
  BY <1>1, <1>2, <1>3
     DEF PoolInv, TypeOK, Keyed, Counts, Unpooled, Loads, Sources, OneLoad, Playing, At,
         Active, Orderly, ShowsOwn, Pooled

-----------------------------------------------------------------------------
(* Loading *)

LEMMA GoesFacts ==
    ASSUME TypeOK, NEW s \in Source, load[s] # None,
           NEW at \in {"resolve", "retry", "again", "video", "image", "over"}, Goes(s, at)
    PROVE  /\ load' \in [Source -> Loading \union {None}]
           /\ load'[s] # None /\ load'[s].of = load[s].of /\ load'[s].at = at
           /\ At(s)' = at
           /\ \A q \in Source : q # s => load'[q] = load[q] /\ At(q)' = At(q)
<1>1. load \in [Source -> Loading \union {None}] /\ None \notin Loading
  BY TypesOf, NoneIsNew
<1>2. PICK r : r = [load[s] EXCEPT !.at = at]
  OBVIOUS
<1>3. r \in Loading /\ r.of = load[s].of /\ r.at = at
  BY <1>1, <1>2 DEF Loading
<1>4. load' = [load EXCEPT ![s] = r]
  BY <1>2 DEF Goes
<1> QED
  BY <1>1, <1>3, <1>4 DEF At

LEMMA StatusFacts ==
    ASSUME TypeOK, NEW e \in Entry, entry[e] \in MediaEntry,
           NEW status \in {"loading", "ready", "error"},
           entry' = [entry EXCEPT ![e].status = status]
    PROVE  /\ entry' \in [Entry -> MediaEntry \union {None}]
           /\ \A d \in Entry : entry'[d] = None <=> entry[d] = None
           /\ entry'[e].status = status
           /\ \A d \in Entry : d # e => entry'[d] = entry[d]
           /\ SameMedia /\ SameCounts
<1>1. entry \in [Entry -> MediaEntry \union {None}] /\ None \notin MediaEntry
  BY TypesOf, NoneIsNew
<1>2. PICK r : r = [entry[e] EXCEPT !.status = status]
  OBVIOUS
<1>3. /\ r \in MediaEntry /\ r.status = status
      /\ r.key = entry[e].key /\ r.type = entry[e].type /\ r.source = entry[e].source
      /\ r.refs = entry[e].refs /\ r.consumers = entry[e].consumers
      /\ r.visible = entry[e].visible
  BY <1>2 DEF MediaEntry
<1>4. entry' = [entry EXCEPT ![e] = r]
  BY <1>2
<1>5. /\ entry'[e] = r /\ \A d \in Entry : d # e => entry'[d] = entry[d]
      /\ entry' \in [Entry -> MediaEntry \union {None}]
  BY <1>1, <1>3, <1>4
<1> QED
  BY <1>1, <1>3, <1>5 DEF SameMedia, SameCounts

\* The canvases of an entry of the pool are told, or none is.
LEMMA ToldShows ==
    ASSUME TypeOK, Keyed, Counts, ShowsOwn, NEW e \in Entry, entry[e] \in MediaEntry,
           Orderly => e \in Pooled, holds' = holds, upset \subseteq upset',
           shown' = shown \/ shown' = Told(e)
    PROVE  ShowsOwn' /\ shown' \in [Canvas -> Key \union {None}]
<1>t. shown \in [Canvas -> Key \union {None}]
  BY TypesOf
<1>1. \A c \in Canvas :
        \/ shown'[c] = shown[c]
        \/ shown'[c] = entry[e].key /\ c \in entry[e].consumers
  <2>1. CASE shown' = shown
    BY <2>1
  <2>2. CASE shown' = Told(e)
    BY <2>2 DEF Told
  <2> QED
    BY <2>1, <2>2
<1>2. shown' \in [Canvas -> Key \union {None}]
  BY <1>t DEF Told, MediaEntry
<1>3. Orderly /\ Orderly' => \A c \in Canvas :
            \/ shown'[c] = shown[c] /\ holds'[c] = holds[c]
            \/ shown'[c] \in {None, holds'[c]}
  BY <1>1, ToldOwn
<1> QED
  BY <1>2, <1>3, KeepShown

LEMMA HandleErrorKeeps ==
    ASSUME PoolInv, NEW s \in Source, At(s) \in {"resolve", "again", "image"},
           HandleError(s)
    PROVE  PoolInv'
<1>i. /\ TypeOK /\ Keyed /\ Counts /\ Unpooled
      /\ Loads /\ Sources /\ OneLoad /\ ShowsOwn /\ Playing
  BY DEF PoolInv
<1>e. PICK e \in Entry : /\ e = load[s].of /\ entry[e] \in MediaEntry
                         /\ load[s] # None /\ ~video[s].on
  BY <1>i, LoadFacts
<1>p. /\ entry' = [entry EXCEPT ![e].status = "error"]
      /\ shown' = [c \in Canvas |-> IF c \in entry[e].consumers THEN None ELSE shown[c]]
      /\ pool' = pool /\ video' = video /\ loop' = loop /\ recent' = recent
      /\ holds' = holds /\ seen' = seen /\ upset' = upset
      /\ Goes(s, "over")
  BY <1>e DEF HandleError
<1>g. /\ load' \in [Source -> Loading \union {None}]
      /\ load'[s] # None /\ load'[s].of = load[s].of /\ load'[s].at = "over"
      /\ At(s)' = "over"
      /\ \A q \in Source : q # s => load'[q] = load[q] /\ At(q)' = At(q)
  <2>1. PICK at \in {"resolve", "retry", "again", "video", "image", "over"} : at = "over"
    OBVIOUS
  <2> QED
    BY <1>i, <1>e, <1>p, <2>1, GoesFacts
<1>s. /\ entry' \in [Entry -> MediaEntry \union {None}]
      /\ \A d \in Entry : entry'[d] = None <=> entry[d] = None
      /\ entry'[e].status = "error"
      /\ \A d \in Entry : d # e => entry'[d] = entry[d]
      /\ SameMedia /\ SameCounts
  <2>1. PICK status \in {"loading", "ready", "error"} : status = "error"
    OBVIOUS
  <2> QED
    BY <1>i, <1>e, <1>p, <2>1, StatusFacts
<1>1. TypeOK'
  <2>1. /\ shown' \in [Canvas -> Key \union {None}] /\ loop' \in BOOLEAN
        /\ recent' \subseteq Entry /\ seen' \in [Canvas -> BOOLEAN]
        /\ upset' \subseteq {"reloaded", "outlived", "hasty"}
        /\ pool' \in [Key -> Entry \union {None}] /\ video' \in [Source -> Player]
        /\ holds' \in [Canvas -> Key \union {None}]
    BY <1>i, <1>p, TypesOf DEF TypeOK
  <2> QED
    BY <1>g, <1>s, <2>1, TypeMade
<1>2. Counts' /\ Unpooled'
  BY <1>i, <1>p, <1>s, KeepCounts
<1>3. Keyed' /\ Loads' /\ Sources' /\ OneLoad'
  <2>1. SameLoads
    BY <1>e, <1>p, <1>g DEF SameLoads, Active
  <2> QED
    BY <1>i, <1>p, <1>s, <2>1, KeepLoads
<1>4. ShowsOwn'
  <2>1. Orderly /\ Orderly' => \A c \in Canvas :
            \/ shown'[c] = shown[c] /\ holds'[c] = holds[c]
            \/ shown'[c] \in {None, holds'[c]}
    BY <1>p
  <2> QED
    BY <1>i, <1>p, <2>1, KeepShown
<1>5. Playing'
  <2>1. Pooled' = Pooled
    BY <1>p DEF Pooled
  <2>2. ASSUME NEW d \in Pooled, entry'[d].type = "video"
        PROVE  PlaysOn(d)
    <3>1. d \in Entry /\ entry[d] # None
      BY <1>i, PooledFacts, NoneIsNew
    <3>2. /\ entry'[d].type = entry[d].type /\ entry'[d].source = entry[d].source
          /\ entry'[d].visible = entry[d].visible
      BY <1>s, <3>1 DEF SameMedia, SameCounts
    <3>3. entry'[d].status = "ready" => entry[d].status = "ready"
      BY <1>s, <3>1
    <3> QED
      BY <1>p, <2>2, <3>2, <3>3 DEF PlaysOn
  <2> QED
    BY <1>i, <1>p, <2>1, <2>2, KeepPlaying
<1> QED
  BY <1>1, <1>2, <1>3, <1>4, <1>5 DEF PoolInv

\* The loading goes on, and nothing else changes.
LEMMA GoesOnKeeps ==
    ASSUME PoolInv, NEW s \in Source, At(s) \in {"resolve", "retry", "again"},
           NEW at \in {"retry", "again", "image", "over"}, Goes(s, at),
           at = "image" => entry[load[s].of].type = "image",
           pool' = pool, entry' = entry, video' = video, loop' = loop, recent' = recent,
           holds' = holds, seen' = seen, shown' = shown, upset' = upset
    PROVE  PoolInv'
<1>i. /\ TypeOK /\ Keyed /\ Counts /\ Unpooled
      /\ Loads /\ Sources /\ OneLoad /\ ShowsOwn /\ Playing
  BY DEF PoolInv
<1>e. load[s] # None /\ ~video[s].on
  BY <1>i, LoadFacts
<1>g. /\ load' \in [Source -> Loading \union {None}]
      /\ load'[s] # None /\ load'[s].of = load[s].of /\ load'[s].at = at
      /\ At(s)' = at
      /\ \A q \in Source : q # s => load'[q] = load[q] /\ At(q)' = At(q)
  BY <1>i, <1>e, GoesFacts
<1>1. TypeOK'
  BY <1>i, <1>g DEF TypeOK
<1>2. Counts' /\ Unpooled' /\ ShowsOwn' /\ Playing'
  <2>1. \A j : Holders(j)' = Holders(j)
    BY DEF Holders
  <2> QED
    BY <1>i, <2>1 DEF Counts, Unpooled, ShowsOwn, Playing, Pooled
<1>3. Keyed' /\ Loads' /\ Sources' /\ OneLoad'
  <2>1. SameLoads
    BY <1>e, <1>g DEF SameLoads, Active
  <2>2. SameMedia
    BY DEF SameMedia
  <2> QED
    BY <1>i, <2>1, <2>2, KeepLoads
<1> QED
  BY <1>1, <1>2, <1>3 DEF PoolInv

LEMMA ResolvedKeeps ==
    ASSUME PoolInv, NEW s \in Source, Resolved(s)
    PROVE  PoolInv'
<1>i. /\ TypeOK /\ Keyed /\ Counts /\ Unpooled
      /\ Loads /\ Sources /\ OneLoad /\ ShowsOwn /\ Playing
  BY DEF PoolInv
<1>t. /\ entry \in [Entry -> MediaEntry \union {None}] /\ video \in [Source -> Player]
      /\ None \notin MediaEntry /\ None \notin Source
  BY <1>i, TypesOf, NoneIsNew
<1>a. At(s) \in {"resolve", "again"}
  BY DEF Resolved
<1>e. PICK e \in Entry : /\ e = load[s].of /\ entry[e] \in MediaEntry
                         /\ load[s] # None /\ ~video[s].on
  BY <1>i, <1>a, LoadFacts
<1>p. /\ pool' = pool /\ loop' = loop /\ recent' = recent /\ holds' = holds
      /\ seen' = seen /\ shown' = shown /\ upset' = upset
  BY DEF Resolved, Begin
<1>1. CASE entry[e].type = "image"
  <2>1. Goes(s, "image") /\ entry' = entry /\ video' = video
    BY <1>e, <1>1 DEF Resolved, Begin
  <2>2. PICK at \in {"retry", "again", "image", "over"} : at = "image"
    OBVIOUS
  <2> QED
    BY <1>a, <1>e, <1>p, <1>1, <2>1, <2>2, GoesOnKeeps
<1>2. CASE entry[e].type = "video"
  <2>g. Goes(s, "video") /\ entry' = [entry EXCEPT ![e].source = s]
        /\ video' = [video EXCEPT ![s] = [on |-> TRUE, loaded |-> FALSE, paused |-> FALSE]]
    BY <1>e, <1>2 DEF Resolved, Begin
  <2>l. /\ load' \in [Source -> Loading \union {None}]
        /\ load'[s] # None /\ load'[s].of = e /\ load'[s].at = "video"
        /\ At(s)' = "video"
        /\ \A q \in Source : q # s => load'[q] = load[q] /\ At(q)' = At(q)
    <3>1. PICK at \in {"resolve", "retry", "again", "video", "image", "over"} : at = "video"
      OBVIOUS
    <3> QED
      BY <1>i, <1>e, <2>g, <3>1, GoesFacts
  <2>r. PICK r : r = [entry[e] EXCEPT !.source = s]
    OBVIOUS
  <2>f. /\ r \in MediaEntry /\ r.status = entry[e].status
        /\ r.key = entry[e].key /\ r.type = "video" /\ r.source = s
        /\ r.refs = entry[e].refs /\ r.consumers = entry[e].consumers
        /\ r.visible = entry[e].visible
    BY <1>e, <1>2, <2>r DEF MediaEntry
  <2>e. /\ entry'[e] = r /\ \A d \in Entry : d # e => entry'[d] = entry[d]
        /\ entry' \in [Entry -> MediaEntry \union {None}]
    <3>1. entry' = [entry EXCEPT ![e] = r]
      BY <2>g, <2>r
    <3> QED
      BY <1>t, <2>f, <3>1
  <2>v. /\ video' \in [Source -> Player] /\ video'[s].on /\ ~video'[s].paused
        /\ \A q \in Source : q # s => video'[q] = video[q]
    <3>1. PICK p : p = [on |-> TRUE, loaded |-> FALSE, paused |-> FALSE]
      OBVIOUS
    <3>2. p \in Player /\ p.on /\ ~p.paused
      BY <3>1 DEF Player
    <3>3. video' = [video EXCEPT ![s] = p]
      BY <2>g, <3>1
    <3> QED
      BY <1>t, <3>2, <3>3
  <2>m. \A d \in Entry :
          /\ entry'[d] = None <=> entry[d] = None
          /\ entry[d] # None =>
             /\ entry'[d].key = entry[d].key /\ entry'[d].type = entry[d].type
             /\ entry'[d].status = entry[d].status
    BY <1>t, <1>e, <1>2, <2>f, <2>e
  <2>1. TypeOK'
    <3>1. /\ pool' \in [Key -> Entry \union {None}] /\ loop' \in BOOLEAN
          /\ recent' \subseteq Entry /\ seen' \in [Canvas -> BOOLEAN]
          /\ upset' \subseteq {"reloaded", "outlived", "hasty"}
          /\ shown' \in [Canvas -> Key \union {None}]
          /\ holds' \in [Canvas -> Key \union {None}]
      BY <1>i, <1>p DEF TypeOK
    <3> QED
      BY <2>l, <2>e, <2>v, <3>1, TypeMade
  <2>2. Counts' /\ Unpooled'
    <3>1. SameCounts
      BY <2>f, <2>e DEF SameCounts
    <3> QED
      BY <1>i, <1>p, <2>m, <3>1, KeepCounts
  <2>3. Keyed'
    BY <1>i, <1>p, <2>m, TypesOf DEF Keyed
  <2>4. Loads'
    <3>1. \A q \in Source : load'[q] # None =>
            load[q] # None /\ load'[q].of = load[q].of /\ load[q].of \in Entry
            /\ (load'[q].at = "image" => load[q].at = "image")
      BY <1>i, <1>e, <2>l, LoadFacts
    <3>2. \A q \in Source : video'[q].on => At(q)' = "video"
      BY <1>i, <2>l, <2>v, LoadFacts
    <3> QED
      BY <1>i, <2>m, <3>1, <3>2 DEF Loads
  <2>5. Sources'
    <3> SUFFICES ASSUME NEW d \in Entry, entry'[d] # None, entry'[d].source # None
                 PROVE  load'[entry'[d].source] # None /\ load'[entry'[d].source].of = d
      BY DEF Sources
    <3>1. CASE d = e
      BY <2>l, <2>f, <2>e, <3>1
    <3>2. CASE d # e
      <4>1. entry'[d] = entry[d] /\ entry[d] \in MediaEntry
        BY <1>t, <2>e, <3>2
      <4>2. /\ entry[d].source \in Source /\ load[entry[d].source] # None
            /\ load[entry[d].source].of = d
        BY <1>i, <1>t, <4>1 DEF Sources, MediaEntry
      <4>3. entry[d].source # s
        BY <1>e, <3>2, <4>2
      <4> QED
        BY <2>l, <4>1, <4>2, <4>3
    <3> QED
      BY <3>1, <3>2
  <2>6. OneLoad'
    <3> SUFFICES ASSUME Orderly PROVE
          /\ \A q \in Source : Active(q)' => load'[q].of \in Pooled
          /\ \A p, q \in Source : Active(p)' /\ Active(q)' /\ load'[p].of = load'[q].of
                  => p = q
          /\ \A q \in Source : video'[q].on =>
              entry'[load'[q].of].source = q /\ entry'[load'[q].of].type = "video"
      BY <1>p DEF OneLoad, Pooled, Orderly
    <3>1. ASSUME NEW q \in Source, Active(q)'
          PROVE  Active(q) /\ load[q] # None /\ load'[q].of = load[q].of
      <4>1. CASE q = s
        BY <1>a, <1>e, <2>l, <4>1 DEF Active
      <4>2. CASE q # s
        BY <1>i, <2>l, <2>v, <3>1, <4>2, LoadFacts DEF Active
      <4> QED
        BY <4>1, <4>2
    <3>2. ASSUME NEW q \in Source, video'[q].on
          PROVE  entry'[load'[q].of].source = q /\ entry'[load'[q].of].type = "video"
      <4>1. CASE q = s
        BY <2>l, <2>f, <2>e, <4>1
      <4>2. CASE q # s
        <5>1. video[q].on /\ load'[q] = load[q] /\ load[q].of \in Entry
          BY <1>i, <2>l, <2>v, <3>2, <4>2, LoadFacts
        <5>2. load[q].of # e
          BY <1>i, <1>a, <1>e, <4>2, <5>1 DEF OneLoad, Active
        <5> QED
          BY <1>i, <2>e, <5>1, <5>2 DEF OneLoad
      <4> QED
        BY <4>1, <4>2
    <3> QED
      BY <1>i, <3>1, <3>2 DEF OneLoad
  <2>7. ShowsOwn'
    BY <1>i, <1>p DEF ShowsOwn
  <2>8. Playing'
    <3> SUFFICES ASSUME upset = {}, NEW d \in Pooled, entry'[d].type = "video"
                 PROVE  /\ entry'[d].status = "ready" => entry'[d].source # None
                        /\ entry'[d].source # None /\ entry'[d].visible # {} =>
                                ~video'[entry'[d].source].paused
      BY <1>p DEF Playing, Pooled
    <3>1. CASE d = e
      BY <1>t, <2>f, <2>e, <2>v, <3>1
    <3>2. CASE d # e
      <4>1. d \in Entry /\ entry[d] \in MediaEntry /\ entry'[d] = entry[d]
        BY <1>i, <2>e, <3>2, PooledFacts
      <4>2. entry[d].source # None => entry[d].source \in Source /\ entry[d].source # s
        BY <1>i, <1>t, <1>e, <3>2, <4>1 DEF Sources, MediaEntry
      <4> QED
        BY <1>i, <2>v, <4>1, <4>2 DEF Playing
    <3> QED
      BY <3>1, <3>2
  <2> QED
    BY <2>1, <2>2, <2>3, <2>4, <2>5, <2>6, <2>7, <2>8 DEF PoolInv
<1> QED
  BY <1>e, <1>1, <1>2 DEF MediaEntry

LEMMA LoadingKeeps ==
    ASSUME PoolInv, NEW s \in Source,
           ResolveFails(s) \/ ImageFails(s) \/ Unresolved(s) \/ Retry(s)
    PROVE  PoolInv'
<1>1. CASE ResolveFails(s)
  BY <1>1, HandleErrorKeeps DEF ResolveFails
<1>2. CASE ImageFails(s)
  BY <1>2, HandleErrorKeeps DEF ImageFails
<1>3. CASE Unresolved(s)
  <2>1. PICK at \in {"retry", "again", "image", "over"} : at = "retry"
    OBVIOUS
  <2> QED
    BY <1>3, <2>1, GoesOnKeeps DEF Unresolved
<1>4. CASE Retry(s)
  <2>1. PICK at \in {"retry", "again", "image", "over"} :
            at = IF entry[load[s].of].status = "loading" THEN "again" ELSE "over"
    OBVIOUS
  <2>2. at # "image"
    BY <2>1
  <2> QED
    BY <1>4, <2>1, <2>2, GoesOnKeeps DEF Retry
<1> QED
  BY <1>1, <1>2, <1>3, <1>4

LEMMA VideoEventKeeps ==
    ASSUME PoolInv, NEW s \in Source, VideoEvent(s)
    PROVE  PoolInv'
<1>i. /\ TypeOK /\ Keyed /\ Counts /\ Unpooled
      /\ Loads /\ Sources /\ OneLoad /\ ShowsOwn /\ Playing
  BY DEF PoolInv
<1>t. video \in [Source -> Player] /\ recent \subseteq Entry
      /\ None \notin MediaEntry /\ None \notin Source
  BY <1>i, TypesOf, NoneIsNew DEF TypeOK
<1>a. At(s) = "video" /\ video[s].on
  BY DEF VideoEvent
<1>e. PICK e \in Entry : e = load[s].of /\ entry[e] \in MediaEntry /\ load[s] # None
  BY <1>i, <1>a, LoadFacts
<1>q. PICK plays : plays = (entry[e].visible # {} /\ video[s].paused /\ e \notin recent)
  OBVIOUS
<1>p. /\ entry' = [entry EXCEPT ![e].status = "ready"]
      /\ shown' = shown \/ shown' = Told(e)
      /\ video' = [video EXCEPT ![s].loaded = TRUE, ![s].paused = (@ /\ ~plays)]
      /\ recent' = IF plays THEN recent \union {e} ELSE recent
      /\ upset' = IF entry[e].visible # {} THEN upset \union Hasty(e, s) ELSE upset
      /\ pool' = pool /\ load' = load /\ holds' = holds /\ seen' = seen
      /\ EnsureRenderLoop(entry[e].visible # {})
  BY <1>e, <1>q DEF VideoEvent
<1>s. /\ entry' \in [Entry -> MediaEntry \union {None}]
      /\ \A d \in Entry : entry'[d] = None <=> entry[d] = None
      /\ entry'[e].status = "ready"
      /\ \A d \in Entry : d # e => entry'[d] = entry[d]
      /\ SameMedia /\ SameCounts
  <2>1. PICK status \in {"loading", "ready", "error"} : status = "ready"
    OBVIOUS
  <2> QED
    BY <1>i, <1>e, <1>p, <2>1, StatusFacts
<1>v. /\ video' \in [Source -> Player] /\ video'[s].on
      /\ video'[s].paused <=> (video[s].paused /\ ~plays)
      /\ \A q \in Source : q # s => video'[q] = video[q]
  <2>0. PICK paused : paused = (video[s].paused /\ ~plays)
    OBVIOUS
  <2>1. PICK p : p = [video[s] EXCEPT !.loaded = TRUE, !.paused = paused]
    OBVIOUS
  <2>2. p \in Player /\ p.on /\ p.paused = paused
    BY <1>t, <1>a, <2>0, <2>1 DEF Player
  <2>3. video' = [video EXCEPT ![s] = p]
    <3>1. video' = [video EXCEPT ![s] = [video[s] EXCEPT !.loaded = TRUE,
                                                        !.paused = paused]]
      BY <1>t, <1>p, <2>0 DEF Player
    <3> QED
      BY <2>1, <3>1
  <2> QED
    BY <1>t, <2>0, <2>2, <2>3
<1>u. upset' \subseteq {"reloaded", "outlived", "hasty"} /\ upset \subseteq upset'
  BY <1>i, <1>p DEF Hasty, TypeOK
<1>o. Orderly => e \in Pooled /\ entry[e].source = s /\ entry[e].type = "video"
  BY <1>i, <1>a, <1>e DEF OneLoad, Active
<1>h. ShowsOwn' /\ shown' \in [Canvas -> Key \union {None}]
  BY <1>i, <1>e, <1>p, <1>u, <1>o, ToldShows
<1>1. TypeOK'
  <2>1. /\ loop' \in BOOLEAN
    BY <1>i, <1>p, LoopTyped
  <2>2. /\ recent' \subseteq Entry /\ seen' \in [Canvas -> BOOLEAN]
        /\ pool' \in [Key -> Entry \union {None}]
        /\ load' \in [Source -> Loading \union {None}]
        /\ holds' \in [Canvas -> Key \union {None}]
    BY <1>i, <1>t, <1>p, TypesOf DEF TypeOK
  <2> QED
    BY <1>s, <1>v, <1>u, <1>h, <2>1, <2>2, TypeMade
<1>2. Counts' /\ Unpooled'
  BY <1>i, <1>p, <1>s, KeepCounts
<1>3. Keyed' /\ Loads' /\ Sources' /\ OneLoad'
  <2>1. \A q \in Source : video'[q].on = video[q].on
    <3>1. video'[s].on = video[s].on
      BY <1>t, <1>a, <1>v DEF Player
    <3> QED
      BY <1>v, <3>1
  <2>2. SameLoads
    BY <1>p, <2>1 DEF SameLoads, Active, At
  <2> QED
    BY <1>i, <1>p, <1>s, <1>u, <2>2, KeepLoads
<1>4. Playing'
  <2>1. Pooled' = Pooled
    BY <1>p DEF Pooled
  <2>2. ASSUME upset' = {}, NEW d \in Pooled, entry'[d].type = "video"
        PROVE  PlaysOn(d)
    <3>1. d \in Entry /\ entry[d] \in MediaEntry
      BY <1>i, PooledFacts
    <3>2. /\ entry'[d].type = entry[d].type /\ entry'[d].source = entry[d].source
          /\ entry'[d].visible = entry[d].visible
      BY <1>t, <1>s, <3>1 DEF SameMedia, SameCounts
    <3>3. PICK q : q = entry[d].source
      OBVIOUS
    <3>4. q # None => q \in Source
      BY <3>1, <3>3 DEF MediaEntry
    <3>5. CASE d = e
      <4>1. Orderly
        BY <1>u, <2>2 DEF Orderly
      <4>2. q = s /\ q # None
        BY <1>t, <1>o, <3>3, <3>5, <4>1
      <4>3. entry[e].visible # {} => ~video'[s].paused
        BY <1>p, <1>q, <1>v, <2>2 DEF Hasty
      <4> QED
        BY <2>2, <3>2, <3>3, <3>5, <4>2, <4>3 DEF PlaysOn
    <3>6. CASE d # e
      <4>1. q # None => q # s
        BY <1>i, <1>t, <1>e, <3>1, <3>3, <3>6 DEF Sources
      <4>2. entry'[d].status = entry[d].status
        BY <1>s, <3>1, <3>6
      <4> QED
        BY <1>v, <2>2, <3>2, <3>3, <3>4, <4>1, <4>2 DEF PlaysOn
    <3> QED
      BY <3>5, <3>6
  <2> QED
    BY <1>i, <1>u, <2>1, <2>2, KeepPlaying
<1> QED
  BY <1>h, <1>1, <1>2, <1>3, <1>4 DEF PoolInv

\* What the end of a loading makes of its entry
LEMMA MadeFacts ==
    ASSUME TypeOK, NEW e \in Entry, entry[e] \in MediaEntry, NEW r \in MediaEntry,
           r.key = entry[e].key, r.refs = entry[e].refs,
           r.consumers = entry[e].consumers, r.visible = entry[e].visible,
           entry' = [entry EXCEPT ![e] = r]
    PROVE  /\ entry' \in [Entry -> MediaEntry \union {None}]
           /\ entry'[e] = r /\ \A d \in Entry : d # e => entry'[d] = entry[d]
           /\ \A d \in Entry :
                /\ entry'[d] = None <=> entry[d] = None
                /\ entry[d] # None => entry'[d].key = entry[d].key
           /\ SameCounts
BY TypesOf, NoneIsNew DEF SameCounts

LEMMA VideoErrorKeeps ==
    ASSUME PoolInv, NEW s \in Source, VideoError(s)
    PROVE  PoolInv'
<1>i. /\ TypeOK /\ Keyed /\ Counts /\ Unpooled
      /\ Loads /\ Sources /\ OneLoad /\ ShowsOwn /\ Playing
  BY DEF PoolInv
<1>t. /\ video \in [Source -> Player]
      /\ entry \in [Entry -> MediaEntry \union {None}]
      /\ None \notin MediaEntry /\ None \notin Source
  BY <1>i, TypesOf, NoneIsNew
<1>a. At(s) = "video" /\ video[s].on
  BY DEF VideoError
<1>e. PICK e \in Entry : e = load[s].of /\ entry[e] \in MediaEntry /\ load[s] # None
  BY <1>i, <1>a, LoadFacts
<1>p. /\ pool' = pool /\ loop' = loop /\ recent' = recent /\ holds' = holds
      /\ seen' = seen /\ shown' = shown /\ upset' = upset
      /\ Goes(s, "image") /\ video' = [video EXCEPT ![s] = Off]
      /\ entry' = [entry EXCEPT ![e].type = "image"]
  BY <1>e DEF VideoError
<1>l. /\ load' \in [Source -> Loading \union {None}]
      /\ load'[s] # None /\ load'[s].of = e /\ load'[s].at = "image"
      /\ At(s)' = "image"
      /\ \A q \in Source : q # s => load'[q] = load[q] /\ At(q)' = At(q)
  <2>1. PICK at \in {"resolve", "retry", "again", "video", "image", "over"} : at = "image"
    OBVIOUS
  <2> QED
    BY <1>i, <1>e, <1>p, <2>1, GoesFacts
<1>r. PICK r : r = [entry[e] EXCEPT !.type = "image"]
  OBVIOUS
<1>f. /\ r \in MediaEntry /\ r.status = entry[e].status
      /\ r.key = entry[e].key /\ r.type = "image" /\ r.source = entry[e].source
      /\ r.refs = entry[e].refs /\ r.consumers = entry[e].consumers
      /\ r.visible = entry[e].visible
  BY <1>e, <1>r DEF MediaEntry
<1>m. /\ entry' \in [Entry -> MediaEntry \union {None}]
      /\ entry'[e] = r /\ \A d \in Entry : d # e => entry'[d] = entry[d]
      /\ \A d \in Entry :
          /\ entry'[d] = None <=> entry[d] = None
          /\ entry[d] # None => entry'[d].key = entry[d].key
      /\ SameCounts
  <2>1. entry' = [entry EXCEPT ![e] = r]
    BY <1>p, <1>r
  <2> QED
    BY <1>i, <1>e, <1>f, <2>1, MadeFacts
<1>v. /\ video' \in [Source -> Player] /\ ~video'[s].on
      /\ \A q \in Source : q # s => video'[q] = video[q]
  <2>1. Off \in Player /\ ~Off.on
    BY DEF Off, Player
  <2> QED
    BY <1>t, <1>p, <2>1
<1>1. TypeOK'
  <2>1. /\ pool' \in [Key -> Entry \union {None}] /\ loop' \in BOOLEAN
        /\ recent' \subseteq Entry /\ seen' \in [Canvas -> BOOLEAN]
        /\ upset' \subseteq {"reloaded", "outlived", "hasty"}
        /\ shown' \in [Canvas -> Key \union {None}]
        /\ holds' \in [Canvas -> Key \union {None}]
    BY <1>i, <1>p DEF TypeOK
  <2> QED
    BY <1>l, <1>m, <1>v, <2>1, TypeMade
<1>2. Counts' /\ Unpooled'
  BY <1>i, <1>p, <1>m, KeepCounts
<1>3. Keyed'
  BY <1>i, <1>p, <1>m, TypesOf DEF Keyed
<1>4. Loads'
  <2>1. ASSUME NEW q \in Source, load'[q] # None
        PROVE  entry'[load'[q].of] # None
               /\ (load'[q].at = "image" => entry'[load'[q].of].type = "image")
    <3>1. CASE q = s
      BY <1>t, <1>l, <1>f, <1>m, <3>1
    <3>2. CASE q # s
      <4>1. load'[q] = load[q] /\ load[q] # None /\ load[q].of \in Entry
        BY <1>i, <1>l, <2>1, <3>2, LoadFacts
      <4> QED
        BY <1>i, <1>f, <1>m, <4>1 DEF Loads
    <3> QED
      BY <3>1, <3>2
  <2>2. \A q \in Source : video'[q].on => At(q)' = "video"
    BY <1>i, <1>l, <1>v, LoadFacts
  <2> QED
    BY <2>1, <2>2 DEF Loads
<1>5. Sources'
  <2> SUFFICES ASSUME NEW d \in Entry, entry'[d] # None, entry'[d].source # None
               PROVE  load'[entry'[d].source] # None /\ load'[entry'[d].source].of = d
    BY DEF Sources
  <2>1. entry[d] # None /\ entry'[d].source = entry[d].source
        /\ entry[d] \in MediaEntry
    BY <1>t, <1>f, <1>m
  <2>2. /\ entry[d].source \in Source /\ load[entry[d].source] # None
        /\ load[entry[d].source].of = d
    BY <1>i, <2>1 DEF Sources, MediaEntry
  <2> QED
    BY <1>e, <1>l, <2>1, <2>2
<1>6. OneLoad'
  <2> SUFFICES ASSUME Orderly PROVE
        /\ \A q \in Source : Active(q)' => load'[q].of \in Pooled
        /\ \A p, q \in Source : Active(p)' /\ Active(q)' /\ load'[p].of = load'[q].of
                => p = q
        /\ \A q \in Source : video'[q].on =>
            entry'[load'[q].of].source = q /\ entry'[load'[q].of].type = "video"
    BY <1>p DEF OneLoad, Pooled, Orderly
  <2>1. ASSUME NEW q \in Source, Active(q)'
        PROVE  Active(q) /\ load[q] # None /\ load'[q].of = load[q].of
    <3>1. CASE q = s
      BY <1>a, <1>e, <1>l, <3>1 DEF Active
    <3>2. CASE q # s
      BY <1>i, <1>l, <1>v, <2>1, <3>2, LoadFacts DEF Active
    <3> QED
      BY <3>1, <3>2
  <2>2. ASSUME NEW q \in Source, video'[q].on
        PROVE  entry'[load'[q].of].source = q /\ entry'[load'[q].of].type = "video"
    <3>1. q # s /\ video[q].on /\ load'[q] = load[q] /\ load[q].of \in Entry
      BY <1>i, <1>l, <1>v, <2>2, LoadFacts
    <3>2. load[q].of # e
      BY <1>i, <1>a, <1>e, <3>1 DEF OneLoad, Active
    <3> QED
      BY <1>i, <1>m, <3>1, <3>2 DEF OneLoad
  <2> QED
    BY <1>i, <2>1, <2>2 DEF OneLoad
<1>7. ShowsOwn'
  BY <1>i, <1>p DEF ShowsOwn
<1>8. Playing'
  <2> SUFFICES ASSUME upset = {}, NEW d \in Pooled, entry'[d].type = "video"
               PROVE  /\ entry'[d].status = "ready" => entry'[d].source # None
                      /\ entry'[d].source # None /\ entry'[d].visible # {} =>
                              ~video'[entry'[d].source].paused
    BY <1>p DEF Playing, Pooled
  <2>1. d # e
    BY <1>f, <1>m
  <2>2. d \in Entry /\ entry[d] \in MediaEntry /\ entry'[d] = entry[d]
    BY <1>i, <1>m, <2>1, PooledFacts
  <2>3. entry[d].source # None => entry[d].source \in Source /\ entry[d].source # s
    BY <1>i, <1>t, <1>e, <2>1, <2>2 DEF Sources, MediaEntry
  <2> QED
    BY <1>i, <1>v, <2>2, <2>3 DEF Playing
<1> QED
  BY <1>1, <1>2, <1>3, <1>4, <1>5, <1>6, <1>7, <1>8 DEF PoolInv

LEMMA ImageDoneKeeps ==
    ASSUME PoolInv, NEW s \in Source, ImageDone(s)
    PROVE  PoolInv'
<1>i. /\ TypeOK /\ Keyed /\ Counts /\ Unpooled
      /\ Loads /\ Sources /\ OneLoad /\ ShowsOwn /\ Playing
  BY DEF PoolInv
<1>t. /\ video \in [Source -> Player]
      /\ entry \in [Entry -> MediaEntry \union {None}]
      /\ None \notin MediaEntry /\ None \notin Source
  BY <1>i, TypesOf, NoneIsNew
<1>a. At(s) = "image"
  BY DEF ImageDone
<1>e. PICK e \in Entry : /\ e = load[s].of /\ entry[e] \in MediaEntry
                         /\ load[s] # None /\ ~video[s].on /\ entry[e].type = "image"
  BY <1>i, <1>a, LoadFacts DEF Loads
<1>p. /\ pool' = pool /\ loop' = loop /\ recent' = recent /\ holds' = holds
      /\ seen' = seen /\ upset' = upset /\ video' = video
      /\ Goes(s, "over") /\ shown' = Told(e)
      /\ entry' = [entry EXCEPT ![e].source = s, ![e].status = "ready"]
  BY <1>e DEF ImageDone
<1>l. /\ load' \in [Source -> Loading \union {None}]
      /\ load'[s] # None /\ load'[s].of = e /\ load'[s].at = "over"
      /\ At(s)' = "over"
      /\ \A q \in Source : q # s => load'[q] = load[q] /\ At(q)' = At(q)
  <2>1. PICK at \in {"resolve", "retry", "again", "video", "image", "over"} : at = "over"
    OBVIOUS
  <2> QED
    BY <1>i, <1>e, <1>p, <2>1, GoesFacts
<1>r. PICK r : r = [entry[e] EXCEPT !.source = s, !.status = "ready"]
  OBVIOUS
<1>f. /\ r \in MediaEntry /\ r.key = entry[e].key /\ r.type = "image" /\ r.source = s
      /\ r.refs = entry[e].refs /\ r.consumers = entry[e].consumers
      /\ r.visible = entry[e].visible
  BY <1>e, <1>r DEF MediaEntry
<1>m. /\ entry' \in [Entry -> MediaEntry \union {None}]
      /\ entry'[e] = r /\ \A d \in Entry : d # e => entry'[d] = entry[d]
      /\ \A d \in Entry :
          /\ entry'[d] = None <=> entry[d] = None
          /\ entry[d] # None => entry'[d].key = entry[d].key
      /\ SameCounts
  <2>1. entry' = [entry EXCEPT ![e] = [entry[e] EXCEPT !.source = s, !.status = "ready"]]
    BY <1>t, <1>e, <1>p DEF MediaEntry
  <2>2. entry' = [entry EXCEPT ![e] = r]
    BY <1>r, <2>1
  <2> QED
    BY <1>i, <1>e, <1>f, <2>2, MadeFacts
<1>h. ShowsOwn' /\ shown' \in [Canvas -> Key \union {None}]
  <2>1. Orderly => e \in Pooled
    BY <1>i, <1>a, <1>e DEF OneLoad, Active
  <2> QED
    BY <1>i, <1>e, <1>p, <2>1, ToldShows
<1>1. TypeOK'
  <2>1. /\ pool' \in [Key -> Entry \union {None}] /\ loop' \in BOOLEAN
        /\ recent' \subseteq Entry /\ seen' \in [Canvas -> BOOLEAN]
        /\ upset' \subseteq {"reloaded", "outlived", "hasty"}
        /\ holds' \in [Canvas -> Key \union {None}] /\ video' \in [Source -> Player]
    BY <1>i, <1>t, <1>p DEF TypeOK
  <2> QED
    BY <1>l, <1>m, <1>h, <2>1, TypeMade
<1>2. Counts' /\ Unpooled'
  BY <1>i, <1>p, <1>m, KeepCounts
<1>3. Keyed'
  BY <1>i, <1>p, <1>m, TypesOf DEF Keyed
<1>4. Loads'
  <2>1. \A d \in Entry : entry[d] # None => entry'[d].type = entry[d].type
    BY <1>e, <1>f, <1>m
  <2>2. \A q \in Source : load'[q] # None =>
          load[q] # None /\ load'[q].of = load[q].of /\ load[q].of \in Entry
          /\ (load'[q].at = "image" => load[q].at = "image")
    BY <1>i, <1>e, <1>l, LoadFacts
  <2>3. \A q \in Source : video'[q].on => At(q)' = "video"
    BY <1>i, <1>e, <1>p, <1>l, LoadFacts
  <2> QED
    BY <1>i, <1>m, <2>1, <2>2, <2>3 DEF Loads
<1>5. Sources'
  <2> SUFFICES ASSUME NEW d \in Entry, entry'[d] # None, entry'[d].source # None
               PROVE  load'[entry'[d].source] # None /\ load'[entry'[d].source].of = d
    BY DEF Sources
  <2>1. CASE d = e
    BY <1>l, <1>f, <1>m, <2>1
  <2>2. CASE d # e
    <3>1. entry'[d] = entry[d] /\ entry[d] \in MediaEntry
      BY <1>t, <1>m, <2>2
    <3>2. /\ entry[d].source \in Source /\ load[entry[d].source] # None
          /\ load[entry[d].source].of = d
      BY <1>i, <1>t, <3>1 DEF Sources, MediaEntry
    <3>3. entry[d].source # s
      BY <1>e, <2>2, <3>2
    <3> QED
      BY <1>l, <3>1, <3>2, <3>3
  <2> QED
    BY <2>1, <2>2
<1>6. OneLoad'
  <2> SUFFICES ASSUME Orderly PROVE
        /\ \A q \in Source : Active(q)' => load'[q].of \in Pooled
        /\ \A p, q \in Source : Active(p)' /\ Active(q)' /\ load'[p].of = load'[q].of
                => p = q
        /\ \A q \in Source : video'[q].on =>
            entry'[load'[q].of].source = q /\ entry'[load'[q].of].type = "video"
    <3>1. Pooled' = Pooled /\ (Orderly' => Orderly)
      BY <1>p DEF Pooled, Orderly
    <3> QED
      BY <3>1 DEF OneLoad
  <2>1. ASSUME NEW q \in Source, Active(q)'
        PROVE  q # s /\ Active(q) /\ load[q] # None /\ load'[q] = load[q]
    <3>1. q # s
      BY <1>e, <1>p, <1>l, <2>1 DEF Active
    <3>2. Active(q)
      BY <1>p, <1>l, <2>1, <3>1 DEF Active
    <3> QED
      BY <1>i, <1>l, <3>1, <3>2, LoadFacts
  <2>2. ASSUME NEW q \in Source, video'[q].on
        PROVE  entry'[load'[q].of].source = q /\ entry'[load'[q].of].type = "video"
    <3>1. q # s /\ video[q].on /\ load'[q] = load[q] /\ load[q].of \in Entry
      BY <1>i, <1>e, <1>p, <1>l, <2>2, LoadFacts
    <3>2. load[q].of # e
      BY <1>i, <1>a, <1>e, <3>1 DEF OneLoad, Active
    <3> QED
      BY <1>i, <1>m, <3>1, <3>2 DEF OneLoad
  <2> QED
    BY <1>i, <2>1, <2>2 DEF OneLoad
<1>7. Playing'
  <2> SUFFICES ASSUME upset = {}, NEW d \in Pooled, entry'[d].type = "video"
               PROVE  /\ entry'[d].status = "ready" => entry'[d].source # None
                      /\ entry'[d].source # None /\ entry'[d].visible # {} =>
                              ~video'[entry'[d].source].paused
    BY <1>p DEF Playing, Pooled
  <2>1. d # e
    BY <1>f, <1>m
  <2>2. d \in Entry /\ entry[d] \in MediaEntry /\ entry'[d] = entry[d]
    BY <1>i, <1>m, <2>1, PooledFacts
  <2> QED
    BY <1>i, <1>p, <2>2 DEF Playing
<1> QED
  BY <1>h, <1>1, <1>2, <1>3, <1>4, <1>5, <1>6, <1>7 DEF PoolInv

-----------------------------------------------------------------------------
(* Rendering *)

\* What render goes through, marks as ready and starts, and whom it tells
Here == {e \in Pooled : /\ entry[e].type = "video"
                        /\ entry[e].visible # {}
                        /\ entry[e].source # None
                        /\ \/ entry[e].status = "ready"
                           \/ video[entry[e].source].loaded}
Made == {e \in Here : entry[e].status # "ready"}
Started == {e \in Here \ recent : video[entry[e].source].paused}
Hears(c) == {e \in Here : \/ Plays(e) /\ c \in entry[e].visible
                          \/ e \in Made /\ c \in entry[e].consumers}

LEMMA RenderKeeps ==
    ASSUME PoolInv, Render
    PROVE  PoolInv'
<1>i. /\ TypeOK /\ Keyed /\ Counts /\ Unpooled
      /\ Loads /\ Sources /\ OneLoad /\ ShowsOwn /\ Playing
  BY DEF PoolInv
<1>t. /\ video \in [Source -> Player]
      /\ entry \in [Entry -> MediaEntry \union {None}]
      /\ shown \in [Canvas -> Key \union {None}]
      /\ None \notin MediaEntry
  BY <1>i, TypesOf, NoneIsNew
<1>p. /\ entry' = [e \in Entry |->
            IF e \in Made THEN [entry[e] EXCEPT !.status = "ready"] ELSE entry[e]]
      /\ video' = [s \in Source |->
            IF \E e \in Started : entry[e].source = s
            THEN [video[s] EXCEPT !.paused = FALSE] ELSE video[s]]
      /\ recent' = recent \union Started
      /\ loop' \in BOOLEAN
      /\ pool' = pool /\ load' = load /\ holds' = holds /\ seen' = seen /\ upset' = upset
  BY DEF Render, Here, Made, Started
<1>r. shown' = [c \in Canvas |->
            IF Hears(c) # {} THEN entry[CHOOSE e \in Hears(c) : TRUE].key ELSE shown[c]]
  BY DEF Render, Here, Made, Hears
<1>h. Made \subseteq Here /\ Started \subseteq Here
  BY DEF Made, Started
<1>o. \A e \in Here : e \in Pooled /\ e \in Entry /\ entry[e] \in MediaEntry
                      /\ entry[e].source # None
  BY <1>i, PooledFacts DEF Here
<1>e. /\ entry' \in [Entry -> MediaEntry \union {None}]
      /\ \A e \in Entry : entry'[e] = None <=> entry[e] = None
      /\ SameMedia /\ SameCounts
      /\ \A e \in Entry : e \notin Made => entry'[e] = entry[e]
  <2>1. ASSUME NEW e \in Made
        PROVE  /\ entry'[e] \in MediaEntry
               /\ entry'[e].key = entry[e].key /\ entry'[e].type = entry[e].type
               /\ entry'[e].source = entry[e].source /\ entry'[e].refs = entry[e].refs
               /\ entry'[e].consumers = entry[e].consumers
               /\ entry'[e].visible = entry[e].visible
    <3>1. e \in Entry /\ entry[e] \in MediaEntry
      BY <1>h, <1>o, <2>1
    <3>2. PICK r : r = [entry[e] EXCEPT !.status = "ready"]
      OBVIOUS
    <3>3. entry'[e] = r
      BY <1>p, <2>1, <3>1, <3>2
    <3> QED
      BY <3>1, <3>2, <3>3 DEF MediaEntry
  <2>2. \A e \in Entry : e \notin Made => entry'[e] = entry[e]
    BY <1>p
  <2>3. \A e \in Made : e \in Entry /\ entry[e] \in MediaEntry
    BY <1>h, <1>o
  <2>4. entry' \in [Entry -> MediaEntry \union {None}]
    <3>1. \A e \in Entry : entry'[e] \in MediaEntry \union {None}
      BY <1>t, <2>1, <2>2
    <3>2. PICK f : f = [e \in Entry |-> entry'[e]]
      OBVIOUS
    <3>3. entry' = f
      BY <1>p, <3>2
    <3> QED
      BY <3>1, <3>2, <3>3
  <2> QED
    BY <1>t, <2>1, <2>2, <2>3, <2>4 DEF SameMedia, SameCounts
<1>v. /\ video' \in [Source -> Player]
      /\ \A s \in Source : video'[s].on = video[s].on
                           /\ (video'[s].paused => video[s].paused)
  <2>1. ASSUME NEW s \in Source
        PROVE  /\ video'[s] \in Player /\ video'[s].on = video[s].on
               /\ video'[s].paused => video[s].paused
    <3>1. PICK p : p = [video[s] EXCEPT !.paused = FALSE]
      OBVIOUS
    <3>2. p \in Player /\ p.on = video[s].on /\ ~p.paused
      BY <1>t, <3>1 DEF Player
    <3>3. video'[s] = p \/ video'[s] = video[s]
      BY <1>p, <3>1
    <3> QED
      BY <1>t, <3>2, <3>3
  <2>2. PICK f : f = [s \in Source |-> video'[s]]
    OBVIOUS
  <2>3. video' = f
    BY <1>p, <2>2
  <2> QED
    BY <2>1, <2>2, <2>3
<1>w. ASSUME NEW c \in Canvas
      PROVE  \/ shown'[c] = shown[c]
             \/ shown'[c] = holds[c] /\ holds[c] \in Key
  <2>1. CASE Hears(c) = {}
    BY <1>r, <2>1
  <2>2. CASE Hears(c) # {}
    <3>1. PICK e \in Hears(c) : e = CHOOSE x \in Hears(c) : TRUE
      BY <2>2
    <3>2. e \in Here /\ c \in entry[e].consumers \union entry[e].visible
      BY <3>1 DEF Hears
    <3>3. holds[c] = entry[e].key /\ entry[e].key \in Key
      BY <1>i, <1>o, <3>2, ToldOwn
    <3>4. shown'[c] = entry[e].key
      BY <1>r, <2>2, <3>1
    <3> QED
      BY <3>3, <3>4
  <2> QED
    BY <2>1, <2>2
<1>1. TypeOK'
  <2>1. shown' \in [Canvas -> Key \union {None}]
    <3>1. \A c \in Canvas : shown'[c] \in Key \union {None}
      BY <1>t, <1>w
    <3>2. PICK f : f = [c \in Canvas |-> shown'[c]]
      OBVIOUS
    <3>3. shown' = f
      BY <1>r, <3>2
    <3> QED
      BY <3>1, <3>2, <3>3
  <2>2. recent' \subseteq Entry
    BY <1>i, <1>p, <1>h, <1>o DEF TypeOK
  <2>3. /\ pool' \in [Key -> Entry \union {None}] /\ seen' \in [Canvas -> BOOLEAN]
        /\ load' \in [Source -> Loading \union {None}] /\ loop' \in BOOLEAN
        /\ upset' \subseteq {"reloaded", "outlived", "hasty"}
        /\ holds' \in [Canvas -> Key \union {None}]
    BY <1>i, <1>p, TypesOf DEF TypeOK
  <2> QED
    BY <1>e, <1>v, <2>1, <2>2, <2>3, TypeMade
<1>2. Counts' /\ Unpooled'
  BY <1>i, <1>p, <1>e, KeepCounts
<1>3. Keyed' /\ Loads' /\ Sources' /\ OneLoad'
  <2>1. load' = load /\ pool' = pool /\ upset \subseteq upset'
    BY <1>p
  <2>2. SameLoads
    BY <1>v, <2>1 DEF SameLoads, Active, At
  <2> QED
    BY <1>i, <1>e, <2>1, <2>2, KeepLoads
<1>4. ShowsOwn'
  <2>0. holds' = holds /\ upset' = upset
    BY <1>p
  <2>1. Orderly /\ Orderly' => \A c \in Canvas :
            \/ shown'[c] = shown[c] /\ holds'[c] = holds[c]
            \/ shown'[c] \in {None, holds'[c]}
    BY <1>w, <2>0
  <2> QED
    BY <1>i, <2>0, <2>1, KeepShown
<1>5. Playing'
  <2>1. Pooled' = Pooled /\ upset' = upset
    BY <1>p DEF Pooled
  <2>2. ASSUME NEW d \in Pooled, entry'[d].type = "video"
        PROVE  PlaysOn(d)
    <3>1. d \in Entry /\ entry[d] \in MediaEntry
      BY <1>i, PooledFacts
    <3>2. /\ entry'[d].type = entry[d].type /\ entry'[d].source = entry[d].source
          /\ entry'[d].visible = entry[d].visible
      BY <1>t, <1>e, <3>1 DEF SameMedia, SameCounts
    <3>3. entry'[d].status = "ready" => entry[d].status = "ready" \/ entry[d].source # None
      BY <1>h, <1>e, <1>o, <3>1
    <3>4. PICK q : q = entry[d].source
      OBVIOUS
    <3>5. q # None => q \in Source
      BY <3>1, <3>4 DEF MediaEntry
    <3> QED
      BY <1>v, <2>2, <3>2, <3>3, <3>4, <3>5 DEF PlaysOn
  <2> QED
    BY <1>i, <2>1, <2>2, KeepPlaying
<1> QED
  BY <1>1, <1>2, <1>3, <1>4, <1>5 DEF PoolInv

-----------------------------------------------------------------------------
(* The theorems *)

LEMMA PoolInit ==
    ASSUME Init
    PROVE  PoolInv
<1>1. /\ pool = [k \in Key |-> None] /\ entry = [e \in Entry |-> None]
      /\ load = [s \in Source |-> None] /\ video = [s \in Source |-> Off]
      /\ loop = FALSE /\ recent = {}
      /\ holds = [c \in Canvas |-> None] /\ seen = [c \in Canvas |-> FALSE]
      /\ shown = [c \in Canvas |-> None] /\ upset = {}
  BY DEF Init
<1>2. \A s \in Source : At(s) = "over" /\ ~video[s].on
  BY <1>1 DEF At, Off
<1>3. Pooled = {}
  BY <1>1 DEF Pooled
<1>4. \A k \in Key : Holders(k) = {}
  BY <1>1, NoneIsNew DEF Holders
<1>5. TypeOK
  <2>1. Off \in [on : BOOLEAN, loaded : BOOLEAN, paused : BOOLEAN]
    BY DEF Off
  <2> QED
    BY <1>1, <2>1 DEF TypeOK
<1>6. Keyed /\ Counts /\ Unpooled
  BY <1>1, <1>4 DEF Keyed, Counts, Unpooled
<1>7. Loads /\ Sources /\ OneLoad
  BY <1>1, <1>2 DEF Loads, Sources, OneLoad, Active
<1>8. ShowsOwn /\ Playing
  BY <1>1, <1>3 DEF ShowsOwn, Playing
<1> QED
  BY <1>5, <1>6, <1>7, <1>8 DEF PoolInv

LEMMA PoolNext ==
    ASSUME PoolInv, [Next]_vars
    PROVE  PoolInv'
<1>1. CASE \E c \in Canvas, k \in Key :
            \/ \E type \in {"video", "image"} : AttachNew(c, k, type)
            \/ Attach(c, k) \/ AttachAgain(c, k)
  BY <1>1, AttachNewKeeps, AttachKeeps, AttachAgainKeeps
<1>2. CASE \E c \in Canvas : Detach(c) \/ Appear(c) \/ Disappear(c)
  BY <1>2, DetachKeeps, AppearKeeps, DisappearKeeps
<1>3. CASE (\E e \in Entry : TimerFires(e) \/ Elapse(e)) \/ Purge
  BY <1>3, TimerFiresKeeps, ElapseKeeps, PurgeKeeps
<1>4. CASE \E s \in Source :
            \/ Resolved(s) \/ ResolveFails(s) \/ Unresolved(s) \/ Retry(s)
            \/ VideoEvent(s) \/ VideoError(s) \/ ImageDone(s) \/ ImageFails(s)
  BY <1>4, ResolvedKeeps, LoadingKeeps, VideoEventKeeps, VideoErrorKeeps, ImageDoneKeeps
<1>5. CASE Render
  BY <1>5, RenderKeeps
<1>6. CASE UNCHANGED vars
  <2>1. /\ pool' = pool /\ entry' = entry /\ load' = load /\ video' = video
        /\ loop' = loop /\ recent' = recent /\ holds' = holds /\ seen' = seen
        /\ shown' = shown /\ upset' = upset
    BY <1>6 DEF vars
  <2>2. \A j : Holders(j)' = Holders(j)
    BY <2>1 DEF Holders
  <2> QED
    BY <2>1, <2>2
       DEF PoolInv, TypeOK, Keyed, Counts, Unpooled, Loads, Sources, OneLoad, Playing, At,
           Active, Orderly, ShowsOwn, Pooled
<1> QED
  BY <1>1, <1>2, <1>3, <1>4, <1>5, <1>6 DEF Next

\* The types, and how the pool, its entries, the canvases, the loadings and the
\* players belong together after every step of MediaPool.js and MediaCanvas.svelte.
THEOREM PoolInvariant == Spec => []PoolInv
BY PoolInit, PoolNext, PTL DEF Spec

\* What a canvas holds (currentKey of MediaCanvas.svelte) is in the pool, hears
\* of its media and is counted, so that the timer of release never evicts it;
\* whatever attaches, detaches, fails, is loaded again or is evicted meanwhile.
THEOREM HeldStays == Spec => []HeldIsPooled
<1>1. ASSUME PoolInv, NEW c \in Canvas, holds[c] \in Key \ Avatar
      PROVE  /\ pool[holds[c]] # None
             /\ c \in entry[pool[holds[c]]].consumers
             /\ entry[pool[holds[c]]].refs > 0
  <2>1. PICK k \in Key : k = holds[c] /\ k \notin Avatar
    BY <1>1
  <2>2. c \in Holders(k) /\ Counts
    BY <1>1, <2>1 DEF Holders, PoolInv
  <2>3. pool[k] # None
    BY <2>1, <2>2 DEF Counts
  <2>4. /\ entry[pool[k]].refs = Cardinality(Holders(k))
        /\ entry[pool[k]].consumers = Holders(k)
    BY <2>1, <2>2, <2>3 DEF Counts
  <2>5. Cardinality(Holders(k)) > 0
    BY <2>2, HoldersFinite
  <2> QED
    BY <2>1, <2>2, <2>3, <2>4, <2>5
<1>2. PoolInv => HeldIsPooled
  BY <1>1 DEF HeldIsPooled
<1> QED
  BY <1>2, PoolInvariant, PTL

\* Every player that _loadVideo has put into the document belongs to an entry
\* of the pool, which _evict or the error of the player takes out of it, as
\* long as no entry was loaded anew or evicted while it was loading.
THEOREM PlayersHaveOwners == Spec => []NoStrayPlayer
<1>1. ASSUME PoolInv, upset \intersect {"reloaded", "outlived"} = {},
             NEW s \in Source, video[s].on
      PROVE  \E e \in Pooled : entry[e].type = "video" /\ entry[e].source = s
  BY <1>1 DEF PoolInv, OneLoad, Orderly, Active
<1>2. PoolInv => NoStrayPlayer
  BY <1>1 DEF NoStrayPlayer
<1> QED
  BY <1>2, PoolInvariant, PTL

\* A canvas never shows the media of an address that it does not hold any more,
\* though a loading that it waited for comes to its end after it went to another.
THEOREM CanvasShowsOwn == Spec => []ShowsOwn
<1>1. PoolInv => ShowsOwn
  BY DEF PoolInv
<1> QED
  BY <1>1, PoolInvariant, PTL

\* A ready video that somebody sees is not paused, whichever of setVisible,
\* markReady, handleWakeup and render came last, unless it was loaded anew,
\* evicted or started again within a second.
THEOREM VisibleVideoPlays == Spec => []VisiblePlays
<1>1. PoolInv => VisiblePlays
  BY DEF PoolInv, Playing, VisiblePlays
<1> QED
  BY <1>1, PoolInvariant, PTL
=============================================================================
