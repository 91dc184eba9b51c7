----------------------------- MODULE MediaPool -----------------------------
(***************************************************************************)
(* The pool of decoded media (services/MediaPool.js) and the canvases that *)
(* show them (components/main/MediaCanvas.svelte).  Canvases with the same *)
(* address share an entry; an entry that nobody holds is evicted after a   *)
(* while; loading has several awaits, and a loading that was begun goes on *)
(* whatever becomes of its entry.                                          *)
(*                                                                         *)
(* Left out: how a picture is drawn, the search for hidden payloads, and   *)
(* players that stop of themselves.                                        *)
(***************************************************************************)
EXTENDS Naturals, FiniteSets

CONSTANTS
    Key,       \* addresses
    Avatar,    \* addresses of safe avatars, which purgeSafeAvatars drops
    Canvas,    \* consumers
    Entry,     \* bound: entries there can be
    Source,    \* bound: loadings there can be; each makes a video or a bitmap
    None

MediaEntry ==
    [key : Key, type : {"video", "image"}, status : {"loading", "ready", "error"},
     source : Source \union {None}, refs : 0..Cardinality(Canvas),
     consumers : SUBSET Canvas, visible : SUBSET Canvas, timer : BOOLEAN]

\* A call of _load: its entry, and where it is
Loading ==
    [of : Entry, at : {"resolve", "retry", "again", "video", "image", "over"}]

ASSUME Assumptions ==
    /\ Avatar \subseteq Key /\ IsFiniteSet(Canvas)
    /\ None \notin Key \union Entry \union Source
    /\ None \notin MediaEntry \union Loading

VARIABLES
    pool,      \* pool[k]: the entry of an address
    entry,     \* entry[e]: a MediaEntry
    load,      \* load[s]: a Loading
    video,     \* video[s]: the video element that the loading made
    loop,      \* isRendering
    recent,    \* entries whose lastPlayAttempt is less than a second old
    holds,     \* holds[c]: currentKey of a canvas
    seen,      \* seen[c]: is the canvas on the screen?
    shown,     \* shown[c]: the address whose picture is shown (isReady)
    upset      \* history: what the promises make an exception for

vars == <<pool, entry, load, video, loop, recent, holds, seen, shown, upset>>

NewEntry(k, type) ==
    [key |-> k, type |-> type, status |-> "loading", source |-> None,
     refs |-> 0, consumers |-> {}, visible |-> {}, timer |-> FALSE]
Off == [on |-> FALSE, loaded |-> FALSE, paused |-> TRUE]

TypeOK ==
    /\ pool \in [Key -> Entry \union {None}]
    /\ entry \in [Entry -> MediaEntry \union {None}]
    /\ load \in [Source -> Loading \union {None}]
    /\ video \in [Source -> [on : BOOLEAN, loaded : BOOLEAN, paused : BOOLEAN]]
    /\ loop \in BOOLEAN
    /\ recent \subseteq Entry
    /\ holds \in [Canvas -> Key \union {None}]
    /\ seen \in [Canvas -> BOOLEAN]
    /\ shown \in [Canvas -> Key \union {None}]
    /\ upset \subseteq {"reloaded", "outlived", "hasty"}

Init ==
    /\ pool = [k \in Key |-> None]
    /\ entry = [e \in Entry |-> None]
    /\ load = [s \in Source |-> None]
    /\ video = [s \in Source |-> Off]
    /\ loop = FALSE
    /\ recent = {}
    /\ holds = [c \in Canvas |-> None]
    /\ seen = [c \in Canvas |-> FALSE]
    /\ shown = [c \in Canvas |-> None]
    /\ upset = {}

Pooled == {pool[k] : k \in Key} \ {None}
At(s) == IF load[s] = None THEN "over" ELSE load[s].at
Of(e) == {s \in Source : load[s] # None /\ load[s].of = e}
\* A loading of e awaits something, after which it goes on.
UnderWay(e) ==
    \E s \in Of(e) : At(s) \in {"resolve", "retry", "again", "image"}

\* A visible video that plays: then frames are drawn.
Plays(e) ==
    /\ entry[e].type = "video" /\ entry[e].visible # {}
    /\ entry[e].source # None
    /\ ~video[entry[e].source].paused /\ video[entry[e].source].loaded
Running == \E e \in Pooled : Plays(e)
\* _ensureRenderLoop, which is called only in some cases
EnsureRenderLoop(called) == loop' = (loop \/ (called /\ Running'))

\* The consumers of an entry are told of its picture.
Told(e) == [c \in Canvas |-> IF c \in entry[e].consumers THEN entry[e].key
                             ELSE shown[c]]

\* Video `s' of entry e is wanted: it plays, unless it was tried just now.
Play(e, s) ==
    IF video[s].paused /\ e \notin recent
    THEN /\ video' = [video EXCEPT ![s].paused = FALSE]
         /\ recent' = recent \union {e}
    ELSE UNCHANGED <<video, recent>>
Hasty(e, s) == IF video[s].paused /\ e \in recent THEN {"hasty"} ELSE {}

-----------------------------------------------------------------------------
(* Consumers *)

\* Mutant of Counted: only the first canvas counts.
CountedOnce(r, c) ==
    [r EXCEPT !.refs = 1, !.consumers = @ \union {c},
              !.visible = IF seen[c] THEN @ \union {c} ELSE @]

\* The entry with one more consumer, which may be on the screen.
Counted(r, c) ==
    [r EXCEPT !.refs = @ + 1, !.consumers = @ \union {c},
              !.visible = IF seen[c] THEN @ \union {c} ELSE @]

\* attachMedia to an address that is not in the pool: acquire begins to load.
AttachNew(c, k, type) ==
    /\ holds[c] = None /\ pool[k] = None
    /\ holds' = [holds EXCEPT ![c] = k]
    /\ \E e \in Entry, s \in Source :
        /\ entry[e] = None /\ load[s] = None
        /\ pool' = [pool EXCEPT ![k] = e]
        /\ entry' = [entry EXCEPT ![e] = Counted(NewEntry(k, type), c)]
        /\ load' = [load EXCEPT ![s] = [of |-> e, at |-> "resolve"]]
    /\ UNCHANGED <<video, recent, seen, shown, upset>>
    /\ EnsureRenderLoop(seen[c] /\ type = "video")

\* acquire of an entry that is there, and setVisible.
Attach(c, k) ==
    LET e == pool[k]
        r == [Counted(entry[e], c) EXCEPT !.timer = FALSE] IN
    /\ holds[c] = None /\ e # None
    /\ holds' = [holds EXCEPT ![c] = k]
    /\ entry[e].status # "error"
    /\ entry' = [entry EXCEPT ![e] = r]
    /\ shown' = [shown EXCEPT ![c] = IF r.status = "ready" THEN k ELSE @]
    /\ IF seen[c] /\ r.type = "video" /\ r.source # None
       THEN /\ Play(e, r.source)
            /\ upset' = upset \union Hasty(e, r.source)
       ELSE UNCHANGED <<video, recent, upset>>
    /\ UNCHANGED <<pool, load, seen>>
    /\ EnsureRenderLoop(seen[c] /\ r.type = "video")

\* The same after an error, or more than six seconds after loading began: the
\* entry is loaded anew, whether or not the first loading is over.
AttachAgain(c, k) ==
    LET e == pool[k] IN
    /\ holds[c] = None /\ e # None
    /\ entry[e].status \in {"error", "loading"}
    /\ holds' = [holds EXCEPT ![c] = k]
    /\ entry' = [entry EXCEPT
            ![e] = [Counted(@, c) EXCEPT !.timer = FALSE, !.status = "loading"]]
    /\ \E s \in Source :
        /\ load[s] = None
        /\ load' = [load EXCEPT ![s] = [of |-> e, at |-> "resolve"]]
    /\ IF seen[c] /\ entry[e].type = "video" /\ entry[e].source # None
       THEN Play(e, entry[e].source)
       ELSE UNCHANGED <<video, recent>>
    /\ upset' = upset \union
            (IF \/ UnderWay(e)
                \/ \E s \in Of(e) : video[s].on
             THEN {"reloaded"} ELSE {}) \union
            (IF seen[c] /\ entry[e].type = "video" /\ entry[e].source # None
             THEN Hasty(e, entry[e].source) ELSE {})
    /\ UNCHANGED <<pool, seen, shown>>
    /\ EnsureRenderLoop(seen[c] /\ entry[e].type = "video")

\* Mutant of PauseUnseen: others may still see it.
PauseAnyway(e, r) ==
    video' = IF r.type = "video" /\ r.source # None
             THEN [video EXCEPT ![r.source].paused = TRUE] ELSE video

\* A video that nobody sees any more is paused.
PauseUnseen(e, r) ==
    video' = IF r.visible = {} /\ r.type = "video" /\ r.source # None
             THEN [video EXCEPT ![r.source].paused = TRUE] ELSE video

\* Mutant of Without: it still hears of the entry.
WithoutSight(r, c) == [r EXCEPT !.visible = @ \ {c}]

\* The entry without a consumer.
Without(r, c) == [r EXCEPT !.consumers = @ \ {c}, !.visible = @ \ {c}]

Less(n) == IF n > 0 THEN n - 1 ELSE 0

\* detachMedia: release.  The last one starts the timer of 30 seconds.
Detach(c) ==
    LET e == pool[holds[c]] IN
    /\ holds[c] # None
    /\ holds' = [holds EXCEPT ![c] = None]
    /\ shown' = [shown EXCEPT ![c] = None]
    /\ IF e = None THEN UNCHANGED <<entry, video>>
       ELSE LET left == Less(entry[e].refs)
                r == [Without(entry[e], c) EXCEPT
                        !.refs = left, !.timer = (@ \/ left = 0)] IN
            /\ entry' = [entry EXCEPT ![e] = r]
            /\ PauseUnseen(e, r)
    /\ UNCHANGED <<pool, load, loop, recent, seen, upset>>

\* The canvas comes onto the screen: setVisible of what it holds.
Appear(c) ==
    /\ ~seen[c]
    /\ seen' = [seen EXCEPT ![c] = TRUE]
    /\ IF holds[c] # None /\ pool[holds[c]] # None
       THEN LET e == pool[holds[c]]
                s == entry[e].source IN
            /\ entry' = [entry EXCEPT ![e].visible = @ \union {c}]
            /\ IF entry[e].type = "video" /\ s # None
               THEN /\ Play(e, s)
                    /\ upset' = upset \union Hasty(e, s)
                    /\ shown' = IF entry[e].status = "ready" /\ video[s].loaded
                                THEN [shown EXCEPT ![c] = entry[e].key]
                                ELSE shown
               ELSE UNCHANGED <<video, recent, upset, shown>>
            /\ UNCHANGED pool
            /\ EnsureRenderLoop(entry[e].type = "video")
       ELSE UNCHANGED <<pool, entry, video, recent, upset, shown, loop>>
    /\ UNCHANGED <<load, holds>>

Disappear(c) ==
    /\ seen[c]
    /\ seen' = [seen EXCEPT ![c] = FALSE]
    /\ IF holds[c] # None /\ pool[holds[c]] # None
       THEN LET e == pool[holds[c]]
                r == [entry[e] EXCEPT !.visible = @ \ {c}] IN
            /\ entry' = [entry EXCEPT ![e] = r]
            /\ PauseUnseen(e, r)
       ELSE UNCHANGED <<entry, video>>
    /\ UNCHANGED <<pool, load, loop, recent, holds, shown, upset>>

-----------------------------------------------------------------------------
(* Eviction *)

\* Mutant of Evict: the player goes on.
EvictSilently(es) ==
    /\ pool' = [k \in Key |-> IF pool[k] \in es THEN None ELSE pool[k]]
    /\ entry' = [e \in Entry |->
            IF e \in es THEN [entry[e] EXCEPT !.source = None, !.refs = 0]
            ELSE entry[e]]
    /\ upset' = IF \E e \in es : UnderWay(e) THEN upset \union {"outlived"}
                ELSE upset
    /\ UNCHANGED video

\* _evict of the entries es, which nobody counts any more.
Evict(es) ==
    /\ pool' = [k \in Key |-> IF pool[k] \in es THEN None ELSE pool[k]]
    /\ entry' = [e \in Entry |->
            IF e \in es THEN [entry[e] EXCEPT !.source = None, !.refs = 0]
            ELSE entry[e]]
    /\ video' = [s \in Source |->
            IF \E e \in es : entry[e].type = "video" /\ entry[e].source = s
            THEN Off ELSE video[s]]
    /\ upset' = IF \E e \in es : UnderWay(e) THEN upset \union {"outlived"}
                ELSE upset

\* The timer of entry e evicts what its address has now.
TimerFires(e) ==
    LET now == pool[entry[e].key] IN
    /\ entry[e] # None /\ entry[e].timer
    /\ IF now # None /\ entry[now].refs = 0
       THEN Evict({now})
       ELSE UNCHANGED <<pool, entry, video, upset>>
    /\ UNCHANGED <<load, loop, recent, holds, seen, shown>>

\* purgeSafeAvatars, whoever holds them
Purge ==
    LET es == {pool[k] : k \in Avatar} \ {None} IN
    /\ es # {}
    /\ Evict(es)
    /\ UNCHANGED <<load, loop, recent, holds, seen, shown>>

-----------------------------------------------------------------------------
(* Loading *)

Goes(s, at) == load' = [load EXCEPT ![s].at = at]

\* _handleError
HandleError(s) ==
    LET e == load[s].of IN
    /\ Goes(s, "over")
    /\ entry' = [entry EXCEPT ![e].status = "error"]
    /\ shown' = [c \in Canvas |->
            IF c \in entry[e].consumers THEN None ELSE shown[c]]
    /\ UNCHANGED <<pool, video, loop, recent, holds, seen, upset>>

\* The address is known: _loadVideo, which makes a player and starts it, or
\* _loadImage.
Begin(s) ==
    LET e == load[s].of IN
    /\ IF entry[e].type = "video"
       THEN /\ Goes(s, "video")
            /\ entry' = [entry EXCEPT ![e].source = s]
            /\ video' = [video EXCEPT ![s] =
                    [on |-> TRUE, loaded |-> FALSE, paused |-> FALSE]]
       ELSE /\ Goes(s, "image")
            /\ UNCHANGED <<entry, video>>
    /\ UNCHANGED <<pool, loop, recent, holds, seen, shown, upset>>

Resolved(s) == At(s) \in {"resolve", "again"} /\ Begin(s)
ResolveFails(s) == At(s) \in {"resolve", "again"} /\ HandleError(s)

\* There is no file yet, and the loading tries again in 400 ms ...
Unresolved(s) ==
    /\ At(s) = "resolve"
    /\ Goes(s, "retry")
    /\ UNCHANGED <<pool, entry, video, loop, recent, holds, seen, shown, upset>>

\* ... if the entry still loads.
Retry(s) ==
    /\ At(s) = "retry"
    /\ Goes(s, IF entry[load[s].of].status = "loading" THEN "again" ELSE "over")
    /\ UNCHANGED <<pool, entry, video, loop, recent, holds, seen, shown, upset>>

\* The player has data, or time goes on in it: markReady, handleWakeup.
VideoEvent(s) ==
    LET e == load[s].of
        wanted == entry[e].visible # {} IN
    /\ At(s) = "video" /\ video[s].on
    /\ entry' = [entry EXCEPT ![e].status = "ready"]
    /\ shown' = IF entry[e].status # "ready" THEN Told(e) ELSE shown
    /\ LET plays == wanted /\ video[s].paused /\ e \notin recent IN
       /\ video' = [video EXCEPT ![s].loaded = TRUE,
                                 ![s].paused = (@ /\ ~plays)]
       /\ recent' = IF plays THEN recent \union {e} ELSE recent
       /\ upset' = IF wanted THEN upset \union Hasty(e, s) ELSE upset
    /\ UNCHANGED <<pool, load, holds, seen>>
    /\ EnsureRenderLoop(wanted)

\* It cannot be played: the entry is one of an image from now on.
VideoError(s) ==
    /\ At(s) = "video" /\ video[s].on
    /\ Goes(s, "image")
    /\ video' = [video EXCEPT ![s] = Off]
    /\ entry' = [entry EXCEPT ![load[s].of].type = "image"]
    /\ UNCHANGED <<pool, loop, recent, holds, seen, shown, upset>>

\* The bitmap is there.
ImageDone(s) ==
    LET e == load[s].of IN
    /\ At(s) = "image"
    /\ Goes(s, "over")
    /\ entry' = [entry EXCEPT ![e].source = s, ![e].status = "ready"]
    /\ shown' = Told(e)
    /\ UNCHANGED <<pool, video, loop, recent, holds, seen, upset>>

ImageFails(s) == At(s) = "image" /\ HandleError(s)

-----------------------------------------------------------------------------
(* Rendering *)

\* render: one frame of every visible video, which is marked as ready if no
\* event has done so; players that are paused are started.
Render ==
    LET here == {e \in Pooled : /\ entry[e].type = "video"
                                /\ entry[e].visible # {}
                                /\ entry[e].source # None
                                /\ \/ entry[e].status = "ready"
                                   \/ video[entry[e].source].loaded}
        made == {e \in here : entry[e].status # "ready"}
        started == {e \in here \ recent : video[entry[e].source].paused}
        hears(c) == {e \in here : \/ Plays(e) /\ c \in entry[e].visible
                                  \/ e \in made /\ c \in entry[e].consumers} IN
    /\ loop
    /\ entry' = [e \in Entry |->
            IF e \in made THEN [entry[e] EXCEPT !.status = "ready"] ELSE entry[e]]
    /\ video' = [s \in Source |->
            IF \E e \in started : entry[e].source = s
            THEN [video[s] EXCEPT !.paused = FALSE] ELSE video[s]]
    /\ recent' = recent \union started
    /\ shown' = [c \in Canvas |->
            IF hears(c) # {} THEN entry[CHOOSE e \in hears(c) : TRUE].key
            ELSE shown[c]]
    /\ loop' = \E e \in here : Plays(e)
    /\ UNCHANGED <<pool, load, holds, seen, upset>>

\* A second has passed since the player of e was started.
Elapse(e) ==
    /\ e \in recent
    /\ recent' = recent \ {e}
    /\ UNCHANGED <<pool, entry, load, video, loop, holds, seen, shown, upset>>

-----------------------------------------------------------------------------

Next ==
    \/ \E c \in Canvas, k \in Key :
        \/ \E type \in {"video", "image"} : AttachNew(c, k, type)
        \/ Attach(c, k) \/ AttachAgain(c, k)
    \/ \E c \in Canvas : Detach(c) \/ Appear(c) \/ Disappear(c)
    \/ \E e \in Entry : TimerFires(e) \/ Elapse(e)
    \/ Purge
    \/ \E s \in Source :
        \/ Resolved(s) \/ ResolveFails(s) \/ Unresolved(s) \/ Retry(s)
        \/ VideoEvent(s) \/ VideoError(s) \/ ImageDone(s) \/ ImageFails(s)
    \/ Render

Spec == Init /\ [][Next]_vars

-----------------------------------------------------------------------------
(* Properties *)

\* What a canvas holds is in the pool and knows of it, so that no timer evicts
\* it (safe avatars, which are purged, aside).
HeldIsPooled ==
    \A c \in Canvas :
        holds[c] \in Key \ Avatar =>
            /\ pool[holds[c]] # None
            /\ c \in entry[pool[holds[c]]].consumers
            /\ entry[pool[holds[c]]].refs > 0

\* Every player in the document is the source of an entry of the pool, which
\* will stop it; unless an entry was loaded anew while it was loading, or
\* evicted while it was loading.
NoStrayPlayer ==
    upset \intersect {"reloaded", "outlived"} = {} =>
        \A s \in Source :
            video[s].on => \E e \in Pooled : entry[e].type = "video"
                                             /\ entry[e].source = s

\* A canvas shows the media of the address it holds, unless a loading has
\* outlived its entry, or two made players for one entry.
ShowsOwn ==
    upset \intersect {"reloaded", "outlived"} = {} =>
        \A c \in Canvas : shown[c] \in {None, holds[c]}

\* A visible video plays, unless it came back less than a second after it was
\* last started.
VisiblePlays ==
    \A e \in Pooled :
        /\ upset = {}
        /\ entry[e].type = "video" /\ entry[e].status = "ready"
        /\ entry[e].visible # {}
        => ~video[entry[e].source].paused
=============================================================================
