------------------------- MODULE MessageStoreProofs -------------------------
(***************************************************************************)
(* No chunk outgrows its limit, however commands, flushes, clears and      *)
(* restarts interleave; the messages of a day on which commands did not    *)
(* overlap are kept as they were stored; and a load that nothing disturbs  *)
(* answers with the newest of them.  TLC checks all three for small        *)
(* instances, the theorems are for all.                                    *)
(***************************************************************************)
EXTENDS MessageStore, FiniteSetTheorems, SequenceTheorems, TLAPS

-----------------------------------------------------------------------------
(* Choices from finite ordered sets *)

\* A set of numbers has a least one.
LEMMA LeastExists ==
    ASSUME NEW S, S \subseteq Nat, S # {}
    PROVE  \E m \in S : \A x \in S : m <= x
<1> DEFINE less == {pair \in Nat \X Nat : pair[1] < pair[2]}
<1>1. IsWellFoundedOn(less, Nat)
  BY NatLessThanWellFounded DEF OpToRel
<1> HIDE DEF less
<1>2. PICK m \in S : \A x \in S : ~(<<x, m>> \in less)
  BY <1>1, WFMin
<1>3. \A x \in S : ~(x < m)
  BY <1>2 DEF less
<1> QED
  BY <1>3

\* The message that a command looks for is one of those it is about.
LEMMA SoughtIsThere ==
    ASSUME NEW j, DOMAIN j.todo \subseteq Message, DOMAIN j.todo # {}
    PROVE  Sought(j) \in DOMAIN j.todo
<1>1. \E m \in DOMAIN j.todo : \A x \in DOMAIN j.todo : m <= x
  BY Assumptions, LeastExists DEF Assumptions
<1> QED
  BY <1>1 DEF Sought

\* There are finitely many files.
LEMMA FilesFinite == IsFiniteSet(File)
<1>1. IsFiniteSet(Day)
  <2> DEFINE day == [m \in Message |-> DayOf(m)]
  <2>1. day \in Surjection(Message, Day)
    BY DEF Surjection, Day
  <2> QED
    BY <2>1, Assumptions, FS_Surjection DEF Assumptions
<1>2. IsFiniteSet(0..MaxIndex)
  BY Assumptions, FS_Interval DEF Assumptions
<1> QED
  BY <1>1, <1>2, FS_Product DEF File

\* Their names are ordered.
LEMMA BeforeIsOrder ==
    ASSUME NEW f \in File, NEW g \in File
    PROVE  /\ f # g => Before(f, g) \/ Before(g, f)
           /\ ~Before(f, f)
           /\ \A h \in File : Before(f, g) /\ Before(g, h) => Before(f, h)
<1>1. \A h \in File : h[1] \in Nat /\ h[2] \in Nat
  BY Assumptions DEF Assumptions, File, Day
<1>2. f # g => f[1] # g[1] \/ f[2] # g[2]
  BY DEF File
<1> QED
  BY <1>1, <1>2 DEF Before

\* Latest and Earliest choose among the files they are given.
LEMMA LatestIsThere ==
    ASSUME NEW S, S \subseteq File, S # {}
    PROVE  Latest(S) \in S /\ \A g \in S \ {Latest(S)} : Before(g, Latest(S))
<1> DEFINE after(f) == {g \in S : Before(f, g)}
<1>1. \A T : T \subseteq S => IsFiniteSet(T) /\ Cardinality(T) \in Nat
  BY FilesFinite, FS_Subset, FS_CardinalityType
<1>2. PICK f \in S : \A g \in S : Cardinality(after(f)) <= Cardinality(after(g))
  <2> DEFINE counts == {Cardinality(after(g)) : g \in S}
  <2>1. counts \subseteq Nat /\ counts # {}
    BY <1>1
  <2>2. PICK n \in counts : \A k \in counts : n <= k
    BY <2>1, LeastExists
  <2> QED
    BY <2>2
<1>3. ASSUME NEW g \in S \ {f} PROVE Before(g, f)
  <2> SUFFICES ASSUME Before(f, g) PROVE FALSE
    BY BeforeIsOrder
  <2>1. after(g) \union {g} \subseteq after(f) /\ g \notin after(g)
    BY BeforeIsOrder
  <2>2. Cardinality(after(g)) + 1 <= Cardinality(after(f))
    <3>1. Cardinality(after(g) \union {g}) = Cardinality(after(g)) + 1
      BY <1>1, <2>1, FS_AddElement
    <3>2. Cardinality(after(g) \union {g}) <= Cardinality(after(f))
      BY <1>1, <2>1, FS_Subset
    <3> QED
      BY <3>1, <3>2
  <2> QED
    BY <1>1, <1>2, <2>2
<1> QED
  BY <1>3 DEF Latest

LEMMA EarliestIsThere ==
    ASSUME NEW S, S \subseteq File, S # {}
    PROVE  Earliest(S) \in S
<1> DEFINE prior(f) == {g \in S : Before(g, f)}
<1>1. \A T : T \subseteq S => IsFiniteSet(T) /\ Cardinality(T) \in Nat
  BY FilesFinite, FS_Subset, FS_CardinalityType
<1>2. PICK f \in S : \A g \in S : Cardinality(prior(f)) <= Cardinality(prior(g))
  <2> DEFINE counts == {Cardinality(prior(g)) : g \in S}
  <2>1. counts \subseteq Nat /\ counts # {}
    BY <1>1
  <2>2. PICK n \in counts : \A k \in counts : n <= k
    BY <2>1, LeastExists
  <2> QED
    BY <2>2
<1>3. ASSUME NEW g \in S \ {f} PROVE Before(f, g)
  <2> SUFFICES ASSUME Before(g, f) PROVE FALSE
    BY BeforeIsOrder
  <2>1. prior(g) \union {g} \subseteq prior(f) /\ g \notin prior(g)
    BY BeforeIsOrder
  <2>2. Cardinality(prior(g)) + 1 <= Cardinality(prior(f))
    <3>1. Cardinality(prior(g) \union {g}) = Cardinality(prior(g)) + 1
      BY <1>1, <2>1, FS_AddElement
    <3>2. Cardinality(prior(g) \union {g}) <= Cardinality(prior(f))
      BY <1>1, <2>1, FS_Subset
    <3> QED
      BY <3>1, <3>2
  <2> QED
    BY <1>1, <1>2, <2>2
<1> QED
  BY <1>3 DEF Earliest

-----------------------------------------------------------------------------
(* The sizes of contents *)

Fits(c) == IsFiniteSet(DOMAIN c) /\ Cardinality(DOMAIN c) <= Limit

LEMMA NothingIsNotNone == Nothing # None
<1>1. {} \in SUBSET Message /\ Nothing \in [{} -> BOOLEAN]
  BY DEF Nothing
<1>2. Nothing \in Content
  BY <1>1 DEF Content
<1> QED
  BY <1>2, NoneIsNoContent

LEMMA NothingFits == Fits(Nothing)
<1>1. DOMAIN Nothing = {}
  BY DEF Nothing
<1> QED
  BY <1>1, Assumptions, FS_EmptySet DEF Fits, Assumptions

\* The n oldest messages are at most n.
LEMMA OldestAreFew ==
    ASSUME NEW c, DOMAIN c \subseteq Message, NEW n \in Nat
    PROVE  /\ IsFiniteSet(DOMAIN Oldest(c, n))
           /\ Cardinality(DOMAIN Oldest(c, n)) \in 0..n
<1> DEFINE older(m) == {x \in DOMAIN c : x < m}
           rank(m) == Cardinality(older(m))
           S == {m \in DOMAIN c : rank(m) < n}
           place == [m \in S |-> rank(m)]
<1>1. DOMAIN Oldest(c, n) = S
  BY DEF Oldest, Restrict
<1>2. \A T : T \subseteq DOMAIN c => IsFiniteSet(T) /\ Cardinality(T) \in Nat
  BY Assumptions, FS_Subset, FS_CardinalityType DEF Assumptions
<1>3. ASSUME NEW m \in S, NEW k \in S, m < k PROVE rank(m) < rank(k)
  <2>0. m \in Nat /\ k \in Nat /\ DOMAIN c \subseteq Nat
    BY Assumptions DEF Assumptions
  <2>1. older(m) \union {m} \subseteq older(k) /\ m \notin older(m)
    BY <1>3, <2>0
  <2>2. Cardinality(older(m) \union {m}) = rank(m) + 1
    BY <1>2, <2>1, FS_AddElement
  <2>3. Cardinality(older(m) \union {m}) <= rank(k)
    BY <1>2, <2>1, FS_Subset
  <2> QED
    BY <1>2, <2>2, <2>3
<1>4. place \in Injection(S, 0..(n - 1))
  <2>1. place \in [S -> 0..(n - 1)]
    BY <1>2
  <2>2. ASSUME NEW m \in S, NEW k \in S, place[m] = place[k] PROVE m = k
    <3>1. m \in Nat /\ k \in Nat
      BY Assumptions DEF Assumptions
    <3>2. rank(m) = rank(k) /\ rank(m) \in Nat
      BY <1>2, <2>2
    <3> QED
      BY <1>3, <3>1, <3>2
  <2> QED
    BY <2>1, <2>2 DEF Injection, IsInjective
<1>5. IsFiniteSet(0..(n - 1)) /\ Cardinality(0..(n - 1)) = n
  BY FS_Interval
<1>6. Cardinality(S) <= n
  BY <1>4, <1>5, FS_Injection
<1>7. S \subseteq DOMAIN c
  OBVIOUS
<1> HIDE DEF S
<1>8. IsFiniteSet(S) /\ Cardinality(S) \in Nat
  BY <1>2, <1>7
<1> QED
  BY <1>1, <1>6, <1>8

\* What is filled up with at most as many as there is room for still fits.
LEMMA MergedFits ==
    ASSUME NEW c, Fits(c), NEW some, IsFiniteSet(DOMAIN some),
           Cardinality(DOMAIN some) <= Limit - Cardinality(DOMAIN c)
    PROVE  Fits(Merged(c, some))
<1> DEFINE A == DOMAIN c  B == DOMAIN some
<1>1. DOMAIN Merged(c, some) = A \union B
  BY DEF Merged
<1>2. IsFiniteSet(A) /\ IsFiniteSet(A \intersect B)
  BY FS_Intersection DEF Fits
<1>3. /\ Cardinality(A) \in Nat /\ Cardinality(B) \in Nat
      /\ Cardinality(A \intersect B) \in Nat
  BY <1>2, FS_CardinalityType
<1>4. /\ IsFiniteSet(A \union B)
      /\ Cardinality(A \union B)
            = Cardinality(A) + Cardinality(B) - Cardinality(A \intersect B)
  BY <1>2, FS_Union
<1> QED
  BY <1>1, <1>3, <1>4, Assumptions DEF Fits, Assumptions

-----------------------------------------------------------------------------
(* The invariant: what a command holds is such that what it saves will fit. *)

Reader(j) == "op" \in DOMAIN j /\ j.op = "load"

Writer(j) ==
    /\ {"at", "op", "todo", "own", "files", "others", "file", "data", "left"}
            \subseteq DOMAIN j
    /\ j.op # "load"
    /\ j.own \subseteq File /\ j.files \subseteq File
    /\ DOMAIN j.todo \subseteq Message /\ DOMAIN j.left \subseteq Message
    /\ j.at = "scan" => DOMAIN j.todo # {}
    /\ j.at = "save" => /\ Fits(j.data) /\ DOMAIN j.todo # {}
                        /\ Sought(j) \in DOMAIN j.data
    /\ j.at = "fill" => Fits(j.data) /\ Room(j.data) > 0

Command(j) == j = Idle \/ Reader(j) \/ Writer(j)

FileFits(f) == \A c \in {disk[f], flying[f], pending[f]} \ {None} : Fits(c)

ChunkInv ==
    /\ DOMAIN disk = File /\ DOMAIN flying = File /\ DOMAIN pending = File
    /\ DOMAIN thread = Thread
    /\ \A f \in File : FileFits(f)
    /\ \A t \in Thread : Command(thread[t])

LEMMA InitFits == Init => ChunkInv
<1> SUFFICES ASSUME Init PROVE ChunkInv
  OBVIOUS
<1>1. \A f \in File : FileFits(f)
  BY DEF Init, FileFits
<1>2. \A t \in Thread : Command(thread[t])
  BY DEF Init, Command
<1> QED
  BY <1>1, <1>2 DEF Init, ChunkInv

\* Whatever a load finds fits.
LEMMA LoadsFit ==
    ASSUME ChunkInv, NEW f \in File
    PROVE  Fits(Loaded(f))
<1>1. FileFits(f)
  BY DEF ChunkInv
<1> QED
  BY <1>1, NothingFits DEF Loaded, FileFits

\* A step of one command that leaves the files alone
LEMMA SetKeeps ==
    ASSUME ChunkInv, NEW t \in Thread, NEW j, Command(j), Set(t, j),
           UNCHANGED files
    PROVE  ChunkInv'
<1>1. DOMAIN thread' = Thread /\ \A u \in Thread : thread'[u] = IF u = t THEN j ELSE thread[u]
  BY DEF Set, ChunkInv
<1>2. \A u \in Thread : Command(thread'[u])
  BY <1>1 DEF ChunkInv
<1>3. \A f \in File : FileFits(f)'
  BY DEF ChunkInv, FileFits, files
<1> QED
  BY <1>1, <1>2, <1>3 DEF ChunkInv, files

\* A step of one command that saves contents that fit
LEMMA PendKeeps ==
    ASSUME ChunkInv, NEW t \in Thread, NEW j, Command(j), Set(t, j),
           NEW f, NEW c, Fits(c), Pend(f, c), UNCHANGED <<disk, flying>>
    PROVE  ChunkInv'
<1>1. DOMAIN thread' = Thread /\ \A u \in Thread : thread'[u] = IF u = t THEN j ELSE thread[u]
  BY DEF Set, ChunkInv
<1>2. \A u \in Thread : Command(thread'[u])
  BY <1>1 DEF ChunkInv
<1>3. DOMAIN pending' = File /\ \A g \in File : pending'[g] = IF g = f THEN c ELSE pending[g]
  BY DEF Pend, ChunkInv
<1>4. \A g \in File : FileFits(g)'
  BY <1>3 DEF ChunkInv, FileFits
<1> QED
  BY <1>1, <1>2, <1>3, <1>4 DEF ChunkInv

LEMMA WriterIs ==
    ASSUME ChunkInv, NEW t \in Thread, Writes(thread[t])
    PROVE  Writer(thread[t])
BY DEF ChunkInv, Writes, Command, Reader

LEMMA ReaderIs ==
    ASSUME ChunkInv, NEW t \in Thread, thread[t] # Idle, thread[t].op = "load"
    PROVE  Reader(thread[t])
BY DEF ChunkInv, Command, Writer

\* Whom Sought looks for depends on what is left to do.
LEMMA SameSought ==
    ASSUME NEW j, NEW k, j.todo = k.todo
    PROVE  Sought(j) = Sought(k)
BY DEF Sought

\* A command that begins, and those that it disturbs
LEMMA BeginKeeps ==
    ASSUME ChunkInv, NEW t \in Thread, NEW op, op # "load",
           NEW asked, DOMAIN asked \subseteq Message, DOMAIN asked # {},
           NEW own, own \subseteq File, Begin(t, op, asked, own)
    PROVE  ChunkInv'
<1> DEFINE begun1 == [at |-> "scan", op |-> op, asked |-> asked, todo |-> asked,
                  own |-> own, files |-> own, others |-> FALSE,
                  file |-> <<DayOf(CHOOSE m \in DOMAIN asked : TRUE), 0>>,
                  data |-> Nothing, left |-> Nothing]
<1>1. Writer(begun1)
  BY DEF Writer, Nothing
<1>2. DOMAIN thread' = Thread
  BY DEF Begin
<1>3. ASSUME NEW u \in Thread PROVE Command(thread'[u])
  <2>1. CASE u = t
    <3>1. thread'[u] = begun1
      BY <2>1 DEF Begin
    <3> QED
      BY <1>1, <3>1 DEF Command
  <2>2. CASE u # t /\ thread[u] # Idle /\ thread[u].op = "load"
    <3>1. thread'[u] = [thread[u] EXCEPT !.calm = FALSE]
      BY <2>2 DEF Begin
    <3>2. Reader(thread[u])
      BY <2>2, ReaderIs
    <3> QED
      BY <3>1, <3>2 DEF Reader, Command
  <2>3. CASE u # t /\ ~(thread[u] # Idle /\ thread[u].op = "load")
    <3>1. thread'[u] = thread[u]
      BY <2>3 DEF Begin
    <3> QED
      BY <3>1 DEF ChunkInv
  <2> QED
    BY <2>1, <2>2, <2>3
<1>4. \A f \in File : FileFits(f)'
  BY DEF Begin, ChunkInv, FileFits, files
<1> QED
  BY <1>2, <1>3, <1>4 DEF ChunkInv, Begin, files

\* A command that has dealt with a message is a command still.
LEMMA DealtKeeps ==
    ASSUME NEW j, Writer(j), j.at \in {"scan", "save"},
           NEW left, DOMAIN left \subseteq Message
    PROVE  Writer(Dealt(j, left))
<1> DEFINE todo == Without(j.todo, Sought(j))
<1>1. DOMAIN todo \subseteq Message
  BY DEF Writer, Without, Restrict
<1>2. DOMAIN todo = {} => todo = Nothing
  BY DEF Without, Restrict, Nothing
<1> HIDE DEF todo
<1>3. CASE todo # Nothing
  <2>1. Dealt(j, left) = [j EXCEPT !.todo = todo, !.files = j.own,
                          !.others = FALSE, !.left = left, !.at = "scan"]
    BY <1>3 DEF Dealt, todo
  <2> QED
    BY <1>1, <1>2, <1>3, <2>1 DEF Writer
<1>4. CASE todo = Nothing
  <2>1. Dealt(j, left) = [j EXCEPT !.todo = todo, !.left = left, !.at = "append"]
    BY <1>4 DEF Dealt, todo
  <2> QED
    BY <1>1, <2>1 DEF Writer
<1> QED
  BY <1>3, <1>4

\* What is left once some are placed
LEMMA PlacedIs ==
    ASSUME ChunkInv, NEW t \in Thread, Writes(thread[t]), NEW some, Placed(t, some)
    PROVE  \E k : Command(k) /\ Set(t, k)
<1> DEFINE j == thread[t]
           left == Restrict(j.left, DOMAIN j.left \ DOMAIN some)
           k == [j EXCEPT !.at = "chunk", !.left = left, !.file = NextName(j.file)]
<1>1. Writer(j)
  BY WriterIs
<1>2. DOMAIN left \subseteq Message
  BY <1>1 DEF Writer, Restrict
<1>3. CASE left = Nothing
  BY <1>3 DEF Placed, Done, Command
<1>4. CASE left # Nothing
  <2>1. Set(t, k)
    BY <1>4 DEF Placed
  <2> HIDE DEF left
  <2>2. Writer(k)
    BY <1>1, <1>2 DEF Writer
  <2> QED
    BY <2>1, <2>2 DEF Command
<1> QED
  BY <1>3, <1>4

-----------------------------------------------------------------------------
(* The steps *)

LEMMA ScanKeeps ==
    ASSUME ChunkInv, NEW t \in Thread, Scan(t)
    PROVE  ChunkInv'
<1> DEFINE j == thread[t]
           f == IF j.others THEN Earliest(j.files) ELSE Latest(j.files)
<1>1. Writer(j) /\ j.at = "scan" /\ j.files # {}
  BY WriterIs DEF Scan
<1>2. f \in File
  BY <1>1, LatestIsThere, EarliestIsThere DEF Writer
<1>3. PICK c : c = Loaded(f) /\
        Set(t, IF Sought(j) \in DOMAIN c
               THEN [j EXCEPT !.at = "save", !.file = f, !.data = c]
               ELSE [j EXCEPT !.files = @ \ {f}])
  BY DEF Scan
<1>4. Fits(c)
  BY <1>2, <1>3, LoadsFit
<1> HIDE DEF f
<1>5. CASE Sought(j) \in DOMAIN c
  <2> DEFINE k == [j EXCEPT !.at = "save", !.file = f, !.data = c]
  <2>1. k.todo = j.todo /\ k.data = c
    BY <1>1 DEF Writer
  <2>2. Sought(k) \in DOMAIN k.data
    BY <1>5, <2>1, SameSought
  <2>3. Writer(k)
    BY <1>1, <1>4, <2>2 DEF Writer
  <2> QED
    BY <1>3, <1>5, <2>3, SetKeeps DEF Scan, Command
<1>6. CASE Sought(j) \notin DOMAIN c
  <2> DEFINE k == [j EXCEPT !.files = @ \ {f}]
  <2>1. Writer(k)
    BY <1>1 DEF Writer
  <2> QED
    BY <1>3, <1>6, <2>1, SetKeeps DEF Scan, Command
<1> QED
  BY <1>5, <1>6

LEMMA SaveKeeps ==
    ASSUME ChunkInv, NEW t \in Thread, Save(t)
    PROVE  ChunkInv'
<1> DEFINE j == thread[t]
<1>1. Writer(j) /\ j.at = "save"
  BY WriterIs DEF Save
<1>2. Fits(Changed(j))
  <2>1. Fits(j.data) /\ Sought(j) \in DOMAIN j.data
    BY <1>1 DEF Writer
  <2>2. DOMAIN Changed(j) \subseteq DOMAIN j.data
    BY <2>1 DEF Changed, Without, Merged, Restrict
  <2> QED
    <3>1. /\ IsFiniteSet(DOMAIN Changed(j))
          /\ Cardinality(DOMAIN Changed(j)) <= Cardinality(DOMAIN j.data)
      BY <2>1, <2>2, FS_Subset DEF Fits
    <3>2. /\ Cardinality(DOMAIN Changed(j)) \in Nat
          /\ Cardinality(DOMAIN j.data) \in Nat
      BY <2>1, <3>1, FS_CardinalityType DEF Fits
    <3> QED
      BY <2>1, <3>1, <3>2, Assumptions DEF Fits, Assumptions
<1>3. \E k : Command(k) /\ Set(t, k)
  <2>1. CASE j.op = "update"
    <3>1. Writer(Dealt(j, j.left))
      BY <1>1, DealtKeeps DEF Writer
    <3> QED
      BY <2>1, <3>1 DEF Save, Command
  <2>2. CASE j.op # "update"
    BY <2>2 DEF Save, Done, Command
  <2> QED
    BY <2>1, <2>2
<1>4. Pend(j.file, Changed(j)) /\ UNCHANGED <<disk, flying>>
  BY DEF Save
<1> QED
  BY <1>2, <1>3, <1>4, PendKeeps

LEMMA MissingKeeps ==
    ASSUME ChunkInv, NEW t \in Thread, Missing(t)
    PROVE  ChunkInv'
<1> DEFINE j == thread[t]
           some == Restrict(j.asked, {Sought(j)})
<1>1. Writer(j) /\ j.at = "scan"
  BY WriterIs DEF Missing
<1>2. UNCHANGED files
  BY DEF Missing
<1>3. CASE j.op # "update"
  BY <1>2, <1>3, SetKeeps DEF Missing, Done, Command
<1>4. CASE j.op = "update" /\ ~j.others /\ Listed \ j.own # {}
  <2> DEFINE k == [j EXCEPT !.others = TRUE, !.files = Listed \ j.own]
  <2>1. Set(t, k)
    BY <1>4 DEF Missing
  <2>2. Listed \subseteq File
    BY DEF Listed
  <2>3. Writer(k)
    BY <1>1, <2>2 DEF Writer
  <2> QED
    BY <1>2, <2>1, <2>3, SetKeeps DEF Command
<1>5. CASE j.op = "update" /\ ~(~j.others /\ Listed \ j.own # {})
  <2>1. Set(t, Dealt(j, Merged(j.left, some)))
    BY <1>5 DEF Missing
  <2>2. Sought(j) \in Message
    BY <1>1, SoughtIsThere DEF Writer
  <2>3. DOMAIN Merged(j.left, some) \subseteq Message
    BY <1>1, <2>2 DEF Merged, Restrict, Writer
  <2>4. Writer(Dealt(j, Merged(j.left, some)))
    BY <1>1, <2>3, DealtKeeps
  <2> QED
    BY <1>2, <2>1, <2>4, SetKeeps DEF Command
<1> QED
  BY <1>3, <1>4, <1>5

LEMMA LookForRoomKeeps ==
    ASSUME ChunkInv, NEW t \in Thread, LookForRoom(t)
    PROVE  ChunkInv'
<1> DEFINE j == thread[t]  last == Latest(j.own)
<1>1. Writer(j) /\ j.at = "append"
  BY WriterIs DEF LookForRoom
<1>2. UNCHANGED files
  BY DEF LookForRoom
<1>3. CASE j.left = Nothing
  BY <1>2, <1>3, SetKeeps DEF LookForRoom, Done, Command
<1>4. CASE j.left # Nothing /\ j.own = {}
  <2>1. Set(t, [j EXCEPT !.at = "chunk"])
    BY <1>4 DEF LookForRoom
  <2>2. Writer([j EXCEPT !.at = "chunk"])
    BY <1>1 DEF Writer
  <2> QED
    BY <1>2, <2>1, <2>2, SetKeeps DEF Command
<1>5. CASE j.left # Nothing /\ j.own # {}
  <2>1. PICK c : c = Loaded(last) /\
          Set(t, IF Room(c) > 0
                 THEN [j EXCEPT !.at = "fill", !.file = last, !.data = c]
                 ELSE [j EXCEPT !.at = "chunk", !.file = NextName(last)])
    BY <1>5 DEF LookForRoom
  <2>2. last \in File
    BY <1>1, <1>5, LatestIsThere DEF Writer
  <2>3. Fits(c)
    BY <2>1, <2>2, LoadsFit
  <2> HIDE DEF last
  <2>4. CASE Room(c) > 0
    <3> DEFINE k == [j EXCEPT !.at = "fill", !.file = last, !.data = c]
    <3>1. Writer(k)
      BY <1>1, <2>3, <2>4 DEF Writer
    <3> QED
      BY <1>2, <2>1, <2>4, <3>1, SetKeeps DEF Command
  <2>5. CASE ~(Room(c) > 0)
    <3> DEFINE k == [j EXCEPT !.at = "chunk", !.file = NextName(last)]
    <3>1. Writer(k)
      BY <1>1 DEF Writer
    <3> QED
      BY <1>2, <2>1, <2>5, <3>1, SetKeeps DEF Command
  <2> QED
    BY <2>4, <2>5
<1> QED
  BY <1>3, <1>4, <1>5

LEMMA FillKeeps ==
    ASSUME ChunkInv, NEW t \in Thread, Fill(t)
    PROVE  ChunkInv'
<1> DEFINE j == thread[t]  some == Oldest(j.left, Room(j.data))
<1>1. Writer(j) /\ j.at = "fill" /\ Writes(j)
  BY WriterIs DEF Fill
<1>2. Fits(j.data) /\ Room(j.data) \in Nat
  <2>1. Fits(j.data) /\ Room(j.data) > 0
    BY <1>1 DEF Writer
  <2>2. Cardinality(DOMAIN j.data) \in Nat
    BY <2>1, FS_CardinalityType DEF Fits
  <2> QED
    BY <2>1, <2>2, Assumptions DEF Room, Assumptions
<1>3. IsFiniteSet(DOMAIN some) /\ Cardinality(DOMAIN some) <= Room(j.data)
  BY <1>1, <1>2, OldestAreFew DEF Writer
<1>4. Fits(Merged(j.data, some))
  BY <1>2, <1>3, MergedFits DEF Room
<1>5. PICK k : Command(k) /\ Set(t, k)
  BY <1>1, PlacedIs DEF Fill
<1>6. Pend(j.file, Merged(j.data, some)) /\ UNCHANGED <<disk, flying>>
  BY DEF Fill
<1> QED
  BY <1>4, <1>5, <1>6, PendKeeps

LEMMA NewChunkKeeps ==
    ASSUME ChunkInv, NEW t \in Thread, NewChunk(t)
    PROVE  ChunkInv'
<1> DEFINE j == thread[t]  some == Oldest(j.left, Limit)
<1>1. Writer(j) /\ Writes(j)
  BY WriterIs DEF NewChunk
<1>2. Fits(some)
  BY <1>1, OldestAreFew, Assumptions DEF Writer, Fits, Assumptions
<1>3. PICK k : Command(k) /\ Set(t, k)
  BY <1>1, PlacedIs DEF NewChunk
<1>4. Pend(j.file, some) /\ UNCHANGED <<disk, flying>>
  BY DEF NewChunk
<1> QED
  BY <1>2, <1>3, <1>4, PendKeeps

LEMMA LoadsKeep ==
    ASSUME ChunkInv, NEW t \in Thread,
           (\E time \in Message : BeginLoad(t, time)) \/ LoadFile(t) \/ Answer(t)
    PROVE  ChunkInv'
<1>1. ASSUME NEW time \in Message, BeginLoad(t, time) PROVE ChunkInv'
  BY <1>1, SetKeeps DEF BeginLoad, Command, Reader
<1>2. ASSUME LoadFile(t) PROVE ChunkInv'
  <2>1. Reader(thread[t])
    BY <1>2, ReaderIs DEF LoadFile
  <2>2. \E k : Reader(k) /\ Set(t, k)
    BY <1>2, <2>1 DEF LoadFile, Reader
  <2> QED
    BY <1>2, <2>2, SetKeeps DEF Command, LoadFile
<1>3. ASSUME Answer(t) PROVE ChunkInv'
  BY <1>3, SetKeeps DEF Answer, Command
<1> QED
  BY <1>1, <1>2, <1>3

Flushes(f) ==
    FlushTakes(f) \/ FlushDrops(f) \/ FlushOpens(f) \/ FlushEnds(f) \/ FlushFails(f)

LEMMA FlushKeeps ==
    ASSUME ChunkInv, NEW f \in File, Flushes(f)
    PROVE  ChunkInv'
<1>1. \A g \in File : FileFits(g)'
  <2>1. ASSUME FlushTakes(f), NEW g \in File PROVE FileFits(g)'
    BY <2>1 DEF FlushTakes, Pend, ChunkInv, FileFits
  <2>2. ASSUME FlushEnds(f), NEW g \in File PROVE FileFits(g)'
    BY <2>2 DEF FlushEnds, ChunkInv, FileFits
  <2>3. ASSUME FlushDrops(f), NEW g \in File PROVE FileFits(g)'
    BY <2>3 DEF FlushDrops, Pend, ChunkInv, FileFits
  <2>4. ASSUME FlushOpens(f), NEW g \in File PROVE FileFits(g)'
    BY <2>4, NothingFits DEF FlushOpens, ChunkInv, FileFits
  <2>5. ASSUME FlushFails(f), NEW g \in File PROVE FileFits(g)'
    BY <2>5 DEF FlushFails, ChunkInv, FileFits
  <2> QED
    BY <2>1, <2>2, <2>3, <2>4, <2>5 DEF Flushes
<1>2. /\ DOMAIN disk' = File /\ DOMAIN flying' = File /\ DOMAIN pending' = File
      /\ UNCHANGED thread
  BY DEF Flushes, FlushTakes, FlushDrops, FlushOpens, FlushEnds, FlushFails, Pend, ChunkInv
<1> QED
  BY <1>1, <1>2 DEF ChunkInv

LEMMA ClearKeeps ==
    ASSUME ChunkInv, Clear
    PROVE  ChunkInv'
<1>1. \A g \in File : FileFits(g)'
  BY DEF Clear, ChunkInv, FileFits
<1>2. ASSUME NEW u \in Thread PROVE Command(thread'[u])
  <2>1. CASE thread[u] # Idle /\ thread[u].op = "load"
    <3>1. thread'[u] = [thread[u] EXCEPT !.calm = FALSE]
      BY <2>1 DEF Clear
    <3>2. Reader(thread[u])
      BY <2>1, ReaderIs
    <3> QED
      BY <3>1, <3>2 DEF Reader, Command
  <2>2. CASE ~(thread[u] # Idle /\ thread[u].op = "load")
    <3>1. thread'[u] = thread[u]
      BY <2>2 DEF Clear
    <3> QED
      BY <3>1 DEF ChunkInv
  <2> QED
    BY <2>1, <2>2
<1> QED
  BY <1>1, <1>2 DEF ChunkInv, Clear

LEMMA CrashKeeps ==
    ASSUME ChunkInv, Crash
    PROVE  ChunkInv'
<1>1. \A g \in File : FileFits(g)'
  BY DEF Crash, ChunkInv, FileFits
<1> QED
  BY <1>1 DEF ChunkInv, Crash, Command

LEMMA NextFits == ChunkInv /\ [Next]_vars => ChunkInv'
<1> SUFFICES ASSUME ChunkInv, [Next]_vars PROVE ChunkInv'
  OBVIOUS
<1>1. ASSUME NEW t \in Thread, Update(t) PROVE ChunkInv'
  <2>1. PICK d \in Day : \E S \in (SUBSET {m \in Message : DayOf(m) = d}) \ {{}} :
            \E new \in [S -> BOOLEAN] :
                Begin(t, "update", new, {f \in Listed : f[1] = d})
    BY <1>1 DEF Update
  <2>2. PICK S \in (SUBSET {m \in Message : DayOf(m) = d}) \ {{}} :
            \E new \in [S -> BOOLEAN] :
                Begin(t, "update", new, {f \in Listed : f[1] = d})
    BY <2>1
  <2>3. PICK new \in [S -> BOOLEAN] :
                Begin(t, "update", new, {f \in Listed : f[1] = d})
    BY <2>2
  <2>4. DOMAIN new \subseteq Message /\ DOMAIN new # {}
    <3>1. DOMAIN new = S
      OBVIOUS
    <3>2. S \subseteq Message
      OBVIOUS
    <3>3. S # {}
      OBVIOUS
    <3> QED
      BY <3>1, <3>2, <3>3
  <2>5. {f \in Listed : f[1] = d} \subseteq File
    BY DEF Listed
  <2> QED
    BY <2>3, <2>4, <2>5, BeginKeeps
<1>2. ASSUME NEW t \in Thread, Modify(t) PROVE ChunkInv'
  <2>1. PICK op \in {"mark", "remove"}, m \in Message :
            Begin(t, op, [x \in {m} |-> TRUE], Listed)
    BY <1>2 DEF Modify
  <2>2. DOMAIN [x \in {m} |-> TRUE] = {m} /\ op # "load"
    OBVIOUS
  <2>3. Listed \subseteq File
    BY DEF Listed
  <2> QED
    BY <2>1, <2>2, <2>3, BeginKeeps
<1>3. ASSUME UNCHANGED vars PROVE ChunkInv'
  BY <1>3 DEF vars, ChunkInv, FileFits
<1> QED
  BY <1>1, <1>2, <1>3, FlushKeeps, ScanKeeps, SaveKeeps, MissingKeeps,
     LookForRoomKeeps, FillKeeps, NewChunkKeeps, LoadsKeep, ClearKeeps,
     CrashKeeps DEF Next, Flushes

-----------------------------------------------------------------------------

\* In every reachable state the files, and what commands are about to save
\* in them, fit.
THEOREM ChunkInvariant == Spec => []ChunkInv
BY InitFits, NextFits, PTL DEF Spec

\* No chunk ever has more than MAX_CHUNK_MESSAGES messages, for any messages,
\* number of commands and limit (update_messages_sync).
THEOREM NoChunkOutgrows == Spec => []ChunkFits
<1>1. ChunkInv => ChunkFits
  BY DEF ChunkInv, FileFits, Fits, ChunkFits
<1> QED
  BY <1>1, ChunkInvariant, PTL

-----------------------------------------------------------------------------
(* What is stored.  The invariant follows each command from its beginning to *)
(* its end, on every day that is not excepted: which messages it is done     *)
(* with, what it has seen in the files that it has passed, and where there   *)
(* is room for what is left.                                                 *)

\* What is in each file in the end, once all saves are flushed
Contents == [f \in File |-> Newer(f)]

\* Where message m is, of the files of its day, when N is in the files
Places(N, m) == {f \in File : f[1] = DayOf(m) /\ m \in DOMAIN N[f]}

\* It is in one of them, marked deleted or not.
Sits(N, m, mark) == \E f \in File : Places(N, m) = {f} /\ N[f][m] = mark

\* It is there if and as `want' says.
Kept(N, want, m) ==
    IF m \in DOMAIN want THEN Sits(N, m, want[m]) ELSE Places(N, m) = {}

\* Messages of day d only
OfDay(c, d) ==
    \A m \in DOMAIN c : m \in Message /\ DayOf(m) = d /\ c[m] \in BOOLEAN

FileOfDay(f) ==
    \A c \in {disk[f], flying[f], pending[f]} \ {None} : OfDay(c, f[1])

\* A command and what it has taken up, on any day
Task(j) ==
    /\ "asked" \in DOMAIN j /\ j.op \in {"update", "mark", "remove"}
    /\ j.at \in {"scan", "save", "append", "fill", "chunk"}
    /\ OfDay(j.asked, DayIn(j)) /\ DOMAIN j.asked # {}
    /\ DOMAIN j.todo \subseteq DOMAIN j.asked
    /\ DOMAIN j.left \subseteq DOMAIN j.asked
    /\ DOMAIN j.left \intersect DOMAIN j.todo = {}
    /\ \A m \in DOMAIN j.left : j.left[m] = j.asked[m]
    /\ j.own \subseteq File
    /\ IF j.op = "update"
       THEN \A f \in j.own : f[1] = DayIn(j)
       ELSE /\ j.at \in {"scan", "save"} /\ j.todo = j.asked
            /\ DOMAIN j.left = {} /\ j.asked[Sought(j)] = TRUE
            /\ DOMAIN j.asked = {Sought(j)}
    /\ j.at \in {"append", "fill", "chunk"} => DOMAIN j.todo = {}
    /\ j.at \in {"save", "fill"} => OfDay(j.data, DayIn(j)) /\ j.file \in File
    /\ j.file \in Day \X Nat /\ j.file[1] = DayIn(j)

\* The messages that it is done with
DoneWith(j) == DOMAIN j.asked \ (DOMAIN j.todo \union DOMAIN j.left)

\* How far it has come with them: N is in the files, and `want' is what was
\* stored when it began.
Stands(j, N, want) ==
    /\ \A m \in DoneWith(j) :
            Sits(N, m, (m \in DOMAIN want /\ want[m]) \/ j.asked[m])
    /\ \A m \in DOMAIN j.left : m \notin DOMAIN want
    /\ \A m \in Message :
            DayOf(m) = DayIn(j) /\ m \notin DoneWith(j) => Kept(N, want, m)

\* What it has seen of the files is so still.
Sees(j, N) ==
    /\ j.at # "chunk" =>
            \A f \in File : f[1] = DayIn(j) /\ f \notin j.own => DOMAIN N[f] = {}
    /\ j.at = "scan" =>
            \A f \in j.own : f[1] = DayIn(j) /\ (j.others \/ f \notin j.files) =>
                Sought(j) \notin DOMAIN N[f]
    /\ j.at \in {"save", "fill"} => N[j.file] = j.data
    /\ j.at = "fill" =>
            \A f \in File : f[1] = DayIn(j) /\ f[2] > j.file[2] => DOMAIN N[f] = {}
    /\ j.at = "chunk" =>
            \A f \in File : f[1] = DayIn(j) /\ f[2] >= j.file[2] => DOMAIN N[f] = {}

Steady(j, N, want) == Stands(j, N, want) /\ Sees(j, N)

Works(th, t, d) == Writes(th[t]) /\ DayIn(th[t]) = d

\* Day d, of which one command at a time runs
DaySound(d, N, want, th) ==
    /\ \A t, u \in Thread : Works(th, t, d) /\ Works(th, u, d) => t = u
    /\ \A t \in Thread : Works(th, t, d) => Steady(th[t], N, want)
    /\ (\A t \in Thread : ~Works(th, t, d)) =>
            \A m \in Message : DayOf(m) = d => Kept(N, want, m)

AllTasks(th) == \A t \in Thread : Writes(th[t]) => Task(th[t])

DaysSound(days, N, want, th) == \A d \in days : DaySound(d, N, want, th)

StoreInv ==
    /\ ChunkInv
    /\ \A f \in File : FileOfDay(f)
    /\ AllTasks(thread)
    /\ \A m \in DOMAIN stored : stored[m] \in BOOLEAN
    /\ DaysSound(Day \ upset, Contents, stored, thread)

\* Nothing of day d is different in the files, or in what was stored.
SameFiles(N, K, d) == \A f \in File : f[1] = d => K[f] = N[f]

SameWanted(want, other, d) ==
    \A m \in Message : DayOf(m) = d =>
        /\ m \in DOMAIN other <=> m \in DOMAIN want
        /\ m \in DOMAIN want => other[m] = want[m]

LEMMA PlacesSame ==
    ASSUME NEW N, NEW K, NEW m \in Message, SameFiles(N, K, DayOf(m))
    PROVE  /\ Places(K, m) = Places(N, m)
           /\ \A mark : Sits(N, m, mark) => Sits(K, m, mark)
<1>1. Places(K, m) = Places(N, m)
  BY DEF Places, SameFiles
<1>2. \A f \in Places(N, m) : f \in File /\ K[f] = N[f]
  BY DEF Places, SameFiles
<1>3. ASSUME NEW mark, Sits(N, m, mark) PROVE Sits(K, m, mark)
  BY <1>1, <1>2, <1>3 DEF Sits
<1> QED
  BY <1>1, <1>3

LEMMA KeptSame ==
    ASSUME NEW N, NEW K, NEW m \in Message, SameFiles(N, K, DayOf(m)),
           NEW want, NEW other, SameWanted(want, other, DayOf(m)), Kept(N, want, m)
    PROVE  Kept(K, other, m)
<1>1. /\ Places(K, m) = Places(N, m)
      /\ \A mark : Sits(N, m, mark) => Sits(K, m, mark)
  BY PlacesSame
<1>2. /\ m \in DOMAIN other <=> m \in DOMAIN want
      /\ m \in DOMAIN want => other[m] = want[m]
  BY DEF SameWanted
<1> QED
  BY <1>1, <1>2 DEF Kept

\* The messages that a command is done with are of its day.
LEMMA DoneOfDay ==
    ASSUME NEW j, Task(j), NEW m \in DOMAIN j.asked
    PROVE  m \in Message /\ DayOf(m) = DayIn(j) /\ j.asked[m] \in BOOLEAN
BY DEF Task, OfDay

LEMMA SteadySame ==
    ASSUME NEW j, Task(j), NEW N, NEW K, SameFiles(N, K, DayIn(j)),
           NEW want, NEW other, SameWanted(want, other, DayIn(j)),
           Steady(j, N, want)
    PROVE  Steady(j, K, other)
<1>1. ASSUME NEW m \in DoneWith(j)
      PROVE  Sits(K, m, (m \in DOMAIN other /\ other[m]) \/ j.asked[m])
  <2>1. m \in Message /\ DayOf(m) = DayIn(j)
    BY DoneOfDay DEF DoneWith
  <2>2. Sits(N, m, (m \in DOMAIN want /\ want[m]) \/ j.asked[m])
    BY DEF Steady, Stands
  <2>3. Sits(K, m, (m \in DOMAIN want /\ want[m]) \/ j.asked[m])
    BY <2>1, <2>2, PlacesSame
  <2>4. (m \in DOMAIN other /\ other[m]) = (m \in DOMAIN want /\ want[m])
    BY <2>1 DEF SameWanted
  <2> QED
    BY <2>3, <2>4
<1>2. ASSUME NEW m \in DOMAIN j.left PROVE m \notin DOMAIN other
  <2>1. m \in Message /\ DayOf(m) = DayIn(j)
    BY DoneOfDay DEF Task
  <2> QED
    BY <2>1 DEF SameWanted, Steady, Stands
<1>3. ASSUME NEW m \in Message, DayOf(m) = DayIn(j), m \notin DoneWith(j)
      PROVE  Kept(K, other, m)
  BY <1>3, KeptSame DEF Steady, Stands
<1>4. j.at \in {"save", "fill"} => K[j.file] = N[j.file]
  BY DEF Task, SameFiles
<1>5. \A f \in File : f[1] = DayIn(j) => K[f] = N[f]
  BY DEF SameFiles
<1>6. j.own \subseteq File
  BY DEF Task
<1>7. j.at = "scan" =>
        \A f \in j.own : f[1] = DayIn(j) /\ (j.others \/ f \notin j.files) =>
            Sought(j) \notin DOMAIN K[f]
  BY <1>5, <1>6 DEF Steady, Sees
<1>8. /\ j.at # "chunk" =>
            \A f \in File : f[1] = DayIn(j) /\ f \notin j.own => DOMAIN K[f] = {}
      /\ j.at = "fill" =>
            \A f \in File : f[1] = DayIn(j) /\ f[2] > j.file[2] => DOMAIN K[f] = {}
      /\ j.at = "chunk" =>
            \A f \in File : f[1] = DayIn(j) /\ f[2] >= j.file[2] => DOMAIN K[f] = {}
  BY <1>5 DEF Steady, Sees
<1>9. j.at \in {"save", "fill"} => K[j.file] = j.data
  BY <1>4 DEF Steady, Sees
<1> QED
  BY <1>1, <1>2, <1>3, <1>7, <1>8, <1>9 DEF Steady, Stands, Sees

\* A day on which nothing happens stays sound.
LEMMA DaySame ==
    ASSUME NEW d, NEW N, NEW K, SameFiles(N, K, d),
           NEW want, NEW other, SameWanted(want, other, d),
           NEW th, \A t \in Thread : Writes(th[t]) => Task(th[t]),
           NEW next, \A t \in Thread : Works(next, t, d) <=> Works(th, t, d),
           \A t \in Thread : Works(th, t, d) => next[t] = th[t],
           DaySound(d, N, want, th)
    PROVE  DaySound(d, K, other, next)
<1>1. ASSUME NEW t \in Thread, Works(next, t, d) PROVE Steady(next[t], K, other)
  <2>1. Works(th, t, d) /\ next[t] = th[t]
    BY <1>1
  <2>2. Task(th[t]) /\ DayIn(th[t]) = d /\ Steady(th[t], N, want)
    BY <2>1 DEF Works, DaySound
  <2>3. Steady(th[t], K, other)
    BY <2>2, SteadySame
  <2> QED
    BY <2>1, <2>3
<1>2. ASSUME \A t \in Thread : ~Works(next, t, d), NEW m \in Message, DayOf(m) = d
      PROVE  Kept(K, other, m)
  <2>1. Kept(N, want, m)
    BY <1>2 DEF DaySound
  <2> QED
    BY <1>2, <2>1, KeptSame
<1>3. \A t, u \in Thread : Works(next, t, d) /\ Works(next, u, d) => t = u
  BY DEF DaySound
<1> QED
  BY <1>1, <1>2, <1>3 DEF DaySound

\* The one command of a day goes on.
LEMMA DayGoesOn ==
    ASSUME NEW d, NEW N, NEW K, NEW want, NEW other, NEW th, NEW next,
           DaySound(d, N, want, th), NEW t \in Thread, Works(th, t, d),
           \A u \in Thread : u # t => next[u] = th[u],
           NEW k, next[t] = k, Writes(k), DayIn(k) = d, Steady(k, K, other)
    PROVE  DaySound(d, K, other, next)
<1>1. \A u \in Thread : Works(next, u, d) <=> u = t
  BY DEF DaySound, Works
<1> QED
  BY <1>1 DEF DaySound

\* It ends.
LEMMA DayEnds ==
    ASSUME NEW d, NEW N, NEW K, NEW want, NEW other, NEW th, NEW next,
           DaySound(d, N, want, th), NEW t \in Thread, Works(th, t, d),
           \A u \in Thread : u # t => next[u] = th[u], next[t] = Idle,
           \A m \in Message : DayOf(m) = d => Kept(K, other, m)
    PROVE  DaySound(d, K, other, next)
<1>1. \A u \in Thread : ~Works(next, u, d)
  BY DEF DaySound, Works, Writes
<1> QED
  BY <1>1 DEF DaySound

\* Command k of day d is steady, or has ended and left what was wanted.
Arrives(d, k, N, want) ==
    IF k = Idle THEN \A m \in Message : DayOf(m) = d => Kept(N, want, m)
    ELSE Steady(k, N, want)

OtherDaysSame(day, N, K, want, other) ==
    \A d \in Day : d # day => SameFiles(N, K, d) /\ SameWanted(want, other, d)

OnlyMoves(t, th, next) == \A u \in Thread : u # t => next[u] = th[u]

\* A step of one command, which changes nothing of other days
LEMMA CommandMoves ==
    ASSUME NEW N, NEW K, NEW want, NEW other, NEW th, NEW next,
           NEW bad, NEW worse, bad \subseteq worse,
           AllTasks(th), DaysSound(Day \ bad, N, want, th),
           NEW t \in Thread, NEW j, j = th[t], Writes(j),
           NEW k, k = Idle \/ (Writes(k) /\ DayIn(k) = DayIn(j)),
           OtherDaysSame(DayIn(j), N, K, want, other),
           next[t] = k, OnlyMoves(t, th, next),
           DayIn(j) \in Day \ worse => Arrives(DayIn(j), k, K, other)
    PROVE  DaysSound(Day \ worse, K, other, next)
<1> SUFFICES ASSUME NEW d \in Day \ worse PROVE DaySound(d, K, other, next)
  BY DEF DaysSound
<1>d. /\ d \in Day /\ DaySound(d, N, want, th)
      /\ \A u \in Thread : Writes(th[u]) => Task(th[u])
      /\ \A u \in Thread : u # t => next[u] = th[u]
  BY DEF DaysSound, AllTasks, OnlyMoves
<1>1. CASE d # DayIn(j)
  <2>1. SameFiles(N, K, d) /\ SameWanted(want, other, d)
    BY <1>1 DEF OtherDaysSame
  <2>2. ASSUME NEW u \in Thread
        PROVE  /\ Works(next, u, d) <=> Works(th, u, d)
               /\ Works(th, u, d) => next[u] = th[u]
    <3>1. CASE u = t
      BY <1>1, <3>1 DEF Works, Writes
    <3>2. CASE u # t
      BY <1>d, <3>2 DEF Works
    <3> QED
      BY <3>1, <3>2
  <2> QED
    BY <1>d, <2>1, <2>2, DaySame
<1>2. CASE d = DayIn(j)
  <2>1. Works(th, t, d) /\ Arrives(d, k, K, other)
    BY <1>2 DEF Works
  <2>2. CASE k = Idle
    <3>1. \A m \in Message : DayOf(m) = d => Kept(K, other, m)
      BY <2>1, <2>2 DEF Arrives
    <3> QED
      BY <1>d, <2>1, <2>2, <3>1, DayEnds
  <2>3. CASE k # Idle
    <3>1. Steady(k, K, other) /\ Writes(k) /\ DayIn(k) = d
      BY <1>2, <2>1, <2>3 DEF Arrives
    <3> QED
      BY <1>d, <2>1, <3>1, DayGoesOn
  <2> QED
    BY <2>2, <2>3
<1> QED
  BY <1>1, <1>2

-----------------------------------------------------------------------------
(* The files *)

\* What is in the files is of their days.
LEMMA ContentsOf ==
    ASSUME NEW f \in File, FileOfDay(f)
    PROVE  Contents[f] = Newer(f) /\ OfDay(Contents[f], f[1])
<1>1. OfDay(Nothing, f[1])
  BY DEF Nothing, OfDay
<1>2. OfDay(Newer(f), f[1])
  BY <1>1 DEF Newer, FileOfDay
<1> QED
  BY <1>2 DEF Contents

\* What a load finds is of the file's day, and unless the file is being
\* written, it is what was saved last.
LEMMA LoadsNewer ==
    ASSUME NEW f \in File, FileOfDay(f), NEW c, c = Loaded(f)
    PROVE  OfDay(c, f[1]) /\ (~Torn(f, f[1]) => c = Contents[f])
<1>1. OfDay(Nothing, f[1])
  BY DEF Nothing, OfDay
<1>2. OfDay(c, f[1])
  BY <1>1 DEF Loaded, FileOfDay
<1>3. ~Torn(f, f[1]) => c = Newer(f)
  BY DEF Torn, Loaded, Newer
<1> QED
  BY <1>2, <1>3 DEF Contents

LEMMA FilesStay ==
    ASSUME \A f \in File : FileOfDay(f), UNCHANGED files
    PROVE  (\A f \in File : FileOfDay(f)') /\ Contents' = Contents
<1>1. disk' = disk /\ flying' = flying /\ pending' = pending
  BY DEF files
<1>2. \A f \in File : FileOfDay(f)'
  BY <1>1 DEF FileOfDay
<1>3. \A f \in File : Newer(f)' = Newer(f)
  BY <1>1 DEF Newer
<1> QED
  BY <1>2, <1>3 DEF Contents

\* A save
LEMMA FilesPut ==
    ASSUME \A f \in File : FileOfDay(f), DOMAIN pending = File,
           NEW f \in File, NEW c \in Content, OfDay(c, f[1]),
           Pend(f, c), UNCHANGED <<disk, flying>>
    PROVE  /\ \A g \in File : FileOfDay(g)'
           /\ Contents' = [Contents EXCEPT ![f] = c]
<1>1. \A g \in File : pending'[g] = IF g = f THEN c ELSE pending[g]
  BY DEF Pend
<1>2. c # None
  BY NoneIsNoContent
<1>3. ASSUME NEW g \in File
      PROVE  FileOfDay(g)' /\ Newer(g)' = IF g = f THEN c ELSE Newer(g)
  <2>1. FileOfDay(g)'
    BY <1>1 DEF FileOfDay
  <2>2. Newer(g)' = IF g = f THEN c ELSE Newer(g)
    BY <1>1, <1>2 DEF Newer
  <2> QED
    BY <2>1, <2>2
<1> QED
  BY <1>3 DEF Contents

\* A flush puts nothing else into a file, unless it drops or fails to write a
\* save: then its day is excepted.
LEMMA FilesFlushed ==
    ASSUME \A f \in File : FileOfDay(f), ChunkInv,
           NEW f \in File, Flushes(f)
    PROVE  /\ \A g \in File : FileOfDay(g)'
           /\ \A g \in File : g[1] \in upset' \/ Contents'[g] = Contents[g]
           /\ upset' = upset => Contents' = Contents \/ f[1] \in upset
           /\ upset \subseteq upset'
<1>1. ASSUME FlushTakes(f), NEW g \in File
      PROVE  FileOfDay(g)' /\ Newer(g)' = Newer(g) /\ upset' = upset
  <2>1. /\ disk' = disk /\ flying'[g] = IF g = f THEN pending[g] ELSE flying[g]
        /\ pending'[g] = IF g = f THEN None ELSE pending[g]
    BY <1>1 DEF FlushTakes, Pend, ChunkInv
  <2>2. FileOfDay(g)'
    BY <2>1 DEF FileOfDay
  <2>3. pending[f] # None /\ flying[f] = None /\ upset' = upset
    BY <1>1 DEF FlushTakes
  <2> QED
    BY <2>1, <2>2, <2>3 DEF Newer
<1>2. ASSUME FlushEnds(f), NEW g \in File
      PROVE  FileOfDay(g)' /\ Newer(g)' = Newer(g) /\ upset' = upset
  <2>1. /\ pending' = pending /\ flying'[g] = IF g = f THEN None ELSE flying[g]
        /\ disk'[g] = IF g = f THEN flying[g] ELSE disk[g]
    BY <1>2 DEF FlushEnds, ChunkInv
  <2>2. FileOfDay(g)'
    BY <2>1 DEF FileOfDay
  <2>3. flying[f] # None /\ upset' = upset
    BY <1>2 DEF FlushEnds
  <2> QED
    BY <2>1, <2>2, <2>3 DEF Newer
<1>3. ASSUME FlushOpens(f), NEW g \in File
      PROVE  FileOfDay(g)' /\ Newer(g)' = Newer(g) /\ upset' = upset
  <2>1. /\ pending' = pending /\ flying' = flying
        /\ disk'[g] = IF g = f THEN Nothing ELSE disk[g]
    BY <1>3 DEF FlushOpens, ChunkInv
  <2>2. FileOfDay(g)'
    BY <2>1 DEF FileOfDay, OfDay, Nothing
  <2>3. flying[f] # None /\ upset' = upset
    BY <1>3 DEF FlushOpens
  <2> QED
    BY <2>1, <2>2, <2>3 DEF Newer
<1>4. ASSUME FlushDrops(f), NEW g \in File
      PROVE  /\ FileOfDay(g)' /\ (g # f \/ pending[f] = None => Newer(g)' = Newer(g))
             /\ upset' = IF pending[f] # None THEN upset \union {f[1]} ELSE upset
  <2>1. /\ disk' = disk /\ flying' = flying
        /\ pending'[g] = IF g = f THEN None ELSE pending[g]
    BY <1>4 DEF FlushDrops, Pend, ChunkInv
  <2>2. FileOfDay(g)'
    BY <2>1 DEF FileOfDay
  <2>3. upset' = IF pending[f] # None THEN upset \union {f[1]} ELSE upset
    BY <1>4 DEF FlushDrops
  <2> QED
    BY <2>1, <2>2, <2>3 DEF Newer
<1>5. ASSUME FlushFails(f), NEW g \in File
      PROVE  /\ FileOfDay(g)' /\ (g # f \/ pending[f] # None => Newer(g)' = Newer(g))
             /\ upset' = IF pending[f] = None THEN upset \union {f[1]} ELSE upset
  <2>1. /\ disk' = disk /\ pending' = pending
        /\ flying'[g] = IF g = f THEN None ELSE flying[g]
    BY <1>5 DEF FlushFails, ChunkInv
  <2>2. FileOfDay(g)'
    BY <2>1 DEF FileOfDay
  <2>3. upset' = IF pending[f] = None THEN upset \union {f[1]} ELSE upset
    BY <1>5 DEF FlushFails
  <2> QED
    BY <2>1, <2>2, <2>3 DEF Newer
<1>6. \A g \in File : FileOfDay(g)'
  BY <1>1, <1>2, <1>3, <1>4, <1>5 DEF Flushes
<1>7. \A g \in File : (f[1] \in upset' /\ g = f) \/ Newer(g)' = Newer(g)
  BY <1>1, <1>2, <1>3, <1>4, <1>5 DEF Flushes
<1>8. upset \subseteq upset'
  BY <1>1, <1>2, <1>3, <1>4, <1>5 DEF Flushes
<1>9. ASSUME upset' = upset, f[1] \notin upset PROVE \A g \in File : Newer(g)' = Newer(g)
  BY <1>7, <1>9
<1>10. \A g \in File : Contents[g] = Newer(g) /\ Contents'[g] = Newer(g)'
  BY DEF Contents
<1>11. ASSUME \A g \in File : Newer(g)' = Newer(g) PROVE Contents' = Contents
  BY <1>11 DEF Contents
<1> QED
  BY <1>6, <1>7, <1>8, <1>9, <1>10, <1>11

-----------------------------------------------------------------------------
(* The commands *)

LEMMA SameDay ==
    ASSUME NEW j, NEW k, j.asked = k.asked
    PROVE  DayIn(j) = DayIn(k)
BY DEF DayIn

\* A task is a command that writes.
LEMMA TaskWrites ==
    ASSUME NEW k, Task(k)
    PROVE  Writes(k)
<1>1. Idle.at = "idle" /\ k.at # "idle" /\ k.op # "load"
  BY DEF Idle, Task
<1> QED
  BY <1>1 DEF Writes

\* What it is to look for is one of what it was asked for.
LEMMA SoughtAsked ==
    ASSUME NEW j, Task(j), DOMAIN j.todo # {}
    PROVE  Sought(j) \in DOMAIN j.todo /\ Sought(j) \in DOMAIN j.asked
<1>1. DOMAIN j.todo \subseteq Message
  BY DEF Task, OfDay
<1>2. Sought(j) \in DOMAIN j.todo
  BY <1>1, SoughtIsThere
<1> QED
  BY <1>2 DEF Task

\* Where it stands depends on what it was asked, has to do and has left.
LEMMA StandsSame ==
    ASSUME NEW j, NEW k, k.asked = j.asked, k.todo = j.todo, k.left = j.left,
           NEW N, NEW want, Stands(j, N, want)
    PROVE  Stands(k, N, want)
<1>1. DayIn(k) = DayIn(j) /\ DoneWith(k) = DoneWith(j)
  BY SameDay DEF DoneWith
<1> QED
  BY <1>1 DEF Stands

LEMMA Moves ==
    ASSUME StoreInv, ChunkInv', NEW t \in Thread, NEW j, j = thread[t], Writes(j),
           NEW k, k = Idle \/ (Task(k) /\ DayIn(k) = DayIn(j)), Set(t, k),
           \A f \in File : FileOfDay(f)',
           \A m \in DOMAIN stored' : stored'[m] \in BOOLEAN, upset \subseteq upset',
           OtherDaysSame(DayIn(j), Contents, Contents', stored, stored'),
           DayIn(j) \in Day \ upset' => Arrives(DayIn(j), k, Contents', stored')
    PROVE  StoreInv'
<1>1. thread'[t] = k /\ OnlyMoves(t, thread, thread')
  BY DEF Set, StoreInv, ChunkInv, OnlyMoves
<1>2. AllTasks(thread) /\ DaysSound(Day \ upset, Contents, stored, thread)
  BY DEF StoreInv
<1>3. ASSUME NEW u \in Thread, Writes(thread'[u]) PROVE Task(thread'[u])
  <2>1. CASE u = t
    BY <1>1, <1>3, <2>1 DEF Writes
  <2>2. CASE u # t
    BY <1>1, <1>2, <1>3, <2>2 DEF OnlyMoves, AllTasks
  <2> QED
    BY <2>1, <2>2
<1>4. k = Idle \/ (Writes(k) /\ DayIn(k) = DayIn(j))
  BY TaskWrites
<1>5. DaysSound(Day \ upset', Contents', stored', thread')
  BY <1>1, <1>2, <1>4, CommandMoves
<1>6. AllTasks(thread)'
  BY <1>3 DEF AllTasks, Writes
<1>7. DaysSound(Day \ upset, Contents, stored, thread)'
  BY <1>5 DEF DaysSound, DaySound, Works, Writes
<1> QED
  BY <1>6, <1>7 DEF StoreInv

\* A message found in file f
LEMMA Finds ==
    ASSUME NEW j, Writer(j), Task(j), j.at = "scan", NEW f \in File,
           NEW c, OfDay(c, f[1]), Sought(j) \in DOMAIN c,
           NEW k, k = [j EXCEPT !.at = "save", !.file = f, !.data = c]
    PROVE  f[1] = DayIn(j) /\ Task(k) /\ DayIn(k) = DayIn(j)
<1>1. /\ k.at = "save" /\ k.op = j.op /\ k.asked = j.asked /\ k.todo = j.todo
      /\ k.own = j.own /\ k.left = j.left /\ k.file = f /\ k.data = c
      /\ "asked" \in DOMAIN k
  BY DEF Writer, Task
<1>2. DayIn(k) = DayIn(j) /\ Sought(k) = Sought(j)
  BY <1>1, SameDay, SameSought
<1>3. f[1] = DayIn(j)
  <2>1. Sought(j) \in DOMAIN j.asked
    BY SoughtAsked DEF Writer
  <2> QED
    BY <2>1 DEF Task, OfDay
<1>4. f \in Day \X Nat
  BY Assumptions DEF File, Assumptions
<1>5. Task(k)
  BY <1>1, <1>2, <1>3, <1>4 DEF Task
<1> QED
  BY <1>2, <1>3, <1>5

LEMMA FindsSteady ==
    ASSUME NEW j, Writer(j), Task(j), j.at = "scan", NEW f, NEW c,
           NEW N, NEW want, Steady(j, N, want), N[f] = c,
           NEW k, k = [j EXCEPT !.at = "save", !.file = f, !.data = c]
    PROVE  Steady(k, N, want)
<1>1. /\ k.at = "save" /\ k.asked = j.asked /\ k.todo = j.todo
      /\ k.own = j.own /\ k.left = j.left /\ k.file = f /\ k.data = c
  BY DEF Writer, Task
<1>2. DayIn(k) = DayIn(j)
  BY <1>1, SameDay
<1>3. Stands(k, N, want)
  BY <1>1, <1>2 DEF Steady, Stands, DoneWith
<1>4. Sees(k, N)
  BY <1>1, <1>2 DEF Steady, Sees
<1> QED
  BY <1>3, <1>4 DEF Steady

\* It is not in file f.
LEMMA Passes ==
    ASSUME NEW j, Writer(j), Task(j), j.at = "scan", NEW f \in File,
           NEW c, Sought(j) \notin DOMAIN c, NEW k, k = [j EXCEPT !.files = @ \ {f}]
    PROVE  /\ Task(k) /\ DayIn(k) = DayIn(j)
           /\ \A N, want :
                Steady(j, N, want) /\ (f[1] = DayIn(j) => N[f] = c) => Steady(k, N, want)
<1>1. /\ k.at = j.at /\ k.op = j.op /\ k.asked = j.asked /\ k.todo = j.todo
      /\ k.own = j.own /\ k.left = j.left /\ k.file = j.file /\ k.data = j.data
      /\ k.others = j.others /\ k.files = j.files \ {f}
      /\ "asked" \in DOMAIN k
  BY DEF Writer, Task
<1>2. DayIn(k) = DayIn(j) /\ Sought(k) = Sought(j)
  BY <1>1, SameDay, SameSought
<1>3. Task(k)
  BY <1>1, <1>2 DEF Task
<1>4. ASSUME NEW N, NEW want, Steady(j, N, want), f[1] = DayIn(j) => N[f] = c
      PROVE  Steady(k, N, want)
  <2>1. Stands(k, N, want)
    BY <1>1, <1>4, StandsSame DEF Steady
  <2>2. Sees(k, N)
    BY <1>1, <1>2, <1>4 DEF Steady, Sees
  <2> QED
    BY <2>1, <2>2 DEF Steady
<1> QED
  BY <1>2, <1>3, <1>4

\* Nothing is saved, and nothing more is stored.
LEMMA Untouched ==
    ASSUME StoreInv, UNCHANGED <<files, stored>>, NEW day
    PROVE  /\ \A f \in File : FileOfDay(f)'
           /\ \A m \in DOMAIN stored' : stored'[m] \in BOOLEAN
           /\ OtherDaysSame(day, Contents, Contents', stored, stored')
           /\ Contents' = Contents
<1>1. (\A f \in File : FileOfDay(f)') /\ Contents' = Contents
  BY FilesStay DEF StoreInv
<1> QED
  BY <1>1 DEF StoreInv, OtherDaysSame, SameFiles, SameWanted

LEMMA ScanStores ==
    ASSUME StoreInv, NEW t \in Thread, Scan(t)
    PROVE  StoreInv'
<1>j. PICK j : j = thread[t]
  OBVIOUS
<1>f. PICK f : f = IF j.others THEN Earliest(j.files) ELSE Latest(j.files)
  OBVIOUS
<1>c. ChunkInv /\ ChunkInv'
  BY ScanKeeps DEF StoreInv
<1>1. Writer(j) /\ Task(j) /\ Writes(j) /\ j.at = "scan" /\ j.files # {}
  BY <1>c, <1>j, WriterIs DEF Scan, StoreInv, AllTasks
<1>2. f \in File /\ FileOfDay(f)
  BY <1>1, <1>f, LatestIsThere, EarliestIsThere DEF Writer, StoreInv
<1>3. PICK c : c = Loaded(f) /\
        Set(t, IF Sought(j) \in DOMAIN c
               THEN [j EXCEPT !.at = "save", !.file = f, !.data = c]
               ELSE [j EXCEPT !.files = @ \ {f}])
  BY <1>j, <1>f DEF Scan
<1>4. OfDay(c, f[1]) /\ (~Torn(f, f[1]) => c = Contents[f])
  BY <1>2, <1>3, LoadsNewer
<1>5. upset' = IF Torn(f, DayIn(j)) THEN upset \union {DayIn(j)} ELSE upset
  BY <1>j, <1>f DEF Scan
<1>6. UNCHANGED <<files, stored>>
  BY DEF Scan
<1>7. /\ \A g \in File : FileOfDay(g)'
      /\ \A m \in DOMAIN stored' : stored'[m] \in BOOLEAN
      /\ OtherDaysSame(DayIn(j), Contents, Contents', stored, stored')
      /\ Contents' = Contents /\ stored' = stored
  BY <1>6, Untouched
<1>8. ASSUME DayIn(j) \in Day \ upset'
      PROVE  /\ Steady(j, Contents, stored)
             /\ f[1] = DayIn(j) => Contents[f] = c
  <2>1. DayIn(j) \in Day \ upset /\ ~Torn(f, DayIn(j))
    BY <1>5, <1>8
  <2>2. Steady(j, Contents, stored)
    BY <1>1, <1>j, <2>1 DEF StoreInv, DaysSound, DaySound, Works
  <2> QED
    BY <1>4, <2>1, <2>2
<1>9. \E k : Task(k) /\ DayIn(k) = DayIn(j) /\ Set(t, k)
             /\ (DayIn(j) \in Day \ upset' => Steady(k, Contents, stored))
  <2>1. CASE Sought(j) \in DOMAIN c
    <3>1. PICK k : k = [j EXCEPT !.at = "save", !.file = f, !.data = c]
      OBVIOUS
    <3>2. OfDay(c, f[1])
      BY <1>4
    <3>3. f[1] = DayIn(j) /\ Task(k) /\ DayIn(k) = DayIn(j)
      BY <1>1, <1>2, <2>1, <3>1, <3>2, Finds
    <3>4. ASSUME NEW N, NEW want, Steady(j, N, want), N[f] = c
          PROVE  Steady(k, N, want)
      BY <1>1, <3>1, <3>4, FindsSteady
    <3> QED
      BY <1>3, <1>8, <2>1, <3>1, <3>3, <3>4
  <2>2. CASE Sought(j) \notin DOMAIN c
    <3>1. PICK k : k = [j EXCEPT !.files = @ \ {f}]
      OBVIOUS
    <3>2. /\ Task(k) /\ DayIn(k) = DayIn(j)
          /\ \A N, want :
                Steady(j, N, want) /\ (f[1] = DayIn(j) => N[f] = c) => Steady(k, N, want)
      BY <1>1, <1>2, <2>2, <3>1, Passes
    <3> QED
      BY <1>3, <1>8, <2>2, <3>1, <3>2
  <2> QED
    BY <2>1, <2>2
<1>10. PICK k : Task(k) /\ DayIn(k) = DayIn(j) /\ Set(t, k)
              /\ (DayIn(j) \in Day \ upset' => Steady(k, Contents, stored))
  BY <1>9
<1>11. k # Idle
  BY <1>10, TaskWrites DEF Writes
<1>12. DayIn(j) \in Day \ upset' => Arrives(DayIn(j), k, Contents', stored')
  BY <1>7, <1>10, <1>11 DEF Arrives
<1>13. upset \subseteq upset'
  BY <1>5
<1> QED
  BY <1>c, <1>j, <1>1, <1>7, <1>10, <1>12, <1>13, Moves

\* What a finished command leaves, of its own messages and of all others
Leaves(j, want, other) ==
    /\ \A m \in DOMAIN other : other[m] \in BOOLEAN
    /\ \A d : d # DayIn(j) => SameWanted(want, other, d)
    /\ j.op = "update" =>
        /\ DOMAIN other = DOMAIN want \union DOMAIN j.asked
        /\ \A m \in DOMAIN j.asked :
                other[m] = ((m \in DOMAIN want /\ want[m]) \/ j.asked[m])
        /\ \A m \in DOMAIN want \ DOMAIN j.asked : other[m] = want[m]
    /\ j.op = "mark" =>
        /\ DOMAIN other = DOMAIN want
        /\ Sought(j) \in DOMAIN want => other[Sought(j)] = TRUE
        /\ \A m \in DOMAIN want \ {Sought(j)} : other[m] = want[m]
    /\ j.op = "remove" =>
        /\ DOMAIN other = DOMAIN want \ {Sought(j)}
        /\ \A m \in DOMAIN other : other[m] = want[m]

LEMMA Outcomes ==
    ASSUME NEW j, Task(j), \A m \in DOMAIN stored : stored[m] \in BOOLEAN,
           NEW other, other = Outcome(j)
    PROVE  Leaves(j, stored, other)
<1>1. /\ \A m \in DOMAIN j.asked : j.asked[m] \in BOOLEAN /\ DayOf(m) = DayIn(j)
      /\ j.op \in {"update", "mark", "remove"}
      /\ j.op # "update" => /\ j.todo = j.asked /\ DOMAIN j.asked = {Sought(j)}
                            /\ j.asked[Sought(j)] = TRUE
  BY DEF Task, OfDay
<1>2. CASE j.op = "update"
  <2>1. other = Merged(stored, j.asked)
    BY <1>2 DEF Outcome
  <2> QED
    BY <1>1, <1>2, <2>1 DEF Merged, SameWanted, Leaves
<1>3. CASE j.op = "mark"
  <2>1. PICK some : some = Restrict(j.asked, DOMAIN stored \intersect DOMAIN j.asked)
    OBVIOUS
  <2>2. other = Merged(stored, some)
    BY <1>3, <2>1 DEF Outcome
  <2>3. /\ DOMAIN some = DOMAIN stored \intersect {Sought(j)}
        /\ \A m \in DOMAIN some : some[m] = TRUE
    BY <1>1, <1>3, <2>1 DEF Restrict
  <2> QED
    BY <1>1, <1>3, <2>2, <2>3 DEF Merged, SameWanted, Leaves
<1>4. CASE j.op = "remove"
  <2>1. Sought([todo |-> j.asked]) = Sought(j)
    BY <1>1, <1>4, SameSought
  <2>2. other = Without(stored, Sought(j))
    BY <1>4, <2>1 DEF Outcome
  <2> QED
    BY <1>1, <1>4, <2>2 DEF Without, Restrict, SameWanted, Leaves
<1> QED
  BY <1>1, <1>2, <1>3, <1>4

\* A save into a file of the command's day
LEMMA PutsElsewhere ==
    ASSUME NEW N, DOMAIN N = File, NEW f \in File, NEW c,
           NEW K, K = [N EXCEPT ![f] = c], NEW d, d # f[1]
    PROVE  SameFiles(N, K, d)
BY DEF SameFiles

\* Message m is where it was.
Undisturbed(N, K, m) ==
    /\ Places(K, m) = Places(N, m)
    /\ \A mark : Sits(N, m, mark) => Sits(K, m, mark)

\* A message of which the file has what it had stays in its place.
LEMMA PutKeeps ==
    ASSUME NEW N, DOMAIN N = File, NEW f \in File, NEW c,
           NEW K, K = [N EXCEPT ![f] = c], NEW m,
           m \in DOMAIN c <=> m \in DOMAIN N[f],
           m \in DOMAIN c => c[m] = N[f][m]
    PROVE  Undisturbed(N, K, m)
<1>1. \A g \in File : K[g] = IF g = f THEN c ELSE N[g]
  OBVIOUS
<1>2. Places(K, m) = Places(N, m)
  BY <1>1 DEF Places
<1>3. \A g \in Places(N, m) : g \in File /\ K[g][m] = N[g][m]
  BY <1>1 DEF Places
<1>4. ASSUME NEW mark, Sits(N, m, mark) PROVE Sits(K, m, mark)
  BY <1>2, <1>3, <1>4 DEF Sits
<1> QED
  BY <1>2, <1>4 DEF Undisturbed

\* A message that was nowhere is in the file now.
LEMMA PutAdds ==
    ASSUME NEW N, DOMAIN N = File, NEW f \in File, NEW c,
           NEW K, K = [N EXCEPT ![f] = c], NEW m, DayOf(m) = f[1],
           Places(N, m) \subseteq {f}, m \in DOMAIN c
    PROVE  Sits(K, m, c[m])
<1>1. \A g \in File : K[g] = IF g = f THEN c ELSE N[g]
  OBVIOUS
<1>2. Places(K, m) = {f}
  BY <1>1 DEF Places
<1> QED
  BY <1>1, <1>2 DEF Sits

\* Command k is j once it has dealt with a message, which is in `left' now or
\* in a file.
HasDealt(j, left, k) ==
    /\ k.op = j.op /\ k.asked = j.asked /\ k.own = j.own /\ k.left = left
    /\ k.file = j.file /\ DOMAIN k.todo = DOMAIN j.todo \ {Sought(j)}
    /\ "asked" \in DOMAIN k
    /\ \/ k.at = "scan" /\ k.files = j.own /\ k.others = FALSE
       \/ k.at = "append" /\ DOMAIN k.todo = {}

LEMMA DealtIs ==
    ASSUME NEW j, Writer(j), Task(j), j.at \in {"scan", "save"}, j.op = "update",
           NEW left, NEW k, k = Dealt(j, left)
    PROVE  HasDealt(j, left, k)
<1>1. PICK todo : todo = Without(j.todo, Sought(j))
  OBVIOUS
<1>2. DOMAIN todo = DOMAIN j.todo \ {Sought(j)}
  BY <1>1 DEF Without, Restrict
<1>3. CASE todo # Nothing
  <2>1. k = [j EXCEPT !.todo = todo, !.files = j.own, !.others = FALSE,
                      !.left = left, !.at = "scan"]
    BY <1>1, <1>3 DEF Dealt
  <2> QED
    BY <1>2, <2>1 DEF Writer, Task, HasDealt
<1>4. CASE todo = Nothing
  <2>1. k = [j EXCEPT !.todo = todo, !.left = left, !.at = "append"]
    BY <1>1, <1>4 DEF Dealt
  <2>2. DOMAIN todo = {}
    BY <1>4 DEF Nothing
  <2> QED
    BY <1>2, <2>1, <2>2 DEF Writer, Task, HasDealt
<1> QED
  BY <1>3, <1>4

LEMMA DealtTask ==
    ASSUME NEW j, Writer(j), Task(j), j.at \in {"scan", "save"}, j.op = "update",
           NEW left, NEW k, k = Dealt(j, left),
           DOMAIN left \subseteq DOMAIN j.left \union {Sought(j)},
           \A m \in DOMAIN left : left[m] = j.asked[m]
    PROVE  Task(k) /\ DayIn(k) = DayIn(j)
<1>0. HasDealt(j, left, k)
  BY DealtIs
<1>1. /\ k.op = j.op /\ k.asked = j.asked /\ k.own = j.own /\ k.left = left
      /\ k.file = j.file /\ DOMAIN k.todo = DOMAIN j.todo \ {Sought(j)}
      /\ "asked" \in DOMAIN k
      /\ \/ k.at = "scan"
         \/ k.at = "append" /\ DOMAIN k.todo = {}
  BY <1>0 DEF HasDealt
<1>2. DayIn(k) = DayIn(j)
  BY <1>1, SameDay
<1>3. Sought(j) \in DOMAIN j.asked
  BY SoughtAsked DEF Writer
<1>4. DOMAIN k.left \intersect DOMAIN k.todo = {} /\ DOMAIN k.left \subseteq DOMAIN k.asked
  BY <1>1, <1>3 DEF Task
<1> QED
  BY <1>1, <1>2, <1>4 DEF Task

\* Nothing but the message that is sought is elsewhere in the files than before,
\* and that is where it should be.
RestUndisturbed(j, N, K) ==
    /\ \A m \in Message : DayOf(m) = DayIn(j) /\ m # Sought(j) => Undisturbed(N, K, m)
    /\ \A f \in File : f[1] = DayIn(j) /\ f \notin j.own => K[f] = N[f]

DealtRight(j, left, K, want) ==
    \/ /\ DOMAIN left = DOMAIN j.left \union {Sought(j)}
       /\ Sought(j) \notin DOMAIN want /\ Places(K, Sought(j)) = {}
    \/ /\ DOMAIN left = DOMAIN j.left
       /\ Sits(K, Sought(j),
               (Sought(j) \in DOMAIN want /\ want[Sought(j)]) \/ j.asked[Sought(j)])

LEMMA DealtSteady ==
    ASSUME NEW j, Writer(j), Task(j), j.at \in {"scan", "save"}, j.op = "update",
           NEW left, NEW k, k = Dealt(j, left),
           NEW N, NEW want, Steady(j, N, want), NEW K,
           RestUndisturbed(j, N, K), DealtRight(j, left, K, want)
    PROVE  Steady(k, K, want)
<1>0. HasDealt(j, left, k)
  BY DealtIs
<1>1. /\ k.asked = j.asked /\ k.own = j.own /\ k.left = left
      /\ DOMAIN k.todo = DOMAIN j.todo \ {Sought(j)}
      /\ \/ k.at = "scan" /\ k.files = j.own /\ k.others = FALSE
         \/ k.at = "append"
  BY <1>0 DEF HasDealt
<1>2. DayIn(k) = DayIn(j)
  BY <1>1, SameDay
<1>3. /\ Sought(j) \in DOMAIN j.todo /\ Sought(j) \in DOMAIN j.asked
      /\ DOMAIN j.left \intersect DOMAIN j.todo = {}
  BY SoughtAsked DEF Writer, Task
<1>r. \/ /\ DOMAIN left = DOMAIN j.left \union {Sought(j)}
         /\ Sought(j) \notin DOMAIN want /\ Places(K, Sought(j)) = {}
      \/ /\ DOMAIN left = DOMAIN j.left
         /\ Sits(K, Sought(j),
                 (Sought(j) \in DOMAIN want /\ want[Sought(j)]) \/ j.asked[Sought(j)])
  BY DEF DealtRight
<1>u. /\ \A m \in Message : DayOf(m) = DayIn(j) /\ m # Sought(j) =>
            /\ Places(K, m) = Places(N, m)
            /\ \A mark : Sits(N, m, mark) => Sits(K, m, mark)
      /\ \A f \in File : f[1] = DayIn(j) /\ f \notin j.own => K[f] = N[f]
  BY DEF RestUndisturbed, Undisturbed
<1>s. Stands(j, N, want) /\ Sees(j, N)
  BY DEF Steady
<1>4. ASSUME NEW m \in DoneWith(k)
      PROVE  Sits(K, m, (m \in DOMAIN want /\ want[m]) \/ k.asked[m])
  <2>1. CASE m = Sought(j)
    <3>1. m \notin DOMAIN left
      BY <1>1, <1>4 DEF DoneWith
    <3> QED
      BY <1>1, <2>1, <3>1, <1>r
  <2>2. CASE m # Sought(j)
    <3>1. m \in DoneWith(j) /\ m \in DOMAIN j.asked
      BY <1>1, <1>4, <1>r, <2>2 DEF DoneWith
    <3>2. Sits(N, m, (m \in DOMAIN want /\ want[m]) \/ j.asked[m])
      BY <1>s, <3>1 DEF Stands
    <3>3. m \in Message /\ DayOf(m) = DayIn(j)
      BY <3>1, DoneOfDay
    <3> QED
      BY <1>1, <1>u, <2>2, <3>2, <3>3
  <2> QED
    BY <2>1, <2>2
<1>5. ASSUME NEW m \in Message, DayOf(m) = DayIn(j), m \notin DoneWith(k)
      PROVE  Kept(K, want, m)
  <2>1. CASE m = Sought(j)
    <3>1. m \in DOMAIN left
      BY <1>1, <1>3, <1>5, <2>1 DEF DoneWith
    <3>2. m \notin DOMAIN j.left
      BY <1>3, <2>1
    <3> QED
      BY <1>r, <2>1, <3>1, <3>2 DEF Kept
  <2>2. CASE m # Sought(j)
    <3>1. m \notin DoneWith(j)
      BY <1>1, <1>5, <1>r, <2>2 DEF DoneWith
    <3>2. Kept(N, want, m)
      BY <1>s, <1>5, <3>1 DEF Stands
    <3> QED
      BY <1>5, <1>u, <2>2, <3>2 DEF Kept
  <2> QED
    BY <2>1, <2>2
<1>6. \A m \in DOMAIN k.left : m \notin DOMAIN want
  <2>1. \A m \in DOMAIN j.left : m \notin DOMAIN want
    BY <1>s DEF Stands
  <2> QED
    BY <1>1, <1>r, <2>1
<1>7. Stands(k, K, want)
  BY <1>2, <1>4, <1>5, <1>6 DEF Stands
<1>8. Sees(k, K)
  <2>1. \A f \in File : f[1] = DayIn(j) /\ f \notin j.own => DOMAIN K[f] = {}
    BY <1>s, <1>u DEF Sees
  <2> QED
    BY <1>1, <1>2, <2>1 DEF Sees
<1> QED
  BY <1>7, <1>8 DEF Steady

\* What is saved
LEMMA ChangedIs ==
    ASSUME NEW j, Writer(j), Task(j), j.at = "save", NEW c, c = Changed(j)
    PROVE  /\ c \in Content /\ OfDay(c, DayIn(j))
           /\ \A m \in DOMAIN j.data : m # Sought(j) => m \in DOMAIN c /\ c[m] = j.data[m]
           /\ j.op # "remove" =>
                /\ DOMAIN c = DOMAIN j.data
                /\ c[Sought(j)] = (j.data[Sought(j)] \/ j.asked[Sought(j)])
           /\ j.op = "remove" => DOMAIN c = DOMAIN j.data \ {Sought(j)}
<1>1. Sought(j) \in DOMAIN j.data /\ OfDay(j.data, DayIn(j))
  BY DEF Writer, Task
<1>2. Sought(j) \in DOMAIN j.asked /\ j.asked[Sought(j)] \in BOOLEAN
  BY SoughtAsked, DoneOfDay DEF Writer
<1>3. \A m \in DOMAIN j.data :
        m \in Message /\ DayOf(m) = DayIn(j) /\ j.data[m] \in BOOLEAN
  BY <1>1 DEF OfDay
<1>4. CASE j.op = "remove"
  <2>1. c = [m \in DOMAIN j.data \ {Sought(j)} |-> j.data[m]]
    BY <1>4 DEF Changed, Without, Restrict
  <2>2. PICK S \in SUBSET Message : S = DOMAIN j.data \ {Sought(j)}
    BY <1>3
  <2>3. c \in [S -> BOOLEAN]
    BY <1>3, <2>1, <2>2
  <2>4. c \in Content
    BY <2>3 DEF Content
  <2>5. OfDay(c, DayIn(j))
    BY <1>3, <2>1 DEF OfDay
  <2> QED
    BY <1>4, <2>1, <2>4, <2>5
<1>5. CASE j.op # "remove"
  <2>1. PICK some : some = Restrict(j.asked, {Sought(j)})
    OBVIOUS
  <2>2. DOMAIN some = {Sought(j)} /\ some[Sought(j)] = j.asked[Sought(j)]
    BY <2>1 DEF Restrict
  <2>3. c = Merged(j.data, some)
    BY <1>5, <2>1 DEF Changed
  <2>4. DOMAIN j.data \union DOMAIN some = DOMAIN j.data
    BY <1>1, <2>2
  <2>5. c = [m \in DOMAIN j.data |->
                j.data[m] \/ (m \in DOMAIN some /\ some[m])]
    BY <2>3, <2>4 DEF Merged
  <2>6. \A m \in DOMAIN j.data :
            c[m] = IF m = Sought(j) THEN j.data[m] \/ j.asked[m] ELSE j.data[m]
    BY <1>3, <2>2, <2>5
  <2>7. PICK S \in SUBSET Message : S = DOMAIN j.data
    BY <1>3
  <2>8. c \in [S -> BOOLEAN]
    BY <1>2, <1>3, <2>5, <2>6, <2>7
  <2>9. c \in Content
    BY <2>8 DEF Content
  <2>10. OfDay(c, DayIn(j))
    BY <1>2, <1>3, <2>5, <2>6 DEF OfDay
  <2> QED
    BY <1>1, <1>5, <2>5, <2>6, <2>9, <2>10
<1> QED
  BY <1>4, <1>5

\* The message found is in that file only, as it was stored.
LEMMA FoundIs ==
    ASSUME NEW j, Writer(j), Task(j), j.at = "save",
           NEW N, NEW want, Steady(j, N, want)
    PROVE  /\ Places(N, Sought(j)) = {j.file} /\ j.file \in j.own
           /\ Sought(j) \in DOMAIN want
           /\ N[j.file] = j.data /\ j.data[Sought(j)] = want[Sought(j)]
<1>1. /\ Sought(j) \in DOMAIN j.data /\ Sought(j) \in DOMAIN j.todo
      /\ Sought(j) \in DOMAIN j.asked
  BY SoughtAsked DEF Writer
<1>2. /\ N[j.file] = j.data /\ j.file \in File /\ j.file[1] = DayIn(j)
      /\ Sought(j) \in Message /\ DayOf(Sought(j)) = DayIn(j)
  BY <1>1, DoneOfDay DEF Steady, Sees, Task
<1>3. j.file \in j.own
  BY <1>1, <1>2 DEF Steady, Sees
<1>4. j.file \in Places(N, Sought(j))
  BY <1>1, <1>2 DEF Places
<1>5. Kept(N, want, Sought(j))
  BY <1>1, <1>2 DEF Steady, Stands, DoneWith
<1> QED
  BY <1>2, <1>3, <1>4, <1>5 DEF Kept, Sits

LEMMA SaveStores ==
    ASSUME StoreInv, NEW t \in Thread, Save(t)
    PROVE  StoreInv'
<1>j. PICK j : j = thread[t]
  OBVIOUS
<1>k. PICK c : c = Changed(j)
  OBVIOUS
<1>s. PICK s : s = Sought(j)
  OBVIOUS
<1>c. ChunkInv /\ ChunkInv'
  BY SaveKeeps DEF StoreInv
<1>1. Writer(j) /\ Task(j) /\ Writes(j) /\ j.at = "save"
  BY <1>c, <1>j, WriterIs DEF Save, StoreInv, AllTasks
<1>2. j.file \in File /\ j.file[1] = DayIn(j) /\ s \in DOMAIN j.data
  BY <1>1, <1>s DEF Task, Writer
<1>3. /\ c \in Content /\ OfDay(c, DayIn(j))
      /\ \A m \in DOMAIN j.data : m # s => m \in DOMAIN c /\ c[m] = j.data[m]
      /\ j.op # "remove" =>
           /\ DOMAIN c = DOMAIN j.data
           /\ c[s] = (j.data[s] \/ j.asked[s])
      /\ j.op = "remove" => DOMAIN c = DOMAIN j.data \ {s}
  BY <1>1, <1>k, <1>s, ChangedIs
<1>4. Pend(j.file, c) /\ UNCHANGED <<disk, flying>>
  BY <1>j, <1>k DEF Save
<1>5. /\ \A g \in File : FileOfDay(g)'
      /\ Contents' = [Contents EXCEPT ![j.file] = c]
  BY <1>c, <1>2, <1>3, <1>4, FilesPut DEF StoreInv, ChunkInv
<1>n. PICK N, K : N = Contents /\ K = Contents'
  OBVIOUS
<1>6. DOMAIN N = File /\ K = [N EXCEPT ![j.file] = c]
  BY <1>5, <1>n DEF Contents
<1>7. \A d : d # DayIn(j) => SameFiles(N, K, d)
  BY <1>2, <1>6, PutsElsewhere
<1>8. upset' = upset
  BY DEF Save
<1>9. \A m \in DOMAIN stored : stored[m] \in BOOLEAN
  BY DEF StoreInv
\* When nothing disturbed it, the message was there.
<1>10. ASSUME DayIn(j) \in Day \ upset
       PROVE  /\ Steady(j, N, stored)
              /\ Places(N, s) = {j.file} /\ j.file \in j.own
              /\ s \in DOMAIN stored
              /\ N[j.file] = j.data /\ j.data[s] = stored[s]
  <2>1. Steady(j, N, stored)
    BY <1>1, <1>j, <1>n, <1>10 DEF StoreInv, DaysSound, DaySound, Works
  <2> QED
    BY <1>1, <1>s, <2>1, FoundIs
<1>11. ASSUME DayIn(j) \in Day \ upset, NEW m \in Message, m # s
       PROVE  Undisturbed(N, K, m)
  <2>1. /\ m \in DOMAIN c <=> m \in DOMAIN N[j.file]
        /\ m \in DOMAIN c => c[m] = N[j.file][m]
    BY <1>3, <1>10, <1>11
  <2> QED
    BY <1>2, <1>6, <2>1, PutKeeps
<1>d. s \in DOMAIN j.asked /\ s \in Message /\ DayOf(s) = DayIn(j)
  BY <1>1, <1>s, SoughtAsked, DoneOfDay DEF Writer
<1>12. CASE j.op = "update"
  <2>1. PICK k : k = Dealt(j, j.left)
    OBVIOUS
  <2>2. Set(t, k) /\ stored' = stored
    BY <1>j, <1>12, <2>1 DEF Save
  <2>3. /\ DOMAIN j.left \subseteq DOMAIN j.left \union {Sought(j)}
        /\ \A m \in DOMAIN j.left : j.left[m] = j.asked[m]
    BY <1>1 DEF Task
  <2>4. Task(k) /\ DayIn(k) = DayIn(j)
    BY <1>1, <1>12, <2>1, <2>3, DealtTask
  <2>5. ASSUME DayIn(j) \in Day \ upset PROVE Steady(k, K, stored)
    <3>1. Sits(K, s, c[s])
      BY <1>2, <1>3, <1>6, <1>10, <1>12, <1>d, <2>5, PutAdds
    <3>2. c[s] = ((s \in DOMAIN stored /\ stored[s]) \/ j.asked[s])
      BY <1>3, <1>9, <1>10, <1>12, <2>5
    <3>3. Sits(K, s, (s \in DOMAIN stored /\ stored[s]) \/ j.asked[s])
      BY <3>1, <3>2
    <3>4. \A f \in File : f[1] = DayIn(j) /\ f \notin j.own => K[f] = N[f]
      BY <1>6, <1>10, <2>5
    <3>5. Steady(j, N, stored)
      BY <1>10, <2>5
    <3>6. RestUndisturbed(j, N, K)
      BY <1>11, <1>s, <2>5, <3>4 DEF RestUndisturbed
    <3>7. DealtRight(j, j.left, K, stored)
      BY <1>s, <3>3 DEF DealtRight
    <3> QED
      BY <1>1, <1>12, <2>1, <3>5, <3>6, <3>7, DealtSteady
  <2>6. DayIn(j) \in Day \ upset' => Arrives(DayIn(j), k, Contents', stored')
    BY <1>8, <1>n, <2>2, <2>4, <2>5, TaskWrites DEF Arrives, Writes
  <2>7. OtherDaysSame(DayIn(j), Contents, Contents', stored, stored')
    BY <1>7, <1>n, <2>2 DEF OtherDaysSame, SameWanted
  <2>8. \A m \in DOMAIN stored' : stored'[m] \in BOOLEAN
    BY <1>9, <2>2
  <2> QED
    BY <1>c, <1>j, <1>1, <1>5, <1>8, <2>2, <2>4, <2>6, <2>7, <2>8, Moves
<1>13. CASE j.op # "update"
  <2>1. PICK other : other = Outcome(j)
    OBVIOUS
  <2>2. Set(t, Idle) /\ stored' = other
    BY <1>j, <1>13, <2>1 DEF Save, Done
  <2>3. /\ \A m \in DOMAIN other : other[m] \in BOOLEAN
        /\ \A d : d # DayIn(j) => SameWanted(stored, other, d)
        /\ j.op = "mark" =>
                /\ DOMAIN other = DOMAIN stored
                /\ s \in DOMAIN stored => other[s] = TRUE
                /\ \A m \in DOMAIN stored \ {s} : other[m] = stored[m]
        /\ j.op = "remove" =>
                /\ DOMAIN other = DOMAIN stored \ {s}
                /\ \A m \in DOMAIN other : other[m] = stored[m]
    <3>1. Leaves(j, stored, other)
      BY <1>1, <1>9, <2>1, Outcomes
    <3> QED
      BY <1>s, <3>1 DEF Leaves
  <2>4. ASSUME DayIn(j) \in Day \ upset, NEW m \in Message, DayOf(m) = DayIn(j)
        PROVE  Kept(K, other, m)
    <3>0. DoneWith(j) = {} /\ j.op \in {"mark", "remove"}
      BY <1>1, <1>13 DEF Task, DoneWith
    <3>1. CASE m # s
      <4>1. Kept(N, stored, m)
        BY <1>10, <2>4, <3>0 DEF Steady, Stands
      <4>2. /\ m \in DOMAIN other <=> m \in DOMAIN stored
            /\ m \in DOMAIN stored => other[m] = stored[m]
        BY <2>3, <3>0, <3>1
      <4> QED
        BY <1>11, <2>4, <3>1, <4>1, <4>2 DEF Kept, Undisturbed
    <3>2. CASE m = s /\ j.op = "mark"
      <4>1. c[s] = TRUE
        <5>1. j.asked[s] = TRUE /\ j.data[s] = stored[s] /\ stored[s] \in BOOLEAN
          BY <1>1, <1>9, <1>10, <1>13, <1>s, <2>4 DEF Task
        <5> QED
          BY <1>3, <3>2, <5>1
      <4>2. Sits(K, s, c[s])
        BY <1>2, <1>3, <1>6, <1>10, <1>d, <2>4, <3>2, PutAdds
      <4> QED
        BY <1>10, <2>3, <2>4, <3>2, <4>1, <4>2 DEF Kept
    <3>3. CASE m = s /\ j.op = "remove"
      <4>0. s \notin DOMAIN c /\ Places(N, s) \subseteq {j.file}
        BY <1>3, <1>10, <2>4, <3>3
      <4>1. Places(K, s) = {}
        BY <1>2, <1>6, <4>0 DEF Places
      <4> QED
        BY <2>3, <3>3, <4>1 DEF Kept
    <3> QED
      BY <3>0, <3>1, <3>2, <3>3
  <2>5. DayIn(j) \in Day \ upset' => Arrives(DayIn(j), Idle, Contents', stored')
    BY <1>8, <1>n, <2>2, <2>4 DEF Arrives
  <2>6. OtherDaysSame(DayIn(j), Contents, Contents', stored, stored')
    BY <1>7, <1>n, <2>2, <2>3 DEF OtherDaysSame
  <2>7. \A m \in DOMAIN stored' : stored'[m] \in BOOLEAN
    BY <2>2, <2>3
  <2> QED
    BY <1>c, <1>j, <1>1, <1>5, <1>8, <2>2, <2>5, <2>6, <2>7, Moves
<1> QED
  BY <1>12, <1>13

\* All files have been looked through.
LEMMA NotFound ==
    ASSUME NEW j, Writer(j), Task(j), j.at = "scan", j.files = {},
           NEW N, NEW want, Steady(j, N, want)
    PROVE  Places(N, Sought(j)) = {} /\ Sought(j) \notin DOMAIN want
<1>1. Sought(j) \in DOMAIN j.todo /\ Sought(j) \in DOMAIN j.asked
  BY SoughtAsked DEF Writer
<1>2. Sought(j) \in Message /\ DayOf(Sought(j)) = DayIn(j)
  BY <1>1, DoneOfDay
<1>3. \A f \in File : f[1] = DayIn(j) => Sought(j) \notin DOMAIN N[f]
  BY DEF Steady, Sees
<1>4. Places(N, Sought(j)) = {}
  BY <1>2, <1>3 DEF Places
<1>5. Kept(N, want, Sought(j))
  BY <1>1, <1>2 DEF Steady, Stands, DoneWith
<1> QED
  BY <1>4, <1>5 DEF Kept, Sits

\* The files of other days are looked through as well.
LEMMA OthersToo ==
    ASSUME NEW j, Writer(j), Task(j), j.at = "scan", j.files = {}, NEW more,
           NEW k, k = [j EXCEPT !.others = TRUE, !.files = more]
    PROVE  Task(k) /\ DayIn(k) = DayIn(j)
<1>1. /\ k.at = j.at /\ k.op = j.op /\ k.asked = j.asked /\ k.todo = j.todo
      /\ k.own = j.own /\ k.left = j.left /\ k.file = j.file /\ k.data = j.data
      /\ k.others = TRUE /\ "asked" \in DOMAIN k
  BY DEF Writer, Task
<1>2. DayIn(k) = DayIn(j) /\ Sought(k) = Sought(j)
  BY <1>1, SameDay, SameSought
<1>3. Task(k)
  BY <1>1, <1>2 DEF Task
<1> QED
  BY <1>2, <1>3

LEMMA OthersSteady ==
    ASSUME NEW j, Writer(j), Task(j), j.at = "scan", j.files = {}, NEW more,
           NEW k, k = [j EXCEPT !.others = TRUE, !.files = more],
           NEW N, NEW want, Steady(j, N, want)
    PROVE  Steady(k, N, want)
<1>1. /\ k.at = j.at /\ k.asked = j.asked /\ k.todo = j.todo
      /\ k.own = j.own /\ k.left = j.left /\ k.others = TRUE
  BY DEF Writer, Task
<1>2. DayIn(k) = DayIn(j) /\ Sought(k) = Sought(j)
  BY <1>1, SameDay, SameSought
<1>3. Stands(k, N, want)
  BY <1>1, <1>2 DEF Steady, Stands, DoneWith
<1>4. Sees(k, N)
  BY <1>1, <1>2 DEF Steady, Sees
<1> QED
  BY <1>3, <1>4 DEF Steady

LEMMA MissingStores ==
    ASSUME StoreInv, NEW t \in Thread, Missing(t)
    PROVE  StoreInv'
<1>j. PICK j : j = thread[t]
  OBVIOUS
<1>s. PICK s : s = Sought(j)
  OBVIOUS
<1>n. PICK N : N = Contents
  OBVIOUS
<1>c. ChunkInv /\ ChunkInv'
  BY MissingKeeps DEF StoreInv
<1>1. Writer(j) /\ Task(j) /\ Writes(j) /\ j.at = "scan" /\ j.files = {}
  BY <1>c, <1>j, WriterIs DEF Missing, StoreInv, AllTasks
<1>d. s \in DOMAIN j.todo /\ s \in DOMAIN j.asked /\ s \in Message
      /\ DayOf(s) = DayIn(j)
  BY <1>1, <1>s, SoughtAsked, DoneOfDay DEF Writer
<1>2. UNCHANGED files /\ upset' = upset
  BY DEF Missing
<1>3. (\A f \in File : FileOfDay(f)') /\ Contents' = Contents
  BY <1>2, FilesStay DEF StoreInv
<1>4. \A m \in DOMAIN stored : stored[m] \in BOOLEAN
  BY DEF StoreInv
<1>5. ASSUME DayIn(j) \in Day \ upset
      PROVE  Steady(j, N, stored) /\ Places(N, s) = {} /\ s \notin DOMAIN stored
  <2>1. Steady(j, N, stored)
    BY <1>1, <1>j, <1>n, <1>5 DEF StoreInv, DaysSound, DaySound, Works
  <2> QED
    BY <1>1, <1>s, <2>1, NotFound
<1>6. CASE j.op # "update"
  <2>1. PICK other : other = Outcome(j)
    OBVIOUS
  <2>2. Set(t, Idle) /\ stored' = other
    BY <1>j, <1>6, <2>1 DEF Missing, Done
  <2>3. Leaves(j, stored, other)
    BY <1>1, <1>4, <2>1, Outcomes
  <2>4. ASSUME DayIn(j) \in Day \ upset, NEW m \in Message, DayOf(m) = DayIn(j)
        PROVE  Kept(N, other, m)
    <3>1. DoneWith(j) = {} /\ j.op \in {"mark", "remove"}
      BY <1>1, <1>6 DEF Task, DoneWith
    <3>2. Kept(N, stored, m)
      BY <1>5, <2>4, <3>1 DEF Steady, Stands
    <3>3. /\ m \in DOMAIN other <=> m \in DOMAIN stored
          /\ m \in DOMAIN stored => other[m] = stored[m]
      BY <1>5, <1>s, <2>3, <2>4, <3>1 DEF Leaves
    <3> QED
      BY <3>2, <3>3 DEF Kept
  <2>5. DayIn(j) \in Day \ upset' => Arrives(DayIn(j), Idle, Contents', stored')
    BY <1>2, <1>3, <1>n, <2>2, <2>4 DEF Arrives
  <2>6. OtherDaysSame(DayIn(j), Contents, Contents', stored, stored')
    BY <1>3, <2>2, <2>3 DEF OtherDaysSame, Leaves, SameFiles
  <2>7. \A m \in DOMAIN stored' : stored'[m] \in BOOLEAN
    BY <2>2, <2>3 DEF Leaves
  <2> QED
    BY <1>c, <1>j, <1>1, <1>2, <1>3, <2>2, <2>5, <2>6, <2>7, Moves
<1>7. ASSUME j.op = "update", UNCHANGED stored, NEW k, Set(t, k),
             Task(k), DayIn(k) = DayIn(j),
             DayIn(j) \in Day \ upset => Steady(k, N, stored)
      PROVE  StoreInv'
  <2>1. DayIn(j) \in Day \ upset' => Arrives(DayIn(j), k, Contents', stored')
    BY <1>2, <1>3, <1>n, <1>7, TaskWrites DEF Arrives, Writes
  <2>2. OtherDaysSame(DayIn(j), Contents, Contents', stored, stored')
    BY <1>3, <1>7 DEF OtherDaysSame, SameWanted, SameFiles
  <2>3. \A m \in DOMAIN stored' : stored'[m] \in BOOLEAN
    BY <1>4, <1>7
  <2> QED
    BY <1>c, <1>j, <1>1, <1>2, <1>3, <1>7, <2>1, <2>2, <2>3, Moves
<1>8. CASE j.op = "update" /\ ~j.others /\ Listed \ j.own # {}
  <2>1. PICK k : k = [j EXCEPT !.others = TRUE, !.files = Listed \ j.own]
    OBVIOUS
  <2>2. Set(t, k) /\ stored' = stored
    BY <1>j, <1>8, <2>1 DEF Missing
  <2>3. PICK more : more = Listed \ j.own
    OBVIOUS
  <2>4. k = [j EXCEPT !.others = TRUE, !.files = more]
    BY <2>1, <2>3
  <2>5. Task(k) /\ DayIn(k) = DayIn(j)
    BY <1>1, <2>4, OthersToo
  <2>6. ASSUME DayIn(j) \in Day \ upset PROVE Steady(k, N, stored)
    <3>1. Steady(j, N, stored)
      BY <1>5, <2>6
    <3> QED
      BY ZenonT(40), <1>1, <2>4, <3>1, OthersSteady
  <2> QED
    BY <1>7, <1>8, <2>2, <2>5, <2>6
<1>9. CASE j.op = "update" /\ ~(~j.others /\ Listed \ j.own # {})
  <2>1. PICK left : left = Merged(j.left, Restrict(j.asked, {s}))
    OBVIOUS
  <2>2. PICK k : k = Dealt(j, left)
    OBVIOUS
  <2>3. Set(t, k) /\ stored' = stored
    BY <1>j, <1>s, <1>9, <2>1, <2>2 DEF Missing
  <2>4. /\ DOMAIN left = DOMAIN j.left \union {Sought(j)}
        /\ \A m \in DOMAIN left : left[m] = j.asked[m]
    <3>1. PICK some : some = Restrict(j.asked, {s})
      OBVIOUS
    <3>2. DOMAIN some = {s} /\ some[s] = j.asked[s]
      BY <3>1 DEF Restrict
    <3>3. /\ DOMAIN j.left \subseteq DOMAIN j.asked
          /\ \A m \in DOMAIN j.left : j.left[m] = j.asked[m]
          /\ \A m \in DOMAIN j.asked : j.asked[m] \in BOOLEAN
          /\ DOMAIN j.left \intersect DOMAIN j.todo = {}
      BY <1>1 DEF Task, OfDay
    <3>4. left = Merged(j.left, some)
      BY <2>1, <3>1
    <3> QED
      BY <1>d, <1>s, <3>2, <3>3, <3>4 DEF Merged
  <2>5. Task(k) /\ DayIn(k) = DayIn(j)
    BY <1>1, <1>9, <2>2, <2>4, DealtTask
  <2>6. ASSUME DayIn(j) \in Day \ upset PROVE Steady(k, N, stored)
    <3>1. RestUndisturbed(j, N, N)
      BY DEF RestUndisturbed, Undisturbed
    <3>2. DealtRight(j, left, N, stored)
      BY <1>5, <1>s, <2>4, <2>6 DEF DealtRight
    <3>3. Steady(j, N, stored)
      BY <1>5, <2>6
    <3> QED
      BY <1>1, <1>9, <2>2, <3>1, <3>2, <3>3, DealtSteady
  <2> QED
    BY <1>7, <1>9, <2>3, <2>5, <2>6
<1> QED
  BY <1>6, <1>8, <1>9

\* No file of the day that comes after the last was there at the beginning.
LEMMA NoneAfterLast ==
    ASSUME NEW S, S \subseteq File, S # {}, NEW d, \A g \in S : g[1] = d,
           NEW f \in File, f[2] > Latest(S)[2]
    PROVE  f \notin S
<1>1. Latest(S) \in S /\ \A g \in S \ {Latest(S)} : Before(g, Latest(S))
  BY LatestIsThere
<1>2. f[2] \in Nat /\ Latest(S)[2] \in Nat /\ Latest(S)[1] = d /\ d \in Nat
  BY <1>1, Assumptions DEF File, Day, Assumptions
<1>3. f # Latest(S)
  BY <1>2
<1> QED
  BY <1>1, <1>2, <1>3 DEF Before

\* A command that has nothing left to do has done what it should.
LEMMA EndsKept ==
    ASSUME NEW j, Task(j), j.op = "update", DOMAIN j.todo = {}, DOMAIN j.left = {},
           NEW N, NEW want, Stands(j, N, want), NEW other, Leaves(j, want, other),
           NEW m \in Message, DayOf(m) = DayIn(j)
    PROVE  Kept(N, other, m)
<1>1. DoneWith(j) = DOMAIN j.asked
  BY DEF DoneWith
<1>2. CASE m \in DOMAIN j.asked
  <2>1. Sits(N, m, (m \in DOMAIN want /\ want[m]) \/ j.asked[m])
    BY <1>1, <1>2 DEF Stands
  <2>2. /\ m \in DOMAIN other
        /\ other[m] = ((m \in DOMAIN want /\ want[m]) \/ j.asked[m])
    BY <1>2 DEF Leaves
  <2> QED
    BY <2>1, <2>2 DEF Kept
<1>3. CASE m \notin DOMAIN j.asked
  <2>1. Kept(N, want, m)
    BY <1>1, <1>3 DEF Stands
  <2>2. /\ m \in DOMAIN other <=> m \in DOMAIN want
        /\ m \in DOMAIN want => other[m] = want[m]
    BY <1>3 DEF Leaves
  <2> QED
    BY <2>1, <2>2 DEF Kept
<1> QED
  BY <1>2, <1>3

\* What b has and `some' make c.
Adds(b, some, c) ==
    /\ DOMAIN c = DOMAIN b \union DOMAIN some
    /\ \A m \in DOMAIN some : m \notin DOMAIN b => c[m] = some[m]
    /\ \A m \in DOMAIN c \ DOMAIN some : c[m] = b[m]

\* Some of the messages of c
PartOf(some, c) ==
    DOMAIN some \subseteq DOMAIN c /\ \A m \in DOMAIN some : some[m] = c[m]

\* Command k is command j, with `some' of what was left placed in file f.
LEMMA PlacedStands ==
    ASSUME NEW j, Task(j), DOMAIN j.todo = {},
           NEW some, PartOf(some, j.left), NEW k, k.asked = j.asked, k.todo = j.todo,
           DOMAIN k.left = DOMAIN j.left \ DOMAIN some,
           NEW N, DOMAIN N = File, NEW f \in File, f[1] = DayIn(j),
           NEW c, Adds(N[f], some, c), NEW K, K = [N EXCEPT ![f] = c],
           NEW want, Stands(j, N, want)
    PROVE  Stands(k, K, want)
<1>p. /\ DOMAIN some \subseteq DOMAIN j.left
      /\ \A m \in DOMAIN some : some[m] = j.asked[m]
  BY DEF PartOf, Task
<1>1. DayIn(k) = DayIn(j)
  BY SameDay
<1>2. DoneWith(k) = DoneWith(j) \union DOMAIN some
  BY <1>p DEF DoneWith, Task
<1>3. \A m \in DOMAIN some : m \in Message /\ DayOf(m) = DayIn(j) /\ m \notin DoneWith(j)
  BY <1>p, DoneOfDay DEF DoneWith, Task
<1>4. ASSUME NEW m \in DOMAIN some
      PROVE  Sits(K, m, (m \in DOMAIN want /\ want[m]) \/ j.asked[m])
  <2>1. m \notin DOMAIN want /\ Kept(N, want, m)
    BY <1>3, <1>4, <1>p DEF Stands
  <2>2. Places(N, m) = {} /\ DayOf(m) = f[1]
    BY <1>3, <2>1 DEF Kept
  <2>3. m \notin DOMAIN N[f]
    BY <2>2 DEF Places
  <2>4. m \in DOMAIN c /\ c[m] = j.asked[m] /\ j.asked[m] \in BOOLEAN
    BY <1>p, <2>3, DoneOfDay DEF Adds, Task
  <2>5. Places(N, m) \subseteq {f}
    BY <2>2
  <2>6. Sits(K, m, c[m])
    BY <2>2, <2>4, <2>5, PutAdds
  <2> QED
    BY <2>1, <2>4, <2>6
<1>5. ASSUME NEW m, m \notin DOMAIN some PROVE Undisturbed(N, K, m)
  <2>1. /\ m \in DOMAIN c <=> m \in DOMAIN N[f]
        /\ m \in DOMAIN c => c[m] = N[f][m]
    BY <1>5 DEF Adds
  <2> QED
    BY <2>1, PutKeeps
<1>6. ASSUME NEW m \in DoneWith(k)
      PROVE  Sits(K, m, (m \in DOMAIN want /\ want[m]) \/ k.asked[m])
  <2>1. CASE m \in DOMAIN some
    BY <1>4, <2>1
  <2>2. CASE m \notin DOMAIN some
    <3>1. Sits(N, m, (m \in DOMAIN want /\ want[m]) \/ j.asked[m])
      BY <1>2, <1>6, <2>2 DEF Stands
    <3> QED
      BY <1>5, <2>2, <3>1 DEF Undisturbed
  <2> QED
    BY <2>1, <2>2
<1>7. ASSUME NEW m \in Message, DayOf(m) = DayIn(k), m \notin DoneWith(k)
      PROVE  Kept(K, want, m)
  <2>1. m \notin DOMAIN some /\ m \notin DoneWith(j)
    BY <1>2, <1>7
  <2>2. Kept(N, want, m)
    BY <1>1, <1>7, <2>1 DEF Stands
  <2> QED
    BY <1>5, <2>1, <2>2 DEF Kept, Undisturbed
<1>8. \A m \in DOMAIN k.left : m \notin DOMAIN want
  BY DEF Stands
<1> QED
  BY <1>6, <1>7, <1>8 DEF Stands

LEMMA OldestIs ==
    ASSUME NEW c, NEW n, NEW d, OfDay(c, d), NEW some, some = Oldest(c, n)
    PROVE  PartOf(some, c) /\ some \in Content /\ OfDay(some, d)
<1>1. PICK S \in SUBSET Message :
        S = {m \in DOMAIN c : Cardinality({x \in DOMAIN c : x < m}) < n}
  BY DEF OfDay
<1>2. S \subseteq DOMAIN c /\ some = [m \in S |-> c[m]]
  BY <1>1 DEF Oldest, Restrict
<1>3. some \in [S -> BOOLEAN]
  BY <1>2 DEF OfDay
<1>4. some \in Content
  BY <1>3 DEF Content
<1> QED
  BY <1>2, <1>4 DEF OfDay, PartOf

\* Two contents of a day together
LEMMA MergedOfDay ==
    ASSUME NEW b, NEW some, NEW d, OfDay(b, d), OfDay(some, d),
           NEW c, c = Merged(b, some)
    PROVE  c \in Content /\ OfDay(c, d) /\ Adds(b, some, c)
<1>1. PICK S \in SUBSET Message : S = DOMAIN b \union DOMAIN some
  BY DEF OfDay
<1>2. c = [m \in S |->
            (m \in DOMAIN b /\ b[m]) \/ (m \in DOMAIN some /\ some[m])]
  BY <1>1 DEF Merged
<1>3. c \in [S -> BOOLEAN]
  BY <1>2
<1>4. c \in Content
  BY <1>3 DEF Content
<1>5. \A m \in S : m \in Message /\ DayOf(m) = d
  BY <1>1 DEF OfDay
<1>6. OfDay(c, d)
  BY <1>2, <1>5 DEF OfDay
<1>7. /\ \A m \in DOMAIN some : m \notin DOMAIN b => c[m] = some[m]
      /\ \A m \in DOMAIN c \ DOMAIN some : c[m] = b[m]
  BY <1>1, <1>2 DEF OfDay
<1> QED
  BY <1>1, <1>2, <1>4, <1>6, <1>7 DEF Adds

\* Command j saves c, which has `some' of its messages.
LEMMA PlacesStore ==
    ASSUME StoreInv, ChunkInv', NEW t \in Thread, NEW j, j = thread[t], Writes(j),
           Writer(j), Task(j), j.at \in {"fill", "chunk"}, j.file \in File,
           NEW some, PartOf(some, j.left),
           NEW c \in Content, OfDay(c, DayIn(j)), Pend(j.file, c), Placed(t, some),
           UNCHANGED <<disk, flying, upset>>,
           Sees(j, Contents) => Adds(Contents[j.file], some, c)
    PROVE  StoreInv'
<1>1. /\ j.op = "update" /\ DOMAIN j.todo = {} /\ j.file[1] = DayIn(j)
      /\ \A m \in DOMAIN j.left : j.left[m] = j.asked[m]
  BY DEF Task
<1>n. PICK N, K : N = Contents /\ K = Contents'
  OBVIOUS
<1>2. /\ \A g \in File : FileOfDay(g)'
      /\ DOMAIN N = File /\ K = [N EXCEPT ![j.file] = c]
  <2>1. /\ \A g \in File : FileOfDay(g)'
        /\ Contents' = [Contents EXCEPT ![j.file] = c]
    BY <1>1, FilesPut DEF StoreInv, ChunkInv
  <2> QED
    BY <1>n, <2>1 DEF Contents
<1>3. \A d : d # DayIn(j) => SameFiles(N, K, d)
  BY <1>1, <1>2, PutsElsewhere
<1>4. \A m \in DOMAIN stored : stored[m] \in BOOLEAN
  BY DEF StoreInv
<1>5. PICK left : left = Restrict(j.left, DOMAIN j.left \ DOMAIN some)
  OBVIOUS
<1>6. PICK k : k = [j EXCEPT !.at = "chunk", !.left = left, !.file = NextName(j.file)]
  OBVIOUS
<1>7. /\ k.at = "chunk" /\ k.op = j.op /\ k.asked = j.asked /\ k.todo = j.todo
      /\ k.own = j.own /\ k.left = left /\ k.file = NextName(j.file)
      /\ "asked" \in DOMAIN k
  BY <1>6 DEF Writer, Task
<1>8. /\ DOMAIN left = DOMAIN j.left \ DOMAIN some
      /\ \A m \in DOMAIN left : left[m] = j.left[m]
  BY <1>5 DEF Restrict
<1>9. DayIn(k) = DayIn(j)
  BY <1>7, SameDay
<1>10. /\ k.file[1] = j.file[1] /\ k.file[2] = j.file[2] + 1 /\ j.file[2] \in Nat
       /\ k.file \in Day \X Nat
  BY <1>7 DEF NextName, Task
<1>11. Task(k)
  BY <1>1, <1>7, <1>8, <1>9, <1>10 DEF Task
<1>12. ASSUME DayIn(j) \in Day \ upset PROVE Steady(k, K, stored)
  <2>1. Steady(j, N, stored)
    BY <1>n, <1>12 DEF StoreInv, DaysSound, DaySound, Works
  <2>2. Stands(j, N, stored) /\ Sees(j, N) /\ Adds(N[j.file], some, c)
    BY <1>n, <2>1 DEF Steady
  <2>3. Stands(k, K, stored)
    <3>1. /\ k.asked = j.asked /\ k.todo = j.todo
          /\ DOMAIN k.left = DOMAIN j.left \ DOMAIN some
      BY <1>7, <1>8
    <3>2. DOMAIN j.todo = {} /\ j.file[1] = DayIn(j)
      BY <1>1
    <3>3. Stands(j, N, stored) /\ Adds(N[j.file], some, c)
      BY <2>2
    <3>4. PICK f \in File : f = j.file
      OBVIOUS
    <3>5. /\ f[1] = DayIn(j) /\ Adds(N[f], some, c)
          /\ DOMAIN N = File /\ K = [N EXCEPT ![f] = c]
      BY <1>2, <3>2, <3>3, <3>4
    <3> QED
      BY <3>1, <3>2, <3>3, <3>5, PlacedStands
  <2>4. ASSUME NEW f \in File, f[1] = DayIn(j), f[2] >= j.file[2] + 1
        PROVE  DOMAIN K[f] = {}
    <3>1. f[2] \in Nat
      BY Assumptions DEF File, Assumptions
    <3>2. f # j.file /\ f[2] > j.file[2] /\ f[2] >= j.file[2]
      BY <1>10, <2>4, <3>1
    <3>3. DOMAIN N[f] = {}
      BY <2>2, <2>4, <3>2 DEF Sees
    <3> QED
      BY <1>2, <3>2, <3>3
  <2>5. Sees(k, K)
    BY <1>7, <1>9, <1>10, <2>4 DEF Sees
  <2> QED
    BY <2>3, <2>5 DEF Steady
<1>13. CASE left # Nothing
  <2>1. Set(t, k) /\ stored' = stored
    BY <1>5, <1>6, <1>13 DEF Placed
  <2>2. DayIn(j) \in Day \ upset' => Arrives(DayIn(j), k, Contents', stored')
    BY <1>n, <1>11, <1>12, <2>1, TaskWrites DEF Arrives, Writes
  <2>3. OtherDaysSame(DayIn(j), Contents, Contents', stored, stored')
    BY <1>3, <1>n, <2>1 DEF OtherDaysSame, SameWanted
  <2>4. \A m \in DOMAIN stored' : stored'[m] \in BOOLEAN
    BY <1>4, <2>1
  <2> QED
    BY <1>2, <1>9, <1>11, <2>1, <2>2, <2>3, <2>4, Moves
<1>14. CASE left = Nothing
  <2>1. PICK other : other = Outcome(j)
    OBVIOUS
  <2>2. Set(t, Idle) /\ stored' = other
    BY <1>5, <1>14, <2>1 DEF Placed, Done
  <2>3. other = Outcome(k)
    BY <1>1, <1>7, <2>1 DEF Outcome
  <2>4. Leaves(k, stored, other)
    BY <1>4, <1>11, <2>3, Outcomes
  <2>5. DOMAIN k.left = {} /\ DOMAIN k.todo = {} /\ k.op = "update"
    BY <1>1, <1>7, <1>14 DEF Nothing
  <2>6. ASSUME DayIn(j) \in Day \ upset, NEW m \in Message, DayOf(m) = DayIn(j)
        PROVE  Kept(K, other, m)
    <3>1. Stands(k, K, stored)
      BY <1>12, <2>6 DEF Steady
    <3> QED
      BY <1>9, <1>11, <2>4, <2>5, <2>6, <3>1, EndsKept
  <2>7. DayIn(j) \in Day \ upset' => Arrives(DayIn(j), Idle, Contents', stored')
    BY <1>n, <2>2, <2>6 DEF Arrives
  <2>8. OtherDaysSame(DayIn(j), Contents, Contents', stored, stored')
    BY <1>3, <1>9, <1>n, <2>2, <2>4 DEF OtherDaysSame, Leaves
  <2>9. \A m \in DOMAIN stored' : stored'[m] \in BOOLEAN
    BY <2>2, <2>4 DEF Leaves
  <2> QED
    BY <1>2, <2>2, <2>7, <2>8, <2>9, Moves
<1> QED
  BY <1>13, <1>14

LEMMA FillStores ==
    ASSUME StoreInv, NEW t \in Thread, Fill(t)
    PROVE  StoreInv'
<1>j. PICK j : j = thread[t]
  OBVIOUS
<1>o. PICK some : some = Oldest(j.left, Room(j.data))
  OBVIOUS
<1>m. PICK c : c = Merged(j.data, some)
  OBVIOUS
<1>c. ChunkInv /\ ChunkInv'
  BY FillKeeps DEF StoreInv
<1>1. Writer(j) /\ Task(j) /\ Writes(j) /\ j.at = "fill"
  BY <1>c, <1>j, WriterIs DEF Fill, StoreInv, AllTasks
<1>2. OfDay(j.left, DayIn(j)) /\ OfDay(j.data, DayIn(j)) /\ j.file \in File
  BY <1>1 DEF Task, OfDay
<1>3. PartOf(some, j.left) /\ OfDay(some, DayIn(j))
  BY <1>2, <1>o, OldestIs
<1>4. c \in Content /\ OfDay(c, DayIn(j)) /\ Adds(j.data, some, c)
  BY <1>2, <1>3, <1>m, MergedOfDay
<1>5. Sees(j, Contents) => Adds(Contents[j.file], some, c)
  BY <1>1, <1>4 DEF Sees
<1>6. /\ Pend(j.file, c) /\ Placed(t, some) /\ UNCHANGED <<disk, flying, upset>>
  BY <1>j, <1>o, <1>m DEF Fill
<1> QED
  BY <1>c, <1>j, <1>1, <1>2, <1>3, <1>4, <1>5, <1>6, PlacesStore

LEMMA NewChunkStores ==
    ASSUME StoreInv, NEW t \in Thread, NewChunk(t)
    PROVE  StoreInv'
<1>j. PICK j : j = thread[t]
  OBVIOUS
<1>o. PICK some : some = Oldest(j.left, Limit)
  OBVIOUS
<1>c. ChunkInv /\ ChunkInv'
  BY NewChunkKeeps DEF StoreInv
<1>1. Writer(j) /\ Task(j) /\ Writes(j) /\ j.at = "chunk"
  BY <1>c, <1>j, WriterIs DEF NewChunk, StoreInv, AllTasks
<1>2. OfDay(j.left, DayIn(j))
  BY <1>1 DEF Task, OfDay
<1>3. PartOf(some, j.left) /\ some \in Content /\ OfDay(some, DayIn(j))
  BY <1>2, <1>o, OldestIs
<1>4. j.file \in File
  <2>1. DayIn(j) \in Day
    BY <1>1 DEF Task, OfDay, Day
  <2>2. j.file \in Day \X Nat /\ j.file[2] \in 0..MaxIndex
    BY <1>1, <1>j, Assumptions DEF Task, NewChunk, Assumptions
  <2> QED
    BY <2>1, <2>2 DEF File
<1>5. Sees(j, Contents) => Adds(Contents[j.file], some, some)
  <2>1. j.file[1] = DayIn(j) /\ j.file[2] >= j.file[2]
    BY <1>1 DEF Task
  <2> QED
    BY <1>1, <1>4, <2>1 DEF Sees, Adds
<1>6. /\ Pend(j.file, some) /\ Placed(t, some) /\ UNCHANGED <<disk, flying, upset>>
  BY <1>j, <1>o DEF NewChunk
<1> QED
  BY <1>c, <1>j, <1>1, <1>3, <1>4, <1>5, <1>6, PlacesStore

\* Command j goes on to place what is left, in its file f.
LEMMA SeeksRoom ==
    ASSUME NEW j, Writer(j), Task(j), j.at = "append",
           NEW at \in {"fill", "chunk"}, NEW f \in Day \X Nat, f[1] = DayIn(j),
           NEW c, at = "fill" => OfDay(c, DayIn(j)) /\ f \in File,
           NEW k, k.at = at, k.file = f, k.data = c, k.op = j.op,
           k.asked = j.asked, k.todo = j.todo, k.own = j.own, k.left = j.left,
           "asked" \in DOMAIN k
    PROVE  Task(k) /\ DayIn(k) = DayIn(j)
<1>1. DayIn(k) = DayIn(j)
  BY SameDay
<1>2. j.op = "update" /\ DOMAIN j.todo = {}
  BY DEF Task
<1> QED
  BY <1>1, <1>2 DEF Task

LEMMA LookForRoomStores ==
    ASSUME StoreInv, NEW t \in Thread, LookForRoom(t)
    PROVE  StoreInv'
<1>j. PICK j : j = thread[t]
  OBVIOUS
<1>n. PICK N : N = Contents
  OBVIOUS
<1>c. ChunkInv /\ ChunkInv'
  BY LookForRoomKeeps DEF StoreInv
<1>1. Writer(j) /\ Task(j) /\ Writes(j) /\ j.at = "append"
  BY <1>c, <1>j, WriterIs DEF LookForRoom, StoreInv, AllTasks
<1>d. /\ j.op = "update" /\ DOMAIN j.todo = {} /\ "asked" \in DOMAIN j
      /\ j.file \in Day \X Nat /\ j.file[1] = DayIn(j)
      /\ j.own \subseteq File /\ \A f \in j.own : f[1] = DayIn(j)
  BY <1>1 DEF Task
<1>2. UNCHANGED files /\ upset \subseteq upset'
  BY DEF LookForRoom
<1>3. (\A f \in File : FileOfDay(f)') /\ Contents' = Contents
  BY <1>2, FilesStay DEF StoreInv
<1>4. \A m \in DOMAIN stored : stored[m] \in BOOLEAN
  BY DEF StoreInv
<1>5. ASSUME DayIn(j) \in Day \ upset PROVE Stands(j, N, stored) /\ Sees(j, N)
  BY <1>1, <1>j, <1>n, <1>5 DEF StoreInv, DaysSound, DaySound, Works, Steady
<1>6. CASE j.left = Nothing
  <2>1. PICK other : other = Outcome(j)
    OBVIOUS
  <2>2. Set(t, Idle) /\ stored' = other
    BY <1>j, <1>6, <2>1 DEF LookForRoom, Done
  <2>3. Leaves(j, stored, other)
    BY <1>1, <1>4, <2>1, Outcomes
  <2>4. ASSUME DayIn(j) \in Day \ upset, NEW m \in Message, DayOf(m) = DayIn(j)
        PROVE  Kept(N, other, m)
    <3>1. DOMAIN j.left = {}
      BY <1>6 DEF Nothing
    <3>2. Stands(j, N, stored)
      BY <1>5, <2>4
    <3> QED
      BY <1>1, <1>d, <2>3, <2>4, <3>1, <3>2, EndsKept
  <2>5. DayIn(j) \in Day \ upset' => Arrives(DayIn(j), Idle, Contents', stored')
    BY <1>2, <1>3, <1>n, <2>2, <2>4 DEF Arrives
  <2>6. OtherDaysSame(DayIn(j), Contents, Contents', stored, stored')
    BY <1>3, <2>2, <2>3 DEF OtherDaysSame, Leaves, SameFiles
  <2>7. \A m \in DOMAIN stored' : stored'[m] \in BOOLEAN
    BY <2>2, <2>3 DEF Leaves
  <2> QED
    BY <1>c, <1>j, <1>1, <1>2, <1>3, <2>2, <2>5, <2>6, <2>7, Moves
<1>7. ASSUME UNCHANGED stored, NEW k, Set(t, k), Task(k), DayIn(k) = DayIn(j),
             k.asked = j.asked, k.todo = j.todo, k.left = j.left,
             DayIn(j) \in Day \ upset' => Sees(k, N)
      PROVE  StoreInv'
  <2>1. ASSUME DayIn(j) \in Day \ upset' PROVE Steady(k, N, stored)
    <3>1. Stands(j, N, stored) /\ Sees(k, N)
      BY <1>2, <1>5, <1>7, <2>1
    <3>2. Stands(k, N, stored)
      BY <1>7, <3>1 DEF Stands, DoneWith
    <3> QED
      BY <3>1, <3>2 DEF Steady
  <2>2. DayIn(j) \in Day \ upset' => Arrives(DayIn(j), k, Contents', stored')
    BY <1>3, <1>n, <1>7, <2>1, TaskWrites DEF Arrives, Writes
  <2>3. OtherDaysSame(DayIn(j), Contents, Contents', stored, stored')
    BY <1>3, <1>7 DEF OtherDaysSame, SameWanted, SameFiles
  <2>4. \A m \in DOMAIN stored' : stored'[m] \in BOOLEAN
    BY <1>4, <1>7
  <2> QED
    BY <1>c, <1>j, <1>1, <1>2, <1>3, <1>7, <2>2, <2>3, <2>4, Moves
<1>8. CASE j.left # Nothing /\ j.own = {}
  <2>1. PICK k : k = [j EXCEPT !.at = "chunk"]
    OBVIOUS
  <2>2. /\ k.at = "chunk" /\ k.file = j.file /\ k.data = j.data /\ k.op = j.op
        /\ k.asked = j.asked /\ k.todo = j.todo /\ k.own = j.own /\ k.left = j.left
        /\ "asked" \in DOMAIN k
    BY <1>1, <1>d, <2>1 DEF Writer
  <2>3. Set(t, k) /\ stored' = stored
    BY <1>j, <1>8, <2>1 DEF LookForRoom
  <2>4. Task(k) /\ DayIn(k) = DayIn(j)
    BY <1>1, <1>d, <2>2, SeeksRoom
  <2>5. ASSUME DayIn(j) \in Day \ upset' PROVE Sees(k, N)
    <3>1. Sees(j, N)
      BY <1>2, <1>5, <2>5
    <3>2. \A f \in File : f[1] = DayIn(j) => DOMAIN N[f] = {}
      BY <1>1, <1>8, <3>1 DEF Sees
    <3> QED
      BY <2>2, <2>4, <3>2 DEF Sees
  <2> QED
    BY <1>7, <2>2, <2>3, <2>4, <2>5
<1>9. CASE j.left # Nothing /\ j.own # {}
  <2>1. PICK last : last = Latest(j.own)
    OBVIOUS
  <2>2. last \in File /\ last \in j.own /\ last[1] = DayIn(j) /\ FileOfDay(last)
    BY <1>d, <1>9, <2>1, LatestIsThere DEF StoreInv
  <2>3. PICK c : c = Loaded(last) /\
          Set(t, IF Room(c) > 0
                 THEN [j EXCEPT !.at = "fill", !.file = last, !.data = c]
                 ELSE [j EXCEPT !.at = "chunk", !.file = NextName(last)])
    BY <1>j, <1>9, <2>1 DEF LookForRoom
  <2>4. /\ upset' = IF Torn(last, DayIn(j)) THEN upset \union {DayIn(j)} ELSE upset
        /\ stored' = stored
    BY <1>j, <1>9, <2>1 DEF LookForRoom
  <2>5. OfDay(c, DayIn(j)) /\ (~Torn(last, DayIn(j)) => c = Contents[last])
    BY <2>2, <2>3, LoadsNewer
  <2>6. last \in Day \X Nat /\ last[2] \in Nat /\ \A f \in File : f[2] \in Nat
    BY <2>2, Assumptions DEF File, Assumptions
  <2>7. ASSUME DayIn(j) \in Day \ upset'
        PROVE  /\ N[last] = c
               /\ \A f \in File : f[1] = DayIn(j) /\ f[2] > last[2] => DOMAIN N[f] = {}
    <3>1. N[last] = c
      BY <1>n, <2>4, <2>5, <2>7
    <3>2. Sees(j, N)
      BY <1>2, <1>5, <2>7
    <3>3. \A f \in File : f[2] > last[2] => f \notin j.own
      BY <1>d, <1>9, <2>1, NoneAfterLast
    <3> QED
      BY <1>1, <3>1, <3>2, <3>3 DEF Sees
  <2>8. CASE Room(c) > 0
    <3>1. PICK k : k = [j EXCEPT !.at = "fill", !.file = last, !.data = c]
      OBVIOUS
    <3>2. /\ k.at = "fill" /\ k.file = last /\ k.data = c /\ k.op = j.op
          /\ k.asked = j.asked /\ k.todo = j.todo /\ k.own = j.own
          /\ k.left = j.left /\ "asked" \in DOMAIN k
      BY <1>1, <1>d, <3>1 DEF Writer
    <3>3. Set(t, k)
      BY <2>3, <2>8, <3>1
    <3>4. Task(k) /\ DayIn(k) = DayIn(j)
      BY <1>1, <2>2, <2>5, <2>6, <3>2, SeeksRoom
    <3>5. ASSUME DayIn(j) \in Day \ upset' PROVE Sees(k, N)
      <4>1. Sees(j, N)
        BY <1>2, <1>5, <3>5
      <4>2. \A f \in File : f[1] = DayIn(j) /\ f \notin j.own => DOMAIN N[f] = {}
        BY <1>1, <4>1 DEF Sees
      <4> QED
        BY <2>7, <3>2, <3>4, <3>5, <4>2 DEF Sees
    <3> QED
      BY <1>7, <2>4, <3>2, <3>3, <3>4, <3>5
  <2>9. CASE ~(Room(c) > 0)
    <3>1. PICK k : k = [j EXCEPT !.at = "chunk", !.file = NextName(last)]
      OBVIOUS
    <3>2. /\ k.at = "chunk" /\ k.file = NextName(last) /\ k.data = j.data
          /\ k.op = j.op /\ k.asked = j.asked /\ k.todo = j.todo /\ k.own = j.own
          /\ k.left = j.left /\ "asked" \in DOMAIN k
      BY <1>1, <1>d, <3>1 DEF Writer
    <3>3. Set(t, k)
      BY <2>3, <2>9, <3>1
    <3>4. /\ NextName(last) \in Day \X Nat /\ NextName(last)[1] = DayIn(j)
          /\ NextName(last)[2] = last[2] + 1
      BY <2>2, <2>6 DEF NextName
    <3>5. Task(k) /\ DayIn(k) = DayIn(j)
      BY <1>1, <3>2, <3>4, SeeksRoom
    <3>6. ASSUME DayIn(j) \in Day \ upset' PROVE Sees(k, N)
      <4>1. \A f \in File : f[2] >= last[2] + 1 => f[2] > last[2]
        BY <2>6
      <4> QED
        BY <2>7, <3>2, <3>4, <3>5, <3>6, <4>1 DEF Sees
    <3> QED
      BY <1>7, <2>4, <3>2, <3>3, <3>5, <3>6
  <2> QED
    BY <2>8, <2>9
<1> QED
  BY <1>6, <1>8, <1>9

-----------------------------------------------------------------------------
(* Beginnings, readers, flushes and restarts *)

\* Of the commands that write none moves.
OnlyReadersMove(th, next) ==
    \A u \in Thread :
        next[u] = th[u] \/ (~Writes(th[u]) /\ ~Writes(next[u]))

LEMMA ReadersMove ==
    ASSUME StoreInv, ChunkInv', OnlyReadersMove(thread, thread'),
           \A f \in File : FileOfDay(f)',
           \A f \in File : f[1] \in upset' \/ Contents'[f] = Contents[f],
           stored' = stored, upset \subseteq upset'
    PROVE  StoreInv'
<1>1. ASSUME NEW d \in Day \ upset' PROVE DaySound(d, Contents', stored, thread')
  <2>1. PICK N, K, want, th, next :
            N = Contents /\ K = Contents' /\ want = stored /\ th = thread /\ next = thread'
    OBVIOUS
  <2>2. DaySound(d, N, want, th) /\ \A u \in Thread : Writes(th[u]) => Task(th[u])
    BY <1>1, <2>1 DEF StoreInv, DaysSound, AllTasks
  <2>3. /\ \A u \in Thread : Works(next, u, d) <=> Works(th, u, d)
        /\ \A u \in Thread : Works(th, u, d) => next[u] = th[u]
    BY <2>1 DEF OnlyReadersMove, Works
  <2>4. SameFiles(N, K, d) /\ SameWanted(want, want, d)
    BY <1>1, <2>1 DEF SameFiles, SameWanted
  <2>5. DaySound(d, K, want, next)
    BY <2>2, <2>3, <2>4, DaySame
  <2> QED
    BY <2>1, <2>5
<1>2. \A d \in Day \ upset' : DaySound(d, Contents', stored', thread')
  BY <1>1
<1>3. DaysSound(Day \ upset, Contents, stored, thread)'
  BY <1>2 DEF DaysSound, DaySound, Works, Writes
<1>4. AllTasks(thread')
  BY DEF StoreInv, OnlyReadersMove, AllTasks
<1>5. AllTasks(thread)'
  BY <1>4 DEF AllTasks, Writes
<1>6. \A m \in DOMAIN stored' : stored'[m] \in BOOLEAN
  BY DEF StoreInv
<1> QED
  BY <1>3, <1>5, <1>6 DEF StoreInv

LEMMA SetReader ==
    ASSUME ChunkInv, NEW t \in Thread, ~Writes(thread[t]), NEW k, ~Writes(k), Set(t, k)
    PROVE  OnlyReadersMove(thread, thread')
BY DEF Set, ChunkInv, OnlyReadersMove

LEMMA LoadsStore ==
    ASSUME StoreInv, NEW t \in Thread,
           (\E time \in Message : BeginLoad(t, time)) \/ LoadFile(t) \/ Answer(t)
    PROVE  StoreInv'
<1>c. ChunkInv /\ ChunkInv'
  BY LoadsKeep DEF StoreInv
<1>1. UNCHANGED files /\ stored' = stored /\ upset' = upset
  BY DEF BeginLoad, LoadFile, Answer
<1>2. (\A f \in File : FileOfDay(f)') /\ Contents' = Contents
  BY <1>1, FilesStay DEF StoreInv
<1>3. ASSUME NEW time \in Message, BeginLoad(t, time)
      PROVE  OnlyReadersMove(thread, thread')
  <2>1. PICK k : Set(t, k) /\ k.op = "load" /\ thread[t] = Idle
    BY <1>3 DEF BeginLoad
  <2> QED
    BY <1>c, <2>1, SetReader DEF Writes
<1>4. ASSUME LoadFile(t) PROVE OnlyReadersMove(thread, thread')
  <2>1. Reader(thread[t]) /\ ~Writes(thread[t])
    BY <1>c, <1>4, ReaderIs DEF LoadFile, Writes
  <2>2. \E k : k.op = "load" /\ Set(t, k)
    BY <1>4, <2>1 DEF LoadFile, Reader
  <2> QED
    BY <1>c, <2>1, <2>2, SetReader DEF Writes
<1>5. ASSUME Answer(t) PROVE OnlyReadersMove(thread, thread')
  <2>1. ~Writes(thread[t])
    <3> SUFFICES ASSUME Writes(thread[t]) PROVE FALSE
      OBVIOUS
    <3>1. Task(thread[t])
      BY DEF StoreInv, AllTasks
    <3> QED
      BY <1>5, <3>1 DEF Answer, Task
  <2>2. Set(t, Idle)
    BY <1>5 DEF Answer
  <2> QED
    BY <1>c, <2>1, <2>2, SetReader DEF Writes
<1>6. OnlyReadersMove(thread, thread')
  BY <1>3, <1>4, <1>5
<1> QED
  BY <1>c, <1>1, <1>2, <1>6, ReadersMove

LEMMA FlushStores ==
    ASSUME StoreInv, NEW f \in File, Flushes(f)
    PROVE  StoreInv'
<1>1. ChunkInv /\ ChunkInv'
  BY FlushKeeps DEF StoreInv
<1>2. /\ \A g \in File : FileOfDay(g)'
      /\ \A g \in File : g[1] \in upset' \/ Contents'[g] = Contents[g]
      /\ upset \subseteq upset'
  BY <1>1, FilesFlushed DEF StoreInv
<1>3. thread' = thread /\ stored' = stored
  BY DEF Flushes, FlushTakes, FlushDrops, FlushOpens, FlushEnds, FlushFails
<1>4. OnlyReadersMove(thread, thread')
  BY <1>3 DEF OnlyReadersMove
<1> QED
  BY <1>1, <1>2, <1>3, <1>4, ReadersMove

\* A day on which no command runs any more, or yet
LEMMA DayRests ==
    ASSUME NEW d, NEW N, NEW want, NEW th, \A t \in Thread : ~Works(th, t, d),
           \A m \in Message : DayOf(m) = d => Kept(N, want, m)
    PROVE  DaySound(d, N, want, th)
BY DEF DaySound

\* What is not in memory is on disk.
LEMMA OnDisk ==
    ASSUME NEW f \in File, ~InMemory(f)
    PROVE  Newer(f) = IF disk[f] # None THEN disk[f] ELSE Nothing
BY DEF InMemory, Newer

LEMMA ClearStores ==
    ASSUME StoreInv, Clear
    PROVE  StoreInv'
<1>c. ChunkInv /\ ChunkInv'
  BY ClearKeeps DEF StoreInv
<1>1. /\ disk' = [f \in File |-> None] /\ pending' = pending
      /\ \A f \in File : flying'[f] = None \/ flying'[f] = flying[f]
      /\ stored' = Nothing
      /\ upset' = upset \union {d \in Day : \/ Busy(d)
                                            \/ \E f \in File : f[1] = d /\ InMemory(f)}
  BY DEF Clear
<1>2. \A f \in File : FileOfDay(f)'
  BY <1>1 DEF StoreInv, FileOfDay
<1>3. ASSUME NEW u \in Thread
      PROVE  thread'[u] = thread[u] \/ (~Writes(thread[u]) /\ ~Writes(thread'[u]))
  <2>1. CASE thread[u] # Idle /\ thread[u].op = "load"
    <3>1. thread'[u] = [thread[u] EXCEPT !.calm = FALSE]
      BY <2>1 DEF Clear
    <3>2. thread'[u].op = "load"
      BY <1>c, <2>1, <3>1, ReaderIs DEF Reader
    <3> QED
      BY <2>1, <3>2 DEF Writes
  <2>2. CASE ~(thread[u] # Idle /\ thread[u].op = "load")
    BY <2>2 DEF Clear
  <2> QED
    BY <2>1, <2>2
<1>4. AllTasks(thread')
  BY <1>3 DEF StoreInv, AllTasks
<1>5. ASSUME NEW d \in Day \ upset'
      PROVE  DaySound(d, Contents', stored', thread')
  <2>1. ~Busy(d) /\ \A f \in File : f[1] = d => ~InMemory(f)
    BY <1>1, <1>5
  <2>2. \A t \in Thread : ~Works(thread', t, d)
    BY <1>3, <2>1 DEF Works, Busy
  <2>3. ASSUME NEW f \in File, f[1] = d PROVE DOMAIN Contents'[f] = {}
    <3>1. pending'[f] = None /\ flying'[f] = None /\ disk'[f] = None
      BY <1>1, <2>1, <2>3 DEF InMemory
    <3>2. Newer(f)' = Nothing
      BY <3>1 DEF Newer
    <3> QED
      BY <3>2 DEF Contents, Nothing
  <2>4. ASSUME NEW m \in Message, DayOf(m) = d PROVE Kept(Contents', stored', m)
    <3>1. Places(Contents', m) = {}
      BY <2>3, <2>4 DEF Places
    <3>2. m \notin DOMAIN stored'
      BY <1>1 DEF Nothing
    <3> QED
      BY <3>1, <3>2 DEF Kept
  <2> QED
    BY <2>2, <2>4, DayRests
<1>6. DaysSound(Day \ upset, Contents, stored, thread)'
  BY <1>5 DEF DaysSound, DaySound, Works, Writes
<1>7. AllTasks(thread)'
  BY <1>4 DEF AllTasks, Writes
<1>8. \A m \in DOMAIN stored' : stored'[m] \in BOOLEAN
  BY <1>1 DEF Nothing
<1> QED
  BY <1>c, <1>2, <1>6, <1>7, <1>8 DEF StoreInv

LEMMA CrashStores ==
    ASSUME StoreInv, Crash
    PROVE  StoreInv'
<1>c. ChunkInv'
  BY CrashKeeps DEF StoreInv
<1>1. /\ flying' = [f \in File |-> None] /\ pending' = [f \in File |-> None]
      /\ disk' = disk /\ stored' = stored /\ thread' = [t \in Thread |-> Idle]
      /\ upset' = upset \union {d \in Day : \/ Busy(d)
                                            \/ \E f \in File : f[1] = d /\ InMemory(f)}
  BY DEF Crash
<1>2. \A f \in File : FileOfDay(f)'
  BY <1>1 DEF StoreInv, FileOfDay
<1>3. \A t \in Thread : ~Writes(thread'[t])
  BY <1>1 DEF Writes
<1>4. ASSUME NEW d \in Day \ upset'
      PROVE  DaySound(d, Contents', stored', thread')
  <2>1. ~Busy(d) /\ d \in Day \ upset /\ \A f \in File : f[1] = d => ~InMemory(f)
    BY <1>1, <1>4
  <2>2. \A t \in Thread : ~Works(thread', t, d)
    BY <1>3 DEF Works
  <2>3. ASSUME NEW f \in File, f[1] = d PROVE Contents'[f] = Contents[f]
    <3>1. Newer(f) = IF disk[f] # None THEN disk[f] ELSE Nothing
      BY <2>1, <2>3, OnDisk
    <3>2. Newer(f)' = IF disk[f] # None THEN disk[f] ELSE Nothing
      BY <1>1 DEF Newer
    <3> QED
      BY <3>1, <3>2 DEF Contents
  <2>4. PICK N, K : N = Contents /\ K = Contents'
    OBVIOUS
  <2>5. ASSUME NEW m \in Message, DayOf(m) = d PROVE Kept(K, stored, m)
    <3>1. Kept(N, stored, m)
      BY <2>1, <2>4, <2>5 DEF StoreInv, DaysSound, DaySound, Busy, Works
    <3>2. SameFiles(N, K, DayOf(m)) /\ SameWanted(stored, stored, DayOf(m))
      BY <2>3, <2>4, <2>5 DEF SameFiles, SameWanted
    <3> QED
      BY <3>1, <3>2, KeptSame
  <2> QED
    BY <1>1, <2>2, <2>4, <2>5, DayRests
<1>5. DaysSound(Day \ upset, Contents, stored, thread)'
  BY <1>4 DEF DaysSound, DaySound, Works, Writes
<1>6. AllTasks(thread)'
  BY <1>3 DEF AllTasks, Writes
<1> QED
  BY <1>c, <1>1, <1>2, <1>5, <1>6 DEF StoreInv

\* A command that begins has its task before it.
LEMMA BeginStores ==
    ASSUME StoreInv, ChunkInv', NEW t \in Thread,
           NEW op \in {"update", "mark", "remove"}, NEW d \in Day,
           NEW asked, OfDay(asked, d), DOMAIN asked # {},
           op # "update" => \E m : DOMAIN asked = {m} /\ asked[m] = TRUE,
           NEW own, own \subseteq Listed, op = "update" => \A f \in own : f[1] = d,
           \A f \in Listed : f[1] = d => f \in own,
           Begin(t, op, asked, own)
    PROVE  StoreInv'
<1>r. PICK r : r = [at |-> "scan", op |-> op, asked |-> asked, todo |-> asked,
                    own |-> own, files |-> own, others |-> FALSE,
                    file |-> <<DayOf(CHOOSE m \in DOMAIN asked : TRUE), 0>>,
                    data |-> Nothing, left |-> Nothing]
  OBVIOUS
<1>f. own \subseteq File /\ DayOf(CHOOSE m \in DOMAIN asked : TRUE) = d
  BY DEF Listed, OfDay
<1>1. Task(r) /\ DayIn(r) = d
  <2>1. /\ r.at = "scan" /\ r.op = op /\ r.asked = asked /\ r.todo = asked
        /\ r.own = own /\ r.left = Nothing /\ "asked" \in DOMAIN r
        /\ r.file = <<DayOf(CHOOSE m \in DOMAIN asked : TRUE), 0>>
    BY <1>r
  <2>2. DayIn(r) = DayOf(CHOOSE m \in DOMAIN asked : TRUE)
    BY <2>1 DEF DayIn
  <2>3. DayIn(r) = d
    BY <2>2, <1>f
  <2>4. r.file \in Day \X Nat /\ r.file[1] = DayIn(r)
    BY <2>1, <2>2, <2>3
  <2>5. DOMAIN r.left = {}
    BY <2>1 DEF Nothing
  <2>6. ASSUME op # "update"
        PROVE  r.asked[Sought(r)] = TRUE /\ DOMAIN r.asked = {Sought(r)}
    <3>1. Sought(r) \in DOMAIN r.todo
      BY <2>1, SoughtIsThere DEF OfDay
    <3> QED
      BY <2>1, <2>6, <3>1
  <2> QED
    BY <2>1, <2>3, <2>4, <2>5, <2>6, <1>f DEF Task
<1>2. /\ r.at = "scan" /\ r.asked = asked /\ r.todo = asked /\ r.own = own
      /\ r.files = own /\ r.others = FALSE /\ r.left = Nothing
  BY <1>r
<1>3. /\ thread[t] = Idle /\ UNCHANGED files /\ stored' = stored /\ thread'[t] = r
      /\ upset' = IF \/ Busy(d)
                     \/ \E f \in File : f[1] = d /\ disk[f] = None /\ InMemory(f)
                  THEN upset \union {d} ELSE upset
  BY <1>r, <1>f DEF Begin
<1>4. ASSUME NEW u \in Thread, u # t
      PROVE  thread'[u] = thread[u] \/ (~Writes(thread[u]) /\ ~Writes(thread'[u]))
  <2>1. CASE thread[u] # Idle /\ thread[u].op = "load"
    <3>1. thread'[u] = [thread[u] EXCEPT !.calm = FALSE]
      BY <1>4, <2>1 DEF Begin
    <3>2. thread'[u].op = "load"
      BY <2>1, <3>1, ReaderIs DEF Reader, StoreInv
    <3> QED
      BY <2>1, <3>2 DEF Writes
  <2>2. CASE ~(thread[u] # Idle /\ thread[u].op = "load")
    BY <1>4, <2>2 DEF Begin
  <2> QED
    BY <2>1, <2>2
<1>5. (\A f \in File : FileOfDay(f)') /\ Contents' = Contents
  BY <1>3, FilesStay DEF StoreInv
<1>6. AllTasks(thread')
  BY <1>1, <1>3, <1>4 DEF StoreInv, AllTasks
<1>7. PICK N, want, th, next :
        N = Contents /\ want = stored /\ th = thread /\ next = thread'
  OBVIOUS
<1>8. Works(next, t, d) /\ ~Writes(th[t])
  BY <1>1, <1>3, <1>7, TaskWrites DEF Works, Writes
<1>9. ASSUME NEW e \in Day \ upset', e # d PROVE DaySound(e, N, want, next)
  <2>1. DaySound(e, N, want, th) /\ \A u \in Thread : Writes(th[u]) => Task(th[u])
    BY <1>3, <1>7, <1>9 DEF StoreInv, DaysSound, AllTasks
  <2>2. ASSUME NEW u \in Thread
        PROVE  /\ Works(next, u, e) <=> Works(th, u, e)
               /\ Works(th, u, e) => next[u] = th[u]
    <3>1. CASE u = t
      BY <1>1, <1>3, <1>7, <1>8, <1>9, <3>1 DEF Works
    <3>2. CASE u # t
      BY <1>4, <1>7, <3>2 DEF Works
    <3> QED
      BY <3>1, <3>2
  <2>3. SameFiles(N, N, e) /\ SameWanted(want, want, e)
    BY DEF SameFiles, SameWanted
  <2> QED
    BY <2>1, <2>2, <2>3, DaySame
<1>10. ASSUME d \notin upset' PROVE DaySound(d, N, want, next)
  <2>1. /\ d \in Day \ upset /\ ~Busy(d)
        /\ \A f \in File : f[1] = d /\ disk[f] = None => ~InMemory(f)
    BY <1>3, <1>10
  <2>2. ASSUME NEW m \in Message, DayOf(m) = d PROVE Kept(N, want, m)
    BY <1>7, <2>1, <2>2 DEF StoreInv, DaysSound, DaySound, Busy, Works
  <2>3. ASSUME NEW f \in File, f[1] = d, f \notin own PROVE DOMAIN N[f] = {}
    <3>1. disk[f] = None
      BY <2>3 DEF Listed
    <3>2. Newer(f) = Nothing
      BY <2>1, <2>3, <3>1, OnDisk
    <3> QED
      BY <1>7, <3>2 DEF Contents, Nothing
  <2>4. DoneWith(r) = {} /\ DOMAIN r.left = {}
    BY <1>2 DEF DoneWith, Nothing
  <2>5. Stands(r, N, want)
    BY <1>1, <2>2, <2>4 DEF Stands
  <2>6. Sees(r, N)
    BY <1>1, <1>2, <2>3 DEF Sees
  <2>7. Steady(r, N, want)
    BY <2>5, <2>6 DEF Steady
  <2>8. \A u \in Thread : Works(next, u, d) <=> u = t
    <3>1. \A u \in Thread : ~Works(th, u, d)
      BY <1>7, <2>1 DEF Works, Busy
    <3> QED
      BY <1>4, <1>7, <1>8, <3>1 DEF Works
  <2>9. next[t] = r
    BY <1>3, <1>7
  <2> QED
    BY <2>7, <2>8, <2>9 DEF DaySound
<1>11. \A e \in Day \ upset' : DaySound(e, Contents', stored', thread')
  BY <1>3, <1>5, <1>7, <1>9, <1>10
<1>12. DaysSound(Day \ upset, Contents, stored, thread)'
  BY <1>11 DEF DaysSound, DaySound, Works, Writes
<1>13. AllTasks(thread)'
  BY <1>6 DEF AllTasks, Writes
<1>14. \A m \in DOMAIN stored' : stored'[m] \in BOOLEAN
  BY <1>3 DEF StoreInv
<1> QED
  BY <1>5, <1>12, <1>13, <1>14 DEF StoreInv

LEMMA UpdateStores ==
    ASSUME StoreInv, ChunkInv', NEW t \in Thread, Update(t)
    PROVE  StoreInv'
<1>1. PICK d \in Day : \E S \in (SUBSET {m \in Message : DayOf(m) = d}) \ {{}} :
          \E new \in [S -> BOOLEAN] :
              Begin(t, "update", new, {f \in Listed : f[1] = d})
  BY DEF Update
<1>2. PICK S \in (SUBSET {m \in Message : DayOf(m) = d}) \ {{}} :
          \E new \in [S -> BOOLEAN] :
              Begin(t, "update", new, {f \in Listed : f[1] = d})
  BY <1>1
<1>3. PICK new \in [S -> BOOLEAN] :
          Begin(t, "update", new, {f \in Listed : f[1] = d})
  BY <1>2
<1>4. PICK own : own = {f \in Listed : f[1] = d}
  OBVIOUS
<1>5. DOMAIN new = S /\ S # {} /\ \A m \in S : m \in Message /\ DayOf(m) = d
  OBVIOUS
<1>6. OfDay(new, d) /\ DOMAIN new # {}
  BY <1>5 DEF OfDay
<1>7. /\ own \subseteq Listed /\ \A f \in own : f[1] = d
      /\ \A f \in Listed : f[1] = d => f \in own
  BY <1>4
<1>8. Begin(t, "update", new, own)
  BY <1>3, <1>4
<1> QED
  BY <1>6, <1>7, <1>8, BeginStores

LEMMA ModifyStores ==
    ASSUME StoreInv, ChunkInv', NEW t \in Thread, Modify(t)
    PROVE  StoreInv'
<1>1. PICK op \in {"mark", "remove"}, x \in Message :
          Begin(t, op, [m \in {x} |-> TRUE], Listed)
  BY DEF Modify
<1>2. PICK asked : asked = [m \in {x} |-> TRUE]
  OBVIOUS
<1>3. DOMAIN asked = {x} /\ asked[x] = TRUE
  BY <1>2
<1>4. DayOf(x) \in Day /\ OfDay(asked, DayOf(x)) /\ DOMAIN asked # {}
  BY <1>3 DEF Day, OfDay
<1>5. Begin(t, op, asked, Listed) /\ Listed \subseteq Listed
  BY <1>1, <1>2
<1>6. op \in {"update", "mark", "remove"} /\ op # "update"
  OBVIOUS
<1>7. \A f \in Listed : f[1] = DayOf(x) => f \in Listed
  OBVIOUS
<1> QED
  BY <1>3, <1>4, <1>5, <1>6, <1>7, BeginStores

-----------------------------------------------------------------------------

LEMMA InitStores == Init => StoreInv
<1> SUFFICES ASSUME Init PROVE StoreInv
  OBVIOUS
<1>1. /\ \A f \in File : disk[f] = None /\ flying[f] = None /\ pending[f] = None
      /\ \A t \in Thread : thread[t] = Idle
      /\ stored = Nothing
  BY DEF Init
<1>2. \A f \in File : FileOfDay(f) /\ DOMAIN Contents[f] = {}
  BY <1>1 DEF FileOfDay, Contents, Newer, Nothing
<1>3. AllTasks(thread)
  BY <1>1 DEF AllTasks, Writes
<1>4. ASSUME NEW d \in Day PROVE DaySound(d, Contents, stored, thread)
  <2>1. \A t \in Thread : ~Works(thread, t, d)
    BY <1>1 DEF Works, Writes
  <2>2. \A m \in Message : Kept(Contents, stored, m)
    BY <1>1, <1>2 DEF Kept, Places, Nothing
  <2> QED
    BY <2>1, <2>2 DEF DaySound
<1>5. \A m \in DOMAIN stored : stored[m] \in BOOLEAN
  BY <1>1 DEF Nothing
<1> QED
  BY <1>2, <1>3, <1>4, <1>5, InitFits DEF StoreInv, DaysSound

LEMMA NextStores == StoreInv /\ [Next]_vars => StoreInv'
<1> SUFFICES ASSUME StoreInv, [Next]_vars PROVE StoreInv'
  OBVIOUS
<1>c. ChunkInv'
  BY NextFits DEF StoreInv
<1>1. ASSUME UNCHANGED vars PROVE StoreInv'
  <2>1. UNCHANGED files /\ thread' = thread /\ stored' = stored /\ upset' = upset
    BY <1>1 DEF vars, files
  <2>2. (\A f \in File : FileOfDay(f)') /\ Contents' = Contents
    BY <2>1, FilesStay DEF StoreInv
  <2>3. OnlyReadersMove(thread, thread')
    BY <2>1 DEF OnlyReadersMove
  <2> QED
    BY <1>c, <2>1, <2>2, <2>3, ReadersMove
<1> QED
  BY <1>c, <1>1, FlushStores, UpdateStores, ModifyStores, ScanStores, SaveStores,
     MissingStores, LookForRoomStores, FillStores, NewChunkStores, LoadsStore,
     ClearStores, CrashStores DEF Next, Flushes

\* In every reachable state the one command of a day has come as far as its
\* messages and the files say, and the files of a day at rest have what its
\* commands stored.
THEOREM StoreInvariant == Spec => []StoreInv
BY InitStores, NextStores, PTL DEF Spec

\* The files of a day together hold what the finished commands stored, each
\* message once and with its mark, for any messages, days, commands and limit,
\* whatever commands for other days, flushes, readers and restarts come between,
\* on every day for which no flush dropped or failed to write a save
\* (update_messages_sync, modify_message_file, save_direct).
THEOREM MessagesAreKept == Spec => []StoreKept
<1>1. ASSUME StoreInv PROVE StoreKept
  <2> SUFFICES ASSUME NEW d \in Day \ upset, ~Busy(d),
                      NEW m \in Message, DayOf(m) = d,
                      NEW held, held = {f \in {g \in File : g[1] = d} :
                                            m \in DOMAIN Newer(f)}
               PROVE  IF m \in DOMAIN stored
                      THEN /\ Cardinality(held) = 1
                           /\ \A f \in held : Newer(f)[m] = stored[m]
                      ELSE held = {}
    BY DEF StoreKept
  <2>1. \A f \in File : Contents[f] = Newer(f)
    BY DEF Contents
  <2>2. held = Places(Contents, m)
    BY <2>1 DEF Places
  <2>3. Kept(Contents, stored, m)
    BY <1>1 DEF StoreInv, DaysSound, DaySound, Busy, Works
  <2>4. CASE m \in DOMAIN stored
    <3>1. PICK f \in File : held = {f} /\ Contents[f][m] = stored[m]
      BY <2>2, <2>3, <2>4 DEF Kept, Sits
    <3>2. Cardinality(held) = 1
      BY <3>1, FS_Singleton
    <3> QED
      BY <2>1, <2>4, <3>1, <3>2
  <2>5. CASE m \notin DOMAIN stored
    BY <2>2, <2>3, <2>5 DEF Kept
  <2> QED
    BY <2>4, <2>5
<1> QED
  BY <1>1, StoreInvariant, PTL

-----------------------------------------------------------------------------
(* Sequences in order *)

\* A sequence of messages, each later than the one before
Rising(s) == \A i, j \in DOMAIN s : i < j => s[i] < s[j]
\* All of S is in s.
Covers(s, S) == \A x \in S : \E i \in DOMAIN s : s[i] = x

\* Finitely many numbers can be put in order.
LEMMA AscendingExists ==
    ASSUME NEW S, S \subseteq Nat, IsFiniteSet(S)
    PROVE  \E s \in [1..Cardinality(S) -> S] : Rising(s)
<1> DEFINE Sorts(T) == \E s \in [1..Cardinality(T) -> T] : Rising(s)
           Bad == {Cardinality(T) : T \in {U \in SUBSET Nat : IsFiniteSet(U) /\ ~Sorts(U)}}
<1>1. Bad = {}
  <2> SUFFICES ASSUME Bad # {} PROVE FALSE
    OBVIOUS
  <2>1. Bad \subseteq Nat
    BY FS_CardinalityType
  <2>2. PICK n \in Bad : \A k \in Bad : n <= k
    BY <2>1, LeastExists
  <2>3. PICK T \in SUBSET Nat : IsFiniteSet(T) /\ ~Sorts(T) /\ Cardinality(T) = n
    OBVIOUS
  <2>4. T # {}
    <3> SUFFICES ASSUME T = {} PROVE Sorts(T)
      BY <2>3
    <3>1. Cardinality(T) = 0
      BY FS_EmptySet
    <3>2. [i \in {} |-> 0] \in [1..0 -> T] /\ Rising([i \in {} |-> 0])
      BY DEF Rising
    <3> QED
      BY <3>1, <3>2
  <2>5. PICK m \in T : \A x \in T : m <= x
    BY <2>4, LeastExists
  <2>6. PICK R : R = T \ {m}
    OBVIOUS
  <2>7. IsFiniteSet(R) /\ Cardinality(R) = n - 1 /\ n \in Nat /\ R \in SUBSET Nat
    BY <2>1, <2>3, <2>6, FS_RemoveElement
  <2>8. Sorts(R)
    <3> SUFFICES ASSUME ~Sorts(R) PROVE FALSE
      OBVIOUS
    <3>1. n - 1 \in Bad
      BY <2>7
    <3>2. n <= n - 1
      BY <2>2, <3>1
    <3> QED
      BY <2>7, <3>2
  <2>9. PICK r \in [1..(n - 1) -> R] : Rising(r)
    BY <2>7, <2>8
  <2> DEFINE s == [i \in 1..n |-> IF i = 1 THEN m ELSE r[i - 1]]
  <2>10. \A i \in 1..n : i = 1 \/ (i - 1 \in 1..(n - 1) /\ r[i - 1] \in R)
    BY <2>7, <2>9
  <2>11. s \in [1..n -> T]
    BY <2>5, <2>6, <2>10
  <2>12. Rising(s)
    <3> SUFFICES ASSUME NEW i \in 1..n, NEW j \in 1..n, i < j PROVE s[i] < s[j]
      BY DEF Rising
    <3>1. j # 1 /\ j - 1 \in 1..(n - 1) /\ s[j] = r[j - 1] /\ r[j - 1] \in R
      BY <2>7, <2>10
    <3>2. CASE i = 1
      <4>1. s[i] = m /\ m <= r[j - 1] /\ m # r[j - 1]
        BY <2>5, <2>6, <3>1, <3>2
      <4>2. m \in Nat /\ r[j - 1] \in Nat
        BY <2>5, <2>7, <3>1
      <4> QED
        BY <3>1, <4>1, <4>2
    <3>3. CASE i # 1
      <4>1. i - 1 \in 1..(n - 1) /\ i - 1 < j - 1 /\ s[i] = r[i - 1]
        BY <2>7, <3>3
      <4>2. r[i - 1] < r[j - 1]
        BY <2>9, <3>1, <4>1 DEF Rising
      <4> QED
        BY <3>1, <4>1, <4>2
    <3> QED
      BY <3>2, <3>3
  <2> HIDE DEF s
  <2> QED
    BY <2>3, <2>11, <2>12
<1> QED
  <2>1. S \in SUBSET Nat /\ Cardinality(S) \notin Bad
    BY <1>1
  <2> QED
    BY <2>1

\* A rising sequence has its elements once each.
LEMMA RisingCounts ==
    ASSUME NEW s \in Seq(Message), Rising(s)
    PROVE  /\ IsFiniteSet(ToSet(s))
           /\ Cardinality(ToSet(s)) = Len(s)
<1>1. Len(s) \in Nat /\ DOMAIN s = 1..Len(s) /\ s \in [1..Len(s) -> Nat]
  <2>1. Len(s) \in Nat /\ DOMAIN s = 1..Len(s) /\ s \in [1..Len(s) -> Message]
    OBVIOUS
  <2> QED
    BY <2>1, Assumptions DEF Assumptions
<1>2. IsFiniteSet(1..Len(s)) /\ Cardinality(1..Len(s)) = Len(s)
  <2>1. IsFiniteSet(1..Len(s))
        /\ Cardinality(1..Len(s)) = IF 1 > Len(s) THEN 0 ELSE Len(s) - 1 + 1
    BY <1>1, FS_Interval
  <2>2. \A n \in Nat : (IF 1 > n THEN 0 ELSE n - 1 + 1) = n
    OBVIOUS
  <2> QED
    BY <1>1, <2>1, <2>2
<1>3. ASSUME NEW i \in 1..Len(s), NEW j \in 1..Len(s), s[i] = s[j] PROVE i = j
  <2>1. ~ (i < j) /\ ~ (j < i)
    <3>1. s[i] \in Nat /\ ~ (s[i] < s[j]) /\ ~ (s[j] < s[i])
      BY <1>1, <1>3
    <3> QED
      BY <1>1, <3>1 DEF Rising
  <2> QED
    BY <2>1
<1>4. s \in Injection(1..Len(s), ToSet(s)) /\ s \in Surjection(1..Len(s), ToSet(s))
  <2>1. s \in [1..Len(s) -> ToSet(s)]
    BY <1>1 DEF ToSet
  <2>2. \A y \in ToSet(s) : \E i \in 1..Len(s) : s[i] = y
    BY <1>1 DEF ToSet
  <2> QED
    BY <1>3, <2>1, <2>2 DEF Injection, Surjection, IsInjective
<1> QED
  BY <1>2, <1>4, FS_Surjection

\* A chunk in its order has all its messages.
LEMMA AscendingIs ==
    ASSUME NEW S, S \subseteq Message
    PROVE  /\ Ascending(S) \in Seq(Message)
           /\ Rising(Ascending(S)) /\ ToSet(Ascending(S)) = S
<1>0. S \subseteq Nat /\ IsFiniteSet(S) /\ Message \subseteq Nat
  BY Assumptions, FS_Subset DEF Assumptions
<1>1. PICK s : s = Ascending(S)
  OBVIOUS
<1>2. s \in [1..Cardinality(S) -> S] /\ Rising(s)
  BY <1>0, <1>1, AscendingExists DEF Ascending, Rising
<1>3. PICK n \in Nat : n = Cardinality(S)
  BY <1>0, FS_CardinalityType
<1>4. s \in Seq(Message) /\ Len(s) = n /\ DOMAIN s = 1..n
  <2>1. s \in [1..n -> Message]
    BY <1>0, <1>2, <1>3
  <2> QED
    BY <2>1
<1>5. ToSet(s) \in SUBSET S
  BY <1>2 DEF ToSet
<1>6. Cardinality(ToSet(s)) = Cardinality(S)
  BY <1>2, <1>3, <1>4, RisingCounts
<1>7. ToSet(s) = S
  BY <1>0, <1>5, <1>6, FS_Subset
<1> QED
  BY <1>1, <1>2, <1>4, <1>7

\* Two rising sequences, of which one is before the other
LEMMA Joined ==
    ASSUME NEW p \in Seq(Message), NEW r \in Seq(Message)
    PROVE  /\ p \o r \in Seq(Message)
           /\ ToSet(p \o r) = ToSet(p) \union ToSet(r)
           /\ Rising(p) /\ Rising(r) /\ (\A x \in ToSet(p), y \in ToSet(r) : x < y)
                => Rising(p \o r)
<1>1. PICK s : s = p \o r
  OBVIOUS
<1>2. /\ s \in Seq(Message) /\ Len(s) = Len(p) + Len(r)
      /\ Len(p) \in Nat /\ Len(r) \in Nat
      /\ DOMAIN s = 1..Len(s) /\ DOMAIN p = 1..Len(p) /\ DOMAIN r = 1..Len(r)
      /\ \A i \in 1..Len(s) : s[i] = IF i <= Len(p) THEN p[i] ELSE r[i - Len(p)]
  BY <1>1
<1>3. \A i \in 1..Len(s) : IF i <= Len(p) THEN i \in 1..Len(p) ELSE i - Len(p) \in 1..Len(r)
  BY <1>2
<1>4. /\ \A i \in 1..Len(p) : i \in 1..Len(s) /\ s[i] = p[i]
      /\ \A i \in 1..Len(r) : i + Len(p) \in 1..Len(s) /\ s[i + Len(p)] = r[i]
  <2>1. ASSUME NEW i \in 1..Len(p) PROVE i \in 1..Len(s) /\ s[i] = p[i]
    BY <1>2
  <2>2. ASSUME NEW i \in 1..Len(r)
        PROVE  i + Len(p) \in 1..Len(s) /\ s[i + Len(p)] = r[i]
    <3>1. \A a, b \in Nat : \A c \in 1..b :
             c + a \in 1..(a + b) /\ ~ (c + a <= a) /\ (c + a) - a = c
      OBVIOUS
    <3>2. i + Len(p) \in 1..Len(s) /\ ~ (i + Len(p) <= Len(p))
          /\ (i + Len(p)) - Len(p) = i
      BY <1>2, <3>1
    <3> QED
      BY <1>2, <3>2
  <2> QED
    BY <2>1, <2>2
<1>5. ToSet(s) = ToSet(p) \union ToSet(r)
  <2>1. ASSUME NEW i \in 1..Len(s) PROVE s[i] \in ToSet(p) \union ToSet(r)
    BY <1>2, <1>3 DEF ToSet
  <2>2. ASSUME NEW i \in 1..Len(p) PROVE p[i] \in ToSet(s)
    BY <1>2, <1>4 DEF ToSet
  <2>3. ASSUME NEW i \in 1..Len(r) PROVE r[i] \in ToSet(s)
    BY <1>2, <1>4 DEF ToSet
  <2> QED
    BY <1>2, <2>1, <2>2, <2>3 DEF ToSet
<1>6. ASSUME Rising(p), Rising(r), \A x \in ToSet(p), y \in ToSet(r) : x < y,
             NEW i \in 1..Len(s), NEW j \in 1..Len(s), i < j
      PROVE  s[i] < s[j]
  <2>1. CASE j <= Len(p)
    BY <1>2, <1>3, <1>6, <2>1 DEF Rising
  <2>2. CASE i <= Len(p) /\ ~ (j <= Len(p))
    <3>1. s[i] \in ToSet(p) /\ s[j] \in ToSet(r)
      BY <1>2, <1>3, <2>2 DEF ToSet
    <3> QED
      BY <1>6, <3>1
  <2>3. CASE ~ (i <= Len(p)) /\ ~ (j <= Len(p))
    <3>1. /\ i - Len(p) \in 1..Len(r) /\ j - Len(p) \in 1..Len(r)
          /\ i - Len(p) < j - Len(p)
      BY <1>2, <1>3, <1>6, <2>3
    <3> QED
      BY <1>2, <1>6, <2>3, <3>1 DEF Rising
  <2> QED
    BY <1>2, <1>6, <2>1, <2>2, <2>3
<1> QED
  BY <1>1, <1>2, <1>5, <1>6 DEF Rising

\* What is kept of a sequence that is too long is its end.
LEMMA NewestIs ==
    ASSUME NEW s \in Seq(Message)
    PROVE  /\ Newest(s) \in Seq(Message)
           /\ Len(Newest(s)) <= Amount
           /\ Len(Newest(s)) < Amount => Newest(s) = s
           /\ ToSet(Newest(s)) \subseteq ToSet(s)
           /\ Rising(s) => /\ Rising(Newest(s))
                           /\ \A x \in ToSet(s), y \in ToSet(Newest(s)) :
                                y < x => x \in ToSet(Newest(s))
<1>1. Amount \in Nat /\ Amount # 0 /\ Len(s) \in Nat /\ Message \subseteq Nat
      /\ DOMAIN s = 1..Len(s)
  BY Assumptions DEF Assumptions
<1>2. CASE ~ (Len(s) > Amount)
  <2>1. Newest(s) = s
    BY <1>2 DEF Newest
  <2> QED
    BY <1>1, <1>2, <2>1
<1>3. CASE Len(s) > Amount
  <2>1. PICK k, r : k = Len(s) - Amount /\ r = Newest(s)
    OBVIOUS
  <2>2. k \in Nat /\ k + Amount = Len(s)
    BY <1>1, <1>3, <2>1
  <2>3. r = SubSeq(s, k + 1, Len(s))
    BY <1>3, <2>1 DEF Newest
  <2>4. /\ r \in Seq(Message) /\ Len(r) = Amount /\ DOMAIN r = 1..Amount
        /\ \A i \in 1..Amount : r[i] = s[i + k]
    <3>1. /\ k + 1 \in Int /\ Len(s) \in Int /\ k + 1 <= Len(s)
          /\ \A i \in (k + 1)..Len(s) : s[i] \in Message
      BY <1>1, <2>2
    <3>2. /\ r \in Seq(Message) /\ Len(r) = Len(s) - (k + 1) + 1
          /\ \A i \in 1..(Len(s) - (k + 1) + 1) : r[i] = s[(k + 1) + i - 1]
      BY <2>3, <3>1, SubSeqProperties
    <3>3. Len(s) - (k + 1) + 1 = Amount
      <4>1. \A a, b \in Nat : (a + b) - (a + 1) + 1 = b
        OBVIOUS
      <4> QED
        BY <1>1, <2>2, <4>1
    <3>4. \A i \in 1..Amount : (k + 1) + i - 1 = i + k
      BY <1>1, <2>2
    <3> QED
      BY <3>2, <3>3, <3>4
  <2>5. \A i \in 1..Amount : i + k \in 1..Len(s)
    BY <1>1, <2>2
  <2>6. ToSet(r) \subseteq ToSet(s)
    BY <1>1, <2>4, <2>5 DEF ToSet
  <2>7. ASSUME Rising(s) PROVE Rising(r)
    <3> SUFFICES ASSUME NEW i \in 1..Amount, NEW j \in 1..Amount, i < j
                 PROVE  r[i] < r[j]
      BY <2>4 DEF Rising
    <3>1. i + k < j + k
      BY <2>2
    <3> QED
      BY <1>1, <2>4, <2>5, <2>7, <3>1 DEF Rising
  <2>8. ASSUME Rising(s), NEW x \in ToSet(s), NEW y \in ToSet(r), y < x
        PROVE  x \in ToSet(r)
    <3>1. PICK i \in 1..Len(s) : x = s[i]
      BY <1>1 DEF ToSet
    <3>2. PICK j \in 1..Amount : y = s[j + k] /\ j + k \in 1..Len(s)
      BY <2>4, <2>5 DEF ToSet
    <3>3. ~ (i < j + k)
      <4>1. i < j + k => x < y
        BY <1>1, <2>8, <3>1, <3>2 DEF Rising
      <4>2. x \in Nat /\ y \in Nat
        <5>1. s[i] \in Message /\ s[j + k] \in Message
          BY <1>1, <3>1, <3>2
        <5> QED
          BY <1>1, <3>1, <3>2, <5>1
      <4> QED
        BY <2>8, <4>1, <4>2
    <3>4. i - k \in 1..Amount /\ (i - k) + k = i
      BY <1>1, <2>2, <3>1, <3>2, <3>3
    <3>5. r[i - k] = x
      BY <2>4, <3>1, <3>4
    <3> QED
      BY <2>4, <3>4, <3>5 DEF ToSet
  <2> QED
    BY <1>1, <2>1, <2>4, <2>6, <2>7, <2>8
<1> QED
  BY <1>2, <1>3

-----------------------------------------------------------------------------
(* What a reader has *)

\* The messages up to a time in the files F, when N is in the files
Through(N, F, time) == {m \in Message : m <= time /\ \E f \in F : m \in DOMAIN N[f]}

\* The later chunks of a day have its later messages.
InOrd(N) ==
    \A f, g \in File : f[1] = g[1] /\ f[2] < g[2] =>
        \A x \in DOMAIN N[f], y \in DOMAIN N[g] : x < y

\* None of S that is later than one of W is missing in W.
UpIn(W, S) == \A x \in S, y \in W : y < x => x \in W

ReadJob == [at : {"scan", "answered"}, op : {"load"}, time : Message,
            files : SUBSET File, result : Seq(Message), calm : BOOLEAN]

\* A reader j has read the files L but those that it still has to: all that is
\* in them up to its time, or as many as it wants.
ReadSound(j, N, L) ==
    /\ j.files \subseteq L
    /\ j.at = "scan" =>
        /\ Len(j.result) < Amount
        /\ ToSet(j.result) = Through(N, L \ j.files, j.time)
        /\ \A f \in j.files, g \in L \ j.files : Before(f, g)
        /\ InOrd(N) => Rising(j.result)
    /\ j.at = "answered" =>
        /\ Len(j.result) <= Amount
        /\ ToSet(j.result) \subseteq Through(N, File, j.time)
        /\ Len(j.result) < Amount => ToSet(j.result) = Through(N, File, j.time)
        /\ InOrd(N) => /\ Rising(j.result)
                       /\ UpIn(ToSet(j.result), Through(N, File, j.time))

\* Messages of an earlier file are earlier.
LEMMA EarlierThere ==
    ASSUME NEW N, InOrd(N), NEW f \in File, NEW g \in File, Before(f, g),
           OfDay(N[f], f[1]), OfDay(N[g], g[1]),
           NEW x \in DOMAIN N[f], NEW y \in DOMAIN N[g]
    PROVE  x < y
<1>1. /\ x \in Message /\ y \in Message /\ x \in Nat /\ y \in Nat
      /\ DayOf(x) = f[1] /\ DayOf(y) = g[1] /\ DayOf(x) \in Nat /\ DayOf(y) \in Nat
  BY Assumptions DEF OfDay, Assumptions
<1>2. CASE f[1] < g[1]
  <2>1. ~ (DayOf(y) <= DayOf(x))
    BY <1>1, <1>2
  <2>2. ~ (y <= x)
    BY <1>1, <2>1, Assumptions DEF Assumptions
  <2> QED
    BY <1>1, <2>2
<1>3. CASE f[1] = g[1] /\ f[2] < g[2]
  BY <1>3 DEF InOrd
<1> QED
  BY <1>2, <1>3 DEF Before

\* One more file is read.
LEMMA ReadsOn ==
    ASSUME NEW N, NEW L, L \subseteq File,
           \A g \in File : OfDay(N[g], g[1]),
           \A g \in File \ L : DOMAIN N[g] = {},
           NEW j \in ReadJob, j.at = "scan", j.files # {}, ReadSound(j, N, L),
           NEW f, f = Latest(j.files), NEW part,
           part = Ascending({m \in DOMAIN N[f] : m <= j.time}),
           NEW k \in ReadJob, k.result = Newest(part \o j.result),
           k.files = j.files \ {f}, k.time = j.time,
           k.at = IF Len(k.result) >= Amount \/ k.files = {} THEN "answered" ELSE "scan"
    PROVE  ReadSound(k, N, L)
<1>0. Amount \in Nat /\ Message \subseteq Nat
  BY Assumptions DEF Assumptions
<1>1. PICK P : P = {m \in DOMAIN N[f] : m <= j.time}
  OBVIOUS
<1>2. f \in j.files /\ j.files \subseteq File /\ \A g \in k.files : Before(g, f)
  BY LatestIsThere DEF ReadJob
<1>3. P \subseteq Message /\ P \subseteq DOMAIN N[f]
  BY <1>1, <1>2 DEF OfDay
<1>4. part \in Seq(Message) /\ Rising(part) /\ ToSet(part) = P
  BY <1>1, <1>3, AscendingIs
<1>5. /\ j.files \subseteq L /\ Len(j.result) < Amount
      /\ ToSet(j.result) = Through(N, L \ j.files, j.time)
      /\ \A g \in j.files, h \in L \ j.files : Before(g, h)
      /\ InOrd(N) => Rising(j.result)
  BY DEF ReadSound
<1>6. PICK s : s = part \o j.result
  OBVIOUS
<1>7. j.result \in Seq(Message) /\ k.result \in Seq(Message) /\ j.time \in Message
  BY DEF ReadJob
<1>8. /\ s \in Seq(Message) /\ ToSet(s) = P \union Through(N, L \ j.files, j.time)
      /\ InOrd(N) => Rising(s)
  <2>1. s \in Seq(Message) /\ ToSet(s) = ToSet(part) \union ToSet(j.result)
    BY <1>4, <1>6, <1>7, Joined
  <2>2. ASSUME InOrd(N), NEW x \in ToSet(part), NEW y \in ToSet(j.result)
        PROVE  x < y
    <3>1. x \in DOMAIN N[f]
      BY <1>3, <1>4
    <3>2. PICK g \in L \ j.files : y \in DOMAIN N[g]
      BY <1>5 DEF Through
    <3>3. g \in File /\ f \in File /\ Before(f, g)
      BY <1>2, <1>5
    <3> QED
      BY <2>2, <3>1, <3>2, <3>3, EarlierThere
  <2>3. InOrd(N) => Rising(s)
    BY <1>4, <1>5, <1>6, <1>7, <2>2, Joined
  <2> QED
    BY <1>4, <1>5, <2>1, <2>3
<1>9. ToSet(s) = Through(N, L \ k.files, j.time)
  <2>1. L \ k.files = (L \ j.files) \union {f}
    BY <1>2, <1>5
  <2>2. \A m : m \in P <=> m \in Message /\ m <= j.time /\ m \in DOMAIN N[f]
    BY <1>1, <1>3
  <2> QED
    BY <1>8, <2>1, <2>2 DEF Through
<1>10. \A g \in k.files, h \in L \ k.files : Before(g, h)
  BY <1>2, <1>5
<1>11. /\ Len(k.result) <= Amount /\ Len(k.result) \in Nat
       /\ Len(k.result) < Amount => k.result = s
       /\ ToSet(k.result) \subseteq ToSet(s)
       /\ Rising(s) => Rising(k.result) /\ UpIn(ToSet(k.result), ToSet(s))
  <2>1. PICK r : r = Newest(s)
    OBVIOUS
  <2>2. r \in Seq(Message) /\ k.result = r
    BY <1>6, <1>7, <2>1
  <2>3. Len(r) <= Amount /\ (Len(r) < Amount => r = s) /\ ToSet(r) \subseteq ToSet(s)
    BY <1>8, <2>1, NewestIs
  <2>4. Rising(s) => Rising(r) /\ UpIn(ToSet(r), ToSet(s))
    BY <1>8, <2>1, NewestIs DEF UpIn
  <2>5. Len(r) \in Nat
    BY <2>2
  <2> QED
    BY <2>2, <2>3, <2>4, <2>5
<1>12. k.files \subseteq L /\ Through(N, L, j.time) = Through(N, File, j.time)
  BY <1>5 DEF Through
<1>13. ToSet(k.result) \subseteq Through(N, File, j.time)
  BY <1>9, <1>11 DEF Through
<1>14. ASSUME InOrd(N) PROVE UpIn(ToSet(k.result), Through(N, File, j.time))
  <2> SUFFICES ASSUME NEW x \in Through(N, File, j.time), NEW y \in ToSet(k.result), y < x
               PROVE  x \in ToSet(k.result)
    BY DEF UpIn
  <2>1. PICK g \in L : x \in DOMAIN N[g]
    BY <1>12 DEF Through
  <2>2. PICK h \in L \ k.files : y \in DOMAIN N[h]
    BY <1>9, <1>11 DEF Through
  <2>3. g \notin k.files
    <3> SUFFICES ASSUME g \in k.files PROVE FALSE
      OBVIOUS
    <3>1. Before(g, h) /\ g \in File /\ h \in File
      BY <1>10
    <3>2. x < y
      BY <1>14, <2>1, <2>2, <3>1, EarlierThere
    <3>3. x \in Nat /\ y \in Nat
      BY <1>0, <1>13 DEF Through
    <3> QED
      BY <3>2, <3>3
  <2>4. x \in ToSet(s)
    BY <1>9, <2>1, <2>3 DEF Through
  <2> QED
    BY <1>8, <1>11, <1>14, <2>4 DEF UpIn
<1>15. CASE Len(k.result) >= Amount
  BY <1>0, <1>8, <1>11, <1>12, <1>13, <1>14, <1>15 DEF ReadSound
<1>16. CASE ~(Len(k.result) >= Amount) /\ k.files = {}
  <2>1. Len(k.result) < Amount /\ L \ k.files = L
    BY <1>0, <1>11, <1>16
  <2>2. ToSet(k.result) = Through(N, File, j.time)
    BY <1>9, <1>11, <1>12, <2>1
  <2> QED
    BY <1>8, <1>11, <1>12, <1>14, <1>16, <2>2 DEF ReadSound
<1>17. CASE ~(Len(k.result) >= Amount) /\ k.files # {}
  <2>1. Len(k.result) < Amount /\ k.result = s
    BY <1>0, <1>11, <1>17
  <2> QED
    BY <1>8, <1>9, <1>10, <1>12, <1>17, <2>1 DEF ReadSound
<1> QED
  BY <1>15, <1>16, <1>17

-----------------------------------------------------------------------------
(* The invariant of the readers *)

\* No command that writes runs, and no chunk is in memory only.
Quiet ==
    /\ \A u \in Thread : ~Writes(thread[u])
    /\ \A f \in File : disk[f] = None => ~InMemory(f)

ReadOf(t) ==
    Reader(thread[t]) =>
        /\ thread[t] \in ReadJob
        /\ thread[t].at = "scan" => thread[t].files # {}
        /\ thread[t].calm /\ upset = {} => Quiet /\ ReadSound(thread[t], Contents, Listed)

ReadInv == DOMAIN stored \subseteq Message /\ \A t \in Thread : ReadOf(t)

\* The files and the commands that write stay, one reader may move.
LEMMA OthersRead ==
    ASSUME ReadInv, DOMAIN stored' \subseteq Message, Quiet => Quiet', upset' = upset,
           Contents' = Contents, Listed' = Listed,
           NEW t, \A u \in Thread : u # t => thread'[u] = thread[u],
           t \in Thread => ReadOf(t)'
    PROVE  ReadInv'
<1>1. ASSUME NEW u \in Thread, u # t PROVE ReadOf(u)'
  <2>1. thread'[u] = thread[u] /\ ReadOf(u)
    BY <1>1 DEF ReadInv
  <2> QED
    BY <2>1 DEF ReadOf
<1> QED
  BY <1>1 DEF ReadInv

\* A command that writes goes on, none that reads is calm.
LEMMA WriterReads ==
    ASSUME ReadInv, ChunkInv, NEW t \in Thread, Writes(thread[t]),
           NEW k, Set(t, k), ~Reader(k), DOMAIN stored' \subseteq Message,
           upset \subseteq upset'
    PROVE  ReadInv'
<1>1. \A u \in Thread : thread'[u] = IF u = t THEN k ELSE thread[u]
  BY DEF Set, ChunkInv
<1>2. ~Quiet
  BY DEF Quiet
<1>3. ASSUME NEW u \in Thread PROVE ReadOf(u)'
  <2>1. CASE u = t
    BY <1>1, <2>1 DEF ReadOf
  <2>2. CASE u # t
    <3>1. thread'[u] = thread[u] /\ ReadOf(u)
      BY <1>1, <2>2 DEF ReadInv
    <3>2. Reader(thread[u]) => thread[u] \in ReadJob /\ (thread[u].calm = FALSE \/ upset # {})
      BY <1>2, <3>1 DEF ReadOf, ReadJob
    <3>3. upset # {} => upset' # {}
      OBVIOUS
    <3> QED
      BY <3>1, <3>2, <3>3 DEF ReadOf
  <2> QED
    BY <2>1, <2>2
<1> QED
  BY <1>3 DEF ReadInv

\* Nobody reads that is not disturbed.
LEMMA NoneCalm ==
    ASSUME DOMAIN stored' \subseteq Message,
           \A u \in Thread :
                Reader(thread[u])' =>
                    /\ thread'[u] \in ReadJob /\ thread'[u].calm = FALSE
                    /\ thread'[u].at = "scan" => thread'[u].files # {}
    PROVE  ReadInv'
BY DEF ReadInv, ReadOf

\* Commands store messages.
LEMMA OutcomeStored ==
    ASSUME NEW j, Task(j), DOMAIN stored \subseteq Message
    PROVE  DOMAIN Outcome(j) \subseteq Message
<1>1. DOMAIN j.asked \subseteq Message /\ j.op \in {"update", "mark", "remove"}
  BY DEF Task, OfDay
<1>2. CASE j.op = "update"
  BY <1>1, <1>2 DEF Outcome, Merged
<1>3. CASE j.op = "mark"
  BY <1>1, <1>3 DEF Outcome, Merged, Restrict
<1>4. CASE j.op = "remove"
  BY <1>1, <1>4 DEF Outcome, Without, Restrict
<1> QED
  BY <1>1, <1>2, <1>3, <1>4

\* A command that goes on, or is done
Proceeds(t) ==
    \/ \E k : Set(t, k) /\ k.op # "load" /\ stored' = stored
    \/ Done(t)

LEMMA ProceedsRead ==
    ASSUME ReadInv, StoreInv, NEW t \in Thread, Writes(thread[t]), Proceeds(t),
           upset \subseteq upset'
    PROVE  ReadInv'
<1>1. ChunkInv /\ DOMAIN stored \subseteq Message /\ Task(thread[t])
  BY DEF StoreInv, AllTasks, ReadInv
<1>2. ASSUME Done(t) PROVE ReadInv'
  <2>1. DOMAIN stored' \subseteq Message
    BY <1>1, <1>2, OutcomeStored DEF Done
  <2>2. Set(t, Idle) /\ ~Reader(Idle)
    BY <1>2 DEF Done, Reader, Idle
  <2> QED
    BY <1>1, <2>1, <2>2, WriterReads
<1>3. ASSUME NEW k, Set(t, k), k.op # "load", stored' = stored PROVE ReadInv'
  BY <1>1, <1>3, WriterReads DEF Reader
<1> QED
  BY <1>2, <1>3 DEF Proceeds

LEMMA WritersProceed ==
    ASSUME StoreInv, NEW t \in Thread,
           \/ Scan(t) \/ Save(t) \/ Missing(t) \/ LookForRoom(t) \/ Fill(t) \/ NewChunk(t)
    PROVE  Writes(thread[t]) /\ Proceeds(t) /\ upset \subseteq upset'
<1>1. PICK j : j = thread[t]
  OBVIOUS
<1>2. Writes(j)
  BY <1>1 DEF Scan, Save, Missing, LookForRoom, Fill, NewChunk
<1>3. Writer(j) /\ Task(j) /\ {"at", "op", "todo", "own", "files", "others", "file", "data", "left"} \subseteq DOMAIN j /\ j.op # "load"
  BY <1>1, <1>2, WriterIs DEF StoreInv, AllTasks, Writer
<1>4. ASSUME NEW left PROVE Dealt(j, left).op # "load"
  BY <1>3 DEF Dealt
<1>5. ASSUME NEW some, Placed(t, some) PROVE Proceeds(t)
  BY <1>1, <1>3, <1>5 DEF Placed, Proceeds
<1>6. ASSUME Scan(t) PROVE Proceeds(t)
  <2>1. PICK f, c : Set(t, IF Sought(j) \in DOMAIN c
                         THEN [j EXCEPT !.at = "save", !.file = f, !.data = c]
                         ELSE [j EXCEPT !.files = @ \ {f}])
    BY <1>1, <1>6 DEF Scan
  <2>2. /\ [j EXCEPT !.at = "save", !.file = f, !.data = c].op # "load"
        /\ [j EXCEPT !.files = @ \ {f}].op # "load"
    BY <1>3
  <2>3. stored' = stored
    BY <1>6 DEF Scan
  <2> QED
    BY <2>1, <2>2, <2>3 DEF Proceeds
<1>7. ASSUME Save(t) PROVE Proceeds(t)
  BY <1>1, <1>4, <1>7 DEF Save, Proceeds
<1>8. ASSUME Missing(t) PROVE Proceeds(t)
  BY <1>1, <1>3, <1>4, <1>8 DEF Missing, Proceeds
<1>9. ASSUME LookForRoom(t) PROVE Proceeds(t)
  <2>1. \/ Done(t)
        \/ Set(t, [j EXCEPT !.at = "chunk"]) /\ stored' = stored
        \/ (\E c :
                Set(t, IF Room(c) > 0
                       THEN [j EXCEPT !.at = "fill", !.file = Latest(j.own), !.data = c]
                       ELSE [j EXCEPT !.at = "chunk", !.file = NextName(Latest(j.own))]))
           /\ stored' = stored
    BY <1>1, <1>9 DEF LookForRoom
  <2>2. \A f, c, n : /\ [j EXCEPT !.at = "chunk"].op # "load"
                    /\ [j EXCEPT !.at = "fill", !.file = f, !.data = c].op # "load"
                    /\ [j EXCEPT !.at = "chunk", !.file = n].op # "load"
    BY <1>3
  <2> QED
    BY <2>1, <2>2 DEF Proceeds
<1>10. ASSUME Fill(t) \/ NewChunk(t) PROVE Proceeds(t)
  BY <1>5, <1>10 DEF Fill, NewChunk
<1>11. upset \subseteq upset'
  BY DEF Scan, Save, Missing, LookForRoom, Fill, NewChunk
<1> QED
  BY <1>1, <1>2, <1>6, <1>7, <1>8, <1>9, <1>10, <1>11

\* A command that begins disturbs the readers.
LEMMA BeginReads ==
    ASSUME ReadInv, StoreInv, NEW t \in Thread, NEW op, op # "load", NEW asked, NEW own,
           Begin(t, op, asked, own)
    PROVE  ReadInv'
<1>1. DOMAIN stored' \subseteq Message
  BY DEF ReadInv, Begin
<1>2. ASSUME NEW u \in Thread, Reader(thread[u])'
      PROVE  /\ thread'[u] \in ReadJob /\ thread'[u].calm = FALSE
             /\ thread'[u].at = "scan" => thread'[u].files # {}
  <2>1. u # t
    <3>1. u = t => thread'[u].op = op
      BY DEF Begin
    <3> QED
      BY <1>2, <3>1 DEF Reader
  <2>2. CASE thread[u] # Idle /\ thread[u].op = "load"
    <3>1. thread'[u] = [thread[u] EXCEPT !.calm = FALSE]
      BY <2>1, <2>2 DEF Begin
    <3>2. ReadOf(u) /\ Reader(thread[u])
      BY <2>2, ReaderIs DEF ReadInv, StoreInv
    <3> QED
      BY <3>1, <3>2 DEF ReadOf, ReadJob
  <2>3. CASE ~(thread[u] # Idle /\ thread[u].op = "load")
    <3>1. thread'[u] = thread[u]
      BY <2>1, <2>3 DEF Begin
    <3> QED
      BY <1>2, <2>3, <3>1 DEF Reader, Idle
  <2> QED
    BY <2>2, <2>3
<1> QED
  BY <1>1, <1>2, NoneCalm

LEMMA ClearReads ==
    ASSUME ReadInv, StoreInv, Clear
    PROVE  ReadInv'
<1>1. DOMAIN stored' \subseteq Message
  BY DEF Clear, Nothing
<1>2. ASSUME NEW u \in Thread, Reader(thread[u])'
      PROVE  /\ thread'[u] \in ReadJob /\ thread'[u].calm = FALSE
             /\ thread'[u].at = "scan" => thread'[u].files # {}
  <2>2. CASE thread[u] # Idle /\ thread[u].op = "load"
    <3>1. thread'[u] = [thread[u] EXCEPT !.calm = FALSE]
      BY <2>2 DEF Clear
    <3>2. ReadOf(u) /\ Reader(thread[u])
      BY <2>2, ReaderIs DEF ReadInv, StoreInv
    <3> QED
      BY <3>1, <3>2 DEF ReadOf, ReadJob
  <2>3. CASE ~(thread[u] # Idle /\ thread[u].op = "load")
    <3>1. thread'[u] = thread[u]
      BY <2>3 DEF Clear
    <3> QED
      BY <1>2, <2>3, <3>1 DEF Reader, Idle
  <2> QED
    BY <2>2, <2>3
<1> QED
  BY <1>1, <1>2, NoneCalm

LEMMA CrashReads ==
    ASSUME ReadInv, Crash
    PROVE  ReadInv'
<1>1. DOMAIN stored' \subseteq Message
  BY DEF ReadInv, Crash
<1>2. ASSUME NEW u \in Thread PROVE ~Reader(thread[u])'
  <2>1. thread'[u] = Idle
    BY DEF Crash
  <2> QED
    BY <2>1 DEF Reader, Idle
<1> QED
  BY <1>1, <1>2, NoneCalm

\* The commands stay as they are, and unless a day is excepted now, so do the
\* files, which are all on disk.
LEMMA FilesSettle ==
    ASSUME ReadInv, thread' = thread, stored' = stored,
           upset' = {} => upset = {} /\ Contents' = Contents,
           ASSUME Quiet PROVE Listed' = Listed /\ Quiet'
    PROVE  ReadInv'
<1>1. ASSUME NEW t \in Thread PROVE ReadOf(t)'
  <2>1. ReadOf(t)
    BY DEF ReadInv
  <2> QED
    BY <2>1 DEF ReadOf
<1> QED
  BY <1>1 DEF ReadInv

\* A flush changes nothing that a load finds, unless a day is excepted, and
\* removes no file.
LEMMA FlushReads ==
    ASSUME ReadInv, StoreInv, NEW f \in File, Flushes(f)
    PROVE  ReadInv'
<1>1. /\ ChunkInv /\ upset \subseteq upset'
      /\ upset' = upset => Contents' = Contents \/ f[1] \in upset
  BY FilesFlushed DEF StoreInv
<1>2. thread' = thread /\ stored' = stored
  BY DEF Flushes, FlushTakes, FlushDrops, FlushOpens, FlushEnds, FlushFails
<1>3. upset' = {} => upset = {} /\ Contents' = Contents
  BY <1>1
<1>4. ASSUME Quiet PROVE Listed' = Listed /\ Quiet'
  <2>1. InMemory(f) /\ disk[f] # None
    BY <1>4 DEF Flushes, FlushTakes, FlushDrops, FlushOpens, FlushEnds, FlushFails, InMemory, Quiet
  <2>2. \A g \in File : disk'[g] = None <=> disk[g] = None
    <3>1. CASE FlushTakes(f) \/ FlushDrops(f) \/ FlushFails(f)
      BY <3>1 DEF FlushTakes, FlushDrops, FlushFails
    <3>2. CASE FlushOpens(f)
      <4>1. \A g \in File : disk'[g] = IF g = f THEN Nothing ELSE disk[g]
        BY <1>1, <3>2 DEF FlushOpens, ChunkInv
      <4>2. Nothing # None
        BY NothingIsNotNone
      <4> QED
        BY <2>1, <4>1, <4>2
    <3>3. CASE FlushEnds(f)
      <4>1. /\ flying[f] # None
            /\ \A g \in File : disk'[g] = IF g = f THEN flying[f] ELSE disk[g]
        BY <1>1, <3>3 DEF FlushEnds, ChunkInv
      <4> QED
        BY <2>1, <4>1
    <3> QED
      BY <3>1, <3>2, <3>3 DEF Flushes
  <2>3. ASSUME NEW g \in File, disk'[g] = None PROVE ~InMemory(g)'
    <3>1. ~InMemory(g) /\ g # f
      BY <1>4, <2>1, <2>2, <2>3 DEF Quiet
    <3>2. flying'[g] = flying[g] /\ pending'[g] = pending[g]
      BY <1>1, <3>1 DEF Flushes, FlushTakes, FlushDrops, FlushOpens, FlushEnds, FlushFails, Pend, ChunkInv
    <3> QED
      BY <3>1, <3>2 DEF InMemory
  <2>4. Listed' = Listed
    BY <2>2 DEF Listed
  <2>5. \A u \in Thread : ~Writes(thread'[u])
    BY <1>2, <1>4 DEF Quiet
  <2> QED
    BY <2>3, <2>4, <2>5 DEF Quiet, Writes
<1> QED
  BY <1>2, <1>3, <1>4, FilesSettle

\* What is not listed is empty, when nothing is in memory only.
LEMMA UnlistedEmpty ==
    ASSUME Quiet, NEW f \in File \ Listed
    PROVE  DOMAIN Contents[f] = {}
<1>1. Newer(f) = Nothing
  BY OnDisk DEF Quiet, Listed
<1> QED
  BY <1>1 DEF Contents, Nothing

\* Nothing is read yet.
LEMMA NothingRead ==
    ASSUME NEW N, NEW L, L \subseteq File, \A g \in File \ L : DOMAIN N[g] = {},
           NEW k \in ReadJob, k.files = L, k.result = <<>>,
           k.at = IF L = {} THEN "answered" ELSE "scan"
    PROVE  ReadSound(k, N, L)
<1>1. Len(k.result) = 0 /\ 0 < Amount /\ 0 <= Amount
  BY Assumptions DEF Assumptions
<1>2. ToSet(k.result) = {} /\ Rising(k.result)
  BY DEF ToSet, Rising
<1>3. L \ k.files = {} /\ Through(N, L \ k.files, k.time) = {}
  BY DEF Through
<1>4. L = {} => Through(N, File, k.time) = {}
  BY DEF Through
<1> QED
  BY <1>1, <1>2, <1>3, <1>4 DEF ReadSound, UpIn

\* A command that reads begins, or goes on, or answers.
LEMMA ReaderMoves ==
    ASSUME ReadInv, ChunkInv, \A f \in File : FileOfDay(f),
           NEW t \in Thread, ~Writes(thread[t]), NEW k, Set(t, k), ~Writes(k),
           UNCHANGED files, stored' = stored, upset' = upset,
           Reader(k) =>
                /\ k \in ReadJob
                /\ k.at = "scan" => k.files # {}
                /\ k.calm /\ upset = {} => Quiet /\ ReadSound(k, Contents, Listed)
    PROVE  ReadInv'
<1>1. thread'[t] = k /\ \A u \in Thread : u # t => thread'[u] = thread[u]
  BY DEF Set, ChunkInv
<1>2. Contents' = Contents /\ disk' = disk /\ pending' = pending /\ flying' = flying
  BY FilesStay DEF files
<1>3. Listed' = Listed /\ \A f \in File : InMemory(f)' <=> InMemory(f)
  BY <1>2 DEF Listed, InMemory
<1>4. Quiet => Quiet'
  <2>1. ASSUME Quiet, NEW u \in Thread PROVE ~Writes(thread[u])'
    <3>1. CASE u = t
      BY <1>1, <3>1 DEF Writes
    <3>2. CASE u # t
      BY <1>1, <2>1, <3>2 DEF Writes, Quiet
    <3> QED
      BY <3>1, <3>2
  <2> QED
    BY <1>2, <1>3, <2>1 DEF Quiet
<1>5. ReadOf(t)'
  BY <1>1, <1>2, <1>3, <1>4 DEF ReadOf
<1>6. DOMAIN stored' \subseteq Message
  BY DEF ReadInv
<1> QED
  BY <1>1, <1>2, <1>3, <1>4, <1>5, <1>6, OthersRead

LEMMA BeginLoadReads ==
    ASSUME ReadInv, StoreInv, NEW t \in Thread, NEW time \in Message, BeginLoad(t, time)
    PROVE  ReadInv'
<1>1. PICK k : k = [at |-> IF Listed = {} THEN "answered" ELSE "scan", op |-> "load",
               time |-> time, files |-> Listed, result |-> <<>>,
               calm |-> ~(\E d \in Day : Busy(d)) /\ \A f \in File :
                            disk[f] = None => ~InMemory(f)]
  OBVIOUS
<1>2. Set(t, k) /\ thread[t] = Idle /\ UNCHANGED files /\ stored' = stored /\ upset' = upset
  BY <1>1 DEF BeginLoad
<1>3. k \in ReadJob /\ ~Writes(k) /\ ~Writes(thread[t])
  <2>1. Listed \in SUBSET File /\ <<>> \in Seq(Message)
    BY DEF Listed
  <2>2. k \in ReadJob
    BY <1>1, <2>1 DEF ReadJob
  <2> QED
    BY <1>1, <1>2, <2>2 DEF Writes
<1>4. k.at = "scan" => k.files # {}
  BY <1>1
<1>5. ASSUME k.calm PROVE Quiet /\ ReadSound(k, Contents, Listed)
  <2>1. (\A d \in Day : ~Busy(d)) /\ \A f \in File : disk[f] = None => ~InMemory(f)
    BY <1>1, <1>5
  <2>2. ASSUME NEW u \in Thread PROVE ~Writes(thread[u])
    <3> SUFFICES ASSUME Writes(thread[u]) PROVE FALSE
      OBVIOUS
    <3>1. DayIn(thread[u]) \in Day
      BY DEF StoreInv, AllTasks, Task
    <3> QED
      BY <2>1, <3>1 DEF Busy
  <2>3. Quiet
    BY <2>1, <2>2 DEF Quiet
  <2>4. Listed \subseteq File /\ \A g \in File \ Listed : DOMAIN Contents[g] = {}
    BY <2>3, UnlistedEmpty DEF Listed
  <2>5. k.files = Listed /\ k.result = <<>> /\ k.at = IF Listed = {} THEN "answered" ELSE "scan"
    BY <1>1
  <2>6. PICK N, L : N = Contents /\ L = Listed
    OBVIOUS
  <2>7. ReadSound(k, N, L)
    BY <1>3, <2>4, <2>5, <2>6, NothingRead
  <2> QED
    BY <2>3, <2>6, <2>7
<1> QED
  BY <1>2, <1>3, <1>4, <1>5, ReaderMoves DEF StoreInv

LEMMA LoadFileReads ==
    ASSUME ReadInv, StoreInv, NEW t \in Thread, LoadFile(t)
    PROVE  ReadInv'
<1>1. PICK j : j = thread[t]
  OBVIOUS
<1>2. /\ j # Idle /\ j.op = "load" /\ j.at = "scan"
      /\ UNCHANGED files /\ stored' = stored /\ upset' = upset
  BY <1>1 DEF LoadFile
<1>3. /\ Reader(j) /\ j \in ReadJob /\ j.files # {}
      /\ j.calm /\ upset = {} => Quiet /\ ReadSound(j, Contents, Listed)
  <2>1. Reader(j) /\ ReadOf(t)
    BY <1>1, <1>2, ReaderIs DEF ReadInv, StoreInv
  <2> QED
    BY <1>1, <1>2, <2>1 DEF ReadOf
<1>4. PICK f : f = Latest(j.files)
  OBVIOUS
<1>5. f \in j.files /\ f \in File
  BY <1>3, <1>4, LatestIsThere DEF ReadJob
<1>6. PICK c : c = Loaded(Latest(thread[t].files)) /\
        LET part == Ascending({m \in DOMAIN c : m <= thread[t].time})
            result == Newest(part \o thread[t].result)
            rest == thread[t].files \ {Latest(thread[t].files)}
        IN  Set(t, [thread[t] EXCEPT !.result = result, !.files = rest,
                !.calm = @ /\ ~Torn(Latest(thread[t].files), Latest(thread[t].files)[1]),
                !.at = IF Len(result) >= Amount \/ rest = {} THEN "answered" ELSE "scan"])
  BY DEF LoadFile
<1>7. PICK part : part = Ascending({m \in DOMAIN c : m <= thread[t].time})
  OBVIOUS
<1>8. PICK result : result = Newest(part \o j.result)
  OBVIOUS
<1>9. PICK k : k = [j EXCEPT !.result = result, !.files = j.files \ {f},
                !.calm = @ /\ ~Torn(f, f[1]),
                !.at = IF Len(result) >= Amount \/ j.files \ {f} = {} THEN "answered" ELSE "scan"]
  OBVIOUS
<1>10. c = Loaded(f) /\ Set(t, k)
  BY <1>1, <1>4, <1>6, <1>7, <1>8, <1>9
<1>p. part = Ascending({m \in DOMAIN c : m <= j.time})
  BY <1>1, <1>7
<1>11. OfDay(c, f[1]) /\ (~Torn(f, f[1]) => c = Contents[f])
  BY <1>5, <1>10, LoadsNewer DEF StoreInv
<1>12. result \in Seq(Message)
  <2>1. part \in Seq(Message)
    BY <1>p, <1>11, AscendingIs DEF OfDay
  <2>2. part \o j.result \in Seq(Message)
    BY <1>3, <2>1, Joined DEF ReadJob
  <2> QED
    BY <1>8, <2>2, NewestIs
<1>13. /\ k \in ReadJob /\ k.result = result /\ k.files = j.files \ {f} /\ k.time = j.time
       /\ k.at = IF Len(k.result) >= Amount \/ k.files = {} THEN "answered" ELSE "scan"
       /\ k.calm = (j.calm /\ ~Torn(f, f[1])) /\ k.op = "load"
  BY <1>3, <1>9, <1>12 DEF ReadJob
<1>14. ASSUME k.calm, upset = {} PROVE Quiet /\ ReadSound(k, Contents, Listed)
  <2>1. Quiet /\ ReadSound(j, Contents, Listed) /\ c = Contents[f]
    BY <1>3, <1>11, <1>13, <1>14
  <2>2. PICK N, L : N = Contents /\ L = Listed
    OBVIOUS
  <2>3. /\ L \subseteq File /\ \A g \in File \ L : DOMAIN N[g] = {}
        /\ \A g \in File : OfDay(N[g], g[1])
    BY <2>1, <2>2, UnlistedEmpty, ContentsOf DEF Listed, StoreInv
  <2>4. /\ ReadSound(j, N, L) /\ part = Ascending({m \in DOMAIN N[f] : m <= j.time})
        /\ k.result = Newest(part \o j.result)
    BY <1>p, <1>8, <1>13, <2>1, <2>2
  <2>5. ReadSound(k, N, L)
    BY <1>2, <1>3, <1>4, <1>13, <2>3, <2>4, ReadsOn
  <2> QED
    BY <2>1, <2>2, <2>5
<1>15. k.at = "scan" => k.files # {}
  BY <1>13
<1>16. ~Writes(thread[t]) /\ ~Writes(k)
  BY <1>1, <1>2, <1>13 DEF Writes
<1> QED
  BY <1>2, <1>10, <1>13, <1>14, <1>15, <1>16, ReaderMoves DEF StoreInv

LEMMA AnswerReads ==
    ASSUME ReadInv, StoreInv, NEW t \in Thread, Answer(t)
    PROVE  ReadInv'
<1>1. ~Writes(thread[t])
  <2> SUFFICES ASSUME Writes(thread[t]) PROVE FALSE
    OBVIOUS
  <2>1. Task(thread[t])
    BY DEF StoreInv, AllTasks
  <2> QED
    BY <2>1 DEF Answer, Task
<1>2. Set(t, Idle) /\ UNCHANGED files /\ stored' = stored /\ upset' = upset
  BY DEF Answer
<1>3. ~Writes(Idle) /\ ~Reader(Idle)
  BY DEF Writes, Reader, Idle
<1> QED
  BY <1>1, <1>2, <1>3, ReaderMoves DEF StoreInv

LEMMA InitReads == Init => ReadInv
<1> SUFFICES ASSUME Init PROVE ReadInv
  OBVIOUS
<1>1. \A t \in Thread : thread[t] = Idle
  BY DEF Init
<1> QED
  BY <1>1 DEF Init, ReadInv, ReadOf, Reader, Idle, Nothing

LEMMA NextReads == StoreInv /\ ReadInv /\ [Next]_vars => ReadInv'
<1> SUFFICES ASSUME StoreInv, ReadInv, [Next]_vars PROVE ReadInv'
  OBVIOUS
<1>1. ASSUME NEW t \in Thread, Update(t) \/ Modify(t) PROVE ReadInv'
  BY <1>1, BeginReads DEF Update, Modify
<1>2. ASSUME NEW t \in Thread,
             \/ Scan(t) \/ Save(t) \/ Missing(t) \/ LookForRoom(t) \/ Fill(t) \/ NewChunk(t)
      PROVE  ReadInv'
  BY <1>2, WritersProceed, ProceedsRead
<1>3. ASSUME UNCHANGED vars PROVE ReadInv'
  <2>1. UNCHANGED files /\ thread' = thread /\ stored' = stored /\ upset' = upset
    BY <1>3 DEF vars, files
  <2>2. Contents' = Contents
    BY <2>1, FilesStay DEF StoreInv
  <2>3. Listed' = Listed /\ (Quiet => Quiet')
    BY <2>1 DEF Listed, files, Quiet, InMemory, Writes
  <2>4. ASSUME NEW t \in Thread PROVE ReadOf(t)'
    <3>1. ReadOf(t)
      BY DEF ReadInv
    <3> QED
      BY <2>1, <2>2, <2>3, <3>1 DEF ReadOf
  <2> QED
    BY <2>1, <2>4 DEF ReadInv
<1> QED
  BY <1>1, <1>2, <1>3, FlushReads, BeginLoadReads, LoadFileReads,
     AnswerReads, ClearReads, CrashReads DEF Next, Flushes

\* In every reachable state a reader that nothing disturbed has all the messages
\* of the files that it is through with, or as many of the last ones as it was
\* asked for (load_messages).
THEOREM ReadInvariant == Spec => [](StoreInv /\ ReadInv)
<1>1. Init => StoreInv /\ ReadInv
  BY InitStores, InitReads
<1>2. StoreInv /\ ReadInv /\ [Next]_vars => (StoreInv /\ ReadInv)'
  BY NextStores, NextReads
<1> QED
  BY <1>1, <1>2, PTL DEF Spec

\* W is the last n of U.
LEMMA LastOnes ==
    ASSUME NEW U, U \subseteq Message, NEW W, W \subseteq U, UpIn(W, U),
           NEW n \in Nat, Cardinality(W) <= n, Cardinality(W) < n => W = U
    PROVE  W = {m \in U : Cardinality({x \in U : x > m}) < n}
<1>1. /\ U \subseteq Nat /\ IsFiniteSet(U)
      /\ \A S : S \subseteq U => IsFiniteSet(S) /\ Cardinality(S) \in Nat
  BY Assumptions, FS_Subset, FS_CardinalityType DEF Assumptions
<1>2. ASSUME NEW m \in W PROVE Cardinality({x \in U : x > m}) < n
  <2>1. PICK S : S = {x \in U : x > m}
    OBVIOUS
  <2>2. S \subseteq W \ {m}
    <3> SUFFICES ASSUME NEW x \in U, x > m PROVE x \in W /\ x # m
      BY <2>1
    <3>1. x \in Nat /\ m \in Nat
      BY <1>1
    <3>2. m < x
      BY <3>1
    <3> QED
      BY <3>1, <3>2 DEF UpIn
  <2>3. Cardinality(W \ {m}) = Cardinality(W) - 1
    BY <1>1, FS_RemoveElement
  <2>4. Cardinality(S) <= Cardinality(W \ {m}) /\ Cardinality(S) \in Nat /\ Cardinality(W) \in Nat
    BY <1>1, <2>2, FS_Subset
  <2> QED
    BY <2>1, <2>3, <2>4
<1>3. ASSUME NEW m \in U, m \notin W PROVE ~(Cardinality({x \in U : x > m}) < n)
  <2>1. PICK S : S = {x \in U : x > m}
    OBVIOUS
  <2>2. W \subseteq S
    BY <1>1, <1>3, <2>1 DEF UpIn
  <2>3. Cardinality(W) <= Cardinality(S) /\ S \subseteq U
    BY <1>1, <2>1, <2>2, FS_Subset
  <2>4. Cardinality(W) = n
    <3>1. Cardinality(W) \in Nat /\ ~ (Cardinality(W) < n)
      BY <1>1, <1>3
    <3>2. \A a \in Nat : a <= n /\ ~ (a < n) => a = n
      OBVIOUS
    <3> QED
      BY <3>1, <3>2
  <2> QED
    BY <1>1, <2>1, <2>3, <2>4
<1> QED
  BY <1>2, <1>3

\* load_messages that nothing disturbs returns the newest messages up to the
\* time it was asked for, in their order, and all of them if it returns fewer
\* than asked, for any messages, days, commands, limit and page size.
THEOREM NewestLoaded == Spec => []LoadsNewest
<1>1. ASSUME StoreInv, ReadInv PROVE LoadsNewest
  <2> SUFFICES ASSUME NEW t \in Thread, NEW j, j = thread[t],
                      j # Idle, j.at = "answered", j.calm, upset = {},
                      NEW U, U = {m \in DOMAIN stored : m <= j.time},
                      NEW W, W = ToSet(j.result)
               PROVE  /\ InOrder => W = {m \in U : Cardinality({x \in U : x > m}) < Amount}
                      /\ Len(j.result) < Amount => W = U
    BY DEF LoadsNewest
  <2>1. Reader(j)
    <3>1. ~Writes(j)
      BY <1>1 DEF StoreInv, AllTasks, Task
    <3> QED
      BY <1>1, <3>1, ReaderIs DEF Writes, StoreInv
  <2>2. j \in ReadJob /\ Quiet /\ ReadSound(j, Contents, Listed)
    BY <1>1, <2>1 DEF ReadInv, ReadOf
  <2>3. ASSUME NEW m \in Message
        PROVE  m \in DOMAIN stored <=> \E f \in File : m \in DOMAIN Contents[f]
    <3>1. DaySound(DayOf(m), Contents, stored, thread)
      BY <1>1 DEF StoreInv, DaysSound, Day
    <3>2. Kept(Contents, stored, m)
      BY <2>2, <3>1 DEF DaySound, Works, Quiet
    <3>3. \A f \in File : m \in DOMAIN Contents[f] => DayOf(m) = f[1]
      BY <1>1, ContentsOf DEF StoreInv, OfDay
    <3> QED
      BY <3>2, <3>3 DEF Kept, Sits, Places
  <2>4. U = Through(Contents, File, j.time)
    BY <1>1, <2>3 DEF Through, ReadInv
  <2>5. /\ Len(j.result) <= Amount /\ W \subseteq U
        /\ Len(j.result) < Amount => W = U
        /\ InOrd(Contents) => Rising(j.result) /\ UpIn(W, U)
    BY <2>2, <2>4 DEF ReadSound
  <2>6. ASSUME InOrder PROVE W = {m \in U : Cardinality({x \in U : x > m}) < Amount}
    <3>1. InOrd(Contents)
      BY <2>6 DEF InOrder, InOrd, Contents
    <3>2. Cardinality(W) = Len(j.result)
      <4>1. j.result \in Seq(Message)
        BY <2>2 DEF ReadJob
      <4> QED
        BY <2>5, <3>1, <4>1, RisingCounts
    <3>3. U \subseteq Message /\ Amount \in Nat
      BY <1>1, Assumptions DEF ReadInv, Assumptions
    <3>4. /\ W \subseteq U /\ UpIn(W, U) /\ Cardinality(W) <= Amount
          /\ Cardinality(W) < Amount => W = U
      BY <2>5, <3>1, <3>2
    <3> QED
      BY <3>3, <3>4, LastOnes
  <2> QED
    BY <2>5, <2>6
<1> QED
  BY <1>1, ReadInvariant, PTL
=============================================================================
