-------------------------- MODULE CallSessionProofs --------------------------
(***************************************************************************)
(* Proofs about CallSession, for any number of sessions, of incoming calls *)
(* and of operations that are under way at once: what is destroyed is off, *)
(* no session is forgotten, and the screen follows the call.               *)
(***************************************************************************)
EXTENDS CallSession, TLAPS

-----------------------------------------------------------------------------
(* The invariants *)

Begins(f) == flow[f].at \in {"media", "connect"}
Holds(f) == flow[f].at \in {"media", "connect", "failing"}

\* What is not a session yet has nothing on, and nobody holds it.
Begun ==
    /\ \A s \in Session : session[s].role = None =>
        /\ ~session[s].destroyed /\ session[s].channel = "none"
        /\ ~session[s].accepting /\ ~session[s].signalling /\ ~session[s].hanging
    /\ active # None => session[active].role # None
    /\ \A f \in Flow : Holds(f) => session[flow[f].session].role # None

\* A session that waits for the microphone has no channel, and each begins once.
Opening ==
    /\ \A f \in Flow : flow[f].at = "media" =>
            session[flow[f].session].channel = "none"
    /\ \A f, g \in Flow : f # g /\ Begins(f) /\ Begins(g) =>
            flow[f].session # flow[g].session

\* Outside of early, destroy has closed the channel.
Off ==
    \A s \in Session : s \notin early /\ session[s].destroyed =>
        /\ ~session[s].media /\ ~session[s].peer
        /\ session[s].channel = "closed"

\* No handler goes on in a session that is destroyed.
Handled ==
    "midway" \notin upset =>
        \A s \in Session : s \notin early /\ session[s].destroyed =>
            ~session[s].accepting /\ ~session[s].signalling

SessionsInv == Begun /\ Opening /\ Off /\ Handled

\* One operation at a time begins a call, and the session is its own.
OneCall ==
    "overlap" \notin upset =>
        /\ \A f, g \in Flow : Calling(f) /\ Calling(g) => f = g
        /\ \A f \in Flow : flow[f].at = "asking" => active = None
        /\ \A f \in Flow : Holds(f) => active = flow[f].session

\* While the server is asked, the screen is on ...
AskedShown ==
    upset \intersect {"overlap", "timer"} = {} =>
        \A f \in Flow : flow[f].at = "asking" => screen # "idle"

\* ... and does not say that a call ends.
AskedAfter ==
    screen = "ending" /\ upset \intersect {"late", "behind", "overlap"} = {} =>
        \A f \in Flow : flow[f].at # "asking"

ScreenInv ==
    /\ OneCall /\ OthersAreOver
    /\ AskedShown /\ ShownWhileLive
    /\ AskedAfter /\ EndingEnds
    /\ NoGhostScreen

-----------------------------------------------------------------------------
(* Sessions and operations *)

SessionType ==
    [role : {"originator", "responder", "joiner", None},
     destroyed : BOOLEAN, media : BOOLEAN,
     channel : {"none", "connecting", "open", "lost", "closed"},
     peer : BOOLEAN, accepting : BOOLEAN, signalling : BOOLEAN,
     hanging : BOOLEAN]

FlowType ==
    {Idle} \union
    [at : {"asking"}, role : {"originator", "joiner"}] \union
    [at : {"decoding"}, of : Call] \union
    [at : {"media", "connect", "failing"}, session : Session]

LEMMA TypesOfVariables ==
    ASSUME TypeOK
    PROVE  /\ session \in [Session -> SessionType] /\ flow \in [Flow -> FlowType]
           /\ active \in Session \union {None} /\ pending \in Call \union {None}
           /\ early \subseteq Session
BY DEF TypeOK, SessionType, FlowType

LEMMA FlowFacts ==
    ASSUME TypeOK, NEW f \in Flow
    PROVE  /\ Holds(f) => flow[f].session \in Session
           /\ flow[f].at = "asking" => flow[f].role \in {"originator", "joiner"}
           /\ flow[f].at = "decoding" => flow[f].of \in Call
           /\ flow[f].at \in {"idle", "asking", "decoding", "media", "connect", "failing"}
           /\ flow[f] = Idle <=> flow[f].at = "idle"
BY TypesOfVariables DEF FlowType, Holds, Idle

LEMMA FlowMade ==
    /\ Idle \in FlowType /\ Idle.at = "idle"
    /\ \A role \in {"originator", "joiner"} : [at |-> "asking", role |-> role] \in FlowType
    /\ \A c \in Call : [at |-> "decoding", of |-> c] \in FlowType
    /\ \A s \in Session, at \in {"media", "connect", "failing"} :
            [at |-> at, session |-> s] \in FlowType
BY DEF FlowType, Idle

LEMMA NoneIsNoSession == None \notin Session /\ None \notin {"originator", "joiner", "responder"}
BY Assumptions DEF Assumptions

\* destroy of r
Closed(r) ==
    /\ session'[r].destroyed /\ session'[r].role = session[r].role
    /\ ~session'[r].media /\ ~session'[r].peer /\ ~session'[r].hanging
    /\ session'[r].channel = IF session[r].channel = "none" THEN "none" ELSE "closed"
    /\ session'[r].accepting = session[r].accepting
    /\ session'[r].signalling = session[r].signalling

LEMMA DestroyedFacts ==
    ASSUME TypeOK, NEW s \in Session \union {None}, session' = Destroyed(s)
    PROVE  /\ session' \in [Session -> SessionType]
           /\ \A r \in Session : r # s \/ ~Live(s) => session'[r] = session[r]
           /\ Live(s) => s \in Session /\ Closed(s)
<1>1. session \in [Session -> SessionType]
  BY TypesOfVariables
<1>2. CASE ~Live(s)
  BY <1>1, <1>2 DEF Destroyed
<1>3. CASE Live(s)
  <2>1. s \in Session /\ session[s] \in SessionType
    BY <1>1, <1>3 DEF Live
  <2>2. PICK r : r = Gone(session[s])
    OBVIOUS
  <2>3. /\ r \in SessionType
        /\ r.destroyed /\ r.role = session[s].role
        /\ ~r.media /\ ~r.peer /\ ~r.hanging
        /\ r.channel = (IF session[s].channel = "none" THEN "none" ELSE "closed")
        /\ r.accepting = session[s].accepting
        /\ r.signalling = session[s].signalling
    BY <2>1, <2>2 DEF Gone, SessionType
  <2>4. session' = [session EXCEPT ![s] = r]
    BY <1>3, <2>2 DEF Destroyed
  <2> QED
    BY <1>1, <1>3, <2>1, <2>3, <2>4 DEF Closed
<1> QED
  BY <1>2, <1>3

-----------------------------------------------------------------------------
(* Types *)

LEMMA TypedInit == Init => TypeOK
<1> SUFFICES ASSUME Init PROVE TypeOK
  OBVIOUS
<1>1. Unborn \in SessionType
  BY DEF Unborn, SessionType
<1>2. session \in [Session -> SessionType] /\ flow \in [Flow -> FlowType]
  BY <1>1, FlowMade DEF Init
<1> QED
  BY <1>2 DEF Init, TypeOK, SessionType, FlowType

LEMMA TypeMade ==
    ASSUME session' \in [Session -> SessionType], flow' \in [Flow -> FlowType],
           active' \in Session \union {None}, pending' \in Call \union {None},
           screen' \in {"idle", "connecting", "outgoing", "incoming", "active", "ending"},
           timers' \subseteq Session \union {Always}, pushed' \subseteq Call,
           early' \subseteq Session,
           upset' \subseteq {"overlap", "timer", "midway", "late", "behind"}
    PROVE  TypeOK'
BY DEF TypeOK, SessionType, FlowType

LEMMA NotesTyped ==
    ASSUME TypeOK, NEW s \in Session \union {None}, NEW more, Notes(s, more),
           more \subseteq {"overlap", "timer", "midway", "late", "behind"}
    PROVE  /\ early' \subseteq Session /\ early \subseteq early'
           /\ upset' \subseteq {"overlap", "timer", "midway", "late", "behind"}
           /\ upset \union more \subseteq upset'
           /\ Live(s) /\ session[s].channel = "none" => s \in early'
           /\ Live(s) /\ (session[s].accepting \/ session[s].signalling) =>
                "midway" \in upset'
BY DEF Notes, TypeOK, Live

\* Fields of s are set, and no more than these.
SetTo(s, media, channel, peer, accepting, signalling, hanging) ==
    /\ session' \in [Session -> SessionType]
    /\ \A r \in Session : r # s => session'[r] = session[r]
    /\ session'[s].role = session[s].role
    /\ session'[s].destroyed = session[s].destroyed
    /\ session'[s].media = media /\ session'[s].channel = channel
    /\ session'[s].peer = peer /\ session'[s].accepting = accepting
    /\ session'[s].signalling = signalling /\ session'[s].hanging = hanging

LEMMA SetChannel ==
    ASSUME TypeOK, NEW s \in Session, NEW channel \in {"open", "lost"},
           session' = [session EXCEPT ![s].channel = channel]
    PROVE  SetTo(s, session[s].media, channel, session[s].peer,
                 session[s].accepting, session[s].signalling, session[s].hanging)
<1>1. session \in [Session -> SessionType]
  BY TypesOfVariables
<1>2. session'[s] = [session[s] EXCEPT !.channel = channel]
  BY <1>1
<1>3. session'[s] \in SessionType
  BY <1>1, <1>2 DEF SessionType
<1>4. session' \in [Session -> SessionType]
  BY <1>1, <1>2, <1>3
<1> QED
  BY <1>1, <1>2, <1>4 DEF SetTo, SessionType

LEMMA SetMedia ==
    ASSUME TypeOK, NEW s \in Session,
           session' = [session EXCEPT ![s].media = TRUE, ![s].channel = "connecting"]
    PROVE  SetTo(s, TRUE, "connecting", session[s].peer,
                 session[s].accepting, session[s].signalling, session[s].hanging)
<1>1. session \in [Session -> SessionType]
  BY TypesOfVariables
<1>2. session'[s] = [session[s] EXCEPT !.media = TRUE, !.channel = "connecting"]
  BY <1>1
<1>3. session'[s] \in SessionType
  BY <1>1, <1>2 DEF SessionType
<1>4. session' \in [Session -> SessionType]
  BY <1>1, <1>2, <1>3
<1> QED
  BY <1>1, <1>2, <1>4 DEF SetTo, SessionType

LEMMA SetHanging ==
    ASSUME TypeOK, NEW s \in Session, NEW hanging \in BOOLEAN,
           session' = [session EXCEPT ![s].hanging = hanging]
    PROVE  SetTo(s, session[s].media, session[s].channel, session[s].peer,
                 session[s].accepting, session[s].signalling, hanging)
<1>1. session \in [Session -> SessionType]
  BY TypesOfVariables
<1>2. session'[s] = [session[s] EXCEPT !.hanging = hanging]
  BY <1>1
<1>3. session'[s] \in SessionType
  BY <1>1, <1>2 DEF SessionType
<1>4. session' \in [Session -> SessionType]
  BY <1>1, <1>2, <1>3
<1> QED
  BY <1>1, <1>2, <1>4 DEF SetTo, SessionType

LEMMA SetAccepted ==
    ASSUME TypeOK, NEW s \in Session,
           session' = [session EXCEPT ![s].accepting = FALSE]
    PROVE  SetTo(s, session[s].media, session[s].channel, session[s].peer, FALSE,
                 session[s].signalling, session[s].hanging)
<1>1. session \in [Session -> SessionType]
  BY TypesOfVariables
<1>2. session'[s] = [session[s] EXCEPT !.accepting = FALSE]
  BY <1>1
<1>3. session'[s] \in SessionType
  BY <1>1, <1>2 DEF SessionType
<1>4. session' \in [Session -> SessionType]
  BY <1>1, <1>2, <1>3
<1> QED
  BY <1>1, <1>2, <1>4 DEF SetTo, SessionType

LEMMA SetSignalled ==
    ASSUME TypeOK, NEW s \in Session,
           session' = [session EXCEPT ![s].signalling = FALSE]
    PROVE  SetTo(s, session[s].media, session[s].channel, session[s].peer,
                 session[s].accepting, FALSE, session[s].hanging)
<1>1. session \in [Session -> SessionType]
  BY TypesOfVariables
<1>2. session'[s] = [session[s] EXCEPT !.signalling = FALSE]
  BY <1>1
<1>3. session'[s] \in SessionType
  BY <1>1, <1>2 DEF SessionType
<1>4. session' \in [Session -> SessionType]
  BY <1>1, <1>2, <1>3
<1> QED
  BY <1>1, <1>2, <1>4 DEF SetTo, SessionType

LEMMA SetConnection ==
    ASSUME TypeOK, NEW s \in Session,
           session' = [session EXCEPT ![s].peer = TRUE, ![s].accepting = TRUE]
    PROVE  SetTo(s, session[s].media, session[s].channel, TRUE, TRUE,
                 session[s].signalling, session[s].hanging)
<1>1. session \in [Session -> SessionType]
  BY TypesOfVariables
<1>2. session'[s] = [session[s] EXCEPT !.peer = TRUE, !.accepting = TRUE]
  BY <1>1
<1>3. session'[s] \in SessionType
  BY <1>1, <1>2 DEF SessionType
<1>4. session' \in [Session -> SessionType]
  BY <1>1, <1>2, <1>3
<1> QED
  BY <1>1, <1>2, <1>4 DEF SetTo, SessionType

LEMMA SetSignal ==
    ASSUME TypeOK, NEW s \in Session,
           session' = [session EXCEPT ![s].peer = TRUE, ![s].signalling = TRUE]
    PROVE  SetTo(s, session[s].media, session[s].channel, TRUE,
                 session[s].accepting, TRUE, session[s].hanging)
<1>1. session \in [Session -> SessionType]
  BY TypesOfVariables
<1>2. session'[s] = [session[s] EXCEPT !.peer = TRUE, !.signalling = TRUE]
  BY <1>1
<1>3. session'[s] \in SessionType
  BY <1>1, <1>2 DEF SessionType
<1>4. session' \in [Session -> SessionType]
  BY <1>1, <1>2, <1>3
<1> QED
  BY <1>1, <1>2, <1>4 DEF SetTo, SessionType

-----------------------------------------------------------------------------
(* What is on in a session *)

\* No operation takes a session, or goes back.
Ebbs ==
    \A f \in Flow : Holds(f)' =>
        /\ Holds(f) /\ flow'[f].session = flow[f].session
        /\ flow'[f].at = "media" => flow[f].at = "media"
        /\ Begins(f)' => Begins(f)

LEMMA EndSessions ==
    ASSUME TypeOK, SessionsInv, NEW s \in Session \union {None}, NEW more,
           session' = Destroyed(s), Notes(s, more),
           active' \in {active, None}, Ebbs
    PROVE  SessionsInv'
<1>t. /\ active \in Session \union {None}
      /\ \A f \in Flow : Holds(f) => flow[f].session \in Session
  BY TypesOfVariables, FlowFacts
<1>d. /\ \A r \in Session : r # s \/ ~Live(s) => session'[r] = session[r]
      /\ Live(s) => s \in Session /\ Closed(s)
  BY DestroyedFacts
<1>n. /\ early \subseteq early' /\ upset \subseteq upset'
      /\ Live(s) /\ session[s].channel = "none" => s \in early'
      /\ Live(s) /\ (session[s].accepting \/ session[s].signalling) =>
           "midway" \in upset'
  BY DEF Notes
<1>1. Begun'
  <2>1. \A r \in Session : session'[r].role = session[r].role
    BY <1>d DEF Closed
  <2>2. ASSUME NEW r \in Session, session'[r].role = None
        PROVE  session'[r] = session[r]
    BY <1>d, <2>1, <2>2 DEF Live
  <2>3. active' # None => session'[active'].role # None
    BY <1>t, <2>1 DEF SessionsInv, Begun
  <2>4. ASSUME NEW f \in Flow, Holds(f)' PROVE session'[flow'[f].session].role # None
    BY <1>t, <2>1, <2>4 DEF SessionsInv, Begun, Ebbs
  <2> QED
    BY <2>1, <2>2, <2>3, <2>4 DEF SessionsInv, Begun
<1>2. Opening'
  <2>1. ASSUME NEW f \in Flow, flow'[f].at = "media"
        PROVE  session'[flow'[f].session].channel = "none"
    <3>1. /\ Holds(f) /\ flow'[f].session = flow[f].session
          /\ session[flow[f].session].channel = "none"
      BY <2>1 DEF Ebbs, Holds, SessionsInv, Opening
    <3> QED
      BY <1>t, <1>d, <3>1 DEF Closed
  <2>2. ASSUME NEW f \in Flow, NEW g \in Flow, f # g, Begins(f)', Begins(g)'
        PROVE  flow'[f].session # flow'[g].session
    <3>1. Holds(f)' /\ Holds(g)'
      BY <2>2 DEF Begins, Holds
    <3> QED
      BY <2>2, <3>1 DEF Ebbs, SessionsInv, Opening
  <2> QED
    BY <2>1, <2>2 DEF Opening
<1>3. ASSUME NEW r \in Session, r \notin early', session'[r].destroyed
      PROVE  /\ ~session'[r].media /\ ~session'[r].peer
             /\ session'[r].channel = "closed"
             /\ "midway" \notin upset' => ~session'[r].accepting /\ ~session'[r].signalling
  <2>1. CASE r = s /\ Live(s)
    BY <1>d, <1>n, <1>3, <2>1 DEF Closed
  <2>2. CASE r # s \/ ~Live(s)
    BY <1>d, <1>n, <1>3, <2>2 DEF SessionsInv, Off, Handled
  <2> QED
    BY <2>1, <2>2
<1>4. Off' /\ Handled'
  BY <1>3 DEF Off, Handled
<1> QED
  BY <1>1, <1>2, <1>4 DEF SessionsInv

LEMMA SetSessions ==
    ASSUME TypeOK, SessionsInv, NEW s \in Session, session[s].role # None,
           NEW media, NEW channel, NEW peer, NEW accepting, NEW signalling, NEW hanging,
           SetTo(s, media, channel, peer, accepting, signalling, hanging),
           s \notin early /\ session[s].destroyed =>
                /\ ~media /\ ~peer /\ channel = "closed"
                /\ accepting => session[s].accepting
                /\ signalling => session[s].signalling,
           \A f \in Flow : flow'[f].at = "media" /\ flow'[f].session = s =>
                channel = "none",
           early' = early, upset \subseteq upset', active' \in {active, None}, Ebbs
    PROVE  SessionsInv'
<1>t. /\ active \in Session \union {None}
      /\ \A f \in Flow : Holds(f) => flow[f].session \in Session
  BY TypesOfVariables, FlowFacts
<1>d. /\ \A r \in Session : r # s => session'[r] = session[r]
      /\ session'[s].role = session[s].role
      /\ session'[s].destroyed = session[s].destroyed
      /\ session'[s].media = media /\ session'[s].channel = channel
      /\ session'[s].peer = peer /\ session'[s].accepting = accepting
      /\ session'[s].signalling = signalling
  BY DEF SetTo
<1>1. Begun'
  <2>1. \A r \in Session : session'[r].role = session[r].role
    BY <1>d
  <2>2. ASSUME NEW r \in Session, session'[r].role = None
        PROVE  session'[r] = session[r]
    BY <1>d, <2>1, <2>2
  <2>3. active' # None => session'[active'].role # None
    BY <1>t, <2>1 DEF SessionsInv, Begun
  <2>4. ASSUME NEW f \in Flow, Holds(f)' PROVE session'[flow'[f].session].role # None
    BY <1>t, <2>1, <2>4 DEF SessionsInv, Begun, Ebbs
  <2> QED
    BY <2>1, <2>2, <2>3, <2>4 DEF SessionsInv, Begun
<1>2. Opening'
  <2>1. ASSUME NEW f \in Flow, flow'[f].at = "media"
        PROVE  session'[flow'[f].session].channel = "none"
    <3>1. /\ Holds(f) /\ flow'[f].session = flow[f].session
          /\ session[flow[f].session].channel = "none"
      BY <2>1 DEF Ebbs, Holds, SessionsInv, Opening
    <3> QED
      BY <1>t, <1>d, <2>1, <3>1
  <2>2. ASSUME NEW f \in Flow, NEW g \in Flow, f # g, Begins(f)', Begins(g)'
        PROVE  flow'[f].session # flow'[g].session
    <3>1. Holds(f)' /\ Holds(g)'
      BY <2>2 DEF Begins, Holds
    <3> QED
      BY <2>2, <3>1 DEF Ebbs, SessionsInv, Opening
  <2> QED
    BY <2>1, <2>2 DEF Opening
<1>3. ASSUME NEW r \in Session, r \notin early', session'[r].destroyed
      PROVE  /\ ~session'[r].media /\ ~session'[r].peer
             /\ session'[r].channel = "closed"
             /\ "midway" \notin upset' => ~session'[r].accepting /\ ~session'[r].signalling
  <2>1. CASE r = s
    <3>1. /\ session[s].destroyed /\ s \notin early
          /\ "midway" \notin upset' => ~session[s].accepting /\ ~session[s].signalling
      BY <1>d, <1>3, <2>1 DEF SessionsInv, Handled
    <3> QED
      BY <1>d, <2>1, <3>1
  <2>2. CASE r # s
    BY <1>d, <1>3, <2>2 DEF SessionsInv, Off, Handled
  <2> QED
    BY <2>1, <2>2
<1>4. Off' /\ Handled'
  BY <1>3 DEF Off, Handled
<1> QED
  BY <1>1, <1>2, <1>4 DEF SessionsInv

\* Session s begins, with operation f, and x was destroyed before.
LEMMA StartSessions ==
    ASSUME TypeOK, SessionsInv, NEW x \in Session \union {None}, NEW more,
           NEW s \in Session, session[s] = Unborn, s # x,
           NEW role \in {"originator", "responder", "joiner"}, NEW f \in Flow,
           session' = [Destroyed(x) EXCEPT ![s].role = role], Notes(x, more),
           active' = s, flow' = [flow EXCEPT ![f] = [at |-> "media", session |-> s]]
    PROVE  /\ SessionsInv'
           /\ session' \in [Session -> SessionType]
           /\ session'[s].role = role /\ ~session'[s].destroyed /\ ~session'[s].hanging
           /\ \A r \in Session : r # s /\ (r # x \/ ~Live(x)) => session'[r] = session[r]
           /\ Live(x) => Closed(x)
<1>t. /\ active \in Session \union {None} /\ flow \in [Flow -> FlowType]
      /\ session \in [Session -> SessionType]
      /\ \A g \in Flow : Holds(g) => flow[g].session \in Session
  BY TypesOfVariables, FlowFacts
<1>p. PICK old : old = Destroyed(x)
  OBVIOUS
<1>d. /\ old \in [Session -> SessionType]
      /\ \A r \in Session : r # x \/ ~Live(x) => old[r] = session[r]
      /\ Live(x) => x \in Session /\
            /\ old[x].destroyed /\ old[x].role = session[x].role
            /\ ~old[x].media /\ ~old[x].peer /\ ~old[x].hanging
            /\ old[x].channel = IF session[x].channel = "none" THEN "none" ELSE "closed"
            /\ old[x].accepting = session[x].accepting
            /\ old[x].signalling = session[x].signalling
  <2>1. CASE ~Live(x)
    BY <1>t, <1>p, <2>1 DEF Destroyed
  <2>2. CASE Live(x)
    <3>1. x \in Session /\ session[x] \in SessionType
      BY <1>t, <2>2 DEF Live
    <3>2. PICK r : r = Gone(session[x])
      OBVIOUS
    <3>3. /\ r \in SessionType
          /\ r.destroyed /\ r.role = session[x].role
          /\ ~r.media /\ ~r.peer /\ ~r.hanging
          /\ r.channel = (IF session[x].channel = "none" THEN "none" ELSE "closed")
          /\ r.accepting = session[x].accepting
          /\ r.signalling = session[x].signalling
      BY <3>1, <3>2 DEF Gone, SessionType
    <3>4. old = [session EXCEPT ![x] = r]
      BY <1>p, <2>2, <3>2 DEF Destroyed
    <3> QED
      BY <1>t, <2>2, <3>1, <3>3, <3>4
  <2> QED
    BY <2>1, <2>2
<1>e. PICK new : new = [Unborn EXCEPT !.role = role]
  OBVIOUS
<1>b. /\ new \in SessionType /\ new.role = role /\ ~new.destroyed /\ ~new.hanging
      /\ new.channel = "none"
  BY <1>e DEF Unborn, SessionType
<1>s. /\ session'[s] = new /\ \A r \in Session : r # s => session'[r] = old[r]
      /\ session' \in [Session -> SessionType]
  <2>1. session' = [old EXCEPT ![s].role = role] /\ old[s] = Unborn
    BY <1>p, <1>d
  <2>2. session'[s] = new /\ \A r \in Session : r # s => session'[r] = old[r]
    BY <1>d, <1>e, <2>1
  <2>3. \A r \in Session : session'[r] \in SessionType
    BY <1>b, <1>d, <2>2
  <2> QED
    BY <1>d, <2>1, <2>2, <2>3
<1>c. Live(x) => Closed(x)
  BY <1>d, <1>s DEF Closed
<1>o. \A r \in Session : r # s /\ (r # x \/ ~Live(x)) => session'[r] = session[r]
  BY <1>d, <1>s
<1>f. /\ flow'[f] = [at |-> "media", session |-> s] /\ flow'[f].session = s
      /\ \A g \in Flow : g # f => flow'[g] = flow[g]
  BY <1>t
<1>n. /\ early \subseteq early' /\ upset \subseteq upset'
      /\ Live(x) /\ session[x].channel = "none" => x \in early'
      /\ Live(x) /\ (session[x].accepting \/ session[x].signalling) =>
           "midway" \in upset'
  BY DEF Notes
<1>u. session[s].role = None /\ ~session[s].destroyed
  BY DEF Unborn
<1>x. role # None
  BY NoneIsNoSession
\* What holds a session holds another one.
<1>h. \A g \in Flow : Holds(g) => flow[g].session # s
  BY <1>u DEF SessionsInv, Begun
<1>1. Begun'
  <2>1. \A r \in Session : r # s => session'[r].role = session[r].role
    BY <1>c, <1>o DEF Closed
  <2>2. ASSUME NEW r \in Session, session'[r].role = None
        PROVE  session'[r] = session[r]
    BY <1>b, <1>s, <1>x, <1>o, <2>1, <2>2 DEF Live
  <2>3. ASSUME NEW g \in Flow, Holds(g)' PROVE session'[flow'[g].session].role # None
    <3>1. CASE g = f
      <4>1. flow'[g].session = s /\ session'[s] = new
        BY <1>f, <1>s, <3>1
      <4> QED
        BY <1>b, <1>x, <4>1
    <3>2. CASE g # f
      <4>1. Holds(g) /\ flow'[g] = flow[g]
        BY <1>f, <2>3, <3>2 DEF Holds
      <4> QED
        BY <1>t, <1>h, <2>1, <4>1 DEF SessionsInv, Begun
    <3> QED
      BY <3>1, <3>2
  <2> QED
    BY <1>b, <1>s, <1>x, <2>2, <2>3 DEF SessionsInv, Begun
<1>2. Opening'
  <2>1. ASSUME NEW g \in Flow, flow'[g].at = "media"
        PROVE  session'[flow'[g].session].channel = "none"
    <3>1. CASE g = f
      BY <1>b, <1>f, <1>s, <3>1
    <3>2. CASE g # f
      <4>1. /\ Holds(g) /\ flow'[g] = flow[g]
            /\ session[flow[g].session].channel = "none"
        BY <1>f, <2>1, <3>2 DEF Holds, SessionsInv, Opening
      <4> QED
        BY <1>t, <1>c, <1>h, <1>o, <4>1 DEF Closed
    <3> QED
      BY <3>1, <3>2
  <2>2. \A g \in Flow : g # f /\ Begins(g)' => flow'[g].session # s
    BY <1>f, <1>h DEF Begins, Holds
  <2>3. flow'[f].session = s
    BY <1>f
  <2>4. \A g, h \in Flow : g # h /\ g # f /\ h # f /\ Begins(g)' /\ Begins(h)' =>
            flow'[g].session # flow'[h].session
    BY <1>f DEF Begins, SessionsInv, Opening
  <2> QED
    BY <2>1, <2>2, <2>3, <2>4 DEF Opening
<1>3. ASSUME NEW r \in Session, r \notin early', session'[r].destroyed
      PROVE  /\ ~session'[r].media /\ ~session'[r].peer
             /\ session'[r].channel = "closed"
             /\ "midway" \notin upset' => ~session'[r].accepting /\ ~session'[r].signalling
  <2>1. CASE r = x /\ Live(x)
    BY <1>c, <1>n, <1>3, <2>1 DEF Closed
  <2>2. CASE r # s /\ (r # x \/ ~Live(x))
    BY <1>o, <1>n, <1>3, <2>2 DEF SessionsInv, Off, Handled
  <2> QED
    BY <1>b, <1>s, <1>3, <2>1, <2>2
<1>4. Off' /\ Handled'
  BY <1>3 DEF Off, Handled
<1> QED
  BY <1>b, <1>s, <1>c, <1>o, <1>1, <1>2, <1>4 DEF SessionsInv

-----------------------------------------------------------------------------
(* The screen, operation by operation *)

CallInv == TypeOK /\ SessionsInv /\ ScreenInv

LEMMA DestroyedLive ==
    ASSUME TypeOK, NEW s \in Session \union {None}, session' = Destroyed(s)
    PROVE  \A r \in Session :
            /\ Live(r)' <=> Live(r) /\ r # s
            /\ r # s => session'[r].hanging = session[r].hanging
BY DestroyedFacts, NoneIsNoSession DEF Closed, Live

\* Operation f does as much as before for a call.
SameOp(f) ==
    /\ flow'[f].at = "asking" <=> flow[f].at = "asking"
    /\ flow'[f].at = "failing" <=> flow[f].at = "failing"
    /\ Holds(f)' <=> Holds(f)
    /\ Holds(f) => flow'[f].session = flow[f].session

LEMMA SameCalling ==
    ASSUME NEW f, SameOp(f)
    PROVE  Calling(f)' <=> Calling(f)
BY DEF SameOp, Holds, Calling

LEMMA KeepScreen ==
    ASSUME TypeOK, ScreenInv,
           \A r \in Session : (Live(r)' <=> Live(r))
                /\ session'[r].hanging = session[r].hanging,
           \A f \in Flow : SameOp(f),
           UNCHANGED <<active, pending, timers, upset, early>>,
           \/ screen' = screen
           \/ /\ screen' \in {"active", "outgoing"}
              /\ upset \intersect {"overlap", "midway"} = {} /\ early = {} =>
                    \E r \in Session : Live(r)
    PROVE  ScreenInv'
<1>a. active \in Session \union {None} /\ None \notin Session
  BY TypesOfVariables, NoneIsNoSession
<1>c. \A f \in Flow : Calling(f)' <=> Calling(f)
  BY SameCalling
<1>1. OneCall'
  BY <1>c DEF ScreenInv, OneCall, SameOp
<1>2. OthersAreOver'
  <2> SUFFICES ASSUME "overlap" \notin upset, NEW r \in Session, Live(r)
               PROVE  \/ r = active \/ session'[r].hanging
                      \/ \E f \in Flow : flow'[f].at = "failing" /\ flow'[f].session = r
    BY DEF OthersAreOver
  <2>1. \/ r = active \/ session[r].hanging
        \/ \E f \in Flow : flow[f].at = "failing" /\ flow[f].session = r
    BY DEF ScreenInv, OthersAreOver
  <2> QED
    BY <2>1 DEF SameOp, Holds
<1>3. AskedShown' /\ AskedAfter'
  BY DEF ScreenInv, AskedShown, AskedAfter, SameOp
<1>4. ShownWhileLive'
  <2>1. Live(active)' <=> Live(active)
    BY <1>a DEF Live
  <2> QED
    BY <2>1 DEF ScreenInv, ShownWhileLive
<1>5. EndingEnds'
  BY DEF ScreenInv, EndingEnds
<1>6. NoGhostScreen'
  BY <1>c DEF ScreenInv, NoGhostScreen
<1> QED
  BY <1>1, <1>2, <1>3, <1>4, <1>5, <1>6 DEF ScreenInv

\* The active session is destroyed, and nobody may be calling.
LEMMA CrossingNoted ==
    ASSUME NEW s, NEW more, Notes(s, Crossing \union more) \/ Notes(s, Crossing),
           "overlap" \notin upset'
    PROVE  "overlap" \notin upset /\ \A f \in Flow : ~Calling(f)
BY DEF Notes, Crossing

LEMMA PlaceKeeps ==
    ASSUME CallInv, NEW f \in Flow, NEW role \in Role, Place(f, role)
    PROVE  CallInv'
<1>i. TypeOK /\ SessionsInv /\ ScreenInv
  BY DEF CallInv
<1>v. /\ session \in [Session -> SessionType] /\ flow \in [Flow -> FlowType]
      /\ active \in Session \union {None} /\ pending \in Call \union {None}
      /\ early \subseteq Session
  BY <1>i, TypesOfVariables
<1>p. /\ flow[f] = Idle /\ session' = Destroyed(active) /\ Notes(active, Crossing)
      /\ active' = None
      /\ screen' = (IF role = "originator" THEN "connecting" ELSE "active")
      /\ UNCHANGED <<pending, timers, pushed>>
  BY DEF Place
<1>f. /\ flow'[f].at = "asking" /\ \A g \in Flow : g # f => flow'[g] = flow[g]
      /\ flow' \in [Flow -> FlowType]
  <2>1. role \in {"originator", "joiner"}
    BY Assumptions DEF Assumptions
  <2> QED
    BY <1>v, <2>1, FlowMade DEF Place
<1>1. TypeOK'
  <2>1. Crossing \subseteq {"overlap", "timer", "midway", "late", "behind"}
    BY DEF Crossing
  <2>2. /\ early' \subseteq Session
        /\ upset' \subseteq {"overlap", "timer", "midway", "late", "behind"}
    BY <1>i, <1>v, <1>p, <2>1, NotesTyped
  <2>3. session' \in [Session -> SessionType]
    BY <1>i, <1>v, <1>p, DestroyedFacts
  <2> QED
    BY <1>i, <1>v, <1>p, <1>f, <2>2, <2>3, TypeMade DEF TypeOK
<1>2. SessionsInv'
  <2>1. Ebbs
    BY <1>f DEF Ebbs, Holds, Begins
  <2> QED
    BY <1>i, <1>v, <1>p, <2>1, EndSessions
<1>n. "overlap" \notin upset' => "overlap" \notin upset /\ \A g \in Flow : ~Calling(g)
  BY <1>p, CrossingNoted
<1>l. \A r \in Session :
        /\ Live(r)' <=> Live(r) /\ r # active
        /\ r # active => session'[r].hanging = session[r].hanging
  BY <1>i, <1>v, <1>p, DestroyedLive
<1>3. OneCall'
  BY <1>n, <1>f, <1>p DEF OneCall, Calling, Holds
<1>4. OthersAreOver'
  BY <1>i, <1>n, <1>l DEF ScreenInv, OthersAreOver, Calling
<1>5. AskedShown' /\ AskedAfter' /\ EndingEnds'
  BY <1>p DEF AskedShown, AskedAfter, EndingEnds
<1>6. ShownWhileLive'
  BY <1>p DEF ShownWhileLive, Live
<1>7. NoGhostScreen'
  BY <1>f DEF NoGhostScreen, Calling
<1> QED
  BY <1>1, <1>2, <1>3, <1>4, <1>5, <1>6, <1>7 DEF CallInv, ScreenInv

LEMMA AskedKeeps ==
    ASSUME CallInv, NEW f \in Flow, Asked(f)
    PROVE  CallInv'
<1>i. TypeOK /\ SessionsInv /\ ScreenInv
  BY DEF CallInv
<1>v. /\ session \in [Session -> SessionType] /\ flow \in [Flow -> FlowType]
      /\ active \in Session \union {None} /\ None \notin Session
  BY <1>i, TypesOfVariables, NoneIsNoSession
<1>p. /\ flow[f].at = "asking" /\ flow[f].role \in {"originator", "joiner"}
      /\ UNCHANGED <<pending, screen, timers, pushed, early, upset>>
  BY <1>i, FlowFacts DEF Asked
<1>s. PICK s \in Session :
        /\ session[s] = Unborn
        /\ session' = [session EXCEPT ![s].role = flow[f].role]
        /\ active' = s
        /\ flow' = [flow EXCEPT ![f] = [at |-> "media", session |-> s]]
  BY DEF Asked, Starts
<1>d. /\ Destroyed(None) = session /\ Notes(None, {}) /\ ~Live(None)
  BY <1>p DEF Destroyed, Notes, Live
<1>r. PICK role \in {"originator", "joiner"} : role = flow[f].role
  BY <1>p
<1>1. /\ SessionsInv'
      /\ session' \in [Session -> SessionType]
      /\ session'[s].role = role /\ ~session'[s].destroyed
      /\ \A r \in Session : r # s => session'[r] = session[r]
  <2>1. session' = [Destroyed(None) EXCEPT ![s].role = role] /\ s # None
    BY <1>v, <1>s, <1>d, <1>r
  <2>2. role \in {"originator", "responder", "joiner"} /\ None \in Session \union {None}
    BY <1>r
  <2> QED
    BY <1>i, <1>s, <1>d, <2>1, <2>2, StartSessions
<1>f. /\ flow'[f].at = "media" /\ flow'[f].session = s
      /\ \A g \in Flow : g # f => flow'[g] = flow[g]
      /\ flow' \in [Flow -> FlowType]
  BY <1>v, <1>s, FlowMade
<1>2. TypeOK'
  BY <1>i, <1>p, <1>s, <1>f, <1>1, TypeMade DEF TypeOK
<1>o. "overlap" \notin upset =>
        active = None /\ \A g \in Flow : g # f => ~Calling(g)
  BY <1>i, <1>p DEF ScreenInv, OneCall, Calling
<1>3. OneCall'
  BY <1>o, <1>p, <1>s, <1>f DEF OneCall, Calling, Holds
<1>4. OthersAreOver'
  BY <1>i, <1>v, <1>o, <1>p, <1>s, <1>f, <1>1 DEF ScreenInv, OthersAreOver, Calling, Live
<1>5. AskedShown' /\ AskedAfter'
  BY <1>o, <1>p, <1>f DEF AskedShown, AskedAfter, Calling
<1>6. ShownWhileLive'
  BY <1>i, <1>p DEF ScreenInv, AskedShown, ShownWhileLive
<1>7. EndingEnds'
  BY <1>i, <1>p DEF ScreenInv, AskedAfter, EndingEnds
<1>8. NoGhostScreen'
  BY <1>f DEF NoGhostScreen, Calling
<1> QED
  BY <1>1, <1>2, <1>3, <1>4, <1>5, <1>6, <1>7, <1>8 DEF CallInv, ScreenInv

\* Operation f, which is for session s, is given up.
LEMMA GivenUp ==
    ASSUME CallInv, NEW f \in Flow, Calling(f), NEW s \in Session \union {None},
           "overlap" \notin upset => s = active,
           flow' = [flow EXCEPT ![f] = Idle], session' = Destroyed(s),
           Resets(s), Notes(s, {}), active' = None, screen' = "idle",
           UNCHANGED <<pending, pushed>>
    PROVE  CallInv'
<1>i. TypeOK /\ SessionsInv /\ ScreenInv
  BY DEF CallInv
<1>v. /\ session \in [Session -> SessionType] /\ flow \in [Flow -> FlowType]
      /\ active \in Session \union {None} /\ None \notin Session
  BY <1>i, TypesOfVariables, NoneIsNoSession
<1>f. /\ flow'[f].at = "idle" /\ \A g \in Flow : g # f => flow'[g] = flow[g]
      /\ flow' \in [Flow -> FlowType]
  BY <1>v, FlowMade
<1>n. /\ early' \subseteq Session
      /\ upset' \subseteq {"overlap", "timer", "midway", "late", "behind"}
      /\ upset \subseteq upset'
  BY <1>i, NotesTyped
<1>1. TypeOK'
  <2>1. timers' \subseteq Session \union {Always}
    BY <1>i DEF Resets, Live, TypeOK
  <2>2. session' \in [Session -> SessionType]
    BY <1>i, DestroyedFacts
  <2> QED
    BY <1>i, <1>f, <1>n, <2>1, <2>2, TypeMade DEF TypeOK
<1>2. SessionsInv'
  <2>1. Ebbs
    BY <1>f DEF Ebbs, Holds, Begins
  <2> QED
    BY <1>i, <2>1, EndSessions
<1>o. "overlap" \notin upset' =>
        /\ "overlap" \notin upset /\ s = active
        /\ \A g \in Flow : ~Calling(g)'
        /\ \A r \in Session, g \in Flow :
                flow[g].at = "failing" /\ flow[g].session = r => r = active
  BY <1>i, <1>f, <1>n DEF ScreenInv, OneCall, Calling, Holds
<1>l. \A r \in Session :
        /\ Live(r)' <=> Live(r) /\ r # s
        /\ r # s => session'[r].hanging = session[r].hanging
  BY <1>i, DestroyedLive
<1>3. OneCall'
  BY <1>o DEF OneCall, Calling, Holds
<1>4. OthersAreOver'
  BY <1>i, <1>o, <1>l DEF ScreenInv, OthersAreOver
<1>5. AskedShown' /\ AskedAfter'
  BY <1>o DEF AskedShown, AskedAfter, Calling
<1>6. ShownWhileLive' /\ EndingEnds' /\ NoGhostScreen'
  BY DEF ShownWhileLive, Live, EndingEnds, NoGhostScreen
<1> QED
  BY <1>1, <1>2, <1>3, <1>4, <1>5, <1>6 DEF CallInv, ScreenInv

\* The session tells the other end first.
LEMMA FailsKeeps ==
    ASSUME CallInv, NEW f \in Flow, flow[f].at \in {"asking", "connect"},
           NEW s \in Session \union {None}, "overlap" \notin upset => s = active,
           Fails(f, s), UNCHANGED <<pending, pushed>>
    PROVE  CallInv'
<1>i. TypeOK /\ SessionsInv /\ ScreenInv
  BY DEF CallInv
<1>v. /\ session \in [Session -> SessionType] /\ flow \in [Flow -> FlowType]
      /\ active \in Session \union {None}
  BY <1>i, TypesOfVariables
<1>1. CASE s # None /\ session[s].channel = "open"
  <2>1. /\ s \in Session /\ UNCHANGED <<session, active, screen, timers, early, upset>>
        /\ flow' = [flow EXCEPT ![f] = [at |-> "failing", session |-> s]]
    BY <1>1 DEF Fails
  <2>f. /\ flow'[f].at = "failing" /\ flow'[f].session = s
        /\ \A g \in Flow : g # f => flow'[g] = flow[g]
        /\ flow' \in [Flow -> FlowType]
    BY <1>v, <2>1, FlowMade
  <2>2. TypeOK'
    BY <1>i, <2>1, <2>f, TypeMade DEF TypeOK, SessionType
  <2>3. session[s].role # None
    BY <1>i, <1>1, <2>1 DEF SessionsInv, Begun
  <2>4. Begun'
    BY <1>i, <2>1, <2>3, <2>f DEF SessionsInv, Begun, Holds
  <2>5. Opening' /\ Off' /\ Handled'
    BY <1>i, <2>1, <2>f DEF SessionsInv, Opening, Off, Handled, Begins
  <2>6. \A g \in Flow : Calling(g)' <=> Calling(g)
    BY <2>f DEF Calling
  <2>7. OneCall'
    BY <1>i, <2>1, <2>6, <2>f DEF ScreenInv, OneCall, Holds
  <2>8. OthersAreOver'
    BY <1>i, <2>1, <2>f DEF ScreenInv, OthersAreOver, Live
  <2>9. AskedShown' /\ AskedAfter'
    BY <1>i, <2>1, <2>f DEF ScreenInv, AskedShown, AskedAfter
  <2>10. ShownWhileLive' /\ EndingEnds'
    BY <1>i, <2>1 DEF ScreenInv, ShownWhileLive, EndingEnds, Live
  <2>11. NoGhostScreen'
    BY <2>f DEF NoGhostScreen, Calling
  <2> QED
    BY <2>2, <2>4, <2>5, <2>7, <2>8, <2>9, <2>10, <2>11
    DEF CallInv, SessionsInv, ScreenInv
<1>2. CASE ~(s # None /\ session[s].channel = "open")
  <2>1. Calling(f)
    BY DEF Calling
  <2>2. /\ flow' = [flow EXCEPT ![f] = Idle] /\ session' = Destroyed(s)
        /\ Resets(s) /\ Notes(s, {}) /\ active' = None /\ screen' = "idle"
    BY <1>2 DEF Fails
  <2> QED
    BY <2>1, <2>2, GivenUp
<1> QED
  BY <1>1, <1>2

LEMMA FailuresKeep ==
    ASSUME CallInv, NEW f \in Flow, AskFails(f) \/ FailEnds(f) \/ ConnectFails(f)
    PROVE  CallInv'
<1>i. TypeOK /\ SessionsInv /\ ScreenInv
  BY DEF CallInv
<1>v. active \in Session \union {None} /\ (Holds(f) => flow[f].session \in Session)
  BY <1>i, TypesOfVariables, FlowFacts
<1>o. "overlap" \notin upset => (Holds(f) => active = flow[f].session)
  BY <1>i DEF ScreenInv, OneCall
<1>1. CASE AskFails(f)
  BY <1>v, <1>1, FailsKeeps DEF AskFails
<1>2. CASE FailEnds(f)
  <2>1. PICK s \in Session : s = flow[f].session
    BY <1>v, <1>2 DEF FailEnds, Holds
  <2>2. /\ flow' = [flow EXCEPT ![f] = Idle] /\ session' = Destroyed(s)
        /\ Resets(s) /\ Notes(s, {}) /\ active' = None /\ screen' = "idle"
        /\ UNCHANGED <<pending, pushed>>
        /\ Calling(f) /\ Holds(f)
    BY <1>2, <2>1 DEF FailEnds, Calling, Holds
  <2> QED
    BY <1>o, <2>1, <2>2, GivenUp
<1>3. CASE ConnectFails(f)
  <2>1. flow[f].at = "connect" /\ Holds(f) /\ UNCHANGED <<pending, pushed>>
    BY <1>3 DEF ConnectFails, Holds
  <2>2. PICK s : s = IF session[flow[f].session].role = "responder"
                     THEN flow[f].session ELSE active
    OBVIOUS
  <2>3. s \in Session \union {None} /\ ("overlap" \notin upset => s = active)
    BY <1>v, <1>o, <2>1, <2>2
  <2>4. Fails(f, s)
    BY <1>3, <2>2 DEF ConnectFails
  <2> QED
    BY <2>1, <2>3, <2>4, FailsKeeps
<1> QED
  BY <1>1, <1>2, <1>3

\* Fields of a session are set, and the screen stays or shows the call.
LEMMA SetKeeps ==
    ASSUME CallInv, NEW s \in Session, session[s].role # None,
           NEW media, NEW channel, NEW peer, NEW accepting, NEW signalling,
           SetTo(s, media, channel, peer, accepting, signalling, session[s].hanging),
           s \notin early /\ session[s].destroyed =>
                /\ ~media /\ ~peer /\ channel = "closed"
                /\ accepting => session[s].accepting
                /\ signalling => session[s].signalling,
           \A f \in Flow : flow'[f].at = "media" /\ flow'[f].session = s =>
                channel = "none",
           flow' \in [Flow -> FlowType], Ebbs, \A f \in Flow : SameOp(f),
           UNCHANGED <<active, pending, timers, pushed, early, upset>>,
           \/ screen' = screen
           \/ /\ screen' \in {"active", "outgoing"}
              /\ upset \intersect {"overlap", "midway"} = {} /\ early = {} =>
                    \E r \in Session : Live(r)
    PROVE  CallInv'
<1>i. TypeOK /\ SessionsInv /\ ScreenInv
  BY DEF CallInv
<1>v. active \in Session \union {None}
  BY <1>i, TypesOfVariables
<1>1. TypeOK'
  <2>1. session' \in [Session -> SessionType]
    BY DEF SetTo
  <2> QED
    BY <1>i, <2>1, TypeMade DEF TypeOK
<1>2. SessionsInv'
  BY <1>i, <1>v, SetSessions
<1>3. \A r \in Session : (Live(r)' <=> Live(r))
                         /\ session'[r].hanging = session[r].hanging
  BY DEF SetTo, Live
<1>4. ScreenInv'
  BY <1>i, <1>3, KeepScreen
<1> QED
  BY <1>1, <1>2, <1>4 DEF CallInv

LEMMA MediaReadyKeeps ==
    ASSUME CallInv, NEW f \in Flow, MediaReady(f)
    PROVE  CallInv'
<1>i. TypeOK /\ SessionsInv /\ ScreenInv
  BY DEF CallInv
<1>v. flow \in [Flow -> FlowType] /\ Holds(f) /\ Begins(f)
  BY <1>i, TypesOfVariables DEF MediaReady, Holds, Begins
<1>s. PICK s \in Session : s = flow[f].session
  BY <1>i, <1>v, FlowFacts
<1>p. /\ session' = [session EXCEPT ![s].media = TRUE, ![s].channel = "connecting"]
      /\ flow' = [flow EXCEPT ![f].at = "connect"] /\ flow[f].at = "media"
      /\ UNCHANGED <<active, pending, screen, timers, pushed, early, upset>>
  BY <1>s DEF MediaReady
<1>f. /\ flow'[f].at = "connect" /\ flow'[f].session = s
      /\ \A g \in Flow : g # f => flow'[g] = flow[g]
      /\ flow' \in [Flow -> FlowType]
  <2>1. flow[f] \in [at : {"media", "connect", "failing"}, session : Session]
    BY <1>v, <1>p DEF FlowType, Idle
  <2>2. PICK o : o = [flow[f] EXCEPT !.at = "connect"]
    OBVIOUS
  <2>3. o \in FlowType /\ o.at = "connect" /\ o.session = s
    BY <1>s, <2>1, <2>2 DEF FlowType
  <2>4. flow' = [flow EXCEPT ![f] = o]
    BY <1>p, <2>2
  <2> QED
    BY <1>v, <2>3, <2>4
<1>1. SetTo(s, TRUE, "connecting", session[s].peer,
            session[s].accepting, session[s].signalling, session[s].hanging)
  BY <1>i, <1>p, SetMedia
<1>2. session[s].role # None
  BY <1>i, <1>v, <1>s DEF SessionsInv, Begun
<1>3. ~(s \notin early /\ session[s].destroyed)
  BY <1>i, <1>p, <1>s DEF SessionsInv, Opening, Off
<1>4. ASSUME NEW g \in Flow, flow'[g].at = "media", flow'[g].session = s PROVE FALSE
  <2>1. g # f /\ flow'[g] = flow[g]
    BY <1>f, <1>4
  <2>2. Begins(g)
    BY <1>4, <2>1 DEF Begins
  <2> QED
    BY <1>i, <1>v, <1>s, <1>4, <2>1, <2>2 DEF SessionsInv, Opening
<1>5. Ebbs
  BY <1>v, <1>s, <1>f DEF Ebbs, Holds, Begins
<1>6. \A g \in Flow : SameOp(g)
  BY <1>v, <1>p, <1>s, <1>f DEF SameOp, Holds
<1> QED
  BY <1>p, <1>f, <1>1, <1>2, <1>3, <1>4, <1>5, <1>6, SetKeeps

LEMMA ConnectsKeeps ==
    ASSUME CallInv, NEW f \in Flow, Connects(f)
    PROVE  CallInv'
<1>i. TypeOK /\ SessionsInv /\ ScreenInv
  BY DEF CallInv
<1>v. /\ flow \in [Flow -> FlowType] /\ Holds(f) /\ Begins(f)
      /\ active \in Session \union {None} /\ None \notin Session
  BY <1>i, TypesOfVariables, NoneIsNoSession DEF Connects, Holds, Begins
<1>s. PICK s \in Session : s = flow[f].session
  BY <1>i, <1>v, FlowFacts
<1>p. /\ session' = [session EXCEPT ![s].channel = "open"]
      /\ session[s].channel = "connecting"
      /\ flow' = [flow EXCEPT ![f] = Idle] /\ flow[f].at = "connect"
      /\ UNCHANGED <<active, pending, screen, timers, pushed, early, upset>>
  BY <1>s DEF Connects
<1>f. /\ flow'[f].at = "idle" /\ \A g \in Flow : g # f => flow'[g] = flow[g]
      /\ flow' \in [Flow -> FlowType]
  BY <1>v, <1>p, FlowMade
<1>1. SetTo(s, session[s].media, "open", session[s].peer,
            session[s].accepting, session[s].signalling, session[s].hanging)
  <2>1. PICK channel \in {"open", "lost"} : channel = "open"
    OBVIOUS
  <2> QED
    BY <1>i, <1>p, <2>1, SetChannel
<1>2. session[s].role # None
  BY <1>i, <1>v, <1>s DEF SessionsInv, Begun
<1>3. ~(s \notin early /\ session[s].destroyed)
  BY <1>i, <1>p DEF SessionsInv, Off
<1>4. ASSUME NEW g \in Flow, flow'[g].at = "media", flow'[g].session = s PROVE FALSE
  <2>1. g # f /\ flow'[g] = flow[g]
    BY <1>f, <1>4
  <2>2. Begins(g)
    BY <1>4, <2>1 DEF Begins
  <2> QED
    BY <1>i, <1>v, <1>s, <1>4, <2>1, <2>2 DEF SessionsInv, Opening
<1>5. Ebbs
  BY <1>f DEF Ebbs, Holds, Begins
<1>6. TypeOK'
  <2>1. session' \in [Session -> SessionType]
    BY <1>1 DEF SetTo
  <2> QED
    BY <1>i, <1>p, <1>f, <2>1, TypeMade DEF TypeOK
<1>7. SessionsInv'
  BY <1>i, <1>v, <1>p, <1>1, <1>2, <1>3, <1>4, <1>5, SetSessions
<1>l. \A r \in Session : (Live(r)' <=> Live(r))
                         /\ session'[r].hanging = session[r].hanging
  BY <1>1 DEF SetTo, Live
<1>8. OneCall'
  BY <1>i, <1>p, <1>f DEF ScreenInv, OneCall, Calling, Holds
<1>9. OthersAreOver'
  BY <1>i, <1>p, <1>f, <1>l DEF ScreenInv, OthersAreOver
<1>10. AskedShown' /\ AskedAfter'
  BY <1>i, <1>p, <1>f DEF ScreenInv, AskedShown, AskedAfter
<1>11. ShownWhileLive'
  <2>1. Live(active)' <=> Live(active)
    BY <1>v, <1>p, <1>l DEF Live
  <2> QED
    BY <1>i, <1>p, <2>1 DEF ScreenInv, ShownWhileLive
<1>12. EndingEnds'
  BY <1>i, <1>p, <1>l DEF ScreenInv, EndingEnds
<1>13. NoGhostScreen'
  <2>1. early = {} => Live(s)'
    BY <1>v, <1>2, <1>3, <1>l DEF Live
  <2> QED
    BY <1>p, <2>1 DEF NoGhostScreen
<1> QED
  BY <1>6, <1>7, <1>8, <1>9, <1>10, <1>11, <1>12, <1>13 DEF CallInv, ScreenInv

\* An operation that is not for a call begins or is over.
LEMMA SameSessions ==
    ASSUME CallInv, UNCHANGED <<active, session, early, upset>>,
           \A f \in Flow : flow'[f] = flow[f] \/ ~Holds(f)'
    PROVE  SessionsInv'
<1>1. \A f \in Flow : Holds(f)' => flow'[f] = flow[f] /\ Holds(f)
  BY DEF Holds
<1>2. Begun'
  BY <1>1 DEF CallInv, SessionsInv, Begun
<1>3. Opening'
  BY <1>1 DEF CallInv, SessionsInv, Opening, Begins, Holds
<1> QED
  BY <1>2, <1>3 DEF CallInv, SessionsInv, Off, Handled

LEMMA IncomingKeep ==
    ASSUME CallInv, NEW f \in Flow,
           Show(f) \/ Discard(f) \/ \E c \in Call : Push(f, c)
    PROVE  CallInv'
<1>i. TypeOK /\ SessionsInv /\ ScreenInv
  BY DEF CallInv
<1>v. /\ flow \in [Flow -> FlowType] /\ session \in [Session -> SessionType]
      /\ active \in Session \union {None} /\ pending \in Call \union {None}
  BY <1>i, TypesOfVariables
<1>p. UNCHANGED <<active, session, timers, early, upset>>
  BY DEF Show, Discard, Push
<1>f. /\ flow[f].at \in {"idle", "decoding"} /\ flow'[f].at \in {"idle", "decoding"}
      /\ \A g \in Flow : g # f => flow'[g] = flow[g]
      /\ flow' \in [Flow -> FlowType]
  BY <1>v, FlowMade DEF Show, Discard, Push
<1>1. TypeOK'
  <2>1. pending' \in Call \union {None} /\ pushed' \subseteq Call
    BY <1>i, FlowFacts DEF Show, Discard, Push, TypeOK
  <2>2. screen' \in {"idle", "connecting", "outgoing", "incoming", "active", "ending"}
    BY <1>i DEF Show, Discard, Push, TypeOK
  <2> QED
    BY <1>i, <1>v, <1>p, <1>f, <2>1, <2>2, TypeMade DEF TypeOK
<1>2. SessionsInv'
  BY <1>p, <1>f, SameSessions DEF Holds
<1>3. \A g \in Flow : SameOp(g)
  BY <1>f DEF SameOp, Holds
<1>4. CASE UNCHANGED <<pending, screen>>
  <2>1. \A r \in Session : (Live(r)' <=> Live(r))
                           /\ session'[r].hanging = session[r].hanging
    BY <1>p DEF Live
  <2>2. ScreenInv'
    BY <1>i, <1>p, <1>3, <1>4, <2>1, KeepScreen
  <2> QED
    BY <1>1, <1>2, <2>2 DEF CallInv
<1>5. CASE Show(f)
  <2>1. screen' = "incoming" /\ pending' # None
    <3>1. flow[f].of \in Call
      BY <1>i, <1>5, FlowFacts DEF Show
    <3> QED
      BY <1>5, <3>1, Assumptions DEF Show, Assumptions
  <2>2. OneCall'
    BY <1>i, <1>p, <1>f DEF ScreenInv, OneCall, Calling, Holds
  <2>3. OthersAreOver'
    BY <1>i, <1>p, <1>f DEF ScreenInv, OthersAreOver, Live
  <2>4. AskedShown' /\ AskedAfter' /\ ShownWhileLive' /\ EndingEnds' /\ NoGhostScreen'
    BY <2>1 DEF AskedShown, AskedAfter, ShownWhileLive, EndingEnds, NoGhostScreen
  <2> QED
    BY <1>1, <1>2, <2>2, <2>3, <2>4 DEF CallInv, ScreenInv
<1> QED
  BY <1>4, <1>5 DEF Discard, Push

LEMMA AcceptKeeps ==
    ASSUME CallInv, NEW f \in Flow, Accept(f)
    PROVE  CallInv'
<1>i. TypeOK /\ SessionsInv /\ ScreenInv
  BY DEF CallInv
<1>v. /\ session \in [Session -> SessionType] /\ flow \in [Flow -> FlowType]
      /\ active \in Session \union {None} /\ None \notin Session
  BY <1>i, TypesOfVariables, NoneIsNoSession
<1>s. PICK s \in Session :
        /\ session[s] = Unborn
        /\ session' = [Destroyed(active) EXCEPT ![s].role = "responder"]
        /\ active' = s
        /\ flow' = [flow EXCEPT ![f] = [at |-> "media", session |-> s]]
  BY DEF Accept
<1>p. /\ flow[f] = Idle /\ pending' = None /\ screen' = "connecting"
      /\ Notes(active, Crossing) /\ UNCHANGED <<timers, pushed>>
  BY DEF Accept
<1>u. s # active
  BY <1>i, <1>v, <1>s DEF SessionsInv, Begun, Unborn
<1>1. /\ SessionsInv'
      /\ session' \in [Session -> SessionType]
      /\ session'[s].role = "responder" /\ ~session'[s].destroyed
      /\ \A r \in Session : r # s /\ (r # active \/ ~Live(active)) =>
            session'[r] = session[r]
      /\ Live(active) => Closed(active)
  BY <1>i, <1>v, <1>s, <1>p, <1>u, StartSessions
<1>f. /\ flow'[f].at = "media" /\ flow'[f].session = s
      /\ \A g \in Flow : g # f => flow'[g] = flow[g]
      /\ flow' \in [Flow -> FlowType]
  BY <1>v, <1>s, FlowMade
<1>2. TypeOK'
  <2>1. Crossing \subseteq {"overlap", "timer", "midway", "late", "behind"}
    BY DEF Crossing
  <2>2. /\ early' \subseteq Session
        /\ upset' \subseteq {"overlap", "timer", "midway", "late", "behind"}
    BY <1>i, <1>v, <1>p, <2>1, NotesTyped
  <2> QED
    BY <1>i, <1>p, <1>s, <1>f, <1>1, <2>2, TypeMade DEF TypeOK
<1>n. "overlap" \notin upset' => "overlap" \notin upset /\ \A g \in Flow : ~Calling(g)
  BY <1>p, CrossingNoted
<1>l. \A r \in Session : r # s /\ Live(r)' =>
        Live(r) /\ r # active /\ session'[r].hanging = session[r].hanging
  BY <1>1 DEF Closed, Live
<1>3. OneCall'
  BY <1>n, <1>s, <1>f DEF OneCall, Calling, Holds
<1>4. OthersAreOver'
  BY <1>i, <1>n, <1>l, <1>s DEF ScreenInv, OthersAreOver, Calling
<1>5. AskedShown' /\ AskedAfter' /\ EndingEnds' /\ ShownWhileLive'
  BY <1>p DEF AskedShown, AskedAfter, EndingEnds, ShownWhileLive
<1>6. NoGhostScreen'
  BY <1>f DEF NoGhostScreen, Calling
<1> QED
  BY <1>1, <1>2, <1>3, <1>4, <1>5, <1>6 DEF CallInv, ScreenInv

\* The active session is destroyed, and no call follows.
LEMMA ActiveEnds ==
    ASSUME CallInv, NEW more \in SUBSET {"late"},
           session' = Destroyed(active), Notes(active, Crossing \union more),
           active' = None, pending' = None, screen' \in {"idle", "ending"},
           timers' \subseteq Session \union {Always},
           screen' = "ending" => timers' # {} \/ "late" \in more,
           UNCHANGED <<flow, pushed>>
    PROVE  CallInv'
<1>i. TypeOK /\ SessionsInv /\ ScreenInv
  BY DEF CallInv
<1>v. /\ session \in [Session -> SessionType] /\ flow \in [Flow -> FlowType]
      /\ active \in Session \union {None} /\ None \notin Session
  BY <1>i, TypesOfVariables, NoneIsNoSession
<1>m. PICK all : all = Crossing \union more
  OBVIOUS
<1>c. /\ all \subseteq {"overlap", "timer", "midway", "late", "behind"}
      /\ Notes(active, all) /\ more \subseteq all
  BY <1>m DEF Crossing
<1>t. /\ early' \subseteq Session /\ all \subseteq upset'
      /\ upset' \subseteq {"overlap", "timer", "midway", "late", "behind"}
  BY <1>i, <1>v, <1>c, NotesTyped
<1>1. TypeOK'
  <2>1. session' \in [Session -> SessionType]
    BY <1>i, <1>v, DestroyedFacts
  <2> QED
    BY <1>i, <1>v, <1>t, <2>1, TypeMade DEF TypeOK
<1>2. SessionsInv'
  <2>1. Ebbs
    BY DEF Ebbs, Holds, Begins
  <2> QED
    BY <1>i, <1>v, <1>c, <2>1, EndSessions
<1>n. "overlap" \notin upset' => "overlap" \notin upset /\ \A g \in Flow : ~Calling(g)
  BY CrossingNoted
<1>l. \A r \in Session :
        /\ Live(r)' <=> Live(r) /\ r # active
        /\ r # active => session'[r].hanging = session[r].hanging
  BY <1>i, <1>v, DestroyedLive
<1>3. OneCall'
  BY <1>n DEF OneCall, Calling, Holds
<1>4. OthersAreOver'
  BY <1>i, <1>n, <1>l DEF ScreenInv, OthersAreOver, Calling
<1>5. AskedShown' /\ AskedAfter'
  BY <1>n DEF AskedShown, AskedAfter, Calling
<1>6. ShownWhileLive' /\ NoGhostScreen'
  BY DEF ShownWhileLive, NoGhostScreen, Live
<1>7. EndingEnds'
  BY <1>c, <1>t DEF EndingEnds
<1> QED
  BY <1>1, <1>2, <1>3, <1>4, <1>5, <1>6, <1>7 DEF CallInv, ScreenInv

LEMMA DeclineKeeps ==
    ASSUME CallInv, Decline \/ Dismiss
    PROVE  CallInv'
<1>1. Crossing \union {} = Crossing /\ {} \in SUBSET {"late"}
  OBVIOUS
<1>2. TypeOK
  BY DEF CallInv
<1>3. timers' \subseteq Session \union {Always}
  BY <1>2 DEF Decline, Dismiss, TypeOK, Live
<1>4. screen' = "ending" => timers' # {}
  BY DEF Decline, Dismiss
<1>5. /\ session' = Destroyed(active) /\ Notes(active, Crossing \union {})
      /\ active' = None /\ pending' = None /\ screen' \in {"idle", "ending"}
      /\ UNCHANGED <<flow, pushed>>
  BY <1>1 DEF Decline, Dismiss
<1> QED
  BY <1>1, <1>3, <1>4, <1>5, ActiveEnds

LEMMA HangupKeeps ==
    ASSUME CallInv, Hangup
    PROVE  CallInv'
<1>i. TypeOK /\ SessionsInv /\ ScreenInv
  BY DEF CallInv
<1>v. /\ session \in [Session -> SessionType] /\ flow \in [Flow -> FlowType]
      /\ active \in Session \union {None} /\ None \notin Session
  BY <1>i, TypesOfVariables, NoneIsNoSession
<1>p. pending' = None /\ active' = None /\ screen' = "ending" /\ UNCHANGED <<flow, pushed>>
  BY DEF Hangup
<1>1. CASE active # None /\ session[active].channel = "open"
  <2>s. PICK s \in Session : s = active
    BY <1>v, <1>1
  <2>p. /\ session' = [session EXCEPT ![s].hanging = TRUE]
        /\ upset' = upset \union Crossing
        /\ UNCHANGED <<timers, early>>
    BY <1>1, <2>s DEF Hangup
  <2>1. SetTo(s, session[s].media, session[s].channel, session[s].peer,
              session[s].accepting, session[s].signalling, TRUE)
    BY <1>i, <2>p, SetHanging
  <2>2. TypeOK'
    <3>1. session' \in [Session -> SessionType]
      BY <2>1 DEF SetTo
    <3>2. upset' \subseteq {"overlap", "timer", "midway", "late", "behind"}
      BY <1>i, <2>p DEF Crossing, TypeOK
    <3> QED
      BY <1>i, <1>v, <1>p, <2>p, <3>1, <3>2, TypeMade DEF TypeOK
  <2>3. SessionsInv'
    <3>1. session[s].role # None
      BY <1>i, <1>1, <2>s DEF SessionsInv, Begun
    <3>2. Ebbs
      BY <1>p DEF Ebbs, Holds, Begins
    <3>3. ~(s \notin early /\ session[s].destroyed)
      BY <1>i, <1>1, <2>s DEF SessionsInv, Off
    <3>4. \A f \in Flow : flow'[f].at = "media" /\ flow'[f].session = s =>
            session[s].channel = "none"
      BY <1>i, <1>p DEF SessionsInv, Opening
    <3>5. upset \subseteq upset' /\ active' \in {active, None} /\ early' = early
      BY <1>p, <2>p
    <3> QED
      BY <1>i, <2>1, <3>1, <3>2, <3>3, <3>4, <3>5, SetSessions
  <2>n. "overlap" \notin upset' => "overlap" \notin upset /\ \A g \in Flow : ~Calling(g)
    BY <2>p DEF Crossing
  <2>l. /\ \A r \in Session : Live(r)' <=> Live(r)
        /\ \A r \in Session : r # s => session'[r].hanging = session[r].hanging
        /\ session'[s].hanging
    BY <2>1 DEF SetTo, Live
  <2>4. OneCall'
    BY <1>p, <2>n DEF OneCall, Calling, Holds
  <2>5. OthersAreOver'
    BY <1>i, <2>s, <2>n, <2>l DEF ScreenInv, OthersAreOver, Calling
  <2>6. AskedShown' /\ AskedAfter'
    BY <1>p, <2>n DEF AskedShown, AskedAfter, Calling
  <2>7. ShownWhileLive' /\ EndingEnds' /\ NoGhostScreen'
    BY <1>p, <2>l DEF ShownWhileLive, EndingEnds, NoGhostScreen
  <2> QED
    BY <2>2, <2>3, <2>4, <2>5, <2>6, <2>7 DEF CallInv, ScreenInv
<1>2. CASE ~(active # None /\ session[active].channel = "open")
  <2>m. PICK more \in SUBSET {"late"} :
          more = IF active # None /\ ~Live(active) THEN {"late"} ELSE {}
    OBVIOUS
  <2>1. /\ session' = Destroyed(active)
        /\ timers' = CASE active = None -> timers \union {Always}
                       [] Live(active) -> timers \union {active}
                       [] OTHER -> timers
    BY <1>2 DEF Hangup
  <2>2. Notes(active, Crossing \union more)
    BY <1>2, <2>m DEF Hangup
  <2>3. timers' \subseteq Session \union {Always}
    BY <1>i, <1>v, <2>1 DEF TypeOK, Live
  <2>4. timers' # {} \/ "late" \in more
    BY <2>1, <2>m
  <2> QED
    BY <1>p, <2>1, <2>2, <2>3, <2>4, ActiveEnds
<1> QED
  BY <1>1, <1>2

\* A session ends and says so, perhaps behind the active one.
LEMMA SaysEnds ==
    ASSUME CallInv, NEW s \in Session, Live(s),
           session' = Destroyed(s), screen' = "ending", Resets(s), Notes(s, Behind(s)),
           UNCHANGED <<active, pending, flow, pushed>>
    PROVE  CallInv'
<1>i. TypeOK /\ SessionsInv /\ ScreenInv
  BY DEF CallInv
<1>v. /\ session \in [Session -> SessionType] /\ flow \in [Flow -> FlowType]
      /\ active \in Session \union {None} /\ None \notin Session
  BY <1>i, TypesOfVariables, NoneIsNoSession
<1>m. PICK all : all = Behind(s)
  OBVIOUS
<1>c. /\ all \subseteq {"overlap", "timer", "midway", "late", "behind"}
      /\ Notes(s, all)
      /\ active \notin {s, None} \/ (\E f \in Flow : flow[f].at = "asking") =>
            "behind" \in all
  BY <1>m DEF Behind
<1>t. /\ early' \subseteq Session /\ upset \union all \subseteq upset'
      /\ upset' \subseteq {"overlap", "timer", "midway", "late", "behind"}
  BY <1>i, <1>c, NotesTyped
<1>r. timers' = timers \union {s}
  BY DEF Resets
<1>1. TypeOK'
  <2>1. session' \in [Session -> SessionType]
    BY <1>i, DestroyedFacts
  <2>2. timers' \subseteq Session \union {Always}
    BY <1>i, <1>r DEF TypeOK
  <2> QED
    BY <1>i, <1>v, <1>t, <2>1, <2>2, TypeMade DEF TypeOK
<1>2. SessionsInv'
  <2>1. Ebbs
    BY DEF Ebbs, Holds, Begins
  <2>2. s \in Session \union {None} /\ active' \in {active, None}
    OBVIOUS
  <2> QED
    BY <1>i, <1>c, <2>1, <2>2, EndSessions
<1>l. \A r \in Session :
        /\ Live(r)' <=> Live(r) /\ r # s
        /\ r # s => session'[r].hanging = session[r].hanging
  BY <1>i, DestroyedLive
<1>3. OneCall'
  BY <1>i, <1>t DEF ScreenInv, OneCall, Calling, Holds
<1>4. OthersAreOver'
  BY <1>i, <1>t, <1>l DEF ScreenInv, OthersAreOver
<1>5. AskedShown' /\ ShownWhileLive' /\ NoGhostScreen'
  BY DEF AskedShown, ShownWhileLive, NoGhostScreen
<1>6. AskedAfter'
  BY <1>c, <1>t DEF AskedAfter
<1>7. EndingEnds'
  BY <1>c, <1>t, <1>r DEF EndingEnds
<1> QED
  BY <1>1, <1>2, <1>3, <1>4, <1>5, <1>6, <1>7 DEF CallInv, ScreenInv

LEMMA RemoteEndKeeps ==
    ASSUME CallInv, NEW s \in Session, RemoteEnd(s)
    PROVE  CallInv'
BY SaysEnds DEF RemoteEnd

LEMMA HangEndsKeeps ==
    ASSUME CallInv, NEW s \in Session, HangEnds(s)
    PROVE  CallInv'
<1>i. TypeOK /\ SessionsInv /\ ScreenInv
  BY DEF CallInv
<1>v. /\ session \in [Session -> SessionType] /\ flow \in [Flow -> FlowType]
      /\ active \in Session \union {None} /\ None \notin Session
  BY <1>i, TypesOfVariables, NoneIsNoSession
<1>p. UNCHANGED <<active, pending, flow, pushed>> /\ Resets(s) /\ session[s].hanging
  BY DEF HangEnds
<1>1. CASE Live(s)
  <2>1. session' = Destroyed(s)
    <3>1. PICK r : r = Gone(session[s])
      OBVIOUS
    <3>2. Destroyed(s) = [session EXCEPT ![s] = r]
      BY <1>1, <3>1 DEF Destroyed
    <3>3. session' = [[session EXCEPT ![s] = r] EXCEPT ![s].hanging = FALSE]
      BY <3>2 DEF HangEnds
    <3>4. session' = [session EXCEPT ![s] = [r EXCEPT !.hanging = FALSE]]
      BY <1>v, <3>3
    <3>5. [r EXCEPT !.hanging = FALSE] = r
      <4>1. session[s] \in SessionType
        BY <1>v
      <4> QED
        BY <3>1, <4>1 DEF Gone, SessionType
    <3> QED
      BY <3>2, <3>4, <3>5
  <2>2. screen' = "ending" /\ Notes(s, Behind(s))
    BY <1>1 DEF HangEnds
  <2> QED
    BY <1>1, <1>p, <2>1, <2>2, SaysEnds
<1>2. CASE ~Live(s)
  <2>1. /\ session' = [session EXCEPT ![s].hanging = FALSE]
        /\ screen' = screen /\ timers' = timers
        /\ early' = early /\ upset' = upset \union {"late"}
    BY <1>2 DEF HangEnds, Destroyed, Resets, Notes
  <2>2. SetTo(s, session[s].media, session[s].channel, session[s].peer,
              session[s].accepting, session[s].signalling, FALSE)
    BY <1>i, <2>1, SetHanging
  <2>3. TypeOK'
    <3>1. session' \in [Session -> SessionType]
      BY <2>2 DEF SetTo
    <3>2. upset' \subseteq {"overlap", "timer", "midway", "late", "behind"}
      BY <1>i, <2>1 DEF TypeOK
    <3> QED
      BY <1>i, <1>v, <1>p, <2>1, <3>1, <3>2, TypeMade DEF TypeOK
  <2>4. SessionsInv'
    <3>1. session[s].role # None
      BY <1>i, <1>p DEF SessionsInv, Begun
    <3>2. Ebbs
      BY <1>p DEF Ebbs, Holds, Begins
    <3>3. s \notin early /\ session[s].destroyed =>
            ~session[s].media /\ ~session[s].peer /\ session[s].channel = "closed"
      BY <1>i DEF SessionsInv, Off
    <3>4. \A f \in Flow : flow'[f].at = "media" /\ flow'[f].session = s =>
            session[s].channel = "none"
      BY <1>i, <1>p DEF SessionsInv, Opening
    <3>5. upset \subseteq upset' /\ active' \in {active, None} /\ early' = early
      BY <1>p, <2>1
    <3> QED
      BY <1>i, <2>2, <3>1, <3>2, <3>3, <3>4, <3>5, SetSessions
  <2>l. \A r \in Session :
          /\ Live(r)' <=> Live(r)
          /\ r # s => session'[r].hanging = session[r].hanging
    BY <2>2 DEF SetTo, Live
  <2>5. OneCall'
    BY <1>i, <1>p, <2>1 DEF ScreenInv, OneCall, Calling, Holds
  <2>6. OthersAreOver'
    BY <1>i, <1>p, <1>2, <2>1, <2>l DEF ScreenInv, OthersAreOver
  <2>7. AskedShown'
    BY <1>i, <1>p, <2>1 DEF ScreenInv, AskedShown
  <2>8. ShownWhileLive'
    <3>1. Live(active)' <=> Live(active)
      BY <1>v, <1>p, <2>l DEF Live
    <3> QED
      BY <1>i, <1>p, <2>1, <3>1 DEF ScreenInv, ShownWhileLive
  <2>9. AskedAfter' /\ EndingEnds'
    BY <2>1 DEF AskedAfter, EndingEnds
  <2>10. NoGhostScreen'
    BY <1>i, <1>p, <2>1, <2>l DEF ScreenInv, NoGhostScreen, Calling
  <2> QED
    BY <2>3, <2>4, <2>5, <2>6, <2>7, <2>8, <2>9, <2>10 DEF CallInv, ScreenInv
<1> QED
  BY <1>1, <1>2

LEMMA TimerKeeps ==
    ASSUME CallInv, NEW x \in Session \union {Always}, Timer(x)
    PROVE  CallInv'
<1>i. TypeOK /\ SessionsInv /\ ScreenInv
  BY DEF CallInv
<1>v. /\ session \in [Session -> SessionType] /\ flow \in [Flow -> FlowType]
      /\ active \in Session \union {None} /\ pending \in Call \union {None}
  BY <1>i, TypesOfVariables
<1>p. /\ timers' = timers \ {x} /\ upset \subseteq upset'
      /\ upset' \subseteq upset \union {"timer"}
      /\ UNCHANGED <<active, pending, session, flow, pushed, early>>
  BY DEF Timer
<1>r. \/ /\ x # Always /\ active \notin {x, None} /\ screen' = screen
      \/ /\ screen' = "idle"
         /\ Live(active) \/ (\E f \in Flow : Calling(f)) => "timer" \in upset'
  BY DEF Timer
<1>1. TypeOK'
  <2>1. /\ timers' \subseteq Session \union {Always}
        /\ upset' \subseteq {"overlap", "timer", "midway", "late", "behind"}
    BY <1>i, <1>p DEF TypeOK
  <2>2. screen' \in {"idle", "connecting", "outgoing", "incoming", "active", "ending"}
    BY <1>i, <1>r DEF TypeOK
  <2> QED
    BY <1>i, <1>v, <1>p, <2>1, <2>2, TypeMade DEF TypeOK
<1>2. SessionsInv'
  <2>1. Begun' /\ Opening' /\ Off'
    BY <1>i, <1>p DEF SessionsInv, Begun, Opening, Off, Holds, Begins
  <2> QED
    BY <1>i, <1>p, <2>1 DEF SessionsInv, Handled
<1>3. OneCall'
  BY <1>i, <1>p DEF ScreenInv, OneCall, Calling, Holds
<1>4. OthersAreOver'
  BY <1>i, <1>p DEF ScreenInv, OthersAreOver, Live
<1>5. AskedShown'
  BY <1>i, <1>p, <1>r DEF ScreenInv, AskedShown, Calling
<1>6. ShownWhileLive'
  BY <1>i, <1>p, <1>r DEF ScreenInv, ShownWhileLive, Live
<1>7. AskedAfter'
  BY <1>i, <1>p, <1>r DEF ScreenInv, AskedAfter
<1>8. EndingEnds'
  BY <1>i, <1>p, <1>r DEF ScreenInv, EndingEnds
<1>9. NoGhostScreen'
  BY <1>i, <1>p, <1>r DEF ScreenInv, NoGhostScreen, Calling, Live
<1> QED
  BY <1>1, <1>2, <1>3, <1>4, <1>5, <1>6, <1>7, <1>8, <1>9 DEF CallInv, ScreenInv

\* What is heard on the channel of a session, and the handlers that go on
LEMMA HeardKeeps ==
    ASSUME CallInv, NEW s \in Session,
           \/ Connection(s) \/ GoesOn(s) \/ Activate(s)
           \/ Signal(s) \/ SignalEnds(s) \/ ChannelLost(s)
    PROVE  CallInv'
<1>i. TypeOK /\ SessionsInv /\ ScreenInv
  BY DEF CallInv
<1>v. /\ session \in [Session -> SessionType] /\ flow \in [Flow -> FlowType]
      /\ active \in Session \union {None} /\ None \notin Session
  BY <1>i, TypesOfVariables, NoneIsNoSession
<1>p. UNCHANGED <<active, pending, flow, timers, pushed, early, upset>>
  BY DEF Connection, GoesOn, Activate, Signal, SignalEnds, ChannelLost
<1>f. /\ flow' \in [Flow -> FlowType] /\ Ebbs /\ \A f \in Flow : SameOp(f)
      /\ \A f \in Flow : flow'[f].at = "media" /\ flow'[f].session = s =>
            session[s].channel = "none"
  <2>1. Ebbs /\ \A f \in Flow : SameOp(f)
    BY <1>p DEF Ebbs, SameOp, Holds, Begins
  <2> QED
    BY <1>i, <1>v, <1>p, <2>1 DEF SessionsInv, Opening
<1>r. session[s].role # None
  BY <1>i DEF SessionsInv, Begun, Connection, GoesOn, Activate, Signal, SignalEnds,
     ChannelLost, Hears
<1>o. s \notin early /\ session[s].destroyed =>
        /\ ~session[s].media /\ ~session[s].peer /\ session[s].channel = "closed"
        /\ "midway" \notin upset => ~session[s].accepting /\ ~session[s].signalling
  BY <1>i DEF SessionsInv, Off, Handled
\* Who is heard, or goes on, is live, if nothing was upset.
<1>g. ASSUME session[s].channel = "open" \/ session[s].accepting \/ session[s].signalling
      PROVE  upset \intersect {"overlap", "midway"} = {} /\ early = {} =>
                \E r \in Session : Live(r)
  <2>1. upset \intersect {"overlap", "midway"} = {} /\ early = {} => Live(s)
    BY <1>v, <1>r, <1>o, <1>g DEF Live
  <2> QED
    BY <2>1
<1>1. CASE Connection(s)
  <2>1. SetTo(s, session[s].media, session[s].channel, TRUE, TRUE,
              session[s].signalling, session[s].hanging)
    BY <1>i, <1>1, SetConnection DEF Connection
  <2>2. ~(s \notin early /\ session[s].destroyed) /\ screen' = screen
    BY <1>o, <1>1 DEF Connection, Hears
  <2> QED
    BY <1>p, <1>f, <1>r, <2>1, <2>2, SetKeeps
<1>2. CASE Signal(s)
  <2>1. SetTo(s, session[s].media, session[s].channel, TRUE,
              session[s].accepting, TRUE, session[s].hanging)
    BY <1>i, <1>2, SetSignal DEF Signal
  <2>2. ~(s \notin early /\ session[s].destroyed) /\ screen' = screen
    BY <1>o, <1>2 DEF Signal, Hears
  <2> QED
    BY <1>p, <1>f, <1>r, <2>1, <2>2, SetKeeps
<1>3. CASE ChannelLost(s)
  <2>1. SetTo(s, session[s].media, "lost", session[s].peer,
              session[s].accepting, session[s].signalling, session[s].hanging)
    <3>1. PICK channel \in {"open", "lost"} : channel = "lost"
      OBVIOUS
    <3> QED
      BY <1>i, <1>3, <3>1, SetChannel DEF ChannelLost
  <2>2. ~(s \notin early /\ session[s].destroyed) /\ screen' = screen
    BY <1>o, <1>3 DEF ChannelLost, Hears
  <2>3. \A f \in Flow : ~(flow'[f].at = "media" /\ flow'[f].session = s)
    BY <1>f, <1>3 DEF ChannelLost, Hears
  <2> QED
    BY <1>p, <1>f, <1>r, <2>1, <2>2, <2>3, SetKeeps
<1>4. CASE GoesOn(s)
  <2>1. SetTo(s, session[s].media, session[s].channel, session[s].peer, FALSE,
              session[s].signalling, session[s].hanging)
    BY <1>i, <1>4, SetAccepted DEF GoesOn
  <2>2. session[s].role \in {"originator", "joiner", "responder"}
    BY <1>v, <1>r DEF SessionType
  <2>3. screen' = screen \/ screen' \in {"active", "outgoing"}
    BY <1>4, <2>2 DEF GoesOn
  <2>4. \/ screen' = screen
        \/ /\ screen' \in {"active", "outgoing"}
           /\ upset \intersect {"overlap", "midway"} = {} /\ early = {} =>
                \E r \in Session : Live(r)
    BY <1>4, <1>g, <2>3 DEF GoesOn
  <2> QED
    BY <1>p, <1>f, <1>r, <1>o, <2>1, <2>4, SetKeeps
<1>5. CASE SignalEnds(s)
  <2>1. SetTo(s, session[s].media, session[s].channel, session[s].peer,
              session[s].accepting, FALSE, session[s].hanging)
    BY <1>i, <1>5, SetSignalled DEF SignalEnds
  <2>2. \/ screen' = screen
        \/ /\ screen' \in {"active", "outgoing"}
           /\ upset \intersect {"overlap", "midway"} = {} /\ early = {} =>
                \E r \in Session : Live(r)
    BY <1>5, <1>g DEF SignalEnds
  <2> QED
    BY <1>p, <1>f, <1>r, <1>o, <2>1, <2>2, SetKeeps
<1>6. CASE Activate(s)
  <2>1. session' = session /\ screen' = "active" /\ session[s].channel = "open"
    BY <1>6 DEF Activate, Hears
  <2>2. SessionsInv'
    BY <1>p, <2>1, SameSessions
  <2>3. ScreenInv'
    <3>1. \A r \in Session : (Live(r)' <=> Live(r))
                             /\ session'[r].hanging = session[r].hanging
      BY <2>1 DEF Live
    <3>2. upset \intersect {"overlap", "midway"} = {} /\ early = {} =>
            \E r \in Session : Live(r)
      BY <1>g, <2>1
    <3> QED
      BY <1>i, <1>p, <1>f, <2>1, <3>1, <3>2, KeepScreen
  <2>4. TypeOK'
    BY <1>i, <1>p, <2>1 DEF TypeOK
  <2> QED
    BY <2>2, <2>3, <2>4 DEF CallInv
<1> QED
  BY <1>1, <1>2, <1>3, <1>4, <1>5, <1>6

-----------------------------------------------------------------------------
(* Theorems *)

LEMMA CallInit == Init => CallInv
<1> SUFFICES ASSUME Init PROVE CallInv
  OBVIOUS
<1>1. TypeOK
  BY TypedInit
<1>2. \A s \in Session : session[s] = Unborn /\ ~Live(s)
  BY DEF Init, Unborn, Live
<1>3. \A f \in Flow : flow[f].at = "idle"
  BY DEF Init, Idle
<1>4. SessionsInv
  BY <1>2, <1>3 DEF Init, SessionsInv, Begun, Opening, Off, Handled, Holds, Begins, Unborn
<1>5. ScreenInv
  BY <1>2, <1>3 DEF Init, ScreenInv, OneCall, OthersAreOver, AskedShown,
     ShownWhileLive, AskedAfter, EndingEnds, NoGhostScreen, Calling, Holds, Live
<1> QED
  BY <1>1, <1>4, <1>5 DEF CallInv

LEMMA CallNext == CallInv /\ [Next]_vars => CallInv'
<1> SUFFICES ASSUME CallInv, [Next]_vars PROVE CallInv'
  OBVIOUS
<1>1. CASE UNCHANGED vars
  <2>1. UNCHANGED <<active, pending, screen, session, flow, timers, pushed, early, upset>>
    BY <1>1 DEF vars
  <2>2. TypeOK'
    BY <2>1 DEF CallInv, TypeOK
  <2>3. SessionsInv'
    BY <2>1, SameSessions
  <2>4. ScreenInv'
    <3>1. \A f \in Flow : SameOp(f)
      BY <2>1 DEF SameOp, Holds
    <3>2. \A r \in Session : (Live(r)' <=> Live(r))
                             /\ session'[r].hanging = session[r].hanging
      BY <2>1 DEF Live
    <3> QED
      BY <2>1, <3>1, <3>2, KeepScreen DEF CallInv
  <2> QED
    BY <2>2, <2>3, <2>4 DEF CallInv
<1>2. CASE \E s \in Session : GoesOn(s)
  BY <1>2, HeardKeeps
<1>3. CASE \E f \in Flow, role \in Role : Place(f, role)
  BY <1>3, PlaceKeeps
<1>4. CASE \E f \in Flow : Step(f)
  BY <1>4, AskedKeeps, FailuresKeep, MediaReadyKeeps, ConnectsKeeps, IncomingKeep
  DEF Step
<1>5. CASE \E f \in Flow, c \in Call : Push(f, c)
  BY <1>5, IncomingKeep
<1>6. CASE \E f \in Flow : Accept(f)
  BY <1>6, AcceptKeeps
<1>7. CASE Decline \/ Hangup \/ Dismiss
  BY <1>7, DeclineKeeps, HangupKeeps
<1>8. CASE \E x \in Session \union {Always} : Timer(x)
  BY <1>8, TimerKeeps
<1>9. CASE \E s \in Session :
            \/ Connection(s) \/ GoesOn(s) \/ Activate(s)
            \/ Signal(s) \/ SignalEnds(s)
            \/ RemoteEnd(s) \/ ChannelLost(s) \/ HangEnds(s)
  BY <1>9, HeardKeeps, RemoteEndKeeps, HangEndsKeeps
<1> QED
  BY <1>1, <1>2, <1>3, <1>4, <1>5, <1>6, <1>7, <1>8, <1>9 DEF Next

\* The inductive invariant: the types; what a session has on and who begins
\* it (begin and destroy of a session); which session is the active one and
\* what the screen says while operations, timers and messages cross
\* (CallService.js).
THEOREM CallInvariant == Spec => []CallInv
<1> QED
  BY CallInit, CallNext, PTL DEF Spec

\* A session that is destroyed has no microphone, no channel and no peer
\* connection on, in whatever order destroy, begin and the handlers of its
\* channel come; but for those destroyed before begin had their microphone.
THEOREM DestroyedStaysOff == Spec => []DestroyedIsOff
<1>1. CallInv => DestroyedIsOff
  BY DEF CallInv, SessionsInv, Off, DestroyedIsOff
<1> QED
  BY <1>1, CallInvariant, PTL

\* However many sessions there were, one is in use: each other one is over or
\* telling its other end that it hangs up (placeAudioCall, acceptIncoming,
\* hangup).
THEOREM OthersEnd == Spec => []OthersAreOver
<1>1. CallInv => OthersAreOver
  BY DEF CallInv, ScreenInv
<1> QED
  BY <1>1, CallInvariant, PTL

\* The call in progress has its screen (stores/calls.js), whatever ends
\* elsewhere, unless a timer of the call before came due.
THEOREM CallIsShown == Spec => []ShownWhileLive
<1>1. CallInv => ShownWhileLive
  BY DEF CallInv, ScreenInv
<1> QED
  BY <1>1, CallInvariant, PTL

\* The screen of a call without a call comes only from a session that was
\* destroyed in the middle of begin or of a handler.
THEOREM ShownIsCall == Spec => []NoGhostScreen
<1>1. CallInv => NoGhostScreen
  BY DEF CallInv, ScreenInv
<1> QED
  BY <1>1, CallInvariant, PTL

\* The screen that says that the call ends has a timer or a session that will
\* reset it, unless somebody hangs up what is over or something ends behind
\* the active session (destroy, hangup, dismissIncomingCall).
THEOREM EndingIsReset == Spec => []EndingEnds
<1>1. CallInv => EndingEnds
  BY DEF CallInv, ScreenInv
<1> QED
  BY <1>1, CallInvariant, PTL
=============================================================================
