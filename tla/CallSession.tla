----------------------------- MODULE CallSession -----------------------------
(***************************************************************************)
(* Calls (services/CallService.js): the service with its one active        *)
(* session, the incoming call that waits for an answer, the call screen    *)
(* (stores/calls.js), and the sessions with their microphone, their voice  *)
(* channel and their peer connection.  Every operation runs until it       *)
(* awaits something; then others run, and it goes on with what it held.    *)
(*                                                                         *)
(* Left out: what is said over the channels, video, screen, tones, and the *)
(* secure mode (E2EHandshake has its handshake).                           *)
(***************************************************************************)
EXTENDS Naturals, FiniteSets

CONSTANTS
    Session,   \* bound: the sessions there can be, numbers from 1
    Flow,      \* operations that are under way at once
    Call,      \* incoming calls
    Role,      \* of the calls that the user begins
    None

ASSUME Assumptions ==
    /\ Session \subseteq Nat \ {0}
    /\ Role \subseteq {"originator", "joiner"}
    /\ None \notin Session /\ None \notin Call
    /\ None \notin {"originator", "joiner", "responder"}

VARIABLES
    active,    \* _activeSession
    pending,   \* _pendingIncoming
    screen,    \* the phase of activeCall
    session,   \* session[s]: a MaxCallSession
    flow,      \* flow[f]: an operation of CallService
    timers,    \* resets of the screen in 320 ms: of a session, or of all
    \* History variables, which no action looks at:
    pushed,    \* incoming calls that were announced
    early,     \* sessions destroyed while they waited for the microphone
    upset      \* what happened that the promises make an exception for

vars == <<active, pending, screen, session, flow, timers, pushed, early, upset>>

Unborn == [role |-> None, destroyed |-> FALSE, media |-> FALSE,
           channel |-> "none", peer |-> FALSE, accepting |-> FALSE,
           signalling |-> FALSE, hanging |-> FALSE]
Idle == [at |-> "idle"]
Always == 0

TypeOK ==
    /\ active \in Session \union {None}
    /\ pending \in Call \union {None}
    /\ screen \in {"idle", "connecting", "outgoing", "incoming", "active", "ending"}
    /\ session \in [Session ->
            [role : {"originator", "responder", "joiner", None},
             destroyed : BOOLEAN, media : BOOLEAN,
             channel : {"none", "connecting", "open", "lost", "closed"},
             peer : BOOLEAN, accepting : BOOLEAN, signalling : BOOLEAN,
             hanging : BOOLEAN]]
    /\ flow \in [Flow ->
            {Idle} \union
            [at : {"asking"}, role : {"originator", "joiner"}] \union
            [at : {"decoding"}, of : Call] \union
            [at : {"media", "connect", "failing"}, session : Session]]
    /\ timers \subseteq Session \union {Always}
    /\ pushed \subseteq Call
    /\ early \subseteq Session
    /\ upset \subseteq {"overlap", "timer", "midway", "late", "behind"}

Init ==
    /\ active = None
    /\ pending = None
    /\ screen = "idle"
    /\ session = [s \in Session |-> Unborn]
    /\ flow = [f \in Flow |-> Idle]
    /\ timers = {}
    /\ pushed = {}
    /\ early = {}
    /\ upset = {}

Live(s) == s # None /\ session[s].role # None /\ ~session[s].destroyed
Calling(f) == flow[f].at \in {"asking", "media", "connect", "failing"}

-----------------------------------------------------------------------------
(* destroy of a session *)

\* Mutant of Gone: the channel is not closed.
GoneButHeard(r) ==
    [r EXCEPT !.destroyed = TRUE, !.media = FALSE, !.peer = FALSE,
              !.hanging = FALSE]

\* What destroy leaves: a channel that does not exist yet is not closed.
Gone(r) ==
    [r EXCEPT !.destroyed = TRUE, !.media = FALSE, !.peer = FALSE,
              !.hanging = FALSE,
              !.channel = IF @ = "none" THEN "none" ELSE "closed"]

Destroyed(s) == IF Live(s) THEN [session EXCEPT ![s] = Gone(@)] ELSE session

\* The history after s is destroyed; `more' is added to upset.
Notes(s, more) ==
    /\ early' = IF Live(s) /\ session[s].channel = "none"
                THEN early \union {s} ELSE early
    /\ upset' = upset \union more \union
            (IF Live(s) /\ (session[s].accepting \/ session[s].signalling)
             THEN {"midway"} ELSE {})

\* destroy(), which also resets the screen after a while
Resets(s) == timers' = IF Live(s) THEN timers \union {s} ELSE timers

\* A session that is not the active one says that the call ends.
Behind(s) ==
    IF /\ Live(s)
       /\ active \notin {s, None} \/ \E f \in Flow : flow[f].at = "asking"
    THEN {"behind"} ELSE {}

Crossing == IF \E f \in Flow : Calling(f) THEN {"overlap"} ELSE {}

-----------------------------------------------------------------------------
(* Outgoing calls and conferences *)

\* Mutant of Place: the session of the call before goes on.
PlaceAlong(f, role) ==
    /\ flow[f] = Idle
    /\ active' = None
    /\ screen' = IF role = "originator" THEN "connecting" ELSE "active"
    /\ flow' = [flow EXCEPT ![f] = [at |-> "asking", role |-> role]]
    /\ upset' = upset \union Crossing
    /\ UNCHANGED <<session, early, pending, timers, pushed>>

\* placeAudioCall, placeVideoCall, joinConferenceByLink: the session before
\* is destroyed, and the server is asked.
Place(f, role) ==
    /\ flow[f] = Idle
    /\ session' = Destroyed(active)
    /\ Notes(active, Crossing)
    /\ active' = None
    /\ screen' = IF role = "originator" THEN "connecting" ELSE "active"
    /\ flow' = [flow EXCEPT ![f] = [at |-> "asking", role |-> role]]
    /\ UNCHANGED <<pending, timers, pushed>>

\* A session of that role begins, and becomes the active one.
Starts(f, role) ==
    \E s \in Session :
        /\ session[s] = Unborn
        /\ \A r \in Session : r < s => session[r] # Unborn
        /\ session' = [session EXCEPT ![s].role = role]
        /\ active' = s
        /\ flow' = [flow EXCEPT ![f] = [at |-> "media", session |-> s]]

\* The server has answered with an endpoint: the session begins, whatever
\* has happened meanwhile.
Asked(f) ==
    /\ flow[f].at = "asking"
    /\ Starts(f, flow[f].role)
    /\ UNCHANGED <<pending, screen, timers, pushed, early, upset>>

\* Mutant of Fails: the screen is left as it is.
FailsSilently(f, s) ==
    /\ flow' = [flow EXCEPT ![f] = Idle]
    /\ session' = Destroyed(s)
    /\ Notes(s, {})
    /\ active' = None
    /\ UNCHANGED <<screen, timers>>

\* The operation has failed: the session `s' hangs up, and if it can tell the
\* other end, the operation waits for that.
Fails(f, s) ==
    IF s # None /\ session[s].channel = "open"
    THEN /\ flow' = [flow EXCEPT ![f] = [at |-> "failing", session |-> s]]
         /\ UNCHANGED <<session, active, screen, timers, early, upset>>
    ELSE /\ flow' = [flow EXCEPT ![f] = Idle]
         /\ session' = Destroyed(s)
         /\ Resets(s)
         /\ Notes(s, {})
         /\ active' = None
         /\ screen' = "idle"

\* The server refuses.  The session that hangs up is the active one.
AskFails(f) ==
    /\ flow[f].at = "asking"
    /\ Fails(f, active)
    /\ UNCHANGED <<pending, pushed>>

FailEnds(f) ==
    /\ flow[f].at = "failing"
    /\ flow' = [flow EXCEPT ![f] = Idle]
    /\ session' = Destroyed(flow[f].session)
    /\ Resets(flow[f].session)
    /\ Notes(flow[f].session, {})
    /\ active' = None
    /\ screen' = "idle"
    /\ UNCHANGED <<pending, pushed>>

-----------------------------------------------------------------------------
(* begin of a session *)

\* The microphone is there, and the voice channel is opened: begin does not
\* look whether the session was destroyed.
MediaReady(f) ==
    /\ flow[f].at = "media"
    /\ session' = [session EXCEPT ![flow[f].session].media = TRUE,
                                  ![flow[f].session].channel = "connecting"]
    /\ flow' = [flow EXCEPT ![f].at = "connect"]
    /\ UNCHANGED <<active, pending, screen, timers, pushed,
                   early, upset>>

Connects(f) ==
    /\ flow[f].at = "connect"
    /\ session[flow[f].session].channel = "connecting"
    /\ session' = [session EXCEPT ![flow[f].session].channel = "open"]
    /\ flow' = [flow EXCEPT ![f] = Idle]
    /\ UNCHANGED <<active, pending, screen, timers, pushed,
                   early, upset>>

\* The channel cannot be opened, in ten seconds, or is closed by destroy.  An
\* answered call hangs up its own session, any other the active one.
ConnectFails(f) ==
    LET s == flow[f].session IN
    /\ flow[f].at = "connect"
    /\ Fails(f, IF session[s].role = "responder" THEN s ELSE active)
    /\ UNCHANGED <<pending, pushed>>

-----------------------------------------------------------------------------
(* Incoming calls *)

\* handleIncomingPush decodes the call and looks for the contact ...
Push(f, c) ==
    /\ flow[f] = Idle /\ c \notin pushed
    /\ pushed' = pushed \union {c}
    /\ flow' = [flow EXCEPT ![f] = [at |-> "decoding", of |-> c]]
    /\ UNCHANGED <<active, pending, screen, session, timers,
                   early, upset>>

\* ... and shows it, over whatever was there.
Show(f) ==
    /\ flow[f].at = "decoding"
    /\ pending' = flow[f].of
    /\ screen' = "incoming"
    /\ flow' = [flow EXCEPT ![f] = Idle]
    /\ UNCHANGED <<active, session, timers, pushed, early, upset>>

\* It has no endpoint.
Discard(f) ==
    /\ flow[f].at = "decoding"
    /\ flow' = [flow EXCEPT ![f] = Idle]
    /\ UNCHANGED <<active, pending, screen, session, timers, pushed, early, upset>>

\* acceptIncoming: the active session is destroyed and a new one begins.
Accept(f) ==
    /\ flow[f] = Idle /\ pending # None
    /\ pending' = None
    /\ screen' = "connecting"
    /\ \E s \in Session :
        /\ session[s] = Unborn
        /\ \A r \in Session : r < s => session[r] # Unborn
        /\ session' = [Destroyed(active) EXCEPT ![s].role = "responder"]
        /\ active' = s
        /\ flow' = [flow EXCEPT ![f] = [at |-> "media", session |-> s]]
    /\ Notes(active, Crossing)
    /\ UNCHANGED <<timers, pushed>>

\* declineIncoming ends the active session too.
Decline ==
    /\ pending # None
    /\ pending' = None
    /\ session' = Destroyed(active)
    /\ active' = None
    /\ screen' = "ending"
    /\ timers' = timers \union {Always} \union
            (IF Live(active) /\ session[active].channel # "open" THEN {active}
             ELSE {})
    /\ Notes(active, Crossing)
    /\ UNCHANGED <<flow, pushed>>

\* dismissIncomingCall: a call has finished, an incoming one or any other of
\* which a message tells; the active session is destroyed too.
Dismiss ==
    /\ pending' = None
    /\ session' = Destroyed(active)
    /\ active' = None
    /\ screen' = "idle"
    /\ Notes(active, Crossing)
    /\ UNCHANGED <<timers, flow, pushed>>

-----------------------------------------------------------------------------
(* The end of a call *)

\* hangup by the user or from the notification, which may come late: then the
\* session is not there to reset the screen.
Hangup ==
    /\ screen # "idle" \/ active # None
    /\ pending' = None
    /\ active' = None
    /\ screen' = "ending"
    /\ IF active # None /\ session[active].channel = "open"
       THEN /\ session' = [session EXCEPT ![active].hanging = TRUE]
            /\ upset' = upset \union Crossing
            /\ UNCHANGED <<timers, early>>
       ELSE /\ session' = Destroyed(active)
            /\ timers' = CASE active = None -> timers \union {Always}
                           [] Live(active) -> timers \union {active}
                           [] OTHER -> timers
            /\ Notes(active, Crossing \union
                    (IF active # None /\ ~Live(active) THEN {"late"} ELSE {}))
    /\ UNCHANGED <<flow, pushed>>

\* The other end was told, or 600 ms have passed.
HangEnds(s) ==
    /\ session[s].hanging
    /\ session' = [Destroyed(s) EXCEPT ![s].hanging = FALSE]
    /\ screen' = IF Live(s) THEN "ending" ELSE screen
    /\ Resets(s)
    /\ Notes(s, IF Live(s) THEN Behind(s) ELSE {"late"})
    /\ UNCHANGED <<active, pending, flow, pushed>>

\* Mutant of Timer: it resets a screen that is another session's.
TimerAlways(x) ==
    /\ x \in timers
    /\ timers' = timers \ {x}
    /\ screen' = "idle"
    /\ UNCHANGED <<upset, active, pending, session, flow, pushed,
                   early>>

\* A reset of the screen comes due.
Timer(x) ==
    LET resets == x = Always \/ active \in {x, None} IN
    /\ x \in timers
    /\ timers' = timers \ {x}
    /\ screen' = IF resets THEN "idle" ELSE screen
    /\ upset' = IF /\ resets
                   /\ \/ pending # None
                      \/ Live(active)
                      \/ \E f \in Flow : Calling(f)
                THEN upset \union {"timer"} ELSE upset
    /\ UNCHANGED <<active, pending, session, flow, pushed,
                   early>>

-----------------------------------------------------------------------------
(* What comes over the voice channel of a session.  Its listeners stay as    *)
(* long as the channel is open.                                              *)

Hears(s) == session[s].channel = "open"

\* #onConnection builds the peer connection, accepts the call and waits.
Connection(s) ==
    /\ Hears(s) /\ ~session[s].peer
    /\ session' = [session EXCEPT ![s].peer = TRUE, ![s].accepting = TRUE]
    /\ UNCHANGED <<active, pending, screen, flow, timers, pushed, early, upset>>

\* It goes on, at once when destroy has closed the channel, and shows the call.
GoesOn(s) ==
    /\ session[s].accepting
    /\ session' = [session EXCEPT ![s].accepting = FALSE]
    /\ screen' = CASE session[s].role = "originator" -> "outgoing"
                   [] session[s].role = "joiner" -> "active"
                   [] session[s].role = "responder" -> screen
    /\ UNCHANGED <<active, pending, flow, timers, pushed,
                   early, upset>>

\* accepted-call, or the transport has connected: #onCallActivated
Activate(s) ==
    /\ Hears(s)
    /\ screen' = "active"
    /\ UNCHANGED <<active, pending, session, flow, timers, pushed,
                   early, upset>>

\* #processRemoteSignal builds the peer connection and applies an offer or an
\* answer, in several steps ...
Signal(s) ==
    /\ Hears(s) /\ Live(s) /\ ~session[s].signalling
    /\ session' = [session EXCEPT ![s].peer = TRUE, ![s].signalling = TRUE]
    /\ UNCHANGED <<active, pending, screen, flow, timers, pushed, early, upset>>

\* ... and activates the call, if nothing fails before.
SignalEnds(s) ==
    /\ session[s].signalling
    /\ session' = [session EXCEPT ![s].signalling = FALSE]
    /\ \/ screen' = "active"
       \/ UNCHANGED screen
    /\ UNCHANGED <<active, pending, flow, timers, pushed, early,
                   upset>>

\* Mutant of RemoteEnd: the screen is not reset.
RemoteEndQuietly(s) ==
    /\ Hears(s) /\ Live(s)
    /\ session' = Destroyed(s)
    /\ screen' = "ending"
    /\ Notes(s, {})
    /\ UNCHANGED <<active, pending, flow, timers, pushed>>

\* hungup, closed-conversation, conversation-ended, the peer has left
RemoteEnd(s) ==
    /\ Hears(s) /\ Live(s)
    /\ session' = Destroyed(s)
    /\ screen' = "ending"
    /\ Resets(s)
    /\ Notes(s, Behind(s))
    /\ UNCHANGED <<active, pending, flow, pushed>>

\* The connection of the channel breaks; the call is not ended.
ChannelLost(s) ==
    /\ Hears(s)
    /\ session' = [session EXCEPT ![s].channel = "lost"]
    /\ UNCHANGED <<active, pending, screen, flow, timers, pushed, early, upset>>

-----------------------------------------------------------------------------

\* A continuation that the end of the channel has released runs before
\* anything else.
Released(s) == session[s].accepting /\ session[s].destroyed

Step(f) ==
    \/ Asked(f) \/ AskFails(f) \/ FailEnds(f)
    \/ MediaReady(f) \/ Connects(f) \/ ConnectFails(f)
    \/ Show(f) \/ Discard(f)

Next ==
    IF \E s \in Session : Released(s)
    THEN \E s \in Session : Released(s) /\ GoesOn(s)
    ELSE
    \/ \E f \in Flow, role \in Role : Place(f, role)
    \/ \E f \in Flow : Step(f)
    \/ \E f \in Flow, c \in Call : Push(f, c)
    \/ \E f \in Flow : Accept(f)
    \/ Decline \/ Hangup \/ Dismiss
    \/ \E x \in Session \union {Always} : Timer(x)
    \/ \E s \in Session :
        \/ Connection(s) \/ GoesOn(s) \/ Activate(s)
        \/ Signal(s) \/ SignalEnds(s)
        \/ RemoteEnd(s) \/ ChannelLost(s) \/ HangEnds(s)

Spec == Init /\ [][Next]_vars

-----------------------------------------------------------------------------
(* Properties *)

\* Nothing of a session that was destroyed stays on: not the microphone, not
\* the voice channel, not the peer connection; unless it was destroyed while
\* begin waited for the microphone, which then goes on and turns them on.
DestroyedIsOff ==
    \A s \in Session \ early :
        session[s].destroyed =>
            /\ ~session[s].media /\ ~session[s].peer
            /\ session[s].channel \in {"none", "closed"}

\* A session that is neither the active one nor about to hang up is over, if
\* no two operations began calls at once.
OthersAreOver ==
    "overlap" \in upset \/
    \A s \in Session :
        Live(s) => \/ s = active
                   \/ session[s].hanging
                   \/ \E f \in Flow : flow[f].at = "failing" /\ flow[f].session = s

\* The screen of a call in progress does not disappear, unless operations
\* overlapped or a timer of the call before came due.
ShownWhileLive ==
    Live(active) /\ upset \intersect {"overlap", "timer"} = {} =>
        screen # "idle"

\* The screen shows a call only while there is one: an operation under way, a
\* session that is not destroyed, or an incoming call; unless a session was
\* destroyed in the middle of its handlers, or before its microphone was on.
NoGhostScreen ==
    /\ upset \intersect {"overlap", "midway"} = {} /\ early = {}
    /\ screen \in {"connecting", "outgoing", "active", "incoming"}
    => \/ pending # None
       \/ \E f \in Flow : Calling(f)
       \/ \E s \in Session : Live(s)

\* A screen that says that the call ends will be reset: by a timer that comes
\* due, or by the session that still tells the other end; unless somebody
\* hangs up a session that is over, a session ends behind the one that has
\* begun, or two operations begin calls at once.
EndingEnds ==
    screen = "ending" =>
        \/ \E x \in timers : x = Always \/ active \in {x, None}
        \/ \E s \in Session : session[s].hanging
        \/ upset \intersect {"late", "behind", "overlap"} # {}
=============================================================================
