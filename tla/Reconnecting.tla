--------------------------- MODULE Reconnecting ---------------------------
(***************************************************************************)
(* The reconnecting transport of packages/client/src/transport/            *)
(* reconnecting.ts over the transports it creates, one per attempt.        *)
(*                                                                         *)
(* The wrapper's own variables keep the names they have in the source.     *)
(* JavaScript runs a handler to completion, so a handler is one action,    *)
(* and the continuation of an `await` that a handler has just settled runs *)
(* before anything else: `microtask` holds it.                             *)
(*                                                                         *)
(* The kinds of transport the wrapper may be made over differ only in how  *)
(* `connect` reports:                                                      *)
(*   "plain"      connect resolves or rejects, and a close is emitted only *)
(*                after it resolved (the fake of the tests; the Tauri      *)
(*                transport when no close lands in its window)             *)
(*   "tauri"      transport/tauri.ts: the socket is open, and may close,   *)
(*                while `listen` is still being awaited                    *)
(*   "websocket"  transport/websocket.ts: a failed connect emits a close   *)
(*                and then rejects                                         *)
(***************************************************************************)
EXTENDS Integers, FiniteSets

CONSTANTS
    Transport,      \* transports; a dead one nobody refers to stands for a fresh one
    None,           \* no transport
    Servers,        \* lengths the profile's endpoint list may have
    AttemptCap,     \* `attempt` saturates here; as a limit it is "unbounded"
    Limits,         \* values of options.maxAttempts
    TimerCap,       \* this many armed retry timers or more are not told apart
    Flavours        \* kinds of transport the wrapper may be made over

ASSUME TransportAssumption == IsFiniteSet(Transport) /\ None \notin Transport
ASSUME OptionsAssumption ==
    /\ AttemptCap \in Nat /\ TimerCap \in Nat \ {0, 1}
    /\ Servers \subseteq Nat /\ Limits \subseteq 0..AttemptCap
ASSUME FlavourAssumption == Flavours \subseteq {"plain", "tauri", "websocket"}

VARIABLES
    opts,           \* the ReconnectingOptions and the flavour, fixed at creation
    kind,           \* state.kind
    dialled,        \* index of the endpoint in the last `connecting` state
    active,         \* the transport in use (its listeners are `unsubscribe`)
    armed,          \* retry timers the runtime still holds
    held,           \* `timer` still names the newest of them
    attempt, endpointIndex, stopped,
    connectedAt,    \* "none", or how long the connection has stood
    announced,      \* closes emitted to the session
    link,           \* each transport's socket and pending connect
    heard,          \* transports whose events still reach the wrapper
    microtask,      \* transport whose rejected connect is about to be caught
    online          \* the network lets a connect through

wrapper == <<kind, dialled, armed, held, attempt, endpointIndex,
             stopped, announced>>
vars == <<opts, wrapper, active, connectedAt, link, heard, microtask, online>>

(***************************************************************************)
(* "free"       no socket, nothing pending                                 *)
(* "dialing"    connect is pending, no socket yet                          *)
(* "failed"     connect has failed; its rejection is the microtask         *)
(* "listening"  Tauri: socket open, `listen` pending                       *)
(* "lost"       Tauri: socket closed in the window, event missed           *)
(* "cut"        Tauri: closed in the window and known to be, still pending *)
(* "closing"    WebSocket: close() called before it opened                 *)
(* "open"       connected                                                  *)
(* "mute"       half-open: the far end is gone and nothing says so         *)
(* "gone"       closed, and the event that said so was missed              *)
(***************************************************************************)
Links == {"free", "dialing", "failed", "listening", "lost", "cut", "closing",
          "open", "mute", "gone"}

Unbounded == AttemptCap

ListenWindow == opts.flavour = "tauri"
RejectEmits == opts.flavour = "websocket"

\* No socket, nothing pending and nobody holding on to it.
Fresh == {t \in Transport : link[t] \in {"free", "gone"} /\ t \notin heard \cup {active}}

SetLink(t, l) == link' = [link EXCEPT ![t] = l]

----------------------------------------------------------------------------
(* The wrapper's internal functions.                                       *)

\* detach(): the live transport is forgotten, and with `t` dead its events
\* no longer matter either.
Detach(t) ==
    /\ active' = None
    /\ heard' = heard \ {active, t}

CancelTimer_Unchecked == armed' = armed - 1 /\ held' = FALSE
CancelTimer_Forgets == armed' = armed /\ held' = FALSE

\* cancelTimer() clears the timer `timer` names, which is not every timer.
CancelTimer ==
    /\ armed' = IF held THEN armed - 1 ELSE armed
    /\ held' = FALSE

\* stop(), apart from its detach.
Stop ==
    /\ stopped' = TRUE
    /\ CancelTimer
    /\ kind' = "stopped"
    /\ announced' = announced + 1

NextEndpoint_Same(e) == e

\* The endpoint after `e`, wrapping around.
NextEndpoint(e) == IF opts.servers = 0 THEN 0 ELSE (e + 1) % opts.servers

ScheduleRetry_Silent(a, e) ==
    /\ attempt' = IF a < AttemptCap THEN a + 1 ELSE a
    /\ endpointIndex' = NextEndpoint(e)
    /\ armed' = IF armed < TimerCap THEN armed + 1 ELSE armed
    /\ held' = TRUE
    /\ UNCHANGED <<kind, stopped, announced>>

\* scheduleRetry(), from `a` attempts and endpoint index `e`.
ScheduleRetry(a, e) ==
    /\ attempt' = IF a < AttemptCap THEN a + 1 ELSE a
    /\ \/ /\ opts.limit # Unbounded /\ a + 1 > opts.limit
          /\ Stop
          /\ endpointIndex' = e
       \/ /\ opts.limit = Unbounded \/ a + 1 <= opts.limit
          /\ endpointIndex' = NextEndpoint(e)
          /\ kind' = "waiting"
          /\ armed' = IF armed < TimerCap THEN armed + 1 ELSE armed
          /\ held' = TRUE
          /\ UNCHANGED <<stopped, announced>>

StopOrRetry_Again(permanent, a, e) ==
    \/ /\ ~opts.autoReconnect \/ permanent
       /\ Stop
       /\ attempt' = a /\ endpointIndex' = e
    \/ /\ opts.autoReconnect /\ ~permanent
       /\ ScheduleRetry(a, e)

\* The tail handleClose and the catch of attemptConnect share.
StopOrRetry(permanent, a, e) ==
    \/ /\ stopped
       /\ attempt' = a /\ endpointIndex' = e
       /\ UNCHANGED <<kind, armed, held, stopped, announced>>
    \/ /\ ~stopped
       /\ ~opts.autoReconnect \/ permanent
       /\ Stop
       /\ attempt' = a /\ endpointIndex' = e
    \/ /\ ~stopped
       /\ opts.autoReconnect /\ ~permanent
       /\ ScheduleRetry(a, e)

Rested_Always(n) == IF connectedAt # "none" THEN 0 ELSE n

\* A connection that stood for STABLE_CONNECTION_MS earns a fresh round.
Rested(n) == IF connectedAt = "stable" THEN 0 ELSE n

\* handleClose(), on a close of `t`.
HandleClose(t, permanent) ==
    /\ Detach(t)
    /\ connectedAt' = "none"
    /\ StopOrRetry(permanent, Rested(attempt), Rested(endpointIndex))
    /\ UNCHANGED dialled

\* The catch of attemptConnect(), on a rejection of `t`'s connect.
Rejected(t, permanent) ==
    /\ Detach(t)
    /\ StopOrRetry(permanent, attempt, endpointIndex)
    /\ UNCHANGED <<dialled, connectedAt>>

AttemptConnect_Unguarded ==
    /\ endpointIndex < opts.servers
    /\ \E t \in Fresh : active' = t /\ heard' = heard \cup {t} /\ SetLink(t, "dialing")
    /\ kind' = "connecting" /\ dialled' = endpointIndex
    /\ UNCHANGED <<attempt, endpointIndex, stopped, connectedAt, announced>>

\* attemptConnect() up to its await, with a server to try.
AttemptConnect ==
    /\ ~stopped
    /\ endpointIndex < opts.servers
    /\ \E t \in Fresh :
          /\ active' = t
          /\ heard' = heard \cup {t}
          /\ SetLink(t, "dialing")
    /\ kind' = "connecting"
    /\ dialled' = endpointIndex
    /\ UNCHANGED <<attempt, endpointIndex, stopped, connectedAt, announced>>

Resolved_Unchecked(t, l) ==
    /\ connectedAt' = "fresh" /\ kind' = "connected" /\ SetLink(t, l)
    /\ UNCHANGED <<dialled, active, heard, armed, held, attempt,
                   endpointIndex, stopped, announced>>

\* attemptConnect() after its await, the connect of `t` having resolved;
\* `l` is what its socket is by then.
Resolved(t, l) ==
    \/ /\ ~stopped
       /\ connectedAt' = "fresh"
       /\ kind' = "connected"
       /\ SetLink(t, l)
       /\ UNCHANGED <<dialled, active, heard, armed, held, attempt,
                      endpointIndex, stopped, announced>>
    \/ /\ stopped
       /\ SetLink(t, "free")
       /\ IF t \in heard
             THEN HandleClose(t, TRUE)
             ELSE UNCHANGED <<wrapper, active, heard, connectedAt>>

----------------------------------------------------------------------------
(* What the session and the interface call.                                *)

\* connect(). The interface builds a new session and transport for every
\* reconnect it asks for, so it is called once, on an idle one.
Connect ==
    /\ kind = "idle"
    /\ AttemptConnect
    /\ UNCHANGED <<armed, held>>

\* connect() for a profile with no servers.
ConnectWithoutServers ==
    /\ kind = "idle" /\ opts.servers = 0
    /\ Stop
    /\ Detach(active)
    /\ UNCHANGED <<dialled, attempt, endpointIndex, connectedAt, link>>

\* retryNow(): the wait is abandoned, the attempt count kept.
RetryNow ==
    /\ kind = "waiting"
    /\ CancelTimer
    /\ AttemptConnect

AfterDisconnect_Nothing(l) == l

\* What the inner disconnect() leaves of a transport in state `l`.
AfterDisconnect(l) ==
    CASE l = "dialing" -> IF RejectEmits THEN "closing" ELSE "dialing"
      [] l \in {"listening", "lost", "cut"} -> "cut"
      [] OTHER -> "free"

\* dropped(): the keepalive says the connection is dead.
Dropped ==
    /\ ~stopped
    /\ kind = "connected"
    /\ link' = [t \in Transport |-> IF t = active THEN AfterDisconnect(link[t]) ELSE link[t]]
    /\ HandleClose(active, FALSE)

\* disconnect().
Disconnect ==
    /\ ~stopped
    /\ link' = [t \in Transport |-> IF t = active THEN AfterDisconnect(link[t]) ELSE link[t]]
    /\ Stop
    /\ Detach(active)
    /\ UNCHANGED <<dialled, attempt, endpointIndex, connectedAt>>

----------------------------------------------------------------------------
(* What the runtime and the transports call.                               *)

RetryFires_Idle ==
    /\ armed > 0
    /\ held' = FALSE /\ armed' = armed - 1
    /\ UNCHANGED <<kind, dialled, active, attempt, endpointIndex,
                   stopped, connectedAt, announced, link, heard>>

\* A retry timer fires. Any of the armed ones: they are not told apart, and
\* at TimerCap there may be as many left as before.
RetryFires ==
    /\ armed > 0
    /\ held' = FALSE
    /\ armed' \in {armed - 1} \cup (IF armed = TimerCap THEN {armed} ELSE {})
    /\ \/ AttemptConnect
       \/ /\ stopped
          /\ UNCHANGED <<kind, dialled, active, attempt, endpointIndex,
                         stopped, connectedAt, announced, link, heard>>

\* The connect of `t` fails. Only the native transport can tell a rejected
\* certificate, which is permanent, from a network that is not there.
DialFails(t, permanent) ==
    /\ link[t] = "dialing"
    /\ IF permanent THEN ~RejectEmits ELSE ~online
    /\ \/ /\ ~RejectEmits
          /\ SetLink(t, "free")
          /\ Rejected(t, permanent)
          /\ UNCHANGED microtask
       \/ /\ RejectEmits
          /\ SetLink(t, "failed")
          /\ microtask' = t
          /\ IF t \in heard
                THEN HandleClose(t, permanent)
                ELSE UNCHANGED <<wrapper, active, heard, connectedAt>>

\* WebSocket: the rejection that follows the close is caught.
RejectionCaught(t) ==
    /\ microtask = t
    /\ microtask' = None
    /\ SetLink(t, "free")
    /\ Rejected(t, FALSE)

\* WebSocket: the socket closed before it opened reports so.
ClosingRejected(t) ==
    /\ link[t] = "closing"
    /\ SetLink(t, "free")
    /\ Rejected(t, FALSE)

\* The socket opens. The Tauri transport still has to listen.
DialOpens(t) ==
    /\ link[t] = "dialing"
    /\ online
    /\ \/ /\ ListenWindow
          /\ SetLink(t, "listening")
          /\ UNCHANGED <<wrapper, active, heard, connectedAt>>
       \/ /\ ~ListenWindow
          /\ Resolved(t, "open")

\* Tauri: both listeners are registered and connect resolves.
Listened(t) ==
    \/ link[t] = "listening" /\ Resolved(t, "open")
    \/ link[t] = "lost" /\ Resolved(t, "gone")
    \/ link[t] = "cut" /\ Resolved(t, "free")

\* Tauri: the socket closes in the window, before or after the close
\* listener came into being.
ClosesInWindow(t, permanent) ==
    /\ link[t] = "listening"
    /\ \/ /\ SetLink(t, "lost")
          /\ UNCHANGED <<wrapper, active, heard, connectedAt>>
       \/ /\ SetLink(t, "cut")
          /\ IF t \in heard
                THEN HandleClose(t, permanent)
                ELSE UNCHANGED <<wrapper, active, heard, connectedAt>>

\* A connection closes and says so, a half-open one when the system gives up.
Closes(t, permanent) ==
    /\ link[t] \in {"open", "mute"}
    /\ permanent => ~RejectEmits
    /\ SetLink(t, "free")
    /\ IF t \in heard
          THEN HandleClose(t, permanent)
          ELSE UNCHANGED <<wrapper, active, heard, connectedAt>>

\* An open connection goes half-open: nothing will be said.
GoesMute(t) ==
    /\ link[t] = "open"
    /\ SetLink(t, "mute")
    /\ UNCHANGED <<wrapper, active, heard, connectedAt>>

\* STABLE_CONNECTION_MS pass.
Settles ==
    /\ connectedAt = "fresh"
    /\ connectedAt' = "stable"
    /\ UNCHANGED <<wrapper, active, heard, link>>

NetworkChanges ==
    /\ online' = ~online
    /\ UNCHANGED <<wrapper, active, connectedAt, heard, link>>

----------------------------------------------------------------------------
Init ==
    /\ opts \in [servers : Servers, limit : Limits, autoReconnect : BOOLEAN, flavour : Flavours]
    /\ kind = "idle" /\ dialled = 0
    /\ active = None /\ heard = {} /\ link = [t \in Transport |-> "free"]
    /\ armed = 0 /\ held = FALSE
    /\ attempt = 0 /\ endpointIndex = 0
    /\ stopped = FALSE /\ connectedAt = "none" /\ announced = 0
    /\ microtask = None
    /\ online \in BOOLEAN

\* A handler runs when nothing is waiting to, and changes what it names.
Run(Handler) ==
    /\ microtask = None
    /\ Handler
    /\ UNCHANGED <<opts, microtask, online>>

Fails(t) ==
    /\ microtask = None
    /\ \E permanent \in BOOLEAN : DialFails(t, permanent)
    /\ UNCHANGED <<opts, online>>

Caught(t) == RejectionCaught(t) /\ UNCHANGED <<opts, online>>

Environment ==
    /\ microtask = None
    /\ NetworkChanges
    /\ UNCHANGED <<opts, microtask>>

Next ==
    \/ Run(Connect) \/ Run(ConnectWithoutServers) \/ Run(RetryNow)
    \/ Run(Dropped) \/ Run(Disconnect)
    \/ Run(RetryFires) \/ Run(Settles)
    \/ \E t \in Transport :
          \/ Fails(t) \/ Caught(t)
          \/ Run(DialOpens(t)) \/ Run(Listened(t)) \/ Run(ClosingRejected(t))
          \/ Run(GoesMute(t))
          \/ \E permanent \in BOOLEAN :
                Run(ClosesInWindow(t, permanent)) \/ Run(Closes(t, permanent))
    \/ Environment

\* A connection that will carry nothing more and will not say so.
Silent == IF active = None THEN TRUE ELSE link[active] \in {"mute", "gone"}

\* Timers fire and microtasks run; a connect succeeds, fails or times out
\* (timeoutMs); `listen` returns; the keepalive notices a silent connection; a
\* server gives up on a client nobody listens to, which answers no PING.
Fairness ==
    /\ WF_vars(Run(RetryFires))
    /\ \A t \in Transport :
          /\ WF_vars(Caught(t))
          /\ WF_vars(Fails(t) \/ Run(DialOpens(t)))
          /\ WF_vars(Run(Listened(t)))
          /\ WF_vars(Run(ClosingRejected(t)))
          /\ WF_vars(t \notin heard /\ Run(\E permanent \in BOOLEAN : Closes(t, permanent)))
    /\ WF_vars(Silent /\ Run(Dropped))

Spec == Init /\ [][Next]_vars
FairSpec == Spec /\ Fairness

----------------------------------------------------------------------------
TypeOK ==
    /\ opts \in [servers : Servers, limit : Limits, autoReconnect : BOOLEAN, flavour : Flavours]
    /\ kind \in {"idle", "connecting", "connected", "waiting", "stopped"}
    /\ dialled \in Nat /\ endpointIndex \in Nat
    /\ active \in Transport \cup {None}
    /\ armed \in 0..TimerCap /\ held \in BOOLEAN
    /\ attempt \in 0..AttemptCap
    /\ stopped \in BOOLEAN
    /\ connectedAt \in {"none", "fresh", "stable"}
    /\ announced \in Nat
    /\ link \in [Transport -> Links]
    /\ heard \subseteq Transport
    /\ microtask \in Transport \cup {None}
    /\ online \in BOOLEAN

\* The retry the wrapper is waiting for is the only one there is, and it can
\* still be cancelled: nothing else is going to dial (scheduleRetry, 264-267).
OneRetryPending ==
    /\ kind = "waiting" => held
    /\ armed = IF kind = "waiting" THEN 1 ELSE 0

\* No socket is left behind: one that is open, or on its way to be, is the
\* one in use, or the wrapper has stopped and is waiting to close it.
NoStraySocket ==
    \A t \in Transport :
       /\ link[t] \in {"open", "mute", "gone"} => active = t /\ kind = "connected"
       /\ link[t] \in {"dialing", "listening"} =>
             (active = t /\ kind = "connecting") \/ stopped

\* "connected" is the state of somebody whose lines go somewhere: there is a
\* transport underneath and it is being listened to (setState, 320).
ConnectedCarries == kind = "connected" => active # None /\ active \in heard

\* Once stopped nothing dials again and nothing more is announced.
StoppedForGood ==
    [][stopped => kind' = "stopped" /\ announced' = announced
                  /\ \A t \in Transport : link'[t] = "dialing" => link[t] = "dialing"]_vars

\* The backoff starts over only after a connection that lasted: a server that
\* accepts and drops at once never resets it (handleClose, 274-278).
BackoffKept == [][attempt' < attempt => connectedAt = "stable"]_vars

\* When the outage ends the client comes back, or has stopped for good.
Recovers ==
    <>[]online => (kind \in {"connecting", "waiting"} ~> kind \in {"connected", "stopped"})

\* The Transport contract, of a connect that settles once and of closes that
\* come after it (shared/src/transport.ts 28-35).
KeepsContract == opts.flavour = "plain"

\* An outage that does not end is spent going round every server.
EveryServerTried ==
    \A e \in 0..2 :
       <>[](KeepsContract /\ ~online /\ e < opts.servers /\ kind \in {"connecting", "waiting"})
          => []<>(dialled = e)

Promise == INSTANCE Connector WITH kind <- kind, announced <- announced

\* To the session the wrapper is the connector it promises to be, over
\* transports that keep their contract; nothing is claimed of the others.
ClaimedKind == IF KeepsContract THEN kind ELSE "idle"
ClaimedCloses == IF KeepsContract THEN announced ELSE 0
Claim == INSTANCE Connector WITH kind <- ClaimedKind, announced <- ClaimedCloses
IsConnector == Claim!Spec

\* What the wrapper holds is all there is: one retry that can be cancelled,
\* one socket, and that one carrying when it says so (reconnecting.ts
\* 233-268, 320), over transports that keep their contract.
NothingLoose ==
    /\ TypeOK
    /\ KeepsContract => OneRetryPending /\ NoStraySocket /\ ConnectedCarries

=============================================================================
