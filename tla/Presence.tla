------------------------------ MODULE Presence ------------------------------
(***************************************************************************)
(* Staying connected on Android (apps/android): the shell counts the       *)
(* networks that are registered and reports every change; the plugin turns *)
(* a count into a foreground service that starts, is told, or stops; and   *)
(* the platform freezes or reclaims a process in the back that has none.   *)
(*                                                                         *)
(* Reports reach the plugin in the order they were made. The platform      *)
(* refuses no start of a service that runs, nor any from the front.        *)
(***************************************************************************)
EXTENDS Naturals, FiniteSets, Sequences, SequencesExt

CONSTANTS
    Networks,
    MaxChanges, \* bound on how often a network changes its phase
    MaxMoves    \* bound on what the user and the platform do with the app

ASSUME PresenceAssumption == IsFiniteSet(Networks) /\ MaxChanges \in Nat /\ MaxMoves \in Nat

VARIABLES
    phase,      \* the network's, as the session publishes it
    reported,   \* the count the effect last ran for
    asked,      \* askedToNotify
    calls,      \* the counts on their way to the plugin
    service,    \* none, started, or foreground
    starts,     \* the counts onStartCommand has still to be given
    notice,     \* what the ongoing notification says; 0 when none is seen
    permission, \* to post notifications
    asking,     \* the user is being asked for it
    front,      \* the activity is the one in front
    process,
    held,       \* the service ran for a network that has been there since
    changes, moves

shell == <<reported, asked, calls>>
android == <<service, starts, notice>>
rights == <<permission, asking>>
vars == <<phase, shell, android, rights, front, process, held, changes, moves>>

Never == Cardinality(Networks) + 1

Counted(p) == Cardinality({n \in Networks : p[n] = "registered"})
Count == Counted(phase)

Running == process = "running"

\* Nothing is on its way from a change to the notification.
Settled == Running /\ reported = Count /\ calls = <<>> /\ starts = <<>>

\* What the ghost held becomes, unless the platform ends it.
Tracks == held' = (Count' > 0 /\ (held \/ (Settled' /\ service' = "foreground")))

----------------------------------------------------------------------------
(* The shell, over the sessions.                                           *)

Changes(n, from, to) ==
    /\ Running /\ changes < MaxChanges /\ phase[n] \in from
    /\ phase' = [phase EXCEPT ![n] = to]
    /\ changes' = changes + 1
    /\ UNCHANGED <<shell, android, rights, front, process, moves>>
    /\ Tracks

\* The user has a network dialled.
Connects(n) == front /\ Changes(n, {"disconnected"}, "connecting")

\* Its server welcomes it.
Registers(n) == Changes(n, {"connecting"}, "registered")

\* The connection drops and is retried, in the back as well.
Drops(n) == Changes(n, {"registered"}, "connecting")

\* The user disconnects.
Disconnects(n) == front /\ Changes(n, {"connecting", "registered"}, "disconnected")

Reports_Connections ==
    /\ Running /\ reported # Count
    /\ reported' = Count
    /\ asked' = (asked \/ Count > 0)
    /\ asking' = (asking \/ (Count > 0 /\ ~asked /\ permission # "granted"))
    /\ calls' = IF Count = 0 \/ reported \in {0, Never} THEN Append(calls, Count) ELSE calls
    /\ UNCHANGED <<phase, android, permission, front, process, changes, moves>>
    /\ Tracks

Reports_Once ==
    /\ Running /\ reported # Count
    /\ reported' = Count
    /\ asked' = (asked \/ Count > 0)
    /\ asking' = (asking \/ (Count > 0 /\ ~asked /\ permission # "granted"))
    /\ calls' = IF asked /\ Count > 0 THEN calls ELSE Append(calls, Count)
    /\ UNCHANGED <<phase, android, permission, front, process, changes, moves>>
    /\ Tracks

\* The effect on connectedCount, on mounting and whenever a render finds it
\* changed: the permission is asked for with the first connection of a launch,
\* and the count is passed on without waiting for the answer.
Reports ==
    /\ Running /\ reported # Count
    /\ reported' = Count
    /\ asked' = (asked \/ Count > 0)
    /\ asking' = (asking \/ (Count > 0 /\ ~asked /\ permission # "granted"))
    /\ calls' = Append(calls, Count)
    /\ UNCHANGED <<phase, android, permission, front, process, changes, moves>>
    /\ Tracks

Answers(answer) ==
    /\ Running /\ front /\ asking
    /\ permission' = answer
    /\ asking' = FALSE
    /\ UNCHANGED <<phase, shell, android, front, process, changes, moves>>
    /\ Tracks

----------------------------------------------------------------------------
(* The plugin and its service.                                             *)

Call == Running /\ calls # <<>> /\ calls' = Tail(calls)

\* startForegroundService(), which the platform may refuse in the back.
Starts ==
    /\ Call /\ Head(calls) > 0
    /\ \/ /\ service' = IF service = "none" THEN "started" ELSE service
          /\ starts' = Append(starts, Head(calls))
       \/ ~front /\ service = "none" /\ UNCHANGED <<service, starts>>
    /\ UNCHANGED <<phase, reported, asked, notice, rights, front, process, changes, moves>>
    /\ Tracks

NoService == service' = "none" /\ starts' = <<>> /\ notice' = 0

\* stopService()
Stops ==
    /\ Call /\ Head(calls) = 0
    /\ NoService
    /\ UNCHANGED <<phase, reported, asked, rights, front, process, changes, moves>>
    /\ Tracks

Hold_Restarts ==
    \/ Stops
    \/ /\ Call /\ Head(calls) > 0
       /\ notice' = 0
       /\ \/ service' = "started" /\ starts' = <<Head(calls)>>
          \/ ~front /\ service' = "none" /\ starts' = <<>>
       /\ UNCHANGED <<phase, reported, asked, rights, front, process, changes, moves>>
       /\ Tracks

\* hold(): a count above zero starts the service or tells it, zero stops it.
Hold == Starts \/ Stops

\* onStartCommand(): the notification is posted, and dropped by the platform
\* without the permission.
OnStartCommand ==
    /\ Running /\ starts # <<>>
    /\ starts' = Tail(starts)
    /\ service' = "foreground"
    /\ notice' = IF permission = "granted" THEN Head(starts) ELSE 0
    /\ UNCHANGED <<phase, shell, rights, front, process, changes, moves>>
    /\ Tracks

----------------------------------------------------------------------------
(* The platform and the user.                                              *)

Move == moves < MaxMoves /\ moves' = moves + 1

Leaves ==
    /\ Move /\ Running /\ front
    /\ front' = FALSE
    /\ UNCHANGED <<phase, shell, android, rights, process, changes>>
    /\ Tracks

\* Going back to the application thaws it, and changes nothing in it.
ComesBack ==
    /\ process \in {"running", "frozen"} /\ ~front
    /\ front' = TRUE
    /\ process' = "running"
    /\ UNCHANGED <<phase, shell, android, rights, changes, moves>>
    /\ Tracks

\* A process in the back is frozen when no service runs in it.
Freezes ==
    /\ Running /\ ~front /\ service = "none"
    /\ process' = "frozen"
    /\ UNCHANGED <<phase, shell, android, rights, front, changes, moves>>
    /\ Tracks

\* Memory pressure or a battery saver stops the service alone.
ServiceStopped ==
    /\ Move /\ Running /\ service # "none"
    /\ NoService
    /\ held' = FALSE
    /\ UNCHANGED <<phase, shell, rights, front, process, changes>>

Gone ==
    /\ process' = "gone"
    /\ phase' = [n \in Networks |-> "disconnected"]
    /\ reported' = Never /\ asked' = FALSE /\ calls' = <<>> /\ asking' = FALSE
    /\ held' = FALSE

Reclaimed_Redelivers ==
    /\ Move /\ process # "gone" /\ ~front
    /\ Gone
    /\ UNCHANGED <<android, permission, front, changes>>

\* The process goes, and the connections with it; START_NOT_STICKY keeps the
\* service from being started again without them.
Reclaimed ==
    /\ Move /\ process # "gone" /\ ~front
    /\ Gone
    /\ NoService
    /\ UNCHANGED <<permission, front, changes>>

\* A launch restores the networks and dials none.
Launches ==
    /\ process = "gone"
    /\ process' = "running" /\ front' = TRUE
    /\ UNCHANGED <<phase, shell, android, rights, held, changes, moves>>

Init ==
    /\ phase = [n \in Networks |-> "disconnected"]
    /\ reported = Never /\ asked = FALSE /\ calls = <<>>
    /\ service = "none" /\ starts = <<>> /\ notice = 0
    /\ permission = "unknown" /\ asking = FALSE
    /\ front = TRUE /\ process = "running"
    /\ held = FALSE /\ changes = 0 /\ moves = 0

App == Reports \/ Hold \/ OnStartCommand

Next ==
    \/ App
    \/ \E n \in Networks : Connects(n) \/ Registers(n) \/ Drops(n) \/ Disconnects(n)
    \/ \E answer \in {"granted", "denied"} : Answers(answer)
    \/ Leaves \/ ComesBack \/ Freezes \/ ServiceStopped \/ Reclaimed \/ Launches

\* A render, the bridge and the main thread of a process that runs get their
\* turn. Nothing is assumed of the user, the platform or the servers.
Spec == Init /\ [][Next]_vars /\ WF_vars(App)

----------------------------------------------------------------------------
TypeOK ==
    /\ phase \in [Networks -> {"disconnected", "connecting", "registered"}]
    /\ reported \in 0..Never /\ asked \in BOOLEAN
    /\ ToSet(calls) \subseteq 0..Cardinality(Networks)
    /\ ToSet(starts) \subseteq 1..Cardinality(Networks)
    /\ service \in {"none", "started", "foreground"}
    /\ notice \in 0..Cardinality(Networks)
    /\ permission \in {"unknown", "granted", "denied"} /\ asking \in BOOLEAN
    /\ front \in BOOLEAN /\ held \in BOOLEAN
    /\ process \in {"running", "frozen", "gone"}

\* The notification claims nothing that is not so: it is there only while a
\* service runs in a process that runs, and once everything under way has
\* arrived it counts the networks registered (ConnectionService.kt, on not
\* being sticky; connection.ts, on its being honest either way).
NoticeTrue ==
    /\ TypeOK
    /\ notice > 0 => Running /\ service = "foreground"
    /\ Settled => notice \in {0, Count}

\* A connection that was held when the application left the screen is held for
\* as long as some network stays registered: networks that drop, return or
\* join meanwhile neither stop the service nor leave the process to be frozen,
\* which only the platform may do (connection.ts and onConnectionsChanged, on
\* why a connection has to be declared).
StaysHeld == held => Running /\ service = "foreground"

\* While the application is in front and nobody does anything with it, a count
\* on its way comes to be what the service is about, whatever the networks do
\* meanwhile: it runs when some are registered and is gone when none are.
HeldInFront ==
    \A m \in 0..MaxMoves :
        (Running /\ front /\ calls # <<>> /\ moves = m)
            ~> (moves # m \/ (Settled /\ (service = "foreground" <=> Count > 0)))

=============================================================================
