----------------------------- MODULE Keepalive -----------------------------
(***************************************************************************)
(* Noticing a connection that died without being closed: the keepalive of  *)
(* packages/client/src/keepalive.ts, the signals of liveness.ts that make  *)
(* it ask early, and the session's wiring of both to the reconnecting      *)
(* transport (Connector).                                                  *)
(*                                                                         *)
(* Time is discrete and timers are exact: time does not pass a timer that  *)
(* is due. A suspended machine is time that passes for the wall clock and  *)
(* for nobody's timers.                                                    *)
(***************************************************************************)
EXTENDS Integers

CONSTANTS
    Idle,       \* idleMs: silence before the PING
    Timeout,    \* timeoutMs: silence after it
    TickEvery,  \* tickMs: how often the clock is looked at
    Jump,       \* jumpMs: the gap that means the machine slept
    Answer      \* the longest a server that is there takes to answer

ASSUME TimesAssumption ==
    /\ Idle \in Nat /\ Timeout \in Nat /\ TickEvery \in Nat /\ Jump \in Nat /\ Answer \in Nat
    /\ Answer < Timeout /\ TickEvery < Jump

VARIABLES
    kind, announced,    \* the transport, as the Connector promises it
    running, waiting,   \* the keepalive's own
    timer,              \* the timer `timer` names, NoTimer once it fired
    strays,             \* timers armed and no longer named by it
    toTick,             \* until the liveness tick
    elapsed,            \* wall clock since `last`, up to Jump
    far,                \* the far end: "answers", "silent" or "refuses" lines
    owed,               \* until the answer to a PING is due
    silence,            \* since anything arrived, the sleep not counted
    woken               \* since a long sleep ended, until something arrives

link == <<kind, announced>>
watch == <<running, waiting, timer, strays>>
clock == <<toTick, elapsed>>
keepaliveVars == <<link, watch, clock, far, owed, silence, woken>>

Link == INSTANCE Connector

NoTimer == [what |-> "none", left |-> 0]
NothingOwed == Answer + 1
NotWoken == -1

----------------------------------------------------------------------------
(* The keepalive's functions.                                              *)

\* schedule(): what `timer` named until now is still armed, unless it was
\* cancelled or has fired.
Schedule(what, ms, named) ==
    /\ timer' = [what |-> what, left |-> ms]
    /\ strays' = strays \cup ({named} \ {NoTimer})

\* stop().
Stop ==
    /\ running' = FALSE /\ waiting' = FALSE
    /\ timer' = NoTimer
    /\ strays' = strays

\* waitForSilence(), while running: cancel and count again.
WaitForSilence ==
    /\ waiting' = FALSE
    /\ Schedule("ask", Idle, NoTimer)

\* declareDead(): dropped() has the transport lose the connection or give
\* up, and the session hears of either and calls stop().
DeclareDead ==
    /\ Link!Lose \/ Link!Stop
    /\ Stop
    /\ owed' = NothingOwed /\ woken' = NotWoken
    /\ UNCHANGED far

Ask_Patient(named) ==
    /\ waiting' = TRUE
    /\ Schedule("dead", Idle, named)
    /\ owed' = IF far = "answers" /\ owed = NothingOwed THEN Answer ELSE owed
    /\ UNCHANGED <<link, running, far, woken>>

Ask_Hasty(named) ==
    /\ waiting' = TRUE
    /\ Schedule("dead", Answer, named)
    /\ owed' = IF far = "answers" /\ owed = NothingOwed THEN Answer ELSE owed
    /\ UNCHANGED <<link, running, far, woken>>

\* ask(). A line that cannot be sent is the answer.
Ask(named) ==
    \/ /\ far = "refuses"
       /\ DeclareDead
    \/ /\ far # "refuses"
       /\ waiting' = TRUE
       /\ Schedule("dead", Timeout, named)
       /\ owed' = IF far = "answers" /\ owed = NothingOwed THEN Answer ELSE owed
       /\ UNCHANGED <<link, running, far, woken>>

ProbeNow_Again ==
    \/ running /\ Ask(NoTimer)
    \/ ~running /\ UNCHANGED <<link, watch, far, owed, woken>>

ProbeNow_Keeps ==
    \/ running /\ ~waiting /\ Ask(timer)
    \/ ~(running /\ ~waiting) /\ UNCHANGED <<link, watch, far, owed, woken>>

\* probeNow(): not when a question is outstanding.
ProbeNow ==
    \/ /\ running /\ ~waiting
       /\ Ask(NoTimer)
    \/ /\ ~running \/ waiting
       /\ UNCHANGED <<link, watch, far, owed, woken>>

\* A connection that is lost, and its wait cut short, in one handler.
Redials ==
    /\ kind = "connected" /\ kind' = "connecting"
    /\ UNCHANGED announced

\* onSuspicion(): ask now, and do not sit out a wait for the next attempt,
\* not even the one that asking down a dead socket has just brought about.
Suspect ==
    \/ /\ kind = "waiting"
       /\ Link!Dial
       /\ UNCHANGED <<watch, far, owed, woken>>
    \/ /\ running /\ ~waiting /\ far = "refuses"
       /\ Redials \/ Link!Stop
       /\ Stop
       /\ owed' = NothingOwed /\ woken' = NotWoken
       /\ UNCHANGED far
    \/ /\ kind # "waiting"
       /\ ~(running /\ ~waiting /\ far = "refuses")
       /\ ProbeNow

----------------------------------------------------------------------------
(* The transport, as the session follows it.                               *)

\* An attempt begins; onStateChange stops a watch that is not running.
Dials ==
    /\ Link!Dial
    /\ Stop
    /\ UNCHANGED <<clock, far, owed, silence, woken>>

\* A connection, behind which there may be nothing: start().
Opens ==
    /\ Link!Open
    /\ running' = TRUE
    /\ WaitForSilence
    /\ far' \in {"answers", "silent"} /\ owed' = NothingOwed
    /\ silence' = 0 /\ woken' = NotWoken
    /\ UNCHANGED clock

\* The transport announces a close, or an end to the connection it retries.
Closes ==
    /\ Link!Lose \/ Link!Stop
    /\ Stop
    /\ owed' = NothingOwed /\ woken' = NotWoken
    /\ UNCHANGED <<clock, far, silence>>

\* A line, whichever it is: start() and noteActivity().
LineArrives ==
    /\ kind = "connected" /\ far = "answers"
    /\ running' = TRUE
    /\ WaitForSilence
    /\ owed' = NothingOwed /\ silence' = 0 /\ woken' = NotWoken
    /\ UNCHANGED <<link, clock, far>>

\* The far end goes away, or the socket under the transport does.
FarEndGoes ==
    /\ kind = "connected" /\ far = "answers"
    /\ far' \in {"silent", "refuses"}
    /\ owed' = NothingOwed
    /\ UNCHANGED <<link, watch, clock, silence, woken>>

----------------------------------------------------------------------------
(* Timers and the signals of liveness.ts.                                  *)

\* The handler of a timer that is due; `named` is what `timer` names then.
Fires(what, named) ==
    \/ what = "ask" /\ running /\ Ask(named)
    \/ what = "dead" /\ running /\ DeclareDead
    \/ ~running /\ UNCHANGED <<link, watch, far, owed, woken>>

TimerFires ==
    /\ timer # NoTimer /\ timer.left = 0
    /\ Fires(timer.what, NoTimer)
    /\ UNCHANGED <<clock, silence>>

Tick_Sound ==
    /\ toTick = 0
    /\ toTick' = TickEvery /\ elapsed' = 0
    /\ UNCHANGED <<link, watch, far, owed, woken, silence>>

\* The liveness tick, which finds out that the machine was asleep.
Tick ==
    /\ toTick = 0
    /\ toTick' = TickEvery /\ elapsed' = 0
    /\ \/ elapsed >= Jump /\ Suspect
       \/ elapsed < Jump /\ UNCHANGED <<link, watch, far, owed, woken>>
    /\ UNCHANGED silence

\* The network changes or the window comes to the front.
GroundMoves ==
    /\ elapsed' = 0
    /\ Suspect
    /\ UNCHANGED <<toTick, silence>>

Later(t) == [t EXCEPT !.left = @ - 1]

\* Time passes, up to the next thing that is due.
TimePasses ==
    /\ timer = NoTimer \/ timer.left > 0
    /\ strays = {}
    /\ toTick > 0 /\ owed > 0
    /\ timer' = IF timer = NoTimer THEN NoTimer ELSE Later(timer)
    /\ toTick' = toTick - 1
    /\ elapsed' = IF elapsed < Jump THEN elapsed + 1 ELSE elapsed
    /\ owed' = IF owed = NothingOwed THEN owed ELSE owed - 1
    /\ silence' = IF running THEN silence + 1 ELSE silence
    /\ woken' = IF woken = NotWoken THEN woken ELSE woken + 1
    /\ UNCHANGED <<link, running, waiting, strays, far>>

\* The machine sleeps, for as long as it takes to be noticed.
Sleeps ==
    /\ elapsed' = Jump
    /\ woken' = IF kind = "connected" THEN 0 ELSE NotWoken
    /\ UNCHANGED <<link, watch, toTick, far, owed, silence>>

----------------------------------------------------------------------------
KeepaliveInit ==
    /\ Link!Init
    /\ running = FALSE /\ waiting = FALSE /\ timer = NoTimer /\ strays = {}
    /\ toTick = TickEvery /\ elapsed = 0
    /\ far = "answers" /\ owed = NothingOwed /\ silence = 0 /\ woken = NotWoken

KeepaliveNext ==
    \/ Dials \/ Opens \/ Closes \/ LineArrives \/ FarEndGoes
    \/ TimerFires \/ Tick \/ GroundMoves \/ TimePasses \/ Sleeps

KeepaliveSpec == KeepaliveInit /\ [][KeepaliveNext]_keepaliveVars

----------------------------------------------------------------------------
Timers == {NoTimer} \cup [what : {"ask"}, left : 0..Idle] \cup [what : {"dead"}, left : 0..Timeout]

KeepaliveTypeOK ==
    /\ kind \in {"idle", "connecting", "connected", "waiting", "stopped"}
    /\ announced \in Nat
    /\ running \in BOOLEAN /\ waiting \in BOOLEAN
    /\ timer \in Timers /\ strays \subseteq Timers
    /\ toTick \in 0..TickEvery /\ elapsed \in 0..Jump
    /\ far \in {"answers", "silent", "refuses"}
    /\ owed \in 0..NothingOwed /\ silence \in Nat
    /\ woken \in Nat \cup {NotWoken}

\* A connection is watched as long as it stands and no longer (session.ts
\* 797-798, 821-850, 713), by one timer that is still the one to cancel.
WatchedByOneTimer ==
    /\ running <=> kind = "connected"
    /\ running <=> timer # NoTimer
    /\ waiting => timer.what = "dead"
    /\ strays = {}

\* A half-open connection does not outlive the idle window and the timeout,
\* whatever probes, lines and sleeps came between (keepalive.ts 12-14).
NeverSilentForLong == running => silence <= Idle + Timeout

\* After a sleep the dead connection is found out sooner: by the tick and
\* the timeout, the idle window notwithstanding (liveness.ts 4-10, 18-21).
FoundOutOnWaking == running => woken <= TickEvery + Timeout

\* A server that answers in time is never given up on: the timeout does
\* not run out on it (keepalive.ts 47-50).
AnsweringServerKept ==
    timer.what = "dead" /\ timer.left = 0 => far # "answers"

\* One timer watches a connection that stands, and it is never silent for
\* long.
WatchHolds == KeepaliveTypeOK /\ WatchedByOneTimer /\ NeverSilentForLong

=============================================================================
