--------------------------- MODULE Staying_proofs ---------------------------
(***************************************************************************)
(* Proofs about staying connected: the keepalive, for any idle window,     *)
(* timeout, tick and jump and for any server that answers within the       *)
(* timeout; and the service Android keeps the process for, for any number  *)
(* of networks and whatever they, the user and the platform do. The two    *)
(* share nothing, and neither's facts are used for the other's.            *)
(*                                                                         *)
(* Each of the keepalive's bounds on what has passed becomes inductive by  *)
(* adding what is still to pass: the time left on the timer, on the tick   *)
(* and on the answer. Of the service, what is inductive is the way a count *)
(* takes: from the shell by calls to starts and from there to the notice.  *)
(* The newest of what is under way is what the shell reported last, and    *)
(* while the service is held no zero is among it.                          *)
(***************************************************************************)
EXTENDS Keepalive, Presence, TLAPS, FiniteSetTheorems

----------------------------------------------------------------------------
(* The keepalive.                                                          *)


\* A keepalive that is not waiting for an answer is waiting to ask.
AskingOrWaiting == running /\ ~waiting => timer.what = "ask"

\* Silence so far and silence to come stay within the two windows.
SilenceAhead ==
    running => silence + timer.left <= IF waiting THEN Idle + Timeout ELSE Idle

\* An answer is owed only to a question, and falls due before the timeout.
AnswerAhead ==
    /\ owed # NothingOwed => waiting
    /\ waiting /\ far = "answers" => /\ owed # NothingOwed
                                     /\ owed + Timeout - Answer <= timer.left

\* After a sleep either a question is out or the tick is about to ask one.
WakingAhead ==
    running /\ woken # NotWoken =>
       IF waiting THEN woken + timer.left <= TickEvery + Timeout
       ELSE elapsed = Jump /\ woken + toTick <= TickEvery

\* KeepaliveTypeOK but for the two Boolean variables.
OthersOK ==
    /\ kind \in {"idle", "connecting", "connected", "waiting", "stopped"}
    /\ announced \in Nat
    /\ timer \in Timers /\ strays \subseteq Timers
    /\ toTick \in 0..TickEvery /\ elapsed \in 0..Jump
    /\ far \in {"answers", "silent", "refuses"}
    /\ owed \in 0..NothingOwed /\ silence \in Nat
    /\ woken \in Nat \cup {NotWoken}

LEMMA TypeOfBoth ==
    KeepaliveTypeOK <=> OthersOK /\ running \in BOOLEAN /\ waiting \in BOOLEAN
BY ZenonT(30) DEF KeepaliveTypeOK, OthersOK

KeepaliveInv ==
    /\ KeepaliveTypeOK /\ WatchedByOneTimer
    /\ AskingOrWaiting /\ SilenceAhead /\ AnswerAhead /\ WakingAhead

LEMMA NoTimerFields == NoTimer \in Timers /\ NoTimer.what = "none" /\ NoTimer.left = 0
BY DEF NoTimer, Timers

LEMMA KeepaliveInitInv == KeepaliveInit => KeepaliveInv
<1> SUFFICES ASSUME KeepaliveInit PROVE KeepaliveInv
  OBVIOUS
<1>1. KeepaliveTypeOK
  <2>1. OthersOK
    BY NoTimerFields, TimesAssumption DEF KeepaliveInit, Link!Init, OthersOK, NothingOwed, NotWoken
  <2> QED BY <2>1, TypeOfBoth, Zenon DEF KeepaliveInit
<1>2. WatchedByOneTimer
  BY NoTimerFields DEF KeepaliveInit, Link!Init, WatchedByOneTimer
<1>3. AskingOrWaiting /\ SilenceAhead /\ AnswerAhead /\ WakingAhead
  BY NoTimerFields DEF KeepaliveInit, AskingOrWaiting, SilenceAhead, AnswerAhead, WakingAhead
<1> QED BY <1>1, <1>2, <1>3 DEF KeepaliveInv

\* What the timer can be.
LEMMA TimerFields ==
    ASSUME timer \in Timers, timer # NoTimer
    PROVE  /\ timer.what \in {"ask", "dead"} /\ timer.left \in Nat
           /\ timer.what = "ask" => timer.left <= Idle
           /\ timer.what = "dead" => timer.left <= Timeout
           /\ timer = [what |-> timer.what, left |-> timer.left]
BY TimesAssumption DEF Timers, NoTimer

LEMMA StopKeepsInv ==
    ASSUME KeepaliveInv, Stop, kind' \in {"connecting", "waiting", "stopped"}, announced' \in Nat,
           owed' = NothingOwed, woken' \in Nat \cup {NotWoken}, far' = far,
           toTick' \in 0..TickEvery, elapsed' \in 0..Jump, silence' = silence
    PROVE  KeepaliveInv'
<1>1. KeepaliveTypeOK'
  <2>1. OthersOK'
    BY NoTimerFields, TimesAssumption DEF KeepaliveInv, KeepaliveTypeOK, OthersOK, Stop, NothingOwed
  <2>2. running' \in BOOLEAN /\ waiting' \in BOOLEAN
    BY Zenon DEF Stop
  <2> QED BY <2>1, <2>2, ZenonT(30) DEF KeepaliveTypeOK, OthersOK
<1>2. WatchedByOneTimer'
  BY NoTimerFields DEF KeepaliveInv, Stop, WatchedByOneTimer
<1>3. AskingOrWaiting' /\ SilenceAhead' /\ AnswerAhead' /\ WakingAhead'
  BY NoTimerFields DEF Stop, AskingOrWaiting, SilenceAhead, AnswerAhead, WakingAhead
<1> QED BY <1>1, <1>2, <1>3 DEF KeepaliveInv

LEMMA DeclareDeadKeepsInv ==
    ASSUME KeepaliveInv, DeclareDead, toTick' \in 0..TickEvery, elapsed' \in 0..Jump, silence' = silence
    PROVE  KeepaliveInv'
BY StopKeepsInv DEF DeclareDead, Link!Lose, Link!Stop, KeepaliveInv, KeepaliveTypeOK

\* Asking, when nothing was asked and the tick is not past due.
LEMMA AskKeepsInv ==
    ASSUME KeepaliveInv, running, ~waiting, Ask(NoTimer), silence' = silence,
           toTick' \in 0..TickEvery, elapsed' \in 0..Jump
    PROVE  KeepaliveInv'
<1>1. CASE DeclareDead
  BY <1>1, DeclareDeadKeepsInv
<1>2. CASE /\ far # "refuses"
           /\ waiting' = TRUE
           /\ Schedule("dead", Timeout, NoTimer)
           /\ owed' = IF far = "answers" /\ owed = NothingOwed THEN Answer ELSE owed
           /\ UNCHANGED <<link, running, far, woken>>
  <2>1. timer' = [what |-> "dead", left |-> Timeout] /\ strays' = {}
    BY <1>2 DEF Schedule, KeepaliveInv, WatchedByOneTimer
  <2>2. timer' # NoTimer /\ timer' \in Timers
    BY <2>1, TimesAssumption DEF NoTimer, Timers
  <2>3. silence <= Idle
    BY TimerFields, TimesAssumption DEF KeepaliveInv, KeepaliveTypeOK, WatchedByOneTimer, SilenceAhead
  <2>4. woken # NotWoken => woken \in Nat /\ woken <= TickEvery
    BY TimesAssumption DEF KeepaliveInv, KeepaliveTypeOK, WakingAhead, NotWoken
  <2>5. KeepaliveTypeOK'
    BY <1>2, <2>1, <2>2, TimesAssumption DEF KeepaliveInv, KeepaliveTypeOK, link, NothingOwed
  <2>6. WatchedByOneTimer' /\ AskingOrWaiting'
    BY <1>2, <2>1, <2>2 DEF KeepaliveInv, WatchedByOneTimer, AskingOrWaiting, link
  <2>7. SilenceAhead'
    BY <1>2, <2>1, <2>3, TimesAssumption DEF KeepaliveInv, KeepaliveTypeOK, SilenceAhead
  <2>8. AnswerAhead'
    BY <1>2, <2>1, TimesAssumption DEF KeepaliveInv, KeepaliveTypeOK, AnswerAhead, NothingOwed
  <2>9. WakingAhead'
    BY <1>2, <2>1, <2>4, TimesAssumption DEF KeepaliveInv, KeepaliveTypeOK, WakingAhead
  <2> QED BY <2>5, <2>6, <2>7, <2>8, <2>9 DEF KeepaliveInv
<1> QED BY <1>1, <1>2 DEF Ask

LEMMA SuspectKeepsInv ==
    ASSUME KeepaliveInv, Suspect, silence' = silence, toTick' \in 0..TickEvery, elapsed' \in 0..Jump
    PROVE  KeepaliveInv'
<1>1. CASE /\ Redials \/ Link!Stop
           /\ Stop
           /\ owed' = NothingOwed /\ woken' = NotWoken
           /\ UNCHANGED far
  BY <1>1, StopKeepsInv DEF Redials, Link!Stop, KeepaliveInv, KeepaliveTypeOK
<1>2. CASE kind = "waiting" /\ Link!Dial /\ UNCHANGED <<watch, far, owed, woken>>
  BY <1>2, TimesAssumption DEF Link!Dial, watch, KeepaliveInv, KeepaliveTypeOK, Timers, NoTimer, NothingOwed,
     NotWoken, WatchedByOneTimer, AskingOrWaiting, SilenceAhead, AnswerAhead, WakingAhead
<1>3. CASE running /\ ~waiting /\ Ask(NoTimer)
  BY <1>3, AskKeepsInv
<1>4. CASE (~running \/ waiting) /\ UNCHANGED <<link, watch, far, owed, woken>>
  BY <1>4, TimesAssumption DEF link, watch, KeepaliveInv, KeepaliveTypeOK, WatchedByOneTimer, AskingOrWaiting,
     SilenceAhead, AnswerAhead, WakingAhead
<1> QED BY <1>1, <1>2, <1>3, <1>4 DEF Suspect, ProbeNow

\* A watch that counts from the beginning again.
LEMMA WaitForSilenceKeepsInv ==
    ASSUME KeepaliveInv, WaitForSilence, running' = TRUE, kind' = "connected", announced' \in Nat,
           far' \in {"answers", "silent", "refuses"}, owed' = NothingOwed,
           silence' = 0, woken' = NotWoken, UNCHANGED clock
    PROVE  KeepaliveInv'
<1>1. timer' = [what |-> "ask", left |-> Idle] /\ strays' = {} /\ waiting' = FALSE
  BY DEF WaitForSilence, Schedule, KeepaliveInv, WatchedByOneTimer
<1>2. timer' # NoTimer /\ timer' \in Timers
  BY <1>1, TimesAssumption DEF NoTimer, Timers
<1>3. KeepaliveTypeOK'
  <2>1. OthersOK'
    BY <1>1, <1>2, TimesAssumption DEF clock, KeepaliveInv, KeepaliveTypeOK, OthersOK, NothingOwed, NotWoken
  <2>2. running' \in BOOLEAN /\ waiting' \in BOOLEAN
    BY <1>1, Zenon
  <2> QED BY <2>1, <2>2, ZenonT(30) DEF KeepaliveTypeOK, OthersOK
<1>4. WatchedByOneTimer' /\ AskingOrWaiting' /\ SilenceAhead'
  BY <1>1, <1>2, TimesAssumption DEF WatchedByOneTimer, AskingOrWaiting, SilenceAhead
<1>5. AnswerAhead' /\ WakingAhead'
  BY <1>1 DEF AnswerAhead, WakingAhead
<1> QED BY <1>3, <1>4, <1>5 DEF KeepaliveInv

LEMMA TimePassesKeepsInv == KeepaliveInv /\ TimePasses => KeepaliveInv'
<1> SUFFICES ASSUME KeepaliveInv, TimePasses PROVE KeepaliveInv'
  OBVIOUS
<1>1. CASE running
  <2>1. timer # NoTimer /\ timer.left > 0 /\ timer' = Later(timer)
    BY <1>1 DEF TimePasses, KeepaliveInv, WatchedByOneTimer
  <2>2. timer'.what = timer.what /\ timer'.left = timer.left - 1
    BY <2>1, TimerFields DEF Later, KeepaliveInv, KeepaliveTypeOK
  <2>3. timer' \in Timers /\ timer' # NoTimer
    BY <2>1, <2>2, TimerFields, TimesAssumption DEF Later, Timers, NoTimer, KeepaliveInv, KeepaliveTypeOK
  <2>4. KeepaliveTypeOK'
    BY <2>3, TimesAssumption DEF TimePasses, KeepaliveInv, KeepaliveTypeOK, link, NothingOwed, NotWoken
  <2>5. WatchedByOneTimer' /\ AskingOrWaiting'
    BY <1>1, <2>1, <2>2, <2>3 DEF TimePasses, link, KeepaliveInv, WatchedByOneTimer, AskingOrWaiting
  <2>6. SilenceAhead'
    BY <1>1, <2>1, <2>2, TimerFields, TimesAssumption DEF TimePasses, KeepaliveInv, KeepaliveTypeOK, SilenceAhead
  <2>7. AnswerAhead'
    BY <1>1, <2>1, <2>2, TimerFields, TimesAssumption
       DEF TimePasses, KeepaliveInv, KeepaliveTypeOK, AnswerAhead, NothingOwed
  <2>8. WakingAhead'
    BY <1>1, <2>1, <2>2, TimerFields, TimesAssumption
       DEF TimePasses, KeepaliveInv, KeepaliveTypeOK, WakingAhead, NotWoken
  <2> QED BY <2>4, <2>5, <2>6, <2>7, <2>8 DEF KeepaliveInv
<1>2. CASE ~running
  <2>1. timer = NoTimer /\ timer' = NoTimer /\ ~waiting /\ owed = NothingOwed
    BY <1>2, NoTimerFields DEF TimePasses, KeepaliveInv, WatchedByOneTimer, AnswerAhead
  <2>2. KeepaliveTypeOK'
    BY <1>2, <2>1, TimesAssumption DEF TimePasses, link, KeepaliveInv, KeepaliveTypeOK, NotWoken
  <2>3. WatchedByOneTimer' /\ AskingOrWaiting' /\ SilenceAhead' /\ AnswerAhead' /\ WakingAhead'
    BY <1>2, <2>1 DEF TimePasses, link, KeepaliveInv, WatchedByOneTimer, AskingOrWaiting,
       SilenceAhead, AnswerAhead, WakingAhead
  <2> QED BY <2>2, <2>3 DEF KeepaliveInv
<1> QED BY <1>1, <1>2

LEMMA KeepaliveNextInv == KeepaliveInv /\ [KeepaliveNext]_keepaliveVars => KeepaliveInv'
<1> SUFFICES ASSUME KeepaliveInv, [KeepaliveNext]_keepaliveVars PROVE KeepaliveInv'
  OBVIOUS
<1>1. CASE Dials
  <2>1. ~waiting /\ owed = NothingOwed
    BY <1>1, NoTimerFields DEF Dials, Link!Dial, KeepaliveInv, WatchedByOneTimer, AnswerAhead
  <2> QED BY <1>1, <2>1, StopKeepsInv DEF Dials, Link!Dial, clock, KeepaliveInv, KeepaliveTypeOK
<1>2. CASE Opens
  BY <1>2, WaitForSilenceKeepsInv DEF Opens, Link!Open, KeepaliveInv, KeepaliveTypeOK
<1>3. CASE Closes
  BY <1>3, StopKeepsInv DEF Closes, Link!Lose, Link!Stop, clock, KeepaliveInv, KeepaliveTypeOK
<1>4. CASE LineArrives
  BY <1>4, WaitForSilenceKeepsInv DEF LineArrives, link, KeepaliveInv, KeepaliveTypeOK
<1>5. CASE FarEndGoes
  BY <1>5, TimesAssumption DEF FarEndGoes, link, watch, clock, KeepaliveInv, KeepaliveTypeOK, NothingOwed,
     WatchedByOneTimer, AskingOrWaiting, SilenceAhead, AnswerAhead, WakingAhead
<1>6. CASE TimerFires
  <2>1. running
    BY <1>6 DEF TimerFires, KeepaliveInv, WatchedByOneTimer
  <2>2. toTick' \in 0..TickEvery /\ elapsed' \in 0..Jump /\ silence' = silence
    BY <1>6 DEF TimerFires, clock, KeepaliveInv, KeepaliveTypeOK
  <2>3. CASE timer.what = "ask" /\ Ask(NoTimer)
    BY <2>1, <2>2, <2>3, AskKeepsInv DEF KeepaliveInv, WatchedByOneTimer
  <2>4. CASE DeclareDead
    BY <2>2, <2>4, DeclareDeadKeepsInv
  <2> QED BY <1>6, <2>1, <2>3, <2>4 DEF TimerFires, Fires
<1>7. CASE Tick
  <2>1. toTick' \in 0..TickEvery /\ elapsed' \in 0..Jump /\ silence' = silence
    BY <1>7, TimesAssumption DEF Tick
  <2>2. CASE Suspect
    BY <2>1, <2>2, SuspectKeepsInv
  <2>3. CASE elapsed < Jump /\ UNCHANGED <<link, watch, far, owed, woken>>
    <3>1. elapsed # Jump /\ elapsed' # Jump
      BY <1>7, <2>3, TimesAssumption DEF Tick, KeepaliveInv, KeepaliveTypeOK
    <3>2. KeepaliveTypeOK' /\ WatchedByOneTimer' /\ AskingOrWaiting' /\ SilenceAhead' /\ AnswerAhead'
      BY <2>1, <2>3 DEF link, watch, KeepaliveInv, KeepaliveTypeOK, WatchedByOneTimer, AskingOrWaiting,
         SilenceAhead, AnswerAhead
    <3>3. WakingAhead'
      BY <2>3, <3>1 DEF link, watch, KeepaliveInv, WakingAhead
    <3> QED BY <3>2, <3>3 DEF KeepaliveInv
  <2> QED BY <1>7, <2>2, <2>3 DEF Tick
<1>8. CASE GroundMoves
  BY <1>8, SuspectKeepsInv, TimesAssumption DEF GroundMoves, KeepaliveInv, KeepaliveTypeOK
<1>9. CASE TimePasses
  BY <1>9, TimePassesKeepsInv
<1>10. CASE Sleeps
  <2>1. running => timer.left \in Nat /\ (waiting => timer.left <= Timeout)
    BY TimerFields DEF KeepaliveInv, KeepaliveTypeOK, WatchedByOneTimer
  <2> QED
    BY <1>10, <2>1, TimesAssumption DEF Sleeps, link, watch, KeepaliveInv, KeepaliveTypeOK, NotWoken,
       WatchedByOneTimer, AskingOrWaiting, SilenceAhead, AnswerAhead, WakingAhead
<1>11. CASE UNCHANGED keepaliveVars
  BY <1>11 DEF keepaliveVars, link, watch, clock, KeepaliveInv, KeepaliveTypeOK,
     WatchedByOneTimer, AskingOrWaiting, SilenceAhead, AnswerAhead, WakingAhead
<1> QED
  BY <1>1, <1>2, <1>3, <1>4, <1>5, <1>6, <1>7, <1>8, <1>9, <1>10, <1>11 DEF KeepaliveNext

LEMMA InvHolds == KeepaliveSpec => []KeepaliveInv
BY KeepaliveInitInv, KeepaliveNextInv, PTL DEF KeepaliveSpec

\* The keepalive stays well typed.
THEOREM TypeCorrect == KeepaliveSpec => []KeepaliveTypeOK
<1>1. KeepaliveInv => KeepaliveTypeOK
  BY DEF KeepaliveInv
<1> QED BY <1>1, InvHolds, PTL

\* A connection is watched while it stands, by one timer and no stray.
THEOREM OneTimer == KeepaliveSpec => []WatchedByOneTimer
<1>1. KeepaliveInv => WatchedByOneTimer
  BY DEF KeepaliveInv
<1> QED BY <1>1, InvHolds, PTL

\* A half-open connection is dropped within the idle window and the timeout.
THEOREM SilenceBounded == KeepaliveSpec => []NeverSilentForLong
<1>1. KeepaliveInv => NeverSilentForLong
  BY TimerFields, TimesAssumption DEF KeepaliveInv, KeepaliveTypeOK, WatchedByOneTimer, SilenceAhead,
     NeverSilentForLong
<1> QED BY <1>1, InvHolds, PTL

\* ... and after a sleep within the tick and the timeout.
THEOREM WakingBounded == KeepaliveSpec => []FoundOutOnWaking
<1>1. KeepaliveInv => FoundOutOnWaking
  BY TimerFields, TimesAssumption DEF KeepaliveInv, KeepaliveTypeOK, WatchedByOneTimer, WakingAhead,
     FoundOutOnWaking, NotWoken
<1> QED BY <1>1, InvHolds, PTL

\* A server that answers in time never has the timeout run out on it.
THEOREM AnsweringKept == KeepaliveSpec => []AnsweringServerKept
<1>1. KeepaliveInv => AnsweringServerKept
  <2> SUFFICES ASSUME KeepaliveInv, timer.what = "dead", timer.left = 0, far = "answers"
               PROVE  FALSE
    BY DEF AnsweringServerKept
  <2>1. timer # NoTimer
    BY DEF NoTimer
  <2>2. running /\ waiting
    BY <2>1 DEF KeepaliveInv, WatchedByOneTimer, AskingOrWaiting
  <2> QED BY <2>2, TimesAssumption DEF KeepaliveInv, KeepaliveTypeOK, AnswerAhead, NothingOwed
<1> QED BY <1>1, InvHolds, PTL

\* Both, with one timer that can be cancelled on every connection that stands.
THEOREM WatchAlwaysHolds == KeepaliveSpec => []WatchHolds
<1>1. KeepaliveTypeOK /\ WatchedByOneTimer /\ NeverSilentForLong => WatchHolds
  BY DEF WatchHolds
<1> QED BY <1>1, TypeCorrect, OneTimer, SilenceBounded, PTL

----------------------------------------------------------------------------
(* The service.                                                            *)


Size == Cardinality(Networks)

\* The types the other parts need, sequences as sequences.
Kept ==
    /\ phase \in [Networks -> {"disconnected", "connecting", "registered"}]
    /\ reported \in 0..Never
    /\ calls \in Seq(0..Size) /\ starts \in Seq(1..Size)
    /\ service \in {"none", "started", "foreground"}
    /\ notice \in 0..Size
    /\ permission \in {"unknown", "granted", "denied"}
    /\ process \in {"running", "frozen", "gone"}

Switches == asked \in BOOLEAN /\ asking \in BOOLEAN /\ front \in BOOLEAN /\ held \in BOOLEAN

\* Without a service nothing waits for it and nothing is shown.
NothingWithout == service = "none" => starts = <<>> /\ notice = 0

\* A notice is a running service's.
NoticeHasService == notice > 0 => Running /\ service = "foreground"

\* The newest of what is under way is what was reported last.
NewestIsReported ==
    \/ calls # <<>> /\ calls[Len(calls)] = reported
    \/ calls = <<>> /\ starts # <<>> /\ starts[Len(starts)] = reported
    \/ calls = <<>> /\ starts = <<>> /\ notice \in {0, reported}

\* While the service is held nothing under way stops it.
NothingStops ==
    held => /\ Running /\ service = "foreground" /\ Count > 0
            /\ \A i \in 1..Len(calls) : calls[i] > 0

Inv ==
    /\ Kept /\ Switches
    /\ NothingWithout /\ NoticeHasService /\ NewestIsReported /\ NothingStops

----------------------------------------------------------------------------
LEMMA SizeIsNat == Size \in Nat /\ Never = Size + 1
BY FS_CardinalityType, PresenceAssumption DEF Size, Never

LEMMA CountBounded == ASSUME NEW p PROVE Counted(p) \in 0..Size
<1> DEFINE S == {n \in Networks : p[n] = "registered"}
<1>1. S \in SUBSET Networks
  OBVIOUS
<1>2. IsFiniteSet(S) /\ Cardinality(S) <= Size
  BY <1>1, FS_Subset, PresenceAssumption DEF Size
<1>3. Cardinality(S) \in Nat
  BY <1>2, FS_CardinalityType
<1> QED BY <1>2, <1>3, SizeIsNat DEF Counted

\* What Tracks leaves to show: a held service is not disturbed.
LEMMA HeldByTracks ==
    ASSUME Tracks,
           held => /\ Running' /\ service' = "foreground"
                   /\ \A i \in 1..Len(calls') : calls'[i] > 0
    PROVE  NothingStops' /\ held' \in BOOLEAN
<1>1. held' \in BOOLEAN
  BY Zenon DEF Tracks
<1>2. held' => Count' > 0 /\ (held \/ (Settled' /\ service' = "foreground"))
  BY Zenon DEF Tracks
<1>3. Settled' => Running' /\ calls' = <<>>
  BY DEF Settled
<1> QED BY <1>1, <1>2, <1>3 DEF NothingStops

LEMMA InitInv == Init => Inv
<1> SUFFICES ASSUME Init PROVE Inv
  OBVIOUS
<1>1. Kept
  BY SizeIsNat DEF Init, Kept
<1>2. Switches
  BY Zenon DEF Init, Switches
<1>3. NothingWithout /\ NoticeHasService /\ NewestIsReported /\ NothingStops
  BY DEF Init, NothingWithout, NoticeHasService, NewestIsReported, NothingStops
<1> QED BY <1>1, <1>2, <1>3 DEF Inv

----------------------------------------------------------------------------
\* The steps that leave the way of a count alone.
LEMMA AsideInv ==
    ASSUME Inv, UNCHANGED <<shell, android>>, Kept', Tracks,
           asking' \in BOOLEAN, front' \in BOOLEAN,
           held \/ notice > 0 => Running'
    PROVE  Inv'
<1> USE DEF shell, android
<1>1. NothingStops' /\ held' \in BOOLEAN
  <2>1. held => Running' /\ service' = "foreground" /\ \A i \in 1..Len(calls') : calls'[i] > 0
    BY Zenon DEF Inv, NothingStops
  <2> QED BY <2>1, HeldByTracks, Zenon
<1>2. Switches'
  BY <1>1, Zenon DEF Inv, Switches
<1>3. NothingWithout' /\ NoticeHasService' /\ NewestIsReported'
  BY DEF Inv, NothingWithout, NoticeHasService, NewestIsReported
<1> QED BY <1>1, <1>2, <1>3 DEF Inv

LEMMA ChangesInv ==
    ASSUME Inv, NEW n \in Networks,
           NEW from, NEW to \in {"disconnected", "connecting", "registered"},
           Changes(n, from, to)
    PROVE  Inv'
<1>1. Kept'
  BY DEF Inv, Kept, Changes, shell, android, rights
<1>2. UNCHANGED <<shell, android>> /\ Tracks /\ Running' /\ UNCHANGED <<asking, front>>
  BY Zenon DEF Changes, rights, Running
<1> QED BY <1>1, <1>2, AsideInv, Zenon DEF Inv, Switches

LEMMA AnswersInv ==
    ASSUME Inv, NEW answer \in {"granted", "denied"}, Answers(answer) PROVE Inv'
<1>1. Kept'
  BY DEF Inv, Kept, Answers, shell, android
<1>2. UNCHANGED <<shell, android, front>> /\ Tracks /\ Running' /\ asking' = FALSE
  BY Zenon DEF Answers, Running
<1> QED BY <1>1, <1>2, AsideInv, Zenon DEF Inv, Switches

LEMMA LeavesInv == ASSUME Inv, Leaves PROVE Inv'
<1>1. Kept'
  BY DEF Inv, Kept, Leaves, shell, android, rights
<1>2. UNCHANGED <<shell, android, asking>> /\ Tracks /\ Running' /\ front' = FALSE
  BY Zenon DEF Leaves, rights, Running
<1> QED BY <1>1, <1>2, AsideInv, Zenon DEF Inv, Switches

LEMMA ComesBackInv == ASSUME Inv, ComesBack PROVE Inv'
<1>1. Kept'
  BY DEF Inv, Kept, ComesBack, shell, android, rights
<1>2. UNCHANGED <<shell, android, asking>> /\ Tracks /\ Running' /\ front' = TRUE
  BY Zenon DEF ComesBack, rights, Running
<1> QED BY <1>1, <1>2, AsideInv, Zenon DEF Inv, Switches

\* A process is frozen only where no service is held.
LEMMA FreezesInv == ASSUME Inv, Freezes PROVE Inv'
<1>1. Kept'
  BY DEF Inv, Kept, Freezes, shell, android, rights
<1>2. UNCHANGED <<shell, android, asking, front>> /\ Tracks
  BY Zenon DEF Freezes, rights
<1>3. ~held /\ ~(notice > 0)
  BY DEF Inv, Freezes, NothingStops, NoticeHasService
<1> QED BY <1>1, <1>2, <1>3, AsideInv, Zenon DEF Inv, Switches

LEMMA LaunchesInv == ASSUME Inv, Launches PROVE Inv'
<1> USE DEF shell, android, rights
<1>1. Kept'
  BY DEF Inv, Kept, Launches
<1>2. ~held
  BY DEF Inv, Launches, NothingStops, Running
<1>3. Switches'
  BY Zenon DEF Inv, Switches, Launches
<1>4. NothingStops'
  BY <1>2 DEF Launches, NothingStops
<1>5. NothingWithout' /\ NoticeHasService' /\ NewestIsReported'
  BY DEF Inv, Launches, NothingWithout, NoticeHasService, NewestIsReported, Running
<1> QED BY <1>1, <1>3, <1>4, <1>5 DEF Inv

----------------------------------------------------------------------------
\* The steps a count takes.
LEMMA ReportsInv == ASSUME Inv, Reports PROVE Inv'
<1> USE DEF android
<1>1. Count \in 0..Size /\ Count' = Count
  BY CountBounded DEF Count, Reports, Counted
<1>2. Kept'
  BY <1>1, SizeIsNat DEF Inv, Kept, Reports
<1>3. asked' \in BOOLEAN /\ asking' \in BOOLEAN /\ front' \in BOOLEAN
  BY Zenon DEF Inv, Switches, Reports
<1>4. calls \in Seq(0..Size) /\ calls' = Append(calls, Count) /\ reported' = Count
  BY DEF Inv, Kept, Reports
<1>5. NewestIsReported'
  BY <1>1, <1>4 DEF NewestIsReported
<1>6. NothingStops' /\ held' \in BOOLEAN
  <2>1. ASSUME held
        PROVE  Running' /\ service' = "foreground" /\ \A i \in 1..Len(calls') : calls'[i] > 0
    BY <2>1, <1>4 DEF Inv, NothingStops, Reports, Running
  <2>2. Tracks
    BY DEF Reports
  <2> QED BY <2>1, <2>2, HeldByTracks
<1>7. NothingWithout' /\ NoticeHasService'
  BY DEF Inv, Reports, NothingWithout, NoticeHasService, Running
<1> QED BY <1>2, <1>3, <1>5, <1>6, <1>7, Zenon DEF Inv, Switches

\* What taking the first of a sequence leaves.
LEMMA TailOf ==
    ASSUME NEW S, NEW s \in Seq(S), s # <<>>
    PROVE  /\ Tail(s) \in Seq(S) /\ Len(s) > 0 /\ Len(Tail(s)) = Len(s) - 1
           /\ Head(s) = s[1] /\ Head(s) \in S
           /\ \A i \in 1..Len(Tail(s)) : Tail(s)[i] = s[i + 1]
           /\ Tail(s) # <<>> => Tail(s)[Len(Tail(s))] = s[Len(s)]
           /\ Tail(s) = <<>> => Head(s) = s[Len(s)]
OBVIOUS

\* What a call that is taken leaves of the others.
LEMMA CallTaken ==
    ASSUME Inv, Call
    PROVE  /\ calls' \in Seq(0..Size) /\ Len(calls') = Len(calls) - 1
           /\ calls # <<>> /\ Head(calls) = calls[1] /\ Len(calls) > 0
           /\ \A i \in 1..Len(calls') : calls'[i] = calls[i + 1]
           /\ calls[Len(calls)] = reported
           /\ calls' # <<>> => calls'[Len(calls')] = reported
           /\ calls' = <<>> => Head(calls) = reported
<1>1. calls \in Seq(0..Size) /\ calls # <<>> /\ calls' = Tail(calls)
  BY DEF Inv, Kept, Call
<1>2. calls[Len(calls)] = reported
  BY <1>1 DEF Inv, NewestIsReported
<1>3. \A i \in 1..Len(calls') : calls'[i] = calls[i + 1]
  BY <1>1, TailOf
<1> QED BY <1>1, <1>2, <1>3, TailOf

LEMMA StartsInv == ASSUME Inv, Starts PROVE Inv'
<1> USE DEF rights
<1>1. Call /\ Head(calls) \in 1..Size
  BY CallTaken, SizeIsNat DEF Starts, Inv, Kept
<1>2. starts \in Seq(1..Size) /\ calls' \in Seq(0..Size)
  BY <1>1, CallTaken DEF Inv, Kept
<1>3. \/ service' = (IF service = "none" THEN "started" ELSE service)
         /\ starts' = Append(starts, Head(calls))
      \/ service = "none" /\ UNCHANGED <<service, starts>>
  BY DEF Starts
<1>4. Kept'
  <2>1. starts' \in Seq(1..Size)
    <3>1. Append(starts, Head(calls)) \in Seq(1..Size)
      BY <1>1, <1>2
    <3> QED BY <1>2, <1>3, <3>1
  <2>2. service' \in {"none", "started", "foreground"}
    BY <1>3 DEF Inv, Kept
  <2> QED BY <1>2, <2>1, <2>2 DEF Inv, Kept, Starts
<1>5. NothingWithout' /\ NoticeHasService'
  BY <1>1, <1>2, <1>3 DEF Inv, NothingWithout, NoticeHasService, Starts, Running
<1>6. NewestIsReported'
  BY <1>1, <1>2, <1>3, CallTaken DEF Inv, NothingWithout, NewestIsReported, Starts
<1>7. NothingStops' /\ held' \in BOOLEAN
  <2>1. ASSUME held
        PROVE  Running' /\ service' = "foreground" /\ \A i \in 1..Len(calls') : calls'[i] > 0
    BY <2>1, <1>1, <1>3, CallTaken DEF Inv, NothingStops, Starts, Running
  <2>2. Tracks
    BY DEF Starts
  <2> QED BY <2>1, <2>2, HeldByTracks
<1>8. asked' = asked /\ asking' = asking /\ front' = front
  BY Zenon DEF Starts
<1> QED BY <1>4, <1>5, <1>6, <1>7, <1>8, Zenon DEF Inv, Switches

\* A zero is taken only where nothing is held.
LEMMA StopsInv == ASSUME Inv, Stops PROVE Inv'
<1> USE DEF rights, NoService
<1>1. Call /\ Head(calls) = 0
  BY DEF Stops
<1>2. Kept'
  BY <1>1, CallTaken, SizeIsNat DEF Inv, Kept, Stops
<1>3. ~held
  BY <1>1, CallTaken DEF Inv, NothingStops
<1>4. NothingStops' /\ held' \in BOOLEAN
  BY <1>3, HeldByTracks, Zenon DEF Stops
<1>5. NewestIsReported'
  BY <1>1, CallTaken DEF NewestIsReported, Stops
<1>6. NothingWithout' /\ NoticeHasService'
  BY DEF NothingWithout, NoticeHasService, Stops
<1>7. asked' = asked /\ asking' = asking /\ front' = front
  BY Zenon DEF Stops
<1> QED BY <1>2, <1>4, <1>5, <1>6, <1>7, Zenon DEF Inv, Switches

LEMMA OnStartCommandInv == ASSUME Inv, OnStartCommand PROVE Inv'
<1> USE DEF shell, rights
<1>0. starts \in Seq(1..Size) /\ starts # <<>> /\ starts' = Tail(starts)
  BY DEF Inv, Kept, OnStartCommand
<1>1. /\ starts' \in Seq(1..Size) /\ Head(starts) \in 1..Size
      /\ starts' # <<>> => starts'[Len(starts')] = starts[Len(starts)]
      /\ starts' = <<>> => Head(starts) = starts[Len(starts)]
  BY <1>0, TailOf
<1>2. notice' \in {0, Head(starts)}
  BY DEF OnStartCommand
<1>3. Kept'
  BY <1>1, <1>2, SizeIsNat DEF Inv, Kept, OnStartCommand
<1>4. NothingWithout' /\ NoticeHasService'
  BY DEF OnStartCommand, NothingWithout, NoticeHasService, Running
<1>5. NewestIsReported'
  BY <1>0, <1>1, <1>2 DEF Inv, NewestIsReported, OnStartCommand
<1>6. NothingStops' /\ held' \in BOOLEAN
  <2>1. ASSUME held
        PROVE  Running' /\ service' = "foreground" /\ \A i \in 1..Len(calls') : calls'[i] > 0
    BY <2>1 DEF Inv, NothingStops, OnStartCommand, Running
  <2>2. Tracks
    BY DEF OnStartCommand
  <2> QED BY <2>1, <2>2, HeldByTracks
<1>7. asked' = asked /\ asking' = asking /\ front' = front
  BY Zenon DEF OnStartCommand
<1> QED BY <1>3, <1>4, <1>5, <1>6, <1>7, Zenon DEF Inv, Switches

----------------------------------------------------------------------------
\* What the platform takes away.
LEMMA ServiceStoppedInv == ASSUME Inv, ServiceStopped PROVE Inv'
<1> USE DEF shell, rights, NoService
<1>1. Kept'
  BY SizeIsNat DEF Inv, Kept, ServiceStopped
<1>2. Switches'
  BY Zenon DEF Inv, Switches, ServiceStopped
<1>3. NothingWithout' /\ NoticeHasService' /\ NothingStops'
  BY DEF ServiceStopped, NothingWithout, NoticeHasService, NothingStops
<1>4. NewestIsReported'
  BY DEF Inv, NewestIsReported, ServiceStopped
<1> QED BY <1>1, <1>2, <1>3, <1>4 DEF Inv

LEMMA ReclaimedInv == ASSUME Inv, Reclaimed PROVE Inv'
<1> USE DEF NoService, Gone
<1>1. Kept'
  BY SizeIsNat DEF Inv, Kept, Reclaimed
<1>2. Switches'
  BY Zenon DEF Inv, Switches, Reclaimed
<1>3. NothingWithout' /\ NoticeHasService' /\ NothingStops' /\ NewestIsReported'
  BY DEF Reclaimed, NothingWithout, NoticeHasService, NothingStops, NewestIsReported
<1> QED BY <1>1, <1>2, <1>3 DEF Inv

LEMMA StutterInv == ASSUME Inv, UNCHANGED vars PROVE Inv'
<1> USE DEF vars, shell, android, rights
<1>1. Kept' /\ NothingWithout' /\ NoticeHasService' /\ NewestIsReported'
  BY DEF Inv, Kept, NothingWithout, NoticeHasService, NewestIsReported, Running
<1>2. Switches'
  BY Zenon DEF Inv, Switches
<1>3. NothingStops'
  BY Zenon DEF Inv, NothingStops, Running, Count, Counted
<1> QED BY <1>1, <1>2, <1>3 DEF Inv

LEMMA NextInv == Inv /\ [Next]_vars => Inv'
<1> SUFFICES ASSUME Inv, [Next]_vars PROVE Inv'
  OBVIOUS
<1>1. CASE App
  BY <1>1, ReportsInv, StartsInv, StopsInv, OnStartCommandInv, Zenon DEF App, Hold
<1>2. ASSUME NEW n \in Networks, Connects(n) \/ Registers(n) \/ Drops(n) \/ Disconnects(n)
      PROVE  Inv'
  BY <1>2, ChangesInv DEF Connects, Registers, Drops, Disconnects
<1>3. ASSUME NEW answer \in {"granted", "denied"}, Answers(answer) PROVE Inv'
  BY <1>3, AnswersInv
<1>4. CASE Leaves \/ ComesBack \/ Freezes \/ ServiceStopped \/ Reclaimed \/ Launches
  BY <1>4, LeavesInv, ComesBackInv, FreezesInv, ServiceStoppedInv, ReclaimedInv, LaunchesInv, Zenon
<1>5. CASE UNCHANGED vars
  BY <1>5, StutterInv
<1> QED BY <1>1, <1>2, <1>3, <1>4, <1>5, Zenon DEF Next

LEMMA AlwaysInv == Spec => []Inv
BY InitInv, NextInv, PTL DEF Spec

----------------------------------------------------------------------------
LEMMA MembersOf == ASSUME NEW S, NEW s \in Seq(S) PROVE ToSet(s) \subseteq S
<1>1. \A i \in DOMAIN s : s[i] \in S
  OBVIOUS
<1> QED BY <1>1, Zenon DEF ToSet

LEMMA InvTypes == Inv => TypeOK
<1> SUFFICES ASSUME Inv PROVE TypeOK
  OBVIOUS
<1>0. calls \in Seq(0..Size) /\ starts \in Seq(1..Size)
  BY DEF Inv, Kept
<1>1. ToSet(calls) \subseteq 0..Cardinality(Networks) /\ ToSet(starts) \subseteq 1..Cardinality(Networks)
  BY <1>0, MembersOf DEF Size
<1>2. /\ phase \in [Networks -> {"disconnected", "connecting", "registered"}]
      /\ reported \in 0..Never
      /\ service \in {"none", "started", "foreground"}
      /\ notice \in 0..Cardinality(Networks)
      /\ permission \in {"unknown", "granted", "denied"}
      /\ process \in {"running", "frozen", "gone"}
  BY DEF Inv, Kept, Size
<1> QED BY <1>1, <1>2, Zenon DEF TypeOK, Inv, Switches

LEMMA InvTrue == Inv => NoticeTrue
<1> SUFFICES ASSUME Inv PROVE NoticeTrue
  OBVIOUS
<1>1. TypeOK
  BY InvTypes
<1>2. notice > 0 => Running /\ service = "foreground"
  BY DEF Inv, NoticeHasService
<1>3. Settled => notice \in {0, Count}
  BY DEF Inv, NewestIsReported, Settled
<1> QED BY <1>1, <1>2, <1>3 DEF NoticeTrue

LEMMA InvHeld == Inv => StaysHeld
BY DEF Inv, NothingStops, StaysHeld

\* For any networks, the notice is there only while the service runs, and once
\* a change has arrived it counts the networks registered (NoticeTrue).
THEOREM NoticeAlwaysTrue == Spec => []NoticeTrue
BY AlwaysInv, InvTrue, PTL

\* For any networks, a connection that is held stays held while some network is
\* registered, whatever the others do (StaysHeld).
THEOREM AlwaysHeld == Spec => []StaysHeld
BY AlwaysInv, InvHeld, PTL

=============================================================================
