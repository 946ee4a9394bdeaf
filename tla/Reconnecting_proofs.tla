------------------------ MODULE Reconnecting_proofs ------------------------
(***************************************************************************)
(* Proofs about the reconnecting transport, for any transports, endpoint   *)
(* lists, attempt limits and caps.                                         *)
(*                                                                         *)
(* Whatever transports it is given, it stays well typed and once stopped   *)
(* it is stopped for good. Over transports that report a failed connect in *)
(* one way only and close only after they opened, it never has more than   *)
(* one retry pending nor a socket it has lost track of, and it is the      *)
(* Connector the session relies on.                                        *)
(***************************************************************************)
EXTENDS Reconnecting, TLAPS

\* `timer` names an armed timer, so cancelling it leaves no negative count.
HeldIsArmed == held => armed # 0

\* What the wrapper's own functions read and write.
WrapperOK ==
    /\ kind \in {"idle", "connecting", "connected", "waiting", "stopped"}
    /\ dialled \in Nat /\ endpointIndex \in Nat
    /\ active \in Transport \cup {None}
    /\ armed \in 0..TimerCap /\ held \in BOOLEAN /\ HeldIsArmed
    /\ attempt \in 0..AttemptCap
    /\ stopped \in BOOLEAN
    /\ connectedAt \in {"none", "fresh", "stable"}
    /\ announced \in Nat
    /\ heard \subseteq Transport

OptsOK ==
    opts \in [servers : Servers, limit : Limits, autoReconnect : BOOLEAN, flavour : Flavours]

LEMMA StopKeepsType ==
    ASSUME WrapperOK, Stop
    PROVE  /\ kind' = "stopped" /\ stopped' = TRUE /\ held' = FALSE
           /\ armed' \in 0..TimerCap /\ announced' \in Nat
BY OptionsAssumption DEF WrapperOK, HeldIsArmed, Stop, CancelTimer

LEMMA NextEndpointType ==
    ASSUME OptsOK, NEW e \in Nat
    PROVE  NextEndpoint(e) \in Nat
<1>1. opts.servers \in Nat
  BY OptionsAssumption DEF OptsOK
<1>2. CASE opts.servers = 0
  BY <1>2 DEF NextEndpoint
<1>3. CASE opts.servers # 0
  <2>1. (e + 1) % opts.servers \in 0..(opts.servers - 1)
    BY <1>1, <1>3
  <2> QED BY <2>1, <1>1, <1>3 DEF NextEndpoint
<1> QED BY <1>2, <1>3

LEMMA ScheduleRetryType ==
    ASSUME WrapperOK, OptsOK, NEW a \in 0..AttemptCap, NEW e \in Nat,
           ScheduleRetry(a, e)
    PROVE  /\ kind' \in {"waiting", "stopped"}
           /\ endpointIndex' \in Nat /\ attempt' \in 0..AttemptCap
           /\ armed' \in 0..TimerCap /\ held' \in BOOLEAN /\ HeldIsArmed'
           /\ stopped' \in BOOLEAN /\ announced' \in Nat
<1>1. attempt' \in 0..AttemptCap
  BY OptionsAssumption DEF ScheduleRetry
<1>2. CASE Stop /\ endpointIndex' = e
  BY <1>1, <1>2, StopKeepsType DEF HeldIsArmed
<1>3. CASE /\ endpointIndex' = NextEndpoint(e)
           /\ kind' = "waiting"
           /\ armed' = IF armed < TimerCap THEN armed + 1 ELSE armed
           /\ held' = TRUE
           /\ UNCHANGED <<stopped, announced>>
  BY <1>1, <1>3, NextEndpointType, OptionsAssumption DEF WrapperOK, HeldIsArmed
<1> QED BY <1>2, <1>3 DEF ScheduleRetry

LEMMA StopOrRetryType ==
    ASSUME WrapperOK, OptsOK, NEW permanent \in BOOLEAN,
           NEW a \in 0..AttemptCap, NEW e \in Nat, StopOrRetry(permanent, a, e)
    PROVE  /\ kind' \in {"idle", "connecting", "connected", "waiting", "stopped"}
           /\ endpointIndex' \in Nat /\ attempt' \in 0..AttemptCap
           /\ armed' \in 0..TimerCap /\ held' \in BOOLEAN /\ HeldIsArmed'
           /\ stopped' \in BOOLEAN /\ announced' \in Nat
<1>1. CASE stopped /\ attempt' = a /\ endpointIndex' = e
           /\ UNCHANGED <<kind, armed, held, stopped, announced>>
  BY <1>1 DEF WrapperOK, HeldIsArmed
<1>2. CASE Stop /\ attempt' = a /\ endpointIndex' = e
  BY <1>2, StopKeepsType DEF HeldIsArmed
<1>3. CASE ScheduleRetry(a, e)
  BY <1>3, ScheduleRetryType
<1> QED BY <1>1, <1>2, <1>3 DEF StopOrRetry

LEMMA HandleCloseType ==
    ASSUME WrapperOK, OptsOK, NEW t, NEW permanent \in BOOLEAN,
           HandleClose(t, permanent)
    PROVE  WrapperOK'
<1>1. Rested(attempt) \in 0..AttemptCap /\ Rested(endpointIndex) \in Nat
  BY OptionsAssumption DEF WrapperOK, Rested
<1>2. StopOrRetry(permanent, Rested(attempt), Rested(endpointIndex))
  BY DEF HandleClose
<1> HIDE DEF HandleClose
<1>3. dialled' \in Nat /\ active' \in Transport \cup {None} /\ heard' \subseteq Transport
      /\ connectedAt' = "none"
  BY DEF HandleClose, Detach, WrapperOK
<1> QED BY <1>1, <1>2, <1>3, StopOrRetryType DEF WrapperOK

LEMMA RejectedType ==
    ASSUME WrapperOK, OptsOK, NEW t, NEW permanent \in BOOLEAN,
           Rejected(t, permanent)
    PROVE  WrapperOK'
<1>1. StopOrRetry(permanent, attempt, endpointIndex)
  BY DEF Rejected
<1>2. attempt \in 0..AttemptCap /\ endpointIndex \in Nat
  BY DEF WrapperOK
<1>3. dialled' \in Nat /\ active' \in Transport \cup {None} /\ heard' \subseteq Transport
      /\ connectedAt' = connectedAt
  BY DEF Rejected, Detach, WrapperOK
<1> QED BY <1>1, <1>2, <1>3, StopOrRetryType DEF WrapperOK

LEMMA AttemptConnectType ==
    ASSUME WrapperOK, AttemptConnect
    PROVE  /\ kind' = "connecting" /\ dialled' \in Nat /\ endpointIndex' \in Nat
           /\ active' \in Transport /\ heard' \subseteq Transport
           /\ attempt' \in 0..AttemptCap /\ stopped' \in BOOLEAN
           /\ connectedAt' \in {"none", "fresh", "stable"} /\ announced' \in Nat
           /\ \E t \in Transport : SetLink(t, "dialing")
BY DEF WrapperOK, AttemptConnect, Fresh

LEMMA SetLinkType ==
    ASSUME NEW t \in Transport, NEW l \in Links, link \in [Transport -> Links], SetLink(t, l)
    PROVE  link' \in [Transport -> Links]
BY DEF SetLink

LEMMA AfterDisconnectType ==
    ASSUME NEW l \in Links
    PROVE  AfterDisconnect(l) \in Links
BY DEF AfterDisconnect, Links

LEMMA ResolvedType ==
    ASSUME WrapperOK, OptsOK, link \in [Transport -> Links],
           NEW t \in Transport, NEW l \in Links, Resolved(t, l)
    PROVE  WrapperOK' /\ link' \in [Transport -> Links]
<1>0. "free" \in Links
  BY DEF Links
<1>1. CASE /\ connectedAt' = "fresh" /\ kind' = "connected" /\ SetLink(t, l)
           /\ UNCHANGED <<dialled, active, heard, armed, held, attempt,
                          endpointIndex, stopped, announced>>
  BY <1>1, SetLinkType DEF WrapperOK, HeldIsArmed
<1>2. CASE SetLink(t, "free") /\ HandleClose(t, TRUE)
  BY <1>0, <1>2, SetLinkType, HandleCloseType
<1>3. CASE SetLink(t, "free") /\ UNCHANGED <<wrapper, active, heard, connectedAt>>
  BY <1>0, <1>3, SetLinkType DEF WrapperOK, HeldIsArmed, wrapper
<1> QED BY <1>1, <1>2, <1>3 DEF Resolved

TypeInv == WrapperOK /\ OptsOK /\ link \in [Transport -> Links]
           /\ microtask \in Transport \cup {None} /\ online \in BOOLEAN

LEMMA TypeInvIsTypeOK == TypeInv <=> TypeOK /\ HeldIsArmed
BY DEF TypeInv, WrapperOK, OptsOK, TypeOK

LEMMA InitType == Init => TypeInv
<1> SUFFICES ASSUME Init PROVE TypeInv
  OBVIOUS
<1>1. OptsOK
  BY DEF Init, OptsOK
<1>2. link \in [Transport -> Links]
  BY DEF Init, Links
<1>3. /\ kind = "idle" /\ dialled = 0 /\ active = None /\ heard = {}
      /\ armed = 0 /\ held = FALSE /\ attempt = 0 /\ endpointIndex = 0
      /\ stopped = FALSE /\ connectedAt = "none" /\ announced = 0
  BY DEF Init
<1>4. 0 \in 0..TimerCap /\ 0 \in 0..AttemptCap
  BY OptionsAssumption
<1>5. WrapperOK
  BY <1>3, <1>4 DEF WrapperOK, HeldIsArmed
<1> QED BY <1>1, <1>2, <1>5 DEF Init, TypeInv

LEMMA StepType == TypeInv /\ [Next]_vars => TypeInv'
<1> SUFFICES ASSUME TypeInv, [Next]_vars PROVE TypeInv'
  OBVIOUS
<1> USE DEF TypeInv
<1>a. ASSUME UNCHANGED opts PROVE OptsOK'
  BY <1>a DEF OptsOK
<1>b. "free" \in Links /\ "dialing" \in Links /\ "failed" \in Links
      /\ "listening" \in Links /\ "lost" \in Links /\ "cut" \in Links
      /\ "open" \in Links /\ "mute" \in Links /\ "gone" \in Links
  BY DEF Links
<1>c. ASSUME UNCHANGED <<wrapper, active, heard, connectedAt>> PROVE WrapperOK'
  BY <1>c DEF WrapperOK, HeldIsArmed, wrapper
<1>1. CASE Run(Connect)
  <2>1. AttemptConnect /\ UNCHANGED <<armed, held>>
    BY <1>1 DEF Run, Connect
  <2>2. WrapperOK' /\ link' \in [Transport -> Links]
    BY <2>1, <1>b, AttemptConnectType, SetLinkType DEF WrapperOK, HeldIsArmed
  <2> QED BY <2>2, <1>1, <1>a DEF Run
<1>2. CASE Run(ConnectWithoutServers)
  <2>1. WrapperOK'
    BY <1>2, StopKeepsType DEF Run, ConnectWithoutServers, Detach, WrapperOK, HeldIsArmed
  <2> QED BY <2>1, <1>2, <1>a DEF Run, ConnectWithoutServers
<1>3. CASE Run(RetryNow)
  <2>1. AttemptConnect /\ CancelTimer
    BY <1>3 DEF Run, RetryNow
  <2>2. armed' \in 0..TimerCap /\ held' = FALSE
    BY <2>1, OptionsAssumption DEF CancelTimer, WrapperOK, HeldIsArmed
  <2>3. WrapperOK' /\ link' \in [Transport -> Links]
    BY <2>1, <2>2, <1>b, AttemptConnectType, SetLinkType DEF WrapperOK, HeldIsArmed
  <2> QED BY <2>3, <1>3, <1>a DEF Run
<1>4. CASE Run(Dropped)
  <2>1. HandleClose(active, FALSE) /\ link' \in [Transport -> Links]
    BY <1>4, AfterDisconnectType DEF Run, Dropped
  <2> QED BY <2>1, <1>4, <1>a, HandleCloseType DEF Run
<1>5. CASE Run(Disconnect)
  <2>1. link' \in [Transport -> Links]
    BY <1>5, AfterDisconnectType DEF Run, Disconnect
  <2>2. WrapperOK'
    BY <1>5, StopKeepsType DEF Run, Disconnect, Detach, WrapperOK, HeldIsArmed
  <2> QED BY <2>1, <2>2, <1>5, <1>a DEF Run
<1>6. CASE Run(RetryFires)
  <2>1. armed' \in 0..TimerCap /\ held' = FALSE
    BY <1>6, OptionsAssumption DEF Run, RetryFires, WrapperOK
  <2>2. CASE AttemptConnect
    <3>1. WrapperOK' /\ link' \in [Transport -> Links]
      BY <2>1, <2>2, <1>b, AttemptConnectType, SetLinkType DEF WrapperOK, HeldIsArmed
    <3> QED BY <3>1, <1>6, <1>a DEF Run
  <2>3. CASE UNCHANGED <<kind, dialled, active, attempt, endpointIndex,
                         stopped, connectedAt, announced, link, heard>>
    <3>1. WrapperOK'
      BY <2>1, <2>3 DEF WrapperOK, HeldIsArmed
    <3> QED BY <3>1, <2>3, <1>6, <1>a DEF Run
  <2> QED BY <1>6, <2>2, <2>3 DEF Run, RetryFires
<1>7. CASE Run(Settles)
  <2>1. WrapperOK'
    BY <1>7 DEF Run, Settles, WrapperOK, HeldIsArmed, wrapper
  <2> QED BY <2>1, <1>7, <1>a DEF Run, Settles
<1>8. ASSUME NEW t \in Transport, Fails(t) PROVE TypeInv'
  <2>1. PICK permanent \in BOOLEAN : DialFails(t, permanent)
    BY <1>8 DEF Fails
  <2>2. CASE SetLink(t, "free") /\ Rejected(t, permanent) /\ UNCHANGED microtask
    BY <2>2, <1>8, <1>a, <1>b, SetLinkType, RejectedType DEF Fails
  <2>3. CASE SetLink(t, "failed") /\ microtask' = t /\ HandleClose(t, permanent)
    BY <2>3, <1>8, <1>a, <1>b, SetLinkType, HandleCloseType DEF Fails
  <2>4. CASE SetLink(t, "failed") /\ microtask' = t
             /\ UNCHANGED <<wrapper, active, heard, connectedAt>>
    BY <2>4, <1>8, <1>a, <1>b, <1>c, SetLinkType DEF Fails
  <2> QED BY <2>1, <2>2, <2>3, <2>4 DEF DialFails
<1>9. ASSUME NEW t \in Transport, Caught(t) PROVE TypeInv'
  <2>1. SetLink(t, "free") /\ Rejected(t, FALSE) /\ microtask' = None
        /\ UNCHANGED <<opts, online>>
    BY <1>9 DEF Caught, RejectionCaught
  <2> QED BY <2>1, <1>a, <1>b, SetLinkType, RejectedType
<1>10. ASSUME NEW t \in Transport, Run(DialOpens(t)) PROVE TypeInv'
  <2>1. CASE SetLink(t, "listening") /\ UNCHANGED <<wrapper, active, heard, connectedAt>>
    BY <2>1, <1>10, <1>a, <1>b, <1>c, SetLinkType DEF Run
  <2>2. CASE Resolved(t, "open")
    BY <2>2, <1>10, <1>a, <1>b, ResolvedType DEF Run
  <2> QED BY <1>10, <2>1, <2>2 DEF Run, DialOpens
<1>11. ASSUME NEW t \in Transport, Run(Listened(t)) PROVE TypeInv'
  <2>1. Resolved(t, "open") \/ Resolved(t, "gone") \/ Resolved(t, "free")
    BY <1>11 DEF Run, Listened
  <2>2. WrapperOK' /\ link' \in [Transport -> Links]
    BY <2>1, <1>b, ResolvedType
  <2> QED BY <2>2, <1>11, <1>a DEF Run
<1>12. ASSUME NEW t \in Transport, Run(ClosingRejected(t)) PROVE TypeInv'
  <2>1. SetLink(t, "free") /\ Rejected(t, FALSE)
    BY <1>12 DEF Run, ClosingRejected
  <2> QED BY <2>1, <1>12, <1>a, <1>b, SetLinkType, RejectedType DEF Run
<1>13. ASSUME NEW t \in Transport, Run(GoesMute(t)) PROVE TypeInv'
  BY <1>13, <1>a, <1>b, <1>c, SetLinkType DEF Run, GoesMute
<1>14. ASSUME NEW t \in Transport, NEW permanent \in BOOLEAN,
              Run(ClosesInWindow(t, permanent))
       PROVE  TypeInv'
  <2>1. CASE SetLink(t, "lost") /\ UNCHANGED <<wrapper, active, heard, connectedAt>>
    BY <2>1, <1>14, <1>a, <1>b, <1>c, SetLinkType DEF Run
  <2>2. CASE SetLink(t, "cut") /\ HandleClose(t, permanent)
    BY <2>2, <1>14, <1>a, <1>b, SetLinkType, HandleCloseType DEF Run
  <2>3. CASE SetLink(t, "cut") /\ UNCHANGED <<wrapper, active, heard, connectedAt>>
    BY <2>3, <1>14, <1>a, <1>b, <1>c, SetLinkType DEF Run
  <2> QED BY <1>14, <2>1, <2>2, <2>3 DEF Run, ClosesInWindow
<1>15. ASSUME NEW t \in Transport, NEW permanent \in BOOLEAN, Run(Closes(t, permanent))
       PROVE  TypeInv'
  <2>1. CASE SetLink(t, "free") /\ HandleClose(t, permanent)
    BY <2>1, <1>15, <1>a, <1>b, SetLinkType, HandleCloseType DEF Run
  <2>2. CASE SetLink(t, "free") /\ UNCHANGED <<wrapper, active, heard, connectedAt>>
    BY <2>2, <1>15, <1>a, <1>b, <1>c, SetLinkType DEF Run
  <2> QED BY <1>15, <2>1, <2>2 DEF Run, Closes
<1>16. CASE Environment
  BY <1>16, <1>a, <1>c DEF Environment, NetworkChanges
<1>17. CASE UNCHANGED vars
  BY <1>17, <1>a, <1>c DEF vars
<1> QED
  BY <1>1, <1>2, <1>3, <1>4, <1>5, <1>6, <1>7, <1>8, <1>9, <1>10, <1>11, <1>12,
     <1>13, <1>14, <1>15, <1>16, <1>17 DEF Next

\* Whatever its transports do, the wrapper's variables keep their types and
\* `timer` never names a timer that has already fired.
THEOREM TypeCorrect == Spec => [](TypeOK /\ HeldIsArmed)
<1>1. Spec => []TypeInv
  BY InitType, StepType, PTL DEF Spec
<1> QED BY <1>1, TypeInvIsTypeOK, PTL

----------------------------------------------------------------------------
(* The backoff, over any transports.                                       *)

\* The attempts count on, or a connection that lasted has just been lost.
CountsOn == attempt <= attempt' \/ connectedAt = "stable"

LEMMA StopOrRetryCountsOn ==
    ASSUME OptsOK, NEW permanent, NEW a \in 0..AttemptCap, NEW e, StopOrRetry(permanent, a, e)
    PROVE  a <= attempt'
BY OptionsAssumption DEF StopOrRetry, ScheduleRetry

\* A close starts the count over only from a connection that lasted, and a
\* rejected connect never does.
LEMMA HandlersCountOn ==
    ASSUME TypeInv, NEW t, NEW permanent, HandleClose(t, permanent) \/ Rejected(t, permanent)
    PROVE  CountsOn
<1>1. attempt \in 0..AttemptCap /\ OptsOK
  BY DEF TypeInv, WrapperOK
<1>2. CASE HandleClose(t, permanent)
  <2>1. CASE connectedAt = "stable"
    BY <2>1 DEF CountsOn
  <2>2. CASE connectedAt # "stable"
    <3>1. StopOrRetry(permanent, attempt, Rested(endpointIndex))
      BY <1>2, <2>2 DEF HandleClose, Rested
    <3> QED BY <3>1, <1>1, StopOrRetryCountsOn DEF CountsOn
  <2> QED BY <2>1, <2>2
<1>3. CASE Rejected(t, permanent)
  BY <1>1, <1>3, StopOrRetryCountsOn DEF Rejected, CountsOn
<1> QED BY <1>2, <1>3

LEMMA StepCountsOn == TypeInv /\ [Next]_vars => CountsOn
<1> SUFFICES ASSUME TypeInv, [Next]_vars PROVE CountsOn
  OBVIOUS
<1>u. ASSUME UNCHANGED attempt PROVE CountsOn
  BY <1>u, OptionsAssumption DEF TypeInv, WrapperOK, CountsOn
<1>h. ASSUME NEW t, NEW permanent, HandleClose(t, permanent) \/ Rejected(t, permanent)
      PROVE  CountsOn
  BY <1>h, HandlersCountOn
<1>r. ASSUME NEW t, NEW l, Resolved(t, l) PROVE CountsOn
  BY <1>r, <1>u, <1>h DEF Resolved, wrapper
<1>1. CASE Run(Connect) \/ Run(RetryNow) \/ Run(RetryFires)
  BY <1>1, <1>u DEF Run, Connect, RetryNow, RetryFires, AttemptConnect
<1>2. CASE Run(ConnectWithoutServers) \/ Run(Disconnect)
  BY <1>2, <1>u DEF Run, ConnectWithoutServers, Disconnect
<1>3. CASE Run(Dropped)
  BY <1>3, <1>h DEF Run, Dropped
<1>4. CASE Run(Settles) \/ Environment \/ UNCHANGED vars
  BY <1>4, <1>u DEF Run, Settles, Environment, NetworkChanges, vars, wrapper
<1>5. ASSUME NEW t \in Transport, Fails(t) PROVE CountsOn
  BY <1>5, <1>h, <1>u DEF Fails, DialFails, wrapper
<1>6. ASSUME NEW t \in Transport, Caught(t) \/ Run(ClosingRejected(t)) PROVE CountsOn
  BY <1>6, <1>h DEF Caught, RejectionCaught, Run, ClosingRejected
<1>7. ASSUME NEW t \in Transport, Run(DialOpens(t)) \/ Run(Listened(t)) PROVE CountsOn
  BY <1>7, <1>r, <1>u DEF Run, DialOpens, Listened, wrapper
<1>8. ASSUME NEW t \in Transport, Run(GoesMute(t)) PROVE CountsOn
  BY <1>8, <1>u DEF Run, GoesMute, wrapper
<1>9. ASSUME NEW t \in Transport, NEW permanent \in BOOLEAN,
             Run(ClosesInWindow(t, permanent)) \/ Run(Closes(t, permanent))
      PROVE  CountsOn
  BY <1>9, <1>h, <1>u DEF Run, ClosesInWindow, Closes, wrapper
<1> QED BY <1>1, <1>2, <1>3, <1>4, <1>5, <1>6, <1>7, <1>8, <1>9 DEF Next

\* A server that accepts and drops at once, connects that fail and the user
\* who asks for another attempt leave the backoff where it was: for any
\* transports, endpoint lists and limits.
THEOREM BackoffIsKept == Spec => BackoffKept
<1>1. Spec => []TypeInv
  BY InitType, StepType, PTL DEF Spec
<1>2. TypeInv /\ [Next]_vars => [attempt' < attempt => connectedAt = "stable"]_vars
  BY StepCountsOn, OptionsAssumption, StepType DEF CountsOn, TypeInv, WrapperOK
<1> QED BY <1>1, <1>2, PTL DEF Spec, BackoffKept

----------------------------------------------------------------------------
(* Stopped for good, over any transports.                                  *)

StoppedInv == stopped => kind = "stopped"

NoNewDial == \A t \in Transport : link'[t] = "dialing" => link[t] = "dialing"

LEMMA InitStopped == Init => StoppedInv
BY DEF Init, StoppedInv

LEMMA StopOrRetryWhenStopped ==
    ASSUME stopped = TRUE, NEW permanent, NEW a, NEW e, StopOrRetry(permanent, a, e)
    PROVE  UNCHANGED <<kind, stopped, announced>>
BY DEF StopOrRetry

LEMMA SetLinkNoDial ==
    ASSUME NEW t \in Transport, NEW l, l # "dialing", link \in [Transport -> Links],
           SetLink(t, l)
    PROVE  NoNewDial
BY DEF SetLink, NoNewDial

\* A step taken once stopped moves nothing the session can see.
LEMMA StoppedStepHolds ==
    ASSUME TypeInv, StoppedInv, stopped = TRUE, [Next]_vars
    PROVE  UNCHANGED <<kind, stopped, announced>> /\ NoNewDial
<1> DEFINE Quiet == UNCHANGED <<kind, stopped, announced>> /\ NoNewDial
<1>0. kind = "stopped" /\ link \in [Transport -> Links]
  BY DEF StoppedInv, TypeInv
<1>h. ASSUME NEW t, NEW permanent, HandleClose(t, permanent)
      PROVE  UNCHANGED <<kind, stopped, announced>>
  BY <1>h, StopOrRetryWhenStopped DEF HandleClose
<1>j. ASSUME NEW t, NEW permanent, Rejected(t, permanent)
      PROVE  UNCHANGED <<kind, stopped, announced>>
  BY <1>j, StopOrRetryWhenStopped DEF Rejected
<1>1. ~Run(Connect) /\ ~Run(ConnectWithoutServers) /\ ~Run(RetryNow)
      /\ ~Run(Dropped) /\ ~Run(Disconnect)
  BY <1>0 DEF Run, Connect, ConnectWithoutServers, RetryNow, Dropped, Disconnect
<1>2. CASE Run(RetryFires)
  BY <1>2 DEF Run, RetryFires, AttemptConnect, NoNewDial
<1>3. CASE Run(Settles) \/ Environment \/ UNCHANGED vars
  BY <1>3 DEF Run, Settles, Environment, NetworkChanges, vars, wrapper, NoNewDial
<1>4. ASSUME NEW t \in Transport, NEW l, SetLink(t, l), l # "dialing" PROVE NoNewDial
  BY <1>4, <1>0, SetLinkNoDial
<1>5. ASSUME NEW t \in Transport, Fails(t) PROVE Quiet
  <2>1. PICK permanent \in BOOLEAN : DialFails(t, permanent)
    BY <1>5 DEF Fails
  <2>2. NoNewDial
    BY <2>1, <1>4 DEF DialFails
  <2>3. UNCHANGED <<kind, stopped, announced>>
    BY <2>1, <1>h, <1>j DEF DialFails, wrapper
  <2> QED BY <2>2, <2>3
<1>6. ASSUME NEW t \in Transport, Caught(t) PROVE Quiet
  BY <1>6, <1>4, <1>j DEF Caught, RejectionCaught
<1>7. ASSUME NEW t \in Transport, NEW l, l # "dialing", Resolved(t, l) PROVE Quiet
  BY <1>7, <1>4, <1>h DEF Resolved, wrapper
<1>8. ASSUME NEW t \in Transport, Run(DialOpens(t)) PROVE Quiet
  BY <1>8, <1>4, <1>7 DEF Run, DialOpens, wrapper
<1>9. ASSUME NEW t \in Transport, Run(Listened(t)) PROVE Quiet
  <2>1. Resolved(t, "open") \/ Resolved(t, "gone") \/ Resolved(t, "free")
    BY <1>9 DEF Run, Listened
  <2> QED BY <2>1, <1>7
<1>10. ASSUME NEW t \in Transport, Run(ClosingRejected(t)) PROVE Quiet
  BY <1>10, <1>4, <1>j DEF Run, ClosingRejected
<1>11. ASSUME NEW t \in Transport, Run(GoesMute(t)) PROVE Quiet
  BY <1>11, <1>4 DEF Run, GoesMute, wrapper
<1>12. ASSUME NEW t \in Transport, NEW permanent \in BOOLEAN,
              Run(ClosesInWindow(t, permanent))
       PROVE  Quiet
  <2>1. NoNewDial
    BY <1>12, <1>4 DEF Run, ClosesInWindow
  <2> QED BY <2>1, <1>12, <1>h DEF Run, ClosesInWindow, wrapper
<1>13. ASSUME NEW t \in Transport, NEW permanent \in BOOLEAN, Run(Closes(t, permanent))
       PROVE  Quiet
  BY <1>13, <1>4, <1>h DEF Run, Closes, wrapper
<1> QED
  BY <1>1, <1>2, <1>3, <1>5, <1>6, <1>8, <1>9, <1>10, <1>11, <1>12, <1>13 DEF Next

\* `stopped` is only ever set together with the state.
LEMMA StepStopped ==
    ASSUME TypeInv, StoppedInv, [Next]_vars
    PROVE  StoppedInv'
<1> DEFINE Kept == stopped' = stopped \/ kind' = "stopped"
<1>0. stopped \in BOOLEAN
  BY DEF TypeInv, WrapperOK
<1>1. CASE stopped
  BY <1>1, StoppedStepHolds DEF StoppedInv
<1>2. CASE ~stopped
  <2>0. SUFFICES Kept
    BY <1>0, <1>2 DEF StoppedInv
  <2>s. ASSUME NEW permanent, NEW a, NEW e, StopOrRetry(permanent, a, e) PROVE Kept
    BY <2>s DEF StopOrRetry, ScheduleRetry, Stop
  <2>h. ASSUME NEW t, NEW permanent, HandleClose(t, permanent) PROVE Kept
    BY <2>h, <2>s DEF HandleClose
  <2>j. ASSUME NEW t, NEW permanent, Rejected(t, permanent) PROVE Kept
    BY <2>j, <2>s DEF Rejected
  <2>r. ASSUME NEW t, NEW l, Resolved(t, l) PROVE Kept
    BY <2>r, <2>h DEF Resolved, wrapper
  <2>1. CASE Run(Connect) \/ Run(RetryNow) \/ Run(RetryFires)
    BY <2>1 DEF Run, Connect, RetryNow, RetryFires, AttemptConnect
  <2>2. CASE Run(ConnectWithoutServers) \/ Run(Disconnect)
    BY <2>2 DEF Run, ConnectWithoutServers, Disconnect, Stop
  <2>3. CASE Run(Dropped)
    BY <2>3, <2>h DEF Run, Dropped
  <2>4. CASE Run(Settles) \/ Environment \/ UNCHANGED vars
    BY <2>4 DEF Run, Settles, Environment, NetworkChanges, vars, wrapper
  <2>5. ASSUME NEW t \in Transport, Fails(t) PROVE Kept
    BY <2>5, <2>h, <2>j DEF Fails, DialFails, wrapper
  <2>6. ASSUME NEW t \in Transport, Caught(t) \/ Run(ClosingRejected(t)) PROVE Kept
    BY <2>6, <2>j DEF Caught, RejectionCaught, Run, ClosingRejected
  <2>7. ASSUME NEW t \in Transport, Run(DialOpens(t)) PROVE Kept
    BY <2>7, <2>r DEF Run, DialOpens, wrapper
  <2>8. ASSUME NEW t \in Transport, Run(Listened(t)) PROVE Kept
    BY <2>8, <2>r DEF Run, Listened
  <2>9. ASSUME NEW t \in Transport, Run(GoesMute(t)) PROVE Kept
    BY <2>9 DEF Run, GoesMute, wrapper
  <2>10. ASSUME NEW t \in Transport, NEW permanent \in BOOLEAN,
                Run(ClosesInWindow(t, permanent)) \/ Run(Closes(t, permanent))
         PROVE  Kept
    BY <2>10, <2>h DEF Run, ClosesInWindow, Closes, wrapper
  <2> QED
    BY <2>1, <2>2, <2>3, <2>4, <2>5, <2>6, <2>7, <2>8, <2>9, <2>10 DEF Next
<1> QED BY <1>0, <1>1, <1>2

\* Once stopped, by the user, for good reason or out of attempts, no timer, late
\* connect or late close dials again or announces anything: for any transports.
THEOREM StopIsFinal == Spec => StoppedForGood
<1>1. Spec => []TypeInv
  BY InitType, StepType, PTL DEF Spec
<1>2. Init => StoppedInv
  BY InitStopped
<1>3. TypeInv /\ StoppedInv /\ [Next]_vars => StoppedInv'
  BY StepStopped
<1>4. TypeInv /\ StoppedInv /\ [Next]_vars
      => [stopped => kind' = "stopped" /\ announced' = announced
          /\ \A t \in Transport : link'[t] = "dialing" => link[t] = "dialing"]_vars
  <2> SUFFICES ASSUME TypeInv, StoppedInv, [Next]_vars, stopped
               PROVE  kind' = "stopped" /\ announced' = announced /\ NoNewDial
    BY DEF NoNewDial
  <2>1. stopped = TRUE
    BY DEF TypeInv, WrapperOK
  <2> QED BY <2>1, StoppedStepHolds DEF StoppedInv
<1> QED BY <1>1, <1>2, <1>3, <1>4, PTL DEF Spec, StoppedForGood

----------------------------------------------------------------------------
(* Over transports that report in one way only.                            *)

Orderly == Flavours \subseteq {"plain"}

\* What the link of `t` may be, when only the one in use has a socket.
Expected(t) ==
    IF t = active THEN IF kind = "connecting" THEN {"dialing"} ELSE {"open", "mute"}
    ELSE IF stopped THEN {"free", "dialing"} ELSE {"free"}

(***************************************************************************)
(* OneRetryPending says nothing of a step from "connected", where a close  *)
(* of a forgotten transport would schedule a second retry. What rules that *)
(* out is that there is no forgotten transport: everything but the one in  *)
(* use is free.                                                            *)
(***************************************************************************)
OrderlyInv ==
    /\ microtask = None
    /\ armed = IF kind = "waiting" THEN 1 ELSE 0
    /\ held <=> kind = "waiting"
    /\ stopped <=> kind = "stopped"
    /\ (active # None) <=> (kind \in {"connecting", "connected"})
    /\ heard = {active} \ {None}
    /\ \A t \in Transport : link[t] \in Expected(t)

LEMMA InitOrderly == Init => OrderlyInv
BY TransportAssumption DEF Init, OrderlyInv, Expected

\* A close or rejection of the transport in use leaves everything in order.
LEMMA LosingTheOneInUse ==
    ASSUME TypeInv, OrderlyInv, active \in Transport,
           NEW permanent \in BOOLEAN, NEW a \in Nat, NEW e,
           StopOrRetry(permanent, a, e), Detach(active), SetLink(active, "free"),
           UNCHANGED microtask
    PROVE  OrderlyInv' /\ Promise!Next
<1>0. TimerCap \in Nat \ {0, 1} /\ None \notin Transport
  BY OptionsAssumption, TransportAssumption
<1>1. ~stopped /\ kind \in {"connecting", "connected"} /\ armed = 0 /\ held = FALSE
  BY <1>0 DEF OrderlyInv, TypeInv, WrapperOK
<1>2. active' = None /\ heard' = {}
  BY DEF Detach, OrderlyInv
<1>3. \A t \in Transport : link'[t] = "free"
  BY <1>1 DEF SetLink, OrderlyInv, Expected, TypeInv
<1>4. CASE Stop
  <2>1. kind' = "stopped" /\ stopped' = TRUE /\ armed' = 0 /\ held' = FALSE
    BY <1>1, <1>4 DEF Stop, CancelTimer
  <2>2. Promise!Stop
    BY <1>1, <1>4 DEF Stop, Promise!Stop
  <2> QED BY <1>0, <1>2, <1>3, <2>1, <2>2 DEF OrderlyInv, Expected, Promise!Next
<1>5. CASE /\ kind' = "waiting" /\ held' = TRUE /\ UNCHANGED stopped
           /\ armed' = IF armed < TimerCap THEN armed + 1 ELSE armed
           /\ UNCHANGED announced
  <2>1. armed' = 1 /\ stopped' = FALSE
    BY <1>0, <1>1, <1>5 DEF TypeInv, WrapperOK
  <2>2. Promise!Lose
    BY <1>1, <1>5 DEF Promise!Lose
  <2> QED BY <1>0, <1>2, <1>3, <1>5, <2>1, <2>2 DEF OrderlyInv, Expected, Promise!Next
<1> QED BY <1>1, <1>4, <1>5 DEF StopOrRetry, ScheduleRetry

\* An attempt from rest: one transport is taken up and nothing else is there.
LEMMA AttemptFromRest ==
    ASSUME TypeInv, OrderlyInv, kind \in {"idle", "waiting"}, AttemptConnect,
           armed' = 0, held' = FALSE, UNCHANGED microtask
    PROVE  OrderlyInv' /\ Promise!Next
<1>0. None \notin Transport
  BY TransportAssumption
<1>1. active = None /\ heard = {} /\ ~stopped
  BY DEF OrderlyInv
<1>2. PICK t \in Transport : active' = t /\ heard' = heard \cup {t} /\ SetLink(t, "dialing")
  BY DEF AttemptConnect, Fresh
<1>3. kind' = "connecting" /\ UNCHANGED <<stopped, announced>>
  BY DEF AttemptConnect
<1>4. \A u \in Transport : link[u] = "free"
  BY <1>0, <1>1 DEF OrderlyInv, Expected
<1>5. \A u \in Transport : link'[u] \in Expected(u)'
  BY <1>2, <1>3, <1>4 DEF SetLink, Expected, TypeInv
<1>6. OrderlyInv'
  BY <1>0, <1>1, <1>2, <1>3, <1>5 DEF OrderlyInv
<1>7. Promise!Next
  BY <1>3 DEF Promise!Next, Promise!Dial
<1> QED BY <1>6, <1>7

LEMMA StepOrderly ==
    ASSUME Orderly, TypeInv, OrderlyInv, [Next]_vars
    PROVE  OrderlyInv' /\ [Promise!Next]_<<kind, announced>>
<1> DEFINE Good == OrderlyInv' /\ [Promise!Next]_<<kind, announced>>
<1>0. None \notin Transport /\ microtask = None /\ stopped \in BOOLEAN /\ held \in BOOLEAN
      /\ armed \in Nat /\ link \in [Transport -> Links] /\ active \in Transport \cup {None}
  BY TransportAssumption DEF OrderlyInv, TypeInv, WrapperOK
<1>f. ~ListenWindow /\ ~RejectEmits
  BY DEF Orderly, TypeInv, OptsOK, ListenWindow, RejectEmits
<1>u. ASSUME UNCHANGED <<kind, active, armed, held, stopped, announced, link, heard, microtask>>
      PROVE  Good
  BY <1>u DEF OrderlyInv, Expected
<1>c. ASSUME NEW permanent \in BOOLEAN, active \in Transport,
             HandleClose(active, permanent) \/ Rejected(active, permanent),
             SetLink(active, "free"), UNCHANGED microtask
      PROVE  Good
  <2>1. attempt \in Nat /\ Rested(attempt) \in Nat
    BY OptionsAssumption DEF TypeInv, WrapperOK, Rested
  <2> QED BY <1>c, <2>1, LosingTheOneInUse DEF HandleClose, Rejected
<1>1. CASE Run(Connect)
  <2>1. kind = "idle" /\ AttemptConnect /\ UNCHANGED <<armed, held, microtask>>
    BY <1>1 DEF Run, Connect
  <2>2. armed = 0 /\ held = FALSE
    BY <2>1, <1>0 DEF OrderlyInv
  <2> QED BY <2>1, <2>2, AttemptFromRest
<1>2. CASE Run(RetryNow)
  <2>1. kind = "waiting" /\ CancelTimer /\ AttemptConnect /\ UNCHANGED microtask
    BY <1>2 DEF Run, RetryNow
  <2>2. armed' = 0 /\ held' = FALSE
    BY <2>1 DEF OrderlyInv, CancelTimer
  <2> QED BY <2>1, <2>2, AttemptFromRest
<1>3. CASE Run(RetryFires)
  <2>1. kind = "waiting" /\ armed = 1 /\ ~stopped
    BY <1>3 DEF Run, RetryFires, OrderlyInv
  <2>2. armed' = 0 /\ held' = FALSE /\ AttemptConnect /\ UNCHANGED microtask
    BY <1>3, <2>1, OptionsAssumption DEF Run, RetryFires
  <2> QED BY <2>1, <2>2, AttemptFromRest
<1>4. CASE Run(ConnectWithoutServers) \/ Run(Disconnect)
  <2>1. kind # "stopped" /\ ~stopped /\ Stop /\ Detach(active) /\ UNCHANGED microtask
    BY <1>4 DEF Run, ConnectWithoutServers, Disconnect, OrderlyInv
  <2>2. kind' = "stopped" /\ stopped' = TRUE /\ armed' = 0 /\ held' = FALSE
    BY <2>1, <1>0 DEF Stop, CancelTimer, OrderlyInv
  <2>3. active' = None /\ heard' = {}
    BY <2>1 DEF Detach, OrderlyInv
  <2>4. \A t \in Transport : link'[t] \in {"free", "dialing"}
    <3>1. CASE Run(ConnectWithoutServers)
      BY <3>1, <2>1, <1>0 DEF Run, ConnectWithoutServers, OrderlyInv, Expected
    <3>2. CASE Run(Disconnect)
      BY <3>2, <2>1, <1>0, <1>f DEF Run, Disconnect, OrderlyInv, Expected, AfterDisconnect
    <3> QED BY <1>4, <3>1, <3>2
  <2>5. Promise!Next
    BY <2>1 DEF Stop, Promise!Next, Promise!Stop
  <2>6. OrderlyInv'
    BY <2>1, <2>2, <2>3, <2>4, <1>0 DEF OrderlyInv, Expected
  <2> QED BY <2>5, <2>6
<1>5. CASE Run(Dropped)
  <2>1. kind = "connected" /\ active \in Transport /\ link[active] \in {"open", "mute"}
    BY <1>0, <1>5 DEF Run, Dropped, OrderlyInv, Expected
  <2>2. SetLink(active, "free")
    BY <2>1, <1>0, <1>5 DEF Run, Dropped, SetLink, AfterDisconnect
  <2> QED BY <1>5, <2>1, <2>2, <1>c DEF Run, Dropped
<1>6. CASE Run(Settles)
  BY <1>6, <1>u DEF Run, Settles, wrapper
<1>7. CASE Environment \/ UNCHANGED vars
  BY <1>7, <1>u DEF Environment, NetworkChanges, vars, wrapper
<1>8. ASSUME NEW t \in Transport, link[t] \in {"open", "mute"} PROVE t = active /\ kind = "connected"
  BY <1>0, <1>8 DEF OrderlyInv, Expected
<1>9. ASSUME NEW t \in Transport, ~stopped, link[t] = "dialing" PROVE t = active /\ kind = "connecting"
  BY <1>0, <1>9 DEF OrderlyInv, Expected
<1>10. ASSUME NEW t \in Transport, stopped, link[t] = "dialing", SetLink(t, "free"),
              UNCHANGED <<kind, active, armed, held, stopped, announced, heard, microtask>>
       PROVE  Good
  BY <1>10, <1>0 DEF OrderlyInv, Expected, SetLink
<1>11. ASSUME NEW t \in Transport, Fails(t) PROVE Good
  <2>1. PICK permanent \in BOOLEAN :
           /\ link[t] = "dialing" /\ SetLink(t, "free")
           /\ Rejected(t, permanent) /\ UNCHANGED microtask
    BY <1>11, <1>f DEF Fails, DialFails
  <2>2. CASE stopped
    <3>1. active = None /\ heard = {}
      BY <2>2 DEF OrderlyInv
    <3>2. UNCHANGED <<kind, active, armed, held, stopped, announced, heard>>
      BY <2>1, <2>2, <3>1 DEF Rejected, Detach, StopOrRetry
    <3> QED BY <2>1, <2>2, <3>2, <1>10
  <2>3. CASE ~stopped
    <3>1. t = active
      BY <2>1, <2>3, <1>9
    <3> QED BY <2>1, <3>1, <1>c
  <2> QED BY <2>2, <2>3
<1>12. ASSUME NEW t \in Transport, Caught(t) PROVE Good
  BY <1>12, <1>0 DEF Caught, RejectionCaught
<1>13. ASSUME NEW t \in Transport, Run(DialOpens(t)) PROVE Good
  <2>1. link[t] = "dialing" /\ Resolved(t, "open") /\ UNCHANGED microtask
    BY <1>13, <1>f DEF Run, DialOpens
  <2>2. CASE stopped
    <3>1. t \notin heard
      BY <2>2 DEF OrderlyInv
    <3> QED BY <2>1, <2>2, <3>1, <1>10 DEF Resolved, wrapper
  <2>3. CASE ~stopped
    <3>1. t = active /\ kind = "connecting"
      BY <2>1, <2>3, <1>9
    <3>2. /\ kind' = "connected" /\ SetLink(t, "open")
          /\ UNCHANGED <<active, heard, armed, held, stopped, announced>>
      BY <2>1, <2>3 DEF Resolved
    <3>3. OrderlyInv'
      BY <2>1, <2>3, <3>1, <3>2, <1>0 DEF OrderlyInv, Expected, SetLink
    <3>4. Promise!Next
      BY <3>1, <3>2 DEF Promise!Next, Promise!Open
    <3> QED BY <3>3, <3>4
  <2> QED BY <2>2, <2>3
<1>14. ASSUME NEW t \in Transport, NEW permanent \in BOOLEAN,
              \/ Run(Listened(t)) \/ Run(ClosingRejected(t))
              \/ Run(ClosesInWindow(t, permanent))
       PROVE  FALSE
  BY <1>14 DEF Run, Listened, ClosingRejected, ClosesInWindow, OrderlyInv, Expected
<1>15. ASSUME NEW t \in Transport, Run(GoesMute(t)) PROVE Good
  <2>1. t = active /\ kind = "connected"
    BY <1>15, <1>8 DEF Run, GoesMute
  <2>2. SetLink(t, "mute") /\ UNCHANGED <<kind, active, armed, held, stopped, announced, heard, microtask>>
    BY <1>15 DEF Run, GoesMute, wrapper
  <2> QED BY <2>1, <2>2, <1>0 DEF OrderlyInv, Expected, SetLink
<1>16. ASSUME NEW t \in Transport, NEW permanent \in BOOLEAN, Run(Closes(t, permanent))
       PROVE  Good
  <2>1. t = active /\ kind = "connected" /\ SetLink(t, "free") /\ UNCHANGED microtask
    BY <1>16, <1>8 DEF Run, Closes
  <2>2. t \in heard
    BY <2>1, <1>0 DEF OrderlyInv
  <2>3. HandleClose(active, permanent)
    BY <1>16, <2>1, <2>2 DEF Run, Closes
  <2> QED BY <2>1, <2>3, <1>c
<1> QED
  BY <1>1, <1>2, <1>3, <1>4, <1>5, <1>6, <1>7, <1>11, <1>12, <1>13, <1>14, <1>15,
     <1>16 DEF Next

LEMMA OrderlyAlways == Orderly /\ Spec => [](TypeInv /\ OrderlyInv)
<1>1. Orderly /\ TypeInv /\ OrderlyInv /\ [Next]_vars => OrderlyInv'
  BY StepOrderly
<1>2. Orderly => []Orderly
  <2>1. Orderly => Orderly'
    BY DEF Orderly
  <2> QED BY <2>1, PTL
<1> QED BY <1>1, <1>2, InitType, StepType, InitOrderly, PTL DEF Spec

\* There is one retry pending while waiting and none otherwise.
THEOREM OneRetry == Orderly /\ Spec => []OneRetryPending
<1>1. TypeInv /\ OrderlyInv => OneRetryPending
  BY DEF TypeInv, WrapperOK, OrderlyInv, OneRetryPending
<1> QED BY <1>1, OrderlyAlways, PTL

\* No socket outlives the wrapper's interest in it.
THEOREM NoSocketLost == Orderly /\ Spec => []NoStraySocket
<1>1. TypeInv /\ OrderlyInv => NoStraySocket
  <2> SUFFICES ASSUME OrderlyInv, NEW t \in Transport
               PROVE  /\ link[t] \in {"open", "mute", "gone"} => active = t /\ kind = "connected"
                      /\ link[t] \in {"dialing", "listening"} =>
                            (active = t /\ kind = "connecting") \/ stopped
    BY DEF NoStraySocket
  <2> QED BY TransportAssumption DEF OrderlyInv, Expected
<1> QED BY <1>1, OrderlyAlways, PTL

\* Connected means connected to something.
THEOREM ConnectedMeansCarrying == Orderly /\ Spec => []ConnectedCarries
<1>1. TypeInv /\ OrderlyInv => ConnectedCarries
  BY DEF TypeInv, WrapperOK, OrderlyInv, ConnectedCarries
<1> QED BY <1>1, OrderlyAlways, PTL

\* The wrapper implements the connector the session is written against.
THEOREM ImplementsConnector == Orderly /\ Spec => IsConnector
<1>1. Orderly /\ TypeInv /\ Init => Claim!Init
  BY DEF Orderly, TypeInv, OptsOK, Init, KeepsContract, ClaimedKind, ClaimedCloses, Claim!Init
<1>2. ASSUME Orderly, TypeInv, TypeInv', OrderlyInv, [Next]_vars
      PROVE  [Claim!Next]_(Claim!vars)
  <2>1. [Promise!Next]_<<kind, announced>>
    BY <1>2, StepOrderly
  <2>2. /\ ClaimedKind = kind /\ ClaimedKind' = kind'
        /\ ClaimedCloses = announced /\ ClaimedCloses' = announced'
    BY <1>2 DEF Orderly, TypeInv, OptsOK, KeepsContract, ClaimedKind, ClaimedCloses
  <2>3. CASE UNCHANGED <<kind, announced>>
    BY <2>2, <2>3 DEF Claim!vars
  <2>4. CASE Promise!Next
    BY <2>2, <2>4 DEF Promise!Next, Promise!Dial, Promise!Open, Promise!Lose, Promise!Stop,
                      Claim!Next, Claim!Dial, Claim!Open, Claim!Lose, Claim!Stop
  <2> QED BY <2>1, <2>3, <2>4
<1>3. Orderly => []Orderly
  <2>1. Orderly => Orderly'
    BY DEF Orderly
  <2> QED BY <2>1, PTL
<1> QED BY <1>1, <1>2, <1>3, OrderlyAlways, PTL DEF Spec, IsConnector, Claim!Spec

\* Retry, socket and claim together: what the wrapper holds is all there is.
THEOREM NothingIsLoose == Orderly /\ Spec => []NothingLoose
<1>1. TypeOK /\ OneRetryPending /\ NoStraySocket /\ ConnectedCarries => NothingLoose
  BY DEF NothingLoose
<1> QED BY <1>1, TypeCorrect, OneRetry, NoSocketLost, ConnectedMeansCarrying, PTL

=============================================================================
