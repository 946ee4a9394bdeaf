------------------------------ MODULE Friends ------------------------------
(***************************************************************************)
(* The notify list (packages/client/src/state/notify.ts) as session.ts     *)
(* keeps it on a server, over the native transport of Native. Of the       *)
(* transport that reconnects, Reconnecting has the detail: here it keeps   *)
(* dialling, retries or gives up when a connection is lost.                *)
(*                                                                         *)
(* A server has MONITOR or WATCH, or neither. WHOIS is answered with       *)
(* nothing that touches the list (reduce.ts 1578-1590).                    *)
(***************************************************************************)
EXTENDS Native, FiniteSets

CONSTANTS
    Nicks,
    Mechanisms, \* what the server may have: "monitor", "watch", "poll"
    Limit,      \* how many nicks a server watches
    Acts        \* bound on what users and the server do of their own accord

ASSUME FriendsAssumption ==
    Mechanisms \subseteq {"monitor", "watch", "poll"} /\ Limit \in Nat /\ Acts \in Nat

VARIABLES
    kind,               \* of the reconnecting transport
    current,            \* its connection, or 0
    phase,              \* the session's
    notify,             \* "absent", or what is known of each nick
    support,            \* notifyMechanism() of what the server said
    timers,             \* poll timers that run
    mechanism,          \* the server's
    online,             \* who is
    watched,            \* the server's list for each connection
    crossed,            \* nicks a report of which crossed their removal, or all when
                        \* that has left the list longer than the server's may be
    acts

session == <<kind, current, phase, notify, support, timers, crossed>>
server == <<mechanism, online, watched>>
vars == <<native, session, server, acts>>

Act == acts < Acts /\ acts' = acts + 1

Lines(kinds, nicks) == [i \in 1..Cardinality(nicks) |-> <<kinds, SetToSeq(nicks)[i]>>]

Listed == {n \in Nicks : notify[n] # "absent"}

----------------------------------------------------------------------------
(* notify.ts                                                               *)

AddLines(nicks) == IF support' = "poll" THEN <<>> ELSE Lines("+", nicks)

RemoveLines(nicks) == IF support = "poll" THEN <<>> ELSE Lines("-", nicks)

ClearLines == IF support' = "poll" THEN <<>> ELSE <<<<"C">>>>

Resync_Nothing == UNCHANGED notify /\ calls' = calls

\* resyncNotify(): nothing is known again until the server says so.
Resync ==
    /\ notify' = [n \in Nicks |-> IF n \in Listed THEN "unknown" ELSE "absent"]
    /\ calls' = calls \o Sent(current, ClearLines \o AddLines(Listed))

----------------------------------------------------------------------------
(* session.ts                                                              *)

\* connect(), or the wrapper's retry.
Dials ==
    /\ kind \in {"idle", "waiting"}
    /\ kind' = "connecting" /\ phase' = "connecting"
    /\ UNCHANGED <<native, current, notify, support, timers, crossed, server, acts>>

Unused == {c \in Conns : conns[c].pump = "none"}

\* The connection is there, and register() says who we are.
Opens ==
    /\ kind = "connecting" /\ Unused # {}
    /\ LET c == CHOOSE c \in Unused : \A d \in Unused : c <= d
       IN  /\ conns' = Connected(c) /\ current' = c
           /\ calls' = calls \o Sent(c, <<<<"NICK">>>>)
    /\ kind' = "connected" /\ phase' = "registering"
    /\ UNCHANGED <<notify, support, timers, crossed, server, acts>>

StartPolling_Another == timers' = IF support' = "poll" THEN timers + 1 ELSE timers

\* startPolling(), which stops the timer there was.
StartPolling == timers' = IF support' = "poll" THEN 1 ELSE 0

\* onRegistered(), by which time the server has said what it has.
Registered ==
    /\ phase' = "registered" /\ support' = mechanism
    /\ Resync /\ StartPolling

\* handleClose(): the poll stops with the connection.
HandleClose == phase' = "disconnected" /\ timers' = 0

\* The wrapper gives up and says so, which is the only close the session hears of.
Stopped == kind' = "stopped" /\ current' = 0 /\ HandleClose

\* It retries: the phase is taken back, and nothing else is.
Retried ==
    /\ kind' = "waiting" /\ current' = 0
    /\ phase' = IF phase \in {"registered", "registering"} THEN "connecting" ELSE phase
    /\ UNCHANGED timers

FailsToOpen ==
    /\ kind = "connecting" /\ (Retried \/ Stopped) /\ Act
    /\ UNCHANGED <<native, notify, support, crossed, server>>

\* addNotify(), of a nick that is not listed, where there is room for it.
Adds(n) ==
    /\ Act /\ n \notin Listed /\ Cardinality(Listed) < Limit
    /\ notify' = [notify EXCEPT ![n] = "unknown"]
    /\ UNCHANGED support
    /\ calls' = IF current = 0 THEN calls ELSE calls \o Sent(current, AddLines({n}))
    /\ UNCHANGED <<conns, kind, current, phase, timers, crossed, server>>

Reports(n) ==
    /\ current # 0
    /\ LET all == conns[current].stream \o conns[current].buffer \o FlattenSeq(conns[current].events)
       IN  \E i \in DOMAIN all : all[i] \in {<<"on", n>>, <<"off", n>>}

\* removeNotify(). What the server was about to say of the nick, or says
\* before it reads this, puts it back (reduce.ts 1534-1552).
Removes(n) ==
    /\ Act /\ n \in Listed
    /\ notify' = [notify EXCEPT ![n] = "absent"]
    /\ calls' = IF current = 0 THEN calls ELSE calls \o Sent(current, RemoveLines({n}))
    /\ UNCHANGED <<conns, kind, current, phase, support, timers, crossed, server>>

\* A tick asks about everybody; with no connection send() throws.
Polls ==
    /\ timers > 0 /\ Act
    /\ calls' = IF current = 0 \/ support # "poll" THEN calls
                ELSE calls \o Sent(current, Lines("WHOIS", Listed))
    /\ UNCHANGED <<conns, session, server>>

\* disconnect(), with a QUIT where there is something to say it through.
Disconnects ==
    /\ kind \notin {"idle", "stopped"}
    /\ Stopped
    /\ calls' = IF current = 0 THEN calls
                ELSE calls \o Sent(current, <<<<"QUIT">>>>) \o Disconnected(current)
    /\ UNCHANGED <<conns, notify, support, crossed, server, acts>>

\* dropped(): the keepalive has declared the connection dead.
GivesUpOn ==
    /\ Act /\ kind = "connected"
    /\ Retried \/ Stopped
    /\ calls' = calls \o Disconnected(current)
    /\ UNCHANGED <<conns, notify, support, crossed, server>>

ReadsReport(n, status) ==
    /\ notify' = [notify EXCEPT ![n] = status]
    /\ crossed' = IF n \in Listed THEN crossed ELSE crossed \cup {n}
    /\ UNCHANGED <<calls, kind, current, phase, support, timers>>

ReadsRemoved(n) ==
    /\ notify' = [notify EXCEPT ![n] = "absent"]
    /\ crossed' = IF n \in Listed THEN crossed \cup {n} ELSE crossed
    /\ UNCHANGED <<calls, kind, current, phase, support, timers>>

\* A line is handled, or a close.
Handles(event) ==
    \/ /\ event = <<"welcome">> /\ Registered
       /\ crossed' = IF Cardinality(Listed) <= Limit THEN {} ELSE Nicks
       /\ UNCHANGED <<kind, current>>
    \/ \E n \in Nicks :
          \/ event = <<"on", n>> /\ ReadsReport(n, "online")
          \/ event = <<"off", n>> /\ ReadsReport(n, "offline")
          \/ event = <<"removed", n>> /\ ReadsRemoved(n)
    \/ /\ event = Closed /\ (Retried \/ Stopped)
       /\ UNCHANGED <<calls, notify, support, crossed>>

Hears_Anyone(c) ==
    /\ conns[c].events # <<>> /\ conns' = Forwarded(c)
    /\ LET event == Head(conns[c].events)
       IN  IF event # Closed THEN Handles(event[1])
           ELSE IF c = current THEN Handles(event) ELSE UNCHANGED <<calls, session>>
    /\ UNCHANGED <<server, acts>>

\* An event of a connection that is no longer ours is not listened to.
Hears(c) ==
    /\ conns[c].events # <<>> /\ conns' = Forwarded(c)
    /\ LET event == Head(conns[c].events)
       IN  IF c = current THEN Handles(IF event = Closed THEN event ELSE event[1])
           ELSE UNCHANGED <<calls, session>>
    /\ UNCHANGED <<server, acts>>

----------------------------------------------------------------------------
(* The server.                                                             *)

\* Lines end in CRLF or, on some servers, in a bare LF.
Ended(line) == <<line>> \o (IF mechanism = "watch" THEN <<LF>> ELSE <<CR, LF>>)

Replies(c, lines, inbox) ==
    conns' = [conns EXCEPT ![c].inbox = inbox,
                           ![c].stream = @ \o FlattenSeq([i \in DOMAIN lines |-> Ended(lines[i])])]

Status(n) == <<IF n \in online THEN "on" ELSE "off", n>>

Serves(c) ==
    /\ Live(c) /\ ~conns[c].cut /\ conns[c].inbox # <<>>
    /\ LET line == Head(conns[c].inbox)  rest == Tail(conns[c].inbox)
           full == Cardinality(watched[c]) >= Limit
       IN  \/ line = <<"NICK">> /\ Replies(c, <<<<"welcome">>>>, rest) /\ UNCHANGED watched
           \/ /\ line = <<"QUIT">> /\ UNCHANGED watched
              /\ conns' = [conns EXCEPT ![c].inbox = rest, ![c].cut = TRUE]
           \/ /\ line = <<"C">> /\ watched' = [watched EXCEPT ![c] = {}]
              /\ conns' = [conns EXCEPT ![c].inbox = rest]
           \/ \E n \in Nicks :
                 \/ /\ line = <<"+", n>>
                    /\ watched' = [watched EXCEPT ![c] = IF full THEN @ ELSE @ \cup {n}]
                    /\ Replies(c, IF n \in watched'[c] THEN <<Status(n)>> ELSE <<>>, rest)
                 \/ /\ line = <<"-", n>>
                    /\ watched' = [watched EXCEPT ![c] = @ \ {n}]
                    /\ Replies(c, IF mechanism = "watch" THEN <<<<"removed", n>>>> ELSE <<>>, rest)
                 \/ line = <<"WHOIS", n>> /\ Replies(c, <<>>, rest) /\ UNCHANGED watched
    /\ UNCHANGED <<calls, session, mechanism, online, acts>>

\* Somebody comes or goes; those who watch are told.
Flips(n) ==
    /\ Act
    /\ online' = (online \ {n}) \cup ({n} \ online)
    /\ conns' = [c \in Conns |->
          IF Live(c) /\ ~conns[c].cut /\ n \in watched[c]
          THEN [conns[c] EXCEPT !.stream = @ \o Ended(<<IF n \in online THEN "off" ELSE "on", n>>)]
          ELSE conns[c]]
    /\ UNCHANGED <<calls, session, mechanism, watched>>

\* The connection is closed by the server, or lost with what it carried.
Cuts(c) ==
    /\ Act /\ Live(c) /\ ~conns[c].cut
    /\ \E count \in {0, Len(conns[c].stream)} :
          conns' = [conns EXCEPT ![c].cut = TRUE, ![c].stream = SubSeq(@, 1, count)]
    /\ UNCHANGED <<calls, session, server>>

\* Or sends a line that does not end.
Floods(c) ==
    /\ Act /\ Live(c) /\ ~conns[c].cut
    /\ conns' = [conns EXCEPT ![c].stream = @ \o [i \in 1..(MaxLine + 1) |-> <<"flood">>],
                              ![c].cut = TRUE]
    /\ UNCHANGED <<calls, session, server>>

----------------------------------------------------------------------------
Init ==
    /\ NativeInit
    /\ kind = "idle" /\ current = 0 /\ phase = "disconnected"
    /\ notify = [n \in Nicks |-> "absent"] /\ support = "poll" /\ timers = 0
    /\ mechanism \in Mechanisms /\ online = {} /\ watched = [c \in Conns |-> {}]
    /\ crossed = {} /\ acts = 0

Shell == (TakesSend \/ TakesDisconnect) /\ UNCHANGED <<session, server, acts>>

Pumps(c) == Pump(c) /\ UNCHANGED <<calls, session, server, acts>>

Runs == Shell \/ \E c \in Conns : Pumps(c) \/ Hears(c) \/ Serves(c)

Next ==
    \/ Dials \/ Opens \/ FailsToOpen \/ Polls \/ Disconnects \/ GivesUpOn \/ Runs
    \/ \E n \in Nicks : Adds(n) \/ Removes(n) \/ Flips(n)
    \/ \E c \in Conns : Cuts(c) \/ Floods(c)

\* The runtime goes on with one task or another, and the server with reading.
Fairness == WF_vars(Runs)

Spec == Init /\ [][Next]_vars /\ Fairness

----------------------------------------------------------------------------
TypeOK ==
    /\ NativeTypeOK
    /\ kind \in {"idle", "connecting", "connected", "waiting", "stopped"}
    /\ current \in Conns \cup {0} /\ current # 0 <=> kind = "connected"
    /\ phase \in {"disconnected", "connecting", "registering", "registered"}
    /\ notify \in [Nicks -> {"absent", "unknown", "online", "offline"}]
    /\ mechanism \in Mechanisms /\ support \in Mechanisms \cup {"poll"}
    /\ online \subseteq Nicks /\ crossed \subseteq Nicks /\ \A c \in Conns : watched[c] \subseteq Nicks
    /\ acts \in 0..Acts

Quiet(c) ==
    /\ calls = <<>> /\ conns[c].pump = "running" /\ ~conns[c].cut
    /\ conns[c].outgoing \o conns[c].inbox \o conns[c].stream \o conns[c].events = <<>>

\* Once all is said the server watches whom we list, and who is shown online
\* is (notify.ts 198-204), but for what a report put back, and unless that
\* took the place of another.
FriendsAgree ==
    /\ phase = "registered" /\ Quiet(current) /\ support # "poll"
    /\ crossed = {} \/ Cardinality(Nicks) <= Limit
    =>
       \A n \in Nicks \ crossed :
          /\ n \in Listed <=> n \in watched[current]
          /\ n \in Listed => notify[n] = IF n \in online THEN "online" ELSE "offline"

\* Somebody listed does not stay unknown while the connection stands.
BecomesKnown ==
    \A n \in Nicks :
       (phase = "registered" /\ support # "poll" /\ notify[n] = "unknown")
          ~> (phase # "registered" \/ notify[n] # "unknown")

\* There is one poll timer at most, and none after a close (session.ts 714-718).
OnePollTimer == timers <= IF phase = "disconnected" THEN 0 ELSE 1

\* What a connection that is no longer ours still reports is not heard
\* (transport/tauri.ts 160-175).
HeardFromOurs ==
    [][\A c \in Conns \ {current} :
          Len(conns'[c].events) < Len(conns[c].events) => UNCHANGED <<session, calls>>]_vars

\* A connection that is given up ends, whatever was still to be written, and
\* the registry lets go of one that ended (connection.rs 222-228,
\* transport.rs 219-224).
Released ==
    \A c \in Conns :
       (conns[c].pump # "none" /\ c # current) ~> (conns[c].pump = "ended" /\ ~conns[c].handle)

\* Both lists agree at rest, and one timer at most asks in their stead.
ListsAgree == TypeOK /\ FriendsAgree /\ OnePollTimer

\* A connection given up is neither heard again nor kept.
LetGo == HeardFromOurs /\ Released

=============================================================================
