---------------------------- MODULE Registration ----------------------------
(***************************************************************************)
(* Signing on to a server: the capability negotiation of                   *)
(* packages/protocol/src/caps.ts, the registration part of the reducer     *)
(* (packages/client/src/state/reduce.ts) and the SASL driver of the        *)
(* session (packages/client/src/session.ts), over the connections the      *)
(* reconnecting transport makes (Connector) and against a server.          *)
(*                                                                         *)
(* Lines travel through two queues. A handler runs to completion, and what *)
(* follows an `await` of the keychain or of WebCrypto is an action of its  *)
(* own, found in `awaits` together with the connection it was started on.  *)
(***************************************************************************)
EXTENDS Naturals, Sequences, FiniteSets

CONSTANTS
    Caps,           \* the desired capabilities some server offers
    Sasl,           \* the one called `sasl`
    Auth,           \* profile.auth: "none", "sasl" or "password"
    Scram,          \* the mechanism takes two responses instead of one
    AltNicks,       \* how many alternatives the profile lists
    Room,           \* how many underscores the nick length leaves room for
    MaxTaken,       \* how many of those nicks somebody else may hold
    Connections,    \* bound on the connections made
    Changes,        \* bound on the CAP NEW and CAP DEL of a connection
    SlowAwaits,     \* an await may outlast the connection it began on
    SteadyOffer     \* every connection finds the same capabilities

ASSUME CapsAssumption == Sasl \in Caps
ASSUME ProfileAssumption ==
    /\ Auth \in {"none", "sasl", "password"}
    /\ Scram \in BOOLEAN /\ SlowAwaits \in BOOLEAN /\ SteadyOffer \in BOOLEAN
    /\ AltNicks \in Nat /\ Room \in Nat /\ MaxTaken \in Nat
    /\ Connections \in Nat /\ Changes \in Nat

VARIABLES
    kind, announced,    \* the transport, as the Connector promises it
    connection,         \* number of the connection in hand
    phase,              \* NetworkState.phase
    capPhase,           \* NetworkState.caps.phase
    available, enabled, \* NetworkState.caps: offered, and acknowledged
    nick, triedNicks,   \* nicks are numbered in the order nextNick tries them
    mechanism,          \* connection whose beginSasl built it; 0 is undefined
    responses,          \* how many responses it has produced
    awaits,             \* continuations: what is awaited, and since when
    toServer, toClient, \* lines under way
    server              \* the far end of the connection in hand

link == <<kind, announced, connection>>
caps == <<capPhase, available, enabled>>
naming == <<nick, triedNicks>>
sasl == <<mechanism, responses, awaits>>
wire == <<toServer, toClient>>
vars == <<link, phase, caps, naming, sasl, wire, server>>

Link == INSTANCE Connector

----------------------------------------------------------------------------
(* Lines.                                                                  *)

Line(cmd) == [cmd |-> cmd, caps |-> {}, nick |-> 0, from |-> 0]
CapLine(cmd, set) == [Line(cmd) EXCEPT !.caps = set]
NickLine(cmd, n) == [Line(cmd) EXCEPT !.nick = n]
RenameLine(m, n) == [Line("NICK") EXCEPT !.from = m, !.nick = n]

\* What startRegistration sends.
Opening == <<Line("LS"), NickLine("NICK", 0), Line("USER")>>

FirstLines_Twice == IF connection = 0 THEN Opening \o Opening ELSE Opening

\* What a new connection is sent before the first await of register().
FirstLines == IF Auth = "password" THEN <<>> ELSE Opening

\* write(): a line for a transport that is not connected throws.
Write(lines) ==
    toServer' = IF kind = "connected" THEN toServer \o lines ELSE toServer

----------------------------------------------------------------------------
(* The transport's part.                                                   *)

\* connect(), and every attempt the wrapper makes after it. The session
\* moves its phase only from one that claimed a connection.
Dials ==
    /\ Link!Dial
    /\ phase' = IF kind = "idle" \/ phase \in {"registered", "registering"}
                   THEN "connecting" ELSE phase
    /\ UNCHANGED <<connection, caps, naming, sasl, wire, server>>

\* A connection: register() up to its await, startRegistration included.
Opens ==
    /\ Link!Open
    /\ connection < Connections
    /\ connection' = connection + 1
    /\ phase' = "registering"
    /\ capPhase' = "listing"
    /\ nick' = 0 /\ triedNicks' = {0}
    /\ toClient' = <<>> /\ toServer' = FirstLines
    /\ awaits' = IF Auth = "password" THEN awaits \cup {<<"password", connection'>>} ELSE awaits
    /\ \E offer \in IF SteadyOffer THEN {Caps} ELSE SUBSET Caps :
       \E taken \in 0..MaxTaken :
          server' = [offer |-> offer, acked |-> {}, held |-> FALSE,
                     user |-> FALSE, named |-> FALSE, nick |-> 0,
                     taken |-> taken, refused |-> {}, auth |-> "idle",
                     gaveUp |-> FALSE, openings |-> 0, changes |-> 0,
                     welcomed |-> FALSE, closing |-> FALSE]
    /\ UNCHANGED <<available, enabled, mechanism, responses>>

Loses_KeepsPhase ==
    /\ Link!Lose
    /\ SlowAwaits \/ awaits = {}
    /\ toServer' = <<>> /\ toClient' = <<>>
    /\ UNCHANGED <<connection, phase, caps, naming, sasl, server>>

\* The connection is lost and will be retried: no close is announced, so
\* the state handler of the session is all that runs.
Loses ==
    /\ Link!Lose
    /\ SlowAwaits \/ awaits = {}
    /\ phase' = IF phase \in {"registered", "registering"} THEN "connecting" ELSE phase
    /\ toServer' = <<>> /\ toClient' = <<>>
    /\ UNCHANGED <<connection, caps, naming, sasl, server>>

\* It ends for good: handleClose().
Stops ==
    /\ Link!Stop
    /\ phase' = "disconnected"
    /\ mechanism' = 0 /\ responses' = 0
    /\ toServer' = <<>> /\ toClient' = <<>>
    /\ UNCHANGED <<connection, caps, naming, awaits, server>>

----------------------------------------------------------------------------
(* Continuations.                                                          *)

\* Stops waiting for `what`, asked on connection `c`.
Resumes(what, c) ==
    /\ <<what, c>> \in awaits
    /\ awaits' = awaits \ {<<what, c>>}

FailAuth_EndFirst == mechanism' = 0 /\ responses' = 0 /\ Write(<<Line("END"), Line("ABORT")>>)
FailAuth_Silent == mechanism' = 0 /\ responses' = 0 /\ Write(<<Line("ABORT")>>)

\* failAuth(): the server is told to drop the exchange and to carry on.
FailAuth ==
    /\ mechanism' = 0 /\ responses' = 0
    /\ Write(<<Line("ABORT"), Line("END")>>)

PasswordRead_Late(c) ==
    /\ Resumes("password", c)
    /\ Write(Opening \o <<Line("PASS")>>)
    /\ UNCHANGED <<link, phase, caps, naming, mechanism, responses, toClient, server>>

\* register() after its await: the password goes first, when there is one.
PasswordRead(c) ==
    /\ Resumes("password", c)
    /\ Write(Opening) \/ Write(<<Line("PASS")>> \o Opening)
    /\ UNCHANGED <<link, phase, caps, naming, mechanism, responses, toClient, server>>

\* beginSasl() after its await, with or without the credentials.
CredentialsRead(c) ==
    /\ Resumes("credentials", c)
    /\ \/ FailAuth
       \/ /\ mechanism' = c /\ responses' = 0
          /\ Write(<<Line("AUTHENTICATE")>>)
    /\ UNCHANGED <<link, phase, caps, naming, toClient, server>>

\* handleAuthenticate() after its await: a mechanism that was replaced or
\* given up since has nothing to say.
Responded(c) ==
    /\ Resumes("response", c)
    /\ \/ /\ mechanism = c
          /\ responses' = 2
          /\ Write(<<Line("PAYLOAD")>>)
       \/ /\ mechanism # c
          /\ UNCHANGED <<responses, toServer>>
    /\ UNCHANGED <<link, phase, caps, naming, mechanism, toClient, server>>

----------------------------------------------------------------------------
(* The lines a client reads, one action each.                              *)

Reads(cmd) ==
    /\ kind = "connected"
    /\ toClient # <<>> /\ Head(toClient).cmd = cmd
    /\ toClient' = Tail(toClient)
    /\ UNCHANGED <<link, server>>

Heard == Head(toClient)

\* handleLine(): the exchange is over once registration is.
SaslAfter(next) ==
    /\ mechanism' = IF next = "registered" THEN 0 ELSE mechanism
    /\ responses' = IF next = "registered" THEN 0 ELSE responses
    /\ UNCHANGED awaits

\* CAP LS with more of it to come.
ListContinues ==
    /\ Reads("LS*")
    /\ available' = available \cup Heard.caps
    /\ SaslAfter(phase)
    /\ UNCHANGED <<phase, capPhase, enabled, naming, toServer>>

\* The last CAP LS: everything offered is requested at once.
ListEnds ==
    /\ Reads("LS")
    /\ available' = available \cup Heard.caps
    /\ \/ /\ available' = {}
          /\ capPhase' = "done"
          /\ Write(<<Line("END")>>)
       \/ /\ available' # {}
          /\ capPhase' = "requesting"
          /\ Write(<<CapLine("REQ", available')>>)
    /\ SaslAfter(phase)
    /\ UNCHANGED <<phase, enabled, naming>>

\* CAP ACK. With `sasl` in hand beginSasl() runs up to its await, or finds
\* that the mechanism is not among those the server lists.
Acknowledged ==
    /\ Reads("ACK")
    /\ enabled' = enabled \cup Heard.caps
    /\ \/ /\ capPhase # "requesting"
          /\ SaslAfter(phase)
          /\ UNCHANGED <<capPhase, toServer>>
       \/ /\ capPhase = "requesting"
          /\ Auth = "sasl" /\ Sasl \in enabled'
          /\ capPhase' = "authenticating"
          /\ \/ FailAuth /\ UNCHANGED awaits
             \/ /\ awaits' = awaits \cup {<<"credentials", connection>>}
                /\ UNCHANGED <<mechanism, responses, toServer>>
       \/ /\ capPhase = "requesting"
          /\ Auth # "sasl" \/ Sasl \notin enabled'
          /\ capPhase' = "done"
          /\ Write(<<Line("END")>>)
          /\ SaslAfter(phase)
    /\ UNCHANGED <<phase, available, naming>>

Refused_Waits == Reads("NAK") /\ SaslAfter(phase) /\ UNCHANGED <<phase, caps, naming, toServer>>

\* CAP NAK: nothing asked for is granted, and no smaller request follows.
Refused ==
    /\ Reads("NAK")
    /\ \/ /\ capPhase = "requesting"
          /\ capPhase' = "done"
          /\ Write(<<Line("END")>>)
       \/ /\ capPhase # "requesting"
          /\ UNCHANGED <<capPhase, toServer>>
    /\ SaslAfter(phase)
    /\ UNCHANGED <<phase, available, enabled, naming>>

\* CAP NEW: whatever is not enabled yet is requested.
Gained ==
    /\ Reads("NEW")
    /\ available' = available \cup Heard.caps
    /\ LET wanted == Heard.caps \ enabled
       IN  Write(IF wanted = {} THEN <<>> ELSE <<CapLine("REQ", wanted)>>)
    /\ SaslAfter(phase)
    /\ UNCHANGED <<phase, capPhase, enabled, naming>>

Lost_KeepsEnabled ==
    /\ Reads("DEL")
    /\ available' = available \ Heard.caps
    /\ SaslAfter(phase)
    /\ UNCHANGED <<phase, capPhase, enabled, naming, toServer>>

\* CAP DEL.
Lost ==
    /\ Reads("DEL")
    /\ available' = available \ Heard.caps
    /\ enabled' = enabled \ Heard.caps
    /\ SaslAfter(phase)
    /\ UNCHANGED <<phase, capPhase, naming, toServer>>

Challenged_Always ==
    /\ Reads("CHALLENGE") \/ Reads("BADCHALLENGE")
    /\ responses' = IF mechanism = 0 THEN responses ELSE responses + 1
    /\ Write(IF mechanism = 0 THEN <<>> ELSE <<Line("PAYLOAD")>>)
    /\ UNCHANGED <<mechanism, awaits, phase, caps, naming>>

\* AUTHENTICATE. The first challenge asks for the initial response. Only
\* SCRAM answers a second one, after WebCrypto, and checks the last.
Challenged ==
    /\ Reads("CHALLENGE") \/ Reads("BADCHALLENGE")
    /\ \/ /\ mechanism = 0
          /\ UNCHANGED <<sasl, toServer>>
       \/ /\ mechanism # 0 /\ responses = 0
          /\ responses' = 1
          /\ Write(<<Line("PAYLOAD")>>)
          /\ UNCHANGED <<mechanism, awaits>>
       \/ /\ mechanism # 0 /\ responses > 0
          /\ Scram /\ Heard.cmd = "BADCHALLENGE"
          /\ FailAuth
          /\ UNCHANGED awaits
       \/ /\ mechanism # 0 /\ responses > 0
          /\ ~Scram \/ Heard.cmd = "CHALLENGE"
          /\ awaits' = IF Scram /\ responses = 1
                          THEN awaits \cup {<<"response", mechanism>>} ELSE awaits
          /\ UNCHANGED <<mechanism, responses, toServer>>
    /\ UNCHANGED <<phase, caps, naming>>

\* 903 to 906: the account or a notice, and nothing sent.
Outcome ==
    /\ Reads("OUTCOME")
    /\ SaslAfter(phase)
    /\ UNCHANGED <<phase, caps, naming, toServer>>

Untried == (1..AltNicks) \ triedNicks
Least(S) == CHOOSE n \in S : \A m \in S : n <= m
Longest == AltNicks + Room

NextNick_Alternative == IF AltNicks > 0 THEN AltNicks ELSE nick + 1

\* nextNick(): an alternative, or the last nick and an underscore, cut to
\* the length the server allows.
NextNick ==
    IF Untried # {} THEN Least(Untried)
    ELSE LET longer == Least((nick + 1)..(Longest + 2) \ triedNicks)
         IN  IF longer > Longest THEN Longest ELSE longer

\* 433 and the like, which only mean something while registering.
Collides ==
    /\ Reads("433")
    /\ \/ /\ phase = "registering"
          /\ nick' = NextNick
          /\ triedNicks' = triedNicks \cup {NextNick}
          /\ Write(<<NickLine("NICK", NextNick)>>)
       \/ /\ phase # "registering"
          /\ UNCHANGED <<naming, toServer>>
    /\ SaslAfter(phase)
    /\ UNCHANGED <<phase, caps>>

Welcomed_OwnNick ==
    /\ Reads("001")
    /\ phase' = "registered"
    /\ SaslAfter("registered")
    /\ UNCHANGED <<caps, nick, triedNicks, toServer>>

\* 001.
Welcomed ==
    /\ Reads("001")
    /\ phase' = "registered"
    /\ nick' = Heard.nick
    /\ SaslAfter("registered")
    /\ UNCHANGED <<caps, triedNicks, toServer>>

\* 376 or 422: the autojoins of onRegistered() are not modelled.
MotdEnds ==
    /\ Reads("376")
    /\ phase' = "registered"
    /\ SaslAfter("registered")
    /\ UNCHANGED <<caps, naming, toServer>>

\* NICK: somebody is renamed, and it may be us.
Renamed ==
    /\ Reads("NICK")
    /\ nick' = IF Heard.from = nick THEN Heard.nick ELSE nick
    /\ SaslAfter(phase)
    /\ UNCHANGED <<phase, caps, triedNicks, toServer>>

\* The user asks for another nick: session.send(). The state follows when
\* the server says so. Bounded to one request at a time.
ChangesNick ==
    /\ kind = "connected" /\ phase = "registered"
    /\ toServer = <<>> /\ toClient = <<>>
    /\ \E n \in 0..Longest : Write(<<NickLine("NICK", n)>>)
    /\ UNCHANGED <<link, phase, caps, naming, sasl, toClient, server>>

\* ERROR, before the server closes.
Dismissed ==
    /\ Reads("ERROR")
    /\ phase' = "disconnected"
    /\ SaslAfter("disconnected")
    /\ UNCHANGED <<caps, naming, toServer>>

ClientReads ==
    \/ ListContinues \/ ListEnds \/ Acknowledged \/ Refused \/ Gained \/ Lost
    \/ Challenged \/ Outcome \/ Collides \/ Welcomed \/ MotdEnds \/ Renamed
    \/ Dismissed

----------------------------------------------------------------------------
(* The server, as RFC 2812 and the IRCv3 extensions have it.               *)

Asked == Head(toServer)

\* The next line for the server to read.
Asks(cmd) == kind = "connected" /\ toServer # <<>> /\ Asked.cmd = cmd

\* Having read it the server becomes `next` and says `lines`.
Serves(next, lines) ==
    /\ toServer' = Tail(toServer)
    /\ server' = next
    /\ toClient' = toClient \o lines
    /\ UNCHANGED <<link, phase, caps, naming, sasl>>

\* A long offer is split over two lines, the first marked as such.
Lists ==
    /\ Asks("LS")
    /\ \E first \in {{}, server.offer \cap {Sasl}} :
          Serves([server EXCEPT !.held = ~server.welcomed, !.openings = @ + 1],
                 (IF first = {} THEN <<>> ELSE <<CapLine("LS*", first)>>)
                 \o <<CapLine("LS", server.offer \ first)>>)

\* A request is granted as a whole or not at all.
Grants ==
    /\ Asks("REQ")
    /\ IF Asked.caps \subseteq server.offer
          THEN Serves([server EXCEPT !.acked = @ \cup Asked.caps], <<CapLine("ACK", Asked.caps)>>)
          ELSE Serves(server, <<CapLine("NAK", Asked.caps)>>)

\* Ending the negotiation in mid-exchange aborts the exchange.
Ends ==
    /\ Asks("END")
    /\ Serves([server EXCEPT !.held = FALSE, !.auth = "idle"],
              IF server.auth = "idle" THEN <<>> ELSE <<Line("OUTCOME")>>)

\* The nick of a server that cuts one it finds too long, instead of refusing.
Shortened == Longest + 1

Names ==
    /\ Asks("NICK")
    /\ \/ /\ Asked.nick < server.taken
          /\ Serves([server EXCEPT !.refused = @ \cup {Asked.nick}], <<Line("433")>>)
       \/ /\ Asked.nick >= server.taken
          /\ \E given \in {Asked.nick, Shortened} :
                Serves([server EXCEPT !.named = TRUE, !.nick = given],
                       IF server.welcomed /\ given # server.nick
                          THEN <<RenameLine(server.nick, given)>> ELSE <<>>)

Identifies ==
    \/ Asks("USER") /\ Serves([server EXCEPT !.user = TRUE], <<>>)
    \/ Asks("PASS") /\ Serves(server, <<>>)

\* A mechanism named out of turn is taken for a response, and a bad one.
StartsExchange ==
    /\ Asks("AUTHENTICATE")
    /\ IF Sasl \in server.acked /\ server.auth = "idle"
          THEN Serves([server EXCEPT !.auth = "first"], <<Line("CHALLENGE")>>)
          ELSE Serves([server EXCEPT !.auth = "idle"], <<Line("OUTCOME")>>)

\* SCRAM has two responses to judge, and a last message to prove itself.
Judges ==
    /\ Asks("PAYLOAD")
    /\ \/ Serves([server EXCEPT !.auth = "idle"], <<Line("OUTCOME")>>)
       \/ /\ Scram /\ server.auth = "first"
          /\ \E challenge \in {"CHALLENGE", "BADCHALLENGE"} :
                Serves([server EXCEPT !.auth = "second"], <<Line(challenge)>>)
       \/ /\ Scram /\ server.auth = "second"
          /\ \E challenge \in {"CHALLENGE", "BADCHALLENGE"} :
                Serves([server EXCEPT !.auth = "idle"], <<Line(challenge), Line("OUTCOME")>>)

Aborts ==
    /\ Asks("ABORT")
    /\ Serves([server EXCEPT !.auth = "idle", !.gaveUp = TRUE], <<Line("OUTCOME")>>)

ServerReads ==
    \/ Lists \/ Grants \/ Ends \/ Names \/ Identifies
    \/ StartsExchange \/ Judges \/ Aborts

\* The server speaks unasked.
Says(next, lines) ==
    /\ kind = "connected" /\ ~server.closing
    /\ server' = next
    /\ toClient' = toClient \o lines
    /\ UNCHANGED <<link, phase, caps, naming, sasl, toServer>>

\* Everything it was waiting for is there.
Welcomes ==
    /\ server.user /\ server.named /\ ~server.held /\ ~server.welcomed
    /\ Says([server EXCEPT !.welcomed = TRUE],
            <<NickLine("001", server.nick), Line("376")>>)

\* cap-notify, which CAP LS 302 switches on.
Notifies ==
    /\ server.openings > 0 /\ server.changes < Changes
    /\ \E c \in Caps :
          LET next == [server EXCEPT !.changes = @ + 1] IN
          \/ /\ c \notin server.offer
             /\ Says([next EXCEPT !.offer = @ \cup {c}], <<CapLine("NEW", {c})>>)
          \/ /\ c \in server.offer
             /\ Says([next EXCEPT !.offer = @ \ {c}, !.acked = @ \ {c}], <<CapLine("DEL", {c})>>)

Dismisses == Says([server EXCEPT !.closing = TRUE], <<Line("ERROR")>>)

----------------------------------------------------------------------------
Init ==
    /\ Link!Init
    /\ connection = 0
    /\ phase = "disconnected"
    /\ capPhase = "idle" /\ available = {} /\ enabled = {}
    /\ nick = 0 /\ triedNicks = {}
    /\ mechanism = 0 /\ responses = 0 /\ awaits = {}
    /\ toServer = <<>> /\ toClient = <<>>
    /\ server = [offer |-> {}, acked |-> {}, held |-> FALSE,
                 user |-> FALSE, named |-> FALSE, nick |-> 0,
                 taken |-> 0, refused |-> {}, auth |-> "idle",
                 gaveUp |-> FALSE, openings |-> 0, changes |-> 0,
                 welcomed |-> FALSE, closing |-> FALSE]

Continues ==
    \E c \in 1..Connections :
       PasswordRead(c) \/ CredentialsRead(c) \/ Responded(c)

Next ==
    \/ Dials \/ Opens \/ Loses \/ Stops
    \/ Continues
    \/ ClientReads \/ ChangesNick
    \/ ServerReads \/ Welcomes \/ Notifies \/ Dismisses

\* Lines arrive and are read, the keychain and WebCrypto answer.
Fairness ==
    /\ WF_vars(ClientReads) /\ WF_vars(ServerReads) /\ WF_vars(Welcomes)
    /\ WF_vars(Continues)

Spec == Init /\ [][Next]_vars
FairSpec == Spec /\ Fairness

----------------------------------------------------------------------------
Nicks == 0..Shortened

Commands ==
    {"LS*", "LS", "ACK", "NAK", "NEW", "DEL", "CHALLENGE", "BADCHALLENGE", "OUTCOME",
     "433", "001", "376", "ERROR", "REQ", "END", "NICK", "USER", "PASS",
     "AUTHENTICATE", "PAYLOAD", "ABORT"}

Lines == [cmd : Commands, caps : SUBSET Caps, nick : Nicks, from : Nicks]

Servers ==
    [offer : SUBSET Caps, acked : SUBSET Caps, held : BOOLEAN, user : BOOLEAN,
     named : BOOLEAN, nick : Nicks, taken : 0..MaxTaken, refused : SUBSET Nicks,
     auth : {"idle", "first", "second"}, gaveUp : BOOLEAN, openings : Nat,
     changes : 0..Changes, welcomed : BOOLEAN, closing : BOOLEAN]

LinkOK ==
    /\ kind \in {"idle", "connecting", "connected", "waiting", "stopped"}
    /\ announced \in Nat /\ connection \in 0..Connections

SessionOK ==
    /\ phase \in {"disconnected", "connecting", "registering", "registered"}
    /\ capPhase \in {"idle", "listing", "requesting", "authenticating", "done"}
    /\ available \subseteq Caps /\ enabled \subseteq Caps
    /\ nick \in Nicks /\ triedNicks \subseteq 0..Longest
    /\ mechanism \in 0..Connections /\ responses \in 0..2
    /\ awaits \subseteq {"password", "credentials", "response"} \X (1..Connections)

WireOK == toServer \in Seq(Lines) /\ toClient \in Seq(Lines)

TypeOK == LinkOK /\ SessionOK /\ WireOK /\ server \in Servers

\* The session says it is registered only on a connection whose server has
\* welcomed it: neither a retried drop nor a late continuation leaves the
\* claim standing (session.ts 821-838, reduce.ts 1258 and 1293).
RegisteredIsWelcomed == phase = "registered" => kind = "connected" /\ server.welcomed

\* Once everything said has been heard, both ends agree on the nick, however
\* many were refused on the way (reduce.ts 1258-1265, 1617-1643).
AgreesOnNick ==
    kind = "connected" /\ server.welcomed /\ toClient = <<>> /\ toServer = <<>>
       => nick = server.nick

\* ... and on the capabilities, however the offer changed meanwhile: what
\* `enabled` holds is what this server acknowledged (caps.ts 55-56, 174-268).
AgreesOnCaps ==
    kind = "connected" /\ server.welcomed /\ toClient = <<>> /\ toServer = <<>>
       => enabled = server.acked

\* CAP END does not reach a server in the middle of an exchange, which it
\* would abort (caps.ts 126-129).
EndHeldBack ==
    toServer # <<>> /\ Asked.cmd = "END" => server.auth = "idle"

\* A response is an answer to a challenge of the connection it goes out on
\* (session.ts 613-616).
ResponsesAnswer ==
    toServer # <<>> /\ Asked.cmd = "PAYLOAD" => server.auth # "idle"

\* No nick is asked for again on the connection that refused it (nextNick).
NotRefusedTwice ==
    phase = "registering" /\ toServer # <<>> /\ Asked.cmd = "NICK"
       => Asked.nick \notin server.refused

\* A server password arrives before the nick it is for (session.ts 944-952).
PasswordFirst ==
    toServer # <<>> /\ Asked.cmd = "PASS" => ~server.named /\ ~server.user

\* A connection is opened with once (register: once per connection).
OpenedOnce == server.openings <= 1

\* A connection that stays up is registered on in the end.
Registers ==
    <>[](kind = "connected" /\ ~server.closing) => <>(phase = "registered")

\* ... also when signing in was given up on the way (failAuth).
RegistersUnauthenticated ==
    <>[](kind = "connected" /\ ~server.closing /\ server.gaveUp) => <>(phase = "registered")

\* Both ends agree at rest on the nick and the capabilities.
Agrees == AgreesOnNick /\ AgreesOnCaps

\* What we ask for comes in order: the password before the nick, and no nick
\* that was refused.
AsksInOrder == PasswordFirst /\ NotRefusedTwice

\* Each connection is opened with once, and an exchange goes through whole:
\* answers answer it, and the end of the negotiation waits for it.
ExchangeKept == TypeOK /\ OpenedOnce /\ ResponsesAnswer /\ EndHeldBack

=============================================================================
