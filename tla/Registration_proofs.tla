------------------------ MODULE Registration_proofs ------------------------
(***************************************************************************)
(* Proofs about signing on, for any capabilities, kind of authentication,  *)
(* nicks and number of connections, whether or not an await outlasts the   *)
(* connection it began on.                                                 *)
(*                                                                         *)
(* A welcome that is still under way comes from the server in hand: with   *)
(* that, `registered` is claimed only on a connection that was welcomed.   *)
(*                                                                         *)
(* The rest is about what the two queues hold between them: one LS and the *)
(* nick after it, one move of an exchange, one nick to be settled, and for *)
(* each capability the last word. It is shown where an await answers       *)
(* before its connection is lost, or there is no other connection          *)
(* (OneAtATime).                                                           *)
(***************************************************************************)
EXTENDS Registration, TLAPS, SequenceTheorems, WellFoundedInduction

WelcomeCmds == {"001", "376"}

\* Nothing in `lines` makes the session registered.
NoWelcome(lines) == \A i \in 1..Len(lines) : lines[i].cmd \notin WelcomeCmds

\* A welcome under way was sent by the server in hand.
WelcomeSaid ==
    \A i \in 1..Len(toClient) : toClient[i].cmd \in WelcomeCmds => server.welcomed

\* A transport that is connected has connected.
ConnectedHasNumber == kind = "connected" => connection > 0

Inv == TypeOK /\ WelcomeSaid /\ RegisteredIsWelcomed /\ ConnectedHasNumber

----------------------------------------------------------------------------
(* Lines, queues and numbers.                                              *)

LEMMA LineType ==
    ASSUME NEW cmd \in Commands
    PROVE  /\ Line(cmd) \in Lines /\ Line(cmd).cmd = cmd
           /\ \A set \in SUBSET Caps :
                 CapLine(cmd, set) \in Lines /\ CapLine(cmd, set).cmd = cmd
           /\ \A n \in Nicks : NickLine(cmd, n) \in Lines /\ NickLine(cmd, n).cmd = cmd
<1>1. 0 \in Nicks
  BY ProfileAssumption DEF Nicks, Shortened, Longest
<1>2. Line(cmd) \in Lines /\ Line(cmd).cmd = cmd
  BY <1>1 DEF Line, Lines
<1>3. ASSUME NEW set \in SUBSET Caps
      PROVE  CapLine(cmd, set) \in Lines /\ CapLine(cmd, set).cmd = cmd
  BY <1>1 DEF Line, CapLine, Lines
<1>4. ASSUME NEW n \in Nicks
      PROVE  NickLine(cmd, n) \in Lines /\ NickLine(cmd, n).cmd = cmd
  BY <1>1, <1>4 DEF Line, NickLine, Lines
<1> QED BY <1>2, <1>3, <1>4

LEMMA RenameLineType ==
    ASSUME NEW m \in Nicks, NEW n \in Nicks
    PROVE  RenameLine(m, n) \in Lines /\ RenameLine(m, n).cmd = "NICK"
<1>1. 0 \in Nicks
  BY ProfileAssumption DEF Nicks, Shortened, Longest
<1>2. "NICK" \in Commands
  BY DEF Commands
<1> QED BY <1>1, <1>2 DEF RenameLine, Line, Lines

LEMMA OpeningType == Opening \in Seq(Lines)
<1>1. 0 \in Nicks
  BY ProfileAssumption DEF Nicks, Shortened, Longest
<1> "LS" \in Commands /\ "NICK" \in Commands /\ "USER" \in Commands
  BY DEF Commands
<1>2. Line("LS") \in Lines /\ NickLine("NICK", 0) \in Lines /\ Line("USER") \in Lines
  BY <1>1 DEF Line, NickLine, Lines
<1> QED BY <1>2 DEF Opening

\* What may be appended to a queue may be written.
LEMMA WriteType ==
    ASSUME TypeOK, NEW lines \in Seq(Lines), Write(lines)
    PROVE  toServer' \in Seq(Lines)
BY ConcatProperties DEF TypeOK, WireOK, Write

LEMMA LeastType ==
    ASSUME NEW S, S \subseteq Nat, S # {}
    PROVE  Least(S) \in S
<1> DEFINE R == OpToRel(<, Nat)
<1>1. \E n \in S : \A m \in S : <<m, n>> \notin R
  <2>1. IsWellFoundedOn(R, Nat)
    BY NatLessThanWellFounded
  <2> HIDE DEF R
  <2> QED BY <2>1, WFMin
<1>2. \E n \in S : \A m \in S : n <= m
  <2>1. PICK n \in S : \A m \in S : <<m, n>> \notin R
    BY <1>1
  <2>2. \A m \in S : ~(m < n)
    BY <2>1 DEF OpToRel
  <2> QED BY <2>2
<1> QED BY <1>2 DEF Least

\* No nick that nextNick() comes up with is too long for the server.
LEMMA NextNickType ==
    ASSUME TypeOK
    PROVE  NextNick \in 0..Longest
<1>1. Longest \in Nat /\ AltNicks \in Nat /\ AltNicks <= Longest
  BY ProfileAssumption DEF Longest
<1>2. CASE Untried # {}
  <2>1. Untried \subseteq 0..Longest
    BY <1>1 DEF Untried
  <2>2. Untried \subseteq Nat
    BY <1>1 DEF Untried
  <2>3. Least(Untried) \in Untried
    BY <1>2, <2>2, LeastType
  <2> QED BY <1>2, <2>1, <2>3 DEF NextNick
<1>3. CASE Untried = {}
  <2> DEFINE longer == (nick + 1)..(Longest + 2) \ triedNicks
  <2>1. nick \in 0..(Longest + 1) /\ triedNicks \subseteq 0..Longest
    BY DEF TypeOK, SessionOK, Nicks, Shortened
  <2>2. Longest + 2 \in longer
    BY <1>1, <2>1
  <2>3. longer \subseteq Nat
    BY <1>1, <2>1
  <2>4. Least(longer) \in longer
    BY <2>2, <2>3, LeastType
  <2>5. Least(longer) \in Nat
    BY <2>3, <2>4
  <2> QED BY <1>1, <1>3, <2>5 DEF NextNick
<1> QED BY <1>2, <1>3

----------------------------------------------------------------------------
(* What reading and sending a line keep.                                   *)

\* Whatever the client reads is a line, and a welcome only from a server
\* that did welcome it.
LEMMA ReadsOK ==
    ASSUME Inv, NEW cmd, Reads(cmd)
    PROVE  /\ Heard \in Lines /\ Heard.cmd = cmd
           /\ toClient' \in Seq(Lines) /\ WelcomeSaid'
           /\ cmd \in WelcomeCmds => server.welcomed
           /\ kind = "connected" /\ UNCHANGED <<link, server>>
<1>1. /\ toClient \in Seq(Lines) /\ toClient # <<>> /\ Heard.cmd = cmd
      /\ toClient' = Tail(toClient) /\ kind = "connected" /\ UNCHANGED <<link, server>>
  BY DEF Inv, TypeOK, WireOK, Reads, Heard
<1>2. toClient' \in Seq(Lines) /\ Heard \in Lines /\ Len(toClient') = Len(toClient) - 1
  BY <1>1 DEF Heard
<1>3. \A i \in 1..Len(toClient') : toClient'[i] = toClient[i + 1] /\ i + 1 \in 1..Len(toClient)
  BY <1>1, <1>2
<1>4. WelcomeSaid'
  BY <1>1, <1>3 DEF Inv, WelcomeSaid
<1>5. cmd \in WelcomeCmds => server.welcomed
  <2>1. 1 \in 1..Len(toClient) /\ toClient[1] = Heard
    BY <1>1 DEF Heard
  <2> QED BY <1>1, <2>1 DEF Inv, WelcomeSaid
<1> QED BY <1>1, <1>2, <1>4, <1>5

\* Lines of a server that was or is now welcoming, or that say no welcome.
LEMMA AppendOK ==
    ASSUME Inv, NEW next \in Servers, NEW lines \in Seq(Lines),
           server.welcomed => next.welcomed,
           NoWelcome(lines) \/ next.welcomed,
           server' = next, toClient' = toClient \o lines
    PROVE  server' \in Servers /\ toClient' \in Seq(Lines) /\ WelcomeSaid'
           /\ (server.welcomed => server'.welcomed)
<1>1. toClient \in Seq(Lines)
  BY DEF Inv, TypeOK, WireOK
<1>2. toClient' \in Seq(Lines)
  BY <1>1, ConcatProperties
<1>3. ASSUME NEW i \in 1..Len(toClient'), toClient'[i].cmd \in WelcomeCmds
      PROVE  server'.welcomed
  <2>1. CASE i \in 1..Len(toClient)
    BY <1>1, <1>3, <2>1, ConcatProperties DEF Inv, WelcomeSaid
  <2>2. CASE i \notin 1..Len(toClient)
    <3>1. i - Len(toClient) \in 1..Len(lines) /\ toClient'[i] = lines[i - Len(toClient)]
      BY <1>1, <1>3, <2>2, ConcatProperties
    <3> QED BY <1>3, <3>1 DEF NoWelcome
  <2> QED BY <2>1, <2>2
<1> QED BY <1>2, <1>3 DEF WelcomeSaid

LEMMA ServesOK ==
    ASSUME Inv, NEW next \in Servers, NEW lines \in Seq(Lines),
           server.welcomed => next.welcomed, NoWelcome(lines),
           toServer # <<>>, Serves(next, lines)
    PROVE  Inv'
<1>1. /\ server' = next /\ toClient' = toClient \o lines
      /\ toServer' = Tail(toServer)
      /\ UNCHANGED <<kind, announced, connection, phase, capPhase, available, enabled,
                     nick, triedNicks, mechanism, responses, awaits>>
  BY DEF Serves, link, caps, naming, sasl
<1>2. server' \in Servers /\ toClient' \in Seq(Lines) /\ WelcomeSaid'
      /\ (server.welcomed => server'.welcomed)
  BY <1>1, AppendOK
<1>3. toServer' \in Seq(Lines)
  BY <1>1 DEF Inv, TypeOK, WireOK
<1>4. LinkOK' /\ SessionOK' /\ RegisteredIsWelcomed'
  BY <1>1, <1>2 DEF Inv, TypeOK, LinkOK, SessionOK, RegisteredIsWelcomed
<1> QED BY <1>1, <1>2, <1>3, <1>4 DEF Inv, TypeOK, ConnectedHasNumber, WireOK

LEMMA SaysOK ==
    ASSUME Inv, NEW next \in Servers, NEW lines \in Seq(Lines),
           server.welcomed => next.welcomed,
           NoWelcome(lines) \/ next.welcomed, Says(next, lines)
    PROVE  Inv'
<1>1. /\ server' = next /\ toClient' = toClient \o lines
      /\ UNCHANGED <<kind, announced, connection, phase, capPhase, available, enabled,
                     nick, triedNicks, mechanism, responses, awaits, toServer>>
  BY DEF Says, link, caps, naming, sasl
<1>2. server' \in Servers /\ toClient' \in Seq(Lines) /\ WelcomeSaid'
      /\ (server.welcomed => server'.welcomed)
  BY <1>1, AppendOK
<1>3. LinkOK' /\ SessionOK' /\ RegisteredIsWelcomed' /\ toServer' \in Seq(Lines)
  BY <1>1, <1>2 DEF Inv, TypeOK, WireOK, LinkOK, SessionOK, RegisteredIsWelcomed
<1> QED BY <1>1, <1>2, <1>3 DEF Inv, TypeOK, ConnectedHasNumber, WireOK

----------------------------------------------------------------------------
(* The transport.                                                          *)

\* What the lines of a step that leaves the transport and the server alone
\* have to keep.
LEMMA QuietOK ==
    ASSUME Inv, SessionOK', toServer' \in Seq(Lines),
           UNCHANGED <<kind, announced, connection, toClient, server>>,
           phase' = phase \/ phase' # "registered"
    PROVE  Inv'
<1>1. LinkOK' /\ WireOK' /\ server' \in Servers
  BY DEF Inv, TypeOK, LinkOK, WireOK
<1>2. WelcomeSaid' /\ RegisteredIsWelcomed'
  BY DEF Inv, WelcomeSaid, RegisteredIsWelcomed
<1> QED BY <1>1, <1>2 DEF Inv, TypeOK, ConnectedHasNumber

LEMMA DialsOK == ASSUME Inv, Dials PROVE Inv'
<1>1. /\ kind' = "connecting" /\ announced' = announced /\ connection' = connection
      /\ phase' \in {"connecting", phase} /\ phase' # "registered"
      /\ UNCHANGED <<capPhase, available, enabled, nick, triedNicks, mechanism, responses,
                     awaits, toServer, toClient, server>>
  BY DEF Dials, Link!Dial, caps, naming, sasl, wire, Inv, TypeOK, SessionOK, RegisteredIsWelcomed
<1>2. LinkOK' /\ WireOK' /\ server' \in Servers
  BY <1>1 DEF Inv, TypeOK, LinkOK, WireOK
<1>3. SessionOK'
  BY <1>1 DEF Inv, TypeOK, SessionOK
<1>4. WelcomeSaid' /\ RegisteredIsWelcomed'
  BY <1>1 DEF Inv, WelcomeSaid, RegisteredIsWelcomed
<1> QED BY <1>1, <1>2, <1>3, <1>4 DEF Inv, TypeOK, ConnectedHasNumber

LEMMA OpensOK == ASSUME Inv, Opens PROVE Inv'
<1>1. /\ kind' = "connected" /\ announced' = announced
      /\ connection < Connections /\ connection' = connection + 1
      /\ phase' = "registering" /\ capPhase' = "listing" /\ nick' = 0 /\ triedNicks' = {0}
      /\ toClient' = <<>> /\ toServer' = FirstLines
      /\ UNCHANGED <<available, enabled, mechanism, responses>>
  BY DEF Opens, Link!Open
<1>2. connection \in Nat /\ Connections \in Nat /\ 0 \in Nicks /\ 0 \in 0..Longest
  BY ProfileAssumption DEF Inv, TypeOK, LinkOK, Nicks, Shortened, Longest
<1>3. awaits' \subseteq {"password", "credentials", "response"} \X (1..Connections)
  <2>1. awaits' \subseteq awaits \cup {<<"password", connection'>>}
    BY DEF Opens
  <2>2. connection' \in 1..Connections
    BY <1>1, <1>2
  <2> QED BY <2>1, <2>2 DEF Inv, TypeOK, SessionOK
<1>4. LinkOK' /\ SessionOK'
  BY <1>1, <1>2, <1>3 DEF Inv, TypeOK, LinkOK, SessionOK
<1>5. WireOK' /\ WelcomeSaid' /\ RegisteredIsWelcomed'
  BY <1>1, OpeningType DEF WireOK, WelcomeSaid, RegisteredIsWelcomed, FirstLines
<1>6. server' \in Servers
  <2>1. PICK offer \in SUBSET Caps, taken \in 0..MaxTaken :
           server' = [offer |-> offer, acked |-> {}, held |-> FALSE,
                     user |-> FALSE, named |-> FALSE, nick |-> 0,
                     taken |-> taken, refused |-> {}, auth |-> "idle",
                     gaveUp |-> FALSE, openings |-> 0, changes |-> 0,
                     welcomed |-> FALSE, closing |-> FALSE]
    BY DEF Opens
  <2> QED BY <1>2, <2>1, ProfileAssumption DEF Servers
<1> QED BY <1>1, <1>2, <1>4, <1>5, <1>6 DEF Inv, TypeOK, ConnectedHasNumber

LEMMA LosesOK == ASSUME Inv, Loses PROVE Inv'
<1>1. /\ kind' = "waiting" /\ announced' = announced /\ connection' = connection
      /\ phase' \in {"connecting", phase} /\ phase' # "registered"
      /\ toServer' = <<>> /\ toClient' = <<>>
      /\ UNCHANGED <<capPhase, available, enabled, nick, triedNicks, mechanism, responses,
                     awaits, server>>
  BY DEF Loses, Link!Lose, caps, naming, sasl
<1>2. LinkOK' /\ WireOK' /\ server' \in Servers
  BY <1>1 DEF Inv, TypeOK, LinkOK, WireOK
<1>3. SessionOK'
  BY <1>1 DEF Inv, TypeOK, SessionOK
<1>4. WelcomeSaid' /\ RegisteredIsWelcomed'
  BY <1>1 DEF WelcomeSaid, RegisteredIsWelcomed
<1> QED BY <1>1, <1>2, <1>3, <1>4 DEF Inv, TypeOK, ConnectedHasNumber

LEMMA StopsOK == ASSUME Inv, Stops PROVE Inv'
<1>1. /\ kind' = "stopped" /\ announced' = announced + 1 /\ connection' = connection
      /\ phase' = "disconnected" /\ mechanism' = 0 /\ responses' = 0
      /\ toServer' = <<>> /\ toClient' = <<>>
      /\ UNCHANGED <<capPhase, available, enabled, nick, triedNicks, awaits, server>>
  BY DEF Stops, Link!Stop, caps, naming
<1>2. LinkOK' /\ WireOK' /\ server' \in Servers
  BY <1>1 DEF Inv, TypeOK, LinkOK, WireOK
<1>3. SessionOK'
  BY <1>1, ProfileAssumption DEF Inv, TypeOK, SessionOK
<1>4. WelcomeSaid' /\ RegisteredIsWelcomed'
  BY <1>1 DEF WelcomeSaid, RegisteredIsWelcomed
<1> QED BY <1>1, <1>2, <1>3, <1>4 DEF Inv, TypeOK, ConnectedHasNumber

----------------------------------------------------------------------------
(* Continuations.                                                          *)

LEMMA OneLine ==
    /\ \A cmd \in Commands : Line(cmd) \in Lines /\ <<Line(cmd)>> \in Seq(Lines)
    /\ \A cmd \in Commands : \A set \in SUBSET Caps : <<CapLine(cmd, set)>> \in Seq(Lines)
    /\ \A cmd \in Commands : \A n \in Nicks : <<NickLine(cmd, n)>> \in Seq(Lines)
<1>1. ASSUME NEW l \in Lines PROVE <<l>> \in Seq(Lines)
  OBVIOUS
<1> QED BY <1>1, LineType

LEMMA FailAuthOK ==
    ASSUME Inv, FailAuth
    PROVE  mechanism' = 0 /\ responses' = 0 /\ toServer' \in Seq(Lines)
<1>1. "ABORT" \in Commands /\ "END" \in Commands
  BY DEF Commands
<1>2. Line("ABORT") \in Lines /\ Line("END") \in Lines
  BY <1>1, OneLine
<1>3. <<Line("ABORT"), Line("END")>> \in Seq(Lines)
  BY <1>2
<1> QED BY <1>3, WriteType DEF FailAuth, Inv

LEMMA PasswordReadOK == ASSUME Inv, NEW c \in 1..Connections, PasswordRead(c) PROVE Inv'
<1>1. /\ awaits' \subseteq awaits
      /\ UNCHANGED <<kind, announced, connection, phase, capPhase, available, enabled,
                     nick, triedNicks, mechanism, responses, toClient, server>>
  BY DEF PasswordRead, Resumes, link, caps, naming
<1>2. SessionOK'
  BY <1>1 DEF Inv, TypeOK, SessionOK
<1>3. <<Line("PASS")>> \o Opening \in Seq(Lines)
  <2>1. "PASS" \in Commands
    BY DEF Commands
  <2>2. <<Line("PASS")>> \in Seq(Lines)
    BY <2>1, OneLine
  <2> QED BY <2>2, OpeningType, ConcatProperties
<1>4. toServer' \in Seq(Lines)
  BY <1>3, OpeningType, WriteType DEF PasswordRead, Inv
<1> QED BY <1>1, <1>2, <1>4, QuietOK

LEMMA CredentialsReadOK == ASSUME Inv, NEW c \in 1..Connections, CredentialsRead(c) PROVE Inv'
<1>1. /\ awaits' \subseteq awaits
      /\ UNCHANGED <<kind, announced, connection, phase, capPhase, available, enabled,
                     nick, triedNicks, toClient, server>>
  BY DEF CredentialsRead, Resumes, link, caps, naming
<1>2. mechanism' \in {0, c} /\ responses' = 0 /\ toServer' \in Seq(Lines)
  <2>1. CASE FailAuth
    BY <2>1, FailAuthOK
  <2>2. CASE mechanism' = c /\ responses' = 0 /\ Write(<<Line("AUTHENTICATE")>>)
    <3>1. "AUTHENTICATE" \in Commands
      BY DEF Commands
    <3>2. <<Line("AUTHENTICATE")>> \in Seq(Lines)
      BY <3>1, OneLine
    <3> QED BY <2>2, <3>2, WriteType DEF Inv
  <2> QED BY <2>1, <2>2 DEF CredentialsRead
<1>3. SessionOK'
  BY <1>1, <1>2, ProfileAssumption DEF Inv, TypeOK, SessionOK
<1> QED BY <1>1, <1>2, <1>3, QuietOK

LEMMA RespondedOK == ASSUME Inv, NEW c \in 1..Connections, Responded(c) PROVE Inv'
<1>1. /\ awaits' \subseteq awaits /\ responses' \in {2, responses}
      /\ UNCHANGED <<kind, announced, connection, phase, capPhase, available, enabled,
                     nick, triedNicks, mechanism, toClient, server>>
  BY DEF Responded, Resumes, link, caps, naming
<1>2. toServer' \in Seq(Lines)
  <2>1. CASE Write(<<Line("PAYLOAD")>>)
    <3>1. "PAYLOAD" \in Commands
      BY DEF Commands
    <3>2. <<Line("PAYLOAD")>> \in Seq(Lines)
      BY <3>1, OneLine
    <3> QED BY <2>1, <3>2, WriteType DEF Inv
  <2>2. CASE UNCHANGED toServer
    BY <2>2 DEF Inv, TypeOK, WireOK
  <2> QED BY <2>1, <2>2 DEF Responded
<1>3. SessionOK'
  BY <1>1 DEF Inv, TypeOK, SessionOK
<1> QED BY <1>1, <1>2, <1>3, QuietOK

----------------------------------------------------------------------------
(* What the client reads.                                                  *)

\* A line read: the transport and the server are as they were, the queue to
\* the server is one of lines, and `registered` follows a welcome.
LEMMA HeardOK ==
    ASSUME Inv, NEW cmd, Reads(cmd), SessionOK', toServer' \in Seq(Lines),
           phase' = "registered" => phase = "registered" \/ cmd \in WelcomeCmds
    PROVE  Inv'
<1>1. /\ toClient' \in Seq(Lines) /\ WelcomeSaid' /\ (cmd \in WelcomeCmds => server.welcomed)
      /\ kind = "connected" /\ UNCHANGED <<kind, announced, connection, server>>
  BY ReadsOK DEF link
<1>2. LinkOK' /\ WireOK' /\ server' \in Servers
  BY <1>1 DEF Inv, TypeOK, LinkOK, WireOK
<1>3. RegisteredIsWelcomed'
  BY <1>1 DEF Inv, RegisteredIsWelcomed
<1> QED BY <1>1, <1>2, <1>3 DEF Inv, TypeOK, ConnectedHasNumber

LEMMA SaslAfterOK ==
    ASSUME Inv, NEW next, SaslAfter(next)
    PROVE  mechanism' \in 0..Connections /\ responses' \in 0..2 /\ awaits' = awaits
BY ProfileAssumption DEF Inv, TypeOK, SessionOK, SaslAfter

LEMMA HeardCaps == ASSUME Inv, NEW cmd, Reads(cmd) PROVE Heard.caps \subseteq Caps
BY ReadsOK DEF Lines

LEMMA HeardNick == ASSUME Inv, NEW cmd, Reads(cmd) PROVE Heard.nick \in Nicks
BY ReadsOK DEF Lines

LEMMA NegotiationOK ==
    ASSUME Inv, ListContinues \/ ListEnds \/ Refused \/ Gained \/ Lost
    PROVE  Inv'
<1>1. PICK cmd \in {"LS*", "LS", "NAK", "NEW", "DEL"} : Reads(cmd)
  BY DEF ListContinues, ListEnds, Refused, Gained, Lost
<1>2. Heard.caps \subseteq Caps
  BY <1>1, HeardCaps
<1>3. SaslAfter(phase) /\ phase' = phase /\ nick' = nick /\ triedNicks' = triedNicks
  BY DEF ListContinues, ListEnds, Refused, Gained, Lost, naming
<1>4. available' \subseteq Caps /\ enabled' \subseteq Caps
  BY <1>2 DEF ListContinues, ListEnds, Refused, Gained, Lost, Inv, TypeOK, SessionOK
<1>5. capPhase' \in {capPhase, "done", "requesting"}
  BY DEF ListContinues, ListEnds, Refused, Gained, Lost
<1>6. mechanism' \in 0..Connections /\ responses' \in 0..2 /\ awaits' = awaits
  BY <1>3, SaslAfterOK
<1>7. SessionOK'
  BY <1>3, <1>4, <1>5, <1>6 DEF Inv, TypeOK, SessionOK
<1>8. toServer' \in Seq(Lines)
  <2>1. "END" \in Commands /\ "REQ" \in Commands
    BY DEF Commands
  <2>2. /\ <<>> \in Seq(Lines) /\ <<Line("END")>> \in Seq(Lines)
        /\ \A set \in SUBSET Caps : <<CapLine("REQ", set)>> \in Seq(Lines)
    BY <2>1, OneLine
  <2>3. \/ toServer' = toServer \/ Write(<<>>) \/ Write(<<Line("END")>>)
        \/ \E set \in SUBSET Caps : Write(<<CapLine("REQ", set)>>)
    BY <1>2, <1>4 DEF ListContinues, ListEnds, Refused, Gained, Lost
  <2> QED BY <2>2, <2>3, WriteType DEF Inv, TypeOK, WireOK
<1> QED BY <1>1, <1>3, <1>7, <1>8, HeardOK

LEMMA AcknowledgedOK == ASSUME Inv, Acknowledged PROVE Inv'
<1>1. /\ Reads("ACK") /\ enabled' = enabled \cup Heard.caps /\ available' = available
      /\ phase' = phase /\ nick' = nick /\ triedNicks' = triedNicks
      /\ capPhase' \in {capPhase, "authenticating", "done"}
  BY DEF Acknowledged, naming
<1>2. enabled' \subseteq Caps
  BY <1>1, HeardCaps DEF Inv, TypeOK, SessionOK
<1>3. /\ mechanism' \in 0..Connections /\ responses' \in 0..2
      /\ awaits' \subseteq {"password", "credentials", "response"} \X (1..Connections)
      /\ toServer' \in Seq(Lines)
  <2>1. CASE FailAuth /\ UNCHANGED awaits
    BY <2>1, FailAuthOK, ProfileAssumption DEF Inv, TypeOK, SessionOK
  <2>2. CASE /\ awaits' = awaits \cup {<<"credentials", connection>>}
             /\ UNCHANGED <<mechanism, responses, toServer>>
    <3>1. connection \in 1..Connections
      BY <1>1, ReadsOK DEF Inv, TypeOK, LinkOK, ConnectedHasNumber
    <3> QED BY <2>2, <3>1 DEF Inv, TypeOK, SessionOK, WireOK
  <2>3. CASE SaslAfter(phase) /\ (UNCHANGED toServer \/ Write(<<Line("END")>>))
    <3>1. "END" \in Commands
      BY DEF Commands
    <3>2. <<Line("END")>> \in Seq(Lines)
      BY <3>1, OneLine
    <3>3. toServer' \in Seq(Lines)
      BY <2>3, <3>2, WriteType DEF Inv, TypeOK, WireOK
    <3>4. mechanism' \in 0..Connections /\ responses' \in 0..2 /\ awaits' = awaits
      BY <2>3, SaslAfterOK
    <3> QED BY <3>3, <3>4 DEF Inv, TypeOK, SessionOK
  <2> QED BY <2>1, <2>2, <2>3 DEF Acknowledged
<1>4. SessionOK'
  BY <1>1, <1>2, <1>3 DEF Inv, TypeOK, SessionOK
<1> QED BY <1>1, <1>3, <1>4, HeardOK

LEMMA ChallengedOK == ASSUME Inv, Challenged PROVE Inv'
<1>1. PICK cmd \in {"CHALLENGE", "BADCHALLENGE"} : Reads(cmd)
  BY DEF Challenged
<1>2. /\ phase' = phase /\ capPhase' = capPhase /\ nick' = nick /\ triedNicks' = triedNicks
      /\ available' = available /\ enabled' = enabled
  BY DEF Challenged, caps, naming
<1>3. /\ mechanism' \in 0..Connections /\ responses' \in 0..2
      /\ awaits' \subseteq {"password", "credentials", "response"} \X (1..Connections)
      /\ toServer' \in Seq(Lines)
  <2>1. CASE UNCHANGED <<sasl, toServer>>
    BY <2>1 DEF sasl, Inv, TypeOK, SessionOK, WireOK
  <2>2. CASE /\ responses' = 1 /\ Write(<<Line("PAYLOAD")>>)
             /\ UNCHANGED <<mechanism, awaits>>
    <3>1. "PAYLOAD" \in Commands
      BY DEF Commands
    <3>2. <<Line("PAYLOAD")>> \in Seq(Lines)
      BY <3>1, OneLine
    <3>3. toServer' \in Seq(Lines)
      BY <2>2, <3>2, WriteType DEF Inv
    <3> QED BY <2>2, <3>3 DEF Inv, TypeOK, SessionOK
  <2>3. CASE FailAuth /\ UNCHANGED awaits
    BY <2>3, FailAuthOK, ProfileAssumption DEF Inv, TypeOK, SessionOK
  <2>4. CASE /\ mechanism # 0
             /\ awaits' = IF Scram /\ responses = 1
                             THEN awaits \cup {<<"response", mechanism>>} ELSE awaits
             /\ UNCHANGED <<mechanism, responses, toServer>>
    <3>1. mechanism \in 1..Connections
      BY <2>4, ProfileAssumption DEF Inv, TypeOK, SessionOK
    <3> QED BY <2>4, <3>1 DEF Inv, TypeOK, SessionOK, WireOK
  <2> QED BY <2>1, <2>2, <2>3, <2>4 DEF Challenged
<1>4. SessionOK'
  BY <1>2, <1>3 DEF Inv, TypeOK, SessionOK
<1> QED BY <1>1, <1>2, <1>3, <1>4, HeardOK

\* Handlers that at most change the phase and the nick.
LEMMA NumericsOK ==
    ASSUME Inv, Outcome \/ Welcomed \/ MotdEnds \/ Renamed \/ Dismissed
    PROVE  Inv'
<1>1. PICK cmd \in {"OUTCOME", "001", "376", "NICK", "ERROR"} : Reads(cmd)
  BY DEF Outcome, Welcomed, MotdEnds, Renamed, Dismissed
<1>2. nick' \in {nick, Heard.nick}
  BY DEF Outcome, Welcomed, MotdEnds, Renamed, Dismissed, naming
<1>3. nick' \in Nicks
  BY <1>1, <1>2, HeardNick DEF Inv, TypeOK, SessionOK
<1>4. /\ capPhase' = capPhase /\ available' = available /\ enabled' = enabled
      /\ triedNicks' = triedNicks /\ toServer' = toServer
  BY DEF Outcome, Welcomed, MotdEnds, Renamed, Dismissed, naming, caps
<1>5. \E next : SaslAfter(next)
  BY DEF Outcome, Welcomed, MotdEnds, Renamed, Dismissed
<1>6. mechanism' \in 0..Connections /\ responses' \in 0..2 /\ awaits' = awaits
  BY <1>5, SaslAfterOK
<1>7. phase' \in {phase, "registered", "disconnected"}
  BY DEF Outcome, Welcomed, MotdEnds, Renamed, Dismissed
<1>8. SessionOK'
  BY <1>3, <1>4, <1>6, <1>7 DEF Inv, TypeOK, SessionOK
<1>9. toServer' \in Seq(Lines)
  BY <1>4 DEF Inv, TypeOK, WireOK
<1>10. CASE Welcomed
  <2>1. Reads("001") /\ "001" \in WelcomeCmds
    BY <1>10 DEF Welcomed, WelcomeCmds
  <2> QED BY <1>8, <1>9, <2>1, HeardOK
<1>11. CASE MotdEnds
  <2>1. Reads("376") /\ "376" \in WelcomeCmds
    BY <1>11 DEF MotdEnds, WelcomeCmds
  <2> QED BY <1>8, <1>9, <2>1, HeardOK
<1>12. CASE Outcome \/ Renamed \/ Dismissed
  <2>1. phase' \in {phase, "disconnected"}
    BY <1>12 DEF Outcome, Renamed, Dismissed
  <2>2. phase' = "registered" => phase = "registered"
    BY <2>1
  <2> QED BY <1>1, <1>8, <1>9, <2>2, HeardOK
<1> QED BY <1>10, <1>11, <1>12

LEMMA CollidesOK == ASSUME Inv, Collides PROVE Inv'
<1>1. /\ Reads("433") /\ SaslAfter(phase) /\ phase' = phase
      /\ capPhase' = capPhase /\ available' = available /\ enabled' = enabled
  BY DEF Collides, caps
<1>2. NextNick \in 0..Longest /\ NextNick \in Nicks
  BY NextNickType, ProfileAssumption DEF Inv, Nicks, Shortened, Longest
<1>3. nick' \in Nicks /\ triedNicks' \subseteq 0..Longest
  BY <1>2 DEF Collides, naming, Inv, TypeOK, SessionOK
<1>4. toServer' \in Seq(Lines)
  <2>1. "NICK" \in Commands
    BY DEF Commands
  <2>2. <<NickLine("NICK", NextNick)>> \in Seq(Lines)
    BY <1>2, <2>1, OneLine
  <2>3. toServer' = toServer \/ Write(<<NickLine("NICK", NextNick)>>)
    BY DEF Collides
  <2> QED BY <2>2, <2>3, WriteType DEF Inv, TypeOK, WireOK
<1>5. mechanism' \in 0..Connections /\ responses' \in 0..2 /\ awaits' = awaits
  BY <1>1, SaslAfterOK
<1>6. SessionOK'
  BY <1>1, <1>3, <1>5 DEF Inv, TypeOK, SessionOK
<1> QED BY <1>1, <1>4, <1>6, HeardOK

LEMMA ChangesNickOK == ASSUME Inv, ChangesNick PROVE Inv'
<1>1. UNCHANGED <<kind, announced, connection, phase, capPhase, available, enabled,
                  nick, triedNicks, mechanism, responses, awaits, toClient, server>>
  BY DEF ChangesNick, link, caps, naming, sasl
<1>2. PICK n \in 0..Longest : Write(<<NickLine("NICK", n)>>)
  BY DEF ChangesNick
<1>3. "NICK" \in Commands /\ n \in Nicks
  BY ProfileAssumption DEF Commands, Nicks, Shortened, Longest
<1>4. <<NickLine("NICK", n)>> \in Seq(Lines)
  BY <1>3, OneLine
<1>5. toServer' \in Seq(Lines)
  BY <1>2, <1>4, WriteType DEF Inv
<1>6. SessionOK'
  BY <1>1 DEF Inv, TypeOK, SessionOK
<1> QED BY <1>1, <1>5, <1>6, QuietOK

----------------------------------------------------------------------------
(* The server.                                                             *)

LEMMA AskedType == ASSUME Inv, toServer # <<>> PROVE Asked \in Lines
BY DEF Inv, TypeOK, WireOK, Asked

\* Only 001 and 376 are welcomes.
LEMMA OneQuietLine ==
    ASSUME NEW cmd \in Commands \ WelcomeCmds
    PROVE  /\ NoWelcome(<<Line(cmd)>>)
           /\ \A set \in SUBSET Caps : NoWelcome(<<CapLine(cmd, set)>>)
<1>1. Line(cmd).cmd = cmd /\ \A set \in SUBSET Caps : CapLine(cmd, set).cmd = cmd
  BY DEF Line, CapLine
<1>2. ASSUME NEW l, l.cmd = cmd PROVE NoWelcome(<<l>>)
  BY <1>2 DEF NoWelcome
<1> QED BY <1>1, <1>2

LEMMA NoWelcomeEmpty == NoWelcome(<<>>)
BY DEF NoWelcome

LEMMA NoWelcomeConcat ==
    ASSUME NEW s \in Seq(Lines), NEW t \in Seq(Lines), NoWelcome(s), NoWelcome(t)
    PROVE  NoWelcome(s \o t)
<1> SUFFICES ASSUME NEW i \in 1..Len(s \o t) PROVE (s \o t)[i].cmd \notin WelcomeCmds
  BY DEF NoWelcome
<1>1. CASE i \in 1..Len(s)
  BY <1>1, ConcatProperties DEF NoWelcome
<1>2. CASE i \notin 1..Len(s)
  <2>1. i - Len(s) \in 1..Len(t) /\ (s \o t)[i] = t[i - Len(s)]
    BY <1>2, ConcatProperties
  <2> QED BY <2>1 DEF NoWelcome
<1> QED BY <1>1, <1>2

\* Answers the server gives without lines of its own making.
LEMMA QuietLines ==
    /\ <<>> \in Seq(Lines) /\ NoWelcome(<<>>)
    /\ \A cmd \in Commands \ WelcomeCmds :
          <<Line(cmd)>> \in Seq(Lines) /\ NoWelcome(<<Line(cmd)>>)
    /\ \A cmd \in Commands \ WelcomeCmds : \A set \in SUBSET Caps :
          <<CapLine(cmd, set)>> \in Seq(Lines) /\ NoWelcome(<<CapLine(cmd, set)>>)
<1>1. <<>> \in Seq(Lines)
  OBVIOUS
<1>2. ASSUME NEW cmd \in Commands \ WelcomeCmds
      PROVE  <<Line(cmd)>> \in Seq(Lines) /\ NoWelcome(<<Line(cmd)>>)
  BY OneLine, OneQuietLine
<1>3. ASSUME NEW cmd \in Commands \ WelcomeCmds, NEW set \in SUBSET Caps
      PROVE  <<CapLine(cmd, set)>> \in Seq(Lines) /\ NoWelcome(<<CapLine(cmd, set)>>)
  BY OneLine, OneQuietLine
<1> QED BY <1>1, <1>2, <1>3, NoWelcomeEmpty

LEMMA ListsOK == ASSUME Inv, Lists PROVE Inv'
<1> DEFINE next == [server EXCEPT !.held = ~server.welcomed, !.openings = @ + 1]
<1>1. server \in Servers
  BY DEF Inv, TypeOK
<1>2. PICK first \in {{}, server.offer \cap {Sasl}} :
         Serves(next, (IF first = {} THEN <<>> ELSE <<CapLine("LS*", first)>>)
                         \o <<CapLine("LS", server.offer \ first)>>)
  BY DEF Lists
<1> DEFINE head == IF first = {} THEN <<>> ELSE <<CapLine("LS*", first)>>
           tail == <<CapLine("LS", server.offer \ first)>>
<1>3. first \in SUBSET Caps /\ server.offer \ first \in SUBSET Caps
  BY <1>1 DEF Servers
<1>4. "LS*" \in Commands \ WelcomeCmds /\ "LS" \in Commands \ WelcomeCmds
  BY DEF Commands, WelcomeCmds
<1>5. head \in Seq(Lines) /\ NoWelcome(head) /\ tail \in Seq(Lines) /\ NoWelcome(tail)
  BY <1>3, <1>4, QuietLines
<1> HIDE DEF head, tail
<1>6. head \o tail \in Seq(Lines) /\ NoWelcome(head \o tail)
  BY <1>5, NoWelcomeConcat, ConcatProperties
<1>7. next \in Servers /\ next.welcomed = server.welcomed
  <2> DEFINE held == ~server.welcomed
             openings == server.openings + 1
  <2>1. held \in BOOLEAN /\ openings \in Nat
    BY <1>1 DEF Servers
  <2>2. next = [server EXCEPT !.held = held, !.openings = openings]
    OBVIOUS
  <2> HIDE DEF held, openings, next
  <2> QED BY <1>1, <2>1, <2>2 DEF Servers
<1>8. Serves(next, head \o tail) /\ toServer # <<>>
  BY <1>2 DEF head, tail, Lists, Asks
<1> HIDE DEF next
<1> QED BY <1>6, <1>7, <1>8, ServesOK

LEMMA GrantsOK == ASSUME Inv, Grants PROVE Inv'
<1>1. server \in Servers /\ toServer # <<>> /\ Asked.caps \in SUBSET Caps
  BY AskedType DEF Inv, TypeOK, Grants, Asks, Lines
<1>2. "ACK" \in Commands \ WelcomeCmds /\ "NAK" \in Commands \ WelcomeCmds
  BY DEF Commands, WelcomeCmds
<1>3. CASE Asked.caps \subseteq server.offer
  <2> DEFINE next == [server EXCEPT !.acked = @ \cup Asked.caps]
  <2>1. Serves(next, <<CapLine("ACK", Asked.caps)>>)
    BY <1>3 DEF Grants
  <2>2. next \in Servers /\ next.welcomed = server.welcomed
    BY <1>1 DEF Servers
  <2> HIDE DEF next
  <2> QED BY <1>1, <1>2, <2>1, <2>2, QuietLines, ServesOK
<1>4. CASE ~(Asked.caps \subseteq server.offer)
  <2>1. Serves(server, <<CapLine("NAK", Asked.caps)>>)
    BY <1>4 DEF Grants
  <2> QED BY <1>1, <1>2, <2>1, QuietLines, ServesOK
<1> QED BY <1>3, <1>4

LEMMA EndsOK == ASSUME Inv, Ends PROVE Inv'
<1> DEFINE next == [server EXCEPT !.held = FALSE, !.auth = "idle"]
           lines == IF server.auth = "idle" THEN <<>> ELSE <<Line("OUTCOME")>>
<1>1. server \in Servers /\ toServer # <<>> /\ Serves(next, lines)
  BY DEF Inv, TypeOK, Ends, Asks
<1>2. next \in Servers /\ next.welcomed = server.welcomed
  BY <1>1 DEF Servers
<1>3. "OUTCOME" \in Commands \ WelcomeCmds
  BY DEF Commands, WelcomeCmds
<1>4. lines \in Seq(Lines) /\ NoWelcome(lines)
  BY <1>3, QuietLines
<1> HIDE DEF next, lines
<1> QED BY <1>1, <1>2, <1>4, ServesOK

\* A server that changes in nothing but what is said of an exchange or of
\* signing on says a line that is no welcome, or none.
LEMMA NamesOK == ASSUME Inv, Names PROVE Inv'
<1>1. server \in Servers /\ toServer # <<>> /\ Asked.nick \in Nicks /\ server.nick \in Nicks
  BY AskedType DEF Inv, TypeOK, Names, Asks, Lines, Servers
<1>2. CASE Serves([server EXCEPT !.refused = @ \cup {Asked.nick}], <<Line("433")>>)
  <2> DEFINE next == [server EXCEPT !.refused = @ \cup {Asked.nick}]
  <2>1. next \in Servers /\ next.welcomed = server.welcomed
    BY <1>1 DEF Servers
  <2>2. Serves(next, <<Line("433")>>)
    BY <1>2
  <2>3. "433" \in Commands \ WelcomeCmds
    BY DEF Commands, WelcomeCmds
  <2> HIDE DEF next
  <2> QED BY <1>1, <2>1, <2>2, <2>3, QuietLines, ServesOK
<1>3. ASSUME NEW given \in {Asked.nick, Shortened},
             Serves([server EXCEPT !.named = TRUE, !.nick = given],
                    IF server.welcomed /\ given # server.nick
                       THEN <<RenameLine(server.nick, given)>> ELSE <<>>)
      PROVE  Inv'
  <2> DEFINE next == [server EXCEPT !.named = TRUE, !.nick = given]
             lines == IF server.welcomed /\ given # server.nick
                         THEN <<RenameLine(server.nick, given)>> ELSE <<>>
  <2>1. given \in Nicks
    BY <1>1, ProfileAssumption DEF Nicks, Shortened, Longest
  <2>2. next \in Servers /\ next.welcomed = server.welcomed
    BY <1>1, <2>1 DEF Servers
  <2>3. RenameLine(server.nick, given) \in Lines /\ RenameLine(server.nick, given).cmd = "NICK"
    BY <1>1, <2>1, RenameLineType
  <2>4. lines \in Seq(Lines)
    BY <2>3
  <2>5. NoWelcome(lines)
    BY <2>3 DEF NoWelcome, WelcomeCmds
  <2>6. Serves(next, lines)
    BY <1>3
  <2> HIDE DEF next, lines
  <2> QED BY <1>1, <2>2, <2>4, <2>5, <2>6, ServesOK
<1> QED BY <1>2, <1>3 DEF Names

LEMMA IdentifiesOK == ASSUME Inv, Identifies PROVE Inv'
<1>1. server \in Servers /\ toServer # <<>>
  BY DEF Inv, TypeOK, Identifies, Asks
<1>2. CASE Serves([server EXCEPT !.user = TRUE], <<>>)
  <2> DEFINE next == [server EXCEPT !.user = TRUE]
  <2>1. next \in Servers /\ next.welcomed = server.welcomed
    BY <1>1 DEF Servers
  <2>2. Serves(next, <<>>)
    BY <1>2
  <2> HIDE DEF next
  <2> QED BY <1>1, <2>1, <2>2, QuietLines, ServesOK
<1>3. CASE Serves(server, <<>>)
  BY <1>1, <1>3, QuietLines, ServesOK
<1> QED BY <1>2, <1>3 DEF Identifies

\* The answers of an exchange.
LEMMA ExchangeLines ==
    /\ \A cmd \in {"CHALLENGE", "BADCHALLENGE", "OUTCOME"} :
          <<Line(cmd)>> \in Seq(Lines) /\ NoWelcome(<<Line(cmd)>>)
    /\ \A cmd \in {"CHALLENGE", "BADCHALLENGE"} :
          /\ <<Line(cmd), Line("OUTCOME")>> \in Seq(Lines)
          /\ NoWelcome(<<Line(cmd), Line("OUTCOME")>>)
<1>1. {"CHALLENGE", "BADCHALLENGE", "OUTCOME"} \subseteq Commands \ WelcomeCmds
  BY DEF Commands, WelcomeCmds
<1>2. ASSUME NEW cmd \in {"CHALLENGE", "BADCHALLENGE"}
      PROVE  /\ <<Line(cmd), Line("OUTCOME")>> \in Seq(Lines)
             /\ NoWelcome(<<Line(cmd), Line("OUTCOME")>>)
  <2>1. cmd \in Commands \ WelcomeCmds /\ "OUTCOME" \in Commands \ WelcomeCmds
    BY <1>1
  <2>2. /\ Line(cmd) \in Lines /\ Line(cmd).cmd = cmd
        /\ Line("OUTCOME") \in Lines /\ Line("OUTCOME").cmd = "OUTCOME"
    BY <2>1, OneLine DEF Line
  <2> QED BY <2>1, <2>2 DEF NoWelcome
<1> QED BY <1>1, <1>2, QuietLines

LEMMA ExchangeOK ==
    ASSUME Inv, toServer # <<>>, NEW lines \in Seq(Lines), NoWelcome(lines),
           NEW auth \in {"idle", "first", "second"},
           Serves([server EXCEPT !.auth = auth], lines)
    PROVE  Inv'
<1> DEFINE next == [server EXCEPT !.auth = auth]
<1>1. next \in Servers /\ next.welcomed = server.welcomed
  BY DEF Inv, TypeOK, Servers
<1>2. Serves(next, lines)
  OBVIOUS
<1> HIDE DEF next
<1> QED BY <1>1, <1>2, ServesOK

LEMMA StartsExchangeOK == ASSUME Inv, StartsExchange PROVE Inv'
<1>1. toServer # <<>>
  BY DEF StartsExchange, Asks
<1>2. CASE Serves([server EXCEPT !.auth = "first"], <<Line("CHALLENGE")>>)
  BY <1>1, <1>2, ExchangeLines, ExchangeOK
<1>3. CASE Serves([server EXCEPT !.auth = "idle"], <<Line("OUTCOME")>>)
  BY <1>1, <1>3, ExchangeLines, ExchangeOK
<1> QED BY <1>2, <1>3 DEF StartsExchange

LEMMA JudgesOK == ASSUME Inv, Judges PROVE Inv'
<1>1. toServer # <<>>
  BY DEF Judges, Asks
<1>2. CASE Serves([server EXCEPT !.auth = "idle"], <<Line("OUTCOME")>>)
  BY <1>1, <1>2, ExchangeLines, ExchangeOK
<1>3. ASSUME NEW challenge \in {"CHALLENGE", "BADCHALLENGE"},
             Serves([server EXCEPT !.auth = "second"], <<Line(challenge)>>)
      PROVE  Inv'
  BY <1>1, <1>3, ExchangeLines, ExchangeOK
<1>4. ASSUME NEW challenge \in {"CHALLENGE", "BADCHALLENGE"},
             Serves([server EXCEPT !.auth = "idle"], <<Line(challenge), Line("OUTCOME")>>)
      PROVE  Inv'
  BY <1>1, <1>4, ExchangeLines, ExchangeOK
<1> QED BY <1>2, <1>3, <1>4 DEF Judges

LEMMA AbortsOK == ASSUME Inv, Aborts PROVE Inv'
<1> DEFINE next == [server EXCEPT !.auth = "idle", !.gaveUp = TRUE]
<1>1. toServer # <<>> /\ Serves(next, <<Line("OUTCOME")>>)
  BY DEF Aborts, Asks
<1>2. next \in Servers /\ next.welcomed = server.welcomed
  BY DEF Inv, TypeOK, Servers
<1> HIDE DEF next
<1> QED BY <1>1, <1>2, ExchangeLines, ServesOK

LEMMA WelcomesOK == ASSUME Inv, Welcomes PROVE Inv'
<1> DEFINE next == [server EXCEPT !.welcomed = TRUE]
           lines == <<NickLine("001", server.nick), Line("376")>>
<1>1. Says(next, lines)
  BY DEF Welcomes
<1>2. next \in Servers /\ next.welcomed = TRUE /\ server.nick \in Nicks
  BY DEF Inv, TypeOK, Servers
<1>3. "001" \in Commands /\ "376" \in Commands
  BY DEF Commands
<1>4. NickLine("001", server.nick) \in Lines /\ Line("376") \in Lines
  BY <1>2, <1>3, LineType
<1>5. lines \in Seq(Lines)
  BY <1>4
<1> HIDE DEF next, lines
<1> QED BY <1>1, <1>2, <1>5, SaysOK

LEMMA NotifiesOK == ASSUME Inv, Notifies PROVE Inv'
<1> DEFINE base == [server EXCEPT !.changes = @ + 1]
<1>1. PICK c \in Caps :
         \/ Says([base EXCEPT !.offer = @ \cup {c}], <<CapLine("NEW", {c})>>)
         \/ Says([base EXCEPT !.offer = @ \ {c}, !.acked = @ \ {c}], <<CapLine("DEL", {c})>>)
  BY DEF Notifies
<1>2. base \in Servers /\ base.welcomed = server.welcomed
  BY ProfileAssumption DEF Inv, TypeOK, Servers, Notifies
<1>3. {c} \in SUBSET Caps /\ "NEW" \in Commands \ WelcomeCmds /\ "DEL" \in Commands \ WelcomeCmds
  BY DEF Commands, WelcomeCmds
<1> HIDE DEF base
<1>4. CASE Says([base EXCEPT !.offer = @ \cup {c}], <<CapLine("NEW", {c})>>)
  <2> DEFINE next == [base EXCEPT !.offer = @ \cup {c}]
  <2>1. next \in Servers /\ next.welcomed = server.welcomed
    BY <1>2 DEF Servers
  <2>2. Says(next, <<CapLine("NEW", {c})>>)
    BY <1>4
  <2> HIDE DEF next
  <2> QED BY <1>3, <2>1, <2>2, QuietLines, SaysOK
<1>5. CASE Says([base EXCEPT !.offer = @ \ {c}, !.acked = @ \ {c}], <<CapLine("DEL", {c})>>)
  <2> DEFINE next == [base EXCEPT !.offer = @ \ {c}, !.acked = @ \ {c}]
  <2>1. next \in Servers /\ next.welcomed = server.welcomed
    BY <1>2 DEF Servers
  <2>2. Says(next, <<CapLine("DEL", {c})>>)
    BY <1>5
  <2> HIDE DEF next
  <2> QED BY <1>3, <2>1, <2>2, QuietLines, SaysOK
<1> QED BY <1>1, <1>4, <1>5

LEMMA DismissesOK == ASSUME Inv, Dismisses PROVE Inv'
<1> DEFINE next == [server EXCEPT !.closing = TRUE]
<1>1. Says(next, <<Line("ERROR")>>)
  BY DEF Dismisses
<1>2. next \in Servers /\ next.welcomed = server.welcomed
  BY DEF Inv, TypeOK, Servers
<1>3. "ERROR" \in Commands \ WelcomeCmds
  BY DEF Commands, WelcomeCmds
<1> HIDE DEF next
<1> QED BY <1>1, <1>2, <1>3, QuietLines, SaysOK

----------------------------------------------------------------------------
(* The invariant and what follows from it.                                 *)

LEMMA InvInit == Init => Inv
<1> SUFFICES ASSUME Init PROVE Inv
  OBVIOUS
<1>1. /\ kind = "idle" /\ announced = 0 /\ connection = 0 /\ phase = "disconnected"
      /\ toServer = <<>> /\ toClient = <<>>
  BY DEF Init, Link!Init
<1>2. 0 \in Nicks
  BY ProfileAssumption DEF Nicks, Shortened, Longest
<1>3. LinkOK /\ SessionOK
  BY <1>1, <1>2, ProfileAssumption DEF Init, LinkOK, SessionOK
<1>4. server \in Servers
  BY <1>2, ProfileAssumption DEF Init, Servers
<1>5. WireOK /\ WelcomeSaid /\ RegisteredIsWelcomed /\ ConnectedHasNumber
  BY <1>1 DEF WireOK, WelcomeSaid, RegisteredIsWelcomed, ConnectedHasNumber
<1> QED BY <1>3, <1>4, <1>5 DEF Inv, TypeOK

LEMMA InvNext == Inv /\ [Next]_vars => Inv'
<1> SUFFICES ASSUME Inv, [Next]_vars PROVE Inv'
  OBVIOUS
<1>1. CASE Dials \/ Opens \/ Loses \/ Stops
  BY <1>1, DialsOK, OpensOK, LosesOK, StopsOK
<1>2. CASE Continues
  BY <1>2, PasswordReadOK, CredentialsReadOK, RespondedOK DEF Continues
<1>3. CASE ClientReads
  BY <1>3, NegotiationOK, AcknowledgedOK, ChallengedOK, NumericsOK, CollidesOK
     DEF ClientReads
<1>4. CASE ChangesNick
  BY <1>4, ChangesNickOK
<1>5. CASE ServerReads
  BY <1>5, ListsOK, GrantsOK, EndsOK, NamesOK, IdentifiesOK, StartsExchangeOK,
     JudgesOK, AbortsOK DEF ServerReads
<1>6. CASE Welcomes \/ Notifies \/ Dismisses
  BY <1>6, WelcomesOK, NotifiesOK, DismissesOK
<1>7. CASE UNCHANGED vars
  <2>1. UNCHANGED <<kind, announced, connection, phase, capPhase, available, enabled,
                    nick, triedNicks, mechanism, responses, awaits, toServer, toClient, server>>
    BY <1>7 DEF vars, link, caps, naming, sasl, wire
  <2>2. SessionOK' /\ toServer' \in Seq(Lines)
    BY <2>1 DEF Inv, TypeOK, SessionOK, WireOK
  <2> QED BY <2>1, <2>2, QuietOK
<1> QED BY <1>1, <1>2, <1>3, <1>4, <1>5, <1>6, <1>7 DEF Next

LEMMA InvHolds == Spec => []Inv
BY InvInit, InvNext, PTL DEF Spec

\* Every variable keeps its type: among the rest, no nick the client asks
\* for is longer than the server allows, and no continuation belongs to a
\* connection that was never made.
THEOREM TypeCorrect == Spec => []TypeOK
<1>1. Inv => TypeOK
  BY DEF Inv
<1> QED BY <1>1, InvHolds, PTL

\* `registered` is claimed only on a connection whose server has welcomed
\* the client, whatever else is under way: retried drops, late answers of
\* the keychain, a dismissal, capabilities that come and go.
THEOREM RegisteredMeansWelcomed == Spec => []RegisteredIsWelcomed
<1>1. Inv => RegisteredIsWelcomed
  BY DEF Inv
<1> QED BY <1>1, InvHolds, PTL

----------------------------------------------------------------------------
(* Queues, and what there is of a kind of line in them.                    *)

\* An await answers before the connection it began on is lost, or there is
\* no other connection.
OneAtATime == ~SlowAwaits \/ Connections <= 1

\* No line of `q` is one of these.
Lacks(q, cmds) == \A i \in 1..Len(q) : q[i].cmd \notin cmds

\* At most one is.
Once(q, cmds) ==
    \A i, j \in 1..Len(q) : q[i].cmd \in cmds /\ q[j].cmd \in cmds => i = j

Awaited(what) == <<what, connection>> \in awaits

LEMMA LacksEmpty == ASSUME NEW cmds PROVE Lacks(<<>>, cmds) /\ Once(<<>>, cmds)
BY DEF Lacks, Once

LEMMA LacksLine ==
    ASSUME NEW l, NEW cmds
    PROVE  (Lacks(<<l>>, cmds) <=> l.cmd \notin cmds) /\ Once(<<l>>, cmds)
BY DEF Lacks, Once

LEMMA LacksOnce ==
    ASSUME NEW q, NEW cmds, Lacks(q, cmds)
    PROVE  Once(q, cmds) /\ \A fewer \in SUBSET cmds : Lacks(q, fewer)
BY DEF Lacks, Once

\* What becomes of a queue whose first line is read.
LEMMA LacksTail ==
    ASSUME NEW q \in Seq(Lines), q # <<>>, NEW cmds
    PROVE  /\ Lacks(q, cmds) <=> Head(q).cmd \notin cmds /\ Lacks(Tail(q), cmds)
           /\ Once(q, cmds) => Once(Tail(q), cmds)
           /\ Once(q, cmds) /\ Head(q).cmd \in cmds => Lacks(Tail(q), cmds)
<1> DEFINE t == Tail(q)
<1>1. t \in Seq(Lines) /\ Len(t) = Len(q) - 1 /\ Len(q) \in Nat /\ Len(q) > 0
      /\ \A i \in 1..Len(t) : t[i] = q[i + 1]
  OBVIOUS
<1>2. Head(q) = q[1]
  OBVIOUS
<1> HIDE DEF t
<1>3. ASSUME Lacks(q, cmds) PROVE Head(q).cmd \notin cmds /\ Lacks(t, cmds)
  BY <1>1, <1>2, <1>3 DEF Lacks
<1>4. ASSUME Head(q).cmd \notin cmds, Lacks(t, cmds) PROVE Lacks(q, cmds)
  <2> SUFFICES ASSUME NEW i \in 1..Len(q) PROVE q[i].cmd \notin cmds
    BY DEF Lacks
  <2>1. CASE i = 1
    BY <2>1, <1>2, <1>4
  <2>2. CASE i # 1
    <3>1. i - 1 \in 1..Len(t) /\ t[i - 1] = q[i]
      BY <2>2, <1>1
    <3> QED BY <3>1, <1>4 DEF Lacks
  <2> QED BY <2>1, <2>2
<1>5. ASSUME Once(q, cmds) PROVE Once(t, cmds)
  <2> SUFFICES ASSUME NEW i \in 1..Len(t), NEW j \in 1..Len(t), t[i].cmd \in cmds, t[j].cmd \in cmds
               PROVE  i = j
    BY DEF Once
  <2>1. i + 1 \in 1..Len(q) /\ j + 1 \in 1..Len(q) /\ q[i + 1].cmd \in cmds /\ q[j + 1].cmd \in cmds
    BY <1>1
  <2>2. i + 1 = j + 1
    BY <2>1, <1>5 DEF Once
  <2> QED BY <2>2
<1>6. ASSUME Once(q, cmds), Head(q).cmd \in cmds PROVE Lacks(t, cmds)
  <2> SUFFICES ASSUME NEW i \in 1..Len(t), t[i].cmd \in cmds PROVE FALSE
    BY DEF Lacks
  <2>1. i + 1 \in 1..Len(q) /\ 1 \in 1..Len(q) /\ q[i + 1].cmd \in cmds /\ q[1].cmd \in cmds
    BY <1>1, <1>2, <1>6
  <2>2. i + 1 = 1
    BY <2>1, <1>6 DEF Once
  <2> QED BY <2>2
<1> QED BY <1>3, <1>4, <1>5, <1>6 DEF t

\* What becomes of one that is added to.
LEMMA LacksConcat ==
    ASSUME NEW q \in Seq(Lines), NEW r \in Seq(Lines), NEW cmds
    PROVE  /\ Lacks(q \o r, cmds) <=> Lacks(q, cmds) /\ Lacks(r, cmds)
           /\ Once(q, cmds) /\ Lacks(r, cmds) => Once(q \o r, cmds)
           /\ Lacks(q, cmds) /\ Once(r, cmds) => Once(q \o r, cmds)
<1> DEFINE s == q \o r
<1>1. /\ s \in Seq(Lines) /\ Len(s) = Len(q) + Len(r)
      /\ Len(q) \in Nat /\ Len(r) \in Nat
      /\ \A i \in 1..Len(q) : i \in 1..Len(s) /\ s[i] = q[i]
      /\ \A i \in 1..Len(r) : Len(q) + i \in 1..Len(s) /\ s[Len(q) + i] = r[i]
      /\ \A i \in 1..Len(s) : i \notin 1..Len(q) =>
            i - Len(q) \in 1..Len(r) /\ s[i] = r[i - Len(q)]
  BY ConcatProperties
<1> HIDE DEF s
<1>2. ASSUME Lacks(s, cmds) PROVE Lacks(q, cmds) /\ Lacks(r, cmds)
  BY <1>1, <1>2 DEF Lacks
<1>3. ASSUME Lacks(q, cmds), Lacks(r, cmds) PROVE Lacks(s, cmds)
  BY <1>1, <1>3 DEF Lacks
<1>4. ASSUME Once(q, cmds), Lacks(r, cmds) PROVE Once(s, cmds)
  BY <1>1, <1>4 DEF Lacks, Once
<1>5. ASSUME Lacks(q, cmds), Once(r, cmds) PROVE Once(s, cmds)
  <2> SUFFICES ASSUME NEW i \in 1..Len(s), NEW j \in 1..Len(s), s[i].cmd \in cmds, s[j].cmd \in cmds
               PROVE  i = j
    BY DEF Once
  <2>1. i \notin 1..Len(q) /\ j \notin 1..Len(q)
    BY <1>1, <1>5 DEF Lacks
  <2>2. i - Len(q) = j - Len(q)
    BY <1>1, <1>5, <2>1 DEF Once
  <2> QED BY <2>2, <1>1
<1> QED BY <1>2, <1>3, <1>4, <1>5 DEF s

----------------------------------------------------------------------------
(* Opening a connection and going through an exchange: the invariants.     *)

\* A continuation is of the connection in hand, and none is left when another
\* connection can still be made.
AwaitsOurs ==
    /\ kind = "connected" => \A a \in awaits : a[2] = connection
    /\ kind \notin {"connected", "stopped"} /\ connection < Connections => awaits = {}

\* The server has not been asked for its capabilities yet.
Before ==
    /\ capPhase = "listing" /\ nick = 0 /\ triedNicks = {0}
    /\ ~server.named /\ ~server.user /\ ~server.welcomed /\ server.refused = {}
    /\ Lacks(toClient, Commands \ {"ERROR"})
    /\ \/ Awaited("password") /\ toServer = <<>>
       \/ ~Awaited("password") /\ toServer \in {Opening, <<Line("PASS")>> \o Opening}

\* It has, and will not be again.
After == ~Awaited("password") /\ Lacks(toServer, {"LS", "PASS"})

Opened ==
    kind = "connected" =>
       (server.openings = 0 /\ Before) \/ (server.openings = 1 /\ After)

Turns == {"AUTHENTICATE", "PAYLOAD"}
Challenges == {"CHALLENGE", "BADCHALLENGE"}
Closings == {"END", "ABORT"}

\* Nobody has the next move in an exchange.
NoTurn ==
    /\ Lacks(toServer, Turns) /\ Lacks(toClient, Challenges)
    /\ ~Awaited("credentials") /\ ~Awaited("response")

\* At most one has, and while it is so nothing ends the exchange.
OneTurn ==
    /\ Once(toServer, Turns) /\ Once(toClient, Challenges)
    /\ ~Lacks(toServer, Turns) =>
          Lacks(toClient, Challenges) /\ ~Awaited("credentials") /\ ~Awaited("response")
    /\ ~Lacks(toClient, Challenges) => ~Awaited("credentials") /\ ~Awaited("response")
    /\ ~Awaited("credentials") \/ ~Awaited("response")
    /\ NoTurn \/ Lacks(toServer, Closings)

\* Until the capabilities are settled there is no exchange.
Unstarted ==
    capPhase \in {"listing", "requesting"} =>
       server.auth = "idle" /\ NoTurn /\ Lacks(toServer, Closings)

\* An END on its way follows an ABORT, or there is nothing to abort.
EndIdle ==
    \A i \in 1..Len(toServer) : toServer[i].cmd = "END" =>
       \/ i > 1 /\ toServer[i - 1].cmd = "ABORT"
       \/ server.auth = "idle" /\ \A j \in 1..(i - 1) : toServer[j].cmd # "AUTHENTICATE"

\* Where the exchange stands, seen from both ends.
Standing ==
    /\ ~Lacks(toServer, Turns) \/ ~Lacks(toClient, Challenges) => mechanism \in {0, connection}
    /\ ~Lacks(toServer, {"AUTHENTICATE"}) /\ mechanism # 0 => responses = 0
    /\ ~Lacks(toServer, {"PAYLOAD"}) =>
          /\ server.auth # "idle"
          /\ mechanism # 0 => responses # 0 /\ (server.auth = "second" => responses = 2)
    /\ ~Lacks(toClient, Challenges) /\ mechanism # 0 =>
          /\ responses = 0 => server.auth = "first"
          /\ responses = 1 => server.auth = "second"
    /\ Awaited("response") /\ mechanism # 0 => server.auth = "second" /\ responses = 1

\* The capabilities are listed once.
Listing ==
    Once(toClient, {"LS"}) /\ (~Lacks(toClient, {"LS"}) => capPhase = "listing")

Exchange == kind = "connected" => OneTurn /\ Unstarted /\ EndIdle /\ Standing /\ Listing

----------------------------------------------------------------------------
(* What the steps of each kind leave alone.                                *)

LEMMA ReadStep ==
    ASSUME Inv, ClientReads
    PROVE  /\ kind = "connected" /\ toClient # <<>> /\ toClient' = Tail(toClient)
           /\ UNCHANGED <<kind, announced, connection, server>>
BY DEF ClientReads, ListContinues, ListEnds, Acknowledged, Refused, Gained, Lost, Challenged,
       Outcome, Collides, Welcomed, MotdEnds, Renamed, Dismissed, Reads, link

LEMMA ContinueStep ==
    ASSUME NEW c \in 1..Connections, PasswordRead(c) \/ CredentialsRead(c) \/ Responded(c)
    PROVE  /\ awaits' \subseteq awaits
           /\ UNCHANGED <<kind, announced, connection, phase, capPhase, available, enabled,
                          nick, triedNicks, toClient, server>>
BY DEF PasswordRead, CredentialsRead, Responded, Resumes, link, caps, naming

LEMMA ServerStep ==
    ASSUME ServerReads
    PROVE  /\ kind = "connected" /\ toServer # <<>> /\ toServer' = Tail(toServer)
           /\ UNCHANGED <<kind, announced, connection, phase, capPhase, available, enabled,
                          nick, triedNicks, mechanism, responses, awaits>>
BY DEF ServerReads, Lists, Grants, Ends, Names, Identifies, StartsExchange, Judges, Aborts,
       Asks, Serves, link, caps, naming, sasl

LEMMA SayStep ==
    ASSUME Welcomes \/ Notifies \/ Dismisses
    PROVE  /\ kind = "connected" /\ ~server.closing
           /\ UNCHANGED <<kind, announced, connection, phase, capPhase, available, enabled,
                          nick, triedNicks, mechanism, responses, awaits, toServer>>
BY DEF Welcomes, Notifies, Dismisses, Says, link, caps, naming, sasl

\* Only 902 to 908 apart, what is read starts and ends no await.
LEMMA ReadAwaits ==
    ASSUME Inv, ClientReads, ~Acknowledged, ~Challenged
    PROVE  UNCHANGED awaits
BY DEF ClientReads, ListContinues, ListEnds, Refused, Gained, Lost, Outcome, Collides, Welcomed,
       MotdEnds, Renamed, Dismissed, SaslAfter

LEMMA AwaitsOursNext ==
    ASSUME Inv, OneAtATime, AwaitsOurs, Exchange, [Next]_vars
    PROVE  AwaitsOurs'
<1>k. ASSUME UNCHANGED <<kind, connection>>, awaits' \subseteq awaits PROVE AwaitsOurs'
  BY <1>k DEF AwaitsOurs
<1>1. CASE Dials
  BY <1>1 DEF Dials, Link!Dial, sasl, AwaitsOurs
<1>2. CASE Opens
  <2>1. awaits = {}
    BY <1>2 DEF Opens, Link!Open, AwaitsOurs
  <2>2. \A a \in awaits' : a = <<"password", connection'>>
    BY <1>2, <2>1 DEF Opens
  <2>3. kind' = "connected"
    BY <1>2 DEF Opens, Link!Open
  <2> QED BY <2>2, <2>3 DEF AwaitsOurs
<1>3. CASE Loses
  <2>1. /\ kind # "stopped" /\ kind' = "waiting" /\ UNCHANGED <<connection, awaits>>
        /\ SlowAwaits \/ awaits = {}
    BY <1>3 DEF Loses, Link!Lose, sasl
  <2>2. CASE awaits = {}
    BY <2>1, <2>2 DEF AwaitsOurs
  <2>3. CASE awaits # {}
    <3>1. Connections <= 1
      BY <2>1, <2>3 DEF OneAtATime
    <3>2. kind = "connected" => ~(connection < Connections)
      BY <3>1, ProfileAssumption DEF Inv, ConnectedHasNumber, TypeOK, LinkOK
    <3>3. ~(connection < Connections)
      BY <2>1, <2>3, <3>2 DEF AwaitsOurs
    <3> QED BY <2>1, <3>3 DEF AwaitsOurs
  <2> QED BY <2>2, <2>3
<1>4. CASE Stops
  BY <1>4 DEF Stops, Link!Stop, AwaitsOurs
<1>5. CASE Continues
  BY <1>5, <1>k, ContinueStep DEF Continues
<1>6. CASE ClientReads
  <2>1. CASE Acknowledged
    <3>1. awaits' \subseteq awaits \cup {<<"credentials", connection>>}
          /\ kind' = "connected" /\ connection' = connection /\ kind = "connected"
      BY <1>6, <2>1, ReadStep DEF Acknowledged, SaslAfter
    <3> QED BY <3>1 DEF AwaitsOurs
  <2>2. CASE Challenged
    <3>1. kind' = "connected" /\ connection' = connection /\ kind = "connected"
          /\ ~Lacks(toClient, Challenges)
      <4>1. Head(toClient).cmd \in Challenges
        BY <2>2 DEF Challenged, Reads, Challenges
      <4>2. toClient \in Seq(Lines) /\ toClient # <<>>
        BY <1>6, ReadStep DEF Inv, TypeOK, WireOK
      <4> QED BY <1>6, <4>1, <4>2, LacksTail, ReadStep
    <3>2. mechanism \in {0, connection}
      BY <3>1 DEF Exchange, Standing
    <3>3. awaits' \subseteq awaits \cup {<<"response", connection>>}
      BY <2>2, <3>2 DEF Challenged, FailAuth, sasl
    <3> QED BY <3>1, <3>3 DEF AwaitsOurs
  <2>3. CASE ~Acknowledged /\ ~Challenged
    BY <1>6, <2>3, <1>k, ReadStep, ReadAwaits
  <2> QED BY <2>1, <2>2, <2>3
<1>7. CASE ChangesNick
  BY <1>7, <1>k DEF ChangesNick, link, sasl
<1>8. CASE ServerReads
  BY <1>8, <1>k, ServerStep
<1>9. CASE Welcomes \/ Notifies \/ Dismisses
  BY <1>9, <1>k, SayStep
<1>10. CASE UNCHANGED vars
  BY <1>10, <1>k DEF vars, link, sasl
<1> QED
  BY <1>1, <1>2, <1>3, <1>4, <1>5, <1>6, <1>7, <1>8, <1>9, <1>10 DEF Next

----------------------------------------------------------------------------
(* What the steps of each kind add.                                        *)

LEMMA PutFirst ==
    ASSUME NEW l \in Lines, NEW q \in Seq(Lines)
    PROVE  /\ <<l>> \o q \in Seq(Lines) /\ <<l>> \o q # <<>>
           /\ Head(<<l>> \o q) = l /\ Tail(<<l>> \o q) = q
<1> DEFINE s == <<l>> \o q
<1>1. <<l>> \in Seq(Lines) /\ Len(<<l>>) = 1 /\ <<l>>[1] = l
  OBVIOUS
<1>2. /\ s \in Seq(Lines) /\ Len(s) = 1 + Len(q) /\ Len(q) \in Nat
      /\ \A i \in 1..(1 + Len(q)) : s[i] = IF i <= 1 THEN <<l>>[i] ELSE q[i - 1]
  BY <1>1, ConcatProperties
<1> HIDE DEF s
<1>3. s # <<>> /\ Head(s) = l
  BY <1>1, <1>2
<1>4. Tail(s) \in Seq(Lines) /\ Len(Tail(s)) = Len(q) /\ \A i \in 1..Len(q) : Tail(s)[i] = s[i + 1]
  BY <1>2, <1>3, HeadTailProperties
<1>5. \A i \in 1..Len(q) : s[i + 1] = q[i]
  BY <1>2
<1>6. Tail(s) = q
  BY <1>4, <1>5, SeqEqual
<1> QED BY <1>2, <1>3, <1>6 DEF s

LEMMA OpeningLines ==
    /\ Opening \in Seq(Lines) /\ <<Line("PASS")>> \o Opening \in Seq(Lines)
    /\ Opening # <<>> /\ Head(Opening).cmd = "LS" /\ Lacks(Tail(Opening), {"LS", "PASS"})
    /\ <<Line("PASS")>> \o Opening # <<>>
    /\ Head(<<Line("PASS")>> \o Opening).cmd = "PASS"
    /\ Tail(<<Line("PASS")>> \o Opening) = Opening
<1>1. Line("PASS") \in Lines /\ Line("PASS").cmd = "PASS"
  BY LineType DEF Commands
<1>2. Opening \in Seq(Lines)
  BY OpeningType
<1>3. Opening # <<>> /\ Head(Opening).cmd = "LS"
  BY DEF Opening, Line
<1>4. Lacks(Tail(Opening), {"LS", "PASS"})
  <2> DEFINE a == NickLine("NICK", 0)
             b == Line("USER")
  <2>1. a.cmd = "NICK" /\ b.cmd = "USER"
    BY DEF NickLine, Line
  <2>2. Tail(Opening) = <<a, b>>
    BY DEF Opening
  <2> HIDE DEF a, b
  <2>3. Lacks(<<a, b>>, {"LS", "PASS"})
    BY <2>1 DEF Lacks
  <2> QED BY <2>2, <2>3
<1> QED BY <1>1, <1>2, <1>3, <1>4, PutFirst

\* The queue `r` is `q` with lines of these commands added, if any.
Adds(q, r, cmds) ==
    \E lines \in Seq(Lines) : r = q \o lines /\ Lacks(lines, Commands \ cmds)

LEMMA AddsKeeps ==
    ASSUME NEW q \in Seq(Lines), NEW r, NEW cmds, NEW others, others \subseteq Commands \ cmds,
           Adds(q, r, cmds)
    PROVE  /\ r \in Seq(Lines)
           /\ Lacks(r, others) <=> Lacks(q, others)
           /\ Once(q, others) => Once(r, others)
<1>1. PICK lines \in Seq(Lines) : r = q \o lines /\ Lacks(lines, Commands \ cmds)
  BY DEF Adds
<1>2. Lacks(lines, others)
  BY <1>1, LacksOnce
<1> QED BY <1>1, <1>2, LacksConcat, ConcatProperties

LEMMA AddsNone ==
    ASSUME NEW q \in Seq(Lines), NEW cmds
    PROVE  Adds(q, q, cmds)
<1>1. q = q \o <<>> /\ <<>> \in Seq(Lines)
  BY ConcatEmptySeq
<1> QED BY <1>1, LacksEmpty DEF Adds

LEMMA AddsLine ==
    ASSUME NEW q \in Seq(Lines), NEW l \in Lines, NEW cmds, l.cmd \in cmds
    PROVE  Adds(q, q \o <<l>>, cmds)
<1>1. <<l>> \in Seq(Lines) /\ Lacks(<<l>>, Commands \ cmds)
  BY LacksLine
<1> QED BY <1>1 DEF Adds

LEMMA AddsTwo ==
    ASSUME NEW q \in Seq(Lines), NEW l \in Lines, NEW m \in Lines, NEW cmds,
           l.cmd \in cmds, m.cmd \in cmds
    PROVE  Adds(q, q \o <<l, m>>, cmds)
<1>1. <<l, m>> \in Seq(Lines) /\ Lacks(<<l, m>>, Commands \ cmds)
  BY DEF Lacks
<1> QED BY <1>1 DEF Adds

LEMMA AddsMore ==
    ASSUME NEW q, NEW r, NEW cmds, NEW more, cmds \subseteq more, Adds(q, r, cmds)
    PROVE  Adds(q, r, more)
<1>1. PICK lines \in Seq(Lines) : r = q \o lines /\ Lacks(lines, Commands \ cmds)
  BY DEF Adds
<1>2. Lacks(lines, Commands \ more)
  BY <1>1, LacksOnce
<1> QED BY <1>1, <1>2 DEF Adds

\* What the client adds to its queue, line by line read.
Writes(cmds) == Adds(toServer, toServer', cmds)

LEMMA FailAuthWrites ==
    ASSUME Inv, kind = "connected", FailAuth
    PROVE  Writes({"ABORT", "END"}) /\ mechanism' = 0 /\ responses' = 0
           /\ toServer' = toServer \o <<Line("ABORT"), Line("END")>>
<1>1. /\ Line("ABORT") \in Lines /\ Line("ABORT").cmd = "ABORT"
      /\ Line("END") \in Lines /\ Line("END").cmd = "END"
  BY LineType DEF Commands
<1>2. toServer \in Seq(Lines)
  BY DEF Inv, TypeOK, WireOK
<1>3. toServer' = toServer \o <<Line("ABORT"), Line("END")>>
  BY DEF FailAuth, Write
<1> QED BY <1>1, <1>2, <1>3, AddsTwo DEF FailAuth, Writes

LEMMA WriteWrites ==
    ASSUME Inv, kind = "connected", NEW l \in Lines, Write(<<l>>), NEW cmds, l.cmd \in cmds
    PROVE  Writes(cmds)
<1>1. toServer' = toServer \o <<l>> /\ toServer \in Seq(Lines)
  BY DEF Write, Inv, TypeOK, WireOK
<1> QED BY <1>1, AddsLine DEF Writes

LEMMA QuietWrites ==
    ASSUME Inv, toServer' = toServer, NEW cmds
    PROVE  Writes(cmds)
BY AddsNone DEF Inv, TypeOK, WireOK, Writes

LEMMA ReadWrites ==
    ASSUME Inv, ClientReads
    PROVE  /\ ListContinues \/ Lost \/ Outcome \/ Welcomed \/ MotdEnds \/ Renamed \/ Dismissed
                => toServer' = toServer
           /\ ListEnds => Writes({"END", "REQ"})
           /\ Acknowledged => Writes({"END", "ABORT"})
           /\ Refused => Writes({"END"})
           /\ Gained => Writes({"REQ"})
           /\ Challenged => Writes({"PAYLOAD", "ABORT", "END"})
           /\ Collides => Writes({"NICK"})
<1>0. kind = "connected" /\ SessionOK
  BY ReadStep DEF Inv, TypeOK
<1>c. "END" \in Commands /\ "REQ" \in Commands /\ "PAYLOAD" \in Commands /\ "NICK" \in Commands
  BY DEF Commands
<1>e. ASSUME Write(<<Line("END")>>), NEW cmds, "END" \in cmds PROVE Writes(cmds)
  BY <1>0, <1>c, <1>e, LineType, WriteWrites
<1>1. ListContinues \/ Lost \/ Outcome \/ Welcomed \/ MotdEnds \/ Renamed \/ Dismissed
         => toServer' = toServer
  BY DEF ListContinues, Lost, Outcome, Welcomed, MotdEnds, Renamed, Dismissed
<1>2. ASSUME ListEnds PROVE Writes({"END", "REQ"})
  <2>1. available' \in SUBSET Caps
    BY <1>0, <1>2, ReadsOK DEF ListEnds, SessionOK, Lines
  <2>2. Write(<<Line("END")>>) \/ Write(<<CapLine("REQ", available')>>)
    BY <1>2 DEF ListEnds
  <2>3. CapLine("REQ", available') \in Lines /\ CapLine("REQ", available').cmd = "REQ"
    BY <2>1, <1>c, LineType
  <2> QED BY <1>0, <1>e, <2>2, <2>3, WriteWrites
<1>3. ASSUME Acknowledged PROVE Writes({"END", "ABORT"})
  <2>1. toServer' = toServer \/ FailAuth \/ Write(<<Line("END")>>)
    BY <1>3 DEF Acknowledged
  <2>2. ASSUME FailAuth PROVE Writes({"END", "ABORT"})
    BY <2>2, <1>0, FailAuthWrites, AddsMore DEF Writes
  <2> QED BY <2>1, <2>2, <1>0, <1>e, QuietWrites
<1>4. ASSUME Refused PROVE Writes({"END"})
  BY <1>4, <1>e, QuietWrites DEF Refused
<1>5. ASSUME Gained PROVE Writes({"REQ"})
  <2> DEFINE wanted == Heard.caps \ enabled
  <2>1. wanted \in SUBSET Caps
    BY <1>5, ReadsOK DEF Gained, Lines
  <2>2. Write(IF wanted = {} THEN <<>> ELSE <<CapLine("REQ", wanted)>>)
    BY <1>5 DEF Gained
  <2> HIDE DEF wanted
  <2>3. CASE wanted = {}
    <3>1. toServer' = toServer \o <<>> /\ toServer \in Seq(Lines)
      BY <1>0, <2>2, <2>3 DEF Write, Inv, TypeOK, WireOK
    <3> QED BY <3>1, ConcatEmptySeq, QuietWrites
  <2>4. CASE wanted # {}
    <3>1. CapLine("REQ", wanted) \in Lines /\ CapLine("REQ", wanted).cmd = "REQ"
      BY <2>1, <1>c, LineType
    <3>2. Write(<<CapLine("REQ", wanted)>>)
      BY <2>2, <2>4
    <3> QED BY <1>0, <3>1, <3>2, WriteWrites
  <2> QED BY <2>3, <2>4
<1>6. ASSUME Challenged PROVE Writes({"PAYLOAD", "ABORT", "END"})
  <2>1. toServer' = toServer \/ FailAuth \/ Write(<<Line("PAYLOAD")>>)
    BY <1>6 DEF Challenged
  <2>2. Line("PAYLOAD") \in Lines /\ Line("PAYLOAD").cmd = "PAYLOAD"
    BY <1>c, LineType
  <2>3. ASSUME FailAuth PROVE Writes({"PAYLOAD", "ABORT", "END"})
    BY <2>3, <1>0, FailAuthWrites, AddsMore DEF Writes
  <2> QED BY <2>1, <2>2, <2>3, <1>0, WriteWrites, QuietWrites
<1>7. ASSUME Collides PROVE Writes({"NICK"})
  <2>1. NextNick \in Nicks
    BY NextNickType, ProfileAssumption DEF Inv, Nicks, Shortened, Longest
  <2>2. NickLine("NICK", NextNick) \in Lines /\ NickLine("NICK", NextNick).cmd = "NICK"
    BY <2>1, <1>c, LineType
  <2>3. toServer' = toServer \/ Write(<<NickLine("NICK", NextNick)>>)
    BY <1>7 DEF Collides
  <2> QED BY <2>2, <2>3, <1>0, WriteWrites, QuietWrites
<1> QED BY <1>1, <1>2, <1>3, <1>4, <1>5, <1>6, <1>7

\* What the server adds to its queue.
Sends(cmds) == Adds(toClient, toClient', cmds)

LEMMA ServerSends ==
    ASSUME Inv
    PROVE  /\ Lists => Sends({"LS*", "LS"})
           /\ Grants => Sends({"ACK", "NAK"})
           /\ Ends \/ Aborts => Sends({"OUTCOME"})
           /\ Names => Sends({"433", "NICK"})
           /\ Identifies => toClient' = toClient
           /\ StartsExchange => Sends({"CHALLENGE", "OUTCOME"})
           /\ Judges => Sends({"CHALLENGE", "BADCHALLENGE", "OUTCOME"})
           /\ Welcomes => Sends({"001", "376"})
           /\ Notifies => Sends({"NEW", "DEL"})
           /\ Dismisses => Sends({"ERROR"})
<1>0. toClient \in Seq(Lines) /\ server \in Servers
  BY DEF Inv, TypeOK, WireOK
<1>n. ASSUME toClient' = toClient \o <<>>, NEW cmds PROVE toClient' = toClient /\ Sends(cmds)
  BY <1>0, <1>n, ConcatEmptySeq, AddsNone DEF Sends
<1>l. ASSUME NEW l \in Lines, toClient' = toClient \o <<l>>, NEW cmds, l.cmd \in cmds
      PROVE  Sends(cmds)
  BY <1>0, <1>l, AddsLine DEF Sends
<1>c. {"LS*", "LS", "ACK", "NAK", "OUTCOME", "433", "NICK", "CHALLENGE", "BADCHALLENGE",
       "001", "376", "NEW", "DEL", "ERROR"} \subseteq Commands
  BY DEF Commands
<1>1. ASSUME Lists PROVE Sends({"LS*", "LS"})
  <2>1. PICK first \in {{}, server.offer \cap {Sasl}} :
           toClient' = toClient \o ((IF first = {} THEN <<>> ELSE <<CapLine("LS*", first)>>)
                                    \o <<CapLine("LS", server.offer \ first)>>)
    BY <1>1 DEF Lists, Serves
  <2> DEFINE a == CapLine("LS*", first)
             b == CapLine("LS", server.offer \ first)
  <2>2. first \in SUBSET Caps /\ server.offer \ first \in SUBSET Caps
    BY <1>0 DEF Servers
  <2>3. a \in Lines /\ a.cmd = "LS*" /\ b \in Lines /\ b.cmd = "LS"
    BY <2>2, <1>c, LineType
  <2> HIDE DEF a, b
  <2>4. CASE first = {}
    <3>1. <<>> \o <<b>> = <<b>>
      BY <2>3, ConcatEmptySeq
    <3>2. toClient' = toClient \o <<b>>
      BY <2>1, <2>4, <3>1 DEF b
    <3> QED BY <2>3, <3>2, <1>l
  <2>5. CASE first # {}
    <3>1. <<a>> \in Seq(Lines) /\ <<b>> \in Seq(Lines)
      BY <2>3
    <3> DEFINE rest == Commands \ {"LS*", "LS"}
    <3>4. Lacks(<<a>>, rest) /\ Lacks(<<b>>, rest)
      BY <2>3, LacksLine
    <3> HIDE DEF rest
    <3>5. Lacks(<<a>> \o <<b>>, rest)
      BY <3>1, <3>4, LacksConcat
    <3>6. <<a>> \o <<b>> \in Seq(Lines)
      BY <3>1, ConcatProperties
    <3>2. <<a>> \o <<b>> \in Seq(Lines)
          /\ Lacks(<<a>> \o <<b>>, Commands \ {"LS*", "LS"})
      BY <3>5, <3>6 DEF rest
    <3>3. toClient' = toClient \o (<<a>> \o <<b>>)
      BY <2>1, <2>5 DEF a, b
    <3> QED BY <3>2, <3>3 DEF Sends, Adds
  <2> QED BY <2>4, <2>5
<1>2. ASSUME Grants PROVE Sends({"ACK", "NAK"})
  <2>1. Asked.caps \in SUBSET Caps
    BY <1>2, AskedType DEF Grants, Asks, Lines
  <2>2. PICK cmd \in {"ACK", "NAK"} : toClient' = toClient \o <<CapLine(cmd, Asked.caps)>>
    BY <1>2 DEF Grants, Serves
  <2>3. CapLine(cmd, Asked.caps) \in Lines /\ CapLine(cmd, Asked.caps).cmd = cmd
    BY <2>1, <1>c, LineType
  <2> QED BY <2>2, <2>3, <1>l
<1>o. Line("OUTCOME") \in Lines /\ Line("OUTCOME").cmd = "OUTCOME"
  BY <1>c, LineType
<1>3. ASSUME Ends \/ Aborts PROVE Sends({"OUTCOME"})
  <2>1. toClient' = toClient \o <<>> \/ toClient' = toClient \o <<Line("OUTCOME")>>
    BY <1>3 DEF Ends, Aborts, Serves
  <2> QED BY <2>1, <1>o, <1>n, <1>l
<1>4. ASSUME Names PROVE Sends({"433", "NICK"})
  <2>1. Asked.nick \in Nicks /\ Shortened \in Nicks /\ server.nick \in Nicks
    BY <1>0, <1>4, AskedType, ProfileAssumption
       DEF Names, Asks, Lines, Servers, Nicks, Shortened, Longest
  <2>2. \/ toClient' = toClient \o <<>>
        \/ toClient' = toClient \o <<Line("433")>>
        \/ \E given \in {Asked.nick, Shortened} :
              toClient' = toClient \o <<RenameLine(server.nick, given)>>
    BY <1>4 DEF Names, Serves
  <2>3. Line("433") \in Lines /\ Line("433").cmd = "433"
    BY <1>c, LineType
  <2> QED BY <2>1, <2>2, <2>3, <1>n, <1>l, RenameLineType
<1>5. ASSUME Identifies PROVE toClient' = toClient
  BY <1>5, <1>n DEF Identifies, Serves
<1>6. ASSUME StartsExchange PROVE Sends({"CHALLENGE", "OUTCOME"})
  <2>1. Line("CHALLENGE") \in Lines /\ Line("CHALLENGE").cmd = "CHALLENGE"
    BY <1>c, LineType
  <2>2. toClient' = toClient \o <<Line("CHALLENGE")>> \/ toClient' = toClient \o <<Line("OUTCOME")>>
    BY <1>6 DEF StartsExchange, Serves
  <2> QED BY <2>1, <2>2, <1>o, <1>l
<1>7. ASSUME Judges PROVE Sends({"CHALLENGE", "BADCHALLENGE", "OUTCOME"})
  <2>1. \/ toClient' = toClient \o <<Line("OUTCOME")>>
        \/ \E cmd \in {"CHALLENGE", "BADCHALLENGE"} : toClient' = toClient \o <<Line(cmd)>>
        \/ \E cmd \in {"CHALLENGE", "BADCHALLENGE"} :
              toClient' = toClient \o <<Line(cmd), Line("OUTCOME")>>
    BY <1>7 DEF Judges, Serves
  <2>2. \A cmd \in {"CHALLENGE", "BADCHALLENGE"} : Line(cmd) \in Lines /\ Line(cmd).cmd = cmd
    BY <1>c, LineType
  <2> QED BY <1>0, <2>1, <2>2, <1>o, <1>l, AddsTwo DEF Sends
<1>8. ASSUME Welcomes PROVE Sends({"001", "376"})
  <2>1. toClient' = toClient \o <<NickLine("001", server.nick), Line("376")>>
    BY <1>8 DEF Welcomes, Says
  <2>2. NickLine("001", server.nick) \in Lines /\ NickLine("001", server.nick).cmd = "001"
        /\ Line("376") \in Lines /\ Line("376").cmd = "376"
    BY <1>0, <1>c, LineType DEF Servers
  <2> QED BY <1>0, <2>1, <2>2, AddsTwo DEF Sends
<1>9. ASSUME Notifies PROVE Sends({"NEW", "DEL"})
  <2>1. PICK c \in Caps, cmd \in {"NEW", "DEL"} : toClient' = toClient \o <<CapLine(cmd, {c})>>
    BY <1>9 DEF Notifies, Says
  <2>2. CapLine(cmd, {c}) \in Lines /\ CapLine(cmd, {c}).cmd = cmd
    BY <1>c, LineType
  <2> QED BY <2>1, <2>2, <1>l
<1>10. ASSUME Dismisses PROVE Sends({"ERROR"})
  <2>1. toClient' = toClient \o <<Line("ERROR")>>
    BY <1>10 DEF Dismisses, Says
  <2>2. Line("ERROR") \in Lines /\ Line("ERROR").cmd = "ERROR"
    BY <1>c, LineType
  <2> QED BY <2>1, <2>2, <1>l
<1> QED BY <1>1, <1>2, <1>3, <1>4, <1>5, <1>6, <1>7, <1>8, <1>9, <1>10

\* What a continuation writes on the connection in hand.
LEMMA ContinueWrites ==
    ASSUME Inv, kind = "connected", NEW c \in 1..Connections,
           CredentialsRead(c) \/ Responded(c)
    PROVE  /\ CredentialsRead(c) => Writes({"AUTHENTICATE", "ABORT", "END"})
           /\ Responded(c) => Writes({"PAYLOAD"})
<1>1. /\ Line("AUTHENTICATE") \in Lines /\ Line("AUTHENTICATE").cmd = "AUTHENTICATE"
      /\ Line("PAYLOAD") \in Lines /\ Line("PAYLOAD").cmd = "PAYLOAD"
  BY LineType DEF Commands
<1>2. ASSUME CredentialsRead(c) PROVE Writes({"AUTHENTICATE", "ABORT", "END"})
  <2>1. FailAuth \/ Write(<<Line("AUTHENTICATE")>>)
    BY <1>2 DEF CredentialsRead
  <2>2. ASSUME FailAuth PROVE Writes({"AUTHENTICATE", "ABORT", "END"})
    BY <2>2, FailAuthWrites, AddsMore DEF Writes
  <2> QED BY <1>1, <2>1, <2>2, WriteWrites
<1>3. ASSUME Responded(c) PROVE Writes({"PAYLOAD"})
  <2>1. toServer' = toServer \/ Write(<<Line("PAYLOAD")>>)
    BY <1>3 DEF Responded
  <2> QED BY <1>1, <2>1, WriteWrites, QuietWrites
<1> QED BY <1>2, <1>3

LEMMA ChangeWrites ==
    ASSUME Inv, ChangesNick
    PROVE  Writes({"NICK"})
<1>1. PICK n \in 0..Longest : Write(<<NickLine("NICK", n)>>)
  BY DEF ChangesNick
<1>2. n \in Nicks
  BY ProfileAssumption DEF Nicks, Shortened, Longest
<1>3. NickLine("NICK", n) \in Lines /\ NickLine("NICK", n).cmd = "NICK"
  BY <1>2, LineType DEF Commands
<1> QED BY <1>1, <1>3, WriteWrites DEF ChangesNick

----------------------------------------------------------------------------
(* A connection is opened once, and with nothing before it.                *)

\* Before it is asked for anything the server has nothing to say but ERROR.
LEMMA BeforeReads ==
    ASSUME Inv, Before, ClientReads
    PROVE  Dismissed
<1>1. toClient \in Seq(Lines) /\ toClient # <<>>
  BY ReadStep DEF Inv, TypeOK, WireOK
<1>2. Head(toClient).cmd \in Commands /\ Head(toClient).cmd \notin Commands \ {"ERROR"}
  <2>1. Head(toClient) \in Lines
    BY <1>1
  <2>2. Lacks(toClient, Commands \ {"ERROR"})
    BY DEF Before
  <2> QED BY <1>1, <2>1, <2>2, LacksTail DEF Lines
<1>3. Head(toClient).cmd = "ERROR"
  BY <1>2
<1> QED
  BY <1>3 DEF ClientReads, ListContinues, ListEnds, Acknowledged, Refused, Gained, Lost,
              Challenged, Outcome, Collides, Welcomed, MotdEnds, Renamed, Reads

LEMMA OpensOpened ==
    ASSUME Inv, AwaitsOurs, Opens
    PROVE  Opened'
<1>1. awaits = {}
  BY DEF Opens, Link!Open, AwaitsOurs
<1>2. /\ capPhase' = "listing" /\ nick' = 0 /\ triedNicks' = {0}
      /\ toClient' = <<>> /\ toServer' = FirstLines
      /\ ~server'.named /\ ~server'.user /\ ~server'.welcomed /\ server'.refused = {}
      /\ server'.openings = 0
  BY DEF Opens
<1>3. Awaited("password")' <=> Auth = "password"
  BY <1>1 DEF Opens, Awaited
<1>4. Lacks(toClient', Commands \ {"ERROR"})
  BY <1>2, LacksEmpty
<1> QED BY <1>2, <1>3, <1>4 DEF Opened, Before, FirstLines

\* A step of the client that starts no negotiation.
LEMMA AfterWrites ==
    ASSUME Inv, After, server.openings = 1, UNCHANGED <<connection, server>>,
           <<"password", connection>> \notin awaits',
           NEW cmds, cmds \subseteq Commands \ {"LS", "PASS"}, Writes(cmds)
    PROVE  Opened'
<1>1. toServer \in Seq(Lines) /\ {"LS", "PASS"} \subseteq Commands \ cmds
  BY DEF Inv, TypeOK, WireOK, Commands
<1>2. Lacks(toServer', {"LS", "PASS"})
  BY <1>1, AddsKeeps DEF After, Writes
<1> QED BY <1>2 DEF Opened, After, Awaited

LEMMA OpenedContinues ==
    ASSUME Inv, AwaitsOurs, Opened, Exchange, Continues
    PROVE  Opened'
<1>1. PICK c \in 1..Connections : PasswordRead(c) \/ CredentialsRead(c) \/ Responded(c)
  BY DEF Continues
<1>2. /\ awaits' \subseteq awaits
      /\ UNCHANGED <<kind, connection, capPhase, nick, triedNicks, toClient, server>>
  BY <1>1, ContinueStep
<1>3. CASE kind # "connected"
  BY <1>2, <1>3 DEF Opened
<1>4. CASE kind = "connected" /\ PasswordRead(c)
  <2>1. c = connection /\ Awaited("password")
    BY <1>4 DEF PasswordRead, Resumes, AwaitsOurs, Awaited
  <2>2. server.openings = 0 /\ Before /\ toServer = <<>>
    BY <1>4, <2>1 DEF Opened, Before, After
  <2>3. ~Awaited("password")'
    BY <1>2, <1>4, <2>1 DEF PasswordRead, Resumes, Awaited
  <2>4. toServer' \in {Opening, <<Line("PASS")>> \o Opening}
    <3>1. \A q \in Seq(Lines) : <<>> \o q = q
      BY ConcatEmptySeq
    <3>2. toServer' = <<>> \o Opening \/ toServer' = <<>> \o (<<Line("PASS")>> \o Opening)
      BY <1>4, <2>2 DEF PasswordRead, Write
    <3> QED BY <3>1, <3>2, OpeningLines
  <2> QED BY <1>2, <2>2, <2>3, <2>4 DEF Opened, Before
<1>5. CASE kind = "connected" /\ (CredentialsRead(c) \/ Responded(c))
  <2>1. Awaited("credentials") \/ Awaited("response")
    BY <1>5 DEF CredentialsRead, Responded, Resumes, AwaitsOurs, Awaited
  <2>2. capPhase # "listing"
    BY <1>5, <2>1 DEF Exchange, Unstarted, NoTurn
  <2>3. server.openings = 1 /\ After
    BY <1>5, <2>2 DEF Opened, Before
  <2>4. Writes({"AUTHENTICATE", "ABORT", "END"}) \/ Writes({"PAYLOAD"})
    BY <1>5, ContinueWrites
  <2>5. {"AUTHENTICATE", "ABORT", "END"} \subseteq Commands \ {"LS", "PASS"}
        /\ {"PAYLOAD"} \subseteq Commands \ {"LS", "PASS"}
    BY DEF Commands
  <2>6. <<"password", connection>> \notin awaits'
    BY <1>2, <2>3 DEF After, Awaited
  <2> QED BY <1>2, <2>3, <2>4, <2>5, <2>6, AfterWrites
<1> QED BY <1>1, <1>3, <1>4, <1>5

LEMMA OpenedReads ==
    ASSUME Inv, Opened, ClientReads
    PROVE  Opened'
<1>1. /\ kind = "connected" /\ toClient # <<>> /\ toClient' = Tail(toClient)
      /\ UNCHANGED <<kind, connection, server>>
  BY ReadStep
<1>2. CASE server.openings = 0 /\ Before
  <2>1. Dismissed
    BY <1>2, BeforeReads
  <2>2. UNCHANGED <<capPhase, nick, triedNicks, toServer, awaits>>
    BY <2>1 DEF Dismissed, caps, naming, SaslAfter
  <2>3. Lacks(toClient', Commands \ {"ERROR"})
    BY <1>1, <1>2, LacksTail DEF Before, Inv, TypeOK, WireOK
  <2> QED BY <1>1, <1>2, <2>2, <2>3 DEF Opened, Before, Awaited
<1>3. CASE server.openings = 1 /\ After
  <2>1. <<"password", connection>> \notin awaits'
    <3>1. awaits' \subseteq awaits \cup {<<"credentials", connection>>, <<"response", mechanism>>}
      BY ReadAwaits DEF Acknowledged, Challenged, SaslAfter, FailAuth, sasl
    <3> QED BY <1>3, <3>1 DEF After, Awaited
  <2>w. ASSUME NEW cmds \in SUBSET {"END", "REQ", "ABORT", "PAYLOAD", "NICK"}, Writes(cmds)
        PROVE  Opened'
    <3>1. cmds \subseteq Commands \ {"LS", "PASS"}
      BY DEF Commands
    <3> QED BY <1>1, <1>3, <2>1, <2>w, <3>1, AfterWrites
  <2>2. CASE ListContinues \/ Lost \/ Outcome \/ Welcomed \/ MotdEnds \/ Renamed \/ Dismissed
    BY <2>2, <2>w, ReadWrites, QuietWrites
  <2>3. CASE ListEnds \/ Acknowledged \/ Refused \/ Gained \/ Challenged \/ Collides
    BY <2>3, <2>w, ReadWrites
  <2> QED BY <2>2, <2>3 DEF ClientReads
<1> QED BY <1>1, <1>2, <1>3 DEF Opened

LEMMA OpenedServes ==
    ASSUME Inv, Opened, ServerReads
    PROVE  Opened'
<1>1. /\ kind = "connected" /\ toServer # <<>> /\ toServer' = Tail(toServer)
      /\ UNCHANGED <<kind, connection, capPhase, nick, triedNicks, awaits>>
  BY ServerStep
<1>2. CASE server.openings = 0 /\ Before
  <2>1. toServer \in {Opening, <<Line("PASS")>> \o Opening} /\ ~Awaited("password")'
    BY <1>1, <1>2 DEF Before, Awaited
  <2>2. CASE toServer = Opening
    <3>1. Lists
      BY <2>2, OpeningLines DEF ServerReads, Grants, Ends, Names, Identifies, StartsExchange,
         Judges, Aborts, Asks, Asked
    <3>2. server'.openings = 1
      BY <3>1, <1>2 DEF Lists, Serves, Inv, TypeOK, Servers
    <3> QED BY <1>1, <2>1, <2>2, <3>2, OpeningLines DEF Opened, After
  <2>3. CASE toServer = <<Line("PASS")>> \o Opening
    <3>1. Asks("PASS") /\ Serves(server, <<>>)
      BY <2>3, OpeningLines DEF ServerReads, Lists, Grants, Ends, Names, Identifies,
         StartsExchange, Judges, Aborts, Asks, Asked
    <3>2. server' = server /\ toClient' = toClient
      BY <3>1, ConcatEmptySeq DEF Serves, Inv, TypeOK, WireOK
    <3>3. toServer' = Opening
      BY <1>1, <2>3, OpeningLines
    <3> QED BY <1>1, <1>2, <2>1, <3>2, <3>3 DEF Opened, Before
  <2> QED BY <2>1, <2>2, <2>3
<1>3. CASE server.openings = 1 /\ After
  <2>1. Head(toServer).cmd # "LS" /\ Lacks(toServer', {"LS", "PASS"})
    BY <1>1, <1>3, LacksTail DEF After, Inv, TypeOK, WireOK
  <2>2. ~Lists
    BY <2>1 DEF Lists, Asks, Asked
  <2>3. server'.openings = server.openings
    BY <2>2 DEF ServerReads, Grants, Ends, Names, Identifies, StartsExchange, Judges, Aborts,
       Serves, Inv, TypeOK, Servers
  <2> QED BY <1>1, <1>3, <2>1, <2>3 DEF Opened, After, Awaited
<1> QED BY <1>1, <1>2, <1>3 DEF Opened

LEMMA OpenedSays ==
    ASSUME Inv, Opened, Welcomes \/ Notifies \/ Dismisses
    PROVE  Opened'
<1>1. /\ kind = "connected"
      /\ UNCHANGED <<kind, connection, capPhase, nick, triedNicks, awaits, toServer>>
  BY SayStep
<1>2. server'.openings = server.openings /\ server \in Servers
  BY DEF Welcomes, Notifies, Dismisses, Says, Inv, TypeOK, Servers
<1>3. CASE server.openings = 0 /\ Before
  <2>1. Dismisses
    BY <1>3 DEF Welcomes, Notifies, Before
  <2>2. server' = [server EXCEPT !.closing = TRUE] /\ Sends({"ERROR"})
    BY <2>1, ServerSends DEF Dismisses, Says
  <2>3. ~server'.named /\ ~server'.user /\ ~server'.welcomed /\ server'.refused = {}
    BY <1>2, <1>3, <2>2 DEF Before, Servers
  <2>4. Lacks(toClient', Commands \ {"ERROR"})
    BY <1>3, <2>2, AddsKeeps DEF Sends, Before, Inv, TypeOK, WireOK
  <2> QED BY <1>1, <1>2, <1>3, <2>3, <2>4 DEF Opened, Before, Awaited
<1>4. CASE server.openings = 1 /\ After
  BY <1>1, <1>2, <1>4 DEF Opened, After, Awaited
<1> QED BY <1>1, <1>3, <1>4 DEF Opened

LEMMA OpenedNext ==
    ASSUME Inv, AwaitsOurs, Opened, Exchange, [Next]_vars
    PROVE  Opened'
<1>1. CASE Dials \/ Loses \/ Stops
  BY <1>1 DEF Dials, Loses, Stops, Link!Dial, Link!Lose, Link!Stop, Opened
<1>2. CASE ChangesNick
  <2>1. /\ kind = "connected" /\ server.welcomed /\ UNCHANGED <<kind, connection, awaits, server>>
    BY <1>2 DEF ChangesNick, Inv, RegisteredIsWelcomed, link, sasl
  <2>2. server.openings = 1 /\ After
    BY <2>1 DEF Opened, Before
  <2>3. Writes({"NICK"}) /\ {"NICK"} \subseteq Commands \ {"LS", "PASS"}
    BY <1>2, ChangeWrites DEF Commands
  <2>4. <<"password", connection>> \notin awaits'
    BY <2>1, <2>2 DEF After, Awaited
  <2> QED BY <2>1, <2>2, <2>3, <2>4, AfterWrites
<1>3. CASE UNCHANGED vars
  BY <1>3 DEF vars, link, caps, naming, sasl, wire, Opened, Before, After, Awaited
<1> QED
  BY <1>1, <1>2, <1>3, OpensOpened, OpenedContinues, OpenedReads, OpenedServes, OpenedSays
     DEF Next

----------------------------------------------------------------------------
(* An exchange: what leaves it as it stands.                               *)

\* `r` has no line of these commands that `q` has not.
Fewer(q, r, cmds) ==
    (Lacks(q, cmds) => Lacks(r, cmds)) /\ (Once(q, cmds) => Once(r, cmds))

LEMMA FewerTail ==
    ASSUME NEW q \in Seq(Lines), q # <<>>, NEW cmds
    PROVE  Fewer(q, Tail(q), cmds)
BY LacksTail DEF Fewer

LEMMA FewerAdds ==
    ASSUME NEW q \in Seq(Lines), NEW r, NEW more, Adds(q, r, more),
           NEW cmds, cmds \subseteq Commands \ more
    PROVE  Fewer(q, r, cmds)
BY AddsKeeps DEF Fewer

\* The queues have no more of an exchange in them than they had.
FewerToServer ==
    /\ Fewer(toServer, toServer', Turns) /\ Fewer(toServer, toServer', Closings)
    /\ Fewer(toServer, toServer', {"AUTHENTICATE"}) /\ Fewer(toServer, toServer', {"PAYLOAD"})
FewerToClient == Fewer(toClient, toClient', Challenges) /\ Fewer(toClient, toClient', {"LS"})

LEMMA FewerRead ==
    ASSUME Inv
    PROVE  /\ toServer' = toServer => FewerToServer
           /\ toClient' = toClient => FewerToClient
           /\ toServer # <<>> /\ toServer' = Tail(toServer) => FewerToServer
           /\ toClient # <<>> /\ toClient' = Tail(toClient) => FewerToClient
<1>1. toServer \in Seq(Lines) /\ toClient \in Seq(Lines)
  BY DEF Inv, TypeOK, WireOK
<1>2. \A q, cmds : Fewer(q, q, cmds)
  BY DEF Fewer
<1> QED BY <1>1, <1>2, FewerTail DEF FewerToServer, FewerToClient

LEMMA FewerWritten ==
    ASSUME Inv, NEW cmds, Writes(cmds), cmds \cap (Turns \cup Closings) = {}
    PROVE  FewerToServer
<1>1. toServer \in Seq(Lines)
  BY DEF Inv, TypeOK, WireOK
<1>2. /\ Turns \subseteq Commands \ cmds /\ Closings \subseteq Commands \ cmds
      /\ {"AUTHENTICATE"} \subseteq Commands \ cmds /\ {"PAYLOAD"} \subseteq Commands \ cmds
  BY DEF Turns, Closings, Commands
<1> QED BY <1>1, <1>2, FewerAdds DEF Writes, FewerToServer

LEMMA FewerSent ==
    ASSUME Inv, NEW cmds, Sends(cmds), cmds \cap (Challenges \cup {"LS"}) = {}
    PROVE  FewerToClient
<1>1. toClient \in Seq(Lines)
  BY DEF Inv, TypeOK, WireOK
<1>2. Challenges \subseteq Commands \ cmds /\ {"LS"} \subseteq Commands \ cmds
  BY DEF Challenges, Commands
<1> QED BY <1>1, <1>2, FewerAdds DEF Sends, FewerToClient

\* What has nothing to do with an exchange leaves it as it stands.
LEMMA TurnKept ==
    ASSUME OneTurn, Unstarted, Standing, Listing,
           connection' = connection, server'.auth = server.auth, awaits' \subseteq awaits,
           capPhase' = capPhase, 
           (mechanism' = mechanism /\ responses' = responses) \/ mechanism' = 0,
           FewerToServer, FewerToClient
    PROVE  OneTurn' /\ Unstarted' /\ Standing' /\ Listing'
<1> USE DEF FewerToServer, FewerToClient, Fewer
<1>1. /\ Awaited("credentials")' => Awaited("credentials")
      /\ Awaited("response")' => Awaited("response")
  BY DEF Awaited
<1>2. NoTurn => NoTurn'
  BY <1>1 DEF NoTurn
<1>3. OneTurn'
  BY <1>1, <1>2 DEF OneTurn
<1>4. Unstarted'
  BY <1>2 DEF Unstarted
<1>5. Standing'
  BY <1>1 DEF Standing
<1>6. Listing'
  BY DEF Listing
<1> QED BY <1>3, <1>4, <1>5, <1>6

\* With no move to make, what is known of moves holds.
LEMMA RestKept ==
    ASSUME NoTurn', capPhase' \in {"listing", "requesting"} =>
                       server'.auth = "idle" /\ Lacks(toServer', Closings)
    PROVE  OneTurn' /\ Unstarted' /\ Standing'
<1>1. Lacks(toServer', {"AUTHENTICATE"}) /\ Lacks(toServer', {"PAYLOAD"})
  BY DEF NoTurn, Turns, Lacks
<1>2. Once(toServer', Turns) /\ Once(toClient', Challenges)
  BY LacksOnce DEF NoTurn
<1> QED BY <1>1, <1>2 DEF NoTurn, OneTurn, Unstarted, Standing

LEMMA EndIdleWrites ==
    ASSUME Inv, EndIdle, NEW cmds, "END" \notin cmds, Writes(cmds),
           server'.auth = server.auth
    PROVE  EndIdle'
<1>1. PICK lines \in Seq(Lines) : toServer' = toServer \o lines /\ Lacks(lines, Commands \ cmds)
  BY DEF Writes, Adds
<1>2. toServer \in Seq(Lines)
  BY DEF Inv, TypeOK, WireOK
<1>3. /\ Len(toServer') = Len(toServer) + Len(lines) /\ Len(toServer) \in Nat /\ Len(lines) \in Nat
      /\ \A i \in 1..Len(toServer') :
            toServer'[i] = IF i <= Len(toServer) THEN toServer[i] ELSE lines[i - Len(toServer)]
  BY <1>1, <1>2, ConcatProperties
<1>4. \A i \in 1..Len(lines) : lines[i].cmd # "END"
  BY <1>1 DEF Lacks, Commands
<1> SUFFICES ASSUME NEW i \in 1..Len(toServer'), toServer'[i].cmd = "END"
             PROVE  \/ i > 1 /\ toServer'[i - 1].cmd = "ABORT"
                    \/ /\ server'.auth = "idle"
                       /\ \A j \in 1..(i - 1) : toServer'[j].cmd # "AUTHENTICATE"
  BY DEF EndIdle
<1>5. i \in 1..Len(toServer)
  BY <1>3, <1>4
<1>6. \A j \in 1..i : toServer'[j] = toServer[j]
  BY <1>3, <1>5
<1>7. \/ i > 1 /\ toServer[i - 1].cmd = "ABORT"
      \/ server.auth = "idle" /\ \A j \in 1..(i - 1) : toServer[j].cmd # "AUTHENTICATE"
  BY <1>5, <1>6 DEF EndIdle
<1> QED BY <1>5, <1>6, <1>7

\* An END that follows what cannot become an exchange, or an ABORT.
LEMMA EndIdleEnds ==
    ASSUME Inv, EndIdle, server'.auth = server.auth,
           \/ /\ toServer' = toServer \o <<Line("END")>>
              /\ server.auth = "idle" /\ Lacks(toServer, Turns)
           \/ toServer' = toServer \o <<Line("ABORT"), Line("END")>>
    PROVE  EndIdle'
<1>1. /\ Line("ABORT") \in Lines /\ Line("ABORT").cmd = "ABORT"
      /\ Line("END") \in Lines /\ Line("END").cmd = "END"
  BY LineType DEF Commands
<1>2. toServer \in Seq(Lines) /\ Len(toServer) \in Nat
  BY DEF Inv, TypeOK, WireOK
<1> DEFINE a == Line("ABORT")
           e == Line("END")
<1>3. /\ <<e>> \in Seq(Lines) /\ Len(<<e>>) = 1 /\ <<e>>[1] = e
      /\ <<a, e>> \in Seq(Lines) /\ Len(<<a, e>>) = 2 /\ <<a, e>>[1] = a /\ <<a, e>>[2] = e
  BY <1>1
<1> HIDE DEF a, e
<1> SUFFICES ASSUME NEW i \in 1..Len(toServer'), toServer'[i].cmd = "END"
             PROVE  \/ i > 1 /\ toServer'[i - 1].cmd = "ABORT"
                    \/ /\ server'.auth = "idle"
                       /\ \A j \in 1..(i - 1) : toServer'[j].cmd # "AUTHENTICATE"
  BY DEF EndIdle
<1>4. CASE /\ toServer' = toServer \o <<e>>
           /\ server.auth = "idle" /\ Lacks(toServer, Turns)
  <2>1. /\ Len(toServer') = Len(toServer) + 1
        /\ \A j \in 1..Len(toServer') :
              toServer'[j] = IF j <= Len(toServer) THEN toServer[j] ELSE <<e>>[j - Len(toServer)]
    BY <1>2, <1>3, <1>4, ConcatProperties
  <2>2. \A j \in 1..Len(toServer) : toServer'[j].cmd # "AUTHENTICATE"
    BY <1>2, <1>4, <2>1 DEF Lacks, Turns
  <2> QED BY <1>2, <1>4, <2>1, <2>2
<1>5. CASE toServer' = toServer \o <<a, e>>
  <2>1. /\ Len(toServer') = Len(toServer) + 2
        /\ \A j \in 1..Len(toServer') :
              toServer'[j] = IF j <= Len(toServer) THEN toServer[j] ELSE <<a, e>>[j - Len(toServer)]
    BY <1>2, <1>3, <1>5, ConcatProperties
  <2>2. CASE i <= Len(toServer)
    <3>1. \A j \in 1..i : toServer'[j] = toServer[j]
      BY <1>2, <2>1, <2>2
    <3>2. \/ i > 1 /\ toServer[i - 1].cmd = "ABORT"
          \/ server.auth = "idle" /\ \A j \in 1..(i - 1) : toServer[j].cmd # "AUTHENTICATE"
      BY <1>2, <2>2, <3>1 DEF EndIdle
    <3> QED BY <1>2, <2>2, <3>1, <3>2
  <2>3. CASE i > Len(toServer)
    <3>1. i = Len(toServer) + 1 \/ i = Len(toServer) + 2
      BY <1>2, <2>1, <2>3
    <3>2. i # Len(toServer) + 1
      BY <1>1, <1>2, <1>3, <2>1 DEF a
    <3>3. toServer'[i - 1] = a /\ i > 1
      BY <1>2, <1>3, <2>1, <3>1, <3>2
    <3> QED BY <1>1, <3>3 DEF a
  <2> QED BY <1>2, <2>1, <2>2, <2>3
<1> QED BY <1>4, <1>5 DEF a, e

\* What the server reads next ends the exchange when it is an ABORT, and
\* starts none unless it is an AUTHENTICATE.
LEMMA EndIdleReads ==
    ASSUME Inv, EndIdle, toServer # <<>>, toServer' = Tail(toServer),
           Asked.cmd = "ABORT" => server'.auth = "idle",
           server.auth = "idle" /\ Asked.cmd # "AUTHENTICATE" => server'.auth = "idle"
    PROVE  EndIdle'
<1>1. /\ toServer \in Seq(Lines) /\ Len(toServer) \in Nat /\ Len(toServer') = Len(toServer) - 1
      /\ \A i \in 1..Len(toServer') : toServer'[i] = toServer[i + 1]
      /\ Asked = toServer[1]
  BY HeadTailProperties DEF Inv, TypeOK, WireOK, Asked
<1> SUFFICES ASSUME NEW i \in 1..Len(toServer'), toServer'[i].cmd = "END"
             PROVE  \/ i > 1 /\ toServer'[i - 1].cmd = "ABORT"
                    \/ /\ server'.auth = "idle"
                       /\ \A j \in 1..(i - 1) : toServer'[j].cmd # "AUTHENTICATE"
  BY DEF EndIdle
<1>2. i + 1 \in 1..Len(toServer) /\ toServer[i + 1].cmd = "END"
  BY <1>1
<1>3. CASE toServer[i].cmd = "ABORT"
  <2>1. CASE i = 1
    BY <1>1, <1>3, <2>1
  <2>2. CASE i > 1
    BY <1>1, <1>3, <2>2
  <2> QED BY <1>1, <2>1, <2>2
<1>4. CASE toServer[i].cmd # "ABORT"
  <2>1. server.auth = "idle" /\ \A j \in 1..i : toServer[j].cmd # "AUTHENTICATE"
    <3>1. ~((i + 1) > 1 /\ toServer[(i + 1) - 1].cmd = "ABORT")
      BY <1>4
    <3>2. server.auth = "idle" /\ \A j \in 1..((i + 1) - 1) : toServer[j].cmd # "AUTHENTICATE"
      BY <1>2, <3>1 DEF EndIdle
    <3> QED BY <3>2
  <2>2. server'.auth = "idle"
    BY <1>1, <2>1
  <2>3. \A j \in 1..(i - 1) : toServer'[j].cmd # "AUTHENTICATE"
    BY <1>1, <2>1
  <2> QED BY <2>2, <2>3
<1> QED BY <1>3, <1>4

\* The parts of Exchange.
ExchangeHeld == OneTurn /\ Unstarted /\ EndIdle /\ Standing /\ Listing

LEMMA ExchangeKeptBy ==
    ASSUME Inv, ExchangeHeld, UNCHANGED <<connection, capPhase, server, toClient>>,
           awaits' \subseteq awaits,
           (mechanism' = mechanism /\ responses' = responses) \/ mechanism' = 0,
           NEW cmds, Writes(cmds), cmds \cap (Turns \cup Closings) = {}
    PROVE  ExchangeHeld'
<1>1. "END" \notin cmds
  BY DEF Closings
<1> QED BY <1>1, FewerWritten, FewerRead, TurnKept, EndIdleWrites DEF ExchangeHeld

LEMMA OpensExchange ==
    ASSUME Inv, AwaitsOurs, Opens
    PROVE  ExchangeHeld'
<1>1. awaits = {}
  BY DEF Opens, Link!Open, AwaitsOurs
<1>2. /\ capPhase' = "listing" /\ toClient' = <<>> /\ toServer' \in {<<>>, Opening}
      /\ server'.auth = "idle" /\ ~Awaited("credentials")' /\ ~Awaited("response")'
  BY <1>1 DEF Opens, FirstLines, Awaited
<1>3. \A cmds : Lacks(toClient', cmds) /\ Once(toClient', cmds)
  BY <1>2, LacksEmpty
<1>4. Lacks(toServer', Turns) /\ Lacks(toServer', Closings)
  <2>1. CASE toServer' = <<>>
    BY <2>1, LacksEmpty
  <2>2. CASE toServer' = Opening
    <3>1. Lacks(Opening, Turns) /\ Lacks(Opening, Closings)
      <4> DEFINE l == Line("LS")
                 n == NickLine("NICK", 0)
                 u == Line("USER")
      <4>1. l.cmd = "LS" /\ n.cmd = "NICK" /\ u.cmd = "USER"
        BY DEF Line, NickLine
      <4>2. Opening = <<l, n, u>>
        BY DEF Opening
      <4> HIDE DEF l, n, u
      <4> QED BY <4>1, <4>2 DEF Lacks, Turns, Closings
    <3> QED BY <2>2, <3>1
  <2> QED BY <1>2, <2>1, <2>2
<1>5. NoTurn'
  BY <1>2, <1>3, <1>4 DEF NoTurn
<1>6. EndIdle'
  BY <1>4 DEF EndIdle, Lacks, Closings
<1>7. OneTurn' /\ Unstarted' /\ Standing'
  BY <1>2, <1>4, <1>5, RestKept
<1>8. Listing'
  BY <1>2, <1>3 DEF Listing
<1> QED BY <1>6, <1>7, <1>8 DEF ExchangeHeld

----------------------------------------------------------------------------
(* An exchange: continuations.                                             *)

LEMMA PasswordExchange ==
    ASSUME Inv, ExchangeHeld, kind = "connected", NEW c \in 1..Connections, PasswordRead(c)
    PROVE  ExchangeHeld'
<1>1. /\ UNCHANGED <<connection, capPhase, server, toClient, mechanism, responses>>
      /\ awaits' \subseteq awaits
  BY ContinueStep DEF PasswordRead
<1>2. Writes({"LS", "NICK", "USER", "PASS"})
  <2> DEFINE first == {"LS", "NICK", "USER", "PASS"}
             l == Line("LS")
             n == NickLine("NICK", 0)
             u == Line("USER")
             p == Line("PASS")
  <2>1. /\ l \in Lines /\ l.cmd = "LS" /\ n \in Lines /\ n.cmd = "NICK"
        /\ u \in Lines /\ u.cmd = "USER" /\ p \in Lines /\ p.cmd = "PASS"
    <3>1. {"LS", "NICK", "USER", "PASS"} \subseteq Commands /\ 0 \in Nicks
      BY ProfileAssumption DEF Commands, Nicks, Shortened, Longest
    <3> QED BY <3>1, LineType
  <2>2. Opening = <<l, n, u>>
    BY DEF Opening
  <2> HIDE DEF l, n, u, p
  <2>3. Opening \in Seq(Lines) /\ Lacks(Opening, Commands \ first)
    BY <2>1, <2>2 DEF Lacks
  <2>4. <<p>> \in Seq(Lines) /\ Lacks(<<p>>, Commands \ first)
    BY <2>1 DEF Lacks
  <2> HIDE DEF first
  <2>5. <<p>> \o Opening \in Seq(Lines) /\ Lacks(<<p>> \o Opening, Commands \ first)
    BY <2>3, <2>4, LacksConcat, ConcatProperties
  <2>6. toServer' = toServer \o Opening \/ toServer' = toServer \o (<<p>> \o Opening)
    BY DEF PasswordRead, Write, p
  <2>7. Writes(first)
    BY <2>3, <2>5, <2>6 DEF Writes, Adds
  <2> QED BY <2>7 DEF first
<1>3. {"LS", "NICK", "USER", "PASS"} \cap (Turns \cup Closings) = {}
  BY DEF Turns, Closings
<1> QED BY <1>1, <1>2, <1>3, ExchangeKeptBy

\* Giving up leaves nobody with a move to make.
LEMMA GivesUp ==
    ASSUME Inv, ExchangeHeld, UNCHANGED <<connection, server>>,
           toServer' = toServer \o <<Line("ABORT"), Line("END")>>,
           Lacks(toServer, Turns), Lacks(toClient', Challenges),
           ~Awaited("credentials")', ~Awaited("response")',
           capPhase' \notin {"listing", "requesting"}, Listing'
    PROVE  ExchangeHeld'
<1>1. Lacks(toServer', Turns)
  <2>1. Line("ABORT") \in Lines /\ Line("ABORT").cmd = "ABORT"
        /\ Line("END") \in Lines /\ Line("END").cmd = "END"
    BY LineType DEF Commands
  <2>2. toServer \in Seq(Lines)
    BY DEF Inv, TypeOK, WireOK
  <2>3. Adds(toServer, toServer', {"ABORT", "END"})
    BY <2>1, <2>2, AddsTwo
  <2>4. Turns \subseteq Commands \ {"ABORT", "END"}
    BY DEF Turns, Commands
  <2> QED BY <2>2, <2>3, <2>4, AddsKeeps
<1>2. NoTurn'
  BY <1>1 DEF NoTurn
<1>3. EndIdle'
  BY EndIdleEnds DEF ExchangeHeld
<1> QED BY <1>2, <1>3, RestKept DEF ExchangeHeld

LEMMA CredentialsExchange ==
    ASSUME Inv, AwaitsOurs, ExchangeHeld, kind = "connected",
           NEW c \in 1..Connections, CredentialsRead(c)
    PROVE  ExchangeHeld'
<1>1. /\ UNCHANGED <<connection, capPhase, server, toClient>>
      /\ c = connection /\ Awaited("credentials")
      /\ awaits' = awaits \ {<<"credentials", connection>>}
  BY ContinueStep DEF CredentialsRead, Resumes, AwaitsOurs, Awaited
<1>2. /\ Lacks(toServer, Turns) /\ Lacks(toClient, Challenges) /\ ~Awaited("response")
      /\ Lacks(toServer, Closings) /\ capPhase \notin {"listing", "requesting"}
  BY <1>1 DEF ExchangeHeld, OneTurn, NoTurn, Unstarted
<1>3. ~Awaited("credentials")' /\ ~Awaited("response")' /\ Listing'
  BY <1>1, <1>2 DEF Awaited, ExchangeHeld, Listing
<1>4. CASE FailAuth
  <2>1. toServer' = toServer \o <<Line("ABORT"), Line("END")>>
    BY <1>4, FailAuthWrites
  <2> QED BY <1>1, <1>2, <1>3, <2>1, GivesUp
<1>5. CASE mechanism' = c /\ responses' = 0 /\ Write(<<Line("AUTHENTICATE")>>)
  <2> DEFINE a == Line("AUTHENTICATE")
  <2>1. a \in Lines /\ a.cmd = "AUTHENTICATE" /\ toServer \in Seq(Lines)
        /\ <<a>> \in Seq(Lines)
    BY OneLine, LineType DEF Commands, Inv, TypeOK, WireOK
  <2>2. toServer' = toServer \o <<a>>
    BY <1>5 DEF Write
  <2> HIDE DEF a
  <2>3. Once(toServer', Turns) /\ Lacks(toServer', Closings) /\ Lacks(toServer', {"PAYLOAD"})
    <3>1. Lacks(<<a>>, Closings) /\ Lacks(<<a>>, {"PAYLOAD"}) /\ Once(<<a>>, Turns)
      BY <2>1, LacksLine DEF Closings
    <3>2. Lacks(toServer, {"PAYLOAD"})
      BY <1>2, LacksOnce DEF Turns
    <3> QED BY <1>2, <2>1, <2>2, <3>1, <3>2, LacksConcat
  <2>4. OneTurn'
    BY <1>1, <1>2, <1>3, <2>3 DEF ExchangeHeld, OneTurn
  <2>5. Standing' /\ Unstarted'
    BY <1>1, <1>2, <1>3, <1>5, <2>3 DEF Standing, Unstarted
  <2>6. EndIdle'
    BY <2>3 DEF EndIdle, Lacks, Closings
  <2> QED BY <1>3, <2>4, <2>5, <2>6 DEF ExchangeHeld
<1> QED BY <1>4, <1>5 DEF CredentialsRead

LEMMA RespondedExchange ==
    ASSUME Inv, AwaitsOurs, ExchangeHeld, kind = "connected",
           NEW c \in 1..Connections, Responded(c)
    PROVE  ExchangeHeld'
<1>1. /\ UNCHANGED <<connection, capPhase, server, toClient, mechanism>>
      /\ c = connection /\ Awaited("response")
      /\ awaits' = awaits \ {<<"response", connection>>}
  BY ContinueStep DEF Responded, Resumes, AwaitsOurs, Awaited
<1>2. /\ Lacks(toServer, Turns) /\ Lacks(toClient, Challenges) /\ ~Awaited("credentials")
      /\ Lacks(toServer, Closings) /\ capPhase \notin {"listing", "requesting"}
  BY <1>1 DEF ExchangeHeld, OneTurn, NoTurn, Unstarted
<1>3. ~Awaited("credentials")' /\ ~Awaited("response")' /\ Listing'
  BY <1>1, <1>2 DEF Awaited, ExchangeHeld, Listing
<1>4. CASE mechanism = c /\ responses' = 2 /\ Write(<<Line("PAYLOAD")>>)
  <2> DEFINE p == Line("PAYLOAD")
  <2>1. p \in Lines /\ p.cmd = "PAYLOAD" /\ toServer \in Seq(Lines) /\ <<p>> \in Seq(Lines)
    BY OneLine, LineType DEF Commands, Inv, TypeOK, WireOK
  <2>2. toServer' = toServer \o <<p>>
    BY <1>4 DEF Write
  <2> HIDE DEF p
  <2>3. Once(toServer', Turns) /\ Lacks(toServer', Closings) /\ Lacks(toServer', {"AUTHENTICATE"})
    <3>1. Lacks(<<p>>, Closings) /\ Lacks(<<p>>, {"AUTHENTICATE"}) /\ Once(<<p>>, Turns)
      BY <2>1, LacksLine DEF Closings
    <3>2. Lacks(toServer, {"AUTHENTICATE"})
      BY <1>2, LacksOnce DEF Turns
    <3> QED BY <1>2, <2>1, <2>2, <3>1, <3>2, LacksConcat
  <2>4. OneTurn'
    BY <1>1, <1>2, <1>3, <2>3 DEF ExchangeHeld, OneTurn
  <2>5. server.auth = "second"
    BY <1>1, <1>4 DEF ExchangeHeld, Standing
  <2>6. Standing' /\ Unstarted'
    BY <1>1, <1>2, <1>3, <1>4, <2>3, <2>5 DEF Standing, Unstarted
  <2>7. EndIdle'
    BY <2>3 DEF EndIdle, Lacks, Closings
  <2> QED BY <1>3, <2>4, <2>6, <2>7 DEF ExchangeHeld
<1>5. CASE mechanism # c /\ UNCHANGED <<responses, toServer>>
  <2>1. Writes({}) /\ {} \cap (Turns \cup Closings) = {}
    BY <1>5, QuietWrites
  <2>2. awaits' \subseteq awaits
    BY <1>1
  <2>3. UNCHANGED <<connection, capPhase, server, toClient>>
        /\ mechanism' = mechanism /\ responses' = responses
    BY <1>1, <1>5
  <2> QED BY <2>1, <2>2, <2>3, ExchangeKeptBy
<1> QED BY <1>4, <1>5 DEF Responded

----------------------------------------------------------------------------
(* An exchange: what the client reads.                                     *)

\* The end of a negotiation that has led to no exchange.
LEMMA NegotiationEnds ==
    ASSUME Inv, ExchangeHeld, kind = "connected", UNCHANGED <<connection, server>>,
           awaits' = awaits, capPhase \in {"listing", "requesting"}, capPhase' = "done",
           FewerToClient, Write(<<Line("END")>>),
           capPhase = "listing" => Lacks(toClient', {"LS"})
    PROVE  ExchangeHeld'
<1>1. /\ toServer' = toServer \o <<Line("END")>> /\ toServer \in Seq(Lines)
      /\ Line("END") \in Lines /\ Line("END").cmd = "END"
  BY LineType DEF Write, Inv, TypeOK, WireOK, Commands
<1>2. server.auth = "idle" /\ NoTurn
  BY DEF ExchangeHeld, Unstarted
<1>3. Lacks(toServer', Turns)
  <2>1. <<Line("END")>> \in Seq(Lines) /\ Lacks(<<Line("END")>>, Turns)
    BY <1>1, LacksLine DEF Turns
  <2> QED BY <1>1, <1>2, <2>1, LacksConcat DEF NoTurn
<1>4. NoTurn'
  BY <1>2, <1>3 DEF NoTurn, FewerToClient, Fewer, Awaited
<1>5. EndIdle'
  BY <1>1, <1>2, EndIdleEnds DEF ExchangeHeld, NoTurn
<1>6. Listing'
  BY LacksOnce DEF ExchangeHeld, Listing, FewerToClient, Fewer
<1> QED BY <1>4, <1>5, <1>6, RestKept DEF ExchangeHeld

LEMMA SaslKept ==
    ASSUME NEW next, SaslAfter(next)
    PROVE  /\ awaits' = awaits
           /\ (mechanism' = mechanism /\ responses' = responses) \/ mechanism' = 0
BY DEF SaslAfter

LEMMA QuietReadsExchange ==
    ASSUME Inv, ExchangeHeld, ClientReads,
           \/ ListContinues \/ Lost \/ Outcome \/ Welcomed \/ MotdEnds \/ Renamed \/ Dismissed
           \/ Gained \/ Collides
    PROVE  ExchangeHeld'
<1>1. UNCHANGED <<connection, server>> /\ FewerToClient
  BY ReadStep, FewerRead
<1>2. /\ capPhase' = capPhase /\ awaits' = awaits
      /\ (mechanism' = mechanism /\ responses' = responses) \/ mechanism' = 0
  BY SaslKept DEF ListContinues, Lost, Outcome, Welcomed, MotdEnds, Renamed, Dismissed, Gained,
     Collides, caps
<1>3. PICK cmds \in {{}, {"REQ"}, {"NICK"}} : Writes(cmds)
  BY ReadWrites, QuietWrites
<1>4. cmds \cap (Turns \cup Closings) = {} /\ "END" \notin cmds
  BY DEF Turns, Closings
<1>5. FewerToServer
  BY <1>3, <1>4, FewerWritten
<1> QED BY <1>1, <1>2, <1>3, <1>4, <1>5, TurnKept, EndIdleWrites DEF ExchangeHeld

LEMMA ListEndsExchange ==
    ASSUME Inv, ExchangeHeld, ListEnds
    PROVE  ExchangeHeld'
<1>1. /\ kind = "connected" /\ UNCHANGED <<connection, server>> /\ FewerToClient
      /\ toClient # <<>> /\ Head(toClient).cmd = "LS" /\ toClient' = Tail(toClient)
      /\ toClient \in Seq(Lines)
  BY FewerRead DEF ListEnds, Reads, link, Inv, TypeOK, WireOK
<1>2. capPhase = "listing" /\ Lacks(toClient', {"LS"})
  BY <1>1, LacksTail DEF ExchangeHeld, Listing
<1>3. awaits' = awaits
  BY DEF ListEnds, SaslAfter
<1>4. CASE capPhase' = "done" /\ Write(<<Line("END")>>)
  BY <1>1, <1>2, <1>3, <1>4, NegotiationEnds
<1>5. CASE capPhase' = "requesting" /\ Write(<<CapLine("REQ", available')>>)
  <2>1. Writes({"REQ"})
    <3>1. available' \in SUBSET Caps
      BY ReadsOK DEF ListEnds, Inv, TypeOK, SessionOK, Lines
    <3>2. CapLine("REQ", available') \in Lines /\ CapLine("REQ", available').cmd = "REQ"
      BY <3>1, LineType DEF Commands
    <3> QED BY <1>1, <1>5, <3>2, WriteWrites
  <2>2. FewerToServer /\ EndIdle'
    <3>1. {"REQ"} \cap (Turns \cup Closings) = {} /\ "END" \notin {"REQ"}
      BY DEF Turns, Closings
    <3> QED BY <1>1, <2>1, <3>1, FewerWritten, EndIdleWrites DEF ExchangeHeld
  <2>3. server.auth = "idle" /\ NoTurn /\ Lacks(toServer, Closings)
    BY <1>2 DEF ExchangeHeld, Unstarted
  <2>4. NoTurn' /\ Lacks(toServer', Closings)
    BY <1>1, <1>3, <2>2, <2>3 DEF NoTurn, FewerToClient, FewerToServer, Fewer, Awaited
  <2>5. Listing'
    BY <1>2, LacksOnce DEF Listing
  <2> QED BY <1>1, <2>2, <2>3, <2>4, <2>5, RestKept DEF ExchangeHeld
<1> QED BY <1>4, <1>5 DEF ListEnds

LEMMA AcknowledgedExchange ==
    ASSUME Inv, ExchangeHeld, Acknowledged
    PROVE  ExchangeHeld'
<1>1. /\ kind = "connected" /\ UNCHANGED <<connection, server>> /\ FewerToClient
  BY FewerRead DEF Acknowledged, Reads, link
<1>2. CASE capPhase # "requesting"
  <2>1. UNCHANGED <<capPhase, toServer, awaits>>
        /\ ((mechanism' = mechanism /\ responses' = responses) \/ mechanism' = 0)
    BY <1>2 DEF Acknowledged, SaslAfter
  <2>2. FewerToServer /\ EndIdle'
    BY <1>1, <2>1, FewerRead DEF ExchangeHeld, EndIdle
  <2> QED BY <1>1, <2>1, <2>2, TurnKept DEF ExchangeHeld
<1>3. CASE capPhase = "requesting"
  <2>1. server.auth = "idle" /\ NoTurn /\ Lacks(toServer, Closings) /\ Lacks(toClient, {"LS"})
    BY <1>3 DEF ExchangeHeld, Unstarted, Listing
  <2>2. Lacks(toClient', Challenges) /\ Lacks(toClient', {"LS"})
    BY <1>1, <2>1 DEF FewerToClient, Fewer, NoTurn
  <2>3. CASE capPhase' = "authenticating" /\ FailAuth /\ awaits' = awaits
    <3>1. toServer' = toServer \o <<Line("ABORT"), Line("END")>>
      BY <1>1, <2>3, FailAuthWrites
    <3>2. ~Awaited("credentials")' /\ ~Awaited("response")' /\ Listing'
      BY <1>1, <2>1, <2>2, <2>3, LacksOnce DEF NoTurn, Awaited, Listing
    <3> QED BY <1>1, <2>1, <2>2, <2>3, <3>1, <3>2, GivesUp DEF NoTurn
  <2>4. CASE /\ capPhase' = "authenticating"
             /\ awaits' = awaits \cup {<<"credentials", connection>>}
             /\ UNCHANGED <<mechanism, responses, toServer>>
    <3>1. Lacks(toServer', Turns) /\ Lacks(toServer', Closings) /\ ~Awaited("response")'
          /\ Lacks(toServer', {"AUTHENTICATE"}) /\ Lacks(toServer', {"PAYLOAD"})
      BY <1>1, <2>1, <2>4, LacksOnce DEF NoTurn, Awaited, Turns
    <3>2. OneTurn' /\ Unstarted' /\ Standing' /\ Listing'
      BY <2>2, <2>4, <3>1, LacksOnce DEF OneTurn, Unstarted, Standing, Listing
    <3>3. EndIdle'
      BY <3>1 DEF EndIdle, Lacks, Closings
    <3> QED BY <3>2, <3>3 DEF ExchangeHeld
  <2>5. CASE capPhase' = "done" /\ Write(<<Line("END")>>) /\ SaslAfter(phase)
    <3>1. awaits' = awaits
      BY <2>5 DEF SaslAfter
    <3> QED BY <1>1, <1>3, <2>5, <3>1, NegotiationEnds
  <2> QED BY <1>3, <2>3, <2>4, <2>5 DEF Acknowledged
<1> QED BY <1>2, <1>3

LEMMA RefusedExchange ==
    ASSUME Inv, ExchangeHeld, Refused
    PROVE  ExchangeHeld'
<1>1. /\ kind = "connected" /\ UNCHANGED <<connection, server>> /\ FewerToClient
      /\ awaits' = awaits
      /\ (mechanism' = mechanism /\ responses' = responses) \/ mechanism' = 0
  BY FewerRead DEF Refused, Reads, link, SaslAfter
<1>2. CASE capPhase = "requesting" /\ capPhase' = "done" /\ Write(<<Line("END")>>)
  BY <1>1, <1>2, NegotiationEnds
<1>3. CASE UNCHANGED <<capPhase, toServer>>
  <2>1. FewerToServer /\ EndIdle'
    BY <1>1, <1>3, FewerRead DEF ExchangeHeld, EndIdle
  <2> QED BY <1>1, <1>3, <2>1, TurnKept DEF ExchangeHeld
<1> QED BY <1>2, <1>3 DEF Refused

LEMMA ChallengedExchange ==
    ASSUME Inv, ExchangeHeld, Challenged
    PROVE  ExchangeHeld'
<1>1. /\ kind = "connected" /\ UNCHANGED <<connection, server, capPhase>> /\ FewerToClient
      /\ toClient \in Seq(Lines)
      /\ toClient # <<>> /\ Head(toClient).cmd \in Challenges /\ toClient' = Tail(toClient)
  BY FewerRead DEF Challenged, Reads, link, caps, Challenges, Inv, TypeOK, WireOK
<1>2. ~Lacks(toClient, Challenges) /\ Lacks(toClient', Challenges)
  BY <1>1, LacksTail DEF ExchangeHeld, OneTurn
<1>3. /\ Lacks(toServer, Turns) /\ Lacks(toServer, Closings)
      /\ ~Awaited("credentials") /\ ~Awaited("response")
      /\ capPhase \notin {"listing", "requesting"}
      /\ mechanism \in {0, connection}
      /\ mechanism # 0 => /\ responses = 0 => server.auth = "first"
                          /\ responses = 1 => server.auth = "second"
  BY <1>2 DEF ExchangeHeld, OneTurn, NoTurn, Unstarted, Standing
<1>4. Listing'
  BY <1>1 DEF ExchangeHeld, Listing, FewerToClient, Fewer
<1>5. ASSUME UNCHANGED <<mechanism, responses, toServer>>, awaits' = awaits PROVE ExchangeHeld'
  <2>1. FewerToServer /\ EndIdle'
    BY <1>1, <1>5, FewerRead DEF ExchangeHeld, EndIdle
  <2> QED BY <1>1, <1>5, <2>1, TurnKept DEF ExchangeHeld
<1>6. CASE /\ mechanism # 0 /\ responses = 0 /\ responses' = 1
           /\ Write(<<Line("PAYLOAD")>>) /\ UNCHANGED <<mechanism, awaits>>
  <2> DEFINE p == Line("PAYLOAD")
  <2>1. p \in Lines /\ p.cmd = "PAYLOAD" /\ toServer \in Seq(Lines) /\ <<p>> \in Seq(Lines)
    BY OneLine, LineType DEF Commands, Inv, TypeOK, WireOK
  <2>2. toServer' = toServer \o <<p>>
    BY <1>1, <1>6 DEF Write
  <2> HIDE DEF p
  <2>3. Once(toServer', Turns) /\ Lacks(toServer', Closings) /\ Lacks(toServer', {"AUTHENTICATE"})
    <3>1. Lacks(<<p>>, Closings) /\ Lacks(<<p>>, {"AUTHENTICATE"}) /\ Once(<<p>>, Turns)
      BY <2>1, LacksLine DEF Closings
    <3>2. Lacks(toServer, {"AUTHENTICATE"})
      BY <1>3, LacksOnce DEF Turns
    <3> QED BY <1>3, <2>1, <2>2, <3>1, <3>2, LacksConcat
  <2>4. ~Awaited("credentials")' /\ ~Awaited("response")'
    BY <1>1, <1>3, <1>6 DEF Awaited
  <2>5. OneTurn'
    BY <1>2, <2>3, <2>4, LacksOnce DEF OneTurn
  <2>6. Standing' /\ Unstarted'
    BY <1>1, <1>2, <1>3, <1>6, <2>3, <2>4 DEF Standing, Unstarted
  <2>7. EndIdle'
    BY <2>3 DEF EndIdle, Lacks, Closings
  <2> QED BY <1>4, <2>5, <2>6, <2>7 DEF ExchangeHeld
<1>7. CASE FailAuth /\ awaits' = awaits
  <2>1. toServer' = toServer \o <<Line("ABORT"), Line("END")>>
    BY <1>1, <1>7, FailAuthWrites
  <2>2. ~Awaited("credentials")' /\ ~Awaited("response")'
    BY <1>1, <1>3, <1>7 DEF Awaited
  <2> QED BY <1>1, <1>2, <1>3, <1>4, <2>1, <2>2, GivesUp
<1>8. CASE /\ mechanism # 0 /\ responses = 1
           /\ awaits' = awaits \cup {<<"response", mechanism>>}
           /\ UNCHANGED <<mechanism, responses, toServer>>
  <2>1. ~Awaited("credentials")' /\ Lacks(toServer', Turns) /\ Lacks(toServer', Closings)
        /\ Lacks(toServer', {"AUTHENTICATE"}) /\ Lacks(toServer', {"PAYLOAD"})
    BY <1>1, <1>3, <1>8, LacksOnce DEF Awaited, Turns
  <2>2. OneTurn' /\ Unstarted'
    BY <1>1, <1>2, <1>3, <2>1, LacksOnce DEF OneTurn, Unstarted
  <2>3. Standing'
    BY <1>1, <1>2, <1>3, <1>8, <2>1 DEF Standing
  <2>4. EndIdle'
    BY <2>1 DEF EndIdle, Lacks, Closings
  <2> QED BY <1>4, <2>2, <2>3, <2>4 DEF ExchangeHeld
<1> QED BY <1>5, <1>6, <1>7, <1>8 DEF Challenged, sasl

----------------------------------------------------------------------------
(* An exchange: what the server reads and says.                            *)

LEMMA QuietServesExchange ==
    ASSUME Inv, Opened, ExchangeHeld, Lists \/ Grants \/ Names \/ Identifies
    PROVE  ExchangeHeld'
<1>1. /\ kind = "connected" /\ toServer # <<>> /\ toServer' = Tail(toServer)
      /\ UNCHANGED <<connection, capPhase, mechanism, responses, awaits>>
  BY ServerStep DEF ServerReads
<1>2. server'.auth = server.auth /\ Asked.cmd # "ABORT" /\ toClient \in Seq(Lines)
  BY DEF Lists, Grants, Names, Identifies, Serves, Asks, Inv, TypeOK, Servers, WireOK
<1>3. FewerToServer /\ EndIdle'
  BY <1>1, <1>2, FewerRead, EndIdleReads DEF ExchangeHeld
<1>4. CASE Lists
  <2>1. server.openings = 0 /\ Before
    <3>1. Head(toServer).cmd = "LS" /\ toServer \in Seq(Lines)
      BY <1>4 DEF Lists, Asks, Asked, Inv, TypeOK, WireOK
    <3>2. ~Lacks(toServer, {"LS", "PASS"})
      BY <1>1, <3>1, LacksTail
    <3> QED BY <1>1, <3>2 DEF Opened, After
  <2>2. /\ capPhase = "listing" /\ server.auth = "idle" /\ NoTurn /\ Lacks(toServer, Closings)
    BY <2>1 DEF Before, ExchangeHeld, Unstarted
  <2>3. PICK lines \in Seq(Lines) :
           toClient' = toClient \o lines /\ Lacks(lines, Challenges) /\ Once(lines, {"LS"})
    <3>1. PICK first \in {{}, server.offer \cap {Sasl}} :
             toClient' = toClient \o ((IF first = {} THEN <<>> ELSE <<CapLine("LS*", first)>>)
                                      \o <<CapLine("LS", server.offer \ first)>>)
      BY <1>4 DEF Lists, Serves
    <3> DEFINE a == CapLine("LS*", first)
               b == CapLine("LS", server.offer \ first)
               head == IF first = {} THEN <<>> ELSE <<a>>
    <3>2. first \in SUBSET Caps /\ server.offer \ first \in SUBSET Caps
      BY DEF Inv, TypeOK, Servers
    <3>3. a \in Lines /\ a.cmd = "LS*" /\ b \in Lines /\ b.cmd = "LS"
      BY <3>2, LineType DEF Commands
    <3>4. toClient' = toClient \o (head \o <<b>>)
      BY <3>1
    <3> HIDE DEF a, b
    <3>5. head \in Seq(Lines) /\ Lacks(head, Challenges) /\ Lacks(head, {"LS"})
      <4>1. CASE first = {}
        BY <4>1, LacksEmpty
      <4>2. CASE first # {}
        <5>1. <<a>> \in Seq(Lines) /\ Lacks(<<a>>, Challenges) /\ Lacks(<<a>>, {"LS"})
          BY <3>3, LacksLine DEF Challenges
        <5> QED BY <4>2, <5>1
      <4> QED BY <4>1, <4>2
    <3>6. <<b>> \in Seq(Lines) /\ Lacks(<<b>>, Challenges) /\ Once(<<b>>, {"LS"})
      BY <3>3, LacksLine DEF Challenges
    <3> HIDE DEF head
    <3>7. head \o <<b>> \in Seq(Lines)
      BY <3>5, <3>6, ConcatProperties
    <3>8. Lacks(head \o <<b>>, Challenges) /\ Once(head \o <<b>>, {"LS"})
      BY <3>5, <3>6, LacksConcat
    <3> QED BY <3>4, <3>7, <3>8
  <2>4. Lacks(toClient, Challenges) /\ Lacks(toClient, {"LS"})
    <3>1. Lacks(toClient, Commands \ {"ERROR"})
      BY <2>1 DEF Before
    <3>2. Challenges \subseteq Commands \ {"ERROR"} /\ {"LS"} \subseteq Commands \ {"ERROR"}
      BY DEF Challenges, Commands
    <3> QED BY <3>1, <3>2, LacksOnce
  <2>5. Lacks(toClient', Challenges) /\ Once(toClient', {"LS"})
    BY <1>2, <2>3, <2>4, LacksConcat
  <2>6. NoTurn' /\ Lacks(toServer', Closings)
    BY <1>1, <1>3, <2>2, <2>5 DEF NoTurn, FewerToServer, Fewer, Awaited
  <2>7. Listing'
    BY <1>1, <2>2, <2>5 DEF Listing
  <2> QED BY <1>1, <1>2, <1>3, <2>2, <2>6, <2>7, RestKept DEF ExchangeHeld
<1>5. CASE Grants \/ Names \/ Identifies
  <2>1. FewerToClient
    <3>1. /\ {"ACK", "NAK"} \cap (Challenges \cup {"LS"}) = {}
          /\ {"433", "NICK"} \cap (Challenges \cup {"LS"}) = {}
      BY DEF Challenges
    <3> QED BY <1>5, <3>1, ServerSends, FewerSent, FewerRead
  <2> QED BY <1>1, <1>2, <1>3, <2>1, TurnKept DEF ExchangeHeld
<1> QED BY <1>4, <1>5

LEMMA EndsExchange ==
    ASSUME Inv, ExchangeHeld, Ends \/ Aborts
    PROVE  ExchangeHeld'
<1>1. /\ kind = "connected" /\ toServer # <<>> /\ toServer' = Tail(toServer)
      /\ UNCHANGED <<connection, capPhase, mechanism, responses, awaits>>
  BY ServerStep DEF ServerReads
<1>2. server'.auth = "idle" /\ Head(toServer).cmd \in Closings /\ toServer \in Seq(Lines)
  BY DEF Ends, Aborts, Serves, Asks, Asked, Inv, TypeOK, Servers, WireOK, Closings
<1>3. FewerToServer /\ EndIdle'
  BY <1>1, <1>2, FewerRead, EndIdleReads DEF ExchangeHeld
<1>4. FewerToClient
  <2>1. {"OUTCOME"} \cap (Challenges \cup {"LS"}) = {}
    BY DEF Challenges
  <2> QED BY <2>1, ServerSends, FewerSent
<1>5. ~Lacks(toServer, Closings)
  BY <1>1, <1>2, LacksTail
<1>6. NoTurn /\ capPhase \notin {"listing", "requesting"}
  BY <1>5 DEF ExchangeHeld, OneTurn, Unstarted
<1>7. NoTurn' /\ Listing'
  BY <1>1, <1>3, <1>4, <1>6
     DEF NoTurn, FewerToServer, FewerToClient, Fewer, Awaited, ExchangeHeld, Listing
<1> QED BY <1>1, <1>3, <1>6, <1>7, RestKept DEF ExchangeHeld

\* The server has the move: an AUTHENTICATE or a PAYLOAD is the only one there is.
LEMMA ServerMoves ==
    ASSUME Inv, ExchangeHeld, StartsExchange \/ Judges
    PROVE  /\ kind = "connected" /\ UNCHANGED <<connection, capPhase, mechanism, responses, awaits>>
           /\ Lacks(toServer', Turns) /\ Lacks(toServer', Closings)
           /\ Lacks(toServer', {"AUTHENTICATE"}) /\ Lacks(toServer', {"PAYLOAD"})
           /\ EndIdle'
           /\ Lacks(toClient, Challenges) /\ ~Awaited("credentials")' /\ ~Awaited("response")'
           /\ capPhase \notin {"listing", "requesting"} /\ mechanism \in {0, connection}
           /\ StartsExchange /\ mechanism # 0 => responses = 0
           /\ Judges /\ mechanism # 0 =>
                 responses # 0 /\ (server.auth = "second" => responses = 2)
           /\ Fewer(toClient, toClient', {"LS"})
<1>1. /\ kind = "connected" /\ toServer # <<>> /\ toServer' = Tail(toServer)
      /\ UNCHANGED <<connection, capPhase, mechanism, responses, awaits>>
  BY ServerStep DEF ServerReads
<1>2. /\ Head(toServer).cmd \in Turns /\ toServer \in Seq(Lines) /\ toClient \in Seq(Lines)
      /\ StartsExchange => Head(toServer).cmd = "AUTHENTICATE"
      /\ Judges => Head(toServer).cmd = "PAYLOAD"
  BY DEF StartsExchange, Judges, Asks, Asked, Inv, TypeOK, WireOK, Turns
<1>3. ~Lacks(toServer, Turns) /\ Lacks(toServer', Turns)
      /\ (StartsExchange => ~Lacks(toServer, {"AUTHENTICATE"}))
      /\ (Judges => ~Lacks(toServer, {"PAYLOAD"}))
  BY <1>1, <1>2, LacksTail DEF ExchangeHeld, OneTurn
<1>4. /\ Lacks(toClient, Challenges) /\ ~Awaited("credentials") /\ ~Awaited("response")
      /\ Lacks(toServer, Closings) /\ capPhase \notin {"listing", "requesting"}
      /\ mechanism \in {0, connection}
  BY <1>3 DEF ExchangeHeld, OneTurn, NoTurn, Unstarted, Standing
<1>5. Lacks(toServer', Closings)
  BY <1>1, <1>2, <1>4, LacksTail
<1>6. Lacks(toServer', {"AUTHENTICATE"}) /\ Lacks(toServer', {"PAYLOAD"}) /\ EndIdle'
  BY <1>3, <1>5 DEF Lacks, Turns, Closings, EndIdle
<1>7. Fewer(toClient, toClient', {"LS"})
  <2>1. /\ {"LS"} \subseteq Commands \ {"CHALLENGE", "OUTCOME"}
        /\ {"LS"} \subseteq Commands \ {"CHALLENGE", "BADCHALLENGE", "OUTCOME"}
    BY DEF Commands
  <2> QED BY <1>2, <2>1, ServerSends, FewerAdds DEF Sends
<1>8. /\ StartsExchange /\ mechanism # 0 => responses = 0
      /\ Judges /\ mechanism # 0 =>
            responses # 0 /\ (server.auth = "second" => responses = 2)
  BY <1>3 DEF ExchangeHeld, Standing
<1>9. ~Awaited("credentials")' /\ ~Awaited("response")'
  BY <1>1, <1>4 DEF Awaited
<1> QED BY <1>1, <1>3, <1>4, <1>5, <1>6, <1>7, <1>8, <1>9

\* One challenge, and what may be said after it.
LEMMA OneChallenge ==
    ASSUME Inv, Lacks(toClient, Challenges), NEW cmd \in Challenges,
           toClient' = toClient \o <<Line(cmd)>> \/ toClient' = toClient \o <<Line(cmd), Line("OUTCOME")>>
    PROVE  Once(toClient', Challenges)
<1>1. /\ Line(cmd) \in Lines /\ Line(cmd).cmd = cmd
      /\ Line("OUTCOME") \in Lines /\ Line("OUTCOME").cmd = "OUTCOME"
  BY LineType DEF Commands, Challenges
<1> DEFINE a == Line(cmd)
           b == Line("OUTCOME")
<1>2. /\ <<a>> \in Seq(Lines) /\ <<a, b>> \in Seq(Lines)
      /\ Once(<<a>>, Challenges) /\ Once(<<a, b>>, Challenges)
  <2>1. a \in Lines /\ b \in Lines /\ b.cmd = "OUTCOME"
    BY <1>1
  <2> HIDE DEF a, b
  <2> QED BY <2>1 DEF Once, Challenges
<1>3. toClient \in Seq(Lines)
  BY DEF Inv, TypeOK, WireOK
<1> HIDE DEF a, b
<1>4. toClient' = toClient \o <<a>> \/ toClient' = toClient \o <<a, b>>
  BY DEF a, b
<1> QED BY <1>2, <1>3, <1>4, LacksConcat

LEMMA StartsExchangeExchange ==
    ASSUME Inv, ExchangeHeld, StartsExchange
    PROVE  ExchangeHeld'
<1> USE ServerMoves
<1>1. Listing'
  BY DEF ExchangeHeld, Listing, Fewer
<1>2. CASE server'.auth = "first" /\ toClient' = toClient \o <<Line("CHALLENGE")>>
  <2>1. Once(toClient', Challenges)
    BY <1>2, OneChallenge DEF Challenges
  <2>2. OneTurn'
    BY <2>1, LacksOnce DEF OneTurn
  <2>3. Unstarted' /\ Standing'
    BY <1>2 DEF Unstarted, Standing
  <2> QED BY <1>1, <2>2, <2>3 DEF ExchangeHeld
<1>3. CASE server'.auth = "idle" /\ toClient' = toClient \o <<Line("OUTCOME")>>
  <2>1. Lacks(toClient', Challenges)
    <3>1. Line("OUTCOME") \in Lines /\ Line("OUTCOME").cmd = "OUTCOME"
      BY LineType DEF Commands
    <3>2. <<Line("OUTCOME")>> \in Seq(Lines) /\ Lacks(<<Line("OUTCOME")>>, Challenges)
      BY <3>1, LacksLine DEF Challenges
    <3> QED BY <1>3, <3>2, LacksConcat DEF Inv, TypeOK, WireOK
  <2>2. NoTurn'
    BY <2>1 DEF NoTurn
  <2> QED BY <1>1, <2>2, RestKept DEF ExchangeHeld
<1> QED
  BY <1>2, <1>3 DEF StartsExchange, Serves, Inv, TypeOK, Servers

LEMMA JudgesExchange ==
    ASSUME Inv, ExchangeHeld, Judges
    PROVE  ExchangeHeld'
<1> USE ServerMoves
<1>1. Listing'
  BY DEF ExchangeHeld, Listing, Fewer
<1>2. CASE server'.auth = "idle" /\ toClient' = toClient \o <<Line("OUTCOME")>>
  <2>1. Lacks(toClient', Challenges)
    <3>1. Line("OUTCOME") \in Lines /\ Line("OUTCOME").cmd = "OUTCOME"
      BY LineType DEF Commands
    <3>2. <<Line("OUTCOME")>> \in Seq(Lines) /\ Lacks(<<Line("OUTCOME")>>, Challenges)
      BY <3>1, LacksLine DEF Challenges
    <3> QED BY <1>2, <3>2, LacksConcat DEF Inv, TypeOK, WireOK
  <2>2. NoTurn'
    BY <2>1 DEF NoTurn
  <2> QED BY <1>1, <2>2, RestKept DEF ExchangeHeld
<1>3. ASSUME NEW cmd \in Challenges,
             \/ server'.auth = "second" /\ toClient' = toClient \o <<Line(cmd)>>
             \/ /\ server.auth = "second" /\ server'.auth = "idle"
                /\ toClient' = toClient \o <<Line(cmd), Line("OUTCOME")>>
      PROVE  ExchangeHeld'
  <2>1. Once(toClient', Challenges)
    BY <1>3, OneChallenge
  <2>2. OneTurn'
    BY <2>1, LacksOnce DEF OneTurn
  <2>3. Unstarted' /\ Standing'
    BY <1>3 DEF Unstarted, Standing
  <2> QED BY <1>1, <2>2, <2>3 DEF ExchangeHeld
<1>4. \/ server'.auth = "idle" /\ toClient' = toClient \o <<Line("OUTCOME")>>
      \/ \E cmd \in Challenges :
            \/ server'.auth = "second" /\ toClient' = toClient \o <<Line(cmd)>>
            \/ /\ server.auth = "second" /\ server'.auth = "idle"
               /\ toClient' = toClient \o <<Line(cmd), Line("OUTCOME")>>
  BY DEF Judges, Serves, Inv, TypeOK, Servers, Challenges
<1> QED BY <1>2, <1>3, <1>4

LEMMA SaysExchange ==
    ASSUME Inv, ExchangeHeld, Welcomes \/ Notifies \/ Dismisses
    PROVE  ExchangeHeld'
<1>1. UNCHANGED <<connection, capPhase, mechanism, responses, awaits, toServer>>
  BY SayStep
<1>2. server'.auth = server.auth
  BY DEF Welcomes, Notifies, Dismisses, Says, Inv, TypeOK, Servers
<1>3. FewerToClient
  <2>1. /\ {"001", "376"} \cap (Challenges \cup {"LS"}) = {}
        /\ {"NEW", "DEL"} \cap (Challenges \cup {"LS"}) = {}
        /\ {"ERROR"} \cap (Challenges \cup {"LS"}) = {}
    BY DEF Challenges
  <2> QED BY <2>1, ServerSends, FewerSent
<1>4. FewerToServer /\ EndIdle'
  BY <1>1, <1>2, FewerRead DEF ExchangeHeld, EndIdle
<1> QED BY <1>1, <1>2, <1>3, <1>4, TurnKept DEF ExchangeHeld

LEMMA ExchangeNext ==
    ASSUME Inv, AwaitsOurs, Opened, Exchange, [Next]_vars
    PROVE  Exchange'
<1>h. ASSUME kind = "connected" PROVE ExchangeHeld
  BY <1>h DEF Exchange, ExchangeHeld
<1>i. ASSUME ExchangeHeld' PROVE Exchange'
  BY <1>i DEF Exchange, ExchangeHeld
<1>1. CASE Dials \/ Loses \/ Stops
  BY <1>1 DEF Dials, Loses, Stops, Link!Dial, Link!Lose, Link!Stop, Exchange
<1>2. CASE Opens
  BY <1>2, <1>i, OpensExchange
<1>3. CASE Continues
  <2>1. PICK c \in 1..Connections : PasswordRead(c) \/ CredentialsRead(c) \/ Responded(c)
    BY <1>3 DEF Continues
  <2>2. CASE kind = "connected"
    BY <2>1, <2>2, <1>h, <1>i, PasswordExchange, CredentialsExchange, RespondedExchange
  <2>3. CASE kind # "connected"
    BY <2>1, <2>3, ContinueStep DEF Exchange
  <2> QED BY <2>2, <2>3
<1>4. CASE ClientReads
  <2>1. ExchangeHeld
    BY <1>4, <1>h, ReadStep
  <2> QED BY <1>4, <1>i, <2>1, QuietReadsExchange, ListEndsExchange, AcknowledgedExchange,
     RefusedExchange, ChallengedExchange DEF ClientReads
<1>5. CASE ChangesNick
  <2>1. /\ kind = "connected" /\ UNCHANGED <<connection, capPhase, server, toClient, awaits>>
        /\ mechanism' = mechanism /\ responses' = responses
    BY <1>5 DEF ChangesNick, link, caps, sasl
  <2>2. Writes({"NICK"}) /\ {"NICK"} \cap (Turns \cup Closings) = {}
    BY <1>5, ChangeWrites DEF Turns, Closings
  <2> QED BY <1>h, <1>i, <2>1, <2>2, ExchangeKeptBy
<1>6. CASE ServerReads
  <2>1. ExchangeHeld
    BY <1>6, <1>h, ServerStep
  <2> QED BY <1>6, <1>i, <2>1, QuietServesExchange, EndsExchange, StartsExchangeExchange,
     JudgesExchange DEF ServerReads
<1>7. CASE Welcomes \/ Notifies \/ Dismisses
  BY <1>7, <1>h, <1>i, SayStep, SaysExchange
<1>8. CASE UNCHANGED vars
  BY <1>8 DEF vars, link, caps, naming, sasl, wire, Exchange, OneTurn, NoTurn, Unstarted,
     EndIdle, Standing, Listing, Awaited
<1> QED BY <1>1, <1>2, <1>3, <1>4, <1>5, <1>6, <1>7, <1>8 DEF Next

----------------------------------------------------------------------------
(* An exchange goes through whole.                                         *)

\* Nothing is under way to the server without a connection.
Apart == (kind # "connected" => toServer = <<>>) /\ server.openings <= 1

LEMMA ApartNext ==
    ASSUME Inv, Apart, Opened', [Next]_vars
    PROVE  Apart'
<1>1. CASE kind' = "connected"
  BY <1>1 DEF Opened, Apart
<1>2. CASE kind' # "connected"
  <2>1. CASE Dials \/ Loses \/ Stops
    BY <2>1 DEF Apart, Dials, Loses, Stops, Link!Dial, Link!Lose, Link!Stop, wire
  <2>2. CASE Opens
    BY <1>2, <2>2 DEF Opens, Link!Open
  <2>3. CASE Continues
    <3>1. PICK c \in 1..Connections : PasswordRead(c) \/ CredentialsRead(c) \/ Responded(c)
      BY <2>3 DEF Continues
    <3>2. kind # "connected" /\ server' = server
      BY <1>2, <3>1, ContinueStep
    <3>3. \A lines : Write(lines) => toServer' = toServer
      BY <3>2 DEF Write
    <3>4. toServer' = toServer
      BY <3>1, <3>3 DEF PasswordRead, CredentialsRead, Responded, FailAuth
    <3> QED BY <1>2, <3>2, <3>4 DEF Apart
  <2>4. CASE UNCHANGED vars
    BY <2>4 DEF Apart, vars, link, wire
  <2>5. CASE ChangesNick
    BY <1>2, <2>5 DEF ChangesNick, link
  <2> QED BY <1>2, <2>1, <2>2, <2>3, <2>4, <2>5, ReadStep, ServerStep, SayStep DEF Next
<1> QED BY <1>1, <1>2

Signing == Inv /\ AwaitsOurs /\ Opened /\ Exchange /\ Apart

LEMMA SigningHolds == ASSUME OneAtATime PROVE Spec => []Signing
<1>1. Init => Signing
  BY InvInit, ProfileAssumption
     DEF Init, Link!Init, Signing, AwaitsOurs, Opened, Exchange, Apart
<1>2. Signing /\ [Next]_vars => Signing'
  BY InvNext, AwaitsOursNext, OpenedNext, ExchangeNext, ApartNext DEF Signing
<1> QED BY <1>1, <1>2, PTL DEF Spec

\* A connection is opened with once, and an exchange goes through whole: a
\* response meets the challenge it answers, and the end of the negotiation
\* does not overtake an exchange. So it is when an await answers before its
\* connection is lost.
THEOREM ExchangeIsKept == ASSUME OneAtATime PROVE Spec => []ExchangeKept
<1>1. ASSUME Signing PROVE ExchangeKept
  <2>1. TypeOK /\ OpenedOnce
    BY <1>1 DEF Signing, Inv, Apart, OpenedOnce
  <2> SUFFICES ASSUME toServer # <<>>
               PROVE  /\ Asked.cmd = "PAYLOAD" => server.auth # "idle"
                      /\ Asked.cmd = "END" => server.auth = "idle"
    BY <2>1 DEF ExchangeKept, ResponsesAnswer, EndHeldBack
  <2>2. OneTurn /\ EndIdle /\ Standing
    BY <1>1 DEF Signing, Apart, Exchange
  <2>3. toServer \in Seq(Lines) /\ 1 \in 1..Len(toServer) /\ Asked = toServer[1]
    BY <2>1 DEF TypeOK, WireOK, Asked
  <2>4. Asked.cmd = "PAYLOAD" => server.auth # "idle"
    BY <2>2, <2>3 DEF Standing, Lacks
  <2>5. Asked.cmd = "END" => server.auth = "idle"
    BY <2>2, <2>3 DEF EndIdle
  <2> QED BY <2>4, <2>5
<1>2. Signing => ExchangeKept
  BY <1>1
<1>3. Spec => []Signing
  BY SigningHolds
<1> QED BY <1>2, <1>3, PTL

----------------------------------------------------------------------------
(* Nicks: the invariant, and what leaves it as it is.                      *)

Us == {"001", "NICK"}

\* Lines that, if they ask for a nick, ask for this one.
Asking(n) == {l \in Lines : l.cmd = "NICK" => l.nick = n}

\* Lines that, if they say what our nick is, say that `n` is now `m`.
Telling(n, m) ==
    {l \in Lines : (l.cmd \in Us => l.nick = m) /\ (l.cmd = "NICK" => l.from = n)}

\* Until the welcome there is one nick to be answered at most, and the server
\* speaks of none.
Choosing ==
    /\ Lacks(toClient, Us) /\ Lacks(toClient, WelcomeCmds)
    /\ Once(toClient, {"433"})
    /\ ~Lacks(toServer, {"NICK"}) => Lacks(toClient, {"433"})
    /\ server.named => Lacks(toServer, {"NICK"}) /\ Lacks(toClient, {"433"})
    /\ phase = "registering" => toServer \in Seq(Asking(nick))

\* From then on our nick is the server's, or a line under way will make it so.
Settled ==
    /\ Once(toClient, Us)
    /\ ~Lacks(toClient, Us) => Lacks(toServer, {"NICK"}) /\ toClient \in Seq(Telling(nick, server.nick))
    /\ Lacks(toClient, Us) => nick = server.nick
    /\ phase = "registering" => ~Lacks(toClient, {"001"}) /\ Lacks(toClient, {"433"})

Naming ==
    /\ phase = "registering" => kind = "connected"
    /\ kind = "connected" =>
          /\ Once(toServer, {"NICK"})
          /\ ~server.welcomed => Choosing
          /\ server.welcomed => Settled

LEMMA SeqAdds ==
    ASSUME NEW S \in SUBSET Lines, NEW q \in Seq(S), NEW r, NEW cmds, Adds(q, r, cmds),
           \A l \in Lines : l.cmd \in cmds => l \in S
    PROVE  r \in Seq(S)
<1>1. PICK lines \in Seq(Lines) : r = q \o lines /\ Lacks(lines, Commands \ cmds)
  BY DEF Adds
<1>2. ASSUME NEW i \in 1..Len(lines) PROVE lines[i] \in Lines /\ lines[i].cmd \in cmds
  <2>1. lines[i] \in Lines
    BY <1>1
  <2>2. lines[i].cmd \in Commands
    BY <2>1 DEF Lines
  <2> QED BY <1>1, <2>1, <2>2 DEF Lacks
<1>3. \A i \in 1..Len(lines) : lines[i] \in S
  BY <1>2
<1>4. lines \in Seq(S)
  <2>1. lines = [i \in 1..Len(lines) |-> lines[i]] /\ Len(lines) \in Nat
    BY <1>1
  <2> QED BY <1>3, <2>1, IsASeq
<1> QED BY <1>1, <1>4, ConcatProperties

LEMMA SeqTail ==
    ASSUME NEW S, NEW q \in Seq(S), q # <<>>
    PROVE  Tail(q) \in Seq(S) /\ Head(q) \in S
BY HeadTailProperties

LEMMA LacksSeq ==
    ASSUME NEW q \in Seq(Lines), NEW S, NEW cmds, Lacks(q, cmds),
           \A l \in Lines : l.cmd \notin cmds => l \in S
    PROVE  q \in Seq(S)
<1>1. \A i \in 1..Len(q) : q[i] \in S
  BY DEF Lacks
<1>2. q = [i \in 1..Len(q) |-> q[i]] /\ Len(q) \in Nat
  OBVIOUS
<1> QED BY <1>1, <1>2, IsASeq

\* The queues have no more of naming in them than they had.
FewerNaming ==
    /\ Fewer(toServer, toServer', {"NICK"})
    /\ Fewer(toClient, toClient', {"433"})
    /\ Fewer(toClient, toClient', Us) /\ Fewer(toClient, toClient', WelcomeCmds)

NamingHeld ==
    /\ Once(toServer, {"NICK"})
    /\ ~server.welcomed => Choosing
    /\ server.welcomed => Settled

\* What has nothing to do with nicks leaves them as they are.
LEMMA NamingKept ==
    ASSUME Inv, NamingHeld, FewerNaming,
           nick' = nick, phase' = phase \/ phase' # "registering",
           server'.named = server.named, server'.nick = server.nick,
           server'.welcomed = server.welcomed,
           \A n : toServer \in Seq(Asking(n)) => toServer' \in Seq(Asking(n)),
           \A n, m : toClient \in Seq(Telling(n, m)) => toClient' \in Seq(Telling(n, m)),
           ~Lacks(toClient, Us) => ~Lacks(toClient', Us),
           ~Lacks(toClient, {"001"}) => ~Lacks(toClient', {"001"})
    PROVE  NamingHeld'
<1> USE DEF FewerNaming, Fewer
<1>1. Once(toServer, {"NICK"})'
  BY DEF NamingHeld
<1>2. ASSUME ~server'.welcomed PROVE Choosing'
  BY <1>2 DEF NamingHeld, Choosing
<1>3. ASSUME server'.welcomed PROVE Settled'
  BY <1>3 DEF NamingHeld, Settled
<1> QED BY <1>1, <1>2, <1>3 DEF NamingHeld

LEMMA QueueServerNaming ==
    ASSUME Inv,
           \/ toServer' = toServer
           \/ toServer # <<>> /\ toServer' = Tail(toServer)
           \/ \E cmds \in SUBSET (Commands \ {"NICK"}) : Writes(cmds)
    PROVE  /\ Fewer(toServer, toServer', {"NICK"})
           /\ \A n : toServer \in Seq(Asking(n)) => toServer' \in Seq(Asking(n))
<1>0. toServer \in Seq(Lines)
  BY DEF Inv, TypeOK, WireOK
<1>1. CASE toServer' = toServer
  BY <1>1 DEF Fewer
<1>2. CASE toServer # <<>> /\ toServer' = Tail(toServer)
  <2>1. \A n : toServer \in Seq(Asking(n)) => toServer' \in Seq(Asking(n))
    BY <1>2, SeqTail
  <2> QED BY <1>0, <1>2, <2>1, FewerTail
<1>3. ASSUME NEW cmds \in SUBSET (Commands \ {"NICK"}), Writes(cmds)
      PROVE  /\ Fewer(toServer, toServer', {"NICK"})
             /\ \A n : toServer \in Seq(Asking(n)) => toServer' \in Seq(Asking(n))
  <2>1. {"NICK"} \subseteq Commands \ cmds
    BY DEF Commands
  <2>2. Fewer(toServer, toServer', {"NICK"})
    BY <1>0, <1>3, <2>1, FewerAdds DEF Writes
  <2>3. ASSUME NEW n, toServer \in Seq(Asking(n)) PROVE toServer' \in Seq(Asking(n))
    <3>1. Asking(n) \in SUBSET Lines /\ \A l \in Lines : l.cmd \in cmds => l \in Asking(n)
      BY <1>3 DEF Asking
    <3> QED BY <1>3, <2>3, <3>1, SeqAdds DEF Writes
  <2> QED BY <2>2, <2>3
<1> QED BY <1>1, <1>2, <1>3

LEMMA QueueClientNaming ==
    ASSUME Inv,
           \/ toClient' = toClient
           \/ /\ toClient # <<>> /\ toClient' = Tail(toClient)
              /\ Head(toClient).cmd \notin Us
           \/ \E cmds \in SUBSET (Commands \ (Us \cup WelcomeCmds \cup {"433"})) : Sends(cmds)
    PROVE  /\ Fewer(toClient, toClient', {"433"})
           /\ Fewer(toClient, toClient', Us) /\ Fewer(toClient, toClient', WelcomeCmds)
           /\ \A n, m : toClient \in Seq(Telling(n, m)) => toClient' \in Seq(Telling(n, m))
           /\ ~Lacks(toClient, Us) => ~Lacks(toClient', Us)
           /\ ~Lacks(toClient, {"001"}) => ~Lacks(toClient', {"001"})
<1>0. toClient \in Seq(Lines)
  BY DEF Inv, TypeOK, WireOK
<1>1. CASE toClient' = toClient
  BY <1>1 DEF Fewer
<1>2. CASE toClient # <<>> /\ toClient' = Tail(toClient) /\ Head(toClient).cmd \notin Us
  <2>1. \A n, m : toClient \in Seq(Telling(n, m)) => toClient' \in Seq(Telling(n, m))
    BY <1>2, SeqTail
  <2>2. Head(toClient).cmd \notin {"001"}
    BY <1>2 DEF Us
  <2>3. /\ ~Lacks(toClient, Us) => ~Lacks(toClient', Us)
        /\ ~Lacks(toClient, {"001"}) => ~Lacks(toClient', {"001"})
    BY <1>0, <1>2, <2>2, LacksTail
  <2> QED BY <1>0, <1>2, <2>1, <2>3, FewerTail
<1>3. ASSUME NEW cmds \in SUBSET (Commands \ (Us \cup WelcomeCmds \cup {"433"})), Sends(cmds)
      PROVE  /\ Fewer(toClient, toClient', {"433"})
             /\ Fewer(toClient, toClient', Us) /\ Fewer(toClient, toClient', WelcomeCmds)
             /\ \A n, m : toClient \in Seq(Telling(n, m)) => toClient' \in Seq(Telling(n, m))
             /\ ~Lacks(toClient, Us) => ~Lacks(toClient', Us)
             /\ ~Lacks(toClient, {"001"}) => ~Lacks(toClient', {"001"})
  <2>1. /\ {"433"} \subseteq Commands \ cmds /\ Us \subseteq Commands \ cmds
        /\ WelcomeCmds \subseteq Commands \ cmds /\ {"001"} \subseteq Commands \ cmds
    BY <1>3 DEF Commands, Us, WelcomeCmds
  <2>2. /\ Fewer(toClient, toClient', {"433"})
        /\ Fewer(toClient, toClient', Us) /\ Fewer(toClient, toClient', WelcomeCmds)
    BY <1>0, <1>3, <2>1, FewerAdds DEF Sends
  <2>3. ASSUME NEW n, NEW m, toClient \in Seq(Telling(n, m)) PROVE toClient' \in Seq(Telling(n, m))
    <3>1. Telling(n, m) \in SUBSET Lines /\ \A l \in Lines : l.cmd \in cmds => l \in Telling(n, m)
      BY <1>3 DEF Telling, Us
    <3> QED BY <1>3, <2>3, <3>1, SeqAdds DEF Sends
  <2>4. /\ ~Lacks(toClient, Us) => ~Lacks(toClient', Us)
        /\ ~Lacks(toClient, {"001"}) => ~Lacks(toClient', {"001"})
    BY <1>0, <1>3, <2>1, AddsKeeps DEF Sends
  <2> QED BY <2>2, <2>3, <2>4
<1> QED BY <1>1, <1>2, <1>3

----------------------------------------------------------------------------
(* Nicks: the steps that ask, refuse and settle.                           *)

\* A step that has nothing to do with nicks.
LEMMA NamingFrame ==
    ASSUME Inv, NamingHeld,
           nick' = nick, phase' = phase \/ phase' # "registering",
           server'.named = server.named, server'.nick = server.nick,
           server'.welcomed = server.welcomed,
           \/ toServer' = toServer
           \/ toServer # <<>> /\ toServer' = Tail(toServer)
           \/ \E cmds \in SUBSET (Commands \ {"NICK"}) : Writes(cmds),
           \/ toClient' = toClient
           \/ /\ toClient # <<>> /\ toClient' = Tail(toClient)
              /\ Head(toClient).cmd \notin Us
           \/ \E cmds \in SUBSET (Commands \ (Us \cup WelcomeCmds \cup {"433"})) : Sends(cmds)
    PROVE  NamingHeld'
<1>1. /\ Fewer(toServer, toServer', {"NICK"})
      /\ \A n : toServer \in Seq(Asking(n)) => toServer' \in Seq(Asking(n))
  BY QueueServerNaming
<1>2. /\ Fewer(toClient, toClient', {"433"})
      /\ Fewer(toClient, toClient', Us) /\ Fewer(toClient, toClient', WelcomeCmds)
      /\ \A n, m : toClient \in Seq(Telling(n, m)) => toClient' \in Seq(Telling(n, m))
      /\ ~Lacks(toClient, Us) => ~Lacks(toClient', Us)
      /\ ~Lacks(toClient, {"001"}) => ~Lacks(toClient', {"001"})
  BY QueueClientNaming
<1> QED BY <1>1, <1>2, NamingKept DEF FewerNaming

LEMMA NickLineIs ==
    ASSUME NEW n \in Nicks
    PROVE  LET l == NickLine("NICK", n) IN l \in Lines /\ l.cmd = "NICK" /\ l.nick = n
<1>1. NickLine("NICK", n) \in Lines /\ NickLine("NICK", n).cmd = "NICK"
  BY LineType DEF Commands
<1>2. NickLine("NICK", n).nick = n
  BY DEF NickLine, Line
<1> QED BY <1>1, <1>2

\* A connection that has asked for nothing asks for the first nick.
LEMMA BeforeNaming ==
    ASSUME Inv', Before'
    PROVE  NamingHeld'
<1>1. toClient' \in Seq(Lines) /\ Lacks(toClient', Commands \ {"ERROR"})
  BY DEF Before, Inv, TypeOK, WireOK
<1>2. /\ Us \subseteq Commands \ {"ERROR"} /\ WelcomeCmds \subseteq Commands \ {"ERROR"}
      /\ {"433"} \subseteq Commands \ {"ERROR"}
  BY DEF Us, WelcomeCmds, Commands
<1>3. Lacks(toClient', Us) /\ Lacks(toClient', WelcomeCmds) /\ Lacks(toClient', {"433"})
      /\ Once(toClient', {"433"})
  BY <1>1, <1>2, LacksOnce
<1>4. toServer' \in Seq(Asking(0)) /\ Once(toServer', {"NICK"})
  <2>1. 0 \in Nicks
    BY ProfileAssumption DEF Nicks, Shortened, Longest
  <2> DEFINE a == Line("LS")
             b == NickLine("NICK", 0)
             c == Line("USER")
             p == Line("PASS")
  <2>2. /\ a \in Lines /\ a.cmd = "LS" /\ b \in Lines /\ b.cmd = "NICK" /\ b.nick = 0
        /\ c \in Lines /\ c.cmd = "USER" /\ p \in Lines /\ p.cmd = "PASS"
    BY <2>1, NickLineIs, LineType DEF Commands
  <2>3. a \in Asking(0) /\ b \in Asking(0) /\ c \in Asking(0) /\ p \in Asking(0)
    BY <2>2 DEF Asking
  <2>4. Opening = <<a, b, c>>
    BY DEF Opening
  <2>5. toServer' \in {<<>>, <<a, b, c>>, <<p>> \o <<a, b, c>>}
    BY <2>4 DEF Before
  <2> HIDE DEF a, b, c, p
  <2>6. <<a, b, c>> \in Seq(Asking(0)) /\ <<p>> \in Seq(Asking(0))
    BY <2>3
  <2>7. Once(<<a, b, c>>, {"NICK"})
    BY <2>2 DEF Once
  <2>8. Lacks(<<p>>, {"NICK"})
    BY <2>2, LacksLine
  <2>9. <<a, b, c>> \in Seq(Lines) /\ <<p>> \in Seq(Lines)
    BY <2>2
  <2>10. <<p>> \o <<a, b, c>> \in Seq(Asking(0)) /\ Once(<<p>> \o <<a, b, c>>, {"NICK"})
    BY <2>6, <2>7, <2>8, <2>9, LacksConcat, ConcatProperties
  <2>11. <<>> \in Seq(Asking(0)) /\ Once(<<>>, {"NICK"})
    BY LacksEmpty
  <2> QED BY <2>5, <2>6, <2>7, <2>10, <2>11
<1> QED BY <1>3, <1>4 DEF NamingHeld, Choosing, Before

LEMMA NamingContinues ==
    ASSUME Inv, Inv', AwaitsOurs, Opened, Opened', NamingHeld, Continues, kind = "connected"
    PROVE  NamingHeld'
<1>1. PICK c \in 1..Connections : PasswordRead(c) \/ CredentialsRead(c) \/ Responded(c)
  BY DEF Continues
<1>2. UNCHANGED <<kind, connection, phase, nick, toClient, server>>
  BY <1>1, ContinueStep
<1>3. CASE PasswordRead(c)
  <2>1. c = connection /\ Awaited("password")
    BY <1>3 DEF PasswordRead, Resumes, AwaitsOurs, Awaited
  <2>2. server.openings = 0
    BY <2>1 DEF Opened, After
  <2>3. Before'
    BY <1>2, <2>2 DEF Opened
  <2> QED BY <2>3, BeforeNaming
<1>4. CASE CredentialsRead(c) \/ Responded(c)
  <2>1. \E cmds \in SUBSET (Commands \ {"NICK"}) : Writes(cmds)
    <3>1. /\ {"AUTHENTICATE", "ABORT", "END"} \in SUBSET (Commands \ {"NICK"})
          /\ {"PAYLOAD"} \in SUBSET (Commands \ {"NICK"})
      BY DEF Commands
    <3> QED BY <1>4, <3>1, ContinueWrites
  <2> QED BY <1>2, <2>1, NamingFrame
<1> QED BY <1>1, <1>3, <1>4

\* What is read that says nothing of nicks.
LEMMA QuietReadsNaming ==
    ASSUME Inv, NamingHeld, ClientReads,
           Head(toClient).cmd \notin Us, Collides => phase # "registering"
    PROVE  NamingHeld'
<1>1. /\ toClient # <<>> /\ toClient' = Tail(toClient) /\ server' = server
  BY ReadStep
<1>2. nick' = nick /\ (phase' = phase \/ phase' # "registering")
  BY DEF ClientReads, ListContinues, ListEnds, Acknowledged, Refused, Gained, Lost, Challenged,
         Outcome, Collides, Welcomed, MotdEnds, Renamed, Dismissed, Reads, naming, Us
<1>3. \/ toServer' = toServer
      \/ \E cmds \in SUBSET (Commands \ {"NICK"}) : Writes(cmds)
  <2>1. /\ {"END", "REQ"} \in SUBSET (Commands \ {"NICK"})
        /\ {"END", "ABORT"} \in SUBSET (Commands \ {"NICK"})
        /\ {"END"} \in SUBSET (Commands \ {"NICK"}) /\ {"REQ"} \in SUBSET (Commands \ {"NICK"})
        /\ {"PAYLOAD", "ABORT", "END"} \in SUBSET (Commands \ {"NICK"})
    BY DEF Commands
  <2>2. Collides => toServer' = toServer
    BY DEF Collides
  <2> QED BY <2>1, <2>2, ReadWrites DEF ClientReads
<1> QED BY <1>1, <1>2, <1>3, NamingFrame

\* A nick is refused: the next is asked for.
LEMMA CollidesNaming ==
    ASSUME Inv, NamingHeld, Collides, phase = "registering"
    PROVE  NamingHeld'
<1>1. /\ toClient # <<>> /\ toClient' = Tail(toClient) /\ server' = server
      /\ Head(toClient).cmd = "433" /\ kind = "connected"
      /\ nick' = NextNick /\ Write(<<NickLine("NICK", NextNick)>>)
  BY DEF Collides, Reads
<1>2. toServer \in Seq(Lines) /\ toClient \in Seq(Lines) /\ toClient' \in Seq(Lines)
  BY <1>1 DEF Inv, TypeOK, WireOK
<1>3. ~Lacks(toClient, {"433"})
  BY <1>1, <1>2, LacksTail
<1>4. ~server.welcomed /\ Choosing
  BY <1>3 DEF NamingHeld, Settled
<1>5. ~server.named /\ Lacks(toServer, {"NICK"})
  BY <1>3, <1>4 DEF Choosing
<1>6. Lacks(toClient', Us) /\ Lacks(toClient', WelcomeCmds) /\ Lacks(toClient', {"433"})
  BY <1>1, <1>2, <1>4, LacksTail DEF Choosing
<1>7. toServer' \in Seq(Asking(nick')) /\ Once(toServer', {"NICK"})
  <2>1. NextNick \in Nicks
    BY NextNickType, ProfileAssumption DEF Inv, Nicks, Shortened, Longest
  <2> DEFINE l == NickLine("NICK", NextNick)
  <2>2. l \in Lines /\ l.cmd = "NICK" /\ l.nick = NextNick
    BY <2>1, NickLineIs
  <2>3. toServer' = toServer \o <<l>>
    BY <1>1 DEF Write
  <2> HIDE DEF l
  <2>4. Once(toServer', {"NICK"})
    <3>1. <<l>> \in Seq(Lines) /\ Once(<<l>>, {"NICK"})
      BY <2>2, LacksLine
    <3> QED BY <1>2, <1>5, <2>3, <3>1, LacksConcat
  <2>5. toServer' \in Seq(Asking(nick'))
    <3>1. toServer \in Seq(Asking(nick'))
      BY <1>2, <1>5, LacksSeq DEF Asking
    <3>2. <<l>> \in Seq(Asking(nick'))
      BY <1>1, <2>2 DEF Asking
    <3> QED BY <2>3, <3>1, <3>2, ConcatProperties
  <2> QED BY <2>4, <2>5
<1>8. Once(toClient', {"433"})
  BY <1>6, LacksOnce
<1> QED BY <1>1, <1>4, <1>5, <1>6, <1>7, <1>8 DEF NamingHeld, Choosing

\* What settles our nick: the welcome, or the server's answer to a NICK.
LEMMA SettlesNaming ==
    ASSUME Inv, NamingHeld, Welcomed \/ Renamed
    PROVE  NamingHeld'
<1>1. /\ toClient # <<>> /\ toClient' = Tail(toClient) /\ UNCHANGED <<toServer, server>>
      /\ Head(toClient).cmd \in Us
  BY DEF Welcomed, Renamed, Reads, Us
<1>2. toClient \in Seq(Lines)
  BY DEF Inv, TypeOK, WireOK
<1>3. ~Lacks(toClient, Us)
  BY <1>1, <1>2, LacksTail
<1>4. server.welcomed /\ Settled
  BY <1>3 DEF NamingHeld, Choosing
<1>5. toClient \in Seq(Telling(nick, server.nick))
  BY <1>3, <1>4 DEF Settled
<1>6. Lacks(toClient', Us) /\ Once(toClient', Us)
  BY <1>1, <1>2, <1>4, LacksTail, LacksOnce DEF Settled
<1>7. /\ Head(toClient).nick = server.nick
      /\ Head(toClient).cmd = "NICK" => Head(toClient).from = nick
  <2>1. Head(toClient) \in Telling(nick, server.nick)
    BY <1>1, <1>5, SeqTail
  <2> QED BY <1>1, <2>1 DEF Telling
<1>8. nick' = server.nick
  BY <1>7 DEF Welcomed, Renamed, Heard, Reads
<1>9. phase' # "registering"
  <2>1. CASE Welcomed
    BY <2>1 DEF Welcomed
  <2>2. CASE Renamed
    <3>1. Head(toClient).cmd \notin {"001"} /\ phase' = phase
      BY <2>2 DEF Renamed, Reads
    <3>2. Lacks(toClient', {"001"})
      BY <1>6, LacksOnce DEF Us
    <3>3. Lacks(toClient, {"001"})
      BY <1>1, <1>2, <3>1, <3>2, LacksTail
    <3> QED BY <1>4, <3>1, <3>3 DEF Settled
  <2> QED BY <2>1, <2>2
<1> QED BY <1>1, <1>4, <1>6, <1>8, <1>9 DEF NamingHeld, Settled

LEMMA ReadsNaming ==
    ASSUME Inv, NamingHeld, ClientReads
    PROVE  NamingHeld'
<1>1. CASE Head(toClient).cmd \in Us
  <2>1. Welcomed \/ Renamed
    BY <1>1 DEF ClientReads, ListContinues, ListEnds, Acknowledged, Refused, Gained, Lost,
       Challenged, Outcome, Collides, MotdEnds, Dismissed, Reads, Us
  <2> QED BY <2>1, SettlesNaming
<1>2. CASE Head(toClient).cmd \notin Us
  BY <1>2, QuietReadsNaming, CollidesNaming
<1> QED BY <1>1, <1>2

LEMMA ChangesNaming ==
    ASSUME Inv, NamingHeld, ChangesNick
    PROVE  NamingHeld'
<1>1. /\ phase = "registered" /\ toServer = <<>> /\ toClient = <<>> /\ kind = "connected"
      /\ UNCHANGED <<phase, nick, toClient, server>>
  BY DEF ChangesNick, link, naming
<1>2. server.welcomed /\ Settled
  BY <1>1 DEF Inv, RegisteredIsWelcomed, NamingHeld
<1>3. Once(toServer', {"NICK"})
  <2>1. PICK n \in 0..Longest : Write(<<NickLine("NICK", n)>>)
    BY DEF ChangesNick
  <2>2. n \in Nicks
    BY ProfileAssumption DEF Nicks, Shortened, Longest
  <2> DEFINE l == NickLine("NICK", n)
  <2>3. l \in Lines /\ toServer' = <<>> \o <<l>>
    BY <1>1, <2>1, <2>2, NickLineIs DEF Write
  <2> HIDE DEF l
  <2>4. toServer' = <<l>>
    BY <2>3
  <2> QED BY <2>4, LacksLine
<1>4. Lacks(toClient', Us) /\ Once(toClient', Us)
  BY <1>1, LacksEmpty
<1>5. nick = server.nick
  BY <1>1, <1>2, LacksEmpty DEF Settled
<1> QED BY <1>1, <1>2, <1>3, <1>4, <1>5 DEF NamingHeld, Settled

\* A nick is asked for: the server has it in hand, and no other is under way.
LEMMA NamesReads ==
    ASSUME Inv, NamingHeld, Names
    PROVE  /\ kind = "connected" /\ toServer # <<>> /\ toServer' = Tail(toServer)
           /\ toServer \in Seq(Lines) /\ toClient \in Seq(Lines)
           /\ UNCHANGED <<phase, nick>>
           /\ ~Lacks(toServer, {"NICK"}) /\ Lacks(toServer', {"NICK"}) /\ Once(toServer', {"NICK"})
           /\ Asked \in Lines /\ server \in Servers
<1>1. /\ kind = "connected" /\ toServer # <<>> /\ toServer' = Tail(toServer)
      /\ Head(toServer).cmd = "NICK" /\ UNCHANGED <<phase, nick>>
  BY DEF Names, Asks, Asked, Serves, naming
<1>2. toServer \in Seq(Lines) /\ toClient \in Seq(Lines) /\ server \in Servers
  BY DEF Inv, TypeOK, WireOK
<1> QED BY <1>1, <1>2, LacksTail, AskedType DEF NamingHeld

LEMMA NamesNaming ==
    ASSUME Inv, NamingHeld, Names
    PROVE  NamingHeld'
<1> USE NamesReads
<1>a. phase = "registering" =>
         toServer' \in Seq(Asking(nick)) \/ server.welcomed
  BY SeqTail DEF NamingHeld, Choosing
<1>1. CASE Serves([server EXCEPT !.refused = @ \cup {Asked.nick}], <<Line("433")>>)
  <2>1. /\ server'.named = server.named /\ server'.nick = server.nick
        /\ server'.welcomed = server.welcomed /\ toClient' = toClient \o <<Line("433")>>
    BY <1>1 DEF Serves, Servers
  <2>2. <<Line("433")>> \in Seq(Lines) /\ Line("433").cmd = "433"
    BY OneLine, LineType DEF Commands
  <2> DEFINE l == Line("433")
  <2> HIDE DEF l
  <2>3. /\ Once(<<l>>, {"433"}) /\ Lacks(<<l>>, Us) /\ Lacks(<<l>>, WelcomeCmds)
    BY <2>2, LacksLine DEF l, Us, WelcomeCmds
  <2>4. toClient' = toClient \o <<l>> /\ <<l>> \in Seq(Lines)
    BY <2>1, <2>2 DEF l
  <2>5. CASE server.welcomed
    <3>1. Settled /\ Lacks(toClient, Us) /\ nick = server.nick /\ phase # "registering"
      BY <2>5, LacksOnce DEF NamingHeld, Settled, Us
    <3>2. Lacks(toClient', Us)
      BY <2>3, <2>4, <3>1, LacksConcat
    <3> QED BY <2>1, <2>5, <3>1, <3>2, LacksOnce DEF NamingHeld, Settled
  <2>6. CASE ~server.welcomed
    <3>1. ~server.named /\ Lacks(toClient, {"433"}) /\ Lacks(toClient, Us)
          /\ Lacks(toClient, WelcomeCmds)
      BY <2>6 DEF NamingHeld, Choosing
    <3>2. Once(toClient', {"433"}) /\ Lacks(toClient', Us) /\ Lacks(toClient', WelcomeCmds)
      BY <2>3, <2>4, <3>1, LacksConcat
    <3> QED BY <1>a, <2>1, <2>6, <3>1, <3>2 DEF NamingHeld, Choosing
  <2> QED BY <2>5, <2>6
<1>2. ASSUME NEW given \in {Asked.nick, Shortened},
             Serves([server EXCEPT !.named = TRUE, !.nick = given],
                    IF server.welcomed /\ given # server.nick
                       THEN <<RenameLine(server.nick, given)>> ELSE <<>>)
      PROVE  NamingHeld'
  <2>1. /\ server'.named /\ server'.nick = given /\ server'.welcomed = server.welcomed
        /\ given \in Nicks /\ server.nick \in Nicks
    <3>1. Asked \in Lines /\ server \in Servers
      OBVIOUS
    <3>2. Asked.nick \in Nicks /\ Shortened \in Nicks
      BY <3>1, ProfileAssumption DEF Lines, Nicks, Shortened, Longest
    <3>3. server' = [server EXCEPT !.named = TRUE, !.nick = given]
      BY <1>2 DEF Serves
    <3> QED BY <3>1, <3>2, <3>3 DEF Servers
  <2>2. CASE server.welcomed /\ given # server.nick
    <3>1. Settled /\ Lacks(toClient, Us) /\ nick = server.nick /\ phase # "registering"
      BY <2>2, LacksOnce DEF NamingHeld, Settled, Us
    <3> DEFINE l == RenameLine(server.nick, given)
    <3>2. l \in Lines /\ l.cmd = "NICK" /\ l.nick = given /\ l.from = nick
      BY <2>1, <3>1, RenameLineType DEF RenameLine, Line
    <3>3. toClient' = toClient \o <<l>>
      BY <1>2, <2>2 DEF Serves
    <3> HIDE DEF l
    <3>4. <<l>> \in Seq(Lines) /\ Once(<<l>>, Us) /\ ~Lacks(<<l>>, Us)
      BY <3>2, LacksLine DEF Us
    <3>5. Once(toClient', Us) /\ ~Lacks(toClient', Us)
      BY <3>1, <3>3, <3>4, LacksConcat
    <3>6. toClient' \in Seq(Telling(nick, given))
      <4>1. toClient \in Seq(Telling(nick, given))
        BY <3>1, LacksSeq DEF Telling, Us
      <4>2. <<l>> \in Seq(Telling(nick, given))
        BY <3>2 DEF Telling
      <4> QED BY <3>3, <4>1, <4>2, ConcatProperties
    <3> QED BY <2>1, <2>2, <3>1, <3>5, <3>6 DEF NamingHeld, Settled
  <2>3. CASE ~(server.welcomed /\ given # server.nick)
    <3>1. toClient' = toClient
      BY <1>2, <2>3, ConcatEmptySeq DEF Serves
    <3>2. CASE server.welcomed
      <4>1. Settled /\ Lacks(toClient, Us) /\ nick = server.nick /\ phase # "registering"
        BY <3>2, LacksOnce DEF NamingHeld, Settled, Us
      <4> QED BY <2>1, <2>3, <3>1, <3>2, <4>1 DEF NamingHeld, Settled
    <3>3. CASE ~server.welcomed
      <4>1. Choosing /\ Lacks(toClient, {"433"})
        BY <3>3 DEF NamingHeld, Choosing
      <4> QED BY <1>a, <2>1, <3>1, <3>3, <4>1 DEF NamingHeld, Choosing
    <3> QED BY <3>2, <3>3
  <2> QED BY <2>2, <2>3
<1> QED BY <1>1, <1>2 DEF Names

LEMMA ServesNaming ==
    ASSUME Inv, NamingHeld, ServerReads
    PROVE  NamingHeld'
<1>1. CASE Names
  BY <1>1, NamesNaming
<1>2. CASE Lists \/ Grants \/ Ends \/ Identifies \/ StartsExchange \/ Judges \/ Aborts
  <2>1. toServer # <<>> /\ toServer' = Tail(toServer) /\ UNCHANGED <<phase, nick>>
    BY ServerStep
  <2>2. /\ server'.named = server.named /\ server'.nick = server.nick
        /\ server'.welcomed = server.welcomed
    BY <1>2 DEF Lists, Grants, Ends, Identifies, StartsExchange, Judges, Aborts, Serves,
       Inv, TypeOK, Servers
  <2>3. \/ toClient' = toClient
        \/ \E cmds \in SUBSET (Commands \ (Us \cup WelcomeCmds \cup {"433"})) : Sends(cmds)
    <3> DEFINE Other == SUBSET (Commands \ (Us \cup WelcomeCmds \cup {"433"}))
    <3>1. /\ {"LS*", "LS"} \in Other /\ {"ACK", "NAK"} \in Other /\ {"OUTCOME"} \in Other
          /\ {"CHALLENGE", "OUTCOME"} \in Other
          /\ {"CHALLENGE", "BADCHALLENGE", "OUTCOME"} \in Other
      BY DEF Commands, Us, WelcomeCmds
    <3> HIDE DEF Other
    <3>2. toClient' = toClient \/ \E cmds \in Other : Sends(cmds)
      BY <1>2, <3>1, ServerSends
    <3> QED BY <3>2 DEF Other
  <2> QED BY <2>1, <2>2, <2>3, NamingFrame
<1> QED BY <1>1, <1>2 DEF ServerReads

LEMMA WelcomesNaming ==
    ASSUME Inv, NamingHeld, Welcomes
    PROVE  NamingHeld'
<1>1. /\ UNCHANGED <<phase, nick, toServer>> /\ server.named /\ ~server.welcomed
  BY SayStep DEF Welcomes
<1>2. /\ server'.welcomed /\ server'.nick = server.nick /\ server.nick \in Nicks
      /\ toClient' = toClient \o <<NickLine("001", server.nick), Line("376")>>
  BY DEF Welcomes, Says, Inv, TypeOK, Servers
<1>3. Choosing /\ Lacks(toServer, {"NICK"}) /\ Lacks(toClient, {"433"}) /\ Lacks(toClient, Us)
  BY <1>1 DEF NamingHeld, Choosing
<1> DEFINE a == NickLine("001", server.nick)
           b == Line("376")
<1>4. a \in Lines /\ a.cmd = "001" /\ b \in Lines /\ b.cmd = "376"
  BY <1>2, LineType DEF Commands
<1>5. a.nick = server.nick
  BY DEF NickLine, Line
<1>6. toClient \in Seq(Lines) /\ toClient' = toClient \o <<a, b>>
  BY <1>2 DEF Inv, TypeOK, WireOK
<1> HIDE DEF a, b
<1>7. <<a, b>> \in Seq(Lines) /\ Once(<<a, b>>, Us) /\ ~Lacks(<<a, b>>, {"001"})
      /\ ~Lacks(<<a, b>>, Us) /\ Lacks(<<a, b>>, {"433"})
  BY <1>4 DEF Once, Lacks, Us
<1>8. Once(toClient', Us) /\ ~Lacks(toClient', {"001"}) /\ ~Lacks(toClient', Us)
      /\ Lacks(toClient', {"433"})
  BY <1>3, <1>6, <1>7, LacksConcat
<1>9. toClient' \in Seq(Telling(nick, server.nick))
  <2>1. toClient \in Seq(Telling(nick, server.nick))
    BY <1>3, <1>6, LacksSeq DEF Telling, Us
  <2>2. <<a, b>> \in Seq(Telling(nick, server.nick))
    BY <1>4, <1>5 DEF Telling, Us
  <2> QED BY <1>6, <2>1, <2>2, ConcatProperties
<1> QED BY <1>1, <1>2, <1>3, <1>8, <1>9 DEF NamingHeld, Settled

LEMMA SaysNaming ==
    ASSUME Inv, NamingHeld, Notifies \/ Dismisses
    PROVE  NamingHeld'
<1>1. UNCHANGED <<phase, nick, toServer>>
  BY SayStep
<1>2. /\ server'.named = server.named /\ server'.nick = server.nick
      /\ server'.welcomed = server.welcomed
  BY DEF Notifies, Dismisses, Says, Inv, TypeOK, Servers
<1>3. \E cmds \in SUBSET (Commands \ (Us \cup WelcomeCmds \cup {"433"})) : Sends(cmds)
  <2>1. /\ {"NEW", "DEL"} \in SUBSET (Commands \ (Us \cup WelcomeCmds \cup {"433"}))
        /\ {"ERROR"} \in SUBSET (Commands \ (Us \cup WelcomeCmds \cup {"433"}))
    BY DEF Commands, Us, WelcomeCmds
  <2> QED BY <2>1, ServerSends
<1> QED BY <1>1, <1>2, <1>3, NamingFrame

LEMMA NamingNext ==
    ASSUME Inv, Inv', AwaitsOurs, Opened, Opened', Naming, [Next]_vars
    PROVE  Naming'
<1>h. ASSUME kind = "connected" PROVE NamingHeld
  BY <1>h DEF Naming, NamingHeld
<1>i. ASSUME NamingHeld', kind' = "connected" PROVE Naming'
  BY <1>i DEF Naming, NamingHeld
<1>1. CASE Dials \/ Loses \/ Stops
  BY <1>1 DEF Dials, Loses, Stops, Link!Dial, Link!Lose, Link!Stop, Naming
<1>2. CASE Opens
  <2>1. kind' = "connected" /\ server'.openings = 0
    BY <1>2 DEF Opens, Link!Open
  <2>2. Before'
    BY <2>1 DEF Opened
  <2> QED BY <1>i, <2>1, <2>2, BeforeNaming
<1>3. CASE Continues
  <2>1. PICK c \in 1..Connections : PasswordRead(c) \/ CredentialsRead(c) \/ Responded(c)
    BY <1>3 DEF Continues
  <2>2. kind' = kind /\ phase' = phase
    BY <2>1, ContinueStep
  <2>3. CASE kind = "connected"
    BY <1>3, <1>h, <1>i, <2>2, <2>3, NamingContinues
  <2>4. CASE kind # "connected"
    BY <2>2, <2>4 DEF Naming
  <2> QED BY <2>3, <2>4
<1>4. CASE ClientReads
  BY <1>4, <1>h, <1>i, ReadStep, ReadsNaming
<1>5. CASE ChangesNick
  <2>1. kind = "connected" /\ kind' = "connected"
    BY <1>5 DEF ChangesNick, link
  <2> QED BY <1>5, <1>h, <1>i, <2>1, ChangesNaming
<1>6. CASE ServerReads
  BY <1>6, <1>h, <1>i, ServerStep, ServesNaming
<1>7. CASE Welcomes \/ Notifies \/ Dismisses
  BY <1>7, <1>h, <1>i, SayStep, WelcomesNaming, SaysNaming
<1>8. CASE UNCHANGED vars
  BY <1>8 DEF vars, link, caps, naming, sasl, wire, Naming, Choosing, Settled
<1> QED BY <1>1, <1>2, <1>3, <1>4, <1>5, <1>6, <1>7, <1>8 DEF Next

----------------------------------------------------------------------------
(* Capabilities.                                                           *)

\* A line that grants a capability or takes it away.
Mentions(l, c) == l.cmd \in {"ACK", "DEL"} /\ c \in l.caps

Silent(q, c) == \A i \in 1..Len(q) : ~Mentions(q[i], c)

\* The last to be heard of a capability is an ACK, or a DEL.
Decides(q, c, cmd) ==
    \E i \in 1..Len(q) :
       /\ Mentions(q[i], c)
       /\ \A j \in (i + 1)..Len(q) : ~Mentions(q[j], c)
       /\ q[i].cmd = cmd

Verdict(c) == IF c \in server.acked THEN "ACK" ELSE "DEL"

\* What is under way makes `enabled` what the server has acknowledged.
FollowsOffer ==
    \A c \in Caps :
       \/ Silent(toClient, c) /\ (c \in enabled <=> c \in server.acked)
       \/ Decides(toClient, c, Verdict(c))

Following ==
    /\ connection = 0 => enabled = {}
    /\ kind = "connected" => FollowsOffer

LEMMA DecidesTail ==
    ASSUME NEW q \in Seq(Lines), q # <<>>, NEW c
    PROVE  /\ Silent(q, c) => Silent(Tail(q), c) /\ ~Mentions(Head(q), c)
           /\ \A v : Decides(q, c, v) =>
                 \/ Decides(Tail(q), c, v)
                 \/ /\ Mentions(Head(q), c) /\ Head(q).cmd = v
                    /\ Silent(Tail(q), c)
<1> DEFINE t == Tail(q)
<1>1. t \in Seq(Lines) /\ Len(t) = Len(q) - 1 /\ Len(q) \in Nat /\ Len(q) > 0
      /\ \A i \in 1..Len(t) : t[i] = q[i + 1]
  OBVIOUS
<1>2. Head(q) = q[1]
  OBVIOUS
<1> HIDE DEF t
<1>3. ASSUME Silent(q, c) PROVE Silent(t, c) /\ ~Mentions(Head(q), c)
  BY <1>1, <1>2, <1>3 DEF Silent
<1>4. ASSUME NEW v, Decides(q, c, v)
      PROVE  \/ Decides(t, c, v)
             \/ Mentions(Head(q), c) /\ Head(q).cmd = v /\ Silent(t, c)
  <2>1. PICK i \in 1..Len(q) :
           /\ Mentions(q[i], c)
           /\ \A j \in (i + 1)..Len(q) : ~Mentions(q[j], c)
           /\ q[i].cmd = v
    BY <1>4 DEF Decides
  <2>2. CASE i = 1
    <3>1. Silent(t, c)
      BY <1>1, <2>1, <2>2 DEF Silent
    <3> QED BY <1>2, <2>1, <2>2, <3>1
  <2>3. CASE i # 1
    <3>1. i - 1 \in 1..Len(t) /\ t[i - 1] = q[i]
      BY <1>1, <2>3
    <3>2. \A j \in ((i - 1) + 1)..Len(t) : ~Mentions(t[j], c)
      BY <1>1, <2>1
    <3> QED BY <2>1, <3>1, <3>2 DEF Decides
  <2> QED BY <2>2, <2>3
<1> QED BY <1>3, <1>4 DEF t

LEMMA DecidesConcat ==
    ASSUME NEW q \in Seq(Lines), NEW r \in Seq(Lines), NEW c, Silent(r, c)
    PROVE  /\ Silent(q, c) => Silent(q \o r, c)
           /\ \A v : Decides(q, c, v) => Decides(q \o r, c, v)
<1> DEFINE s == q \o r
<1>1. /\ s \in Seq(Lines) /\ Len(s) = Len(q) + Len(r)
      /\ Len(q) \in Nat /\ Len(r) \in Nat
      /\ \A i \in 1..Len(q) : i \in 1..Len(s) /\ s[i] = q[i]
      /\ \A i \in 1..Len(s) : i \notin 1..Len(q) =>
            i - Len(q) \in 1..Len(r) /\ s[i] = r[i - Len(q)]
  BY ConcatProperties
<1> HIDE DEF s
<1>2. ASSUME Silent(q, c) PROVE Silent(s, c)
  BY <1>1, <1>2 DEF Silent
<1>3. ASSUME NEW v, Decides(q, c, v) PROVE Decides(s, c, v)
  <2>1. PICK i \in 1..Len(q) :
           /\ Mentions(q[i], c)
           /\ \A j \in (i + 1)..Len(q) : ~Mentions(q[j], c)
           /\ q[i].cmd = v
    BY <1>3 DEF Decides
  <2>2. ASSUME NEW j \in (i + 1)..Len(s) PROVE ~Mentions(s[j], c)
    <3>1. CASE j \in 1..Len(q)
      BY <1>1, <2>1, <3>1
    <3>2. CASE j \notin 1..Len(q)
      <4>1. j \in 1..Len(s)
        BY <1>1
      <4> QED BY <1>1, <3>2, <4>1 DEF Silent
    <3> QED BY <3>1, <3>2
  <2> QED BY <1>1, <2>1, <2>2 DEF Decides
<1> QED BY <1>2, <1>3 DEF s

LEMMA DecidesLine ==
    ASSUME NEW q \in Seq(Lines), NEW l \in Lines, NEW c, Mentions(l, c)
    PROVE  Decides(q \o <<l>>, c, l.cmd)
<1> DEFINE s == q \o <<l>>
<1>1. Len(s) = Len(q) + 1 /\ s[Len(q) + 1] = l /\ Len(q) \in Nat
  OBVIOUS
<1> HIDE DEF s
<1>2. Len(q) + 1 \in 1..Len(s) /\ \A j \in ((Len(q) + 1) + 1)..Len(s) : ~Mentions(s[j], c)
  BY <1>1
<1>3. Decides(s, c, l.cmd)
  BY <1>1, <1>2 DEF Decides
<1> QED BY <1>3 DEF s

\* What neither grants nor takes is silent.
LEMMA SilentAdds ==
    ASSUME NEW q \in Seq(Lines), NEW r, NEW cmds \in SUBSET (Commands \ {"ACK", "DEL"}),
           Adds(q, r, cmds), NEW c
    PROVE  /\ Silent(q, c) => Silent(r, c)
           /\ \A v : Decides(q, c, v) => Decides(r, c, v)
<1>1. PICK lines \in Seq(Lines) : r = q \o lines /\ Lacks(lines, Commands \ cmds)
  BY DEF Adds
<1>2. Silent(lines, c)
  BY <1>1 DEF Silent, Lacks, Mentions, Lines, Commands
<1> QED BY <1>1, <1>2, DecidesConcat

\* ... and a step with nothing more to say leaves the matter as it was.
LEMMA FollowsKept ==
    ASSUME Inv, FollowsOffer, enabled' = enabled, server'.acked = server.acked,
           \/ toClient' = toClient
           \/ \E cmds \in SUBSET (Commands \ {"ACK", "DEL"}) : Sends(cmds)
    PROVE  FollowsOffer'
<1>1. toClient \in Seq(Lines)
  BY DEF Inv, TypeOK, WireOK
<1>2. CASE toClient' = toClient
  BY <1>2 DEF FollowsOffer, Verdict
<1>3. ASSUME NEW cmds \in SUBSET (Commands \ {"ACK", "DEL"}), Sends(cmds)
      PROVE  FollowsOffer'
  <2> SUFFICES ASSUME NEW c \in Caps
               PROVE  \/ Silent(toClient', c) /\ (c \in enabled <=> c \in server.acked)
                      \/ Decides(toClient', c, Verdict(c))
    BY DEF FollowsOffer, Verdict
  <2>1. /\ Silent(toClient, c) => Silent(toClient', c)
        /\ \A v : Decides(toClient, c, v) => Decides(toClient', c, v)
    BY <1>1, <1>3, SilentAdds DEF Sends
  <2> QED BY <2>1 DEF FollowsOffer
<1> QED BY <1>2, <1>3

LEMMA FollowsReads ==
    ASSUME Inv, FollowsOffer, ClientReads
    PROVE  FollowsOffer'
<1>1. /\ toClient # <<>> /\ toClient' = Tail(toClient) /\ server' = server
      /\ toClient \in Seq(Lines) /\ Head(toClient) \in Lines
  BY ReadStep DEF Inv, TypeOK, WireOK
<1>2. /\ Head(toClient).cmd = "ACK" => enabled' = enabled \cup Head(toClient).caps
      /\ Head(toClient).cmd = "DEL" => enabled' = enabled \ Head(toClient).caps
      /\ Head(toClient).cmd \notin {"ACK", "DEL"} => enabled' = enabled
  BY DEF ClientReads, ListContinues, ListEnds, Acknowledged, Refused, Gained, Lost, Challenged,
         Outcome, Collides, Welcomed, MotdEnds, Renamed, Dismissed, Reads, Heard, caps
<1> SUFFICES ASSUME NEW c \in Caps
             PROVE  \/ Silent(toClient', c) /\ (c \in enabled' <=> c \in server.acked)
                    \/ Decides(toClient', c, Verdict(c))
  BY <1>1 DEF FollowsOffer, Verdict
<1>3. /\ Silent(toClient, c) => Silent(toClient', c) /\ ~Mentions(Head(toClient), c)
      /\ \A v : Decides(toClient, c, v) =>
            \/ Decides(toClient', c, v)
            \/ /\ Mentions(Head(toClient), c) /\ Head(toClient).cmd = v
               /\ Silent(toClient', c)
  BY <1>1, DecidesTail
<1>4. CASE Silent(toClient, c) /\ (c \in enabled <=> c \in server.acked)
  BY <1>2, <1>3, <1>4 DEF Mentions
<1>5. CASE Decides(toClient, c, Verdict(c))
  <2>1. \/ Decides(toClient', c, Verdict(c))
        \/ /\ Mentions(Head(toClient), c)
           /\ Head(toClient).cmd = Verdict(c)
           /\ Silent(toClient', c)
    BY <1>3, <1>5
  <2> QED BY <1>2, <2>1 DEF Mentions, Verdict
<1> QED BY <1>4, <1>5 DEF FollowsOffer

\* The server grants, or takes away, some capabilities, and says so.
LEMMA FollowsSays ==
    ASSUME Inv, FollowsOffer, enabled' = enabled, NEW l \in Lines,
           toClient' = toClient \o <<l>>,
           \/ l.cmd = "ACK" /\ server'.acked = server.acked \cup l.caps
           \/ l.cmd = "DEL" /\ server'.acked = server.acked \ l.caps
    PROVE  FollowsOffer'
<1> SUFFICES ASSUME NEW c \in Caps
             PROVE  \/ Silent(toClient', c) /\ (c \in enabled <=> c \in server'.acked)
                    \/ Decides(toClient', c, Verdict(c)')
  BY DEF FollowsOffer
<1>1. toClient \in Seq(Lines)
  BY DEF Inv, TypeOK, WireOK
<1>2. CASE c \in l.caps
  <2>1. Decides(toClient', c, l.cmd)
    BY <1>1, <1>2, DecidesLine DEF Mentions
  <2>2. l.cmd = Verdict(c)'
    BY <1>2 DEF Verdict
  <2> QED BY <2>1, <2>2
<1>3. CASE c \notin l.caps
  <2>1. Silent(<<l>>, c)
    BY <1>3 DEF Silent, Mentions
  <2>2. /\ Silent(toClient, c) => Silent(toClient', c)
        /\ \A v : Decides(toClient, c, v) => Decides(toClient', c, v)
    <3>1. <<l>> \in Seq(Lines)
      OBVIOUS
    <3> QED BY <1>1, <2>1, <3>1, DecidesConcat
  <2>3. Verdict(c)' = Verdict(c) /\ (c \in server'.acked <=> c \in server.acked)
    BY <1>3 DEF Verdict
  <2> QED BY <2>2, <2>3 DEF FollowsOffer
<1> QED BY <1>2, <1>3

LEMMA FollowsServes ==
    ASSUME Inv, FollowsOffer, ServerReads \/ Welcomes \/ Notifies \/ Dismisses
    PROVE  FollowsOffer'
<1>1. enabled' = enabled
  BY ServerStep, SayStep
<1>2. server \in Servers /\ (ServerReads => Asked \in Lines)
  BY ServerStep, AskedType DEF Inv, TypeOK
<1>3. CASE Grants
  <2>1. CASE Asked.caps \subseteq server.offer
    <3> DEFINE l == CapLine("ACK", Asked.caps)
    <3>1. l \in Lines /\ l.cmd = "ACK"
      BY <1>2, <1>3, LineType DEF ServerReads, Lines, Commands
    <3>2. l.caps = Asked.caps
      BY DEF CapLine, Line
    <3>3. toClient' = toClient \o <<l>> /\ server'.acked = server.acked \cup Asked.caps
      BY <1>2, <1>3, <2>1 DEF Grants, Serves, Servers
    <3> HIDE DEF l
    <3> QED BY <1>1, <3>1, <3>2, <3>3, FollowsSays
  <2>2. CASE ~(Asked.caps \subseteq server.offer)
    <3> DEFINE l == CapLine("NAK", Asked.caps)
    <3>1. l \in Lines /\ l.cmd = "NAK" /\ toClient \in Seq(Lines)
      BY <1>2, <1>3, LineType DEF ServerReads, Lines, Commands, Inv, TypeOK, WireOK
    <3>2. toClient' = toClient \o <<l>> /\ server' = server
      BY <1>3, <2>2 DEF Grants, Serves
    <3> HIDE DEF l
    <3>3. Sends({"NAK"}) /\ {"NAK"} \in SUBSET (Commands \ {"ACK", "DEL"})
      BY <3>1, <3>2, AddsLine DEF Sends, Commands
    <3> QED BY <1>1, <3>2, <3>3, FollowsKept
  <2> QED BY <2>1, <2>2
<1>4. CASE Notifies
  <2>1. PICK c \in Caps :
           LET next == [server EXCEPT !.changes = @ + 1] IN
           \/ /\ c \notin server.offer
              /\ Says([next EXCEPT !.offer = @ \cup {c}], <<CapLine("NEW", {c})>>)
           \/ /\ c \in server.offer
              /\ Says([next EXCEPT !.offer = @ \ {c}, !.acked = @ \ {c}], <<CapLine("DEL", {c})>>)
    BY <1>4 DEF Notifies
  <2> DEFINE new == CapLine("NEW", {c})
             del == CapLine("DEL", {c})
  <2>2. new \in Lines /\ new.cmd = "NEW" /\ del \in Lines /\ del.cmd = "DEL"
    BY LineType DEF Commands
  <2>3. del.caps = {c}
    BY DEF CapLine, Line
  <2>4. \/ toClient' = toClient \o <<new>> /\ server'.acked = server.acked
        \/ toClient' = toClient \o <<del>> /\ server'.acked = server.acked \ {c}
    BY <1>2, <2>1 DEF Says, Servers
  <2> HIDE DEF new, del
  <2>5. CASE toClient' = toClient \o <<new>> /\ server'.acked = server.acked
    <3>1. Sends({"NEW"}) /\ {"NEW"} \in SUBSET (Commands \ {"ACK", "DEL"})
      BY <2>2, <2>5, AddsLine DEF Sends, Commands, Inv, TypeOK, WireOK
    <3> QED BY <1>1, <2>5, <3>1, FollowsKept
  <2>6. CASE toClient' = toClient \o <<del>> /\ server'.acked = server.acked \ {c}
    BY <1>1, <2>2, <2>3, <2>6, FollowsSays
  <2> QED BY <2>4, <2>5, <2>6
<1>5. CASE \/ Lists \/ Ends \/ Names \/ Identifies \/ StartsExchange \/ Judges \/ Aborts
           \/ Welcomes \/ Dismisses
  <2>1. server'.acked = server.acked
    BY <1>2, <1>5 DEF Lists, Ends, Names, Identifies, StartsExchange, Judges, Aborts, Serves,
       Welcomes, Dismisses, Says, Servers
  <2>2. \/ toClient' = toClient
        \/ \E cmds \in SUBSET (Commands \ {"ACK", "DEL"}) : Sends(cmds)
    <3> DEFINE Other == SUBSET (Commands \ {"ACK", "DEL"})
    <3>1. /\ {"LS*", "LS"} \in Other /\ {"433", "NICK"} \in Other /\ {"OUTCOME"} \in Other
          /\ {"CHALLENGE", "OUTCOME"} \in Other /\ {"001", "376"} \in Other
          /\ {"CHALLENGE", "BADCHALLENGE", "OUTCOME"} \in Other /\ {"ERROR"} \in Other
      BY DEF Commands
    <3> HIDE DEF Other
    <3>2. toClient' = toClient \/ \E cmds \in Other : Sends(cmds)
      BY <1>5, <3>1, ServerSends
    <3> QED BY <3>2 DEF Other
  <2> QED BY <1>1, <2>1, <2>2, FollowsKept
<1> QED BY <1>3, <1>4, <1>5 DEF ServerReads

LEMMA FollowingNext ==
    ASSUME Connections <= 1, Inv, Following, [Next]_vars
    PROVE  Following'
<1>1. CASE Dials \/ Loses \/ Stops
  BY <1>1 DEF Dials, Loses, Stops, Link!Dial, Link!Lose, Link!Stop, caps, Following
<1>2. CASE Opens
  <2>1. connection = 0 /\ connection' # 0
    BY <1>2, ProfileAssumption DEF Opens, Inv, TypeOK, LinkOK
  <2>2. enabled' = {} /\ toClient' = <<>> /\ server'.acked = {}
    BY <1>2, <2>1 DEF Opens, Following
  <2>3. FollowsOffer'
    BY <2>2 DEF FollowsOffer, Silent
  <2> QED BY <2>1, <2>3 DEF Following
<1>3. CASE Continues
  <2>1. UNCHANGED <<kind, connection, enabled, toClient, server>>
    BY <1>3, ContinueStep DEF Continues
  <2> QED BY <2>1 DEF Following, FollowsOffer, Verdict
<1>4. CASE ClientReads
  BY <1>4, ReadStep, FollowsReads DEF Following, Inv, ConnectedHasNumber
<1>5. CASE ChangesNick
  <2>1. UNCHANGED <<kind, connection, enabled, toClient, server>>
    BY <1>5 DEF ChangesNick, link, caps
  <2> QED BY <2>1 DEF Following, FollowsOffer, Verdict
<1>6. CASE ServerReads \/ Welcomes \/ Notifies \/ Dismisses
  BY <1>6, ServerStep, SayStep, FollowsServes DEF Following
<1>7. CASE UNCHANGED vars
  BY <1>7 DEF vars, link, caps, wire, Following, FollowsOffer, Verdict
<1> QED BY <1>1, <1>2, <1>3, <1>4, <1>5, <1>6, <1>7 DEF Next

----------------------------------------------------------------------------
(* The nicks tried.                                                        *)

\* While nothing is settled the nicks are tried one after the other, and only
\* those tried have been refused.
Counted ==
    /\ triedNicks = 0..nick /\ server.refused \subseteq 0..nick
    /\ ~Lacks(toServer, {"NICK"}) => nick \notin server.refused
    /\ ~Lacks(toClient, {"433"}) => nick < server.taken

Counting == phase = "registering" /\ ~server.welcomed /\ ~server.named => Counted

LEMMA LeastIs ==
    ASSUME NEW a \in Nat, NEW b \in Nat, a <= b
    PROVE  Least(a..b) = a
<1>1. a \in a..b /\ \A m \in a..b : a <= m
  OBVIOUS
<1>2. \A n \in a..b : (\A m \in a..b : n <= m) => n = a
  BY <1>1
<1> QED BY <1>1, <1>2 DEF Least

\* Until every nick that may be taken has been tried, the next one follows.
LEMMA NextFollows ==
    ASSUME nick \in Nat, nick < Longest, triedNicks = 0..nick
    PROVE  NextNick = nick + 1
<1>1. AltNicks \in Nat /\ Longest \in Nat
  BY ProfileAssumption DEF Longest
<1>2. CASE nick < AltNicks
  <2>1. Untried = (nick + 1)..AltNicks
    BY <1>1, <1>2 DEF Untried
  <2>2. Least(Untried) = nick + 1
    BY <1>1, <1>2, <2>1, LeastIs
  <2>3. Untried # {}
    BY <1>1, <1>2, <2>1
  <2> QED BY <2>2, <2>3 DEF NextNick
<1>3. CASE ~(nick < AltNicks)
  <2>1. Untried = {}
    BY <1>1, <1>3 DEF Untried
  <2>2. (nick + 1)..(Longest + 2) \ triedNicks = (nick + 1)..(Longest + 2)
    BY <1>1
  <2>3. Least((nick + 1)..(Longest + 2)) = nick + 1
    BY <1>1, LeastIs
  <2>4. ~(nick + 1 > Longest)
    BY <1>1
  <2> QED BY <2>1, <2>2, <2>3, <2>4 DEF NextNick
<1> QED BY <1>2, <1>3

LEMMA BeforeCounted == ASSUME Inv', Before' PROVE Counted'
<1>1. Lacks(toClient', {"433"})
  <2>1. {"433"} \subseteq Commands \ {"ERROR"}
    BY DEF Commands
  <2> QED BY <2>1, LacksOnce DEF Before
<1>2. 0..0 = {0}
  OBVIOUS
<1> QED BY <1>1, <1>2 DEF Counted, Before

\* What neither asks for a nick nor refuses one.
LEMMA CountingKept ==
    ASSUME Counting, phase' = phase \/ phase' # "registering",
           UNCHANGED <<nick, triedNicks>>,
           server'.refused = server.refused, server'.taken = server.taken,
           server.named => server'.named, server.welcomed => server'.welcomed,
           Lacks(toServer, {"NICK"}) => Lacks(toServer', {"NICK"}),
           Lacks(toClient, {"433"}) => Lacks(toClient', {"433"})
    PROVE  Counting'
BY DEF Counting, Counted

LEMMA CollidesCounting ==
    ASSUME MaxTaken <= Longest, Inv, NamingHeld, Counting, Collides, phase = "registering"
    PROVE  Counting'
<1>1. /\ toClient # <<>> /\ toClient' = Tail(toClient) /\ server' = server
      /\ Head(toClient).cmd = "433"
      /\ nick' = NextNick /\ triedNicks' = triedNicks \cup {NextNick}
  BY DEF Collides, Reads
<1>2. toClient \in Seq(Lines) /\ server \in Servers /\ nick \in Nat
  BY DEF Inv, TypeOK, WireOK, SessionOK, Nicks
<1>3. ~Lacks(toClient, {"433"})
  BY <1>1, <1>2, LacksTail
<1>4. ~server.welcomed /\ Choosing
  BY <1>3 DEF NamingHeld, Settled
<1>5. ~server.named /\ Lacks(toClient', {"433"})
  BY <1>1, <1>2, <1>3, <1>4, LacksTail DEF Choosing
<1>6. Counted
  BY <1>4, <1>5 DEF Counting
<1>7. nick < Longest
  <2>1. nick < server.taken /\ server.taken \in 0..MaxTaken
    BY <1>2, <1>3, <1>6 DEF Counted, Servers
  <2> QED BY <1>2, <2>1, ProfileAssumption DEF Longest
<1>8. nick' = nick + 1 /\ triedNicks' = 0..(nick + 1)
  <2>1. NextNick = nick + 1
    BY <1>2, <1>6, <1>7, NextFollows DEF Counted
  <2>2. 0..nick \cup {nick + 1} = 0..(nick + 1)
    BY <1>2
  <2> QED BY <1>1, <1>6, <2>1, <2>2 DEF Counted
<1>9. server.refused \subseteq 0..(nick + 1) /\ nick + 1 \notin server.refused
  BY <1>2, <1>6 DEF Counted
<1> QED BY <1>1, <1>5, <1>8, <1>9 DEF Counting, Counted

LEMMA NamesCounting ==
    ASSUME Inv, NamingHeld, Counting, Names
    PROVE  Counting'
<1> USE NamesReads
<1>0. /\ Head(toServer).cmd = "NICK" /\ Asked = Head(toServer)
      /\ UNCHANGED <<phase, nick, triedNicks>>
  BY DEF Names, Asks, Asked, Serves, naming
<1>1. CASE Serves([server EXCEPT !.refused = @ \cup {Asked.nick}], <<Line("433")>>)
           /\ Asked.nick < server.taken
  <2>1. /\ server'.named = server.named /\ server'.refused = server.refused \cup {Asked.nick}
        /\ server'.welcomed = server.welcomed /\ server'.taken = server.taken
    BY <1>1 DEF Serves, Servers
  <2> SUFFICES ASSUME phase = "registering", ~server.welcomed, ~server.named PROVE Counted'
    BY <1>0, <2>1 DEF Counting
  <2>2. Asked.nick = nick
    <3>1. toServer \in Seq(Asking(nick))
      BY DEF NamingHeld, Choosing
    <3>2. Asked \in Asking(nick)
      BY <1>0, <3>1, SeqTail
    <3> QED BY <1>0, <3>2 DEF Asking
  <2>3. Counted /\ nick \in Nat
    BY DEF Counting, Inv, TypeOK, SessionOK, Nicks
  <2>4. nick \in 0..nick
    BY <2>3
  <2> QED BY <1>0, <1>1, <2>1, <2>2, <2>3, <2>4 DEF Counted
<1>2. CASE \E given \in {Asked.nick, Shortened} :
              Serves([server EXCEPT !.named = TRUE, !.nick = given],
                     IF server.welcomed /\ given # server.nick
                        THEN <<RenameLine(server.nick, given)>> ELSE <<>>)
  <2>1. server'.named
    BY <1>2 DEF Serves, Servers
  <2> QED BY <2>1 DEF Counting
<1> QED BY <1>1, <1>2 DEF Names

LEMMA ReadsCounting ==
    ASSUME Inv, NamingHeld, Counting, ClientReads, Collides => phase # "registering"
    PROVE  Counting'
<1>1. /\ toClient # <<>> /\ toClient' = Tail(toClient) /\ server' = server
      /\ toClient \in Seq(Lines) /\ toServer \in Seq(Lines)
  BY ReadStep DEF Inv, TypeOK, WireOK
<1>2. phase' = phase \/ phase' # "registering"
  BY DEF ClientReads, ListContinues, ListEnds, Acknowledged, Refused, Gained, Lost, Challenged,
         Outcome, Collides, Welcomed, MotdEnds, Renamed, Dismissed
<1>3. CASE Head(toClient).cmd \in Us
  <2>1. server.welcomed
    <3>1. ~Lacks(toClient, Us)
      BY <1>1, <1>3, LacksTail
    <3> QED BY <3>1 DEF NamingHeld, Choosing
  <2> QED BY <1>1, <2>1 DEF Counting
<1>4. CASE Head(toClient).cmd \notin Us
  <2>1. UNCHANGED <<nick, triedNicks>>
    BY <1>4 DEF ClientReads, ListContinues, ListEnds, Acknowledged, Refused, Gained, Lost,
         Challenged, Outcome, Collides, Welcomed, MotdEnds, Renamed, Dismissed, Reads, naming, Us
  <2>2. Lacks(toServer, {"NICK"}) => Lacks(toServer', {"NICK"})
    <3>1. /\ {"NICK"} \subseteq Commands \ {"END", "REQ"}
          /\ {"NICK"} \subseteq Commands \ {"END", "ABORT"}
          /\ {"NICK"} \subseteq Commands \ {"END"} /\ {"NICK"} \subseteq Commands \ {"REQ"}
          /\ {"NICK"} \subseteq Commands \ {"PAYLOAD", "ABORT", "END"}
      BY DEF Commands
    <3>2. Collides => toServer' = toServer
      BY DEF Collides
    <3> QED BY <1>1, <3>1, <3>2, ReadWrites, FewerAdds DEF ClientReads, Writes, Fewer
  <2>3. Lacks(toClient, {"433"}) => Lacks(toClient', {"433"})
    BY <1>1, LacksTail
  <2> QED BY <1>1, <1>2, <2>1, <2>2, <2>3, CountingKept
<1> QED BY <1>3, <1>4

LEMMA ServesCounting ==
    ASSUME Inv, Counting,
           \/ Lists \/ Grants \/ Ends \/ Identifies \/ StartsExchange \/ Judges \/ Aborts
           \/ Welcomes \/ Notifies \/ Dismisses
    PROVE  Counting'
<1>1. /\ UNCHANGED <<phase, nick, triedNicks>> /\ toClient \in Seq(Lines)
      /\ toServer \in Seq(Lines) /\ server \in Servers
      /\ toServer' = toServer \/ (toServer # <<>> /\ toServer' = Tail(toServer))
  BY ServerStep, SayStep DEF ServerReads, Inv, TypeOK, WireOK
<1>2. /\ server'.refused = server.refused /\ server'.taken = server.taken
      /\ server'.named = server.named /\ (server.welcomed => server'.welcomed)
  BY <1>1 DEF Lists, Grants, Ends, Identifies, StartsExchange, Judges, Aborts, Serves,
     Welcomes, Notifies, Dismisses, Says, Servers
<1>3. Lacks(toServer, {"NICK"}) => Lacks(toServer', {"NICK"})
  BY <1>1, LacksTail
<1>4. Lacks(toClient, {"433"}) => Lacks(toClient', {"433"})
  <2> DEFINE Other == SUBSET (Commands \ {"433"})
  <2>1. /\ {"LS*", "LS"} \in Other /\ {"ACK", "NAK"} \in Other /\ {"OUTCOME"} \in Other
        /\ {"CHALLENGE", "OUTCOME"} \in Other /\ {"001", "376"} \in Other
        /\ {"NEW", "DEL"} \in Other
        /\ {"CHALLENGE", "BADCHALLENGE", "OUTCOME"} \in Other /\ {"ERROR"} \in Other
    BY DEF Commands
  <2>2. toClient' = toClient \/ \E cmds \in Other : Sends(cmds)
    <3> HIDE DEF Other
    <3> QED BY <2>1, ServerSends
  <2>3. ASSUME NEW cmds \in Other, Sends(cmds)
        PROVE  Lacks(toClient, {"433"}) => Lacks(toClient', {"433"})
    <3>1. {"433"} \subseteq Commands \ cmds
      BY <2>3 DEF Commands
    <3> QED BY <1>1, <2>3, <3>1, AddsKeeps DEF Sends
  <2> QED BY <2>2, <2>3
<1> QED BY <1>1, <1>2, <1>3, <1>4, CountingKept

LEMMA CountingNext ==
    ASSUME MaxTaken <= Longest, Inv, Inv', AwaitsOurs, Opened, Opened', Naming, Counting,
           [Next]_vars
    PROVE  Counting'
<1>h. ASSUME kind = "connected" PROVE NamingHeld
  BY <1>h DEF Naming, NamingHeld
<1>1. CASE Dials \/ Loses \/ Stops
  <2>1. phase' # "registering"
    BY <1>1 DEF Dials, Loses, Stops, Naming, Link!Dial, Link!Lose, Link!Stop
  <2> QED BY <2>1 DEF Counting
<1>2. CASE Opens
  <2>1. kind' = "connected" /\ server'.openings = 0
    BY <1>2 DEF Opens, Link!Open
  <2>2. Before'
    BY <2>1 DEF Opened
  <2> QED BY <2>2, BeforeCounted DEF Counting
<1>3. CASE Continues
  <2>1. PICK c \in 1..Connections : PasswordRead(c) \/ CredentialsRead(c) \/ Responded(c)
    BY <1>3 DEF Continues
  <2>2. UNCHANGED <<kind, connection, phase, nick, triedNicks, toClient, server>>
    BY <2>1, ContinueStep
  <2>3. CASE kind # "connected"
    BY <2>2, <2>3 DEF Naming, Counting
  <2>4. CASE kind = "connected" /\ PasswordRead(c)
    <3>1. c = connection /\ Awaited("password")
      BY <2>4 DEF PasswordRead, Resumes, AwaitsOurs, Awaited
    <3>2. server'.openings = 0
      BY <2>2, <2>4, <3>1 DEF Opened, After
    <3>3. Before'
      BY <2>2, <2>4, <3>2 DEF Opened
    <3> QED BY <3>3, BeforeCounted DEF Counting
  <2>5. CASE kind = "connected" /\ (CredentialsRead(c) \/ Responded(c))
    <3>1. Lacks(toServer, {"NICK"}) => Lacks(toServer', {"NICK"})
      <4>1. /\ {"NICK"} \subseteq Commands \ {"AUTHENTICATE", "ABORT", "END"}
            /\ {"NICK"} \subseteq Commands \ {"PAYLOAD"}
        BY DEF Commands
      <4> QED BY <2>5, <4>1, ContinueWrites, FewerAdds DEF Writes, Fewer, Inv, TypeOK, WireOK
    <3> QED BY <2>2, <3>1, CountingKept
  <2> QED BY <2>1, <2>3, <2>4, <2>5
<1>4. CASE ClientReads
  BY <1>4, <1>h, ReadStep, ReadsCounting, CollidesCounting
<1>5. CASE ChangesNick
  BY <1>5 DEF ChangesNick, Counting
<1>6. CASE ServerReads
  BY <1>6, <1>h, ServerStep, NamesCounting, ServesCounting DEF ServerReads
<1>7. CASE Welcomes \/ Notifies \/ Dismisses
  BY <1>7, ServesCounting
<1>8. CASE UNCHANGED vars
  BY <1>8 DEF vars, naming, wire, Counting, Counted
<1> QED BY <1>1, <1>2, <1>3, <1>4, <1>5, <1>6, <1>7, <1>8 DEF Next

----------------------------------------------------------------------------
(* What both ends have of each other.                                      *)

Settling == Signing /\ Naming

LEMMA SettlingHolds == ASSUME OneAtATime PROVE Spec => []Settling
<1>1. Init => Naming
  BY DEF Init, Link!Init, Naming
<1>2. Signing /\ Signing' /\ Naming /\ [Next]_vars => Naming'
  BY NamingNext DEF Signing
<1>3. Spec => []Signing
  BY SigningHolds
<1> QED BY <1>1, <1>2, <1>3, PTL DEF Spec, Settling

\* Once everything said has been heard, both ends agree on the nick, whatever
\* was refused, cut short or changed on the way; an await is taken to answer
\* before its connection is lost.
THEOREM NickAgreed == ASSUME OneAtATime PROVE Spec => []AgreesOnNick
<1>1. ASSUME Settling PROVE AgreesOnNick
  <2> SUFFICES ASSUME kind = "connected", server.welcomed, toClient = <<>> PROVE nick = server.nick
    BY DEF AgreesOnNick
  <2> QED BY <1>1, LacksEmpty DEF Settling, Naming, Settled
<1>2. Settling => AgreesOnNick
  BY <1>1
<1>3. Spec => []Settling
  BY SettlingHolds
<1> QED BY <1>2, <1>3, PTL

\* ... and, on the first connection, on the capabilities.
THEOREM EndsAgree == ASSUME Connections <= 1 PROVE Spec => []Agrees
<1>1. Init => Following
  BY DEF Init, Link!Init, Following
<1>2. Inv /\ Following /\ [Next]_vars => Following'
  BY FollowingNext
<1>3. ASSUME Inv, Following PROVE AgreesOnCaps
  <2> SUFFICES ASSUME kind = "connected", toClient = <<>> PROVE enabled = server.acked
    BY DEF AgreesOnCaps
  <2>1. \A c \in Caps : c \in enabled <=> c \in server.acked
    BY <1>3 DEF Following, FollowsOffer, Decides
  <2>2. enabled \subseteq Caps /\ server.acked \subseteq Caps
    BY <1>3 DEF Inv, TypeOK, SessionOK, Servers
  <2> QED BY <2>1, <2>2
<1>4. Inv /\ Following => AgreesOnCaps
  BY <1>3
<1>5. Spec => []Inv
  BY InvHolds
<1>6. Spec => []AgreesOnNick
  BY NickAgreed DEF OneAtATime
<1>7. AgreesOnNick /\ AgreesOnCaps => Agrees
  BY DEF Agrees
<1> QED BY <1>1, <1>2, <1>4, <1>5, <1>6, <1>7, PTL DEF Spec

\* The password comes before the nick it is for, and no nick is asked for
\* again that the connection has refused, as long as there are nicks enough
\* to try and an await answers before its connection is lost.
THEOREM AskedInOrder ==
    ASSUME OneAtATime, MaxTaken <= Longest
    PROVE  Spec => []AsksInOrder
<1>1. Init => Counting
  BY DEF Init, Counting
<1>2. Settling /\ Settling' /\ Counting /\ [Next]_vars => Counting'
  BY CountingNext DEF Settling, Signing
<1>3. ASSUME Settling, Counting PROVE AsksInOrder
  <2> SUFFICES ASSUME toServer # <<>>
               PROVE  /\ Asked.cmd = "PASS" => ~server.named /\ ~server.user
                      /\ phase = "registering" /\ Asked.cmd = "NICK" => Asked.nick \notin server.refused
    BY DEF AsksInOrder, PasswordFirst, NotRefusedTwice
  <2>1. kind = "connected" /\ NamingHeld /\ toServer \in Seq(Lines) /\ Asked = Head(toServer)
    BY <1>3 DEF Settling, Signing, Apart, Naming, NamingHeld, Asked, Inv, TypeOK, WireOK
  <2>2. ASSUME Asked.cmd = "PASS" PROVE ~server.named /\ ~server.user
    <3>1. ~Lacks(toServer, {"LS", "PASS"})
      BY <2>1, <2>2, LacksTail
    <3> QED BY <1>3, <2>1, <3>1 DEF Settling, Signing, Opened, After, Before
  <2>3. ASSUME phase = "registering", Asked.cmd = "NICK" PROVE Asked.nick \notin server.refused
    <3>1. ~Lacks(toServer, {"NICK"})
      BY <2>1, <2>3, LacksTail
    <3>2. ~server.welcomed
      BY <2>1, <2>3, <3>1, LacksOnce DEF NamingHeld, Settled, Us
    <3>3. ~server.named /\ toServer \in Seq(Asking(nick))
      BY <2>1, <2>3, <3>1, <3>2 DEF NamingHeld, Choosing
    <3>4. Asked.nick = nick
      BY <2>1, <2>3, <3>3, SeqTail DEF Asking
    <3> QED BY <1>3, <2>3, <3>1, <3>2, <3>3, <3>4 DEF Counting, Counted
  <2> QED BY <2>2, <2>3
<1>4. Settling /\ Counting => AsksInOrder
  BY <1>3
<1>5. Spec => []Settling
  BY SettlingHolds
<1> QED BY <1>1, <1>2, <1>4, <1>5, PTL DEF Spec

=============================================================================
