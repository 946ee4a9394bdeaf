------------------------------ MODULE Channel ------------------------------
(***************************************************************************)
(* Who is in a channel: the member list the reducer builds                 *)
(* (packages/client/src/state/reduce.ts with members.ts and applyPrefixes  *)
(* of packages/protocol/src/modes.ts) against the list the server keeps.   *)
(*                                                                         *)
(* One channel. The server tells what happens in it, in order, to a client *)
(* that is in it; the reply to NAMES is computed once and may be streamed  *)
(* with other news in between. A connection can be lost at any point, and  *)
(* what was under way is lost with it.                                     *)
(*                                                                         *)
(* A table says of every nick whether it is in the channel and with which  *)
(* prefixes; `multi-prefix` is taken as negotiated, so NAMES shows all.    *)
(***************************************************************************)
EXTENDS Naturals, FiniteSets, SequencesExt

CONSTANTS
    Nicks,          \* the nicks in use
    Modes,          \* the prefix modes of the channel
    Amid,           \* what may happen while a NAMES reply is on its way
    Connections,    \* bound on the connections made
    MaxLines,       \* bound on the lines under way
    MaxPending      \* bound on the mode changes during one reply

ASSUME ChannelAssumption ==
    /\ Amid \subseteq {"JOIN", "LEAVE", "NICK", "MODE", "drop"}
    /\ Connections \in Nat /\ MaxLines \in Nat /\ MaxPending \in Nat

VARIABLES
    connected, connection,  \* registered on a connection; its number
    me,                     \* NetworkState.nick
    joined, members,        \* of ChannelState
    namesLoading,           \* of ChannelState
    pending,                \* ChannelState.pendingPrefixChanges
    news,                   \* lines under way
    self, roster,           \* the server's: our nick, who is in
    streaming, left         \* the server's: a NAMES reply, what is left of it

link == <<connected, connection>>
burst == <<namesLoading, pending>>
client == <<me, joined, members, burst>>
reply == <<streaming, left>>
far == <<self, roster, reply>>
channelVars == <<link, client, news, far>>

----------------------------------------------------------------------------
(* Tables.                                                                 *)

Nobody == [here |-> FALSE, prefixes |-> {}]
Empty == [n \in Nicks |-> Nobody]

\* upsertMember()
Upsert(t, n, p) == [t EXCEPT ![n] = [here |-> TRUE, prefixes |-> p]]

\* removeMember()
Without(t, n) == [t EXCEPT ![n] = Nobody]

\* renameMember()
Renamed(t, m, n) == IF t[m].here THEN Upsert(Without(t, m), n, t[m].prefixes) ELSE t

\* applyPrefixes(), for one change, to whoever has the nick now.
Altered(t, change) ==
    LET held == t[change.nick].prefixes
    IN  Upsert(t, change.nick, IF change.add THEN held \cup {change.mode} ELSE held \ {change.mode})

\* The changes held back, made again in the order they came.
Replayed(t, changes) == FoldLeft(Altered, t, changes)

\* The part of a table about the nicks of N, and one table laid over another.
Part(t, N) == [n \in Nicks |-> IF n \in N THEN t[n] ELSE Nobody]
Over(new, old) == [n \in Nicks |-> IF new[n].here THEN new[n] ELSE old[n]]

In(t) == {n \in Nicks : t[n].here}

----------------------------------------------------------------------------
(* The lines a client reads, one action each.                              *)

Reads(cmd) ==
    /\ connected
    /\ news # <<>> /\ Head(news).cmd = cmd
    /\ news' = Tail(news)
    /\ UNCHANGED <<link, far>>

Heard == Head(news)

\* JOIN: somebody walks in, and it may be us. What is known of them stays.
ReadsJoin ==
    /\ Reads("JOIN")
    /\ members' = Upsert(members, Heard.nick, members[Heard.nick].prefixes)
    /\ joined' = (joined \/ Heard.nick = me)
    /\ UNCHANGED <<me, burst>>

ReadsPart_KeepsMembers ==
    /\ Reads("PART")
    /\ members' = Without(members, Heard.nick)
    /\ joined' = (joined /\ Heard.nick # me)
    /\ UNCHANGED <<me, burst>>

\* PART: our own drops the membership and keeps the buffer.
ReadsPart ==
    /\ Reads("PART")
    /\ members' = IF Heard.nick = me THEN Empty ELSE Without(members, Heard.nick)
    /\ joined' = (joined /\ Heard.nick # me)
    /\ UNCHANGED <<me, burst>>

ReadsKick_StaysJoined ==
    /\ Reads("KICK")
    /\ members' = IF Heard.nick = me THEN Empty ELSE Without(members, Heard.nick)
    /\ UNCHANGED <<joined, me, burst>>

\* KICK
ReadsKick ==
    /\ Reads("KICK")
    /\ joined' = (joined /\ Heard.nick # me)
    /\ members' = IF Heard.nick = me THEN Empty ELSE Without(members, Heard.nick)
    /\ UNCHANGED <<me, burst>>

\* QUIT
ReadsQuit ==
    /\ Reads("QUIT")
    /\ members' = Without(members, Heard.nick)
    /\ UNCHANGED <<me, joined, burst>>

\* NICK
ReadsNick ==
    /\ Reads("NICK")
    /\ members' = Renamed(members, Heard.nick, Heard.to)
    /\ me' = IF Heard.nick = me THEN Heard.to ELSE me
    /\ UNCHANGED <<joined, burst>>

ReadsMode_AlwaysPends ==
    /\ Reads("MODE")
    /\ members' = Altered(members, Heard)
    /\ pending' = Append(pending, Heard)
    /\ UNCHANGED <<me, joined, namesLoading>>

\* MODE with a prefix: applied now, and again when the burst is over.
ReadsMode ==
    /\ Reads("MODE")
    /\ members' = Altered(members, Heard)
    /\ pending' = IF namesLoading THEN Append(pending, Heard) ELSE pending
    /\ UNCHANGED <<me, joined, namesLoading>>

\* 353: a fresh burst replaces the list, a continuation adds to it.
ReadsNames ==
    /\ Reads("353")
    /\ members' = Over(Heard.list, IF namesLoading THEN members ELSE Empty)
    /\ namesLoading' = TRUE
    /\ UNCHANGED <<me, joined, pending>>

ReadsNamesEnd_Forgets ==
    /\ Reads("366")
    /\ namesLoading' = FALSE /\ pending' = <<>>
    /\ UNCHANGED <<me, joined, members>>

ReadsNamesEnd_StillLoading ==
    /\ Reads("366")
    /\ members' = Replayed(members, pending)
    /\ pending' = <<>>
    /\ UNCHANGED <<me, joined, namesLoading>>

\* 366: the mode changes heard during the burst are made again.
ReadsNamesEnd ==
    /\ Reads("366")
    /\ members' = Replayed(members, pending)
    /\ namesLoading' = FALSE /\ pending' = <<>>
    /\ UNCHANGED <<me, joined>>

\* 352: no prefixes shown leaves those known.
ReadsWho ==
    /\ Reads("352")
    /\ members' = Upsert(members, Heard.nick,
                         IF Heard.prefixes = {} THEN members[Heard.nick].prefixes
                                                ELSE Heard.prefixes)
    /\ UNCHANGED <<me, joined, burst>>

ClientHears ==
    \/ ReadsJoin \/ ReadsPart \/ ReadsKick \/ ReadsQuit \/ ReadsNick
    \/ ReadsMode \/ ReadsNames \/ ReadsNamesEnd \/ ReadsWho

----------------------------------------------------------------------------
(* The connection.                                                         *)

\* It is lost, for good or to be made again: handleClose() and the state
\* handler leave what is known of a channel as it is.
Drops ==
    /\ connected
    /\ namesLoading => "drop" \in Amid
    /\ connected' = FALSE
    /\ news' = <<>>
    /\ roster' = Without(roster, self)
    /\ streaming' = FALSE /\ left' = Empty
    /\ UNCHANGED <<connection, client, self>>

\* The next one, registered under a nick nobody in the channel has.
Registers ==
    /\ ~connected /\ connection < Connections
    /\ connected' = TRUE /\ connection' = connection + 1
    /\ \E n \in Nicks \ In(roster) : self' = n /\ me' = n
    /\ UNCHANGED <<joined, members, burst, news, roster, reply>>

----------------------------------------------------------------------------
(* The server.                                                             *)

May(what) == streaming => what \in Amid

\* Those in the channel are told what happens in it.
Tells(line) ==
    IF roster[self].here
       THEN /\ Len(news) < MaxLines
            /\ news' = Append(news, line)
       ELSE UNCHANGED news

\* The reply to NAMES: computed now, its first line sent with `lines`.
BeginsReply(t, lines) ==
    /\ Len(news) < MaxLines
    /\ \E some \in (SUBSET In(t)) \ {{}} :
          /\ news' = news \o lines \o <<[cmd |-> "353", list |-> Part(t, some)]>>
          /\ left' = Part(t, In(t) \ some)
    /\ streaming' = TRUE

\* Our JOIN: the first one in is made an operator, a service may do more.
WeJoin ==
    /\ connected /\ ~streaming /\ ~roster[self].here
    /\ \E p \in SUBSET Modes : roster' = Upsert(roster, self, p)
    /\ BeginsReply(roster', <<[cmd |-> "JOIN", nick |-> self]>>)
    /\ UNCHANGED <<link, client, self>>

\* NAMES asked for by the user.
WeAsk ==
    /\ connected /\ ~streaming /\ roster[self].here
    /\ BeginsReply(roster, <<>>)
    /\ UNCHANGED <<link, client, self, roster>>

Streams ==
    /\ streaming /\ Len(news) < MaxLines
    /\ \/ \E next \in (SUBSET In(left)) \ {{}} :
             /\ news' = Append(news, [cmd |-> "353", list |-> Part(left, next)])
             /\ left' = Part(left, In(left) \ next)
             /\ UNCHANGED streaming
       \/ /\ In(left) = {}
          /\ news' = Append(news, [cmd |-> "366"])
          /\ streaming' = FALSE
          /\ UNCHANGED left
    /\ UNCHANGED <<link, client, self, roster>>

\* A line of the reply to WHO.
Describes ==
    /\ connected /\ ~streaming /\ roster[self].here
    /\ \E n \in In(roster) :
          Tells([cmd |-> "352", nick |-> n, prefixes |-> roster[n].prefixes])
    /\ UNCHANGED <<link, client, far>>

SomebodyJoins ==
    /\ May("JOIN")
    /\ \E n \in Nicks \ (In(roster) \cup {self}) :
          /\ roster' = Upsert(roster, n, {})
          /\ Tells([cmd |-> "JOIN", nick |-> n])
    /\ UNCHANGED <<link, client, self, reply>>

\* Leaving on one's own, being thrown out, or going offline.
SomebodyLeaves ==
    /\ May("LEAVE")
    /\ \E n \in In(roster), how \in {"PART", "KICK", "QUIT"} :
          /\ n = self => how # "QUIT"
          /\ roster' = Without(roster, n)
          /\ Tells([cmd |-> how, nick |-> n])
    /\ UNCHANGED <<link, client, self, reply>>

\* Our own rename is told wherever we are.
SomebodyIsRenamed ==
    /\ May("NICK")
    /\ \E m \in In(roster) \cup (IF connected THEN {self} ELSE {}),
          n \in Nicks \ (In(roster) \cup {self}) :
          /\ roster' = Renamed(roster, m, n)
          /\ self' = IF connected /\ m = self THEN n ELSE self
          /\ IF connected /\ m = self
                THEN /\ Len(news) < MaxLines
                     /\ news' = Append(news, [cmd |-> "NICK", nick |-> m, to |-> n])
                ELSE Tells([cmd |-> "NICK", nick |-> m, to |-> n])
    /\ UNCHANGED <<link, client, reply>>

ModesAmong(lines) == {i \in 1..Len(lines) : lines[i].cmd = "MODE"}

\* Bounded during a reply to what MaxPending leaves room for.
ModeIsSet ==
    /\ May("MODE")
    /\ streaming => Len(pending) + Cardinality(ModesAmong(news)) < MaxPending
    /\ \E n \in In(roster), mode \in Modes, add \in BOOLEAN :
          LET change == [cmd |-> "MODE", nick |-> n, mode |-> mode, add |-> add]
          IN  /\ add = (mode \notin roster[n].prefixes)
              /\ roster' = Altered(roster, change)
              /\ Tells(change)
    /\ UNCHANGED <<link, client, self, reply>>

----------------------------------------------------------------------------
ChannelInit ==
    /\ connected = FALSE /\ connection = 0
    /\ self \in Nicks /\ me = self
    /\ joined = FALSE /\ members = Empty
    /\ namesLoading = FALSE /\ pending = <<>>
    /\ news = <<>>
    /\ roster = Empty /\ streaming = FALSE /\ left = Empty

ChannelNext ==
    \/ ClientHears
    \/ Drops \/ Registers
    \/ WeJoin \/ WeAsk \/ Streams \/ Describes
    \/ SomebodyJoins \/ SomebodyLeaves \/ SomebodyIsRenamed \/ ModeIsSet

ChannelSpec == ChannelInit /\ [][ChannelNext]_channelVars

----------------------------------------------------------------------------
Entries == {Nobody} \cup [here : {TRUE}, prefixes : SUBSET Modes]
Tables == [Nicks -> Entries]
Changes == [cmd : {"MODE"}, nick : Nicks, mode : Modes, add : BOOLEAN]

Lines ==
    [cmd : {"JOIN", "PART", "KICK", "QUIT"}, nick : Nicks]
    \cup [cmd : {"NICK"}, nick : Nicks, to : Nicks]
    \cup Changes
    \cup [cmd : {"353"}, list : Tables]
    \cup [cmd : {"366"}]
    \cup [cmd : {"352"}, nick : Nicks, prefixes : SUBSET Modes]

\* No more mode changes are held back than one reply can be interrupted by,
\* besides the types.
ChannelTypeOK ==
    /\ connected \in BOOLEAN /\ connection \in 0..Connections
    /\ me \in Nicks /\ self \in Nicks
    /\ joined \in BOOLEAN /\ namesLoading \in BOOLEAN /\ streaming \in BOOLEAN
    /\ members \in Tables /\ roster \in Tables /\ left \in Tables
    /\ pending \in Seq(Changes) /\ Len(pending) <= MaxPending
    /\ news \in Seq(Lines)

\* Everything the server had to say has been heard.
Quiet == connected /\ news = <<>> /\ ~streaming

\* A client in the channel then lists exactly who is in it, with exactly
\* their prefixes (reduce.ts 700-921, 1339-1384).
MembersAgree == Quiet /\ roster[self].here => joined /\ members = roster

\* Nobody is listed in a channel the client has left (reduce.ts 773-783).
PartedIsEmpty == Quiet /\ ~joined => members = Empty

\* On the first connection the channel is marked as joined while the client is
\* in it and not longer (types.ts 108-109); a later connection begins with the
\* mark the last one left.
JoinedIsIn == Quiet /\ connection = 1 => joined = roster[self].here

\* A burst that is marked as loading is really arriving, and mode changes
\* are held back only for one (types.ts 115-124).
BurstIsArriving ==
    namesLoading \/ pending # <<>> =>
       streaming \/ \E i \in 1..Len(news) : news[i].cmd = "366"

\* What is noted of the channel beside its members is true of it: joined,
\* loading, and what is held back meanwhile.
MarksHold == ChannelTypeOK /\ PartedIsEmpty /\ JoinedIsIn /\ BurstIsArriving

=============================================================================
