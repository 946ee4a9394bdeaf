------------------------------ MODULE History ------------------------------
(***************************************************************************)
(* What was said in a channel: the buffer of Buffer, the requests for      *)
(* server-side history (packages/client/src/state/history.ts), the batches *)
(* they are answered in (reduce.ts) and the lines the session shows before *)
(* the server has confirmed them.                                          *)
(*                                                                         *)
(* The server logs what is said and tells those who are connected, the     *)
(* speaker included (echo-message). The message it logs at position p is   *)
(* stamped 2p and has a msgid; a line shown ahead of its echo is stamped   *)
(* by an accurate clock of our own, between two positions, and has an id   *)
(* derived from that time and its text. So time and text identify a        *)
(* message, and an even time is the server's.                              *)
(***************************************************************************)
EXTENDS Buffer, FiniteSets

CONSTANTS
    Repeats,        \* we may say the same again before its echo is there
    Retries,        \* a lost connection may be made again without a close
    Refuses,        \* the server may refuse a page
    Earlier,        \* bound on what was said before we came
    Sends,          \* bound on the lines we send
    Connections     \* bound on the connections made

ASSUME HistoryAssumption ==
    /\ {Repeats, Retries, Refuses} \subseteq BOOLEAN
    /\ {Earlier, Sends, Connections} \subseteq Nat

VARIABLES
    connection,             \* connections made
    historyPending,         \* the kind of ChannelState.historyPending
    historyComplete, historyGap,    \* of ChannelState
    batch,                  \* the history batch being received
    toServer, toClient,     \* lines under way
    mishap                  \* a page was refused, or a connection made again without a close

link == <<connected, connection>>
history == <<historyPending, historyComplete, historyGap>>
wire == <<toServer, toClient>>
historyVars == <<link, buffer, history, batch, sent, wire, log, mishap>>

----------------------------------------------------------------------------
\* The place of the first entry the server stamped, or 0.
FromServer(b) == SelectInSeq(b, LAMBDA e : e.at % 2 = 0)

----------------------------------------------------------------------------
(* Requests.                                                               *)

Latest == [cmd |-> "LATEST"]
Before(at) == [cmd |-> "BEFORE", at |-> at]

\* requestBackfill(): the newest page, unless one is being waited for.
Backfill(lines) ==
    /\ historyPending' = IF historyPending = "none" THEN "latest" ELSE historyPending
    /\ toServer' = IF historyPending = "none" THEN lines \o <<Latest>> ELSE lines

OldestRef_SkipsOne(b) == b[FromServer(b)].at - 2

\* oldestRef(): the first entry the server would know.
OldestRef(b) == b[FromServer(b)].at

\* loadOlder(): the page before what is there, when there is any.
LoadsOlder ==
    /\ connected
    /\ historyPending = "none" /\ ~historyComplete
    /\ \/ /\ FromServer(buffer) = 0
          /\ Backfill(toServer)
       \/ /\ FromServer(buffer) # 0
          /\ historyPending' = "older"
          /\ toServer' = Append(toServer, Before(OldestRef(buffer)))
    /\ UNCHANGED <<link, buffer, historyComplete, historyGap, batch, sent, toClient, log, mishap>>

Optimistic_Confirmed(t) == [at |-> 2 * Len(log) + 1, text |-> t, pending |-> FALSE]

\* optimistic(): our line as it is shown before the server has it.
Optimistic(t) == [at |-> 2 * Len(log) + 1, text |-> t, pending |-> TRUE]

\* sendMessage()
Says(t) ==
    /\ connected /\ sent < Sends
    /\ Repeats \/ t \notin {e.text : e \in ToSet(buffer)}
    /\ sent' = sent + 1
    /\ buffer' = Insert(buffer, Optimistic(t))
    /\ toServer' = Append(toServer, [cmd |-> "SAY", text |-> t])
    /\ UNCHANGED <<link, history, batch, toClient, log, mishap>>

----------------------------------------------------------------------------
(* The lines a client reads, one action each.                              *)

NoBatch == [open |-> FALSE, count |-> 0, newest |-> 0, liveOldest |-> 0]

Reads(cmd) ==
    /\ connected
    /\ toClient # <<>> /\ Head(toClient).cmd = cmd
    /\ toClient' = Tail(toClient)
    /\ UNCHANGED <<link, sent, toServer, log, mishap>>

Heard == Head(toClient)

\* PRIVMSG: ours comes back as an echo or out of history. One that belongs
\* to the batch is counted there (recordBatched).
ReadsMessage ==
    /\ Reads("MSG")
    /\ buffer' = IF Heard.text \in Texts THEN Reconcile(buffer, Settled(Heard))
                 ELSE Insert(buffer, Settled(Heard))
    /\ batch' = IF Heard.batched /\ batch.open
                   THEN [batch EXCEPT !.count = @ + 1,
                                      !.newest = IF Heard.at > @ THEN Heard.at ELSE @]
                   ELSE batch
    /\ UNCHANGED history

\* BATCH +: what is held already is noted, for it to be compared with.
OpensBatch ==
    /\ Reads("OPEN")
    /\ batch' = [NoBatch EXCEPT !.open = TRUE,
                                !.liveOldest = IF FromServer(buffer) = 0 THEN 0 ELSE OldestRef(buffer)]
    /\ UNCHANGED <<buffer, history>>

Short_OrFull == batch.count <= Page

\* A page with fewer messages than were asked for.
Short == batch.count < Page

ClosesBatch_OnlyFull ==
    /\ Reads("CLOSE")
    /\ batch' = IF batch.open THEN NoBatch ELSE batch
    /\ historyPending' = IF batch.open /\ ~Short THEN "none" ELSE historyPending
    /\ historyComplete' = (historyComplete \/ (batch.open /\ Short))
    /\ UNCHANGED <<buffer, historyGap>>

\* BATCH -, and completeHistoryBatch(). One nobody asked for says nothing.
ClosesBatch ==
    /\ Reads("CLOSE")
    /\ batch' = IF batch.open THEN NoBatch ELSE batch
    /\ \/ /\ batch.open /\ historyPending # "none"
          /\ historyPending' = "none"
          /\ historyComplete' = (historyComplete \/ Short)
          /\ historyGap' = (/\ ~Short /\ historyPending = "latest"
                            /\ batch.newest # 0 /\ batch.newest < batch.liveOldest)
       \/ /\ ~batch.open \/ historyPending = "none"
          /\ UNCHANGED history
    /\ UNCHANGED buffer

\* FAIL: a notice, and nothing else.
ReadsFail ==
    /\ Reads("FAIL")
    /\ UNCHANGED <<buffer, history, batch>>

----------------------------------------------------------------------------
(* The connection.                                                         *)

\* Registered, and in the channel: onRegistered() asks for the newest page
\* of a channel that was open already, and on the first one it was not.
Registers ==
    /\ ~connected /\ connection < Connections
    /\ connected' = TRUE /\ connection' = connection + 1
    /\ \/ connection = 0 /\ UNCHANGED <<historyPending, toServer>>
       \/ connection > 0 /\ Backfill(<<>>)
    /\ UNCHANGED <<buffer, historyComplete, historyGap, batch, sent, toClient, log, mishap>>

Ends ==
    /\ connected
    /\ connected' = FALSE
    /\ toServer' = <<>> /\ toClient' = <<>>
    /\ UNCHANGED <<connection, buffer, historyComplete, historyGap, sent, log>>

\* Lost and made again: the state handler of the session touches none of it.
Loses == Retries /\ Ends /\ mishap' = TRUE /\ UNCHANGED <<historyPending, batch>>

\* Closed: handleClose(). Whoever called connect() may call it again.
Stops == Ends /\ historyPending' = "none" /\ batch' = NoBatch /\ UNCHANGED mishap

----------------------------------------------------------------------------
(* The server.                                                             *)

Message(l, p, batched) == [cmd |-> "MSG", at |-> 2 * p, text |-> l[p], batched |-> batched]

\* The messages of a page, in a batch.
Answer(page) ==
    <<[cmd |-> "OPEN"]>>
    \o [i \in 1..Len(page) |-> Message(log, page[i], TRUE)]
    \o <<[cmd |-> "CLOSE"]>>

\* Reads a line, logs what it says and answers.
Serves ==
    /\ connected /\ toServer # <<>>
    /\ toServer' = Tail(toServer)
    /\ LET asked == Head(toServer) IN
       \/ /\ asked.cmd = "SAY"
          /\ log' = Append(log, asked.text)
          /\ toClient' = Append(toClient, Message(log', Len(log'), FALSE))
          /\ UNCHANGED mishap
       \/ /\ asked.cmd = "LATEST"
          /\ toClient' = toClient \o Answer(PageBefore(Len(log) + 1))
          /\ UNCHANGED <<log, mishap>>
       \/ /\ asked.cmd = "BEFORE"
          /\ toClient' = toClient \o Answer(PageBefore(asked.at \div 2))
          /\ UNCHANGED <<log, mishap>>
       \/ /\ asked.cmd \in {"LATEST", "BEFORE"} /\ Refuses
          /\ toClient' = Append(toClient, [cmd |-> "FAIL"])
          /\ mishap' = TRUE /\ UNCHANGED log
    /\ UNCHANGED <<link, buffer, history, batch, sent>>

\* Somebody else speaks.
Hears ==
    /\ Len(log) < MaxLog + sent
    /\ log' = Append(log, Other)
    /\ toClient' = IF connected THEN Append(toClient, Message(log', Len(log'), FALSE)) ELSE toClient
    /\ UNCHANGED <<link, buffer, history, batch, sent, toServer, mishap>>

----------------------------------------------------------------------------
HistoryInit ==
    /\ connected = FALSE /\ connection = 0
    /\ buffer = <<>>
    /\ historyPending = "none" /\ historyComplete = FALSE /\ historyGap = FALSE
    /\ batch = NoBatch /\ sent = 0
    /\ toServer = <<>> /\ toClient = <<>> /\ mishap = FALSE
    /\ \E n \in 0..Earlier : log \in [1..n -> {Other} \cup Texts]

HistoryNext ==
    \/ Registers \/ Loses \/ Stops
    \/ LoadsOlder \/ \E t \in Texts : Says(t)
    \/ ReadsMessage \/ OpensBatch \/ ClosesBatch \/ ReadsFail
    \/ Serves \/ Hears

HistorySpec == HistoryInit /\ [][HistoryNext]_historyVars

----------------------------------------------------------------------------
Entries == [at : Nat, text : {Other} \cup Texts, pending : BOOLEAN]

\* No buffer is longer than it may be, besides the types.
HistoryTypeOK ==
    /\ connected \in BOOLEAN /\ connection \in 0..Connections
    /\ buffer \in Seq(Entries) /\ Len(buffer) <= Limit
    /\ historyPending \in {"none", "latest", "older"}
    /\ historyComplete \in BOOLEAN /\ historyGap \in BOOLEAN
    /\ batch \in [open : BOOLEAN, count : Nat, newest : Nat, liveOldest : Nat]
    /\ sent \in 0..Sends /\ mishap \in BOOLEAN /\ log \in Seq({Other} \cup Texts)

\* The positions of the log that are shown.
Shown == {p \in 1..Len(log) : \E e \in ToSet(buffer) : e.at = 2 * p /\ ~e.pending}

Quiet == connected /\ toServer = <<>> /\ toClient = <<>>

\* The buffer is in the order of time, whichever way its messages came
\* (messages.ts 74-76), until an echo takes the place of a line of ours with
\* a later time.
InOrder ==
    sent = 0 => \A i, j \in 1..Len(buffer) : i < j => buffer[i].at <= buffer[j].at

\* What is not shown as pending, the server has logged (types.ts 89-95).
DeliveredIsLogged == \A e \in ToSet(buffer) : e.pending \/ e.at % 2 = 0

\* Every line we sent is confirmed once all is said, and nothing is shown
\* twice (messages.ts 6-7, 132-165). A connection that is lost may take what
\* was sent with it.
Confirmed ==
    Quiet => /\ connection = 1 => \A e \in ToSet(buffer) : ~e.pending
             /\ Cardinality(ToSet(buffer)) = Len(buffer)

\* Between what is shown and the present nothing is missing, or it is said
\* that something is (types.ts 132-138), until a second connection has missed
\* more than a page or the buffer is trimmed out of order.
HolesAreFlagged ==
    Quiet /\ connection = 1 /\ Len(log) <= Limit /\ historyPending = "none" /\ ~historyGap
       => \A p \in Shown : p..Len(log) \subseteq Shown

\* Where history is called complete, the first message is there
\* (types.ts 130-131), unless the buffer has been trimmed.
CompleteReachesStart ==
    Quiet /\ historyComplete /\ connection = 1 /\ Len(log) <= Limit => log = <<>> \/ 1 \in Shown

\* A page that is waited for was asked for and is still to come, when every
\* connection ends with a close and no page is refused (history.ts 35-36).
InFlight ==
    connected /\ ~mishap /\ historyPending # "none" =>
       \/ \E i \in 1..Len(toServer) : toServer[i].cmd \in {"LATEST", "BEFORE"}
       \/ \E i \in 1..Len(toClient) : toClient[i].cmd = "CLOSE"

\* What is shown is what was said, in order and within bounds, without a hole
\* that is not flagged and from the start where that is claimed.
ShownIsWhole ==
    HistoryTypeOK /\ InOrder /\ DeliveredIsLogged /\ HolesAreFlagged /\ CompleteReachesStart

=============================================================================
