# Marmotter in TLA+

Marmotter is an IRC client: a TypeScript protocol library and session
(`packages/protocol`, `packages/client`), a React interface (`packages/ui`), and
Rust crates that own sockets and files in the native shells (`crates/`, `apps/`). This
directory models the parts of it that have to get an order of events right: how a
connection is made, watched, lost and made again; how a session signs on over it; how
the picture it keeps of a channel, a conversation and of who is online stays true; and
what the interface does beside it with files, logs, passwords, transfers and settings.

Everything below names source paths relative to the repository (`src/` here).

1. [Inventory](#1-inventory)
2. [Modules](#2-modules)
3. [Runs](#3-runs), their bounds, fairness and assumptions
4. [Proofs](#4-proofs)
5. [What each property watches](#5-what-each-property-watches)
6. [Where code and docs disagree](#6-where-code-and-docs-disagree)
7. [Not modelled, and the plan](#7-not-modelled-and-the-plan)

## 1. Inventory

Who calls whom, from the wire up:

```
  Rust pump / browser WebSocket          crates/marmotter-transport, platform sockets
        │ lines, one close
  transport/tauri.ts, websocket.ts       one object per attempt
        │ connect, send, onLine, onClose
  transport/reconnecting.ts              one object per session
        │ state changes, one final close              ▲ dropped(), retryNow()
  session.ts ──── keepalive.ts, liveness.ts ──────────┘
        │ lines                          │ optimistic messages, requests, polls
  state/reduce.ts  (caps, members, messages, history, notify, modes)
        │ NetworkState snapshots
  packages/ui/src/app/Marmotter.tsx ─┬─ logging.ts        → SQLite or text files
                                     ├─ transfers         → crates/*/dcc.rs → part-files
                                     ├─ registry, secrets → settings file, keychain
                                     ├─ ChannelPanel.tsx  → MODE, TOPIC
                                     └─ count of networks → Android foreground service
```

JavaScript runs every handler to completion. What can interleave is therefore
handlers, timers, and what follows an `await`; renders and their effects, which come
after what caused them; and, beyond the client, the shell's threads, the platform, the
server and the network.

| Component | State | Operations | What is hard | What makes it correct |
| --- | --- | --- | --- | --- |
| Reconnecting transport (`transport/reconnecting.ts`) | `state`, `active`, `timer`, `attempt`, `endpointIndex`, `stopped`, `connectedAt` | `connect`, `retryNow`, `dropped`, `disconnect`, the retry timer, a close or rejection of the transport underneath | a rejection, a close and a resolution of one attempt in any order; a socket that opens after it was given up | one retry and one socket at a time; stopping is final; the backoff is kept; an outage that ends is recovered from |
| WebSocket and Tauri transports (`transport/websocket.ts`, `transport/tauri.ts`, `marmotter-shell/src/transport.rs`) | one socket each | `connect`, `send`, `disconnect` | a failed connect is told twice (WebSocket); two awaits lie between the socket being open and being listened to (Tauri) | each reports an outcome the wrapper above can rely on |
| Native socket pump (`marmotter-transport/src/connection.rs`, `lines.rs`) | a command queue, a buffer, a registry of handles | a biased `select!` over shutdown, write, read; a line decoder | a shutdown behind a queued QUIT; a write that blocks; a read that ends inside a line | what is given up is released and not heard from again; lines arrive as they were sent |
| Keepalive and liveness (`keepalive.ts`, `liveness.ts`) | `running`, `waiting`, `timer`; the clock last looked at | `start`, `stop`, `noteActivity`, `probeNow`; tick, network and visibility signals | probes, lines, sleeps and timers in any order; a probe that fails while it is sent | a silent connection is dropped in bounded time, an answering one never |
| Registration (`session.ts`, `state/reduce.ts`, `protocol/caps.ts`, `protocol/sasl.ts`) | `phase`, `caps`, `nick`, `triedNicks`, `mechanism` | `register`, `beginSasl`, `handleAuthenticate`, `failAuth`, and the lines of the server | the keychain and WebCrypto are awaited; capabilities come and go; connections change underneath | signing on ends; both ends agree on nick and capabilities; `registered` means welcomed |
| Channel membership (`state/reduce.ts`, `state/members.ts`, `protocol/modes.ts`) | `joined`, `members`, `namesLoading`, `pendingPrefixChanges` | JOIN, PART, KICK, QUIT, NICK, MODE, NAMES, WHO | a NAMES reply is computed once and streamed among later news | the list is the server's |
| Message buffer and history (`state/messages.ts`, `state/history.ts`, `state/reduce.ts`) | `messages`, `historyPending`, `historyComplete`, `historyGap`, batches | insertion, echo reconciliation, backfill, paging | one line may come as an echo, in a page, in both, or never | no duplicates, no hidden holes, and no page waited for that will not come |
| Notify list (`state/notify.ts`, `session.ts`) | `notify`, the poll timer; the server's own list | add, remove, clear, resync on registration, poll | the server's list goes with the connection; a report crosses a removal | both lists agree; who is listed becomes known; one timer |
| Conversation logging (`ui/app/logging.ts`, `client/logging`, `platform-tauri/logging`, `logstore.rs`) | a cursor by message id, a queue, a flush under way, the store | collect, flush, purge | an awaited write beside a buffer whose ids change | a line is written once, in order, and stays until it is too old |
| File transfers (`Marmotter.tsx`, `view-store.ts`, `platform-tauri/dcc.ts`, both `dcc.rs`) | rows, cancel handles, queues, watchdogs, part-files | request, offer, accept, resume, stop, clear, retry | threads, answers that come late, a row that is used again | what runs is shown and can be stopped; what waits ends; what is saved is the sender's |
| Network registry, stored settings and secrets (`client/store.ts`, `Marmotter.tsx`, `shared/stored-networks.ts`, `platform-tauri`, `prefs.rs`, `secrets.rs`) | profiles, sessions, the settings file, the keychain, passwords of this run | add, edit, remove, import, export, connect, save | a file written whole; a keychain that fails; quitting between two steps | nothing configured is lost, the right password is sent, what is removed is forgotten |
| Android foreground service (`apps/android`) | a count, a service, a notification, a permission | report, start, tell, stop | a start that is refused in the back, a process frozen or reclaimed | a connection held stays held; the notice is true |
| Channel settings panel (`ChannelPanel.tsx`, `channel-settings.ts`, `protocol/modes.ts`) | a form, a topic, the tables | edit, save, add to and remove from a list | a form is a copy, others change the channel, the selection moves | saving sends what was changed and has effect |
| Interface (the rest of `packages/ui`) | unread marks, notifications, dialogs; rendering | | mostly derived from the above | see section 7 |
| Mute list, message parsing and serialising, services (`packages/protocol`, `client/state/ignore.ts`) | pure functions | | nothing interleaves | unit tests; not modelled |
| Application shells (`apps/*`) | plug-in registration | | | not modelled, the Android service apart |

`PROJECT.json` lists each of these under `components` with its status, and under
`hazards` every place found where the order of events matters, with the
properties that watch it and, in a note, where they stop watching.

## 2. Modules

| Module | Models | Composed with |
| --- | --- | --- |
| `Connector` | What a reconnecting transport promises the session: idle, connecting, connected, waiting, stopped, and a count of announced closes | abstract specification of `Reconnecting`; `INSTANCE`d by `Keepalive` and `Registration` |
| `Reconnecting` (`_proofs`) | `transport/reconnecting.ts` over any number of transports of three flavours | implements `Connector` (`IsConnector`) |
| `Keepalive` | `keepalive.ts`, `liveness.ts` and the wiring in `session.ts` | over `Connector` |
| `Registration` (`_proofs`) | `register()` to 376, with an IRC server and two queues of lines | over `Connector` |
| `Channel`, `MCChannel` | one channel's member list against a server's; the latter adds the symmetry for TLC | |
| `Buffer` | the messages of one conversation: insertion by binary search, merging, trimming; and the log of the server, in pages | extended by `History` and `Logging` |
| `History` | one channel's buffer, its pages and our own lines, against a server's log | over `Buffer` |
| `Journal` | What comes of a log: lines kept once and in order, the oldest dropped by retention | abstract specification of `Logging` |
| `Logging` (`_proofs`) | collecting from a buffer, flushing, two stores, purges | over `Buffer`; implements `Journal` (`IsJournal`) |
| `Conversation_proofs` | the proofs about `Buffer` and `History` | extends `History`; extended by `Logging_proofs` |
| `Native` | the native registry, the pump of each connection, the decoder, the event forwarder | extended by `Friends` |
| `Friends` | the notify list over MONITOR, WATCH or polling, against a server, over `Native` | |
| `Download` | what the native side of a transfer does to the disk | extended by `Transfers` |
| `Transfers` (`_proofs`) | the file monitor and a serving bot, over `Download` | |
| `Profiles` (`_proofs`) | profiles, sessions, the settings file, the keychain, over launches | |
| `Presence` | the Android service that keeps connections while the screen is elsewhere | |
| `Staying_proofs` | the proofs about `Keepalive` and `Presence` | extends both |
| `Modes` | mode lines of letters and parameters, and the difference of two forms | extended by `Panel` |
| `Panel` | the channel settings panel over two channels, a client and a server | over `Modes` |
| `Channel_proofs` | the proofs about `Channel` and `Panel` | extends both |

Definitions whose names end in `_Something` (`CancelTimer_Forgets`) are not part
of a specification. Each is a plausible bug in the definition it is named after,
put in its place to show that a property would notice. Variables that the code does
not have, and that only remember what a property speaks of, are introduced as such below.

### Reconnecting

The wrapper's variables keep their names. `kind` is `state.kind`; `held` says that
`timer` still names the newest of the `armed` retry timers, because
`scheduleRetry` overwrites the name of a timer it did not cancel. `link` gives each
transport's socket and pending connect, `heard` the transports whose listeners are
still attached. A transport that is dead and that nobody refers to stands for the
fresh one `createTransport()` returns.

Actions: `Connect`, `ConnectWithoutServers`, `RetryNow`, `Dropped`, `Disconnect`
are the exported functions; `RetryFires` is the timer; `DialFails`, `DialOpens`,
`Listened`, `ClosesInWindow`, `Closes`, `ClosingRejected` are what the transport
underneath reports. `attemptConnect` is cut at its `await`: `AttemptConnect` before
it, `Resolved` and `Rejected` after. Where one transport event both emits a close
and rejects the connect, the close's handler runs first and the `catch` next,
before anything else: `microtask` holds the second, and no other action runs
meanwhile.

`opts.flavour` is how the transport underneath reports: `"plain"` keeps the
`Transport` contract, `"tauri"` may close between opening and being listened to,
`"websocket"` emits a close and then rejects. All else is equal. What is promised only
over a transport that keeps its contract says so (`KeepsContract`, `ClaimedKind`).

### Keepalive

Discrete time. Timers are exact: time does not pass one that is due. A suspended
machine (`Sleeps`) moves the wall clock and no timer. `strays` are timers that were
armed and are no longer the one `timer` names: the point of several functions is
that there are none. `Ask` of a socket that throws declares the connection dead
from inside, and `Suspect` (the session's `onSuspicion`) then cuts the wait for the
next attempt short in the same handler: `Redials`.

### Registration

Two queues of lines, cleared when the connection goes. `awaits` holds the
continuations of `await`s with the connection they were started on: the password,
the SASL credentials, a SCRAM response. A continuation writes to whichever
connection is in hand by then, as the code does, and writes nothing if there is
none (`Write`). `mechanism` is the number of the connection whose `beginSasl` built
it; comparing it is what `handleAuthenticate` does after its `await`. Nicks are
numbers in the order `nextNick` tries them, the last `Room` of them underscores;
`Longest` is the length limit. One action per line of the server that
the reducer handles, each with `SaslAfter`, the tail of `handleLine`.

The server is RFC 2812 with CAP 302, SASL and cap-notify: it holds registration
from CAP LS to CAP END, grants a request as a whole or not at all, judges
responses as it likes, may cut a nick, may dismiss the client.

### Channel

The server's roster and the client's `members` are tables of the same kind. The
server appends what happens to the queue of a client that is in the channel; its
NAMES reply is taken when the first line of it is sent, and later lines
come from what was left of it then (`left`). The constant `Amid` says which kinds
of news may fall between the lines of one reply.

### Buffer, History

A message is its place in the server's log, as an even time; a line shown before
its echo has an odd time in between. Time and text together stand for the id, as
`messages.ts` derives it where no msgid is there. `Insert` is `insertMessage` with its
binary search, its merge (`Settled`) and its trimming; `Reconcile` is `reconcileEcho`.
The server answers a request with the page before a place of its log (`PageBefore`), as a
batch (`Answer`).
`ReadsMessage`, `OpensBatch`, `ClosesBatch` are the reducer's, with
`completeHistoryBatch` inside the last. `Loses` retries a connection without a close,
`Stops` closes it; `mishap` remembers that a page was refused or a drop retried.

### Logging, Journal

`Collect` is `collectNewRecords` in the effect that runs after a render: at most `Burst`
changes of the buffer after the one it was due for (`stale`). `written` is the cursor, the
id seen last; `Start` is where collecting goes on from, the whole buffer if the cursor is
gone. `Flush` empties `pending` into `writing` under `flushing`; `Appends` and
`AppendFails` are the two ends of the awaited `append`, the second putting the batch back.
SQLite takes a batch as one transaction and ignores what it has (`Stored`); a text file
takes it line by line, so that a failure may leave part of it. `PurgesAtOnce` is SQLite's
purge; `PurgeReads` and `PurgeWrites` are the two halves of a text file's. `Unmounts` is the
effect's cleanup with its last flush.

`due`, `unwanted`, `lost` and `cutoff` remember which lines the log ought to have, which it
ought not, that the cursor was lost, and how far retention has gone. `TakenDown` is what is
on disk or on its way there; under `journal <- TakenDown` every step is one of `Journal` or
none.

### Native, Friends

A connection of `Native` is a record: its pump (`running`, `writing` in `write_all`, or
`ended`), the registry's `handle`, a `shutdown` that was sent, the queue `outgoing`, lines
the server has not read (`inbox`), the `stream` it has sent, as tokens of which CR and LF
are two, the decoder's `buffer`, and `events` on their way to the webview. `Pump` takes the
first that applies of shutting down, writing and reading, as `biased;` has it; `Waits` is a
`write_all` for which the peer has no window. `Push` is the decoder for a read that may end
after any token. The commands of the webview are taken in order (`calls`).

`Friends` dials with `Dials`, `Opens`, `FailsToOpen`, and handles the events of the
connection in hand; those of others are filtered by their id (`Hears`). `Adds`, `Removes`,
`Resync`, `StartPolling`, `Polls` are the notify list's. `support` is what
`notifyMechanism()` says, `mechanism` what the server has, `watched` its list for each
connection. `crossed` remembers the nicks a report of which crossed their removal, and all of them
once that has made the list longer than the server's may be.

### Download, Transfers

A file is `Size` pieces. Of a part-file its length is kept and whether each piece of it is
where it belongs. An attempt goes from `Launched` over `Opens` (the target is planned),
`Listening` when it is passive, `Connects` and `Receives` to `Finishes`, `Fails` or `Stops`,
and then the promise of `platform-tauri/dcc.ts` settles. While it writes an acknowledgement to a
sender that does not read it is `"acking"`: neither its timeout nor a cancel is looked at
(`Blocked`) until the sender reads or goes (`Acknowledged`).

In `Transfers` the rows are `dccOffers`; `handle` is the map `transfers`, `queue` is
`pendingXdcc`, and `watchdogs`, `cancelled`, `resumes` keep their names, shortened. `asking` holds
the questions to the shell `beginTransfer` awaits (`resumableBytes`), each with its
deadline. The row of an offer that could not be read (`ReadsUnreadable`) counts as failed, with no
address to fetch from until an offer of that name brings one (`address`). A name has one such row or one of a
readable offer: of two rows of a name, the later is never the one an offer is matched with. User: `Requests`, `Downloads`, `Types` (a request typed by hand), `Cancels`,
`Dismisses`, `Clears`, `RemovesNetwork`. The bot queues (`queued`), opens a transfer
(`holds`), offers, offers again, agrees to a resume and gives up. `Resolves` and `Rejects` are
`trackTransfer`'s two ends. Six variables only remember: `invited` (what the user asked for),
`misread` (the rows of unreadable offers, until they are let go of),
`crossed` (rows for which two things crossed each other), `spoiled` (names saved that are not
the sender's file), `mixed` (names for which two transfers or answers were mixed up, or a transfer went on
behind the end of what there was of the file),
`agreed` (where the bot goes on from).

### Profiles

`calls` are the shell's commands in the order they were invoked; `Shell` takes the first,
which may fail. `Finish` is the end of loading; `Persist` writes the whole of what is held.
`KeepSecrets` puts what was typed into the keychain and the memory of this run, `Resolves` is
`resolveSecret`, keychain first. `Quits` ends the application between any two steps and starts
it again: what was invoked and not taken goes, files and keychain stay. `typed`, `used`,
`asked`, `removed`, `freed`, `lost`, `apart` and `doubtful` only remember.

### Presence

`Counted` is the number of registered networks; `Reports` is the effect that runs when it
changes, with `askedToNotify`; `calls` are counts on their way over the bridge; `Hold` is the
plugin, `Starts`, `OnStartCommand`, `Stops` the service. The platform: `Leaves`, `ComesBack`,
`Freezes` (a process in the back without a service), `ServiceStopped`, `Reclaimed`, `Launches`,
and the user's answer to the permission, `Answers`. `held` remembers that the service was
in the foreground with nothing under way, and that some network has been registered since.

### Modes, Panel

`Modes` has one mode of each kind: `o` (prefix), `b` (list), `k` (parameter), `l` (parameter
when set) and `m` (flag). `Command` and `ParseChannelModes` are the two directions between changes
and a line of letters and parameters, `ApplyChannelModes` what a channel becomes,
`DiffChannelModes` what a form changes.

The shell mounts one panel (`panel`, with its `form`, its `topic`, its tab and whether it
has `requested` a table) for whatever channel is selected. `Show` is a render with what follows
from it: the refill when the modes are not those it was filled from, and the effect that asks for
a table. `Edits`, `Saves`,
`Asks` are the user's in the panel, `Selects`, `Opens`, `Closes`, `PicksTab` around it.
The server takes mode changes with effect, relays them to us and to others. `touched`, `stale`,
`wanted`, `told` and `answered` only remember.

## 3. Runs

`tlc -config <cfg> <module>`, for each entry of `runs`. TLC explores every state of
these instances.

| Run | Module | Distinct states | What it asks |
| --- | --- | --- | --- |
| `reconnecting` | `Reconnecting` | 93 198 | over all three flavours of transport, no server, one and three, with and without attempt limits: every property of the wrapper, the refinement of `Connector` included |
| `keepalive` | `Keepalive` | 2 632 | all of its properties |
| `registration` | `Registration` | 118 605 | one connection, a password that is read late, missing, or there; two capability changes; up to three nicks taken: signing on ends, in order, and both ends agree |
| `registration_sasl` | `Registration` | 30 752 | two connections, SCRAM, a capability change, a nick taken: the exchange is kept whole, and giving it up lets registration through |
| `channel` | `MCChannel` | 468 074 | three people, one prefix mode, two connections, arrivals and mode changes in the middle of NAMES |
| `history` | `History` | 2 601 701 | two connections, retried or closed, two lines of ours, refused pages, a buffer that is trimmed |
| `logging` | `Logging` | 340 737 | both stores; renders, echoes, pages, failed appends, purges and a policy that is switched |
| `transfers` | `Transfers` | 191 090 | one pack of a file of two pieces, two transfers at a time, unreadable offers and senders that do not read, every order of what the user and the bot do |
| `profiles` | `Profiles` | 673 028 | two networks, two references, two passwords, launches, failing commands |
| `wire` | `Friends` | 332 923 | two connections of the native pump under the notify list, by MONITOR, WATCH and polling |
| `presence` | `Presence` | 28 840 | two networks, and a user and a platform that interfere three times |
| `panel` | `Panel` | 758 500 | two channels, six steps of the user, one change by others |

Some properties are conjunctions of named parts that belong together; section 5 says
which.

### Bounds and why they are enough

- `Reconnecting`: two transports. The wrapper holds one; a second one is what may be
  left over from an earlier attempt. `AttemptCap` saturates the attempt count (its
  use in the code, past the limit, is the length of a delay, which is not modelled),
  `TimerCap` the count of armed timers: at the cap a firing may leave as many.
  Three servers tell a skipped one from a repeated one.
- `Keepalive`: the times keep the order the defaults have
  (`Answer < Timeout < Idle`, `TickEvery < Jump`); the theorems drop all of it but
  `Answer < Timeout` and `TickEvery < Jump`.
- `Registration`: two capabilities, `sasl` and one that is not. `MaxTaken` nicks
  taken are enough to pass through an alternative to underscores. `ChangesNick` sends one
  request at a time. `Connections` and `Changes` bound what recurs without memory
  other than what the variables show.
- `Channel`: three nicks are us, another, and one to rename to. `MaxLines` lines under way
  keep the server at most that far ahead. Nicks are symmetric: no definition names
  one.
- `History`: a page of two has a short, a full and an empty form. A log of `MaxLog` and
  two lines of ours overfill a buffer of `Limit = 4`, which is then trimmed. Two
  connections are enough for what one leaves behind to meet the next.
- `Logging`: `Limit = 3` and `Burst = 2` let a render find two changes at once and a cursor
  that was trimmed away. `Mishaps` bounds together what goes wrong: a second
  connection, a line of ours, a failed append, a switch; two of them are enough for one to
  meet another.
- `Transfers`: a file of two pieces can be fetched not at all, in part, and whole; two
  attempts are the old and the new transfer of one row. With three pieces a transfer can
  also go on behind the end of a part-file; the proof covers it. `Acts` bounds what the
  user and the bot do unprompted. A transfer that is blocked keeps its attempt: with both
  blocked nothing else starts.
- `Profiles`: two networks can share or exchange a reference, two passwords tell the last
  typed from the one before. `Acts` bounds the user's steps, launches included.
- `Friends`: one nick is on a list or crossed by a report; two
  connections are the one given up and the one in hand. With `Nicks = {x, y}` and `Acts = 4` the
  second nick finds no room on the server's list; `ListsAgree` holds there as well (4 090 679
  states), which is beyond what is checked each time. `MaxLine = 2` is passed by a line of three
  tokens. `Window = 1` blocks a second write.
- `Presence`: `MaxChanges` and `MaxMoves` bound what the networks, and what the user and the
  platform, do; six changes take two networks up, down and up again.
- `Panel`: two channels, one with a past. `ModesPerCommand = 2` cuts the three changes of a
  replaced key and another mode in two lines.

`CHECK_DEADLOCK FALSE` stands where the system may stop: a wrapper that was stopped, a
session whose connections are used up, a log that is full, a user who has done all there is.

### Fairness

- `Reconnecting!Fairness`: a timer that is armed fires and a microtask runs
  (the runtime); a connect ends one way or the other (`timeoutMs` of the transports);
  `listen` returns; a WebSocket closed while it opened reports so; a server gives up
  on a client that no longer answers its PING because nobody listens; and a
  connection that is silent is reported by `dropped()`, which is what `Keepalive`
  guarantees (`NeverSilentForLong`) and `session.ts` wires.
- `Registration!Fairness`: lines arrive and are read, the server welcomes a client
  that has done its part, the keychain and WebCrypto answer. Nothing is assumed of
  the network: the properties speak of a connection that stays.
- `Logging!Fairness`: effects run after a render, the interval of `useMessageLogging` fires, an
  append and a purge come to an end, well or not.
- `Transfers!Fairness`: timers and deadlines fire, what was sent is read, a dial, a read and a
  wait for a connection each have a timeout in `dcc.rs`, a settled promise is heard of. The write
  of an acknowledgement has none, and stands outside the select that looks at a cancel
  (`dcc.rs:559-562`): that a sender reads is not assumed (`Unblocks` has no fairness), and
  `Settles` promises nothing of a row whose transfer waits there. Nothing is assumed of
  the user, and nothing of the bot but that its offer under way arrives.
- `Profiles`: the shell takes the commands it was given, and the settings' timer fires.
- `Friends!Fairness`: the runtime goes on with one task or another, and the server with
  reading (`Runs`). It may read slowly or be cut; that it may refuse to read for ever is the
  one thing `pump` has no bound for (section 6).
- `Presence`: a process that runs gets its renders, its bridge and its main thread (`App`).
  A frozen process gets nothing.
- `Keepalive`, `Channel`, `History` and `Panel` have safety properties only. `Keepalive`'s
  are bounds on time, which say more than that something happens eventually.

### What is assumed throughout

- Handlers run to completion, and continuations of promises that are settled run
  before the next event.
- `connect()` of a wrapper is called once: the interface builds a session and a
  transport for every reconnect it asks for (`packages/ui/src/app/Marmotter.tsx`).
- `Registration`: with `SlowAwaits = FALSE`, a connection is not lost while a
  continuation is outstanding. `AgreesOnCaps` over several connections would need
  `SteadyOffer`.
- `Keepalive`: a line arrives on a connection that is up. Over Tauri the first may come a little
  before the connect resolves (`session.ts:793-798`): the watch then starts with that line.
- `Channel`: `multi-prefix` is negotiated, so a NAMES line shows every prefix;
  a network without it loses some, by design of the protocol.
- `History`, `Logging`: the local clock agrees with the server's, `msgid` and `server-time`
  are there, batch references are not used twice, and `echo-message` is enabled.
- `Logging`: one conversation, and pages line by line rather than in batches, which
  `History` has; with `PurgeOverlaps = FALSE` a purge of a text file meets no append.
- `Transfers`: a download folder is set; names are compared exactly; one bot.
- `Profiles`: a render follows a change at once, so that no callback holds a stale closure.
- `Presence`: reports reach the plugin in the order they were made.
- `Panel`: we are an operator of both channels, and nobody joins or leaves.

## 4. Proofs

`tlapm <module>_proofs.tla`. Each theorem holds for every value of the constants the
named assumptions allow.

| Module | Theorem | Property |
| --- | --- | --- |
| `Reconnecting_proofs` | `TypeCorrect` | `TypeOK` |
| | `BackoffIsKept` | `BackoffKept` |
| | `StopIsFinal` | `StoppedForGood` |
| | `NothingIsLoose` | `NothingLoose` |
| | `ImplementsConnector` | `IsConnector` |
| `Staying_proofs` | `WatchAlwaysHolds` | `WatchHolds` |
| | `WakingBounded` | `FoundOutOnWaking` |
| | `AnsweringKept` | `AnsweringServerKept` |
| | `NoticeAlwaysTrue` | `NoticeTrue` |
| | `AlwaysHeld` | `StaysHeld` |
| `Registration_proofs` | `TypeCorrect` | `TypeOK` |
| | `RegisteredMeansWelcomed` | `RegisteredIsWelcomed` |
| | `ExchangeIsKept` (`OneAtATime`) | `ExchangeKept` |
| | `NickAgreed` (`OneAtATime`) | `AgreesOnNick`, a part of `Agrees` |
| | `EndsAgree` (`Connections <= 1`) | `Agrees` |
| | `AskedInOrder` (`OneAtATime`, `MaxTaken <= Longest`) | `AsksInOrder` |
| `Profiles_proofs` | `FileAlwaysHeld` | `FileIsHeld` |
| | `SessionsAlwaysAsked` | `SessionsAsAsked` |
| | `SecretsAlwaysServe` | `SecretsServe` |
| | `NetworksStay`, `NeededAreKept` | `NothingLost`, `ForgetsOnlyUnneeded`, parts of `NothingNeededGoes` |
| `Transfers_proofs` | `RowsAlwaysTell` | `RowsTell` |
| | `AlwaysAsAsked` | `FetchesAsAsked` |
| | `FailureFrees` | `FailureFreesSlot`, a part of `EndsWell` |
| `Conversation_proofs` | `HistoryIsWhole` (`~Repeats`) | `ShownIsWhole` |
| | `LinesAreConfirmed` (`~Repeats`) | `Confirmed` |
| | `PageIsInFlight` | `InFlight` |
| `Logging_proofs` | `LoggedOnlyWanted` | `OnlyWanted` |
| | `ImplementsJournal` (`~PurgeOverlaps`) | `IsJournal` |
| | `DueIsWritten` (`~PurgeOverlaps`) | `DueIsTakenDown` |
| `Channel_proofs` | `SavesOnlyTouched` | `PendingIsTouched` |
| | `AlwaysAgrees` | `AgreesWithServer` |
| | `MembersAlwaysAgree` (`Orderly`) | `MembersAgree` |
| | `MarksAlwaysHold` (`Orderly`) | `MarksHold` |

`Reconnecting_proofs`. `TypeInv` is `TypeOK` and `HeldIsArmed`: without the latter,
`cancelTimer` could take one from none. It is inductive for all three flavours
(`TypeCorrect`), and gives `BackoffIsKept`. `StopIsFinal` adds `StoppedInv`, that a stopped wrapper says
`"stopped"`. For the rest, `OneRetryPending` is not inductive: from a
state in which a forgotten transport is still heard, its close would arm a second
timer while connected. `OrderlyInv` excludes that state: everything but the transport
in use is free, the one in use is the one heard, and timer, `held` and `kind` agree.
It is inductive where the transport is `"plain"`, and gives
`OneRetryPending`, `NoStraySocket`, `ConnectedCarries` and, as each step is a step of
`Connector` or none, `ImplementsConnector`. Over the other two flavours the claims are
of the contract only, and hold for want of one.

`Staying_proofs`, of the keepalive. A bound on what has passed becomes inductive by adding what is
still to pass: silence and the time left on the timer stay within the windows
(`SilenceAhead`), an answer owed is due before the timeout is (`AnswerAhead`), and
after a sleep either a question is out or the tick is about to ask one
(`WakingAhead`). `WatchAlwaysHolds`, `WakingBounded` and
`AnsweringKept` follow, from `TimesAssumption` alone.

`Registration_proofs`. `RegisteredIsWelcomed` is not inductive: nothing in it
speaks of the queues. The strengthening is `WelcomeSaid`, that a 001 or a 376 under
way was sent by the server in hand, which has therefore welcomed us; it survives
because losing a connection empties the queues. The theorems allow
`SlowAwaits`: late continuations write, but they read no welcome.

The rest of `Registration_proofs` is about what the two queues hold between them, and is
proved where an await answers before its connection is lost or there is no other one
(`OneAtATime`, which both configurations meet). `Exchange` has one move of an exchange at
most under way, in either queue or among the awaits, and says what server and client may be
in while it is; `Naming` the same of a nick to be settled (`ExchangeIsKept`, `NickAgreed`).
`Following` says of each capability that the last word about it under way is what
the server has. `Counting` counts the nicks refused against those tried. The hypotheses are
what the code needs and not what the provers need; section 6 has the behaviour in which each
property is false without its hypothesis: without `OneAtATime` an exchange is not kept,
with a second connection capabilities do not agree, and with more nicks refused than
the length has room for (`MaxTaken > Longest`) one of them is tried again.

`Channel_proofs`, of the member list. `MembersAgree` compares the two lists when nothing is under way, which says
nothing of a state with lines in the queue. The invariant says what those lines will make
of the list: there is a path of tables, one for each line under way, that begins with
the client's and follows from line to line as the reducer has it (`Path`, `Leads`). A step of the server adds a line and a table, a step of the
client drops the first of each. What the path has to end in is `Learns`: the roster, or, amid
a reply, a table on which what is left of the reply and what is `pending`, made again
(`Replayed`, a fold, unrolled by an induction of the module's own), give the roster. `Apart` has
nothing under way where there is no server. `Orderly` has `Amid` within arrivals and mode changes, as the
run has; with departures, renames or a drop `MembersAgree` is false (section 6).

`Profiles_proofs` assumes nothing but `ProfilesAssumption`. What is held, on disk and
in the keychain, agrees only through the commands that are still to be taken, and the
invariant is about those. `Stored`: the last write under way is of what is held, or, where
there is none, the file is. `Lasts`: no write that lacks a network comes after one that has
it, unless it was removed or lost. `Owned`: each reference belongs to one network, by
a function that is part of the invariant, so that forgetting one network's touches no
other's. `Secrets`: the last command of a reference, or the keychain, has what was typed
last, and what a read will answer is decided by what stands before it. `Sess` has the session
of each network of its profile. `ForgetsOnlyUnneeded` compares two sequences of
commands, and comes of a lemma for each of the folds that append one. The attempt changed the
model: with five steps of the user, one more than the run has, a document is imported before
the file has been read, which then replaces what was imported. The properties now excuse it
as they do an edit made at that time.

`Transfers_proofs` assumes `TransfersAssumption` and `DownloadAssumption`. `RowsTell` says that
what runs is shown and can be stopped, and nothing of what else may run for the row.
The invariant has, for a row that nothing has crossed for, one thing under way at most: a place
in the queue, a question to the shell, a negotiation or a transfer, whose handle is then the
one held (`Uncrossed`, a conjunction of `Single`, `Seen` and `Wanted` for each such
row). A transfer given up is marked cancelled until it settles, and a row it leaves behind is not shown
as downloading; what may be started again without the user has been asked for, or is the row of an
unreadable offer (`Granted`). For a name nothing
was mixed up for, what there is of the part-file is in its place and as long as the
transfer that writes to it has got (`Unmixed`). `Unqueued` is a fold,
unrolled as in `Channel_proofs`. The attempt changed the model: in a file of
three pieces a transfer can go on behind the end of a part-file which another of the same name has begun anew,
and the gap is padded with zeros (section 6). `mixed` now has that name.

`Staying_proofs`, of the service. A notice that was right when it was posted need not stay so; what
makes it right in the end is what is under way. `NewestIsReported` says that the newest
of the counts on their way to the plugin, or to the service, or on the notice, is what
was reported last; `NothingStops` that while a connection is held no zero is under way,
which would stop the service. Both are inductive for any set of networks, and whatever
`MaxChanges` and `MaxMoves` are.

`Conversation_proofs` begins with what the operators on a buffer do, for a buffer of any length.
`Place` is a recursive function on a range that gets smaller: that there is such a function
(`Halvable`) and what it finds (`PlaceIs`) are shown by an induction over a set of numbers, as in
`Channel_proofs`. `Insert` and `Reconcile` are then one of three things: the buffer as it was, one
with an entry in the place of another, one with an entry more and its oldest dropped (`InsertIs`,
`ReconcileIs`); `ReadInto` and `SayInto` say what each does to the order, to what is pending
and to the positions of the log that are shown.

Neither `HolesAreFlagged` nor `CompleteReachesStart` is inductive: they speak of a state
with nothing under way. `HistoryInv` says of the lines under way that a message told is the log's
and a page is asked for by a message of it (`WireInv`), that a line not confirmed is on its way there or
back and no other entry has its words (`OursInv`), that every end of a batch has its beginning in front of it,
read or to be read, and as many messages between as were asked for, or fewer where they go back to
the start (`Bracketed`), and, on the first connection, that the positions shown or told have no
hole and a page is asked for before one of them (`Whole`). That holds as long as nothing is
trimmed, and nothing is while log and lines on their way to it are no more than `Limit`: each entry stands
for one of those, and no two for the same (`Fits`, `HasRoom`). `~Repeats` is what the code needs:
two equal lines under way are told apart neither by `reconcileEcho` nor, in one second, by their
ids (section 6); `PageIsInFlight` does without. `Place` took a pair of arguments for this, as the prover
does not read a function of two.

`Logging_proofs` stands on the lemmas about `Buffer` of `Conversation_proofs`. What is written down
is what stands behind the cursor, and that this is nothing that was seen before takes
`LoggingInv`: the buffer is in order although an echo keeps the place of the line it confirms
(`Ordered`, in `TalkInv`), the buffer says, entry for entry, how what has been seen lies around the cursor
(`CursorInv`), and nothing seen is later than what was read (`SeenInv`). `OnceInv`
has of each line where it may be a second time, `OutInv` that what is to stay out is neither in the file, nor in a purge,
a batch or the queue. For the refinement the journal is what is met first of each line in
file, batch and queue, one behind the other. An append that fails after part of a batch leaves lines twice, in the file and in
the queue, and that this makes no difference is a matter of what `Distinct` makes of
sequences put together (`DistinctSame`, `DistinctAgain`), and of what dropping the oldest does to it
(`DropsInOrder`). `~PurgeOverlaps` is what the code needs: a purge of a text file writes back
what it read before an append (section 6). `DueIsTakenDown` is about the lines that are due and not
taken down yet. `DueInv` has them behind the cursor, on the side where the next rendering looks: with no line
of our own nothing in the buffer is out of the order of time, and of what is newer than the cursor
there are no more than `stale`, fewer than `Limit`, so that none is trimmed before
it was collected.

`Channel_proofs`, of the settings panel. `PendingIsTouched` is about the difference between a form and what is known,
computed when it is looked at. `FormInv` says of each field what the difference is
computed from: what the user has not touched still has the value known of the selected
channel, the topic unless it has changed since. Each step either keeps the form and what it
follows, or refills it. The lemma `DiffNames` carries it to the property: a difference names
only modes in which form and state differ. The fold over the modes inside
`DiffChannelModes` is over three letters, so that it is unrolled and not reasoned about by
induction. Nothing is assumed of the channels or of `MODES`.

`AgreesWithServer` looks at a channel when no line about it is under way, and like
`MembersAgree` it says nothing of the states between. `AgreesInv` has the types, with
a mode set exactly where it has a value (`Kept`), and three statements about what lines under way lead
to (`Comes`, a path as in `Channel_proofs`). `SeenInv`: the server's lines bring what is known
to what is held; until the modes were asked for, to a part of it (`Partial`).
`SavedInv`: our lines bring what is held to what was saved. `ListInv`, until the panel is mounted again:
the ban list has not been asked for, or one question is under way, or it was answered and the lines
lead to that answer. Behind them is what the operators on modes do to each other:
a line parses back to the changes it was made of, each letter finding its own parameter
(`ParsesBack`); the changes a form is made into take effect one by one and lead to the form
(`DiffServes`); they do so in however many commands they are cut into (`LinesServe`); and what the server
tells of the changes that took effect makes of the client's modes what they made of the server's
(`ServedIs`). `parseChannelModes`, `applyChannelModes`, `serializeModeChanges` and the
server are folds over sequences of any length. A fold of the community modules is a recursive
function over sets of indices: that it has a solution (`Unfoldable`), and goes one element after
another (`UnfoldsComes`), is shown by an induction over a set of numbers (`UpTo`), without the
library's induction theorems. `Command` became a fold for this, and `Made` got
its `Switched`.

Not provable with the means here, and left to TLC: every liveness property
(`Recovers`, `EveryServerTried`, `Registers`, `RegistersUnauthenticated`, `Written`,
`Settles`, `BecomesKnown`, `HeldInFront`, `SettingsSaved`, and the eventual part of `LetGo`).
Only model-checked so far, though a proof is within reach: the safety of `Friends`.

## 5. What each property watches

| Property | Parts | What would break it |
| --- | --- | --- |
| `NothingLoose` | `OneRetryPending`, `NoStraySocket`, `ConnectedCarries` (over a contract that is kept) | a close or a rejection that reaches code which decides on a retry, twice or too late; a connection announced whose transport was let go of |
| `StoppedForGood` | | a dial or a connect that resolves after the user said stop |
| `BackoffKept` | | a server that accepts and drops, hammered |
| `Recovers`, `EveryServerTried` | | a state with no timer left; an index that skips |
| `IsConnector` | | any report the session does not expect |
| `WatchHolds` | `WatchedByOneTimer`, `NeverSilentForLong` | a probe that restarts its own timeout, a timer that is no longer the one to cancel |
| `FoundOutOnWaking` | | a sleep nobody notices |
| `AnsweringServerKept` | | a timeout shorter than an answer |
| `RegisteredIsWelcomed` | | a phase that survives its connection |
| `Agrees` | `AgreesOnNick`, `AgreesOnCaps` | a nick the server has cut; capabilities that go while a request is under way |
| `AsksInOrder` | `PasswordFirst`, `NotRefusedTwice` | what is awaited before the opening lines; a nick refused that is tried again |
| `ExchangeKept` | `OpenedOnce`, `ResponsesAnswer`, `EndHeldBack` | CAP END or a response out of turn, opening lines sent twice |
| `Registers`, `RegistersUnauthenticated` | | any path through the negotiation that forgets CAP END |
| `MembersAgree` | | what a NAMES reply undoes, and what is held back for it |
| `MarksHold` | `PartedIsEmpty`, `JoinedIsIn`, `BurstIsArriving` | what is kept of a channel one has left; a burst marked that is over |
| `ShownIsWhole` | `InOrder`, `DeliveredIsLogged`, `HolesAreFlagged`, `CompleteReachesStart` | a page put in the wrong place or misjudged; a line of ours confirmed too early |
| `Confirmed` | | a line of ours confirmed never, or shown twice |
| `InFlight` | | a page waited for in vain |
| `OnlyWanted` | `StoredOnce`, `UnwantedStaysOut` | a batch put back that was partly written; a cursor that starts before the log was switched on |
| `DueIsTakenDown` | | a cursor that passes over a line |
| `IsJournal` | | a line lost, doubled or moved on its way from the queue over an append to the store |
| `Written` | `AllWritten`, `WrittenOnTheWayOut` | a flush that is not made again; a queue nobody flushes at the end |
| `RowsTell` | `RunningIsShown`, `DownloadingRuns`, `RequestedIsWatched`, `QueueIsListed` | a transfer nobody can stop; a row that waits with nothing that would move it |
| `FetchesAsAsked` | `Invited`, `SavedWhole` | an offer taken for another, or fetched with nobody having asked; a resume at the wrong place |
| `EndsWell` | `Settles`, `FailureFreesSlot` | a row that waits for ever, but for a sender that stops reading; a bot that waits for us |
| `FileIsHeld` | `SavedAsHeld` | a save from a state that is not the last |
| `NothingNeededGoes` | `NothingLost`, `ForgetsOnlyUnneeded`, `SettingsSaved` | a file written over; a password forgotten that another network shares |
| `SessionsAsAsked` | `SessionIsCurrent`, `DialsOnlyAsked` | an edit that leaves the old session; an import that connects |
| `SecretsServe` | `SendsLastTyped`, `RemovedIsForgotten` | an older password sent; one kept of a network that is gone |
| `ListsAgree` | `FriendsAgree`, `OnePollTimer` | a list not sent again, or half; a report of somebody no longer listed; a second timer |
| `BecomesKnown` | | a reply lost in a buffer, or behind a write that blocks |
| `LetGo` | `HeardFromOurs`, `Released` | events of a connection given up; a pump that goes on |
| `NoticeTrue` | | a notice that outlives its service, or counts what was |
| `StaysHeld` | | a network that drops in the back and takes the others' service with it |
| `HeldInFront` | | a start lost among stops |
| `AgreesWithServer` | `KnownHolds`, `ListShown`, `SaveTakesEffect` | letters and parameters matched wrongly; a key replaced by setting it; a table asked for at every render |
| `PendingIsTouched` | | a form that re-applies what others have changed since |

Each module's `TypeOK` is part of one of its conjunctions, so that a run checks it once.

## 6. Where code and docs disagree

The runs keep to what the code does promise, and the properties say in their guards where
that ends. Each of these appears when the guard or the constant named is changed in the
configuration named.

| Change | Fails | Why |
| --- | --- | --- |
| `Reconnecting.cfg`, `Flavours = {"websocket"}`, `OneRetryPending` or `NoStraySocket` alone | the same | a WebSocket connect that fails emits a close and rejects, and the wrapper schedules a retry for both; of the two sockets that open, one is forgotten and stays open after `disconnect()` (`websocket.ts:128`, against `session.ts:1014-1015`) |
| ... and `EveryServerTried` without `KeepsContract` | `EveryServerTried` | the same: of two servers only the first is ever dialled (against `reconnecting.ts:132`) |
| `Reconnecting.cfg`, `Flavours = {"tauri"}`, `ConnectedCarries` alone | `ConnectedCarries` | the forwarding task runs before `listen` is registered (`transport.rs:204-232`; `tauri.ts:148-149` says it does not) |
| `RegistrationSasl.cfg`, with `Registers` | `Registers` | 903 to 906 change the account or add a notice, and nothing calls `finishSasl`; the server waits for CAP END for ever |
| `RegistrationSasl.cfg`, `SlowAwaits = TRUE` | `ResponsesAnswer` | a retried drop leaves `mechanism` set (`session.ts:821`) |
| `Registration.cfg`, `Connections = 2`, with `OpenedOnce` | `OpenedOnce` | `register()` does not look again after its `await` (`session.ts:947`) |
| `Registration.cfg`, `Connections = 2` | `AgreesOnCaps` | `beginNegotiation` keeps `enabled` (`caps.ts:112`) |
| `Registration.cfg`, `Room = 0` | `NotRefusedTwice` | the candidate is cut after it was compared (`reduce.ts:1703`) |
| `Channel.cfg`, `"LEAVE"` in `Amid` | `MembersAgree` | somebody who leaves amid a NAMES reply is listed again by a later line of it (`reduce.ts:1346`) |
| `Channel.cfg`, `"NICK"` in `Amid` | `MembersAgree` | a held-back mode is replayed on an old nick (`reduce.ts:1369`) |
| `Channel.cfg`, `"drop"` in `Amid` | `BurstIsArriving`, `MembersAgree` | `namesLoading` outlives a connection, and the next NAMES reply adds to the old list |
| `Channel.cfg`, `JoinedIsIn` without `connection = 1` | `JoinedIsIn` | nothing clears `joined` when a connection ends (against `types.ts:108`) |
| `History.cfg`, `InFlight` without `~mishap` | `InFlight` | `historyPending` outlives a retried connection, and no page is asked for again |
| ... and `Retries = FALSE` | `InFlight` | FAIL leaves `historyPending` set (`reduce.ts:1223`) |
| `History.cfg`, `MaxLog = 4`, `HolesAreFlagged` without `connection = 1` | `HolesAreFlagged` | a page is compared with the oldest message held (`history.ts:274`) |
| `History.cfg`, `Limit = 2`, `CompleteReachesStart` without `Len(log) <= Limit` | `CompleteReachesStart` | trimming leaves `historyComplete` (`messages.ts:108`) |
| `History.cfg`, `InOrder` without `sent = 0` | `InOrder` | an echo keeps the place of the line it confirms (`messages.ts:156`) |
| `History.cfg`, `Repeats = TRUE` | `DeliveredIsLogged` | two equal lines of one second have one id (`messages.ts:98`) |
| `Logging.cfg`, `PurgeOverlaps = TRUE` | `IsJournal` | a purge of a text file writes back what it read before an append (`plaintext.ts:152-163`) |

Under `"plain"` transports, `scheduleRetry` after a connection that lasted goes from
the reset index 0 to 1, so a drop on the second of two servers is retried on the
second, though `reconnecting.ts:257` says every attempt moves on.

What follows was met while translating; the models contain it, and the guards of their
properties excuse it, or it is in lines that no model needed.

*Logging.* The first message of every conversation of a run is not logged
(`logging.test.ts:57` wants that). Our own line confirmed behind a later cursor, and a page
inserted behind the newest live line, never are. After such a line the cursor can be older than a
line before it, and a session begun anew, which is shown the log in the order of time, has
that line collected, or collected again. An echo replaces the id the cursor is, and
the whole buffer is collected again; with a text file, where a line written twice is there
twice (against `shared/logging.ts:63-64`), that shows after a failed append. `sqlite.ts:144`
keeps a rejected promise of opening, so a store that failed once fails for the run.

*Transfers.* A row stopped and started again before the old promise is rejected loses the
new handle (`Marmotter.tsx:1617`, against 1566-1567); progress reported late sets a stopped row to
`downloading` (`view-store.ts:1168`). An unsolicited offer answers the oldest request
(`view-store.ts:186`). An offer that cannot be read leaves a row with the status `failed` and a name of the
sender's choosing (`view-store.ts:1095-1123`, called at `Marmotter.tsx:1235-1243`). The next offer of that
name from the same sender counts as a retry of it (`view-store.ts:233`) and is fetched
(`Marmotter.tsx:2637-2645`) although nobody asked for it, against the comment at
`view-store.ts:206-210`. `Invited` has that exception and no other beside crossed rows: without `misread` in it,
it fails in `Transfers.cfg`. The acknowledgement of what has arrived is written with no timeout, outside the
select that sees a cancel (`dcc.rs:559-562`): a sender that goes on sending or holds the connection and never
reads keeps the transfer, which can then neither fail nor be stopped; the comment at 553-558 has this for
turbo senders only, which are left out of the write. Without `Stuck` in it, `Settles` fails in `Transfers.cfg`.
A passive transfer for which there is no address to give is marked cancelled, so that its place
with the bot is not given back (`Marmotter.tsx:1893-1903`, `crossed`). A late ACCEPT, or one for another file of that bot, misplaces the bytes
(`Marmotter.tsx:2208`): its position is not compared with the one asked for. A transfer that begins the
part-file anew between the shell's answer and the resumption of another of that name leaves less than the other goes on
from; the gap is filled with zeros (`crates/marmotter-transport/src/dcc.rs:507`). Dismissing a row while the shell is asked how much of its file
there is starts a transfer with no row (2125). Removing a network leaves its transfers running (1360).

*Profiles.* Waving a certificate through says "Saved for next time." (2381) and persists
nothing. A settings file that cannot be read counts as blank and is written over (774), as it is by
an edit before it was read (796). A document imported before the file was read counts as having
read it (1455), is saved, and is replaced by what is read then. Settings changed within 400 ms of quitting are lost. The keychain
is asked before the memory of this run, so after a save that failed the old password is sent (1180-1182).
A password whose file was never written stays in the keychain.

*Notify list and pump.* On a polled network WHOIS replies never touch the list
(`reduce.ts:1578-1590`, against `notify.ts:11`). A 730 or 731 that crosses a removal puts the nick
back (`reduce.ts:1534-1552`), beyond the limit too, and then somebody added since is listed and not
watched; WATCH's 602 for a nick removed and added again takes it off. A QUIT queued
before a shutdown is dropped (`connection.rs:226-228`). A pump in `write_all` sees no shutdown (233).
A line too long drops the lines completed in the same read (`lines.rs:70`).

*Android.* The last network drops in the back and registers again: the service was stopped, its
start is refused there and only logged, and coming back to the front reports nothing; there is no
service until the count next changes, against `docs/BUILDING.md:268-269`. A first notice posted before
the permission is answered is dropped, and with one network never posted again
(`App.tsx:76-85`, against 64-65). A service the platform stopped is not noticed.
The notification has no action to stop it, though `docs/BUILDING.md:270` speaks of one.

*Channel settings.* Nothing asks for a channel's modes, so that toggles start off unless a 324
came some other way. The topic field is not refilled when the topic changes
(`ChannelPanel.tsx:136-142`, against 133-135): saving anything puts the old one back. Any MODE line, a
voice as well, discards a draft, and Cancel keeps it. Which table was `requested` is kept for
the panel and not for the channel: the second channel's is never fetched, and a panel mounted again
fetches one again, whose entries are appended to those there. MODE +b and -b do not touch the tables,
though `modes.ts:174-176` says the caller routes them.

## 7. Not modelled, and the plan

Left out of the modelled components: delays and their jitter, the classification of
errors, autojoin and what else follows 376, accounts and list modes of the member list, events
of history playback, several channels at once (they share nothing but the wire; `Panel` has
two, for what the interface shares between them), `requestMissed`, which nothing calls,
searching, exporting and deleting a log, rates and the grammar of packs and CTCP, the
migration of stored settings, opening sockets and verifying certificates, and the other
three tables of the channel panel, which work as the ban table does.

The map covers about an eighth of the implementation's lines. Most of the rest has no order of
events to get right: React components that render what state they are given, dialogs and
forms, stories, tables of numerics and of wording, parsers and serialisers of
lines, colours, links and CTCP, and validation of stored values, all pure functions which the
repository's unit tests reach better than a model would; and the glue of the shells. A model of them
would restate their text.

Parts that do have an order and are not modelled:

1. *Unread marks and notifications* (`Marmotter.tsx`, `view-store.ts`). By reading: only the newest
   line at a render is looked at; unread counts are kept under the exact spelling of a name
   while conversations are found by its folded form (`view-store.ts:648`); switching to a conversation from the
   settings leaves its mark; and while the permission is asked for, further
   notifications are dropped.
2. *The channel list* (`LIST`, coalesced over many lines) in the session.
3. *Services* (`services.ts`, `chanserv.ts`, `service-commands.ts`, the Permissions tab): a probe,
   an 8 s timer that gives up on it, and a table read from the last notices of any channel.
4. *The mute list*: a pure match with an expiry.

A further proof: `ListsAgree` for `Friends`.
